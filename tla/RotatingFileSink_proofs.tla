----------------------- MODULE RotatingFileSink_proofs -----------------------
(***************************************************************************)
(* Rotations keep the files in order and forget the oldest records alone,  *)
(* for any number of files, records, kills and failed system calls.        *)
(*                                                                         *)
(* A rotation moves file i - 1 to i, from the oldest down.  What makes it  *)
(* safe at every step is Vacant: but for the oldest file, which goes, the  *)
(* place a file moves to is free, so no rename writes over a file and a    *)
(* kill between two of them leaves a gap and nothing else.  Waits says     *)
(* that the record a rotation makes room for is newer than all there are,  *)
(* and Buffered that nothing is in stdio's buffer meanwhile.               *)
(*                                                                         *)
(* Steps sorts the steps by what they do to the contents of the files;     *)
(* from there on the disk is not looked at again.                          *)
(***************************************************************************)
EXTENDS RotatingFileSink, TLAPS

Rotation == {"remove", "rename", "giveUp"}
Files == 0 .. Top

\* stdio holds back records only of an open file, and a rotation has none open.
Buffered ==
  /\ opened => pc = "idle"
  /\ buffer # <<>> => opened

\* The record that waits for a rotation is the last one, and nowhere yet.
Waits ==
  /\ rec # 0 => pc \in Rotation
  /\ rec \in Records =>
       rec = logged /\ \A f \in Files : \A m \in DOMAIN Whole(f) : Whole(f)[m] < rec

\* The files have records that were logged.
Logged == \A f \in Files : \A m \in DOMAIN Whole(f) : Whole(f)[m] <= logged

\* Only at its first step, at the oldest file, does a rotation find the place taken
\* that it moves a file to.
Vacant ==
  /\ pc = "remove" => i = maxFiles \/ i \notin DOMAIN disk
  /\ pc = "rename" => i > 0 /\ i \notin DOMAIN disk /\ i - 1 \in DOMAIN disk

Least == least <= maxFiles

RotatingInv ==
  /\ TypeOK /\ OldestFirst /\ OnlyOldestGo
  /\ Buffered /\ Waits /\ Logged /\ Vacant /\ Least

-----------------------------------------------------------------------------

LEMMA TopIs ==
  ASSUME RotatingAssumption
  PROVE  /\ Top \in Counts /\ Top \in Nat /\ \A c \in Counts : c \in Nat /\ c <= Top
         /\ Largest \in Sizes
         /\ Records = 1 .. Len(Bytes) /\ Len(Bytes) \in Nat
         /\ 0 \in Files /\ Counts \subseteq Files
<1>1. \E m \in Counts : \A c \in Counts : c <= m
  BY DEF RotatingAssumption
<1>2. Top \in Counts /\ \A c \in Counts : c <= Top
  BY <1>1 DEF Top
<1>3. \E m \in Sizes : \A s \in Sizes : s <= m
  BY DEF RotatingAssumption
<1>4. Largest \in Sizes
  BY <1>3 DEF Largest
<1>5. Counts \subseteq Nat /\ Bytes \in Seq(Nat \ {0})
  BY DEF RotatingAssumption
<1>6. QED
  BY <1>2, <1>4, <1>5 DEF Records, Files

LEMMA WholeIs ==
  ASSUME RotatingAssumption, TypeOK
  PROVE  \A f \in Files :
           /\ FileOrNone(f) \in Seq(Records) /\ Whole(f) \in Seq(Records)
           /\ DOMAIN Whole(f) = 1 .. Len(Whole(f)) /\ Len(Whole(f)) \in Nat
           /\ \A m \in DOMAIN Whole(f) : Whole(f)[m] \in Records /\ Whole(f)[m] \in Nat
<1> SUFFICES ASSUME NEW f \in Files
             PROVE  /\ FileOrNone(f) \in Seq(Records) /\ Whole(f) \in Seq(Records)
                    /\ DOMAIN Whole(f) = 1 .. Len(Whole(f)) /\ Len(Whole(f)) \in Nat
                    /\ \A m \in DOMAIN Whole(f) : Whole(f)[m] \in Records /\ Whole(f)[m] \in Nat
  OBVIOUS
<1>1. \A g \in Files : FileOrNone(g) \in Seq(Records)
  BY DEF TypeOK, FileOrNone
<1>2. buffer \in Seq(Records)
  BY DEF TypeOK
<1>3. FileOrNone(0) \o buffer \in Seq(Records)
  BY <1>1, <1>2, TopIs
<1>4. Whole(f) \in Seq(Records)
  BY <1>1, <1>3 DEF Whole
<1>5. DOMAIN Whole(f) = 1 .. Len(Whole(f)) /\ Len(Whole(f)) \in Nat
  BY <1>4
<1>6. \A m \in DOMAIN Whole(f) : Whole(f)[m] \in Records
  BY <1>4, <1>5
<1>7. Records \subseteq Nat
  BY TopIs
<1>8. QED
  BY <1>1, <1>4, <1>5, <1>6, <1>7

\* An open file is there.
LEMMA OpenFile ==
  ASSUME RotatingAssumption, TypeOK, opened
  PROVE  0 \in DOMAIN disk /\ disk[0] = FileOrNone(0) /\ Whole(0) = disk[0] \o buffer
BY DEF TypeOK, FileOrNone, Whole

LEMMA OpenParts ==
  ASSUME RotatingAssumption, TypeOK
  PROVE  /\ Len(Whole(0)) = Len(FileOrNone(0)) + Len(buffer)
         /\ Len(FileOrNone(0)) \in Nat /\ Len(buffer) \in Nat
         /\ DOMAIN FileOrNone(0) = 1 .. Len(FileOrNone(0)) /\ DOMAIN buffer = 1 .. Len(buffer)
         /\ \A m \in 1 .. Len(FileOrNone(0)) : Whole(0)[m] = FileOrNone(0)[m]
         /\ \A m \in 1 .. Len(buffer) : Whole(0)[Len(FileOrNone(0)) + m] = buffer[m]
<1>1. FileOrNone(0) \in Seq(Records)
  BY TopIs, WholeIs
<1>2. buffer \in Seq(Records)
  BY DEF TypeOK
<1>3. Whole(0) = FileOrNone(0) \o buffer
  BY DEF Whole
<1>4. QED
  BY <1>1, <1>2, <1>3

\* Nothing has a record that was not logged yet.
LEMMA PartsLogged ==
  ASSUME RotatingAssumption, TypeOK, Logged
  PROVE  /\ Range(FileOrNone(0)) \subseteq 1 .. logged
         /\ Range(buffer) \subseteq 1 .. logged
<1>1. \A m \in DOMAIN Whole(0) : Whole(0)[m] \in 1 .. logged
  BY TopIs, WholeIs DEF Logged, TypeOK
<1>2. ASSUME NEW m \in DOMAIN FileOrNone(0) PROVE FileOrNone(0)[m] \in 1 .. logged
  <2>0. m \in 1 .. Len(FileOrNone(0)) /\ m \in 1 .. Len(Whole(0))
    BY OpenParts
  <2>1. m \in DOMAIN Whole(0) /\ Whole(0)[m] = FileOrNone(0)[m]
    BY <2>0, OpenParts, TopIs, WholeIs
  <2>2. QED
    BY <1>1, <2>1
<1>3. ASSUME NEW m \in DOMAIN buffer PROVE buffer[m] \in 1 .. logged
  <2> DEFINE k == Len(FileOrNone(0)) + m
  <2>1. k \in 1 .. Len(Whole(0)) /\ m \in 1 .. Len(buffer)
    BY OpenParts
  <2>2. Whole(0)[k] = buffer[m]
    BY <2>1, OpenParts
  <2> HIDE DEF k
  <2>3. k \in DOMAIN Whole(0)
    BY <2>1, TopIs, WholeIs
  <2>4. QED
    BY <1>1, <2>2, <2>3
<1>4. QED
  BY <1>2, <1>3 DEF Range

LEMMA TypeStep ==
  ASSUME RotatingAssumption, RotatingInv, [Next]_vars
  PROVE  TypeOK'
<1> USE DEF RotatingInv
<1>1. /\ Top \in Nat /\ 0 \in Files /\ Counts \subseteq Files
      /\ Records = 1 .. Len(Bytes) /\ Len(Bytes) \in Nat
  BY TopIs
<1> DEFINE Disk(d) == DOMAIN d \subseteq Files /\ \A f \in DOMAIN d : d[f] \in Seq(Records)
<1>2. Disk(disk) /\ buffer \in Seq(Records) /\ (opened => 0 \in DOMAIN disk)
  BY DEF TypeOK, Files
<1>3. ASSUME NEW f \in Files, NEW s \in Seq(Records) PROVE Disk(With(f, s)) /\ f \in DOMAIN With(f, s)
  BY <1>2 DEF With
<1>4. FileOrNone(0) \in Seq(Records) /\ <<>> \in Seq(Records)
  BY <1>1, WholeIs
<1>5. opened => disk[0] \o buffer \in Seq(Records)
  BY <1>2
<1> DEFINE Rest == /\ maxSize \in Sizes /\ maxFiles \in Counts /\ least \in Counts
                   /\ pc \in {"down", "idle", "remove", "rename", "giveUp"}
                   /\ i \in Files /\ rec \in Records \cup {0, Constructing}
                   /\ logged \in 0 .. Len(Bytes) /\ gone \subseteq 1 .. logged
                   /\ runs \in 0 .. MaxRuns /\ faults \in 0 .. MaxFaults
<1>6. Rest
  BY DEF TypeOK, Files
<1>7. SUFFICES Disk(disk') /\ buffer' \in Seq(Records) /\ opened' \in BOOLEAN
               /\ (opened' => 0 \in DOMAIN disk') /\ Rest'
  BY DEF TypeOK, Files
<1> USE DEF Rotating, fileVars, setVars, rotateVars
<1>8. /\ maxSize' \in Sizes /\ maxFiles' \in Counts /\ least' \in Counts /\ runs' \in 0 .. MaxRuns
  <2>1. CASE UNCHANGED setVars
    BY <1>6, <2>1
  <2>2. ASSUME NEW size \in Sizes, NEW count \in Counts, NEW b \in BOOLEAN,
               Set(size, count) \/ Start(size, count, b)
        PROVE  /\ maxSize' \in Sizes /\ maxFiles' \in Counts /\ least' \in Counts
               /\ runs' \in 0 .. MaxRuns
    <3>1. maxSize' \in Sizes /\ maxFiles' \in Counts /\ least' \in Counts
      BY <1>6, <2>2 DEF Set, Start
    <3>2. runs' \in 0 .. MaxRuns
      BY <1>6, <2>2 DEF Set, Start, RotatingAssumption
    <3>3. QED
      BY <3>1, <3>2
  <2>3. QED
    BY <2>1, <2>2 DEF Next, vars, Kill, Flush, SinkItFits, SinkItTooLarge, SinkItThrows, RotateNow,
       Skip, RemoveTarget, Rename, RenameFails, Reopen, ReopenGivingUp, ReopenFails
<1>9. /\ logged' \in 0 .. Len(Bytes) /\ logged' >= logged /\ logged' \in Nat
      /\ faults' \in 0 .. MaxFaults
  <2>1. logged' = logged \/ (logged' = logged + 1 /\ logged' \in Records)
    BY DEF Next, vars, Set, Start, Kill, Flush, SinkItFits, SinkItTooLarge, SinkItThrows,
       RotateNow, Skip, RemoveTarget, Rename, RenameFails, Reopen, ReopenGivingUp, ReopenFails
  <2>2. faults' = faults \/ (faults < MaxFaults /\ faults' = faults + 1)
    BY DEF Next, vars, Set, Start, Kill, Flush, SinkItFits, SinkItTooLarge, SinkItThrows,
       RotateNow, Skip, RemoveTarget, Rename, RenameFails, Reopen, ReopenGivingUp, ReopenFails,
       Fault
  <2>3. MaxFaults \in Nat
    BY DEF RotatingAssumption
  <2>4. faults' \in 0 .. MaxFaults
    BY <1>6, <2>2, <2>3
  <2>5. QED
    BY <1>1, <1>6, <2>1, <2>4
<1>10. pc' \in {"down", "idle", "remove", "rename", "giveUp"}
  BY <1>6 DEF Next, vars, Set, Start, Kill, Flush, SinkItFits, SinkItTooLarge, SinkItThrows,
     RotateNow, Skip, RemoveTarget, Rename, RenameFails, Reopen, ReopenGivingUp, ReopenFails,
     Throw, BeginRotate
<1>11. rec' \in Records \cup {0, Constructing}
  BY <1>6 DEF Next, vars, Set, Start, Kill, Flush, SinkItFits, SinkItTooLarge, SinkItThrows,
     RotateNow, Skip, RemoveTarget, Rename, RenameFails, Reopen, ReopenGivingUp, ReopenFails,
     Throw, BeginRotate
<1>12. i' \in Files
  <2>1. CASE i' = i \/ i' = maxFiles \/ i' \in Counts
    BY <1>1, <1>6, <2>1
  <2>2. CASE i' = i - 1 /\ i > 0
    BY <1>1, <1>6, <2>2 DEF Files
  <2>3. QED
    BY <2>1, <2>2 DEF Next, vars, Set, Start, Kill, Flush, SinkItFits, SinkItTooLarge, SinkItThrows,
       RotateNow, Skip, RemoveTarget, Rename, RenameFails, Reopen, ReopenGivingUp, ReopenFails,
       BeginRotate, Vacant
<1>13. gone' \subseteq 1 .. logged'
  <2>1. gone \subseteq 1 .. logged'
    BY <1>6, <1>9
  <2>2. {rec} \cap Records \subseteq 1 .. logged'
    BY <1>1, <1>6, <1>9 DEF Waits
  <2>3. Range(FileOrNone(0)) \subseteq 1 .. logged /\ Range(buffer) \subseteq 1 .. logged
    BY PartsLogged
  <2>4. Range(FileOrNone(0)) \subseteq 1 .. logged' /\ Range(buffer) \subseteq 1 .. logged'
    BY <1>6, <1>9, <2>3
  <2>5. logged' # logged => logged' \in 1 .. logged'
    BY <1>6, <1>9
  <2>6. gone' \subseteq gone \cup ({rec} \cap Records) \cup Range(FileOrNone(0)) \cup Range(buffer)
        \/ (gone' = gone \cup {logged'} /\ logged' # logged)
    BY <1>6 DEF Next, vars, Set, Start, Kill, Flush, SinkItFits, SinkItTooLarge, SinkItThrows,
       RotateNow, Skip, RemoveTarget, Rename, RenameFails, Reopen, ReopenGivingUp, ReopenFails,
       Throw, Write
  <2>7. QED
    BY <2>1, <2>2, <2>4, <2>5, <2>6
<1>14. Disk(disk') /\ buffer' \in Seq(Records) /\ opened' \in BOOLEAN
       /\ (opened' => 0 \in DOMAIN disk')
  <2> DEFINE Goal == /\ Disk(disk') /\ buffer' \in Seq(Records) /\ opened' \in BOOLEAN
                     /\ (opened' => 0 \in DOMAIN disk')
  <2> SUFFICES Goal
    OBVIOUS
  <2>0. opened \in BOOLEAN
    BY DEF TypeOK
  <2>1. ASSUME disk' = disk, buffer' \in Seq(Records), opened' = opened \/ opened' = FALSE
        PROVE  Goal
    <3>1. Disk(disk')
      BY <1>2, <2>1
    <3>2. opened' \in BOOLEAN /\ (opened' => 0 \in DOMAIN disk')
      <4>1. CASE opened' = opened
        BY <1>2, <2>0, <2>1, <4>1
      <4>2. CASE opened' = FALSE
        BY <4>2
      <4>3. QED
        BY <2>1, <4>1, <4>2
    <3>3. QED
      BY <2>1, <3>1, <3>2
  <2>2. ASSUME NEW s \in Seq(Records), disk' = With(0, s), buffer' \in Seq(Records),
               opened' \in BOOLEAN
        PROVE  Goal
    BY <1>1, <1>3, <2>2
  <2>3. CASE \E size \in Sizes, count \in Counts :
               Set(size, count) \/ \E b \in BOOLEAN : Start(size, count, b)
    BY <1>2, <1>4, <2>1, <2>2, <2>3 DEF Set, Start
  <2>4. CASE Kill
    BY <1>4, <2>1, <2>4 DEF Kill
  <2>5. CASE Flush
    BY <1>4, <1>5, <2>0, <2>2, <2>5 DEF Flush
  <2>6. CASE SinkItFits
    <3>0. logged + 1 \in Records /\ (buffer' = buffer \/ buffer' = Append(buffer, logged + 1))
      BY <2>6 DEF SinkItFits, Write
    <3>1. buffer' \in Seq(Records)
      BY <1>2, <3>0
    <3>2. QED
      BY <2>1, <2>6, <3>1 DEF SinkItFits
  <2>7. CASE SinkItTooLarge
    <3>1. CASE disk[0] \o buffer # <<>>
      BY <1>4, <1>5, <2>2, <2>7, <3>1 DEF SinkItTooLarge, BeginRotate
    <3>2. CASE disk[0] \o buffer = <<>>
      <4>0. logged + 1 \in Records /\ (buffer' = buffer \/ buffer' = Append(buffer, logged + 1))
        BY <2>7, <3>2 DEF SinkItTooLarge, Write
      <4>1. buffer' \in Seq(Records)
        BY <1>2, <4>0
      <4>2. QED
        BY <2>1, <2>7, <3>2, <4>1 DEF SinkItTooLarge
    <3>3. QED
      BY <3>1, <3>2
  <2>8. CASE RotateNow
    BY <1>4, <1>5, <2>1, <2>2, <2>8 DEF RotateNow, BeginRotate
  <2>9. CASE Skip \/ SinkItThrows \/ RenameFails \/ UNCHANGED vars
    BY <1>2, <2>1, <2>9 DEF Skip, SinkItThrows, RenameFails, vars
  <2>10. CASE RemoveTarget
    <3>1. opened = FALSE /\ opened' = opened
      BY <2>10, <2>0 DEF RemoveTarget, Buffered
    <3>2. Disk(disk')
      BY <1>2, <2>10 DEF RemoveTarget, Without
    <3>3. QED
      BY <1>2, <2>10, <3>1, <3>2 DEF RemoveTarget
  <2>11. CASE Rename
    <3>1. opened = FALSE /\ opened' = opened
      BY <2>11, <2>0 DEF Rename, Buffered
    <3>2. i \in Files /\ i - 1 \in DOMAIN disk
      BY <1>6, <2>11 DEF Rename, Vacant
    <3>3. Disk(disk')
      BY <1>2, <2>11, <3>2 DEF Rename
    <3>4. QED
      BY <1>2, <2>11, <3>1, <3>3 DEF Rename
  <2>12. CASE Reopen
    <3>1. buffer' \in Seq(Records)
      BY <2>12 DEF Reopen
    <3>2. QED
      BY <1>4, <2>2, <2>12, <3>1 DEF Reopen
  <2>13. CASE ReopenGivingUp
    BY <1>2, <1>4, <2>2, <2>13 DEF ReopenGivingUp
  <2>14. CASE ReopenFails
    BY <1>2, <1>4, <2>0, <2>1, <2>2, <2>14 DEF ReopenFails
  <2>15. QED
    BY <2>3, <2>4, <2>5, <2>6, <2>7, <2>8, <2>9, <2>10, <2>11, <2>12, <2>13, <2>14 DEF Next
<1>15. QED
  BY <1>8, <1>9, <1>10, <1>11, <1>12, <1>13, <1>14

-----------------------------------------------------------------------------
(* The steps by what they do to the files.                                 *)

OthersSame(f) == \A g \in Files \ {f} : Whole(g)' = Whole(g)

\* A record newer than all there are.
Fresh(r) == \A f \in Files : \A m \in DOMAIN Whole(f) : Whole(f)[m] < r

Same == \A f \in Files : Whole(f)' = Whole(f)

Adds ==
  /\ OthersSame(0) /\ Whole(0)' = Append(Whole(0), logged')
  /\ logged' = logged + 1 /\ Fresh(logged')

\* The open file loses what is at its end, or all it has, and that is given up.
Drops ==
  /\ OthersSame(0)
  /\ DOMAIN Whole(0)' \subseteq DOMAIN Whole(0)
  /\ \A m \in DOMAIN Whole(0)' : Whole(0)'[m] = Whole(0)[m]
  /\ \A m \in DOMAIN Whole(0) : m \in DOMAIN Whole(0)' \/ Whole(0)[m] \in gone'

\* A file goes that is the oldest there can be.
Forgets == \E f \in Files : f >= least /\ OthersSame(f) /\ Whole(f)' = <<>>

Reopens ==
  /\ rec \in Records /\ logged' = logged /\ OthersSame(0) /\ Whole(0)' = <<rec>>
  /\ Whole(0) = <<>> \/ least = 0

\* A file gets the next number, which is free.
MovesTo(j) ==
  /\ j - 1 \in Files
  /\ Whole(j) = <<>> /\ Whole(j)' = Whole(j - 1) /\ Whole(j - 1)' = <<>>
  /\ \A f \in Files \ {j, j - 1} : Whole(f)' = Whole(f)

Moves == \E j \in Files : MovesTo(j)

\* What becomes of the records that are not on disk, and of the limit.
Accounts ==
  /\ gone \subseteq gone' /\ least' <= least /\ (least' = least \/ Same)
  /\ rec \in Records => rec' = rec \/ rec \in gone' \/ Reopens
  /\ \/ logged' = logged
     \/ logged' = logged + 1 /\ ((Same /\ logged' \in {rec'} \cup gone') \/ Adds)
  /\ rec' \in Records =>
       \/ Same /\ rec' = logged' /\ logged' = logged + 1
       \/ UNCHANGED <<rec, logged>> /\ (Same \/ Forgets \/ Moves)

\* What is done to the disk and to the buffer is done to the files.
LEMMA Untouched ==
  ASSUME disk' = disk, buffer' = buffer
  PROVE  Same
BY DEF Same, Whole, FileOrNone

LEMMA OpenGets ==
  ASSUME RotatingAssumption, NEW s, disk' = With(0, s)
  PROVE  OthersSame(0) /\ Whole(0)' = s \o buffer'
<1>1. \A g \in Files \ {0} : (g \in DOMAIN disk' <=> g \in DOMAIN disk)
                             /\ (g \in DOMAIN disk => disk'[g] = disk[g])
  BY DEF With
<1>2. 0 \in DOMAIN disk' /\ disk'[0] = s
  BY DEF With
<1>3. \A g \in Files \ {0} : Whole(g)' = Whole(g)
  BY <1>1 DEF Whole, FileOrNone
<1>4. Whole(0)' = s \o buffer'
  BY <1>2 DEF Whole, FileOrNone
<1>5. QED
  BY <1>3, <1>4 DEF OthersSame

LEMMA SameIf ==
  ASSUME OthersSame(0), Whole(0)' = Whole(0)
  PROVE  Same
BY DEF OthersSame, Same

LEMMA WithNothing ==
  ASSUME NEW S, NEW s \in Seq(S)
  PROVE  s \o <<>> = s /\ <<>> \o s = s
OBVIOUS

\* A buffer that is written out changes nothing, nor does none.
LEMMA FlushedSame ==
  ASSUME RotatingAssumption, TypeOK, opened, disk' = With(0, disk[0] \o buffer), buffer' = <<>>
  PROVE  Same
<1>1. OthersSame(0) /\ Whole(0)' = (disk[0] \o buffer) \o <<>>
  BY OpenGets
<1>2. Whole(0) = disk[0] \o buffer /\ Whole(0) \in Seq(Records)
  BY OpenFile, TopIs, WholeIs
<1>3. QED
  BY <1>1, <1>2, WithNothing, SameIf

\* Nothing was logged that is not older than the record that comes.
LEMMA NextFresh ==
  ASSUME RotatingAssumption, TypeOK, Logged
  PROVE  Fresh(logged + 1)
<1>1. logged \in Nat
  BY TopIs DEF TypeOK
<1>2. QED
  BY <1>1, WholeIs DEF Fresh, Logged

LEMMA AppendBehind ==
  ASSUME NEW S, NEW s \in Seq(S), NEW t \in Seq(S), NEW r \in S
  PROVE  s \o Append(t, r) = Append(s \o t, r)
OBVIOUS

LEMMA Steps ==
  ASSUME RotatingAssumption, RotatingInv, [Next]_vars
  PROVE  (Same \/ Adds \/ Drops \/ Forgets \/ Reopens \/ Moves) /\ Accounts
<1> USE DEF RotatingInv, Rotating, fileVars, setVars, rotateVars
<1>1. /\ Top \in Nat /\ 0 \in Files /\ Counts \subseteq Nat
      /\ Records = 1 .. Len(Bytes) /\ Len(Bytes) \in Nat
      /\ logged \in Nat /\ least \in Nat /\ maxFiles \in Nat /\ 0 \notin Records
      /\ Constructing \notin Records /\ (pc \in {"idle", "down"} => rec \notin Records)
  BY TopIs DEF TypeOK, Constructing, Waits, Rotation
<1>2. CASE UNCHANGED vars
  BY <1>1, <1>2, Untouched DEF vars, Accounts
<1>3. ASSUME NEW size \in Sizes, NEW count \in Counts, Set(size, count)
      PROVE  Same /\ Accounts
  <2>1. Same
    BY <1>3, Untouched DEF Set
  <2>2. least' <= least
    BY <1>1, <1>3 DEF Set
  <2>3. QED
    BY <1>1, <1>3, <2>1, <2>2 DEF Set, Accounts
<1>4. ASSUME NEW size \in Sizes, NEW count \in Counts, NEW b \in BOOLEAN, Start(size, count, b)
      PROVE  Same /\ Accounts
  <2>1. OthersSame(0) /\ Whole(0)' = FileOrNone(0) \o buffer'
    BY <1>4, OpenGets DEF Start
  <2>2. Same
    BY <1>4, <2>1, SameIf DEF Start, Whole
  <2>3. least' <= least
    BY <1>1, <1>4 DEF Start
  <2>4. rec \notin Records
    BY <1>1, <1>4 DEF Start, Waits, Rotation
  <2>5. QED
    BY <1>1, <1>4, <2>2, <2>3, <2>4 DEF Start, Accounts
<1>5. CASE Kill
  <2>1. OthersSame(0)
    BY <1>5 DEF Kill, OthersSame, Whole, FileOrNone
  <2>2. Whole(0)' = FileOrNone(0) \o <<>>
    BY <1>5 DEF Kill, Whole, FileOrNone
  <2>3. Whole(0)' = FileOrNone(0)
    BY <1>1, <2>2, WholeIs, WithNothing
  <2>4. /\ DOMAIN Whole(0)' \subseteq DOMAIN Whole(0)
        /\ \A m \in DOMAIN Whole(0)' : Whole(0)'[m] = Whole(0)[m]
    <3>1. DOMAIN Whole(0) = 1 .. Len(Whole(0)) /\ DOMAIN Whole(0)' = 1 .. Len(FileOrNone(0))
      BY <1>1, <2>3, OpenParts, WholeIs
    <3>2. Len(FileOrNone(0)) <= Len(Whole(0)) /\ Len(Whole(0)) \in Nat /\ Len(FileOrNone(0)) \in Nat
      BY OpenParts, <1>1, WholeIs
    <3>3. QED
      BY <2>3, <3>1, <3>2, OpenParts
  <2>5. ASSUME NEW m \in DOMAIN Whole(0), m \notin DOMAIN Whole(0)'
        PROVE  Whole(0)[m] \in gone'
    <3> DEFINE k == m - Len(FileOrNone(0))
    <3>1. m \in 1 .. Len(Whole(0)) /\ m \notin 1 .. Len(FileOrNone(0))
      BY <1>1, <2>3, <2>5, OpenParts, WholeIs
    <3>2. k \in 1 .. Len(buffer) /\ Len(FileOrNone(0)) + k = m
      BY <3>1, OpenParts
    <3> HIDE DEF k
    <3>3. Whole(0)[m] = buffer[k] /\ k \in DOMAIN buffer
      BY <3>2, OpenParts
    <3>4. buffer[k] \in Range(buffer)
      BY <3>3 DEF Range
    <3>5. QED
      BY <1>5, <3>3, <3>4 DEF Kill
  <2>6. Drops
    BY <2>1, <2>4, <2>5 DEF Drops
  <2>7. Accounts
    BY <1>1, <1>5 DEF Kill, Accounts
  <2>8. QED
    BY <2>6, <2>7
<1>6. CASE Flush
  <2>1. Same
    BY <1>6, FlushedSame DEF Flush
  <2>2. QED
    BY <1>1, <1>6, <2>1 DEF Flush, Accounts
<1>7. ASSUME pc = "idle", logged + 1 \in Records, logged' = logged + 1, disk' = disk, least' = least,
             rec' = rec,
             \/ opened /\ buffer' = Append(buffer, logged + 1) /\ gone' = gone
             \/ gone' = gone \cup {logged + 1} /\ buffer' = buffer
      PROVE  (Same \/ Adds) /\ Accounts
  <2>1. CASE gone' = gone \cup {logged + 1} /\ buffer' = buffer
    BY <1>1, <1>7, <2>1, Untouched DEF Accounts
  <2>2. CASE opened /\ buffer' = Append(buffer, logged + 1) /\ gone' = gone
    <3>1. OthersSame(0)
      BY <1>7 DEF OthersSame, Whole, FileOrNone
    <3>2. Whole(0)' = FileOrNone(0) \o Append(buffer, logged + 1)
      BY <1>7, <2>2 DEF Whole, FileOrNone
    <3>3. FileOrNone(0) \in Seq(Records) /\ buffer \in Seq(Records)
      BY <1>1, WholeIs DEF TypeOK
    <3>0. FileOrNone(0) \o Append(buffer, logged + 1) = Append(FileOrNone(0) \o buffer, logged + 1)
      BY <1>7, <3>3, AppendBehind
    <3>4. Whole(0)' = Append(FileOrNone(0) \o buffer, logged + 1)
      BY <3>0, <3>2
    <3>5. Adds
      BY <1>7, <3>1, <3>4, NextFresh DEF Adds, Whole
    <3>6. QED
      BY <1>1, <1>7, <2>2, <3>5 DEF Accounts
  <2>3. QED
    BY <1>7, <2>1, <2>2
<1>8. CASE SinkItFits
  BY <1>7, <1>8 DEF SinkItFits, Write
<1>9. CASE SinkItTooLarge
  <2>1. CASE disk[0] \o buffer # <<>>
    <3>1. Same
      BY <1>9, <2>1, FlushedSame DEF SinkItTooLarge
    <3>2. rec \notin Records
      BY <1>1, <1>9 DEF SinkItTooLarge, Waits, Rotation
    <3>3. QED
      BY <1>1, <1>9, <2>1, <3>1, <3>2 DEF SinkItTooLarge, BeginRotate, Accounts
  <2>2. CASE disk[0] \o buffer = <<>>
    BY <1>7, <1>9, <2>2 DEF SinkItTooLarge, Write
  <2>3. QED
    BY <2>1, <2>2
<1>10. CASE SinkItThrows
  BY <1>7, <1>10 DEF SinkItThrows
<1>11. CASE RotateNow
  <2>1. Same
    <3>1. CASE opened
      BY <1>11, <3>1, FlushedSame DEF RotateNow
    <3>2. CASE ~opened
      BY <1>11, <3>2, Untouched DEF RotateNow, Buffered
    <3>3. QED
      BY <3>1, <3>2
  <2>2. rec \notin Records
    BY <1>1, <1>11 DEF RotateNow, Waits, Rotation
  <2>3. QED
    BY <1>1, <1>11, <2>1, <2>2 DEF RotateNow, BeginRotate, Accounts
<1>12. CASE Skip \/ RenameFails
  <2>1. Same
    BY <1>12, Untouched DEF Skip, RenameFails
  <2>2. QED
    BY <1>1, <1>12, <2>1 DEF Skip, RenameFails, Accounts
<1>13. buffer = <<>> \/ pc = "idle"
  BY DEF Buffered
<1>14. CASE RemoveTarget
  <2>1. PICK j \in Files : j = i /\ j # 0
    BY <1>14 DEF RemoveTarget, TypeOK, Files
  <2>2. OthersSame(j)
    BY <1>14, <2>1 DEF RemoveTarget, Without, OthersSame, Whole, FileOrNone
  <2>3. Whole(j)' = <<>>
    BY <1>14, <2>1 DEF RemoveTarget, Without, Whole, FileOrNone
  <2>4. CASE j = maxFiles
    <3>1. Forgets
      BY <1>1, <2>2, <2>3, <2>4 DEF Forgets, Least
    <3>2. QED
      BY <1>1, <1>14, <3>1 DEF RemoveTarget, Accounts
  <2>5. CASE j \notin DOMAIN disk
    <3>1. Whole(j) = <<>>
      BY <2>1, <2>5 DEF Whole, FileOrNone
    <3>2. Same
      BY <2>2, <2>3, <3>1 DEF Same, OthersSame
    <3>3. QED
      BY <1>1, <1>14, <3>2 DEF RemoveTarget, Accounts
  <2>6. QED
    BY <1>14, <2>1, <2>4, <2>5 DEF RemoveTarget, Vacant
<1>15. CASE Rename
  <2>1. PICK j \in Files :
          /\ j = i /\ j > 0 /\ j - 1 \in Files /\ j \in Nat
          /\ j \notin DOMAIN disk /\ j - 1 \in DOMAIN disk
    BY <1>15 DEF Rename, Vacant, TypeOK, Files
  <2>2. buffer = <<>> /\ buffer' = <<>>
    BY <1>13, <1>15 DEF Rename
  <2>4. DOMAIN disk' = (DOMAIN disk \cup {j}) \ {j - 1} /\ disk'[j] = disk[j - 1]
        /\ \A n \in DOMAIN disk' \ {j} : disk'[n] = disk[n]
    BY <1>15, <2>1 DEF Rename
  <2>5. j # j - 1
    BY <2>1
  <2>6. /\ FileOrNone(j) = <<>> /\ FileOrNone(j)' = FileOrNone(j - 1)
        /\ FileOrNone(j - 1)' = <<>>
        /\ \A f \in Files \ {j, j - 1} : FileOrNone(f)' = FileOrNone(f)
    <3>1. FileOrNone(j) = <<>> /\ FileOrNone(j - 1)' = <<>>
      BY <2>1, <2>4 DEF FileOrNone
    <3>2. FileOrNone(j)' = FileOrNone(j - 1)
      BY <2>1, <2>4, <2>5 DEF FileOrNone
    <3>3. ASSUME NEW f \in Files \ {j, j - 1} PROVE FileOrNone(f)' = FileOrNone(f)
      <4>1. f \in DOMAIN disk' <=> f \in DOMAIN disk
        BY <2>4
      <4>2. f \in DOMAIN disk' => disk'[f] = disk[f]
        BY <2>4
      <4>3. QED
        BY <4>1, <4>2 DEF FileOrNone
    <3>4. QED
      BY <3>1, <3>2, <3>3
  <2>7. \A f \in Files : FileOrNone(f) \in Seq(Records) /\ FileOrNone(f)' \in Seq(Records)
    <3>1. \A f \in Files : FileOrNone(f) \in Seq(Records)
      BY WholeIs
    <3>2. <<>> \in Seq(Records)
      OBVIOUS
    <3>3. QED
      BY <2>1, <2>6, <3>1, <3>2
  <2>3. \A f \in Files : Whole(f) = FileOrNone(f) /\ Whole(f)' = FileOrNone(f)'
    BY <1>1, <2>2, <2>7, WithNothing DEF Whole
  <2>8. MovesTo(j)
    BY <2>1, <2>3, <2>6 DEF MovesTo
  <2>9. Moves
    BY <2>8 DEF Moves
  <2>10. QED
    BY <1>1, <1>15, <2>9 DEF Rename, Accounts
<1>16. CASE Reopen
  <2>1. OthersSame(0) /\ Whole(0)' = <<>> \o buffer'
    BY <1>16, OpenGets DEF Reopen
  <2>2. buffer = <<>> /\ i = 0 /\ (maxFiles = 0 \/ 0 \notin DOMAIN disk)
    BY <1>13, <1>16 DEF Reopen, Vacant
  <2>3. Whole(0) = <<>> \/ least = 0
    <3>1. CASE maxFiles = 0
      BY <1>1, <3>1 DEF Least
    <3>2. CASE 0 \notin DOMAIN disk
      BY <2>2, <3>2 DEF Whole, FileOrNone
    <3>3. QED
      BY <2>2, <3>1, <3>2
  <2>4. /\ logged' = logged /\ gone' = gone /\ least' = least /\ rec' = 0
    BY <1>16 DEF Reopen
  <2>5. CASE rec \in Records
    <3>1. buffer' = <<rec>>
      BY <1>16, <2>5 DEF Reopen
    <3>2. <<>> \o <<rec>> = <<rec>>
      OBVIOUS
    <3>3. Reopens
      BY <2>1, <2>3, <2>4, <2>5, <3>1, <3>2 DEF Reopens
    <3>4. QED
      BY <1>1, <2>4, <3>3 DEF Accounts
  <2>6. CASE rec \notin Records
    <3>1. buffer' = <<>>
      BY <1>16, <2>6 DEF Reopen
    <3>2. Whole(0)' = <<>>
      BY <2>1, <3>1
    <3>3. Same \/ Forgets
      <4>1. CASE Whole(0) = <<>>
        BY <2>1, <3>2, <4>1, SameIf
      <4>2. CASE least = 0
        BY <1>1, <2>1, <3>2, <4>2 DEF Forgets
      <4>3. QED
        BY <2>3, <4>1, <4>2
    <3>4. QED
      BY <1>1, <2>4, <2>6, <3>3 DEF Accounts
  <2>7. QED
    BY <2>5, <2>6
<1>17. ASSUME disk' = With(0, <<>>), buffer' = <<>>, buffer = <<>>,
              Range(FileOrNone(0)) \subseteq gone'
       PROVE  Drops
  <2>1. OthersSame(0) /\ Whole(0)' = <<>>
    BY <1>17, OpenGets
  <2>2. Whole(0) = FileOrNone(0)
    BY <1>1, <1>17, WholeIs, WithNothing DEF Whole
  <2>3. \A m \in DOMAIN Whole(0) : Whole(0)[m] \in gone'
    BY <1>17, <2>2 DEF Range
  <2>4. DOMAIN Whole(0)' = {}
    BY <2>1
  <2>5. QED
    BY <2>1, <2>3, <2>4 DEF Drops
<1>18. CASE ReopenGivingUp
  <2>1. buffer = <<>> /\ buffer' = <<>>
    BY <1>13, <1>18 DEF ReopenGivingUp
  <2>2. Drops
    BY <1>17, <1>18, <2>1 DEF ReopenGivingUp, Throw
  <2>3. QED
    BY <1>1, <1>18, <2>2 DEF ReopenGivingUp, Throw, Accounts
<1>19. CASE ReopenFails
  <2>1. buffer = <<>> /\ buffer' = <<>>
    BY <1>13, <1>19 DEF ReopenFails
  <2>2. Same \/ Drops
    <3>1. CASE disk' = disk
      BY <2>1, <3>1, Untouched
    <3>2. CASE disk' # disk
      BY <1>17, <1>19, <2>1, <3>2 DEF ReopenFails, Throw
    <3>3. QED
      BY <3>1, <3>2
  <2>3. gone \subseteq gone' /\ {rec} \cap Records \subseteq gone'
    BY <1>19 DEF ReopenFails, Throw
  <2>5. rec' = 0
    BY <1>19 DEF ReopenFails, Throw
  <2>4. QED
    BY <1>1, <1>19, <2>2, <2>3, <2>5 DEF ReopenFails, Accounts
<1>20. QED
  BY <1>2, <1>3, <1>4, <1>5, <1>6, <1>8, <1>9, <1>10, <1>11, <1>12, <1>14, <1>15, <1>16,
     <1>18, <1>19 DEF Next

-----------------------------------------------------------------------------
(* The parts of the invariant.                                             *)

LEMMA InitInv ==
  ASSUME RotatingAssumption, Init
  PROVE  RotatingInv
<1>1. /\ Top \in Counts /\ Top \in Nat /\ Largest \in Sizes /\ 0 \in Files
      /\ Len(Bytes) \in Nat
  BY TopIs
<1>2. TypeOK
  <2>1. DOMAIN disk = {} /\ buffer \in Seq(Records) /\ opened = FALSE
    BY DEF Init
  <2>2. MaxRuns \in Nat /\ MaxFaults \in Nat
    BY DEF RotatingAssumption
  <2>3. /\ maxSize \in Sizes /\ maxFiles \in Counts /\ least \in Counts
        /\ pc = "down" /\ i = 0 /\ rec = 0 /\ logged = 0 /\ gone = {} /\ runs = 0 /\ faults = 0
    BY <1>1 DEF Init
  <2>4. i \in 0 .. Top /\ logged \in 0 .. Len(Bytes)
        /\ runs \in 0 .. MaxRuns /\ faults \in 0 .. MaxFaults
    BY <1>1, <2>2, <2>3
  <2>5. QED
    BY <2>1, <2>3, <2>4 DEF TypeOK
<1>3. \A f \in Files : Whole(f) = <<>>
  <2>1. <<>> \o <<>> = <<>>
    OBVIOUS
  <2>2. QED
    BY <2>1 DEF Whole, FileOrNone, Init
<1>4. \A f \in Files : DOMAIN Whole(f) = {}
  BY <1>3
<1>5. OldestFirst /\ Logged
  BY <1>4 DEF OldestFirst, Logged, Files
<1>6. OnlyOldestGo
  BY DEF OnlyOldestGo, Init
<1>7. 0 \notin Records
  BY TopIs
<1>8. Buffered /\ Waits /\ Vacant /\ Least
  BY <1>1, <1>7 DEF Buffered, Waits, Vacant, Least, Init
<1>9. QED
  BY <1>2, <1>5, <1>6, <1>8 DEF RotatingInv

LEMMA PlacesStep ==
  ASSUME RotatingAssumption, RotatingInv, [Next]_vars
  PROVE  Buffered' /\ Vacant' /\ Least'
<1> USE DEF RotatingInv, Rotating, fileVars, setVars, rotateVars
<1>1. /\ Top \in Nat /\ 0 \in Files /\ Counts \subseteq Nat
      /\ least \in Nat /\ maxFiles \in Nat /\ i \in Nat
  BY TopIs DEF TypeOK
<1>2. Least'
  BY <1>1 DEF Least, Next, vars, Set, Start, Kill, Flush, SinkItFits, SinkItTooLarge, SinkItThrows,
     RotateNow, Skip, RemoveTarget, Rename, RenameFails, Reopen, ReopenGivingUp, ReopenFails
<1>3. Vacant'
  <2>1. CASE UNCHANGED <<pc, i, disk, maxFiles>>
    BY <2>1 DEF Vacant
  <2>2. CASE pc' \notin {"remove", "rename"}
    BY <2>2 DEF Vacant
  <2>3. CASE pc' = "remove" /\ i' = maxFiles'
    BY <2>3 DEF Vacant
  <2>4. CASE Skip
    BY <2>4 DEF Vacant, Skip
  <2>5. CASE RemoveTarget
    BY <1>1, <2>5 DEF Vacant, RemoveTarget, Without
  <2>6. CASE Rename
    BY <1>1, <2>6 DEF Vacant, Rename
  <2>7. QED
    BY <2>1, <2>2, <2>3, <2>4, <2>5, <2>6 DEF Next, vars, Set, Start, Kill, Flush, SinkItFits,
       SinkItTooLarge, SinkItThrows, RotateNow, RenameFails, Reopen, ReopenGivingUp,
       ReopenFails, BeginRotate, Throw
<1>4. opened' => pc' = "idle"
  BY DEF Buffered, Next, vars, Set, Start, Kill, Flush, SinkItFits, SinkItTooLarge,
     SinkItThrows, RotateNow, RenameFails, Reopen, ReopenGivingUp, ReopenFails, BeginRotate,
     Throw, Skip, RemoveTarget, Rename
<1>5. buffer' # <<>> => opened'
  <2>1. CASE UNCHANGED <<buffer, opened>>
    BY <2>1 DEF Buffered
  <2>2. CASE buffer' = <<>> \/ opened'
    BY <2>2
  <2>3. CASE UNCHANGED buffer /\ pc # "idle"
    BY <2>3 DEF Buffered
  <2>4. QED
    BY <2>1, <2>2, <2>3 DEF Next, vars, Set, Start, Kill, Flush, SinkItFits, SinkItTooLarge,
     SinkItThrows, RotateNow, RenameFails, Reopen, ReopenGivingUp, ReopenFails, BeginRotate,
     Throw, Skip, RemoveTarget, Rename, Write
<1>6. QED
  BY <1>2, <1>3, <1>4, <1>5 DEF Buffered

\* What is in a file after a step was in it, or in the one before it, or is new.
LEMMA Origins ==
  ASSUME RotatingAssumption, RotatingInv, [Next]_vars
  PROVE  \A f \in Files : \A m \in DOMAIN Whole(f)' :
           \/ m \in DOMAIN Whole(f) /\ Whole(f)'[m] = Whole(f)[m]
           \/ /\ f - 1 \in Files /\ MovesTo(f)
              /\ m \in DOMAIN Whole(f - 1) /\ Whole(f)'[m] = Whole(f - 1)[m]
           \/ /\ f = 0 /\ (\A n \in DOMAIN Whole(0)' : n <= m) /\ Whole(0)'[m] = logged'
              /\ Fresh(logged') /\ (Adds \/ Reopens)
<1> USE DEF RotatingInv
<1>1. 0 \in Files
  BY TopIs
<1> SUFFICES ASSUME NEW f \in Files, NEW m \in DOMAIN Whole(f)'
             PROVE  \/ m \in DOMAIN Whole(f) /\ Whole(f)'[m] = Whole(f)[m]
                    \/ /\ f - 1 \in Files /\ MovesTo(f)
                       /\ m \in DOMAIN Whole(f - 1) /\ Whole(f)'[m] = Whole(f - 1)[m]
                    \/ /\ f = 0 /\ (\A n \in DOMAIN Whole(0)' : n <= m) /\ Whole(0)'[m] = logged'
                       /\ Fresh(logged') /\ (Adds \/ Reopens)
  OBVIOUS
<1> DEFINE Old == m \in DOMAIN Whole(f) /\ Whole(f)'[m] = Whole(f)[m]
<1>2. CASE Same
  BY <1>2 DEF Same
<1>3. CASE Adds
  <2>1. CASE f # 0
    BY <1>3, <2>1 DEF Adds, OthersSame
  <2>2. CASE f = 0
    <3>1. Whole(0) \in Seq(Records) /\ Len(Whole(0)) \in Nat /\ DOMAIN Whole(0) = 1 .. Len(Whole(0))
      BY <1>1, WholeIs
    <3>2. Whole(0)' = Append(Whole(0), logged')
      BY <1>3 DEF Adds
    <3>3. Len(Whole(0)') = Len(Whole(0)) + 1 /\ DOMAIN Whole(0)' = 1 .. Len(Whole(0)) + 1
      BY <3>1, <3>2
    <3>4. CASE m \in 1 .. Len(Whole(0))
      BY <2>2, <3>1, <3>2, <3>4
    <3>5. CASE m = Len(Whole(0)) + 1
      BY <1>3, <2>2, <3>1, <3>2, <3>3, <3>5 DEF Adds
    <3>6. QED
      BY <2>2, <3>1, <3>3, <3>4, <3>5
  <2>3. QED
    BY <2>1, <2>2
<1>4. CASE Drops
  <2>1. CASE f # 0
    BY <1>4, <2>1 DEF Drops, OthersSame
  <2>2. CASE f = 0
    BY <1>4, <2>2 DEF Drops
  <2>3. QED
    BY <2>1, <2>2
<1>5. CASE Forgets
  <2>1. PICK g \in Files : OthersSame(g) /\ Whole(g)' = <<>>
    BY <1>5 DEF Forgets
  <2>2. CASE f = g
    BY <2>1, <2>2
  <2>3. CASE f # g
    BY <2>1, <2>3 DEF OthersSame
  <2>4. QED
    BY <2>2, <2>3
<1>6. CASE Reopens
  <2>1. CASE f # 0
    BY <1>6, <2>1 DEF Reopens, OthersSame
  <2>2. CASE f = 0
    <3>1. rec \in Records /\ Whole(0)' = <<rec>>
      BY <1>6 DEF Reopens
    <3>2. m = 1 /\ DOMAIN Whole(0)' = {1} /\ Whole(0)'[1] = rec
      BY <2>2, <3>1
    <3>3. rec = logged /\ Fresh(rec)
      BY <3>1 DEF Waits, Fresh
    <3>4. logged' = logged
      BY <1>6 DEF Reopens
    <3>5. QED
      BY <1>6, <2>2, <3>2, <3>3, <3>4
  <2>3. QED
    BY <2>1, <2>2
<1>7. CASE Moves
  <2>1. PICK j \in Files : MovesTo(j)
    BY <1>7 DEF Moves
  <2>2. CASE f = j
    BY <2>1, <2>2 DEF MovesTo
  <2>3. CASE f = j - 1
    BY <2>1, <2>3 DEF MovesTo
  <2>4. CASE f # j /\ f # j - 1
    BY <2>1, <2>4 DEF MovesTo
  <2>5. QED
    BY <2>2, <2>3, <2>4
<1>8. QED
  BY <1>2, <1>3, <1>4, <1>5, <1>6, <1>7, Steps

LEMMA PrimedPlaces ==
  ASSUME RotatingAssumption, RotatingInv, [Next]_vars
  PROVE  \A f \in Files : DOMAIN Whole(f)' \subseteq Nat
<1> USE DEF RotatingInv
<1> SUFFICES ASSUME NEW f \in Files, NEW m \in DOMAIN Whole(f)' PROVE m \in Nat
  OBVIOUS
<1>1. \A g \in Files : DOMAIN Whole(g) \subseteq Nat
  <2>1. \A g \in Files : DOMAIN Whole(g) = 1 .. Len(Whole(g))
    BY WholeIs
  <2>2. QED
    BY <2>1
<1>2. CASE f = 0
  <2>1. FileOrNone(0)' \in Seq(Records)
    <3>1. TypeOK'
      BY TypeStep
    <3>2. \A g \in DOMAIN disk' : disk'[g] \in Seq(Records)
      BY <3>1 DEF TypeOK
    <3>3. <<>> \in Seq(Records)
      OBVIOUS
    <3>4. CASE 0 \in DOMAIN disk'
      <4>1. FileOrNone(0)' = disk'[0]
        BY <3>4 DEF FileOrNone
      <4>2. QED
        BY <3>2, <3>4, <4>1
    <3>5. CASE 0 \notin DOMAIN disk'
      <4>1. FileOrNone(0)' = <<>>
        BY <3>5 DEF FileOrNone
      <4>2. QED
        BY <3>3, <4>1
    <3>6. QED
      BY <3>4, <3>5
  <2>2. buffer' \in Seq(Records)
    BY TypeStep DEF TypeOK
  <2>3. Whole(0)' = FileOrNone(0)' \o buffer'
    BY DEF Whole
  <2> DEFINE a == FileOrNone(0)'
             b == buffer'
  <2>6. a \in Seq(Records) /\ b \in Seq(Records) /\ Whole(0)' = a \o b
    BY <2>1, <2>2, <2>3
  <2> HIDE DEF a, b
  <2>7. a \o b \in Seq(Records)
    BY <2>6
  <2>4. Whole(0)' \in Seq(Records)
    BY <2>6, <2>7
  <2>5. QED
    BY <1>2, <2>4
<1>3. CASE f # 0
  BY <1>1, <1>3, Origins
<1>4. QED
  BY <1>2, <1>3

LEMMA LoggedStep ==
  ASSUME RotatingAssumption, RotatingInv, [Next]_vars
  PROVE  Logged'
<1> USE DEF RotatingInv
<1>1. logged \in Nat /\ logged' \in Nat /\ logged <= logged'
  BY Steps, TopIs DEF Accounts, TypeOK
<1> SUFFICES ASSUME NEW f \in Files, NEW m \in DOMAIN Whole(f)'
             PROVE  Whole(f)'[m] <= logged'
  BY DEF Logged
<1>2. ASSUME NEW g \in Files, NEW k \in DOMAIN Whole(g) PROVE Whole(g)[k] <= logged'
  <2>1. Whole(g)[k] <= logged /\ Whole(g)[k] \in Nat
    BY WholeIs DEF Logged
  <2>2. QED
    BY <1>1, <2>1
<1>3. QED
  BY <1>1, <1>2, Origins

LEMMA WaitsStep ==
  ASSUME RotatingAssumption, RotatingInv, [Next]_vars
  PROVE  Waits'
<1> USE DEF RotatingInv
<1>1. rec' # 0 => pc' \in Rotation
  BY DEF Waits, Rotation, Next, vars, Set, Start, Kill, Flush, SinkItFits, SinkItTooLarge,
     SinkItThrows, RotateNow, Skip, RemoveTarget, Rename, RenameFails, Reopen, ReopenGivingUp,
     ReopenFails, BeginRotate, Throw, rotateVars
<1>2. SUFFICES ASSUME rec' \in Records
               PROVE  rec' = logged' /\ \A f \in Files : \A m \in DOMAIN Whole(f)' : Whole(f)'[m] < rec'
  BY <1>1 DEF Waits
<1>3. CASE Same /\ rec' = logged' /\ logged' = logged + 1
  BY <1>3, NextFresh DEF Same, Fresh
<1>4. CASE UNCHANGED <<rec, logged>> /\ (Same \/ Forgets \/ Moves)
  <2>1. rec = logged /\ \A f \in Files : \A m \in DOMAIN Whole(f) : Whole(f)[m] < rec
    BY <1>2, <1>4 DEF Waits
  <2>2. CASE Same
    BY <1>4, <2>1, <2>2 DEF Same
  <2>3. CASE Forgets
    <3>1. PICK g \in Files : OthersSame(g) /\ Whole(g)' = <<>>
      BY <2>3 DEF Forgets
    <3>2. DOMAIN Whole(g)' = {}
      BY <3>1
    <3>3. QED
      BY <1>4, <2>1, <3>1, <3>2 DEF OthersSame
  <2>4. CASE Moves
    <3>1. PICK j \in Files : MovesTo(j)
      BY <2>4 DEF Moves
    <3>2. DOMAIN Whole(j - 1)' = {} /\ DOMAIN Whole(j)' = DOMAIN Whole(j - 1) /\ j - 1 \in Files
      BY <3>1 DEF MovesTo
    <3>3. ASSUME NEW f \in Files, NEW m \in DOMAIN Whole(f)' PROVE Whole(f)'[m] < rec
      <4>1. CASE f = j
        BY <2>1, <3>1, <3>2, <4>1 DEF MovesTo
      <4>2. CASE f = j - 1
        BY <3>2, <4>2
      <4>3. CASE f # j /\ f # j - 1
        BY <2>1, <3>1, <4>3 DEF MovesTo
      <4>4. QED
        BY <4>1, <4>2, <4>3
    <3>4. QED
      BY <1>4, <2>1, <3>3
  <2>5. QED
    BY <1>4, <2>2, <2>3, <2>4
<1>5. QED
  BY <1>2, <1>3, <1>4, Steps DEF Accounts

LEMMA OldestStep ==
  ASSUME RotatingAssumption, RotatingInv, [Next]_vars
  PROVE  OldestFirst'
<1> USE DEF RotatingInv
<1>1. Files \subseteq Nat /\ 0 \in Files
  BY TopIs DEF Files
<1>2. \A f, g \in Files : \A m \in DOMAIN Whole(f), n \in DOMAIN Whole(g) :
        f > g \/ (f = g /\ m < n) => Whole(f)[m] < Whole(g)[n]
  BY DEF OldestFirst, Files
<1>3. SUFFICES ASSUME NEW f \in Files, NEW g \in Files,
                      NEW m \in DOMAIN Whole(f)', NEW n \in DOMAIN Whole(g)',
                      f > g \/ (f = g /\ m < n)
               PROVE  Whole(f)'[m] < Whole(g)'[n]
  BY DEF OldestFirst, Files
<1> DEFINE Old(h, k) == k \in DOMAIN Whole(h) /\ Whole(h)'[k] = Whole(h)[k]
           Moved(h, k) == /\ h - 1 \in Files /\ MovesTo(h)
                          /\ k \in DOMAIN Whole(h - 1) /\ Whole(h)'[k] = Whole(h - 1)[k]
           New(h, k) == /\ h = 0 /\ (\A l \in DOMAIN Whole(0)' : l <= k) /\ Whole(0)'[k] = logged'
                        /\ Fresh(logged')
<1>4. /\ Old(f, m) \/ Moved(f, m) \/ New(f, m)
      /\ Old(g, n) \/ Moved(g, n) \/ New(g, n)
  BY Origins
<1>5. f \in Nat /\ g \in Nat
  BY <1>1
<1>6. CASE New(g, n)
  <2>1. CASE Old(f, m)
    BY <1>6, <2>1 DEF Fresh
  <2>2. CASE Moved(f, m)
    BY <1>6, <2>2 DEF Fresh
  <2>3. CASE New(f, m)
    <3>1. n <= m /\ m <= n /\ f = g
      BY <1>6, <2>3
    <3>2. m \in Nat /\ n \in Nat
      BY <1>1, PrimedPlaces, <1>3
    <3>3. QED
      BY <1>3, <1>5, <3>1, <3>2
  <2>4. QED
    BY <1>4, <2>1, <2>2, <2>3
<1>7. CASE New(f, m) /\ ~New(g, n)
  <2>1. f = 0 /\ g = 0 /\ m < n /\ n <= m
    BY <1>3, <1>5, <1>7
  <2>2. m \in Nat /\ n \in Nat
    BY <1>1, PrimedPlaces, <1>3
  <2>3. QED
    BY <2>1, <2>2
<1>8. CASE Old(f, m) /\ Old(g, n)
  BY <1>2, <1>3, <1>8
<1>9. CASE Old(f, m) /\ Moved(g, n)
  <2>1. f # g
    BY <1>9 DEF MovesTo
  <2>2. f > g - 1
    BY <1>3, <1>5, <2>1
  <2>3. QED
    BY <1>2, <1>9, <2>2
<1>10. CASE Moved(f, m) /\ Old(g, n)
  <2>1. f # g /\ g # f - 1
    BY <1>10 DEF MovesTo
  <2>2. f - 1 > g
    BY <1>3, <1>5, <2>1
  <2>3. QED
    BY <1>2, <1>10, <2>2
<1>11. CASE Moved(f, m) /\ Moved(g, n)
  <2>1. f = g
    <3>1. CASE g # f /\ g # f - 1
      BY <1>11, <3>1 DEF MovesTo
    <3>2. CASE g = f - 1
      BY <1>11, <3>2 DEF MovesTo
    <3>3. QED
      BY <3>1, <3>2
  <2>2. m < n
    BY <1>3, <1>5, <2>1
  <2>3. QED
    BY <1>2, <1>11, <2>1, <2>2
<1>12. QED
  BY <1>4, <1>6, <1>7, <1>8, <1>9, <1>10, <1>11

\* What OnlyOldestGo says, record by record.
Kept(r) == \E f \in 0 .. least : \E m \in DOMAIN Whole(f) : Whole(f)[m] = r
BeforeKept(r) == \A f \in 0 .. least : \A m \in DOMAIN Whole(f) : Whole(f)[m] > r

LEMMA KeptIs ==
  ASSUME OnlyOldestGo, NEW r \in 1 .. logged
  PROVE  Kept(r) \/ r \in gone \/ r = rec \/ BeforeKept(r)
BY DEF OnlyOldestGo, Kept, BeforeKept, Range

LEMMA LeastStep ==
  ASSUME RotatingAssumption, RotatingInv, [Next]_vars
  PROVE  /\ least \in Nat /\ least' \in Nat /\ least' <= least /\ (least' = least \/ Same)
         /\ 0 .. least \subseteq Files /\ 0 .. least' \subseteq Files /\ Files \subseteq Nat
<1>1. TypeOK' /\ least' <= least /\ (least' = least \/ Same)
  BY TypeStep, Steps DEF Accounts
<1>2. least \in Counts /\ least' \in Counts
  BY <1>1 DEF TypeOK, RotatingInv
<1>3. Top \in Nat /\ \A c \in Counts : c \in Nat /\ c <= Top
  BY TopIs
<1>4. least \in Nat /\ least <= Top /\ least' \in Nat /\ least' <= Top
  BY <1>2, <1>3
<1>5. QED
  BY <1>1, <1>3, <1>4 DEF Files

\* A record that was kept is kept, or given up, or older than all that are.
LEMMA KeptStep ==
  ASSUME RotatingAssumption, RotatingInv, [Next]_vars, NEW r \in 1 .. logged, Kept(r)
  PROVE  Kept(r)' \/ r \in gone' \/ BeforeKept(r)'
<1> USE DEF RotatingInv
<1>1. /\ least \in Nat /\ least' \in Nat /\ least' <= least /\ (least' = least \/ Same)
      /\ 0 .. least \subseteq Files /\ 0 .. least' \subseteq Files /\ Files \subseteq Nat
  BY LeastStep
<1>2. \A f, g \in Files : \A m \in DOMAIN Whole(f), n \in DOMAIN Whole(g) :
        f > g => Whole(f)[m] < Whole(g)[n]
  BY DEF OldestFirst, Files
<1>3. PICK f \in 0 .. least : \E m \in DOMAIN Whole(f) : Whole(f)[m] = r
  BY DEF Kept
<1>4. PICK m \in DOMAIN Whole(f) : Whole(f)[m] = r
  BY <1>3
<1>5. f \in Files /\ f \in Nat /\ f <= least
  BY <1>1
<1>6. \A h \in Files : \A k \in DOMAIN Whole(h) : Whole(h)[k] \in Nat
  BY WholeIs
<1>7. ASSUME NEW h \in Files, NEW k \in DOMAIN Whole(h), h < f PROVE Whole(h)[k] > r
  <2>1. Whole(f)[m] < Whole(h)[k]
    BY <1>2, <1>5, <1>7
  <2>2. Whole(h)[k] \in Nat /\ r \in Nat
    BY <1>6
  <2>3. QED
    BY <1>4, <2>1, <2>2
<1>8. ASSUME Whole(f)' = Whole(f), least' = least PROVE Kept(r)'
  <2>1. f \in 0 .. least' /\ m \in DOMAIN Whole(f)' /\ Whole(f)'[m] = r
    BY <1>4, <1>8
  <2>2. QED
    BY <2>1 DEF Kept
<1>9. CASE Same
  <2>1. CASE f \in 0 .. least'
    BY <1>4, <1>5, <1>9, <2>1 DEF Kept, Same
  <2>2. CASE f \notin 0 .. least'
    <3>1. \A h \in 0 .. least' : h < f /\ h \in Files
      BY <1>1, <1>5, <2>2
    <3>2. QED
      BY <1>7, <1>9, <3>1 DEF Same, BeforeKept
  <2>3. QED
    BY <2>1, <2>2
<1>10. CASE Adds /\ least' = least
  <2>1. CASE f = 0
    <3>1. Whole(0)' = Append(Whole(0), logged') /\ 0 \in Files
      BY <1>10, TopIs DEF Adds
    <3>2. Whole(0) \in Seq(Records) /\ DOMAIN Whole(0) = 1 .. Len(Whole(0))
      BY <3>1, WholeIs
    <3>3. m \in DOMAIN Whole(0)' /\ Whole(0)'[m] = r
      BY <1>4, <2>1, <3>1, <3>2
    <3>4. QED
      BY <1>10, <2>1, <3>3 DEF Kept
  <2>2. CASE f # 0
    BY <1>5, <1>8, <1>10, <2>2 DEF Adds, OthersSame
  <2>3. QED
    BY <2>1, <2>2
<1>11. CASE Drops /\ least' = least
  <2>1. CASE f = 0
    <3>1. CASE m \in DOMAIN Whole(0)'
      <4>1. Whole(0)'[m] = r
        BY <1>4, <1>11, <2>1, <3>1 DEF Drops
      <4>2. QED
        BY <1>11, <2>1, <3>1, <4>1 DEF Kept
    <3>2. CASE m \notin DOMAIN Whole(0)'
      BY <1>4, <1>11, <2>1, <3>2 DEF Drops
    <3>3. QED
      BY <3>1, <3>2
  <2>2. CASE f # 0
    BY <1>5, <1>8, <1>11, <2>2 DEF Drops, OthersSame
  <2>3. QED
    BY <2>1, <2>2
<1>12. CASE Forgets /\ least' = least
  <2>1. PICK g \in Files : g >= least /\ OthersSame(g) /\ Whole(g)' = <<>>
    BY <1>12 DEF Forgets
  <2>2. CASE f # g
    BY <1>5, <1>8, <1>12, <2>1, <2>2 DEF OthersSame
  <2>3. CASE f = g
    <3>1. ASSUME NEW h \in 0 .. least', NEW k \in DOMAIN Whole(h)' PROVE Whole(h)'[k] > r
      <4>1. h # f /\ h \in Files
        BY <1>1, <2>1, <2>3, <3>1
      <4>2. h < f
        BY <1>1, <1>5, <2>1, <2>3, <4>1
      <4>3. Whole(h)' = Whole(h)
        BY <2>1, <2>3, <4>1 DEF OthersSame
      <4>4. QED
        BY <1>7, <3>1, <4>1, <4>2, <4>3
    <3>2. QED
      BY <3>1 DEF BeforeKept
  <2>4. QED
    BY <2>2, <2>3
<1>13. CASE Reopens /\ least' = least
  <2>1. CASE f # 0
    BY <1>5, <1>8, <1>13, <2>1 DEF Reopens, OthersSame
  <2>2. CASE f = 0
    <3>1. least = 0
      BY <1>4, <1>13, <2>2 DEF Reopens
    <3>2. Whole(0)' = <<rec>> /\ rec \in Records
      BY <1>13 DEF Reopens
    <3>3. rec > r
      <4>1. r < rec
        BY <1>4, <1>5, <3>2 DEF Waits
      <4>2. QED
        BY <4>1, <3>2, TopIs
    <3>4. ASSUME NEW h \in 0 .. least', NEW k \in DOMAIN Whole(h)' PROVE Whole(h)'[k] > r
      <4>1. h = 0
        BY <1>13, <3>1
      <4>2. k = 1
        BY <3>2, <3>4, <4>1
      <4>3. QED
        BY <3>2, <3>3, <4>1, <4>2
    <3>5. QED
      BY <3>4 DEF BeforeKept
  <2>3. QED
    BY <2>1, <2>2
<1>14. CASE Moves /\ least' = least
  <2>1. PICK j \in Files : MovesTo(j)
    BY <1>14 DEF Moves
  <2>2. CASE f # j /\ f # j - 1
    BY <1>5, <1>8, <1>14, <2>1, <2>2 DEF MovesTo
  <2>3. CASE f = j
    BY <1>4, <2>1, <2>3 DEF MovesTo
  <2>4. CASE f = j - 1
    <3>1. j \in Nat
      BY <1>1
    <3>2. CASE j <= least
      <4>1. j \in 0 .. least' /\ m \in DOMAIN Whole(j)' /\ Whole(j)'[m] = r
        BY <1>1, <1>4, <1>14, <2>1, <2>4, <3>1, <3>2 DEF MovesTo
      <4>2. QED
        BY <4>1 DEF Kept
    <3>3. CASE j > least
      <4>1. ASSUME NEW h \in 0 .. least', NEW k \in DOMAIN Whole(h)' PROVE Whole(h)'[k] > r
        <5>1. h # j /\ h \in Files /\ h <= least /\ h \in Nat
          BY <1>1, <1>14, <3>1, <3>3
        <5>2. h # j - 1
          BY <2>1, <4>1 DEF MovesTo
        <5>3. Whole(h)' = Whole(h)
          BY <2>1, <5>1, <5>2 DEF MovesTo
        <5>4. h < f
          BY <1>1, <1>5, <2>4, <3>1, <3>3, <5>1, <5>2
        <5>5. QED
          BY <1>7, <4>1, <5>1, <5>3, <5>4
      <4>2. QED
        BY <4>1 DEF BeforeKept
    <3>4. QED
      BY <1>1, <3>1, <3>2, <3>3
  <2>5. QED
    BY <2>2, <2>3, <2>4
<1>15. QED
  BY <1>1, <1>9, <1>10, <1>11, <1>12, <1>13, <1>14, Steps

LEMMA OnlyOldestStep ==
  ASSUME RotatingAssumption, RotatingInv, [Next]_vars
  PROVE  OnlyOldestGo'
<1> USE DEF RotatingInv
<1>1. /\ least \in Nat /\ least' \in Nat /\ least' <= least
      /\ 0 .. least \subseteq Files /\ 0 .. least' \subseteq Files /\ Files \subseteq Nat
  BY LeastStep
<1>2. /\ logged \in Nat /\ 0 \in Files /\ Records = 1 .. Len(Bytes) /\ logged <= Len(Bytes)
      /\ Len(Bytes) \in Nat
  BY TopIs DEF TypeOK
<1>3. SUFFICES ASSUME NEW r \in 1 .. logged'
               PROVE  Kept(r)' \/ r \in gone' \/ r = rec' \/ BeforeKept(r)'
  BY DEF OnlyOldestGo, Kept, BeforeKept, Range
<1>4. 0 \in 0 .. least'
  BY <1>1
<1>5. CASE r \notin 1 .. logged
  <2>1. logged' = logged + 1 /\ r = logged'
    BY <1>2, <1>5, Steps DEF Accounts
  <2>2. CASE Adds
    <3>1. Whole(0)' = Append(Whole(0), r) /\ Whole(0) \in Seq(Records)
      BY <1>2, <2>1, <2>2, WholeIs DEF Adds
    <3>2. \E m \in DOMAIN Whole(0)' : Whole(0)'[m] = r
      <4>1. Len(Whole(0)) + 1 \in DOMAIN Whole(0)' /\ Whole(0)'[Len(Whole(0)) + 1] = r
        BY <3>1
      <4>2. QED
        BY <4>1
    <3>3. QED
      BY <1>4, <3>2 DEF Kept
  <2>3. CASE logged' \in {rec'} \cup gone'
    BY <2>1, <2>3
  <2>4. QED
    BY <1>2, <2>1, <2>2, <2>3, Steps DEF Accounts
<1>6. CASE r \in 1 .. logged /\ Kept(r)
  BY <1>6, KeptStep
<1>7. CASE r \in gone
  BY <1>7, Steps DEF Accounts
<1>8. CASE r \in 1 .. logged /\ r = rec
  <2>1. rec \in Records
    BY <1>2, <1>8
  <2>2. CASE rec' = rec \/ rec \in gone'
    BY <1>8, <2>2
  <2>3. CASE Reopens
    <3>1. Whole(0)' = <<rec>>
      BY <2>3 DEF Reopens
    <3>2. 1 \in DOMAIN Whole(0)' /\ Whole(0)'[1] = r
      BY <1>8, <3>1
    <3>3. QED
      BY <1>4, <3>2 DEF Kept
  <2>4. QED
    BY <2>1, <2>2, <2>3, Steps DEF Accounts
<1>9. CASE r \in 1 .. logged /\ r # rec /\ BeforeKept(r)
  <2> SUFFICES ASSUME NEW h \in 0 .. least', NEW k \in DOMAIN Whole(h)'
               PROVE  Whole(h)'[k] > r
    BY DEF BeforeKept
  <2>1. h \in Files /\ h \in 0 .. least /\ h \in Nat
    BY <1>1
  <2>2. CASE k \in DOMAIN Whole(h) /\ Whole(h)'[k] = Whole(h)[k]
    BY <1>9, <2>1, <2>2 DEF BeforeKept
  <2>3. CASE h - 1 \in Files /\ k \in DOMAIN Whole(h - 1) /\ Whole(h)'[k] = Whole(h - 1)[k]
    <3>1. h - 1 \in 0 .. least
      BY <1>1, <2>1, <2>3
    <3>2. QED
      BY <1>9, <2>3, <3>1 DEF BeforeKept
  <2>4. CASE h = 0 /\ Whole(0)'[k] = logged' /\ (Adds \/ Reopens)
    <3>1. CASE Adds
      BY <1>2, <1>9, <2>4, <3>1 DEF Adds
    <3>2. CASE Reopens
      <4>1. logged' = logged /\ rec = logged
        BY <3>2 DEF Reopens, Waits
      <4>2. QED
        BY <1>2, <1>9, <2>4, <4>1
    <3>3. QED
      BY <2>4, <3>1, <3>2
  <2>5. QED
    BY <2>1, <2>2, <2>3, <2>4, Origins
<1>10. QED
  BY <1>5, <1>6, <1>7, <1>8, <1>9, KeptIs

-----------------------------------------------------------------------------

LEMMA RotatingStep ==
  ASSUME RotatingAssumption, RotatingInv, [Next]_vars
  PROVE  RotatingInv'
<1>1. TypeOK' /\ OldestFirst' /\ OnlyOldestGo'
  BY TypeStep, OldestStep, OnlyOldestStep
<1>2. Buffered' /\ Vacant' /\ Least' /\ Waits' /\ Logged'
  BY PlacesStep, WaitsStep, LoggedStep
<1>3. QED
  BY <1>1, <1>2 DEF RotatingInv

\* However often the process is killed, a system call fails or the settings change,
\* in a row of files of any length, for records of any sizes: a higher number
\* means older records and none is there twice, and a rotation, or any part of
\* one, forgets the oldest records and no others, but for those that are given
\* up where a rename or an fopen failed or the buffer of a killed process is lost.
THEOREM RotationsKeepFiles == RotatingAssumption => (Spec => []RotatingFilesKept)
<1> SUFFICES ASSUME RotatingAssumption PROVE Spec => []RotatingFilesKept
  OBVIOUS
<1>1. Init => RotatingInv
  BY InitInv
<1>2. RotatingInv /\ [Next]_vars => RotatingInv'
  BY RotatingStep
<1>3. RotatingInv => RotatingFilesKept
  BY DEF RotatingInv, RotatingFilesKept
<1>4. QED
  BY <1>1, <1>2, <1>3, PTL DEF Spec

=============================================================================
