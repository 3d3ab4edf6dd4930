------------------------ MODULE DailyFileSink_proofs ------------------------
(***************************************************************************)
(* The daily sink only goes on to later files and only adds to each, what  *)
(* it was given leaves no hole in them, and where days are whole days a    *)
(* message is in the file of its own, for any calendar, any threads and    *)
(* any delays between the clock's readings.                                *)
(*                                                                         *)
(* A file is left for the day of a message not older than the rotation     *)
(* time.  So what is needed is that the rotation time is never before the  *)
(* open file's own day (Due).  It is, between the opening of a file and    *)
(* the computation of its next rotation; but then the mutex is held.       *)
(*                                                                         *)
(* A hole would be a record on disk behind one that is missing; but what a *)
(* living process has written is on disk, or in the buffer of the open     *)
(* file, or could not be written out when that was closed (Kept, Held).  A *)
(* message is in the file of its day because the rotation time is the end  *)
(* of the open file's day (LeftInTime).                                    *)
(***************************************************************************)
EXTENDS DailyFileSink, TLAPS

\* A thread that rotates or writes has the mutex (base_sink-inl.h:28).
Exclusive == \A t \in Threads : pc[t] \in {"rotate", "write"} => mutex = t

\* No message is stamped later than now.
Stamped == \A t \in Threads : msg[t].time <= now

\* Without a sink there is no open file and no call.
Closed ==
  /\ proc = "down" => fileDay = NoFile
  /\ proc # "up" => \A t \in Threads : pc[t] = "idle"

\* The day of the open file has begun.
Begun == fileDay # NoFile => Start[fileDay] <= now

\* The next rotation is not before the day of the open file.
Due ==
  proc = "up" /\ fileDay # NoFile /\ (\A t \in Threads : pc[t] # "rotate") =>
    Start[fileDay] <= rotationTp

SinkInv == TypeOK /\ Exclusive /\ Stamped /\ Closed /\ Begun /\ Due

-----------------------------------------------------------------------------

\* DayOf gives the last day that has begun.
LEMMA DayOfIs ==
  ASSUME NEW tp \in 0 .. MaxTime
  PROVE  /\ DayOf(tp) \in Days /\ Start[DayOf(tp)] \in Nat /\ Start[DayOf(tp)] <= tp
         /\ \A e \in Days : Start[e] <= tp => e <= DayOf(tp) /\ Start[e] <= Start[DayOf(tp)]
<1>1. \E d \in Days : Start[d] <= tp /\ \A e \in Days : Start[e] <= tp => e <= d
  BY DailyAssumption
<1>2. /\ DayOf(tp) \in Days /\ Start[DayOf(tp)] <= tp
      /\ \A e \in Days : Start[e] <= tp => e <= DayOf(tp)
  BY <1>1 DEF DayOf
<1>3. ASSUME NEW e \in Days, Start[e] <= tp
      PROVE  Start[e] <= Start[DayOf(tp)]
  <2>1. e <= DayOf(tp) /\ e \in Nat /\ DayOf(tp) \in Nat
    BY <1>2, <1>3, DailyAssumption
  <2>2. CASE e = DayOf(tp)
    <3>1. Start[e] \in Nat
      BY DailyAssumption
    <3> QED BY <2>2, <3>1
  <2>3. CASE e < DayOf(tp)
    <3>1. Start[e] \in Nat /\ Start[DayOf(tp)] \in Nat
      BY <1>2, DailyAssumption
    <3>2. Start[e] < Start[DayOf(tp)]
      BY <1>2, <2>3, DailyAssumption
    <3> QED BY <3>1, <3>2
  <2> QED BY <2>1, <2>2, <2>3
<1> QED BY <1>2, <1>3, DailyAssumption

LEMMA NextRotationIs ==
  ASSUME TypeOK
  PROVE  /\ NextRotationTp \in 0 .. (now + Day24)
         /\ \A d \in Days : Start[d] <= now => Start[d] <= NextRotationTp
<1>1. now \in 0 .. MaxTime /\ now \in Nat /\ Day24 \in Nat /\ Start \in [Days -> Nat]
  BY DailyAssumption DEF TypeOK
<1>2. /\ Midnight[now] \in Nat /\ Midnight[now] <= now + Day24
      /\ \A d \in Days : Start[d] <= now => Start[d] <= Midnight[now] + Day24
  BY <1>1, DailyAssumption
<1>3. CASE Midnight[now] > now
  BY <1>1, <1>2, <1>3 DEF NextRotationTp
<1>4. CASE ~(Midnight[now] > now)
  BY <1>1, <1>2, <1>4 DEF NextRotationTp
<1> QED BY <1>3, <1>4

\* What was in front stays in front.
LEMMA Prefix ==
  ASSUME NEW S, NEW s \in Seq(S), NEW u \in Seq(S)
  PROVE  /\ Len(s \o u) >= Len(s)
         /\ SubSeq(s \o u, 1, Len(s)) = s
         /\ Len(s) >= Len(s) /\ SubSeq(s, 1, Len(s)) = s
<1>1. SubSeq(s \o u, 1, Len(s)) = s
  <2>1. /\ s \o u \in Seq(S) /\ Len(s \o u) = Len(s) + Len(u)
        /\ \A i \in 1 .. Len(s) : (s \o u)[i] = s[i]
    OBVIOUS
  <2>2. SubSeq(s \o u, 1, Len(s)) = [i \in 1 .. Len(s) |-> (s \o u)[i]]
    BY <2>1
  <2>3. s = [i \in 1 .. Len(s) |-> s[i]]
    OBVIOUS
  <2> QED BY <2>1, <2>2, <2>3
<1>2. SubSeq(s, 1, Len(s)) = s
  OBVIOUS
<1> QED BY <1>1, <1>2

-----------------------------------------------------------------------------
(* The invariant.                                                          *)

LEMMA InvInit == Init => SinkInv
<1> SUFFICES ASSUME Init PROVE SinkInv
  OBVIOUS
<1>1. /\ MaxTime \in Nat /\ MaxRecs \in Nat /\ MaxRuns \in Nat /\ Day24 \in Nat
      /\ NoFile \notin Days
  BY DailyAssumption
<1>2. TypeOK
  <2>1. 0 \in 0 .. MaxTime /\ 0 \in 0 .. MaxRecs /\ 0 \in 0 .. MaxRuns /\ 0 \in 0 .. (0 + Day24)
    BY <1>1
  <2>2. \A t \in Threads : [by |-> t, n |-> 0, time |-> 0] \in Record
    BY <2>1 DEF Record
  <2>3. <<>> \in Seq(Record)
    OBVIOUS
  <2>4. msg \in [Threads -> Record] /\ disk \in [Days -> Seq(Record)]
    BY <2>2, <2>3 DEF Init
  <2> QED BY <2>1, <2>3, <2>4 DEF Init, TypeOK
<1>3. Exclusive /\ Stamped /\ Closed /\ Begun /\ Due
  BY <1>1 DEF Init, Exclusive, Stamped, Closed, Begun, Due
<1> QED BY <1>2, <1>3 DEF SinkInv

\* What a flush puts on the disk.
LEMMA FlushedIs ==
  ASSUME TypeOK
  PROVE  /\ Flushed \in [Days -> Seq(Record)]
         /\ \A d \in Days : Flushed[d] = disk[d] \/ Flushed[d] = disk[d] \o pending
<1>1. CASE fileDay = NoFile
  BY <1>1 DEF Flushed, TypeOK
<1>2. CASE fileDay # NoFile
  <2>1. fileDay \in Days /\ disk[fileDay] \o pending \in Seq(Record)
    BY <1>2 DEF TypeOK
  <2> QED BY <1>2, <2>1 DEF Flushed, TypeOK
<1> QED BY <1>1, <1>2

\* What is on the disk is at its place in what will be.
LEMMA DiskInFlushed ==
  ASSUME TypeOK, NEW d \in Days, NEW i \in 1 .. Len(disk[d])
  PROVE  i \in 1 .. Len(Flushed[d]) /\ Flushed[d][i] = disk[d][i]
<1>1. disk[d] \in Seq(Record) /\ pending \in Seq(Record)
  BY DEF TypeOK
<1>2. CASE Flushed[d] = disk[d]
  BY <1>2
<1>3. CASE Flushed[d] = disk[d] \o pending
  <2>1. /\ Len(disk[d] \o pending) = Len(disk[d]) + Len(pending)
        /\ (disk[d] \o pending)[i] = disk[d][i]
    BY <1>1
  <2>2. Len(disk[d]) \in Nat /\ Len(pending) \in Nat
    BY <1>1
  <2> QED BY <1>3, <2>1, <2>2
<1> QED BY <1>2, <1>3, FlushedIs

\* What a closing that fails writes of the buffer.
LEMMA PartIs ==
  ASSUME NEW p \in Seq(Record), NEW k \in 0 .. Len(p) - 1
  PROVE  /\ SubSeq(p, 1, k) \in Seq(Record) /\ Len(SubSeq(p, 1, k)) = k
         /\ \A i \in 1 .. k : SubSeq(p, 1, k)[i] = p[i]
         /\ {p[i] : i \in k + 1 .. Len(p)} \subseteq Record
<1>1. k \in Nat /\ Len(p) \in Nat /\ k <= Len(p)
  OBVIOUS
<1>2. \A i \in 1 .. k : i \in 1 .. Len(p) /\ p[i] \in Record
  BY <1>1
<1>3. /\ SubSeq(p, 1, k) = [i \in 1 .. k |-> p[i]]
      /\ [i \in 1 .. k |-> p[i]] \in Seq(Record)
  BY <1>1, <1>2
<1>4. \A i \in k + 1 .. Len(p) : p[i] \in Record
  BY <1>1
<1> QED BY <1>1, <1>3, <1>4

\* What closing the file puts on the disk: all that is in the buffer, or a part.
LEMMA CloseFileIs ==
  ASSUME TypeOK, CloseFile
  PROVE  /\ pending' = <<>> /\ disk' \in [Days -> Seq(Record)]
         /\ lost' \subseteq Record /\ lost \subseteq lost'
         /\ \A d \in Days :
              disk'[d] = disk[d] \/ \E u \in Seq(Record) : disk'[d] = disk[d] \o u
         /\ \A d \in Days : \A i \in 1 .. Len(disk'[d]) :
              i \in 1 .. Len(Flushed[d]) /\ Flushed[d][i] = disk'[d][i]
<1>0. /\ pending \in Seq(Record) /\ disk \in [Days -> Seq(Record)] /\ lost \subseteq Record
      /\ fileDay \in Days \cup {NoFile}
  BY DEF TypeOK
<1>1. CASE disk' = Flushed /\ UNCHANGED lost
  BY <1>0, <1>1, FlushedIs DEF CloseFile
<1>2. ASSUME NEW k \in 0 .. Len(pending) - 1, fileDay # NoFile,
             disk' = [disk EXCEPT ![fileDay] = disk[fileDay] \o SubSeq(pending, 1, k)],
             lost' = lost \cup {pending[i] : i \in k + 1 .. Len(pending)}
      PROVE  /\ disk' \in [Days -> Seq(Record)]
             /\ lost' \subseteq Record /\ lost \subseteq lost'
             /\ \A d \in Days :
                  disk'[d] = disk[d] \/ \E u \in Seq(Record) : disk'[d] = disk[d] \o u
             /\ \A d \in Days : \A i \in 1 .. Len(disk'[d]) :
                  i \in 1 .. Len(Flushed[d]) /\ Flushed[d][i] = disk'[d][i]
  <2> DEFINE u == SubSeq(pending, 1, k)
  <2>1. /\ u \in Seq(Record) /\ Len(u) = k /\ \A i \in 1 .. k : u[i] = pending[i]
        /\ lost' \subseteq Record /\ lost \subseteq lost'
    BY <1>0, <1>2, PartIs
  <2>2. disk' = [disk EXCEPT ![fileDay] = disk[fileDay] \o u]
    BY <1>2
  <2> HIDE DEF u
  <2>3. fileDay \in Days /\ disk[fileDay] \in Seq(Record) /\ disk[fileDay] \o u \in Seq(Record)
    BY <1>0, <1>2, <2>1
  <2>4. disk' \in [Days -> Seq(Record)]
    BY <1>0, <2>2, <2>3
  <2>5. \A d \in Days : disk'[d] = disk[d] \/ \E v \in Seq(Record) : disk'[d] = disk[d] \o v
    BY <1>0, <2>1, <2>2
  <2>6. ASSUME NEW d \in Days, NEW i \in 1 .. Len(disk'[d])
        PROVE  i \in 1 .. Len(Flushed[d]) /\ Flushed[d][i] = disk'[d][i]
    <3>1. CASE d # fileDay
      <4>1. disk'[d] = disk[d]
        BY <1>0, <2>2, <3>1
      <4> QED BY <4>1, DiskInFlushed
    <3>2. CASE d = fileDay
      <4> DEFINE f == disk[fileDay]
      <4>1. disk'[d] = f \o u /\ Flushed[d] = f \o pending
        BY <1>0, <1>2, <2>2, <2>3, <3>2 DEF Flushed
      <4>2. k \in Nat /\ Len(pending) \in Nat /\ k <= Len(pending) /\ f \in Seq(Record) /\ Len(f) \in Nat
        BY <1>0, <2>3
      <4> HIDE DEF f
      <4>3. Len(f \o u) = Len(f) + k /\ Len(f \o pending) = Len(f) + Len(pending)
        BY <1>0, <2>1, <4>2
      <4>4. CASE i \in 1 .. Len(f)
        <5>1. (f \o u)[i] = f[i] /\ (f \o pending)[i] = f[i]
          BY <1>0, <2>1, <4>2, <4>4
        <5> QED BY <4>1, <4>2, <4>3, <4>4, <5>1
      <4>5. CASE i \notin 1 .. Len(f)
        <5>1. PICK j \in 1 .. k : i = Len(f) + j
          <6>1. i \in 1 .. Len(f) + k
            BY <4>1, <4>3
          <6> QED BY <4>2, <4>5, <6>1
        <5>2. (f \o u)[i] = u[j] /\ (f \o pending)[i] = pending[j]
          BY <1>0, <2>1, <4>2, <5>1
        <5> QED BY <2>1, <4>1, <4>2, <4>3, <5>1, <5>2
      <4> QED BY <4>4, <4>5
    <3> QED BY <3>1, <3>2
  <2> QED BY <2>1, <2>4, <2>5, <2>6
<1>3. pending' = <<>>
  BY DEF CloseFile
<1> QED BY <1>1, <1>2, <1>3 DEF CloseFile

LEMMA ConstructKeepsInv ==
  ASSUME SinkInv, ConstructOpen \/ ConstructRotation
  PROVE  SinkInv'
<1>0. /\ TypeOK /\ Exclusive /\ Stamped /\ Closed /\ Begun /\ Due
      /\ now \in 0 .. MaxTime /\ MaxRuns \in Nat /\ NoFile \notin Days
  BY DailyAssumption DEF SinkInv, TypeOK
<1>1. CASE ConstructOpen
  <2>1. DayOf(now) \in Days /\ Start[DayOf(now)] <= now
    BY <1>0, DayOfIs
  <2>2. /\ \/ proc' = "named" /\ fileDay' = DayOf(now)
           \/ proc' = "down" /\ fileDay' = NoFile
        /\ CloseFile /\ written' = <<>>
        /\ runs < MaxRuns /\ runs' = runs + 1 /\ proc = "down"
        /\ UNCHANGED <<now, crossed, mutex, pc, msg, count, rotationTp>>
    BY <1>1 DEF ConstructOpen, Open, OpenFails, clockVars, threadVars
  <2>3. pending' = <<>> /\ disk' \in [Days -> Seq(Record)] /\ lost' \subseteq Record
    BY <1>0, <2>2, CloseFileIs
  <2>4. TypeOK'
    BY <1>0, <2>1, <2>2, <2>3 DEF TypeOK
  <2>5. Exclusive' /\ Stamped' /\ Closed' /\ Begun' /\ Due'
    BY <1>0, <2>1, <2>2 DEF Exclusive, Stamped, Closed, Begun, Due
  <2> QED BY <2>4, <2>5 DEF SinkInv
<1>2. CASE ConstructRotation
  <2>1. /\ NextRotationTp \in 0 .. (now + Day24)
        /\ \A d \in Days : Start[d] <= now => Start[d] <= NextRotationTp
    BY <1>0, NextRotationIs
  <2>2. /\ proc' = "up" /\ proc = "named" /\ rotationTp' = NextRotationTp
        /\ UNCHANGED <<now, crossed, runs, mutex, pc, msg, count, fileDay, pending, disk,
                       written, lost>>
    BY <1>2 DEF ConstructRotation, clockVars, threadVars
  <2>3. TypeOK'
    BY <1>0, <2>1, <2>2 DEF TypeOK
  <2>4. Exclusive' /\ Stamped' /\ Closed' /\ Begun'
    BY <1>0, <2>2 DEF Exclusive, Stamped, Closed, Begun
  <2>5. Due'
    BY <1>0, <2>1, <2>2 DEF Due, Begun, TypeOK
  <2> QED BY <2>3, <2>4, <2>5 DEF SinkInv
<1> QED BY <1>1, <1>2

\* A step of a thread: from one place to another, within a running process.
LEMMA GotoIs ==
  ASSUME TypeOK, NEW t \in Threads, NEW from, NEW to \in {"idle", "enter", "rotate", "write"},
         Goto(t, from, to)
  PROVE  /\ proc = "up" /\ proc' = "up" /\ now' = now /\ crossed' = crossed /\ runs' = runs
         /\ pc[t] = from /\ pc'[t] = to
         /\ pc' \in [Threads -> {"idle", "enter", "rotate", "write"}]
         /\ \A u \in Threads \ {t} : pc'[u] = pc[u]
BY DEF Goto, TypeOK, clockVars, procVars

LEMMA StampKeepsInv ==
  ASSUME SinkInv, NEW t \in Threads, Stamp(t)
  PROVE  SinkInv'
<1>0. /\ TypeOK /\ Exclusive /\ Stamped /\ Closed /\ Begun /\ Due
      /\ now \in 0 .. MaxTime /\ MaxRecs \in Nat
  BY DailyAssumption DEF SinkInv, TypeOK
<1>1. /\ proc = "up" /\ proc' = "up" /\ now' = now /\ crossed' = crossed /\ runs' = runs
      /\ pc[t] = "idle" /\ pc'[t] = "enter"
      /\ pc' \in [Threads -> {"idle", "enter", "rotate", "write"}]
      /\ \A u \in Threads \ {t} : pc'[u] = pc[u]
  BY <1>0, GotoIs DEF Stamp
<1>2. /\ count[t] < MaxRecs /\ count' = [count EXCEPT ![t] = @ + 1]
      /\ msg' = [msg EXCEPT ![t] = [by |-> t, n |-> count[t] + 1, time |-> now]]
      /\ UNCHANGED <<mutex, fileDay, rotationTp, pending, disk, written, lost>>
  BY DEF Stamp, fileVars
<1>3. count[t] + 1 \in 0 .. MaxRecs
  BY <1>0, <1>2 DEF TypeOK
<1>4. [by |-> t, n |-> count[t] + 1, time |-> now] \in Record
  BY <1>0, <1>3 DEF Record
<1>5. TypeOK'
  BY <1>0, <1>1, <1>2, <1>3, <1>4 DEF TypeOK
<1>6. Exclusive' /\ Closed' /\ Begun'
  BY <1>0, <1>1, <1>2 DEF Exclusive, Closed, Begun
<1>7. Stamped'
  BY <1>0, <1>1, <1>2 DEF Stamped, TypeOK
<1>8. Due'
  BY <1>0, <1>1, <1>2 DEF Due
<1> QED BY <1>5, <1>6, <1>7, <1>8 DEF SinkInv

LEMMA EnterKeepsInv ==
  ASSUME SinkInv, NEW t \in Threads, Enter(t) \/ EnterOpen(t) \/ EnterOpenFails(t)
  PROVE  SinkInv'
<1>0. /\ TypeOK /\ Exclusive /\ Stamped /\ Closed /\ Begun /\ Due
      /\ now \in 0 .. MaxTime /\ NoThread \notin Threads /\ NoFile \notin Days
  BY DailyAssumption DEF SinkInv, TypeOK
<1>1. mutex = NoThread /\ \A u \in Threads : pc[u] \notin {"rotate", "write"}
  BY <1>0 DEF Enter, EnterOpen, EnterOpenFails, Exclusive
<1>2. msg[t].time \in 0 .. MaxTime /\ msg[t].time <= now
  BY <1>0 DEF Stamped, TypeOK, Record
<1>3. CASE Enter(t)
  <2>1. /\ proc = "up" /\ proc' = "up" /\ now' = now /\ crossed' = crossed /\ runs' = runs
        /\ pc[t] = "enter" /\ pc'[t] = "write"
        /\ pc' \in [Threads -> {"idle", "enter", "rotate", "write"}]
        /\ \A u \in Threads \ {t} : pc'[u] = pc[u]
    BY <1>0, <1>3, GotoIs DEF Enter
  <2>2. mutex' = t /\ UNCHANGED <<msg, count, fileDay, rotationTp, pending, disk, written, lost>>
    BY <1>3 DEF Enter, fileVars
  <2>3. TypeOK'
    BY <1>0, <2>1, <2>2 DEF TypeOK
  <2>4. Exclusive' /\ Stamped' /\ Closed' /\ Begun' /\ Due'
    BY <1>0, <1>1, <2>1, <2>2 DEF Exclusive, Stamped, Closed, Begun, Due
  <2> QED BY <2>3, <2>4 DEF SinkInv
<1>4. CASE EnterOpen(t)
  <2>1. /\ proc = "up" /\ proc' = "up" /\ now' = now /\ crossed' = crossed /\ runs' = runs
        /\ pc[t] = "enter" /\ pc'[t] = "rotate"
        /\ pc' \in [Threads -> {"idle", "enter", "rotate", "write"}]
        /\ \A u \in Threads \ {t} : pc'[u] = pc[u]
    BY <1>0, <1>4, GotoIs DEF EnterOpen
  <2>2. /\ mutex' = t /\ fileDay' = DayOf(msg[t].time) /\ CloseFile
        /\ UNCHANGED <<msg, count, rotationTp, written>>
    BY <1>4 DEF EnterOpen, Open
  <2>3. /\ DayOf(msg[t].time) \in Days /\ Start[DayOf(msg[t].time)] \in Nat
        /\ Start[DayOf(msg[t].time)] <= msg[t].time
        /\ pending' = <<>> /\ disk' \in [Days -> Seq(Record)] /\ lost' \subseteq Record
    BY <1>0, <1>2, <2>2, DayOfIs, CloseFileIs
  <2>4. TypeOK'
    BY <1>0, <2>1, <2>2, <2>3 DEF TypeOK
  <2>5. Exclusive' /\ Stamped' /\ Closed' /\ Due'
    BY <1>0, <1>1, <2>1, <2>2 DEF Exclusive, Stamped, Closed, Due
  <2>6. Begun'
    BY <1>0, <1>2, <2>1, <2>2, <2>3 DEF Begun
  <2> QED BY <2>4, <2>5, <2>6 DEF SinkInv
<1>5. CASE EnterOpenFails(t)
  <2>1. /\ proc = "up" /\ proc' = "up" /\ now' = now /\ crossed' = crossed /\ runs' = runs
        /\ pc[t] = "enter" /\ pc'[t] = "idle"
        /\ pc' \in [Threads -> {"idle", "enter", "rotate", "write"}]
        /\ \A u \in Threads \ {t} : pc'[u] = pc[u]
    BY <1>0, <1>5, GotoIs DEF EnterOpenFails
  <2>2. /\ fileDay' = NoFile /\ CloseFile
        /\ UNCHANGED <<mutex, msg, count, rotationTp, written>>
    BY <1>5 DEF EnterOpenFails, OpenFails
  <2>3. pending' = <<>> /\ disk' \in [Days -> Seq(Record)] /\ lost' \subseteq Record
    BY <1>0, <2>2, CloseFileIs
  <2>4. TypeOK'
    BY <1>0, <2>1, <2>2, <2>3 DEF TypeOK
  <2>5. Exclusive' /\ Stamped' /\ Closed' /\ Begun' /\ Due'
    BY <1>0, <1>1, <2>1, <2>2 DEF Exclusive, Stamped, Closed, Begun, Due
  <2> QED BY <2>4, <2>5 DEF SinkInv
<1> QED BY <1>3, <1>4, <1>5

LEMMA RotateKeepsInv ==
  ASSUME SinkInv, NEW t \in Threads, Rotate(t)
  PROVE  SinkInv'
<1>0. /\ TypeOK /\ Exclusive /\ Stamped /\ Closed /\ Begun /\ Due
      /\ now \in 0 .. MaxTime
  BY DEF SinkInv, TypeOK
<1>1. /\ proc = "up" /\ proc' = "up" /\ now' = now /\ crossed' = crossed /\ runs' = runs
      /\ pc[t] = "rotate" /\ pc'[t] = "write"
      /\ pc' \in [Threads -> {"idle", "enter", "rotate", "write"}]
      /\ \A u \in Threads \ {t} : pc'[u] = pc[u]
  BY <1>0, GotoIs DEF Rotate
<1>2. /\ rotationTp' = NextRotationTp
      /\ UNCHANGED <<mutex, msg, count, fileDay, pending, disk, written, lost>>
  BY DEF Rotate
<1>3. /\ NextRotationTp \in 0 .. (now + Day24)
      /\ \A d \in Days : Start[d] <= now => Start[d] <= NextRotationTp
  BY <1>0, NextRotationIs
<1>4. TypeOK'
  BY <1>0, <1>1, <1>2, <1>3 DEF TypeOK
<1>5. Exclusive' /\ Stamped' /\ Closed' /\ Begun'
  BY <1>0, <1>1, <1>2 DEF Exclusive, Stamped, Closed, Begun
<1>6. Due'
  BY <1>0, <1>2, <1>3 DEF Due, Begun, TypeOK
<1> QED BY <1>4, <1>5, <1>6 DEF SinkInv

\* What writing a record does to the buffer and the disk.
LEMMA WriteIs ==
  ASSUME TypeOK, NEW t \in Threads, Write(t)
  PROVE  /\ pending' \in Seq(Record) /\ disk' \in [Days -> Seq(Record)]
         /\ written' \in Seq(Record)
         /\ disk' = disk \/
            (fileDay \in Days /\ \E u \in Seq(Record) :
               disk' = [disk EXCEPT ![fileDay] = disk[fileDay] \o u])
<1>1. msg[t] \in Record /\ pending \in Seq(Record) /\ written \in Seq(Record)
      /\ disk \in [Days -> Seq(Record)] /\ fileDay \in Days \cup {NoFile}
  BY DEF TypeOK
<1>2. CASE UNCHANGED <<pending, disk, written>>
  BY <1>1, <1>2
<1>3. CASE fileDay # NoFile /\ WriteBuffer(msg[t])
  <2>1. written' \in Seq(Record) /\ fileDay \in Days
    BY <1>1, <1>3 DEF WriteBuffer
  <2>2. CASE pending' = Append(pending, msg[t]) /\ UNCHANGED disk
    BY <1>1, <2>1, <2>2
  <2>3. CASE /\ pending' = <<>>
             /\ disk' = [disk EXCEPT ![fileDay] = (@ \o pending) \o <<msg[t]>>]
    <3>1. /\ pending \o <<msg[t]>> \in Seq(Record)
          /\ (disk[fileDay] \o pending) \o <<msg[t]>> = disk[fileDay] \o (pending \o <<msg[t]>>)
          /\ disk[fileDay] \o (pending \o <<msg[t]>>) \in Seq(Record)
      BY <1>1, <2>1
    <3>2. disk' = [disk EXCEPT ![fileDay] = disk[fileDay] \o (pending \o <<msg[t]>>)]
      BY <2>3, <3>1
    <3>3. disk' \in [Days -> Seq(Record)]
      BY <1>1, <2>1, <3>1, <3>2
    <3>4. \E u \in Seq(Record) : disk' = [disk EXCEPT ![fileDay] = disk[fileDay] \o u]
      BY <3>1, <3>2
    <3>5. pending' \in Seq(Record)
      BY <2>3
    <3> QED BY <2>1, <3>3, <3>4, <3>5
  <2> QED BY <1>3, <2>2, <2>3 DEF WriteBuffer
<1> QED BY <1>2, <1>3 DEF Write

LEMMA WriteKeepsInv ==
  ASSUME SinkInv, NEW t \in Threads, Write(t)
  PROVE  SinkInv'
<1>0. /\ TypeOK /\ Exclusive /\ Stamped /\ Closed /\ Begun /\ Due
      /\ NoThread \notin Threads
  BY DailyAssumption DEF SinkInv
<1>1. /\ proc = "up" /\ proc' = "up" /\ now' = now /\ crossed' = crossed /\ runs' = runs
      /\ pc[t] = "write" /\ pc'[t] = "idle"
      /\ pc' \in [Threads -> {"idle", "enter", "rotate", "write"}]
      /\ \A u \in Threads \ {t} : pc'[u] = pc[u]
  BY <1>0, GotoIs DEF Write
<1>2. mutex' = NoThread /\ UNCHANGED <<msg, count, fileDay, rotationTp, lost>>
  BY DEF Write
<1>3. TypeOK'
  BY <1>0, <1>1, <1>2, WriteIs DEF TypeOK
<1>4. Exclusive' /\ Stamped' /\ Closed' /\ Begun' /\ Due'
  BY <1>0, <1>1, <1>2 DEF Exclusive, Stamped, Closed, Begun, Due
<1> QED BY <1>3, <1>4 DEF SinkInv

LEMMA EnvironmentKeepsInv ==
  ASSUME SinkInv, Tick \/ EndProcess \/ UNCHANGED vars
  PROVE  SinkInv'
<1>0. /\ TypeOK /\ Exclusive /\ Stamped /\ Closed /\ Begun /\ Due
      /\ NoThread \notin Threads /\ NoFile \notin Days /\ Day24 \in Nat
      /\ now \in 0 .. MaxTime /\ MaxTime \in Nat /\ rotationTp \in 0 .. (now + Day24)
      /\ Start \in [Days -> Nat]
  BY DailyAssumption DEF SinkInv, TypeOK
<1>1. CASE Tick
  <2>1. /\ now < MaxTime /\ now' = now + 1 /\ crossed' \in BOOLEAN
        /\ UNCHANGED <<proc, runs, mutex, pc, msg, count,
                       fileDay, rotationTp, pending, disk, written, lost>>
    BY <1>0, <1>1 DEF Tick, procVars, threadVars, fileVars, TypeOK
  <2>2. now' \in 0 .. MaxTime /\ rotationTp \in 0 .. (now' + Day24)
    BY <1>0, <2>1
  <2>3. TypeOK'
    BY <1>0, <2>1, <2>2 DEF TypeOK
  <2>4. Exclusive' /\ Closed' /\ Due'
    BY <1>0, <2>1 DEF Exclusive, Closed, Due
  <2>5. Stamped'
    <3> SUFFICES ASSUME NEW t \in Threads PROVE msg[t].time <= now + 1
      BY <2>1 DEF Stamped
    <3>1. msg[t].time \in Nat /\ msg[t].time <= now
      BY <1>0 DEF Stamped, TypeOK, Record
    <3> QED BY <1>0, <3>1
  <2>6. Begun'
    BY <1>0, <2>1 DEF Begun, TypeOK
  <2> QED BY <2>3, <2>4, <2>5, <2>6 DEF SinkInv
<1>2. CASE EndProcess
  <2>1. /\ proc' = "down" /\ mutex' = NoThread /\ pc' = [t \in Threads |-> "idle"]
        /\ fileDay' = NoFile
        /\ CloseFile \/ (pending' = <<>> /\ UNCHANGED <<disk, lost>>)
        /\ UNCHANGED <<now, crossed, runs, msg, count, rotationTp, written>>
    BY <1>2 DEF EndProcess, clockVars
  <2>2. pending' = <<>> /\ disk' \in [Days -> Seq(Record)] /\ lost' \subseteq Record
    <3>1. CASE CloseFile
      BY <1>0, <3>1, CloseFileIs
    <3>2. CASE pending' = <<>> /\ UNCHANGED <<disk, lost>>
      BY <1>0, <3>2 DEF TypeOK
    <3> QED BY <2>1, <3>1, <3>2
  <2>3. TypeOK'
    BY <1>0, <2>1, <2>2 DEF TypeOK
  <2>4. Exclusive' /\ Stamped' /\ Closed' /\ Begun' /\ Due'
    BY <1>0, <2>1 DEF Exclusive, Stamped, Closed, Begun, Due
  <2> QED BY <2>3, <2>4 DEF SinkInv
<1>3. CASE UNCHANGED vars
  BY <1>0, <1>3 DEF vars, clockVars, procVars, threadVars, fileVars, SinkInv, TypeOK,
                    Exclusive, Stamped, Closed, Begun, Due
<1> QED BY <1>1, <1>2, <1>3

LEMMA InvNext == SinkInv /\ [Next]_vars => SinkInv'
BY ConstructKeepsInv, StampKeepsInv, EnterKeepsInv, RotateKeepsInv, WriteKeepsInv,
   EnvironmentKeepsInv DEF Next, Thread

-----------------------------------------------------------------------------
(* The theorem.                                                            *)

LEMMA StepGoesOn ==
  ASSUME SinkInv, [Next]_vars, fileDay # NoFile, fileDay' # NoFile
  PROVE  fileDay' >= fileDay
<1>0. TypeOK /\ Closed /\ Due /\ Exclusive /\ fileDay \in Days /\ fileDay \in Nat
  BY DailyAssumption DEF SinkInv, TypeOK
<1>1. CASE fileDay' = fileDay
  BY <1>0, <1>1
<1>2. ASSUME NEW t \in Threads, EnterOpen(t)
      PROVE  fileDay' >= fileDay
  <2>1. /\ proc = "up" /\ mutex = NoThread /\ msg[t].time >= rotationTp
        /\ fileDay' = DayOf(msg[t].time)
    BY <1>2 DEF EnterOpen, Goto, ShouldRotate, Open
  <2>2. Start[fileDay] <= rotationTp
    BY <1>0, <2>1, DailyAssumption DEF Due, Exclusive
  <2>3. msg[t].time \in 0 .. MaxTime /\ rotationTp \in Nat /\ Start[fileDay] \in Nat
    BY <1>0, DailyAssumption DEF TypeOK, Record
  <2>4. Start[fileDay] <= msg[t].time
    BY <2>1, <2>2, <2>3
  <2>5. fileDay <= DayOf(msg[t].time) /\ DayOf(msg[t].time) \in Nat
    BY <1>0, <2>3, <2>4, DayOfIs, DailyAssumption
  <2> QED BY <1>0, <2>1, <2>5
<1>3. CASE ConstructOpen
  BY <1>0, <1>3 DEF ConstructOpen, Closed
<1>4. CASE ConstructRotation \/ Tick \/ EndProcess \/ UNCHANGED vars
  BY <1>1, <1>4 DEF ConstructRotation, Tick, EndProcess, vars, fileVars
<1>5. ASSUME NEW t \in Threads,
             Stamp(t) \/ Enter(t) \/ EnterOpenFails(t) \/ Rotate(t) \/ Write(t)
      PROVE  fileDay' >= fileDay
  BY <1>1, <1>5 DEF Stamp, Enter, EnterOpenFails, OpenFails, Rotate, Write, fileVars
<1> QED BY <1>2, <1>3, <1>4, <1>5 DEF Next, Thread

LEMMA StepOnlyAdds ==
  ASSUME SinkInv, [Next]_vars, NEW d \in Days
  PROVE  Len(disk'[d]) >= Len(disk[d]) /\ SubSeq(disk'[d], 1, Len(disk[d])) = disk[d]
<1>0. TypeOK /\ disk \in [Days -> Seq(Record)] /\ pending \in Seq(Record)
  BY DEF SinkInv, TypeOK
<1>1. disk'[d] = disk[d] \/ \E u \in Seq(Record) : disk'[d] = disk[d] \o u
  <2>1. CASE CloseFile
    BY <1>0, <2>1, CloseFileIs
  <2>2. CASE disk' = disk
    BY <2>2
  <2>3. ASSUME NEW t \in Threads, Write(t)
        PROVE  disk'[d] = disk[d] \/ \E u \in Seq(Record) : disk'[d] = disk[d] \o u
    <3>1. CASE disk' = disk
      BY <3>1
    <3>2. CASE fileDay \in Days /\ \E u \in Seq(Record) :
                 disk' = [disk EXCEPT ![fileDay] = disk[fileDay] \o u]
      <4>1. PICK u \in Seq(Record) : disk' = [disk EXCEPT ![fileDay] = disk[fileDay] \o u]
        BY <3>2
      <4>2. disk'[d] = IF d = fileDay THEN disk[d] \o u ELSE disk[d]
        BY <1>0, <4>1
      <4> QED BY <4>2
    <3> QED BY <1>0, <2>3, <3>1, <3>2, WriteIs
  <2>4. CASE ConstructOpen \/ EndProcess
    BY <2>1, <2>2, <2>4 DEF ConstructOpen, EndProcess, Open, OpenFails
  <2>5. CASE ConstructRotation \/ Tick \/ UNCHANGED vars
    BY <2>2, <2>5 DEF ConstructRotation, Tick, vars, fileVars
  <2>6. ASSUME NEW t \in Threads,
               Stamp(t) \/ Enter(t) \/ EnterOpen(t) \/ EnterOpenFails(t) \/ Rotate(t)
        PROVE  CloseFile \/ disk' = disk
    BY <2>6 DEF Stamp, Enter, EnterOpen, EnterOpenFails, Open, OpenFails, Rotate, fileVars
  <2> QED BY <2>1, <2>2, <2>3, <2>4, <2>5, <2>6 DEF Next, Thread
<1>2. disk[d] \in Seq(Record)
  BY <1>0
<1> QED BY <1>1, <1>2, Prefix

\* Whatever the stamps, the delays and the failures, an open file is replaced
\* by a file of the same or a later day only, and every file only grows
\* (daily_file_sink.h:106-122, file_helper-inl.h:26-58).
THEOREM SinkGoesOnward == Spec => OnwardOnly
<1>1. SinkInv /\ [Next]_vars =>
        [fileDay # NoFile /\ fileDay' # NoFile => fileDay' >= fileDay]_vars
  BY StepGoesOn
<1>2. SinkInv /\ [Next]_vars =>
        [\A d \in Days : /\ Len(disk'[d]) >= Len(disk[d])
                         /\ SubSeq(disk'[d], 1, Len(disk[d])) = disk[d]]_vars
  BY StepOnlyAdds
<1> QED BY <1>1, <1>2, InvInit, InvNext, PTL DEF Spec, OnwardOnly, FilesInOrder, OnlyGrows

-----------------------------------------------------------------------------
(* Nothing but the tail of what was written is missing, and each file is   *)
(* in the order of the calls.                                              *)
(*                                                                         *)
(* What a file will have when the buffer is flushed (Flushed) is what the  *)
(* invariant is about: opening, closing and flushing do not change it, and *)
(* writing a record appends to it, in the buffer or on the disk.           *)

InOrder(s) ==
  \A i, j \in 1 .. Len(s) : i < j /\ s[i].by = s[j].by => s[i].n < s[j].n

\* A thread's message is the last it has begun.
Own == \A t \in Threads : msg[t].by = t /\ msg[t].n = count[t]

\* The buffer belongs to the open file.
Held == fileDay = NoFile => pending = <<>>

\* No record is of a later call than its thread has begun, and none of the
\* call its thread is in.
Numbered ==
  \A d \in Days : \A i \in 1 .. Len(Flushed[d]) :
    LET r == Flushed[d][i] IN
      r.n <= count[r.by] /\ (pc[r.by] # "idle" => r.n < count[r.by])

FilesOrdered == \A d \in Days : InOrder(Flushed[d])

\* What a living process has written is on the disk or in the buffer, but what
\* could not be written out.
Kept ==
  proc # "down" =>
    \A i \in 1 .. Len(written) :
      \/ written[i] \in OnDisk \cup lost
      \/ \E j \in 1 .. Len(pending) : written[i] = pending[j]

HolesInv == Own /\ Held /\ Numbered /\ FilesOrdered /\ Kept /\ TailOnly

\* What a step does to the file: nothing; close it, perhaps to open another;
\* lose what is in the buffer; or add thread t's record.
Leaves ==
  UNCHANGED <<fileDay, pending, disk, written, lost>> /\ (proc' # "down" => proc # "down")
Closes ==
  CloseFile /\ (written' = <<>> \/ (written' = written /\ proc # "down"))
Loses ==
  pending' = <<>> /\ UNCHANGED <<disk, written, lost>> /\ proc' = "down" /\ fileDay' = NoFile
Adds(t) ==
  /\ proc # "down" /\ fileDay \in Days /\ pc[t] = "write" /\ pc'[t] = "idle"
  /\ UNCHANGED <<fileDay, count, lost>>
  /\ written' = Append(written, msg[t])
  /\ \/ pending' = Append(pending, msg[t]) /\ UNCHANGED disk
     \/ /\ pending' = <<>>
        /\ disk' = [disk EXCEPT ![fileDay] = (@ \o pending) \o <<msg[t]>>]

LEMMA FileSteps ==
  ASSUME TypeOK, [Next]_vars
  PROVE  Leaves \/ Closes \/ Loses \/ \E t \in Threads : Adds(t)
<1>1. CASE ConstructOpen
  BY <1>1 DEF ConstructOpen, Open, OpenFails, Closes
<1>2. CASE ConstructRotation
  BY <1>2 DEF ConstructRotation, Leaves
<1>3. CASE Tick \/ UNCHANGED vars
  BY <1>3 DEF Tick, vars, fileVars, procVars, Leaves
<1>4. CASE EndProcess
  BY <1>4 DEF EndProcess, Closes, Loses
<1>5. ASSUME NEW t \in Threads, Thread(t)
      PROVE  Leaves \/ Closes \/ Adds(t)
  <2>1. proc = "up" /\ proc' = proc
    BY <1>5 DEF Thread, Stamp, Enter, EnterOpen, EnterOpenFails, Rotate, Write, Goto, procVars
  <2>2. CASE Stamp(t) \/ Enter(t) \/ Rotate(t)
    BY <2>1, <2>2 DEF Stamp, Enter, Rotate, fileVars, Leaves
  <2>3. CASE EnterOpen(t) \/ EnterOpenFails(t)
    BY <2>1, <2>3 DEF EnterOpen, EnterOpenFails, Open, OpenFails, Closes
  <2>4. CASE Write(t)
    <3>1. pc[t] = "write" /\ pc'[t] = "idle" /\ UNCHANGED <<count, fileDay, lost>>
      BY <2>4 DEF Write, Goto, TypeOK
    <3>2. CASE UNCHANGED <<pending, disk, written>>
      BY <2>1, <3>1, <3>2 DEF Leaves
    <3>3. CASE fileDay # NoFile /\ WriteBuffer(msg[t])
      BY <2>1, <3>1, <3>3 DEF WriteBuffer, Adds, TypeOK
    <3> QED BY <2>4, <3>2, <3>3 DEF Write
  <2> QED BY <1>5, <2>2, <2>3, <2>4 DEF Thread
<1> QED BY <1>1, <1>2, <1>3, <1>4, <1>5 DEF Next

\* Calls are only begun: a thread newly in a call has counted it.
LEMMA CallsGoOn ==
  ASSUME TypeOK, [Next]_vars, NEW u \in Threads
  PROVE  /\ count'[u] >= count[u]
         /\ pc'[u] # "idle" => pc[u] # "idle" \/ count'[u] > count[u]
<1>0. count[u] \in Nat
  BY DailyAssumption DEF TypeOK
<1>1. ASSUME UNCHANGED count, pc'[u] # "idle" => pc[u] # "idle"
      PROVE  /\ count'[u] >= count[u]
             /\ pc'[u] # "idle" => pc[u] # "idle" \/ count'[u] > count[u]
  BY <1>0, <1>1
<1>2. CASE ConstructOpen \/ ConstructRotation \/ Tick \/ UNCHANGED vars
  BY <1>1, <1>2 DEF ConstructOpen, ConstructRotation, Tick, vars, threadVars
<1>3. CASE EndProcess
  BY <1>1, <1>3 DEF EndProcess
<1>4. ASSUME NEW t \in Threads, Thread(t)
      PROVE  /\ count'[u] >= count[u]
             /\ pc'[u] # "idle" => pc[u] # "idle" \/ count'[u] > count[u]
  <2>1. CASE Stamp(t)
    <3>1. count' = [count EXCEPT ![t] = count[t] + 1] /\ pc' = [pc EXCEPT ![t] = "enter"]
      BY <2>1 DEF Stamp, Goto
    <3> QED BY <1>0, <3>1 DEF TypeOK
  <2>2. CASE Enter(t) \/ EnterOpen(t) \/ EnterOpenFails(t) \/ Rotate(t) \/ Write(t)
    <3>1. UNCHANGED count /\ (pc'[u] # "idle" => pc[u] # "idle")
      BY <2>2 DEF Enter, EnterOpen, EnterOpenFails, Rotate, Write, Goto, TypeOK
    <3> QED BY <1>1, <3>1
  <2> QED BY <1>4, <2>1, <2>2 DEF Thread
<1> QED BY <1>2, <1>3, <1>4 DEF Next

LEMMA OwnKept ==
  ASSUME TypeOK, Own, [Next]_vars
  PROVE  Own'
<1>1. ASSUME UNCHANGED <<msg, count>> PROVE Own'
  BY <1>1 DEF Own
<1>2. ASSUME NEW t \in Threads, Stamp(t) PROVE Own'
  <2>1. /\ count' = [count EXCEPT ![t] = count[t] + 1]
        /\ msg' = [msg EXCEPT ![t] = [by |-> t, n |-> count[t] + 1, time |-> now]]
    BY <1>2 DEF Stamp
  <2> QED BY <2>1 DEF Own, TypeOK
<1>3. ASSUME NEW t \in Threads, Enter(t) \/ EnterOpen(t) \/ EnterOpenFails(t) \/ Rotate(t) \/ Write(t)
      PROVE  UNCHANGED <<msg, count>>
  BY <1>3 DEF Enter, EnterOpen, EnterOpenFails, Rotate, Write
<1>4. CASE ConstructOpen \/ ConstructRotation \/ Tick \/ EndProcess \/ UNCHANGED vars
  BY <1>1, <1>4 DEF ConstructOpen, ConstructRotation, Tick, EndProcess, vars, threadVars
<1> QED BY <1>1, <1>2, <1>3, <1>4 DEF Next, Thread

\* With nothing in the buffer the files are as they will be.
LEMMA NothingHeld ==
  ASSUME fileDay \in Days \cup {NoFile}, disk \in [Days -> Seq(Record)], pending = <<>>
  PROVE  Flushed = disk
<1>1. CASE fileDay = NoFile
  BY <1>1 DEF Flushed
<1>2. CASE fileDay # NoFile
  <2>1. fileDay \in Days /\ disk[fileDay] \in Seq(Record)
    BY <1>2
  <2>2. disk[fileDay] \o <<>> = disk[fileDay]
    BY <2>1
  <2>3. Flushed = [disk EXCEPT ![fileDay] = disk[fileDay] \o pending]
    BY <1>2 DEF Flushed
  <2> QED BY <2>2, <2>3
<1> QED BY <1>1, <1>2

\* What a file will have: as before, or what is on the disk, or one record more.
LEMMA FlushedSteps ==
  ASSUME TypeOK, TypeOK'
  PROVE  /\ Leaves => Flushed' = Flushed
         /\ Closes => Flushed' = disk'
         /\ Loses => Flushed' = disk
         /\ \A t \in Threads : Adds(t) =>
              Flushed' = [Flushed EXCEPT ![fileDay] = Append(@, msg[t])]
<1>0. /\ disk \in [Days -> Seq(Record)] /\ pending \in Seq(Record)
      /\ fileDay' \in Days \cup {NoFile} /\ disk' \in [Days -> Seq(Record)]
  BY DEF TypeOK
<1>1. pending' = <<>> => Flushed' = disk'
  <2> SUFFICES ASSUME pending' = <<>> PROVE Flushed' = disk'
    OBVIOUS
  <2>1. CASE fileDay' = NoFile
    BY <2>1 DEF Flushed
  <2>2. CASE fileDay' # NoFile
    <3>1. fileDay' \in Days /\ disk'[fileDay'] \in Seq(Record)
      BY <1>0, <2>2
    <3>2. disk'[fileDay'] \o <<>> = disk'[fileDay']
      BY <3>1
    <3>3. Flushed' = [disk' EXCEPT ![fileDay'] = disk'[fileDay'] \o pending']
      BY <2>2 DEF Flushed
    <3> QED BY <1>0, <3>2, <3>3
  <2> QED BY <2>1, <2>2
<1>2. Leaves => Flushed' = Flushed
  BY DEF Leaves, Flushed
<1>3. ASSUME NEW t \in Threads, Adds(t)
      PROVE  Flushed' = [Flushed EXCEPT ![fileDay] = Append(@, msg[t])]
  <2>1. /\ msg[t] \in Record /\ fileDay \in Days /\ fileDay # NoFile /\ fileDay' = fileDay
        /\ disk[fileDay] \in Seq(Record)
    BY <1>0, <1>3, DailyAssumption DEF TypeOK, Adds
  <2>2. /\ Flushed = [disk EXCEPT ![fileDay] = disk[fileDay] \o pending]
        /\ Flushed' = [disk' EXCEPT ![fileDay] = disk'[fileDay] \o pending']
    BY <2>1 DEF Flushed
  <2>3. (disk[fileDay] \o pending) \o <<msg[t]>> = Append(disk[fileDay] \o pending, msg[t])
    BY <1>0, <2>1
  <2>4. CASE pending' = Append(pending, msg[t]) /\ disk' = disk
    <3>1. disk[fileDay] \o Append(pending, msg[t]) = Append(disk[fileDay] \o pending, msg[t])
      BY <1>0, <2>1
    <3> QED BY <1>0, <2>1, <2>2, <2>4, <3>1
  <2>5. CASE /\ pending' = <<>>
             /\ disk' = [disk EXCEPT ![fileDay] = (@ \o pending) \o <<msg[t]>>]
    <3>1. disk' = [disk EXCEPT ![fileDay] = Append(disk[fileDay] \o pending, msg[t])]
      BY <2>3, <2>5
    <3>2. Flushed' = disk'
      BY <1>1, <2>5
    <3> QED BY <1>0, <2>1, <2>2, <3>1, <3>2
  <2> QED BY <1>3, <2>4, <2>5 DEF Adds
<1>4. Closes => Flushed' = disk'
  BY <1>1 DEF Closes, CloseFile
<1>5. Loses => Flushed' = disk
  BY <1>1 DEF Loses
<1> QED BY <1>2, <1>3, <1>4, <1>5

\* When the buffer is lost or the file is closed, what the file will have was
\* to be there.
LEMMA FlushedWasTo ==
  ASSUME TypeOK, TypeOK', Closes \/ Loses, NEW d \in Days, NEW i \in 1 .. Len(Flushed'[d])
  PROVE  i \in 1 .. Len(Flushed[d]) /\ Flushed[d][i] = Flushed'[d][i]
<1>1. CASE Closes
  <2>1. Flushed' = disk' /\ CloseFile
    BY <1>1, FlushedSteps DEF Closes
  <2> QED BY <2>1, CloseFileIs
<1>2. CASE Loses
  <2>1. Flushed' = disk
    BY <1>2, FlushedSteps
  <2> QED BY <2>1, DiskInFlushed
<1> QED BY <1>1, <1>2

LEMMA NumberedKept ==
  ASSUME TypeOK, TypeOK', Own, Numbered, [Next]_vars
  PROVE  Numbered'
<1> DEFINE Old(r) == r.n <= count[r.by] /\ (pc[r.by] # "idle" => r.n < count[r.by])
           New(r) == r.n <= count'[r.by] /\ (pc'[r.by] # "idle" => r.n < count'[r.by])
<1>0. /\ Flushed \in [Days -> Seq(Record)] /\ disk \in [Days -> Seq(Record)]
      /\ MaxRecs \in Nat
  BY FlushedIs, DailyAssumption DEF TypeOK
<1>1. ASSUME NEW r \in Record, Old(r) PROVE New(r)
  <2>1. r.by \in Threads /\ r.n \in Nat
    BY <1>0 DEF Record
  <2>2. count[r.by] \in Nat /\ count'[r.by] \in Nat
    BY <1>0, <2>1 DEF TypeOK
  <2>3. /\ count'[r.by] >= count[r.by]
        /\ pc'[r.by] # "idle" => pc[r.by] # "idle" \/ count'[r.by] > count[r.by]
    BY <2>1, CallsGoOn
  <2> QED BY <1>1, <2>1, <2>2, <2>3
<1>2. \A d \in Days : \A i \in 1 .. Len(Flushed[d]) : Flushed[d][i] \in Record /\ Old(Flushed[d][i])
  <2> SUFFICES ASSUME NEW d \in Days, NEW i \in 1 .. Len(Flushed[d])
               PROVE  Flushed[d][i] \in Record /\ Old(Flushed[d][i])
    OBVIOUS
  <2>1. Flushed[d] \in Seq(Record)
    BY <1>0
  <2> QED BY <2>1 DEF Numbered
<1>3. \A d \in Days : \A i \in 1 .. Len(Flushed[d]) : New(Flushed[d][i])
  BY <1>1, <1>2
<1>4. SUFFICES ASSUME NEW d \in Days, NEW i \in 1 .. Len(Flushed'[d])
               PROVE  New(Flushed'[d][i])
  BY DEF Numbered
<1> HIDE DEF Old, New
<1>5. CASE Leaves
  BY <1>3, <1>4, <1>5, FlushedSteps
<1>6. CASE Closes \/ Loses
  <2>1. i \in 1 .. Len(Flushed[d]) /\ Flushed[d][i] = Flushed'[d][i]
    BY <1>4, <1>6, FlushedWasTo
  <2>2. New(Flushed[d][i])
    BY <1>3, <2>1
  <2> QED BY <2>1, <2>2
<1>7. ASSUME NEW t \in Threads, Adds(t) PROVE New(Flushed'[d][i])
  <2>1. Flushed' = [Flushed EXCEPT ![fileDay] = Append(Flushed[fileDay], msg[t])] /\ fileDay \in Days
    BY <1>7, FlushedSteps DEF Adds
  <2>2. New(msg[t])
    <3>1. pc'[t] = "idle" /\ count' = count /\ msg[t].by = t /\ msg[t].n = count[t] /\ count[t] \in Nat
      BY <1>0, <1>7 DEF Adds, Own, TypeOK
    <3> QED BY <3>1 DEF New
  <2>3. CASE d # fileDay \/ i \in 1 .. Len(Flushed[d])
    <3>1. Flushed[d] \in Seq(Record)
      BY <1>0
    <3>2. i \in 1 .. Len(Flushed[d]) /\ Flushed'[d][i] = Flushed[d][i]
      BY <1>0, <2>1, <2>3, <3>1
    <3> QED BY <1>3, <3>2
  <2>4. CASE d = fileDay /\ i \notin 1 .. Len(Flushed[d])
    <3>1. Flushed[d] \in Seq(Record)
      BY <1>0
    <3>2. Flushed'[d] = Append(Flushed[d], msg[t])
      BY <1>0, <2>1, <2>4
    <3>3. Flushed'[d][i] = msg[t]
      BY <2>4, <3>1, <3>2
    <3> QED BY <2>2, <3>3
  <2> QED BY <2>3, <2>4
<1> QED BY <1>5, <1>6, <1>7, FileSteps

LEMMA OrderedAppend ==
  ASSUME NEW s \in Seq(Record), NEW r \in Record, InOrder(s),
         \A i \in 1 .. Len(s) : s[i].by = r.by => s[i].n < r.n
  PROVE  InOrder(Append(s, r))
<1>1. SUFFICES ASSUME NEW i \in 1 .. Len(s) + 1, NEW j \in 1 .. Len(s) + 1, i < j,
                      Append(s, r)[i].by = Append(s, r)[j].by
               PROVE  Append(s, r)[i].n < Append(s, r)[j].n
  BY DEF InOrder
<1>2. i \in 1 .. Len(s) /\ Append(s, r)[i] = s[i]
  BY <1>1
<1>3. CASE j \in 1 .. Len(s)
  BY <1>1, <1>2, <1>3 DEF InOrder
<1>4. CASE j = Len(s) + 1
  BY <1>1, <1>2, <1>4
<1> QED BY <1>3, <1>4

LEMMA FilesOrderedKept ==
  ASSUME TypeOK, TypeOK', Own, Numbered, FilesOrdered, [Next]_vars
  PROVE  FilesOrdered'
<1>0. Flushed \in [Days -> Seq(Record)] /\ disk \in [Days -> Seq(Record)]
  BY FlushedIs DEF TypeOK
<1>1. SUFFICES ASSUME NEW d \in Days PROVE InOrder(Flushed'[d])
  BY DEF FilesOrdered, InOrder
<1>2. InOrder(Flushed[d])
  BY DEF FilesOrdered
<1>3. CASE Leaves
  BY <1>2, <1>3, FlushedSteps
<1>4. CASE Closes \/ Loses
  <2>1. \A i \in 1 .. Len(Flushed'[d]) : i \in 1 .. Len(Flushed[d]) /\ Flushed[d][i] = Flushed'[d][i]
    BY <1>4, FlushedWasTo
  <2> QED BY <1>2, <2>1 DEF InOrder
<1>5. ASSUME NEW t \in Threads, Adds(t) PROVE InOrder(Flushed'[d])
  <2>1. Flushed' = [Flushed EXCEPT ![fileDay] = Append(Flushed[fileDay], msg[t])] /\ fileDay \in Days
    BY <1>5, FlushedSteps DEF Adds
  <2>2. CASE d # fileDay
    BY <1>0, <1>2, <2>1, <2>2
  <2>3. CASE d = fileDay
    <3>1. msg[t] \in Record /\ msg[t].by = t /\ msg[t].n = count[t] /\ pc[t] = "write"
      BY <1>5 DEF Adds, Own, TypeOK
    <3>2. Flushed[d] \in Seq(Record)
      BY <1>0
    <3>3. \A i \in 1 .. Len(Flushed[d]) : Flushed[d][i].by = msg[t].by => Flushed[d][i].n < msg[t].n
      BY <3>1 DEF Numbered
    <3>4. InOrder(Append(Flushed[d], msg[t]))
      BY <1>2, <3>1, <3>2, <3>3, OrderedAppend
    <3> QED BY <1>0, <2>1, <2>3, <3>4
  <2> QED BY <2>2, <2>3
<1> QED BY <1>3, <1>4, <1>5, FileSteps

LEMMA HeldKept ==
  ASSUME TypeOK, Held, [Next]_vars
  PROVE  Held'
<1>1. CASE Leaves
  BY <1>1 DEF Leaves, Held
<1>2. CASE Closes \/ Loses
  BY <1>2 DEF Closes, CloseFile, Loses, Held
<1>3. ASSUME NEW t \in Threads, Adds(t) PROVE Held'
  BY <1>3, DailyAssumption DEF Adds, Held
<1> QED BY <1>1, <1>2, <1>3, FileSteps

\* Nothing leaves the disk, and closing the file puts the buffer there but what
\* it loses.
LEMMA OnDiskIs ==
  ASSUME TypeOK
  PROVE  \A r : r \in OnDisk <=> \E d \in Days : \E i \in 1 .. Len(disk[d]) : r = disk[d][i]
BY DEF OnDisk

LEMMA ClosedOnDisk ==
  ASSUME TypeOK, Held, CloseFile
  PROVE  /\ OnDisk \subseteq OnDisk'
         /\ \A j \in 1 .. Len(pending) : pending[j] \in OnDisk' \cup lost'
<1>0. /\ pending \in Seq(Record) /\ disk \in [Days -> Seq(Record)]
      /\ fileDay \in Days \cup {NoFile}
  BY DEF TypeOK
<1>1. ASSUME NEW r \in OnDisk PROVE r \in OnDisk'
  <2>1. PICK d \in Days : \E i \in 1 .. Len(disk[d]) : r = disk[d][i]
    BY OnDiskIs
  <2>2. PICK i \in 1 .. Len(disk[d]) : r = disk[d][i]
    BY <2>1
  <2>3. CASE disk'[d] = disk[d]
    BY <2>2, <2>3 DEF OnDisk
  <2>4. ASSUME NEW u \in Seq(Record), disk'[d] = disk[d] \o u
        PROVE  r \in OnDisk'
    <3>1. i \in 1 .. Len(disk'[d]) /\ disk'[d][i] = r
      BY <1>0, <2>2, <2>4
    <3> QED BY <3>1 DEF OnDisk
  <2> QED BY <2>3, <2>4, CloseFileIs
<1>2. ASSUME NEW j \in 1 .. Len(pending) PROVE pending[j] \in OnDisk' \cup lost'
  <2>1. fileDay \in Days /\ fileDay # NoFile /\ disk[fileDay] \in Seq(Record)
    BY <1>0 DEF Held
  <2>2. ASSUME NEW u \in Seq(Record), disk'[fileDay] = disk[fileDay] \o u,
               j \in 1 .. Len(u), u[j] = pending[j]
        PROVE  pending[j] \in OnDisk'
    <3>1. /\ Len(disk[fileDay]) + j \in 1 .. Len(disk'[fileDay])
          /\ disk'[fileDay][Len(disk[fileDay]) + j] = pending[j]
      BY <2>1, <2>2
    <3> QED BY <2>1, <3>1 DEF OnDisk
  <2>3. CASE disk' = Flushed
    <3>1. disk'[fileDay] = disk[fileDay] \o pending
      BY <1>0, <2>1, <2>3 DEF Flushed
    <3> QED BY <1>0, <2>2, <3>1
  <2>4. ASSUME NEW k \in 0 .. Len(pending) - 1,
               disk' = [disk EXCEPT ![fileDay] = disk[fileDay] \o SubSeq(pending, 1, k)],
               lost' = lost \cup {pending[i] : i \in k + 1 .. Len(pending)}
        PROVE  pending[j] \in OnDisk' \cup lost'
    <3>1. CASE j \in 1 .. k
      <4>1. /\ SubSeq(pending, 1, k) \in Seq(Record) /\ j \in 1 .. Len(SubSeq(pending, 1, k))
            /\ SubSeq(pending, 1, k)[j] = pending[j]
        BY <1>0, <3>1, PartIs
      <4>2. disk'[fileDay] = disk[fileDay] \o SubSeq(pending, 1, k)
        BY <1>0, <2>1, <2>4
      <4> QED BY <2>2, <4>1, <4>2
    <3>2. CASE j \notin 1 .. k
      <4>1. j \in k + 1 .. Len(pending)
        BY <1>0, <3>2
      <4> QED BY <2>4, <4>1
    <3> QED BY <3>1, <3>2
  <2> QED BY <2>3, <2>4 DEF CloseFile
<1> QED BY <1>1, <1>2

LEMMA AddedOnDisk ==
  ASSUME TypeOK, TypeOK', NEW t \in Threads, Adds(t),
         disk' = [disk EXCEPT ![fileDay] = (@ \o pending) \o <<msg[t]>>]
  PROVE  /\ OnDisk \subseteq OnDisk' /\ msg[t] \in OnDisk'
         /\ \A j \in 1 .. Len(pending) : pending[j] \in OnDisk'
<1>0. /\ msg[t] \in Record /\ pending \in Seq(Record) /\ fileDay \in Days
      /\ disk \in [Days -> Seq(Record)] /\ disk[fileDay] \in Seq(Record)
  BY DEF TypeOK, Adds
<1> DEFINE f == (disk[fileDay] \o pending) \o <<msg[t]>>
<1>1. /\ Len(f) = Len(disk[fileDay]) + Len(pending) + 1
      /\ \A i \in 1 .. Len(disk[fileDay]) : f[i] = disk[fileDay][i]
      /\ \A j \in 1 .. Len(pending) : f[Len(disk[fileDay]) + j] = pending[j]
      /\ f[Len(disk[fileDay]) + Len(pending) + 1] = msg[t]
  BY <1>0
<1>2. disk' = [disk EXCEPT ![fileDay] = f]
  OBVIOUS
<1>3. Len(disk[fileDay]) \in Nat /\ Len(pending) \in Nat
  BY <1>0
<1> HIDE DEF f
<1>4. disk'[fileDay] = f
  BY <1>0, <1>2
<1>5. ASSUME NEW r \in OnDisk PROVE r \in OnDisk'
  <2>1. PICK d \in Days : \E i \in 1 .. Len(disk[d]) : r = disk[d][i]
    BY OnDiskIs
  <2>2. PICK i \in 1 .. Len(disk[d]) : r = disk[d][i]
    BY <2>1
  <2>3. i \in 1 .. Len(disk'[d]) /\ disk'[d][i] = r
    BY <1>0, <1>1, <1>2, <1>3, <2>2
  <2> QED BY <2>3 DEF OnDisk
<1>6. ASSUME NEW k \in 1 .. Len(f) PROVE f[k] \in OnDisk'
  <2>1. f[k] \in {disk'[fileDay][i] : i \in 1 .. Len(disk'[fileDay])}
    BY <1>4
  <2> QED BY <1>0, <2>1 DEF OnDisk
<1>7. /\ Len(disk[fileDay]) + Len(pending) + 1 \in 1 .. Len(f)
      /\ \A j \in 1 .. Len(pending) : Len(disk[fileDay]) + j \in 1 .. Len(f)
  BY <1>1, <1>3
<1> QED BY <1>1, <1>5, <1>6, <1>7

\* A record being added is on the disk of no day: it is of a later call than
\* every record its thread has there.
LEMMA AddedIsNew ==
  ASSUME TypeOK, Own, Numbered, NEW t \in Threads, Adds(t)
  PROVE  msg[t] \notin OnDisk
<1>1. SUFFICES ASSUME NEW d \in Days, NEW i \in 1 .. Len(disk[d]), msg[t] = disk[d][i]
               PROVE  FALSE
  BY DEF OnDisk
<1>2. i \in 1 .. Len(Flushed[d]) /\ Flushed[d][i] = msg[t]
  BY <1>1, DiskInFlushed
<1>3. pc[t] = "write" /\ msg[t].by = t /\ msg[t].n = count[t] /\ count[t] \in Nat
  BY DailyAssumption DEF Adds, Own, TypeOK
<1> QED BY <1>2, <1>3 DEF Numbered

LEMMA KeptKept ==
  ASSUME TypeOK, TypeOK', Own, Held, Numbered, Kept, TailOnly, [Next]_vars
  PROVE  Kept' /\ TailOnly'
<1>0. written \in Seq(Record) /\ pending \in Seq(Record)
  BY DEF TypeOK
<1>1. CASE Leaves
  <2>1. OnDisk' = OnDisk /\ lost' = lost
    BY <1>1 DEF Leaves, OnDisk
  <2> QED BY <1>1, <2>1 DEF Leaves, Kept, TailOnly
<1>2. CASE Closes
  <2>1. CASE written' = <<>>
    BY <2>1 DEF Kept, TailOnly
  <2>2. CASE written' = written /\ proc # "down"
    <3>1. \A i \in 1 .. Len(written) :
            written[i] \in OnDisk \cup lost \/ \E j \in 1 .. Len(pending) : written[i] = pending[j]
      BY <2>2 DEF Kept
    <3>2. /\ OnDisk \subseteq OnDisk' /\ lost \subseteq lost'
          /\ \A j \in 1 .. Len(pending) : pending[j] \in OnDisk' \cup lost'
      BY <1>2, ClosedOnDisk, CloseFileIs DEF Closes
    <3>3. \A i \in 1 .. Len(written) : written[i] \in OnDisk' \cup lost'
      BY <3>1, <3>2
    <3> QED BY <2>2, <3>3 DEF Kept, TailOnly
  <2> QED BY <1>2, <2>1, <2>2 DEF Closes
<1>3. CASE Loses
  <2>1. OnDisk' = OnDisk /\ lost' = lost
    BY <1>3 DEF Loses, OnDisk
  <2> QED BY <1>3, <2>1 DEF Loses, Kept, TailOnly
<1>4. ASSUME NEW t \in Threads, Adds(t) PROVE Kept' /\ TailOnly'
  <2>1. written' = Append(written, msg[t])
    BY <1>4 DEF Adds
  <2>2. /\ Len(written') = Len(written) + 1 /\ written'[Len(written) + 1] = msg[t]
        /\ \A i \in 1 .. Len(written) : written'[i] = written[i]
    BY <1>0, <2>1
  <2>3. \A i \in 1 .. Len(written') : i \in 1 .. Len(written) \/ i = Len(written) + 1
    BY <1>0, <2>2
  <2>4. \A i \in 1 .. Len(written) :
          written[i] \in OnDisk \cup lost \/ \E j \in 1 .. Len(pending) : written[i] = pending[j]
    BY <1>4 DEF Adds, Kept
  <2>5. CASE pending' = Append(pending, msg[t]) /\ UNCHANGED disk
    <3>1. OnDisk' = OnDisk /\ lost' = lost
      BY <1>4, <2>5 DEF Adds, OnDisk
    <3>2. /\ Len(pending') = Len(pending) + 1 /\ pending'[Len(pending) + 1] = msg[t]
          /\ \A j \in 1 .. Len(pending) : pending'[j] = pending[j]
      BY <1>0, <2>5
    <3>3. Len(pending) \in Nat
      BY <1>0
    <3>4. Kept'
      <4>1. ASSUME NEW i \in 1 .. Len(written')
            PROVE  \/ written'[i] \in OnDisk \cup lost
                   \/ \E j \in 1 .. Len(pending') : written'[i] = pending'[j]
        BY <2>2, <2>3, <2>4, <3>2, <3>3
      <4> QED BY <3>1, <4>1 DEF Kept
    <3>5. TailOnly'
      BY <1>0, <1>4, <2>2, <2>3, <3>1, AddedIsNew DEF TailOnly
    <3> QED BY <3>4, <3>5
  <2>6. CASE disk' = [disk EXCEPT ![fileDay] = (@ \o pending) \o <<msg[t]>>]
    <3>1. lost' = lost /\ \A i \in 1 .. Len(written') : written'[i] \in OnDisk' \cup lost
      BY <1>4, <2>2, <2>3, <2>4, <2>6, AddedOnDisk DEF Adds
    <3> QED BY <3>1 DEF Kept, TailOnly
  <2> QED BY <1>4, <2>5, <2>6 DEF Adds
<1> QED BY <1>1, <1>2, <1>3, <1>4, FileSteps

LEMMA HolesInit == Init => HolesInv
<1> SUFFICES ASSUME Init PROVE HolesInv
  OBVIOUS
<1>1. Flushed = disk /\ \A d \in Days : Len(Flushed[d]) = 0
  BY DEF Init, Flushed
<1>2. Own /\ Held /\ Kept /\ TailOnly
  BY DEF Init, Own, Held, Kept, TailOnly
<1>3. Numbered /\ FilesOrdered
  BY <1>1 DEF Numbered, FilesOrdered, InOrder
<1> QED BY <1>2, <1>3 DEF HolesInv

LEMMA HolesNext == SinkInv /\ SinkInv' /\ HolesInv /\ [Next]_vars => HolesInv'
<1> SUFFICES ASSUME SinkInv, SinkInv', HolesInv, [Next]_vars PROVE HolesInv'
  OBVIOUS
<1>1. TypeOK /\ TypeOK' /\ Own /\ Held /\ Numbered /\ FilesOrdered /\ Kept /\ TailOnly
  BY DEF SinkInv, HolesInv
<1> QED BY <1>1, OwnKept, HeldKept, NumberedKept, FilesOrderedKept, KeptKept DEF HolesInv

LEMMA HolesNone == SinkInv /\ HolesInv => NoHoles
<1> SUFFICES ASSUME TypeOK, FilesOrdered, TailOnly PROVE NoHoles
  BY DEF SinkInv, HolesInv
<1>1. SUFFICES ASSUME NEW d \in Days, NEW i \in 1 .. Len(disk[d]), NEW j \in 1 .. Len(disk[d]),
                      i < j, disk[d][i].by = disk[d][j].by
               PROVE  disk[d][i].n < disk[d][j].n
  BY DEF NoHoles, InCallOrder
<1>2. InOrder(Flushed[d])
  BY DEF FilesOrdered
<1>3. /\ i \in 1 .. Len(Flushed[d]) /\ Flushed[d][i] = disk[d][i]
      /\ j \in 1 .. Len(Flushed[d]) /\ Flushed[d][j] = disk[d][j]
  BY DiskInFlushed
<1> QED BY <1>1, <1>2, <1>3 DEF InOrder

\* Whatever fails and whenever the process is killed: of what a process wrote
\* only the tail can be missing, and what a failing fclose() could not write out;
\* in each file the records of a thread are in the order of its calls, none of
\* them twice, over rotations and restarts
\* (daily_file_sink.h:106-122, file_helper-inl.h:26-28, 83-96).
THEOREM SinkLeavesNoHoles == Spec => []NoHoles
BY InvInit, InvNext, HolesInit, HolesNext, HolesNone, PTL DEF Spec

-----------------------------------------------------------------------------
(* Each record is in the file of its day, unless midnight falls within a   *)
(* call or the constructor.                                                *)
(*                                                                         *)
(* This needs days of at least 24 hours: the file is left 24 hours after   *)
(* the beginning of its day, which must not be after the next has begun.   *)
(* And 00:00 must be computed right: the clocks are not changed.           *)

FullDays ==
  /\ \A d, e \in Days : d < e => Start[d] + Day24 <= Start[e]
  /\ \A tp \in 0 .. MaxTime : Midnight[tp] = Start[DayOf(tp)]

\* A call is of the day its message is of; a file newly opened is of this day.
OfToday ==
  /\ \A t \in Threads : pc[t] # "idle" => DayOf(msg[t].time) = DayOf(now)
  /\ proc = "named" => fileDay = DayOf(now)
  /\ \A t \in Threads : pc[t] = "rotate" => fileDay = DayOf(now)

\* The file is left 24 hours after its day has begun.
LeftInTime ==
  proc = "up" /\ fileDay # NoFile /\ (\A t \in Threads : pc[t] # "rotate") =>
    rotationTp = Start[fileDay] + Day24

\* What is being written goes to the file of this day.
WritesToday == \A t \in Threads : pc[t] = "write" => fileDay \in {NoFile, DayOf(now)}

FlushedOfDay ==
  \A d \in Days : \A i \in 1 .. Len(Flushed[d]) : DayOf(Flushed[d][i].time) = d

DayInv == ~crossed => OfToday /\ LeftInTime /\ WritesToday /\ FlushedOfDay

\* A tick within the 24 hours of a day is of this day.
LEMMA WithinDay ==
  ASSUME FullDays, NEW tp \in 0 .. MaxTime, NEW d \in Days,
         Start[d] <= tp, tp < Start[d] + Day24
  PROVE  DayOf(tp) = d
<1>1. /\ DayOf(tp) \in Days /\ Start[DayOf(tp)] \in Nat /\ Start[DayOf(tp)] <= tp
      /\ d <= DayOf(tp)
  BY DayOfIs
<1>2. d \in Nat /\ DayOf(tp) \in Nat /\ Start[d] \in Nat /\ Day24 \in Nat
  BY <1>1, DailyAssumption
<1>3. ~(d < DayOf(tp))
  <2> SUFFICES ASSUME d < DayOf(tp) PROVE FALSE
    OBVIOUS
  <2>1. Start[d] + Day24 <= Start[DayOf(tp)]
    BY <1>1 DEF FullDays
  <2> QED BY <1>1, <1>2, <2>1
<1> QED BY <1>1, <1>2, <1>3

\* Then the next rotation is 24 hours after this day began.
LEMMA DayEnds ==
  ASSUME FullDays, now \in 0 .. MaxTime
  PROVE  NextRotationTp = Start[DayOf(now)] + Day24
<1>1. Midnight[now] = Start[DayOf(now)]
  BY DEF FullDays
<1>2. Start[DayOf(now)] \in Nat /\ Start[DayOf(now)] <= now
  BY DayOfIs
<1>3. ~(Midnight[now] > now)
  BY <1>1, <1>2, DailyAssumption
<1> QED BY <1>1, <1>3 DEF NextRotationTp

LEMMA DayInit == Init => DayInv
<1> SUFFICES ASSUME Init PROVE DayInv
  OBVIOUS
<1>1. Flushed = disk /\ \A d \in Days : Len(Flushed[d]) = 0
  BY DEF Init, Flushed
<1> QED BY <1>1 DEF Init, DayInv, OfToday, LeftInTime, WritesToday, FlushedOfDay

LEMMA FlushedOfDayKept ==
  ASSUME TypeOK, TypeOK', OfToday, WritesToday, FlushedOfDay, [Next]_vars
  PROVE  FlushedOfDay'
<1>0. /\ Flushed \in [Days -> Seq(Record)] /\ disk \in [Days -> Seq(Record)]
  BY FlushedIs DEF TypeOK
<1>1. SUFFICES ASSUME NEW d \in Days, NEW i \in 1 .. Len(Flushed'[d])
               PROVE  DayOf(Flushed'[d][i].time) = d
  BY DEF FlushedOfDay, DayOf
<1>2. CASE Leaves
  BY <1>1, <1>2, FlushedSteps DEF FlushedOfDay
<1>3. CASE Closes \/ Loses
  <2>1. i \in 1 .. Len(Flushed[d]) /\ Flushed[d][i] = Flushed'[d][i]
    BY <1>1, <1>3, FlushedWasTo
  <2>2. DayOf(Flushed[d][i].time) = d
    BY <2>1 DEF FlushedOfDay
  <2> QED BY <2>1, <2>2
<1>4. ASSUME NEW t \in Threads, Adds(t) PROVE DayOf(Flushed'[d][i].time) = d
  <2>1. Flushed' = [Flushed EXCEPT ![fileDay] = Append(Flushed[fileDay], msg[t])] /\ fileDay \in Days
    BY <1>4, FlushedSteps DEF Adds
  <2>2. DayOf(msg[t].time) = fileDay
    BY <1>4, DailyAssumption DEF Adds, OfToday, WritesToday
  <2>3. Flushed[d] \in Seq(Record)
    BY <1>0
  <2>4. CASE d # fileDay \/ i \in 1 .. Len(Flushed[d])
    <3>1. i \in 1 .. Len(Flushed[d]) /\ Flushed'[d][i] = Flushed[d][i]
      BY <1>0, <2>1, <2>3, <2>4
    <3> QED BY <3>1 DEF FlushedOfDay
  <2>5. CASE d = fileDay /\ i \notin 1 .. Len(Flushed[d])
    <3>1. Flushed'[d] = Append(Flushed[d], msg[t])
      BY <1>0, <2>1, <2>5
    <3>2. Flushed'[d][i] = msg[t]
      BY <2>3, <2>5, <3>1
    <3> QED BY <2>2, <2>5, <3>2
  <2> QED BY <2>4, <2>5
<1> QED BY <1>2, <1>3, <1>4, FileSteps

\* The history only grows.
LEMMA NotCrossed ==
  ASSUME [Next]_vars, ~crossed', crossed \in BOOLEAN
  PROVE  ~crossed
<1>1. CASE Tick
  BY <1>1 DEF Tick
<1>2. ASSUME NEW t \in Threads, Thread(t) PROVE ~crossed
  BY <1>2 DEF Thread, Stamp, Enter, EnterOpen, EnterOpenFails, Rotate, Write, Goto, clockVars
<1>3. CASE ConstructOpen \/ ConstructRotation \/ EndProcess \/ UNCHANGED vars
  BY <1>3 DEF ConstructOpen, ConstructRotation, EndProcess, vars, clockVars
<1> QED BY <1>1, <1>2, <1>3 DEF Next

LEMMA DayStep ==
  ASSUME FullDays, SinkInv, OfToday, LeftInTime, WritesToday, [Next]_vars, ~crossed'
  PROVE  OfToday' /\ LeftInTime' /\ WritesToday'
<1>0. /\ TypeOK /\ Exclusive /\ Stamped /\ Closed /\ Begun /\ NoFile \notin Days
      /\ NoThread \notin Threads /\ now \in 0 .. MaxTime /\ MaxTime \in Nat
      /\ DayOf(now) \in Days /\ pc \in [Threads -> {"idle", "enter", "rotate", "write"}]
  BY DailyAssumption, DayOfIs DEF SinkInv, TypeOK
<1>1. CASE ConstructOpen
  <2>1. /\ proc = "down" /\ UNCHANGED <<now, pc, msg>>
        /\ \/ proc' = "named" /\ fileDay' = DayOf(now)
           \/ proc' = "down" /\ fileDay' = NoFile
    BY <1>1 DEF ConstructOpen, Open, OpenFails, clockVars, threadVars
  <2>2. \A t \in Threads : pc'[t] = "idle"
    BY <1>0, <2>1 DEF Closed
  <2> QED BY <1>0, <2>1, <2>2 DEF OfToday, LeftInTime, WritesToday, DayOf
<1>2. CASE ConstructRotation
  <2>1. /\ proc = "named" /\ proc' = "up" /\ UNCHANGED <<now, pc, msg, fileDay>>
        /\ rotationTp' = Start[DayOf(now)] + Day24
    BY <1>0, <1>2, DayEnds DEF ConstructRotation, clockVars, threadVars
  <2>2. \A t \in Threads : pc'[t] = "idle"
    BY <1>0, <2>1 DEF Closed
  <2>3. fileDay = DayOf(now)
    BY <2>1 DEF OfToday
  <2> QED BY <2>1, <2>2, <2>3 DEF OfToday, LeftInTime, WritesToday
<1>3. CASE Tick
  <2>1. /\ UNCHANGED <<proc, pc, msg, fileDay, rotationTp>> /\ now' = now + 1
        /\ ~(InCall /\ DayOf(now + 1) # DayOf(now))
    BY <1>3 DEF Tick, procVars, threadVars, fileVars
  <2>2. LeftInTime'
    BY <2>1 DEF LeftInTime
  <2>3. CASE ~InCall
    BY <2>1, <2>2, <2>3 DEF InCall, OfToday, WritesToday
  <2>4. CASE DayOf(now') = DayOf(now)
    <3>1. (DayOf(now))' = DayOf(now) /\ \A t \in Threads : (DayOf(msg[t].time))' = DayOf(msg[t].time)
      BY <2>1, <2>4 DEF DayOf
    <3>2. OfToday' /\ WritesToday'
      BY <2>1, <3>1 DEF OfToday, WritesToday
    <3> QED BY <2>2, <3>2
  <2> QED BY <2>1, <2>3, <2>4
<1>4. CASE EndProcess
  <2>1. proc' = "down" /\ pc' = [t \in Threads |-> "idle"]
    BY <1>4 DEF EndProcess
  <2> QED BY <2>1 DEF OfToday, LeftInTime, WritesToday
<1>5. CASE UNCHANGED vars
  BY <1>5 DEF vars, clockVars, procVars, threadVars, fileVars, OfToday, LeftInTime, WritesToday, DayOf
<1>6. ASSUME NEW t \in Threads, Thread(t)
      PROVE  OfToday' /\ LeftInTime' /\ WritesToday'
  <2>0. proc = "up" /\ proc' = "up" /\ now' = now
    BY <1>6 DEF Thread, Stamp, Enter, EnterOpen, EnterOpenFails, Rotate, Write, Goto,
                clockVars, procVars
  <2>1. CASE Stamp(t)
    <3>1. /\ pc' = [pc EXCEPT ![t] = "enter"] /\ pc[t] = "idle" /\ UNCHANGED <<fileDay, rotationTp>>
          /\ msg' = [msg EXCEPT ![t] = [by |-> t, n |-> count[t] + 1, time |-> now]]
      BY <2>1 DEF Stamp, Goto, fileVars
    <3>2. msg'[t].time = now /\ \A u \in Threads \ {t} : msg'[u] = msg[u]
      BY <1>0, <3>1 DEF TypeOK
    <3> QED BY <1>0, <2>0, <3>1, <3>2 DEF OfToday, LeftInTime, WritesToday, DayOf
  <2>2. CASE Enter(t)
    <3>1. /\ pc' = [pc EXCEPT ![t] = "write"] /\ pc[t] = "enter" /\ mutex = NoThread
          /\ ~(msg[t].time >= rotationTp) /\ UNCHANGED <<msg, fileDay, rotationTp>>
      BY <2>2 DEF Enter, Goto, ShouldRotate, fileVars
    <3>2. \A u \in Threads : pc[u] \notin {"rotate", "write"}
      BY <1>0, <3>1 DEF Exclusive
    <3>3. fileDay \in {NoFile, DayOf(now)}
      <4> SUFFICES ASSUME fileDay # NoFile PROVE DayOf(now) = fileDay
        OBVIOUS
      <4>1. /\ rotationTp = Start[fileDay] + Day24 /\ fileDay \in Days /\ Start[fileDay] <= now
            /\ DayOf(msg[t].time) = DayOf(now) /\ msg[t].time \in 0 .. MaxTime
        BY <1>0, <2>0, <3>1, <3>2 DEF LeftInTime, OfToday, Begun, TypeOK, Record
      <4>2. /\ Start[fileDay] <= Start[DayOf(now)] /\ Start[DayOf(now)] <= msg[t].time
            /\ Start[DayOf(now)] \in Nat
        BY <1>0, <4>1, DayOfIs
      <4>3. Start[fileDay] \in Nat /\ Day24 \in Nat
        BY <4>1, DailyAssumption
      <4>4. Start[fileDay] <= msg[t].time /\ msg[t].time < Start[fileDay] + Day24
        BY <1>0, <3>1, <4>1, <4>2, <4>3
      <4> QED BY <4>1, <4>4, WithinDay
    <3> QED BY <1>0, <2>0, <3>1, <3>2, <3>3 DEF OfToday, LeftInTime, WritesToday, DayOf
  <2>3. CASE EnterOpen(t)
    <3>1. /\ pc' = [pc EXCEPT ![t] = "rotate"] /\ pc[t] = "enter" /\ mutex = NoThread
          /\ fileDay' = DayOf(msg[t].time) /\ msg' = msg
      BY <2>3 DEF EnterOpen, Goto, Open
    <3>2. \A u \in Threads : pc[u] \notin {"rotate", "write"}
      BY <1>0, <3>1 DEF Exclusive
    <3>3. fileDay' = DayOf(now)
      BY <3>1 DEF OfToday
    <3> QED BY <1>0, <2>0, <3>1, <3>2, <3>3 DEF OfToday, LeftInTime, WritesToday, DayOf
  <2>4. CASE EnterOpenFails(t)
    <3>1. /\ pc' = [pc EXCEPT ![t] = "idle"] /\ mutex = NoThread
          /\ fileDay' = NoFile /\ msg' = msg
      BY <2>4 DEF EnterOpenFails, Goto, OpenFails
    <3>2. \A u \in Threads : pc[u] \notin {"rotate", "write"}
      BY <1>0, <3>1 DEF Exclusive
    <3> QED BY <1>0, <2>0, <3>1, <3>2 DEF OfToday, LeftInTime, WritesToday, DayOf
  <2>5. CASE Rotate(t)
    <3>1. /\ pc' = [pc EXCEPT ![t] = "write"] /\ pc[t] = "rotate"
          /\ rotationTp' = Start[DayOf(now)] + Day24 /\ UNCHANGED <<fileDay, msg>>
      BY <1>0, <2>5, DayEnds DEF Rotate, Goto
    <3>2. fileDay = DayOf(now)
      BY <3>1 DEF OfToday
    <3> QED BY <1>0, <2>0, <3>1, <3>2 DEF OfToday, LeftInTime, WritesToday, DayOf
  <2>6. CASE Write(t)
    <3>1. /\ pc' = [pc EXCEPT ![t] = "idle"] /\ pc[t] = "write"
          /\ UNCHANGED <<fileDay, msg, rotationTp>>
      BY <2>6 DEF Write, Goto
    <3> QED BY <1>0, <2>0, <3>1 DEF OfToday, LeftInTime, WritesToday, DayOf
  <2> QED BY <1>6, <2>1, <2>2, <2>3, <2>4, <2>5, <2>6 DEF Thread
<1> QED BY <1>1, <1>2, <1>3, <1>4, <1>5, <1>6 DEF Next

LEMMA DayNext == FullDays /\ SinkInv /\ SinkInv' /\ DayInv /\ [Next]_vars => DayInv'
<1> SUFFICES ASSUME FullDays, SinkInv, SinkInv', DayInv, [Next]_vars, ~crossed'
             PROVE  OfToday' /\ LeftInTime' /\ WritesToday' /\ FlushedOfDay'
  BY DEF DayInv
<1>1. TypeOK /\ TypeOK' /\ crossed \in BOOLEAN
  BY DEF SinkInv, TypeOK
<1>2. OfToday /\ LeftInTime /\ WritesToday /\ FlushedOfDay
  BY <1>1, NotCrossed DEF DayInv
<1> QED BY <1>1, <1>2, DayStep, FlushedOfDayKept

LEMMA DayIsRight == SinkInv /\ DayInv => FileOfDayInTime
<1> SUFFICES ASSUME TypeOK, ~crossed, FlushedOfDay PROVE FileOfDay
  BY DEF SinkInv, DayInv, FileOfDayInTime
<1> QED BY DiskInFlushed DEF FileOfDay, FlushedOfDay

\* With days of at least 24 hours and no change of the clocks a record is in the
\* file of the day its time says, as long as no midnight has fallen within a
\* call or the constructor
\* (daily_file_sink.h:90-93, 106-122, 151-162).
THEOREM FullDaysFilesRight == FullDays => (Spec => []FileOfDayInTime)
<1> SUFFICES ASSUME FullDays PROVE Spec => []FileOfDayInTime
  OBVIOUS
<1>1. SinkInv /\ SinkInv' /\ DayInv /\ [Next]_vars => DayInv'
  BY DayNext
<1> QED BY <1>1, InvInit, InvNext, DayInit, DayIsRight, PTL DEF Spec

=============================================================================
