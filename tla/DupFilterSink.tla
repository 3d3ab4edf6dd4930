--------------------------- MODULE DupFilterSink ----------------------------
(***************************************************************************)
(* dup_filter_sink (dup_filter_sink.h) over its dist_sink (dist_sink.h):   *)
(* messages that repeat the last one are counted and reported later.  The  *)
(* first child is a ringbuffer_sink (ringbuffer_sink.h).                   *)
(*                                                                         *)
(* Everything happens under the sink's mutex.  A child may throw, which    *)
(* ends the call where it is: children behind it are left out, and what    *)
(* sink_it_() has still to assign is not assigned.                         *)
(***************************************************************************)
EXTENDS CircularQueue, Integers, SequencesExt

CONSTANTS
  Children,      \* the sub sinks; 1 is the ring buffer
  RingSize,      \* its n_items
  Threshold,     \* the level of each child
  Removable,     \* the children that are taken out and put back
  Payloads,      \* texts of messages
  MaxSkip,       \* max_skip_duration_
  MaxTime, MaxMsgs, MaxThrows   \* bounds

DupAssumption ==
  /\ 1 \in Children \ Removable /\ Threshold \in [Children -> Nat]
  /\ {RingSize, MaxSkip, MaxTime, MaxMsgs, MaxThrows} \subseteq Nat /\ RingSize > 0

VARIABLES
  subs,         \* sinks_
  ring,         \* the ring buffer's q_
  lastTime, lastPayload, skipCounter, skippedLevel,
  clock,        \* the latest time of a message
  out,          \* history: what each child was given
  total,        \* history: messages logged
  throws,       \* history: calls a child's exception ended
  steady        \* history: the children that were in sinks_ all the time

filterVars == <<lastTime, lastPayload, skipCounter, skippedLevel>>
vars == <<subs, ring, filterVars, clock, out, total, throws, steady>>

Levels == {Threshold[c] : c \in Children}

Init ==
  /\ subs = SetToSeq(Children) /\ steady = Children
  /\ ring = NewQ(RingSize)
  /\ lastTime = -1 - MaxSkip /\ lastPayload = "" /\ skipCounter = 0 /\ skippedLevel = 0
  /\ clock = 0
  /\ out = [c \in Children |-> <<>>]
  /\ total = 0 /\ throws = 0

\* filter_(): true when the message is to be displayed.
Filter(p, time) == time - lastTime > MaxSkip \/ p # lastPayload

Skip(p, level, time) ==
  /\ ~Filter(p, time)
  /\ skipCounter' = skipCounter + 1 /\ skippedLevel' = level
  /\ UNCHANGED <<subs, ring, lastTime, lastPayload, out, throws, steady>>

\* What the children behind the filter are given, one after the other.
Report == [text |-> "skipped", n |-> skipCounter, level |-> skippedLevel, time |-> 0]
Message(p, level, time) == [text |-> p, n |-> 1, level |-> level, time |-> time]

\* dist_sink::sink_it_() for each item, until child number k throws at item j.
Taken(c, items, j, k) ==
  LET pos == CHOOSE n \in DOMAIN subs : subs[n] = c
      upTo == IF pos < k THEN j ELSE j - 1
  IN  IF c \notin Range(subs) THEN <<>>
      ELSE SelectSeq(SubSeq(items, 1, upTo), LAMBDA m : m.level >= Threshold[c])

Give(items, j, k) ==
  LET q[n \in 0 .. Len(Taken(1, items, j, k))] ==
        IF n = 0 THEN ring ELSE PushBack(q[n - 1], Taken(1, items, j, k)[n])
  IN  /\ out' = [c \in Children |-> out[c] \o Taken(c, items, j, k)]
      /\ ring' = q[Len(Taken(1, items, j, k))]

Items(p, level, time) ==
  (IF skipCounter > 0 THEN <<Report>> ELSE <<>>) \o <<Message(p, level, time)>>

\* Mutant: the counter is not reset.
ShowCountsOn(p, level, time) ==
  LET items == Items(p, level, time) IN
  /\ Filter(p, time)
  /\ Give(items, Len(items), Len(subs) + 1)
  /\ lastTime' = time /\ lastPayload' = p
  /\ UNCHANGED <<skipCounter, skippedLevel, subs, throws, steady>>

Show(p, level, time) ==
  LET items == Items(p, level, time) IN
  /\ Filter(p, time)
  /\ Give(items, Len(items), Len(subs) + 1)
  /\ lastTime' = time /\ lastPayload' = p /\ skipCounter' = 0
  /\ UNCHANGED <<skippedLevel, subs, throws, steady>>

ShowThrows(p, level, time) ==
  LET items == Items(p, level, time) IN
  /\ Filter(p, time)
  /\ throws < MaxThrows /\ throws' = throws + 1
  /\ \E j \in DOMAIN items, k \in DOMAIN subs : Give(items, j, k)
  /\ UNCHANGED <<filterVars, subs, steady>>

\* A message is stamped before its thread waits for the mutex, so it may be a
\* little older than the one before it.
Log ==
  /\ total < MaxMsgs /\ total' = total + 1
  /\ \E p \in Payloads, level \in Levels, time \in 0 .. MaxTime :
       /\ time >= clock - 1
       /\ clock' = IF time > clock THEN time ELSE clock
       /\ Skip(p, level, time) \/ Show(p, level, time) \/ ShowThrows(p, level, time)

\* remove_sink(), add_sink().
RemoveSink(c) ==
  /\ c \in Range(subs)
  /\ subs' = SelectSeq(subs, LAMBDA s : s # c) /\ steady' = steady \ {c}
  /\ UNCHANGED <<ring, filterVars, clock, out, total, throws>>

AddSink(c) ==
  /\ c \notin Range(subs)
  /\ subs' = Append(subs, c)
  /\ UNCHANGED <<ring, filterVars, clock, out, total, throws, steady>>

Next == Log \/ \E c \in Removable : RemoveSink(c) \/ AddSink(c)

Spec == Init /\ [][Next]_vars

-----------------------------------------------------------------------------
(* Properties.                                                             *)

\* last_raw(lim): the last lim items, or all when lim is 0.
LastRaw(lim) ==
  LET n == IF lim > 0 /\ lim < Size(ring) THEN lim ELSE Size(ring)
  IN  [k \in 1 .. n |-> At(ring, Size(ring) - n + k - 1)]

\* The ring buffer gives back the last messages it was given, as many as were
\* asked for and it has room for, in order (ringbuffer_sink.h:31-43).
RingHasLast ==
  \A lim \in 0 .. RingSize + 1 :
    LET n == Min({Len(out[1]), RingSize} \cup ({lim} \ {0})) IN
    LastRaw(lim) = SubSeq(out[1], Len(out[1]) - n + 1, Len(out[1]))

Reported(c) == LET f[n \in 0 .. Len(out[c])] == IF n = 0 THEN 0 ELSE f[n - 1] + out[c][n].n
               IN  f[Len(out[c])]

\* A child that takes every level sees each message, or the report that counts
\* it, or the report is to come; a call that a child's exception ends loses no
\* more than its own message (dup_filter_sink.h:58-83).
AllCounted ==
  \A c \in steady : Threshold[c] = 0 =>
    /\ Reported(c) + skipCounter >= total - throws
    /\ throws = 0 => Reported(c) + skipCounter = total

\* Without an exception no text follows itself within max_skip_duration, not
\* even behind a report (dup_filter_sink.h:86-89).
NoDuplicates ==
  \A c \in steady : Threshold[c] = 0 /\ throws = 0 =>
    LET shown == SelectSeq(out[c], LAMBDA m : m.text # "skipped") IN
    \A n \in 1 .. Len(shown) - 1 :
      shown[n].text = shown[n + 1].text => shown[n + 1].time - shown[n].time > MaxSkip

=============================================================================
