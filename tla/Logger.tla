------------------------------- MODULE Logger -------------------------------
(***************************************************************************)
(* A synchronous logger of spdlog (logger.h, logger-inl.h) with its        *)
(* backtracer (backtracer-inl.h), used by several threads.                 *)
(*                                                                         *)
(* Each sink has a mutex of its own, so giving a record to one sink is one *)
(* step, and records of several threads may reach the sinks in different   *)
(* orders.  The flag of the backtracer is read without its mutex.  A       *)
(* message is a number; sunk[s] is what sink s was given.                  *)
(***************************************************************************)
EXTENDS CircularQueue, Integers, FiniteSets

CONSTANTS
  Threads, NoThread,
  Sinks,      \* 1 .. n
  Throwing,   \* the sinks whose log() and flush() may throw
  Programs,   \* bound: the calls each thread makes, one way or another
  TraceSizes, \* the sizes enable_backtrace() is given
  MaxTime, MaxThrows   \* bounds

\* A record is below level_, at it, or at flush_level_ too.
Kinds == {"hide", "show", "urgent"}
Start == 0        \* the lines around a dump
End == -1

VARIABLES
  enabled, messages, mutex,   \* the backtracer; who holds its mutex
  pc, msg, at, traced,        \* of each thread: where it is, the record in
                              \* hand, the sink it is at, traceback_enabled
  next,                       \* what it does after sink_it_()
  sunk, flushed,
  errors, lastReport, reports, \* of err_handler_(); reports is a history
  todo,       \* the calls each thread has still to make
  logged,     \* the kinds of the messages so far
  throws,
  pushed,   \* history: the messages given to the backtracer, in order
  cleared   \* history: those that enable_backtrace() or an overrun forgot

tracerVars == <<enabled, messages, mutex, pushed, cleared>>
threadVars == <<pc, msg, at, traced, next>>
sinkVars == <<sunk, flushed>>
errorVars == <<errors, lastReport, reports, throws>>
callVars == <<todo, logged>>
vars == <<tracerVars, threadVars, sinkVars, errorVars, callVars>>

Items(s) == {s[k] : k \in DOMAIN s}

Init ==
  /\ enabled = FALSE /\ messages = DisabledQ /\ mutex = NoThread
  /\ pc = [t \in Threads |-> "idle"] /\ msg = [t \in Threads |-> Start]
  /\ at = [t \in Threads |-> 1] /\ traced = [t \in Threads |-> FALSE]
  /\ next = [t \in Threads |-> "log"]
  /\ sunk = [s \in Sinks |-> <<>>] /\ flushed = [s \in Sinks |-> 0]
  /\ errors = 0 /\ lastReport = -1 /\ reports = <<>> /\ throws = 0
  /\ todo \in Programs /\ logged = <<>>
  /\ pushed = <<>> /\ cleared = {}

Goto(t, where) == pc' = [pc EXCEPT ![t] = where]

Begin(t, call) ==
  /\ pc[t] = "idle" /\ todo[t] # <<>> /\ Head(todo[t]) = call
  /\ todo' = [todo EXCEPT ![t] = Tail(@)]
  /\ UNCHANGED <<sinkVars, errorVars>>

-----------------------------------------------------------------------------
(* The calls.                                                              *)

\* log_(): both flags are read before anything is locked.
Log(t, kind) ==
  LET m == Len(logged) + 1 IN
  /\ Begin(t, kind) /\ logged' = Append(logged, kind)
  /\ traced' = [traced EXCEPT ![t] = enabled]
  /\ msg' = [msg EXCEPT ![t] = m] /\ next' = [next EXCEPT ![t] = "log"]
  /\ Goto(t, IF kind # "hide" THEN "sink" ELSE IF enabled THEN "push" ELSE "idle")
  /\ UNCHANGED <<tracerVars, at>>

\* enable_backtrace(), which forgets what was there.
EnableBacktrace(t, n) ==
  /\ Begin(t, "enable") /\ mutex = NoThread
  /\ enabled' = TRUE /\ messages' = NewQ(n)
  /\ cleared' = cleared \cup Items(Contents(messages))
  /\ UNCHANGED <<mutex, pushed, threadVars, logged>>

DisableBacktrace(t) ==
  /\ Begin(t, "disable") /\ mutex = NoThread
  /\ enabled' = FALSE
  /\ UNCHANGED <<messages, mutex, pushed, cleared, threadVars, logged>>

\* dump_backtrace(): the flag is read, then the queue looked at.
DumpBacktrace(t) ==
  /\ Begin(t, "dump")
  /\ Goto(t, IF enabled THEN "check" ELSE "idle")
  /\ UNCHANGED <<tracerVars, msg, at, traced, next, logged>>

FlushLogger(t) ==
  /\ Begin(t, "flush")
  /\ Goto(t, "flush") /\ next' = [next EXCEPT ![t] = "idle"]
  /\ UNCHANGED <<tracerVars, msg, at, traced, logged>>

-----------------------------------------------------------------------------
(* sink_it_() and flush_().                                                *)

\* err_handler_() of a sink that threw: at most one report in a second.  The
\* system's clock may have been set back.
ErrHandler ==
  /\ throws < MaxThrows /\ throws' = throws + 1
  /\ errors' = errors + 1
  /\ \E now \in 0 .. MaxTime :
       IF now - lastReport < 1 THEN UNCHANGED <<lastReport, reports>>
       ELSE lastReport' = now /\ reports' = Append(reports, [time |-> now, n |-> errors'])

\* The message behind the one that is dumped.
SecondItem(q) == FrontItem(PopFront(q))

\* The record is with the last sink: what the thread does next.
Done(t) ==
  LET rest == PopFront(messages) IN
  /\ at' = [at EXCEPT ![t] = 1]
  /\ CASE next[t] = "log" -> /\ Goto(t, IF traced[t] THEN "push" ELSE "idle")
                             /\ UNCHANGED <<msg, next, messages, mutex>>
       [] next[t] = "idle" -> Goto(t, "idle") /\ UNCHANGED <<msg, next, messages, mutex>>
       [] next[t] = "dump" -> Goto(t, "lock") /\ UNCHANGED <<msg, next, messages, mutex>>
       [] next[t] = "pop" ->
            /\ messages' = rest
            /\ Goto(t, "sink")
            /\ IF Empty(rest)
               THEN /\ mutex' = NoThread
                    /\ msg' = [msg EXCEPT ![t] = End] /\ next' = [next EXCEPT ![t] = "idle"]
               ELSE msg' = [msg EXCEPT ![t] = SecondItem(messages)] /\ UNCHANGED <<next, mutex>>

\* To the next sink, then to flush_() if the record asks for it.
NextSink(t) ==
  IF at[t] + 1 \in Sinks
  THEN at' = [at EXCEPT ![t] = @ + 1] /\ UNCHANGED <<pc, msg, next, messages, mutex>>
  ELSE IF pc[t] = "sink" /\ msg[t] # Start /\ msg[t] # End /\ logged[msg[t]] = "urgent"
  THEN Goto(t, "flush") /\ at' = [at EXCEPT ![t] = 1] /\ UNCHANGED <<msg, next, messages, mutex>>
  ELSE Done(t)

\* One sink of sink_it_(); what it throws is caught and handled.
SinkIt(t) ==
  LET s == at[t] IN
  /\ pc[t] = "sink"
  /\ \/ /\ sunk' = [sunk EXCEPT ![s] = Append(@, [m |-> msg[t], by |-> t, dumped |-> next[t] # "log"])]
        /\ UNCHANGED errorVars
     \/ s \in Throwing /\ ErrHandler /\ UNCHANGED sunk
  /\ NextSink(t)
  /\ UNCHANGED <<enabled, pushed, cleared, traced, flushed, callVars>>

Flush(t) ==
  LET s == at[t] IN
  /\ pc[t] = "flush"
  /\ \/ flushed' = [flushed EXCEPT ![s] = Len(sunk[s])] /\ UNCHANGED errorVars
     \/ s \in Throwing /\ ErrHandler /\ UNCHANGED flushed
  /\ NextSink(t)
  /\ UNCHANGED <<enabled, pushed, cleared, traced, sunk, callVars>>

-----------------------------------------------------------------------------
(* The backtracer.                                                         *)

\* backtracer::push_back(), also when it was disabled in the meantime.
PushTraced(t) ==
  /\ pc[t] = "push" /\ mutex = NoThread
  /\ messages' = PushBack(messages, msg[t])
  /\ pushed' = Append(pushed, msg[t])
  /\ cleared' = cleared \cup ((Items(Contents(messages)) \cup {msg[t]}) \ Items(Contents(messages')))
  /\ Goto(t, "idle")
  /\ UNCHANGED <<enabled, mutex, msg, at, traced, next, sinkVars, errorVars, callVars>>

\* empty(), under the mutex: nothing is dumped when there is nothing.
CheckEmpty(t) ==
  /\ pc[t] = "check" /\ mutex = NoThread
  /\ IF Empty(messages) THEN Goto(t, "idle") /\ UNCHANGED <<msg, next>>
     ELSE /\ Goto(t, "sink")
          /\ msg' = [msg EXCEPT ![t] = Start] /\ next' = [next EXCEPT ![t] = "dump"]
  /\ UNCHANGED <<tracerVars, at, traced, sinkVars, errorVars, callVars>>

\* Mutant: foreach_pop() works without the mutex.
ForeachPopUnlocked(t) ==
  /\ pc[t] = "lock"
  /\ Goto(t, "sink")
  /\ IF Empty(messages)
     THEN msg' = [msg EXCEPT ![t] = End] /\ next' = [next EXCEPT ![t] = "idle"]
     ELSE msg' = [msg EXCEPT ![t] = FrontItem(messages)] /\ next' = [next EXCEPT ![t] = "pop"]
  /\ UNCHANGED <<tracerVars, at, traced, sinkVars, errorVars, callVars>>

\* foreach_pop() locks; the mutex is held until the queue is empty.
ForeachPop(t) ==
  /\ pc[t] = "lock" /\ mutex = NoThread
  /\ Goto(t, "sink")
  /\ IF Empty(messages)
     THEN /\ msg' = [msg EXCEPT ![t] = End] /\ next' = [next EXCEPT ![t] = "idle"]
          /\ UNCHANGED mutex
     ELSE /\ msg' = [msg EXCEPT ![t] = FrontItem(messages)] /\ next' = [next EXCEPT ![t] = "pop"]
          /\ mutex' = t
  /\ UNCHANGED <<enabled, messages, pushed, cleared, at, traced, sinkVars, errorVars, callVars>>

ThreadStep(t) ==
  \/ \E kind \in Kinds : Log(t, kind)
  \/ \E n \in TraceSizes : EnableBacktrace(t, n)
  \/ DisableBacktrace(t) \/ DumpBacktrace(t) \/ FlushLogger(t)
  \/ SinkIt(t) \/ Flush(t) \/ PushTraced(t) \/ CheckEmpty(t) \/ ForeachPop(t)

Next == \E t \in Threads : ThreadStep(t)

Spec == Init /\ [][Next]_vars

-----------------------------------------------------------------------------
(* Properties.                                                             *)

Dumped(s) == SelectSeq(sunk[s], LAMBDA e : e.dumped /\ e.m > Start)
PushedAt(m) == CHOOSE k \in DOMAIN pushed : pushed[k] = m

\* A traced message is dumped once, and dumped messages come in the order they
\* were traced, however many threads dump (backtracer-inl.h:54-61).
DumpedInOrder ==
  \A s \in Sinks : LET d == Dumped(s) IN
    \A j, k \in DOMAIN d : j < k => PushedAt(d[j].m) < PushedAt(d[k].m)

\* Each dumped message stands between a Start line and an End line of the
\* thread that dumped it (logger-inl.h:155-164).
DumpFramed ==
  \A s \in Sinks \ Throwing : \A k \in DOMAIN sunk[s] :
    LET e == sunk[s][k]
        frames == {j \in 1 .. k : sunk[s][j].by = e.by /\ sunk[s][j].m = Start}
        ends == {j \in 1 .. k - 1 : sunk[s][j].by = e.by /\ sunk[s][j].m = End}
    IN  e.dumped => Cardinality(frames) = Cardinality(ends) + 1

\* A traced message is in the queue until it is dumped, overrun or cleared:
\* none is forgotten otherwise, a sink that throws aside
\* (backtracer-inl.h:30-61).
TracedKept ==
  \A k \in DOMAIN pushed :
    \/ pushed[k] \in Items(Contents(messages)) \cup cleared
    \/ \A s \in Sinks \ Throwing : pushed[k] \in {e.m : e \in Items(Dumped(s))}

Busy == {msg[t] : t \in {u \in Threads : pc[u] \in {"sink", "flush"}}}

\* A record that is logged is in each sink that did not throw, once; and a
\* record at the flush level is flushed there when its call goes on
\* (logger-inl.h:135-153).
SinksServed ==
  \A m \in DOMAIN logged : logged[m] # "hide" /\ m \notin Busy =>
    \A s \in Sinks \ Throwing :
      LET places == {k \in DOMAIN sunk[s] : sunk[s][k].m = m /\ ~sunk[s][k].dumped} IN
      /\ Cardinality(places) = 1
      /\ logged[m] = "urgent" => \A k \in places : k <= flushed[s]

\* Every exception of a sink is counted; reports are at least a second apart
\* on the clock they were made by and say how many there were, also when the
\* clock is set back (logger-inl.h:170-195).
ErrorsCounted ==
  /\ errors = throws
  /\ \A k \in 1 .. Len(reports) - 1 :
       /\ reports[k + 1].time - reports[k].time >= 1
       /\ reports[k + 1].n > reports[k].n

=============================================================================
