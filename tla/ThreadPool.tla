----------------------------- MODULE ThreadPool -----------------------------
(***************************************************************************)
(* The asynchronous core of spdlog: async_logger (async_logger-inl.h), the *)
(* thread pool (thread_pool-inl.h) and its blocking queue                  *)
(* (mpmc_blocking_q.h).  Producers call log() and flush(); each call       *)
(* becomes a message, which the workers take to the sinks.                 *)
(*                                                                         *)
(* A step under queue_mutex_ is one action, for nothing else touches what  *)
(* the mutex guards.  The notification comes after the unlock, as a step   *)
(* of its own, unless the build is MinGW's (mingw).  A wait on a           *)
(* condition variable is the value "waiting" of pc or wpc; a waiting       *)
(* thread is woken by a notification or for no reason.                     *)
(*                                                                         *)
(* The pool lives as long as somebody holds a shared_ptr to it (refs): the *)
(* registry, in the person of Main, until it is shut down or given another *)
(* pool, and each producer during a call.  Whoever lets go last runs the   *)
(* destructor.                                                             *)
(***************************************************************************)
EXTENDS CircularQueue, FiniteSets

CONSTANTS
  Producers,
  Main,          \* the thread that makes the pool and drops it
  Workers,       \* 1 .. n, the workers of the largest pool
  Setups,        \* the pools tried: threads_n, each producer's policy, and
                 \* whether the build is MinGW's
  Capacity,      \* q_max_items
  Sinks,         \* 1 .. n, the sinks of the loggers, in order
  Throwing,      \* the sinks whose log() and flush() may throw
  Program,       \* bound: the kinds of the calls each producer makes
  Nothing        \* no message in hand

Actors == Producers \cup {Main}
Kinds == {"log", "urgent", "flush"}   \* "urgent": at or above flush_level_
Terminate == [kind |-> "terminate", by |-> Main, n |-> 0]
Posts == UNION {{[kind |-> Program[p][n], by |-> p, n |-> n] : n \in DOMAIN Program[p]} :
                p \in Producers}
Message == Posts \cup {Terminate}

ASSUME PoolAssumption ==
  /\ \A s \in {Producers, Workers, Sinks} : IsFiniteSet(s)
  /\ Main \notin Producers
  /\ Workers = 1 .. Cardinality(Workers)
  /\ Capacity \in Nat \ {0}
  /\ Setups \subseteq [threads : Workers, mingw : BOOLEAN,
                     policy : [Producers -> {"block", "overrun_oldest", "discard_new"}]]
  /\ Sinks = 1 .. Cardinality(Sinks) /\ Sinks # {} /\ Throwing \subseteq Sinks
  /\ Program \in [Producers -> Seq(Kinds)]
  /\ Nothing \notin Message /\ Moved \notin Message

VARIABLES
  q,         \* q_
  discards,  \* discard_counter_
  policy,    \* overflow_policy_ of each producer's logger
  mingw,     \* __MINGW32__: notify_one() comes before the unlock
  threads,   \* threads_n
  started,   \* number of workers started
  refs,      \* who holds a shared_ptr to the pool
  pc,        \* where each producer and Main is
  msg,       \* the message it posts
  calls,     \* calls each producer has made
  stops,     \* terminate messages the destructor has posted
  wpc,       \* where each worker is
  hand,      \* the message it has taken
  at,        \* the sink it is at
  posted,    \* history: messages accepted by the queue
  refused,   \* history: messages the queue had no room for
  handled,   \* history: messages a worker is done with
  sunk,      \* what each sink has, in order
  flushed,   \* how much of it each sink has flushed
  missed     \* history: the flushes that threw, each a message and a sink

setupVars == <<policy, mingw>>
queueVars == <<q, discards, setupVars>>
poolVars == <<threads, started, refs, stops>>
actorVars == <<pc, msg, calls>>
workerVars == <<wpc, hand, at>>
sinkVars == <<sunk, flushed, missed>>
historyVars == <<posted, refused, handled>>
vars == <<queueVars, poolVars, actorVars, workerVars, sinkVars, historyVars>>

Items(s) == {s[i] : i \in DOMAIN s}

Init ==
  /\ q = NewQ(Capacity)
  /\ discards = 0
  /\ \E s \in Setups : threads = s.threads /\ policy = s.policy /\ mingw = s.mingw
  /\ started = 0
  /\ refs = {Main}
  /\ pc = [a \in Actors |-> IF a = Main THEN "construct" ELSE "idle"]
  /\ msg = [a \in Actors |-> Nothing]
  /\ calls = [p \in Producers |-> 0]
  /\ stops = 0
  /\ wpc = [w \in Workers |-> "none"]
  /\ hand = [w \in Workers |-> Nothing]
  /\ at = [w \in Workers |-> 1]
  /\ posted = {} /\ refused = {} /\ handled = {}
  /\ sunk = [s \in Sinks |-> <<>>]
  /\ flushed = [s \in Sinks |-> 0]
  /\ missed = {}

Alive == pc[Main] # "aborted"

-----------------------------------------------------------------------------
(* Condition variables.                                                    *)

WaitingActors == {a \in Actors : pc[a] = "waiting"}
WaitingWorkers == {w \in Workers : wpc[w] = "waiting"}

\* Mutant: notify_one() is forgotten.
NotifyNobody(f) == pc' = f

\* pop_cv_.notify_one(): some waiting thread, if there is one, looks again.
NotifyPop(f) ==
  IF WaitingActors = {} THEN pc' = f
  ELSE \E a \in WaitingActors : pc' = [f EXCEPT ![a] = "post"]

\* push_cv_.notify_one().
NotifyPush(f) ==
  IF WaitingWorkers = {} THEN wpc' = f
  ELSE \E w \in WaitingWorkers : wpc' = [f EXCEPT ![w] = "dequeue"]

\* A wait may end although nobody notified.
SpuriousActor(a) ==
  /\ pc[a] = "waiting"
  /\ pc' = [pc EXCEPT ![a] = "post"]
  /\ UNCHANGED <<queueVars, poolVars, msg, calls, workerVars, sinkVars, historyVars>>

SpuriousWorker(w) ==
  /\ wpc[w] = "waiting"
  /\ wpc' = [wpc EXCEPT ![w] = "dequeue"]
  /\ UNCHANGED <<queueVars, poolVars, actorVars, hand, at, sinkVars, historyVars>>

-----------------------------------------------------------------------------
(* Posting.                                                                *)

\* Mutant: the terminate messages are posted with overrun_oldest.
PolicyNeverBlocks(a) == IF msg[a] = Terminate THEN "overrun_oldest" ELSE policy[a]

PolicyOf(a) == IF msg[a] = Terminate THEN "block" ELSE policy[a]

\* The message is in the queue: go on to notify, or do it at once.
Pushed(a) ==
  /\ q' = PushBack(q, msg[a])
  /\ posted' = posted \cup ({msg[a]} \ {Terminate})
  /\ IF mingw
     THEN pc' = [pc EXCEPT ![a] = "posted"] /\ NotifyPush(wpc)
     ELSE pc' = [pc EXCEPT ![a] = "notify"] /\ UNCHANGED wpc
  /\ UNCHANGED <<discards, setupVars, refused>>

\* enqueue(): wait until there is room.
Enqueue(a) ==
  /\ PolicyOf(a) = "block"
  /\ ~Full(q)
  /\ Pushed(a)

EnqueueWaits(a) ==
  /\ PolicyOf(a) = "block"
  /\ Full(q)
  /\ pc' = [pc EXCEPT ![a] = "waiting"]
  /\ UNCHANGED <<queueVars, wpc, posted, refused>>

\* enqueue_nowait(): a full queue loses its oldest message.
EnqueueNowait(a) ==
  /\ PolicyOf(a) = "overrun_oldest"
  /\ Pushed(a)

\* enqueue_if_have_room(), which pushes or leaves the message out.
EnqueueIfHaveRoom(a) ==
  /\ PolicyOf(a) = "discard_new"
  /\ ~Full(q)
  /\ Pushed(a)

NoRoom(a) ==
  /\ PolicyOf(a) = "discard_new"
  /\ Full(q)
  /\ refused' = refused \cup {msg[a]}
  /\ pc' = [pc EXCEPT ![a] = "discard"]
  /\ UNCHANGED <<queueVars, wpc, posted>>

\* post_async_msg_().
PostAsyncMsg(a) ==
  /\ pc[a] = "post"
  /\ \/ Enqueue(a) \/ EnqueueWaits(a) \/ EnqueueNowait(a)
     \/ EnqueueIfHaveRoom(a) \/ NoRoom(a)
  /\ UNCHANGED <<poolVars, msg, calls, hand, at, sinkVars, handled>>

Notify(a) ==
  /\ pc[a] = "notify"
  /\ pc' = [pc EXCEPT ![a] = "posted"]
  /\ NotifyPush(wpc)
  /\ UNCHANGED <<queueVars, poolVars, msg, calls, hand, at, sinkVars, historyVars>>

\* discard_counter_ is counted after the unlock.
Discard(a) ==
  /\ pc[a] = "discard"
  /\ discards' = discards + 1
  /\ pc' = [pc EXCEPT ![a] = "posted"]
  /\ UNCHANGED <<q, setupVars, poolVars, msg, calls, workerVars, sinkVars, historyVars>>

-----------------------------------------------------------------------------
(* Producers: log() and flush() of an async_logger.                        *)

\* thread_pool_.lock() gives a shared_ptr to the pool, or nothing and an error.
Call(p) ==
  LET n == calls[p] + 1  m == [kind |-> Program[p][n], by |-> p, n |-> n] IN
  /\ Alive /\ pc[Main] # "construct"
  /\ pc[p] = "idle"
  /\ n \in DOMAIN Program[p]
  /\ calls' = [calls EXCEPT ![p] = n]
  /\ IF refs = {}
     THEN UNCHANGED <<refs, pc, msg>>
     ELSE /\ refs' = refs \cup {p}
          /\ pc' = [pc EXCEPT ![p] = "post"]
          /\ msg' = [msg EXCEPT ![p] = m]
  /\ UNCHANGED <<queueVars, threads, started, stops, workerVars, sinkVars,
                 historyVars>>

\* What a thread does next when it lets its shared_ptr go.
AfterRelease(a) ==
  IF refs = {a} THEN "destroy" ELSE IF a = Main THEN "done" ELSE "idle"

\* The end of the call.
Return(p) ==
  /\ pc[p] = "posted"
  /\ msg[p] # Terminate
  /\ refs' = refs \ {p}
  /\ pc' = [pc EXCEPT ![p] = AfterRelease(p)]
  /\ msg' = [msg EXCEPT ![p] = Nothing]
  /\ UNCHANGED <<queueVars, threads, started, stops, calls, workerVars,
                 sinkVars, historyVars>>

-----------------------------------------------------------------------------
(* The pool.                                                               *)

\* thread_pool(): the workers are started one by one.
StartWorker ==
  /\ pc[Main] = "construct"
  /\ started < threads
  /\ started' = started + 1
  /\ wpc' = [wpc EXCEPT ![started + 1] = "dequeue"]
  /\ pc' = [pc EXCEPT ![Main] = IF started' = threads THEN "owner" ELSE "construct"]
  /\ UNCHANGED <<queueVars, threads, refs, stops, msg, calls, hand, at,
                 sinkVars, historyVars>>

\* std::thread throws: with no worker started there is no pool, with some the
\* destructor of a joinable thread ends the process.
StartWorkerThrows ==
  /\ pc[Main] = "construct"
  /\ IF started = 0
     THEN refs' = {} /\ pc' = [pc EXCEPT ![Main] = "done"]
     ELSE pc' = [pc EXCEPT ![Main] = "aborted"] /\ UNCHANGED refs
  /\ UNCHANGED <<queueVars, threads, started, stops, msg, calls, workerVars,
                 sinkVars, historyVars>>

\* The registry lets the pool go: shutdown(), or set_tp() with another pool.
DropPool ==
  /\ pc[Main] = "owner"
  /\ refs' = refs \ {Main}
  /\ pc' = [pc EXCEPT ![Main] = AfterRelease(Main)]
  /\ UNCHANGED <<queueVars, threads, started, stops, msg, calls, workerVars,
                 sinkVars, historyVars>>

\* Mutant: one terminate message too few.
PostTerminateShort(a) ==
  /\ \/ pc[a] = "destroy"
     \/ pc[a] = "posted" /\ msg[a] = Terminate
  /\ IF stops < threads - 1
     THEN /\ stops' = stops + 1
          /\ msg' = [msg EXCEPT ![a] = Terminate]
          /\ pc' = [pc EXCEPT ![a] = "post"]
     ELSE /\ pc' = [pc EXCEPT ![a] = "join"]
          /\ msg' = [msg EXCEPT ![a] = Nothing]
          /\ UNCHANGED stops
  /\ UNCHANGED <<queueVars, threads, started, refs, calls, workerVars,
                 sinkVars, historyVars>>

\* ~thread_pool(): one terminate message for each worker ...
PostTerminate(a) ==
  /\ \/ pc[a] = "destroy"
     \/ pc[a] = "posted" /\ msg[a] = Terminate
  /\ IF stops < threads
     THEN /\ stops' = stops + 1
          /\ msg' = [msg EXCEPT ![a] = Terminate]
          /\ pc' = [pc EXCEPT ![a] = "post"]
     ELSE /\ pc' = [pc EXCEPT ![a] = "join"]
          /\ msg' = [msg EXCEPT ![a] = Nothing]
          /\ UNCHANGED stops
  /\ UNCHANGED <<queueVars, threads, started, refs, calls, workerVars,
                 sinkVars, historyVars>>

\* ... and the workers are joined.
Join(a) ==
  /\ pc[a] = "join"
  /\ \A w \in 1 .. threads : wpc[w] = "ended"
  /\ pc' = [pc EXCEPT ![a] = IF a = Main THEN "done" ELSE "idle"]
  /\ UNCHANGED <<queueVars, poolVars, msg, calls, workerVars, sinkVars, historyVars>>

-----------------------------------------------------------------------------
(* Workers: worker_loop_(), process_next_msg_().                           *)

AfterTaking(m) == IF m = Terminate THEN "ended" ELSE
                  IF m.kind = "flush" THEN "flush" ELSE "log"

\* dequeue(): the front message is moved out.
Dequeue(w) ==
  LET m == FrontItem(q)  f == [wpc EXCEPT ![w] = AfterTaking(m)] IN
  /\ wpc[w] = "dequeue"
  /\ ~Empty(q)
  /\ q' = PopFront([q EXCEPT !.v = [@ EXCEPT ![q.head] = Moved]])
  /\ hand' = [hand EXCEPT ![w] = m]
  /\ IF mingw
     THEN wpc' = f /\ NotifyPop(pc)
     ELSE wpc' = [wpc EXCEPT ![w] = "notify"] /\ UNCHANGED pc
  /\ UNCHANGED <<discards, setupVars, poolVars, msg, calls, at, sinkVars, historyVars>>

DequeueWaits(w) ==
  /\ wpc[w] = "dequeue"
  /\ Empty(q)
  /\ wpc' = [wpc EXCEPT ![w] = "waiting"]
  /\ UNCHANGED <<queueVars, poolVars, actorVars, hand, at, sinkVars, historyVars>>

WorkerNotify(w) ==
  /\ wpc[w] = "notify"
  /\ wpc' = [wpc EXCEPT ![w] = AfterTaking(hand[w])]
  /\ NotifyPop(pc)
  /\ UNCHANGED <<queueVars, poolVars, msg, calls, hand, at, sinkVars, historyVars>>

\* The message is dealt with and its destructor run; the next is waited for.
WorkerDone(w) ==
  /\ wpc' = [wpc EXCEPT ![w] = "dequeue"]
  /\ at' = [at EXCEPT ![w] = 1]
  /\ hand' = [hand EXCEPT ![w] = Nothing]
  /\ handled' = handled \cup {hand[w]}

\* Mutant: one try around the whole loop, so a throw skips the other sinks.
BackendSinkItOneTry(w) ==
  LET s == at[w] IN
  /\ wpc[w] = "log"
  /\ \/ /\ sunk' = [sunk EXCEPT ![s] = Append(@, hand[w])]
        /\ IF s + 1 \in Sinks
           THEN at' = [at EXCEPT ![w] = s + 1] /\ UNCHANGED <<wpc, hand, handled>>
           ELSE WorkerDone(w)
     \/ s \in Throwing /\ WorkerDone(w) /\ UNCHANGED sunk
  /\ UNCHANGED <<queueVars, poolVars, actorVars, flushed, missed, posted, refused>>

\* backend_sink_it_(): one sink after the other; what a sink throws is caught
\* between them.  A message at the flush level is flushed at once.
BackendSinkIt(w) ==
  LET s == at[w] IN
  /\ wpc[w] = "log"
  /\ \/ sunk' = [sunk EXCEPT ![s] = Append(@, hand[w])]
     \/ s \in Throwing /\ UNCHANGED sunk
  /\ IF s + 1 \in Sinks
     THEN at' = [at EXCEPT ![w] = s + 1] /\ UNCHANGED <<wpc, hand, handled>>
     ELSE IF hand[w].kind = "urgent"
     THEN /\ at' = [at EXCEPT ![w] = 1]
          /\ wpc' = [wpc EXCEPT ![w] = "flush"]
          /\ UNCHANGED <<hand, handled>>
     ELSE WorkerDone(w)
  /\ UNCHANGED <<queueVars, poolVars, actorVars, flushed, missed, posted, refused>>

\* backend_flush_(): what flush() throws is caught sink by sink as well, and
\* what the sink has stays unflushed.
BackendFlush(w) ==
  LET s == at[w] IN
  /\ wpc[w] = "flush"
  /\ \/ flushed' = [flushed EXCEPT ![s] = Len(sunk[s])] /\ UNCHANGED missed
     \/ s \in Throwing /\ missed' = missed \cup {<<hand[w], s>>} /\ UNCHANGED flushed
  /\ IF s + 1 \in Sinks
     THEN at' = [at EXCEPT ![w] = s + 1] /\ UNCHANGED <<wpc, hand, handled>>
     ELSE WorkerDone(w)
  /\ UNCHANGED <<queueVars, poolVars, actorVars, sunk, posted, refused>>

-----------------------------------------------------------------------------

ActorStep(a) ==
  PostAsyncMsg(a) \/ Notify(a) \/ Discard(a) \/ PostTerminate(a) \/ Join(a)

ProducerStep(p) == ActorStep(p) \/ Return(p)

WorkerStep(w) ==
  \/ Dequeue(w) \/ DequeueWaits(w) \/ WorkerNotify(w)
  \/ BackendSinkIt(w) \/ BackendFlush(w)

Next ==
  /\ Alive
  /\ \/ \E p \in Producers : ProducerStep(p) \/ Call(p)
     \/ ActorStep(Main) \/ StartWorker \/ StartWorkerThrows \/ DropPool
     \/ \E a \in Actors : SpuriousActor(a)
     \/ \E w \in Workers : WorkerStep(w) \/ SpuriousWorker(w)

Spec == Init /\ [][Next]_vars

\* Every thread goes on with what it has begun; nobody has to call, to drop
\* the pool or to wake up for no reason.
FairSpec ==
  /\ Spec
  /\ WF_vars(Alive /\ (ActorStep(Main) \/ StartWorker))
  /\ \A p \in Producers : WF_vars(Alive /\ ProducerStep(p))
  /\ \A w \in Workers : WF_vars(Alive /\ WorkerStep(w))

-----------------------------------------------------------------------------
(* Properties.                                                             *)

\* Every variable has its type; the indices of the circle stay within it
\* (circular_q.h:46-57, 83).
TypeOK ==
  /\ IsCircQ(q, Message)
  /\ discards \in Nat
  /\ [threads |-> threads, mingw |-> mingw, policy |-> policy] \in Setups
  /\ started \in 0 .. threads
  /\ refs \subseteq Actors
  /\ stops \in 0 .. threads
  /\ pc \in [Actors -> {"construct", "owner", "aborted", "done", "idle", "post",
                        "waiting", "notify", "discard", "posted", "destroy", "join"}]
  /\ msg \in [Actors -> Message \cup {Nothing}]
  /\ calls \in [Producers -> Nat]
  /\ wpc \in [Workers -> {"none", "dequeue", "waiting", "notify", "log", "flush", "ended"}]
  /\ hand \in [Workers -> Message \cup {Nothing}]
  /\ at \in [Workers -> Sinks]
  /\ posted \subseteq Posts /\ refused \subseteq Posts /\ handled \subseteq Posts
  /\ sunk \in [Sinks -> Seq(Posts)]
  /\ flushed \in [Sinks -> Nat]
  /\ missed \subseteq Posts \X Throwing

Pending == Items(Contents(q)) \ {Terminate}
InHand == {hand[w] : w \in Workers} \ {Terminate, Nothing}
Lost == posted \ (Pending \cup InHand \cup handled)

\* Every accepted message is in the queue, with one worker or handled, but
\* for as many as overrun_counter() says; every refused one is counted in
\* discard_counter(), or about to be (mpmc_blocking_q.h:41-64).
Accounting ==
  /\ Cardinality(Lost) = q.overrun
  /\ Cardinality(Pending) = Cardinality({i \in DOMAIN Contents(q) : Contents(q)[i] # Terminate})
  /\ Pending \cap InHand = {} /\ (Pending \cup InHand) \cap handled = {}
  /\ Cardinality(refused) = discards + Cardinality({p \in Producers : pc[p] = "discard"})

\* The destructor's terminate messages: each is in the queue, or has ended one
\* worker; none is overrun or taken twice, so join() has no worker to wait
\* for in vain (thread_pool-inl.h:44-55).
OneStopEach ==
  LET ended == {w \in Workers : hand[w] = Terminate}
      queued == {i \in DOMAIN Contents(q) : Contents(q)[i] = Terminate}
      coming == {a \in Actors : msg[a] = Terminate /\ pc[a] \in {"post", "waiting"}}
  IN  /\ Cardinality(ended) + Cardinality(queued) + Cardinality(coming) = stops
      /\ \A a \in Actors : pc[a] = "join" => stops = threads /\ coming = {}

\* The destructor has run.
Gone ==
  /\ refs = {} /\ started > 0
  /\ \A a \in Actors : pc[a] # "destroy" /\ pc[a] # "join" /\ msg[a] # Terminate

\* When the destructor has run, whoever ran it, every worker has ended, and no
\* message that was accepted is left undone but those overrun (async.h:9-16).
Drained ==
  Gone => /\ Empty(q)
          /\ \A w \in 1 .. threads : wpc[w] = "ended"
          /\ Cardinality(posted \ handled) = q.overrun

Before(m, n) == m.by = n.by /\ m.n < n.n

\* A message is written to a sink once; with one worker the messages of a
\* producer come in the order of its calls (thread_pool-inl.h:91-122).
InPostOrder ==
  \A s \in Sinks : \A i, j \in DOMAIN sunk[s] :
    i < j => /\ sunk[s][i] # sunk[s][j]
             /\ threads = 1 => ~Before(sunk[s][j], sunk[s][i])

\* A handled record is in every sink, also behind one that threw
\* (async_logger-inl.h:63-68).
EverySinkServed ==
  \A m \in handled : m.kind # "flush" =>
    \A s \in Sinks \ Throwing : m \in Items(sunk[s])

\* With one worker, a flush has done its work for all that its caller logged
\* before: what came to a sink is flushed there, but for a sink out of which
\* this very flush threw; neither that nor an earlier throw keeps another sink
\* from being flushed (async_logger-inl.h:62-80).
FlushCovers ==
  threads = 1 =>
    \A m \in handled : m.kind \in {"flush", "urgent"} =>
      \A s \in Sinks : <<m, s>> \notin missed => \A i \in DOMAIN sunk[s] :
        Before(sunk[s][i], m) \/ sunk[s][i] = m => i <= flushed[s]

\* What is accepted is delivered: to every sink, once, in order, flushed when
\* that was asked for and the sink could, or else counted as lost
\* (thread_pool-inl.h:57-122).
Delivered == Accounting /\ InPostOrder /\ EverySinkServed /\ FlushCovers

\* The pool's end: each worker is stopped once, when nothing is left to do; and
\* the circle's indices stay within it to the end (thread_pool-inl.h:44-55).
StoppedClean == TypeOK /\ OneStopEach /\ Drained

Channel == INSTANCE BoundedChannel WITH
  Stop <- Terminate,
  evicting <- {m \in Posts : policy[m.by] = "overrun_oldest"},
  pending <- Contents(q),
  evicted <- q.overrun

\* The queue is the bounded channel its users count on: first in, first out,
\* nothing evicted but by its policy, and never a terminate message
\* (mpmc_blocking_q.h, circular_q.h).
ChannelSpec == Channel!Spec

\* Nobody is on the way, and nothing that was accepted is still to be done.
Quiet ==
  /\ \A p \in Producers : pc[p] = "idle"
  /\ pc[Main] \in {"owner", "done"}
  /\ posted \subseteq handled \cup Lost
  /\ refs = {} => Gone \/ started = 0

\* The calls being as few as they are, all come to an end: whatever they post
\* is handled, overrun or refused, also when the queue is full and the policy is
\* to block, and the destructor returns, whichever thread runs it
\* (mpmc_blocking_q.h:31-38, thread_pool-inl.h:44-55, 98-122).
NobodyHangs == []<>(Alive => Quiet)

=============================================================================
