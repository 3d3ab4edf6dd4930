------------------------------ MODULE Registry ------------------------------
(***************************************************************************)
(* The registry of spdlog (registry-inl.h, registry.h) with the factories  *)
(* that make loggers (synchronous_factory.h, async.h), the thread that     *)
(* flushes them (periodic_worker.h) and shutdown().                        *)
(*                                                                         *)
(* What happens under logger_map_mutex_ is one action.  Calls that take    *)
(* more than one lock have a step for each part.  A logger is a number;    *)
(* objs holds what the registry reads and sets of it.  conf stands for     *)
(* what the registry sets in all its loggers and in new ones: formatter,   *)
(* error handler, flush level and backtrace size.                          *)
(***************************************************************************)
EXTENDS Naturals, Sequences, Functions

CONSTANTS
  Users, NoUser,
  Names,     \* names of loggers; "" is that of the first default logger
  Levels,    \* 0 is the level loggers and the registry begin with
  MaxCalls   \* bound

RegistryAssumption == NoUser \notin Users /\ Names # {} /\ MaxCalls \in Nat

VARIABLES
  objs,       \* the loggers that were made: name, level, conf, pool
  loggers,    \* loggers_: names to loggers
  default,    \* default_logger_, or 0
  conf, globalLevel, logLevels, automatic,   \* the settings
  tp, pools,  \* tp_, or 0; the number of pools made so far
  tpMutex, flusherMutex,
  flusher,    \* periodic_flusher_, or 0
  workers,    \* its threads: where each is, active_, and who has its mutex_
  pc,         \* where each user is
  seen,       \* what get_tp() gave, or the worker that is stopped
  calls,
  kept,       \* history: loggers in the map since they were initialised
  released,   \* history: how often tp_ was reset or given a value by a user
  named       \* history: names that ever had a level of their own

mapVars == <<objs, loggers, default, kept>>
settingVars == <<conf, globalLevel, logLevels, automatic, named>>
poolVars == <<tp, pools, tpMutex, released>>
flusherVars == <<flusherMutex, flusher, workers>>
userVars == <<pc, seen, calls>>
vars == <<mapVars, settingVars, poolVars, flusherVars, userVars>>

Logger(n, level, c, p) == [name |-> n, level |-> level, conf |-> c, pool |-> p]

\* registry(): the default logger, named "".
Init ==
  /\ objs = <<Logger("", 0, 0, 0)>> /\ loggers = [n \in {""} |-> 1] /\ default = 1
  /\ kept = {1}
  /\ conf = 0 /\ globalLevel = 0 /\ logLevels = [n \in {} |-> 0] /\ automatic = TRUE
  /\ named = {}
  /\ tp = 0 /\ pools = 0 /\ tpMutex = NoUser /\ released = 0
  /\ flusherMutex = NoUser /\ flusher = 0 /\ workers = <<>>
  /\ pc = [u \in Users |-> "idle"] /\ seen = [u \in Users |-> 0] /\ calls = 0

Begin(u) == pc[u] = "idle" /\ calls < MaxCalls /\ calls' = calls + 1

Goto(u, where) == pc' = [pc EXCEPT ![u] = where]

\* A call that is done under logger_map_mutex_ alone.
MapCall(u) == Begin(u) /\ UNCHANGED <<poolVars, flusherVars, pc, seen>>

With(f, n, l) == [m \in DOMAIN f \cup {n} |-> IF m = n THEN l ELSE f[m]]
Without(f, names) == [m \in DOMAIN f \ names |-> f[m]]

\* The map is changed; a logger that leaves it is kept no longer.
SetMap(f, new) == loggers' = f /\ kept' = (kept \cup new) \cap Range(f)

-----------------------------------------------------------------------------
(* Loggers come into the map.                                              *)

LevelOf(n) == IF n \in DOMAIN logLevels THEN logLevels[n] ELSE globalLevel

\* Mutant: the settings are not given to the new logger.
InitializeBare(n, pool) ==
  LET l == Len(objs) + 1 IN
  IF automatic /\ n \in DOMAIN loggers THEN UNCHANGED <<objs, loggers, kept>>
  ELSE /\ objs' = Append(objs, Logger(n, LevelOf(n), 0, pool))
       /\ IF automatic THEN SetMap(With(loggers, n, l), {l}) ELSE UNCHANGED <<loggers, kept>>

\* initialize_logger() of a new logger.  With a name that is taken it throws,
\* and the logger is gone.
Initialize(n, pool) ==
  LET l == Len(objs) + 1 IN
  IF automatic /\ n \in DOMAIN loggers THEN UNCHANGED <<objs, loggers, kept>>
  ELSE /\ objs' = Append(objs, Logger(n, LevelOf(n), conf, pool))
       /\ IF automatic THEN SetMap(With(loggers, n, l), {l}) ELSE UNCHANGED <<loggers, kept>>

\* synchronous_factory::create().
CreateSync(u, n) ==
  /\ MapCall(u) /\ Initialize(n, 0)
  /\ UNCHANGED <<default, settingVars>>

\* async_factory::create(): get_tp() under tp_mutex, which stays locked.
CreateAsync(u) ==
  /\ Begin(u)
  /\ tpMutex = NoUser /\ tpMutex' = u
  /\ seen' = [seen EXCEPT ![u] = tp] /\ Goto(u, "pool")
  /\ UNCHANGED <<mapVars, settingVars, tp, pools, released, flusherVars>>

\* The pool there is, or a new one given to set_tp().
CreatePool(u) ==
  /\ pc[u] = "pool"
  /\ IF seen[u] # 0 THEN UNCHANGED <<tp, pools, seen>>
     ELSE /\ pools' = pools + 1 /\ tp' = pools' /\ seen' = [seen EXCEPT ![u] = pools']
  /\ Goto(u, "initialize")
  /\ UNCHANGED <<mapVars, settingVars, tpMutex, released, flusherVars, calls>>

CreateLogger(u, n) ==
  /\ pc[u] = "initialize"
  /\ Initialize(n, seen[u])
  /\ tpMutex' = IF tpMutex = u THEN NoUser ELSE tpMutex
  /\ Goto(u, "idle")
  /\ UNCHANGED <<default, settingVars, tp, pools, released, flusherVars, seen, calls>>

\* register_logger() of a logger that is in the map no more; it throws when
\* the name is taken.
RegisterLogger(u, l) ==
  /\ MapCall(u)
  /\ objs[l].name \notin DOMAIN loggers
  /\ SetMap(With(loggers, objs[l].name, l), {})
  /\ UNCHANGED <<objs, default, settingVars>>

\* register_or_replace().
RegisterOrReplace(u, l) ==
  /\ MapCall(u)
  /\ SetMap(With(loggers, objs[l].name, l), {})
  /\ UNCHANGED <<objs, default, settingVars>>

\* set_default_logger(), with a logger or with nullptr.
SetDefaultLogger(u, l) ==
  /\ MapCall(u)
  /\ SetMap(IF l = 0 THEN loggers ELSE With(loggers, objs[l].name, l), {})
  /\ default' = l
  /\ UNCHANGED <<objs, settingVars>>

-----------------------------------------------------------------------------
(* Loggers leave the map.                                                  *)

Drop(u, n) ==
  /\ MapCall(u)
  /\ SetMap(Without(loggers, {n}), {})
  /\ default' = IF default # 0 /\ objs[default].name = n THEN 0 ELSE default
  /\ UNCHANGED <<objs, settingVars>>

DropAll(u) ==
  /\ MapCall(u)
  /\ SetMap(Without(loggers, DOMAIN loggers), {}) /\ default' = 0
  /\ UNCHANGED <<objs, settingVars>>

-----------------------------------------------------------------------------
(* Settings.                                                               *)

\* Each logger in the map becomes what the table says.
ForAll(become) ==
  objs' = [l \in DOMAIN objs |-> IF l \in Range(loggers) THEN become[l] ELSE objs[l]]

\* set_formatter(), set_error_handler(), flush_on(), enable_backtrace(),
\* disable_backtrace().
SetConf(u, c) ==
  /\ MapCall(u)
  /\ conf' = c /\ ForAll([l \in DOMAIN objs |-> [objs[l] EXCEPT !.conf = c]])
  /\ UNCHANGED <<loggers, default, kept, globalLevel, logLevels, automatic, named>>

SetLevel(u, level) ==
  /\ MapCall(u)
  /\ globalLevel' = level /\ ForAll([l \in DOMAIN objs |-> [objs[l] EXCEPT !.level = level]])
  /\ UNCHANGED <<loggers, default, kept, conf, logLevels, automatic, named>>

\* set_levels(), called by load_levels(), with a global level or without.
SetLevels(u, levels, globally, level) ==
  /\ MapCall(u)
  /\ logLevels' = levels /\ named' = named \cup DOMAIN levels
  /\ globalLevel' = IF globally THEN level ELSE globalLevel
  /\ ForAll([l \in DOMAIN objs |-> [objs[l] EXCEPT !.level =
       IF objs[l].name \in DOMAIN levels THEN levels[objs[l].name]
       ELSE IF globally THEN level ELSE @]])
  /\ UNCHANGED <<loggers, default, kept, conf, automatic>>

SetAutomaticRegistration(u) ==
  /\ MapCall(u)
  /\ automatic' = ~automatic
  /\ UNCHANGED <<mapVars, conf, globalLevel, logLevels, named>>

-----------------------------------------------------------------------------
(* The periodic worker and the calls that start and stop it.               *)

\* Its wait ends with mutex_ locked: the time is over and the callback is
\* called, which waits for logger_map_mutex_.
Due(w) ==
  /\ workers[w].at = "waiting" /\ workers[w].active /\ workers[w].mutex = NoUser
  /\ workers' = [workers EXCEPT ![w].at = "callback"]
  /\ UNCHANGED <<mapVars, settingVars, poolVars, flusherMutex, flusher, userVars>>

\* flush_all(), and the next wait.
MayFlush(w) == workers[w].at = "callback"

FlushAll(w) ==
  /\ MayFlush(w)
  /\ workers' = [workers EXCEPT ![w].at = "waiting"]
  /\ UNCHANGED <<mapVars, settingVars, poolVars, flusherMutex, flusher, userVars>>

\* Or active_ is false.
MayEnd(w) == workers[w].at = "waiting" /\ ~workers[w].active /\ workers[w].mutex = NoUser

End(w) ==
  /\ MayEnd(w)
  /\ workers' = [workers EXCEPT ![w].at = "ended"]
  /\ UNCHANGED <<mapVars, settingVars, poolVars, flusherMutex, flusher, userVars>>

\* flush_every(): the new worker runs before the old one is stopped.  Without
\* an interval (or in shutdown()) there is no new thread.
ReplaceFlusher(u, new, next) ==
  /\ flusherMutex = NoUser
  /\ workers' = IF new THEN Append(workers, [at |-> "waiting", active |-> TRUE, mutex |-> NoUser])
                       ELSE workers
  /\ flusher' = IF new THEN Len(workers) + 1 ELSE 0
  /\ seen' = [seen EXCEPT ![u] = flusher]
  /\ IF flusher = 0 THEN Goto(u, next) /\ UNCHANGED flusherMutex
     ELSE /\ flusherMutex' = u
          /\ Goto(u, IF next = "idle" THEN "stop" ELSE "stopAll")

FlushEvery(u, positive) ==
  /\ Begin(u)
  /\ ReplaceFlusher(u, positive, "idle")
  /\ UNCHANGED <<mapVars, settingVars, poolVars>>

Stopping(u) == pc[u] \in {"stop", "stopAll"}

\* ~periodic_worker(): active_ is cleared under mutex_, the thread joined.
MayStop(u) == Stopping(u) /\ workers[seen[u]].at # "callback" /\ workers[seen[u]].active
MayJoin(u) == Stopping(u) /\ workers[seen[u]].at = "ended"

StopWorker(u) ==
  /\ MayStop(u)
  /\ workers' = [workers EXCEPT ![seen[u]].active = FALSE]
  /\ UNCHANGED <<mapVars, settingVars, poolVars, flusherMutex, flusher, userVars>>

JoinWorker(u) ==
  /\ MayJoin(u)
  /\ flusherMutex' = NoUser
  /\ Goto(u, IF pc[u] = "stop" THEN "idle" ELSE "dropAll")
  /\ UNCHANGED <<mapVars, settingVars, poolVars, flusher, workers, seen, calls>>

-----------------------------------------------------------------------------
(* init_thread_pool() and shutdown().                                      *)

InitThreadPool(u) ==
  /\ Begin(u) /\ tpMutex = NoUser
  /\ pools' = pools + 1 /\ tp' = pools' /\ released' = released + 1
  /\ UNCHANGED <<mapVars, settingVars, tpMutex, flusherVars, pc, seen>>

\* shutdown(): the worker, the loggers, the pool.
Shutdown(u) ==
  /\ Begin(u)
  /\ ReplaceFlusher(u, FALSE, "dropAll")
  /\ UNCHANGED <<mapVars, settingVars, poolVars>>

ShutdownLoggers(u) ==
  /\ pc[u] = "dropAll"
  /\ SetMap(Without(loggers, DOMAIN loggers), {}) /\ default' = 0
  /\ Goto(u, "resetPool")
  /\ UNCHANGED <<objs, settingVars, poolVars, flusherVars, seen, calls>>

MayReset(u) == pc[u] = "resetPool" /\ tpMutex = NoUser

ShutdownPool(u) ==
  /\ MayReset(u)
  /\ tp' = 0 /\ released' = released + 1
  /\ Goto(u, "idle")
  /\ UNCHANGED <<mapVars, settingVars, pools, tpMutex, flusherVars, seen, calls>>

-----------------------------------------------------------------------------

LevelMaps == UNION {[names -> Levels] : names \in {{}} \cup {{n} : n \in Names}}

UserCall(u) ==
  \/ \E n \in Names : CreateSync(u, n) \/ Drop(u, n)
  \/ CreateAsync(u) \/ DropAll(u) \/ SetAutomaticRegistration(u)
  \/ \E l \in DOMAIN objs : RegisterLogger(u, l) \/ RegisterOrReplace(u, l)
  \/ \E l \in DOMAIN objs \cup {0} : SetDefaultLogger(u, l)
  \/ \E c \in {0, 1} : SetConf(u, c)
  \/ \E level \in Levels : SetLevel(u, level)
  \/ \E levels \in LevelMaps, globally \in BOOLEAN, level \in Levels :
       SetLevels(u, levels, globally, level)
  \/ \E positive \in BOOLEAN : FlushEvery(u, positive)
  \/ InitThreadPool(u) \/ Shutdown(u)

UserStep(u) ==
  \/ CreatePool(u) \/ \E n \in Names : CreateLogger(u, n)
  \/ StopWorker(u) \/ JoinWorker(u)
  \/ ShutdownLoggers(u) \/ ShutdownPool(u)

WorkerStep(w) == Due(w) \/ FlushAll(w) \/ End(w)

Next ==
  \/ \E u \in Users : UserCall(u) \/ UserStep(u)
  \/ \E w \in DOMAIN workers : WorkerStep(w)

Spec == Init /\ [][Next]_vars

-----------------------------------------------------------------------------
(* Properties.                                                             *)

\* A logger that has been in the map since the registry initialised it is set
\* as the registry says, whoever called what in between; its level is the
\* global one if its name never had its own (registry-inl.h:62-84, 124-171,
\* 225-239).
Configured ==
  \A l \in kept : /\ objs[l].conf = conf
                  /\ objs[l].name \notin named => objs[l].level = globalLevel

\* The map knows each logger by its name, and the default logger is in it,
\* unless it was replaced there by another of its name; a name that was dropped
\* is not the default's (registry-inl.h:103-111, 188-201).
DefaultListed ==
  /\ \A n \in DOMAIN loggers : objs[loggers[n]].name = n
  /\ default # 0 => objs[default].name \in DOMAIN loggers

\* create_async() makes a pool only when there is none: each pool but the
\* first was preceded by a reset, or came from init_thread_pool(), and the
\* logger is given one that was the registry's (async.h:40-52).
OnePool == pools <= released + 1 /\ tp <= pools

\* One flusher thread at most runs outside of the calls that replace it, and
\* its worker is the registry's (registry.h:69-73, periodic_worker-inl.h:14-23).
OneFlusher ==
  flusherMutex = NoUser =>
    {w \in DOMAIN workers : workers[w].at # "ended"} = {flusher} \ {0}

\* A step of a user, or of a worker, that waits for nobody.
MayGoOn(u) ==
  pc[u] \in {"pool", "initialize", "dropAll"} \/ MayStop(u) \/ MayJoin(u) \/ MayReset(u)

\* No call waits for ever, in whatever order the mutexes are taken: one of
\* the threads can always go on (registry-inl.h:204-216).
CallsGoOn == (\E u \in Users : pc[u] # "idle") =>
  \/ \E u \in Users : MayGoOn(u)
  \/ \E w \in DOMAIN workers : MayFlush(w) \/ MayEnd(w)

=============================================================================
