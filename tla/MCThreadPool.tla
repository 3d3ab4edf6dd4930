---------------------------- MODULE MCThreadPool ----------------------------
(***************************************************************************)
(* Small instances of ThreadPool.                                          *)
(***************************************************************************)
EXTENDS ThreadPool

CONSTANTS p1, p2

Setup(n, locked, a, b) ==
  [threads |-> n, mingw |-> locked, policy |-> [p \in Producers |-> IF p = p1 THEN a ELSE b]]

\* Two workers for loggers that block; one for those that lose messages, once
\* in the MinGW build.
Pools == {Setup(2, FALSE, "block", "block"),
          Setup(1, FALSE, "block", "overrun_oldest"),
          Setup(1, TRUE, "overrun_oldest", "discard_new")}

Calls == [p \in Producers |-> IF p = p1 THEN <<"log", "flush">> ELSE <<"urgent">>]
TwoWorkers == 1 .. 2
TwoSinks == 1 .. 2

=============================================================================
