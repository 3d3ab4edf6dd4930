----------------------------- MODULE MCLogging ------------------------------
(***************************************************************************)
(* Small instances of Logging: the other values are in the .cfg files.     *)
(* There is no symmetry set, because one run checks a liveness property.   *)
(***************************************************************************)
EXTENDS Logging

CONSTANT Busy   \* the threads that call twice, the others call once

CallsOf == [t \in Threads |-> IF t \in Busy THEN 2 ELSE 1]

=============================================================================
