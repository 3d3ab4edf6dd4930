--------------------------- MODULE MCThreadedEcho --------------------------
(***************************************************************************)
(* Small instances of ThreadedEcho: the values are in the .cfg files.      *)
(***************************************************************************)
EXTENDS ThreadedEcho, TLC

\* The active clients run the same code; so do the silent ones.
Symmetry == Permutations(Active) \cup Permutations(Idle)

EchoSpec == Echo!Spec

=============================================================================
