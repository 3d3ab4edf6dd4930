--------------------------- MODULE MCBlockingEcho ---------------------------
(***************************************************************************)
(* Small instances of BlockingEcho: the values are in the .cfg files.      *)
(***************************************************************************)
EXTENDS BlockingEcho

\* The refinement of the abstract service, as a property of a run.
EchoSpec == Echo!Spec

=============================================================================
