-------------------------- MODULE MCDailyFileSink ---------------------------
(***************************************************************************)
(* Small instances of DailyFileSink: the values are in the .cfg files.     *)
(* A day of 24 hours has two ticks.                                        *)
(***************************************************************************)
EXTENDS DailyFileSink, TLC

\* Four days of 24 hours.
EvenDays == [d \in 0 .. 3 |-> 2 * d]
EvenMidnights == [tp \in 0 .. MaxTime |-> 2 * (tp \div 2)]

Symmetry == Permutations(Threads)

=============================================================================
