---------------------------- MODULE EchoService ----------------------------
(***************************************************************************)
(* What an echo server promises its clients, whatever its threads, its     *)
(* descriptors and the network do (server.cpp of targets 02 and 03: "原样   *)
(* 回显", send back what came in, unchanged).  A client says its message    *)
(* once; afterwards it may hear a beginning of that same message, and      *)
(* nothing else, ever longer.                                              *)
(***************************************************************************)
EXTENDS Naturals, Sequences

CONSTANTS Clients, MsgLen

VARIABLES
  said,   \* the clients that have sent their message
  heard   \* what each client has received

Message(c) == [i \in 1 .. MsgLen |-> <<c, i>>]

Init ==
  /\ said = {}
  /\ heard = [c \in Clients |-> <<>>]

Say(c) ==
  /\ c \notin said
  /\ said' = said \cup {c}
  /\ UNCHANGED heard

Hear(c) ==
  /\ c \in said
  /\ \E n \in (Len(heard[c]) + 1) .. MsgLen :
       heard' = [heard EXCEPT ![c] = SubSeq(Message(c), 1, n)]
  /\ UNCHANGED said

Next == \E c \in Clients : Say(c) \/ Hear(c)

Spec == Init /\ [][Next]_<<said, heard>>

=============================================================================
