--------------------------- MODULE BoundedChannel ---------------------------
(***************************************************************************)
(* What the queue of the thread pool promises its users (async.h, the      *)
(* overflow policies of async_logger.h): a first-in first-out channel of a *)
(* bounded length, where a message is refused or evicts the oldest one     *)
(* only when the channel is full, nothing is put in twice or out of turn,  *)
(* and nothing but stop messages follows the first of them.                *)
(***************************************************************************)
EXTENDS Naturals, Sequences

CONSTANTS Message, Stop, Capacity

VARIABLES
  evicting,  \* the messages whose policy is to evict another
  pending,   \* the messages in the channel
  evicted    \* how many were overrun

Init ==
  /\ evicting \subseteq Message \ {Stop}
  /\ pending = <<>>
  /\ evicted = 0

Closed == \E i \in DOMAIN pending : pending[i] = Stop

\* An ordinary message never follows a stop message.
Orderly(m) == m = Stop \/ ~Closed

Put(m) ==
  /\ Len(pending) < Capacity
  /\ Orderly(m)
  /\ pending' = Append(pending, m)
  /\ UNCHANGED <<evicting, evicted>>

\* A stop message is never evicted.
PutEvicting(m) ==
  /\ m \in evicting
  /\ Len(pending) = Capacity
  /\ ~Closed
  /\ pending' = Append(Tail(pending), m)
  /\ evicted' = evicted + 1
  /\ UNCHANGED evicting

Take ==
  /\ pending # <<>>
  /\ pending' = Tail(pending)
  /\ UNCHANGED <<evicting, evicted>>

Next ==
  \/ \E m \in Message : Put(m) \/ PutEvicting(m)
  \/ Take

Spec == Init /\ [][Next]_<<evicting, pending, evicted>>

=============================================================================
