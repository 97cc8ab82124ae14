--------------------------- MODULE MessageChannel ---------------------------
(***************************************************************************)
(* What a link promises to the callbacks registered with the data route:   *)
(* messages arrive in the order they were sent and none of them twice.     *)
(* A message may be lost, and at most Capacity of them are on their way at *)
(* once.  Messages are numbered in the order they are sent.                *)
(***************************************************************************)
EXTENDS Integers, Sequences

CONSTANTS
  Messages,  \* a set of positive integers
  Capacity

VARIABLES
  pending,   \* accepted messages, oldest first
  out        \* the message given to the callbacks last, 0 before the first

Init == pending = <<>> /\ out = 0

Accept(m) ==
  /\ Len(pending) < Capacity
  /\ out < m
  /\ \A i \in DOMAIN pending : pending[i] < m
  /\ pending' = Append(pending, m)
  /\ out' = out

Deliver ==
  /\ pending # <<>>
  /\ out' = Head(pending)
  /\ pending' = Tail(pending)

Lose ==
  /\ pending # <<>>
  /\ pending' = Tail(pending)
  /\ out' = out

Next == (\E m \in Messages : Accept(m)) \/ Deliver \/ Lose

\* The receiver does not sit on a message.
Spec == Init /\ [][Next]_<<pending, out>> /\ WF_<<pending, out>>(Deliver \/ Lose)
=============================================================================
