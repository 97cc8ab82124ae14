------------------------------ MODULE LogStream ------------------------------
(***************************************************************************)
(* What the asynchronous log promises to those who log: what was accepted  *)
(* is printed as it is and in order; a log is cut only when no room is     *)
(* left.                                                                   *)
(***************************************************************************)
EXTENDS Integers, Sequences

CONSTANTS
  Logs,      \* sequences of characters somebody may log
  Capacity,  \* characters the log keeps at least before it cuts
  Limit      \* ... and at most

VARIABLES
  pending,   \* accepted and not yet printed, oldest first
  printed    \* printed last

Init == pending = <<>> /\ printed = <<>>

First(s, n) == SubSeq(s, 1, n)
Rest(s, n) == SubSeq(s, n + 1, Len(s))

Accept(log) ==
  /\ \E n \in 0 .. Len(log) : pending' = pending \o First(log, n)
  /\ Len(pending') < Len(pending) + Len(log) => Len(pending') >= Capacity
  /\ Len(pending') <= Limit
  /\ printed' = printed

PrintSome ==
  \E n \in 1 .. Len(pending) :
    /\ printed' = First(pending, n)
    /\ pending' = Rest(pending, n)

\* The console does not take what is given to it.
Lose ==
  \E n \in 1 .. Len(pending) :
    /\ pending' = Rest(pending, n)
    /\ printed' = printed

Next == (\E log \in Logs : Accept(log)) \/ PrintSome \/ Lose

Spec == Init /\ [][Next]_<<pending, printed>>
=============================================================================
