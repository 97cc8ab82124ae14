---------------------------- MODULE MCBleReceive ----------------------------
(* Instances of BleReceive for TLC. *)
EXTENDS BleReceive

Frag(total, offset, chunk) ==
  [total |-> total, offset |-> offset, chunk |-> chunk, src |-> "a"]

\* One message of three bytes in every split that has a first part of one byte,
\* so a fragment that does not follow and one longer than its message are
\* among them, and a message of one byte that has another sn.
MCFragments ==
  {Frag(3, 0, 1), Frag(3, 1, 1), Frag(3, 1, 2), Frag(3, 2, 1), Frag(3, 2, 2),
   [total |-> 1, offset |-> 0, chunk |-> 1, src |-> "b"]}

\* Messages of one kind have sn 1, those of the other sn 0.
MCSources == {"a", "b"}
MCFrameSn == [m \in MCSources |-> IF m = "a" THEN 1 ELSE 0]
=============================================================================
