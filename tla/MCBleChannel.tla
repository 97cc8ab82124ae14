---------------------------- MODULE MCBleChannel ----------------------------
(* Instances of BleChannel for TLC. *)
EXTENDS BleChannel

\* Three messages of two bytes; the first and the last have the same sn, the
\* second has sn 0.
MCSources == 1 .. 3
MCLenOf == [m \in MCSources |-> 2]
MCFrameSn == <<1, 0, 1>>
=============================================================================
