---------------------------- MODULE MCBleRepeats ----------------------------
(* An instance of BleRepeats for TLC: every message is whole in one fragment *)
(* and decodes to a frame with sn 1.                                         *)
EXTENDS BleRepeats

MCSources == {"a"}
MCFrameSn == [m \in MCSources |-> 1]
MCFragments == {[total |-> 1, offset |-> 0, chunk |-> 1, src |-> "a"]}
=============================================================================
