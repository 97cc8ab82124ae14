---------------------------- MODULE MCDataRoute ----------------------------
(* Instances of DataRoute for TLC. *)
EXTENDS DataRoute, TLC

MCLinks == <<"BLE", "UART">>

MCSymmetry == Permutations(Callbacks) \cup Permutations(Nodes)
=============================================================================
