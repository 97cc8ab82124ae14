----------------------------- MODULE BleRepeats -----------------------------
(***************************************************************************)
(* BleReceive with one history variable: the session whose frame set rx_sn *)
(* last.  agcore_rawdata_decode drops a frame whose sn is the one in rx_sn *)
(* and agcore_data_link_reset clears rx_sn for a new connection, while the *)
(* data task may still hold frames of the old one.                         *)
(***************************************************************************)
EXTENDS BleReceive

VARIABLE snSession

FrameSession == heap[task.item.buf][0].session

RepeatsInit == Init /\ snSession = 0

RepeatsStore == TaskStore /\ snSession' = FrameSession

RepeatsOther ==
  /\ Connections \/ Timers \/ Writes \/ TaskRoute
       \/ TaskReceive \/ TaskDrop \/ TaskAccept \/ TaskCompare \/ TaskFree
  /\ UNCHANGED snSession

RepeatsSpec ==
  RepeatsInit /\ [][RepeatsStore \/ RepeatsOther]_<<vars, snSession>>

\* agcore_data_protocol.c:20: resetting a link clears its sequence numbers.
\* So a frame is dropped as a repetition only when a frame of its own session
\* had that sn, never because of what an earlier connection sent.
RepeatOfSameSession ==
  [][(TaskDrop /\ FrameIn(heap[task.item.buf]) # {Invalid}) => snSession = FrameSession]_<<vars, snSession>>
=============================================================================
