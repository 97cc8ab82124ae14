----------------------------- MODULE BleReceive -----------------------------
(***************************************************************************)
(* The BLE receive path, from the GATT write callback to the callbacks of  *)
(* the data task:                                                          *)
(*   - the NimBLE host task runs GAP events, GATT writes, the timeout      *)
(*     event and the stack's reset and sync callbacks one at a time        *)
(*     (agcore_ble.c, agcore_ble_gap.c, agcore_ble_gatt.c,                 *)
(*     agcore_ble_pipe.c); they own the reassembly state;                  *)
(*   - the timer task moves the expired callout to the host's event queue; *)
(*   - the data task takes complete messages from the queue, decodes,      *)
(*     dispatches and frees them (agcore_data.c, agcore_data_protocol.c).  *)
(* The host and the data task share the queue, the heap and rx_sn, and the *)
(* data task reads rx_sn in one step and writes it in another.             *)
(*                                                                         *)
(* The send side of the handlers (tx_sn, the MTU and its callout) is not   *)
(* here: nothing on this path reads it.                                    *)
(***************************************************************************)
EXTENDS Fragment, Sequences

CONSTANTS
  Handles,         \* connection handles the stack may use
  NoConn,          \* BLE_HS_CONN_HANDLE_NONE
  Sources,         \* kinds of data a peer may put in a fragment
  FrameSn,         \* the sn of the frame a message of one kind decodes to
  Invalid,         \* ... or Invalid when agcore_rawdata_decode rejects it
  Fragments,       \* fragments a peer may write: [total, offset, chunk, src]
  QueueLength,     \* AGCORE_DATA_QUEUE_LENGTH
  Timeout,         \* CONFIG_AGCORE_BLE_FRAGMENT_TIMEOUT_MS, in ticks
  HostLatency,     \* bound: ticks a queued event waits for the host task
  ClockModulus,    \* 2^32 in the code: ble_npl_time_get wraps around
  ArmMayFail,      \* whether ble_npl_callout_reset may fail for a fragment
  RearmMayFail,    \* ... and whether it may fail in the timeout event
  MaxSession       \* bound: sessions in a behaviour

ASSUME HandlesAssumption == NoConn \notin Handles
ASSUME QueueAssumption == QueueLength \in Nat \ {0}
ASSUME ClockAssumption ==
  /\ Timeout \in Nat \ {0}
  /\ HostLatency \in Nat
  /\ ClockModulus \in Nat
  /\ ClockModulus > Timeout + HostLatency
  /\ ArmMayFail \in BOOLEAN
  /\ RearmMayFail \in BOOLEAN
  /\ MaxSession \in Nat
ASSUME FragmentsAssumption ==
  Fragments \subseteq [total: Nat, offset: Nat, chunk: Nat, src: Sources]

Off == -1        \* the callout is not armed
NoEvent == -1    \* no timeout event waits in the host's event queue

Sn == {FrameSn[m] : m \in Sources} \ {Invalid}
ASSUME FrameSnAssumption ==
  /\ FrameSn \in [Sources -> Nat \cup {Invalid}]
  /\ Invalid \notin Nat

\* A byte in a buffer: the kind of data and, as history, who wrote it.
Byte == [src: Sources, conn: Handles, session: 0 .. MaxSession]

\* What an allocated block holds.
Content == UNION {[0 .. n - 1 -> Byte \cup {Junk}] : n \in 1 .. MaxMessage}

ASSUME ContentAssumption == Free \notin Content /\ Junk \notin Byte

VARIABLES
  ready,      \* g_agcore_ble_ready
  links,      \* external: connections the NimBLE host has open
  conn,       \* g_agcore_ble_conn_handle
  session,    \* g_agcore_ble_session
  frag,       \* the link's agcore_fragment_state_t
  heap,
  timer,      \* external: ticks until g_agcore_ble_rx_timeout expires, or Off
  event,      \* external: ticks its event has waited for the host, or NoEvent
  now,        \* external: ble_npl_time_get
  lastTick,   \* g_agcore_ble_rx_last_tick
  queue,      \* g_agcore_data_queue
  rxsn,       \* rx_sn of the link; 0: none
  task,       \* the data task: pc, the item it holds, its decoded sn
  idle        \* history: ticks since the last kept fragment, at most Timeout

gap == <<ready, links, conn, session>>
clock == <<timer, event, now, lastTick, idle>>
vars == <<ready, links, conn, session, frag, heap, timer, event, now,
          lastTick, queue, rxsn, task, idle>>

NoItem == [buf |-> NoBlock, len |-> 0]
Waiting == [pc |-> "wait", item |-> NoItem, sn |-> 0]

Init ==
  /\ ready = FALSE
  /\ links = {}
  /\ conn = NoConn
  /\ session = 0
  /\ frag = NoFragment
  /\ heap = [b \in Blocks |-> Free]
  /\ timer = Off
  /\ event = NoEvent
  /\ now = 0
  /\ lastTick = 0
  /\ queue = <<>>
  /\ rxsn = 0
  /\ task = Waiting
  /\ idle = 0
-----------------------------------------------------------------------------
(* Host task: connections. *)

\* agcore_fragment_reset
ReleaseFragment ==
  /\ frag' = NoFragment
  /\ heap' = Freed(heap, frag.buf)

\* Mutant of PipeReset: the message in reassembly is forgotten.
PipeResetKeepsFragment ==
  /\ session < MaxSession
  /\ session' = session + 1
  /\ timer' = Off
  /\ UNCHANGED <<frag, heap, event, now, lastTick, idle>>

\* agcore_ble_pipe_reset.  Stopping the callout does not withdraw an event
\* that is already in the host's event queue.
PipeReset ==
  /\ session < MaxSession
  /\ session' = session + 1
  /\ timer' = Off
  /\ ReleaseFragment
  /\ UNCHANGED <<event, now, lastTick, idle>>

\* agcore_ble_on_stack_sync_cb, when it gets to the end.
Sync ==
  /\ ~ready
  /\ links = {}
  /\ ready' = TRUE
  /\ UNCHANGED <<links, conn, session, frag, heap, clock, queue, rxsn, task>>

\* agcore_ble_on_stack_reset_cb: the stack has lost every connection.
StackReset ==
  /\ ready
  /\ ready' = FALSE
  /\ links' = {}
  /\ PipeReset
  /\ conn' = NoConn
  /\ UNCHANGED <<queue, rxsn, task>>

\* agcore_ble_gap_connect_handle with status 0: the first connection.
Connect(c) ==
  /\ ready
  /\ c \notin links
  /\ conn = NoConn
  /\ links' = links \cup {c}
  /\ PipeReset
  /\ conn' = c
  /\ rxsn' = 0
  /\ UNCHANGED <<ready, queue, task>>

\* ... and one more: it is told to go and stays open until the stack reports
\* its disconnection.
ConnectSecond(c) ==
  /\ ready
  /\ c \notin links
  /\ conn # NoConn
  /\ links' = links \cup {c}
  /\ UNCHANGED <<ready, conn, session, frag, heap, clock, queue, rxsn, task>>

\* agcore_ble_gap_disconnect_handle for the active connection.
Disconnect(c) ==
  /\ c \in links
  /\ c = conn
  /\ links' = links \ {c}
  /\ PipeReset
  /\ conn' = NoConn
  /\ rxsn' = 0
  /\ UNCHANGED <<ready, queue, task>>

\* ... and for any other.
DisconnectSecond(c) ==
  /\ c \in links
  /\ c # conn
  /\ links' = links \ {c}
  /\ UNCHANGED <<ready, conn, session, frag, heap, clock, queue, rxsn, task>>
-----------------------------------------------------------------------------
(* Host task: agcore_ble_gatt_write_cb and agcore_ble_rx_data_handle.  A    *)
(* write whose own malloc or copy fails, and a write from a connection that *)
(* is not the active one, return without touching anything: no step here.   *)

Accepts(c) == c \in links /\ c = conn

\* The fragment as decode sees it, each byte with its writer.
Received(c, f) ==
  [total |-> f.total, offset |-> f.offset, chunk |-> f.chunk,
   data |-> [src |-> f.src, conn |-> c, session |-> session]]

\* Mutant of WriteFails: the decode ends before it resets the reassembly.
WriteFailsKeepsFragment(c, f) ==
  /\ Accepts(c)
  /\ DecodeMayFail(frag, Received(c, f))
  /\ timer' = Off
  /\ UNCHANGED <<gap, frag, heap, event, now, lastTick, idle, queue, rxsn, task>>

\* AGCORE_FRAGMENT_ERROR or NO_MEMORY.
WriteFails(c, f) ==
  /\ Accepts(c)
  /\ DecodeMayFail(frag, Received(c, f))
  /\ ReleaseFragment
  /\ timer' = Off
  /\ UNCHANGED <<gap, event, now, lastTick, idle, queue, rxsn, task>>

\* AGCORE_FRAGMENT_MORE, the callout armed anew.
WriteMore(c, f) ==
  /\ Accepts(c)
  /\ \E r \in Decoded(frag, heap, Received(c, f)) :
       /\ r.frag.received # r.frag.total
       /\ frag' = r.frag
       /\ heap' = r.heap
  /\ timer' = Timeout
  /\ lastTick' = now
  /\ idle' = 0
  /\ UNCHANGED <<gap, event, now, queue, rxsn, task>>

\* AGCORE_FRAGMENT_MORE, but the callout cannot be armed.
WriteMoreNoCallout(c, f) ==
  /\ ArmMayFail
  /\ Accepts(c)
  /\ \E r \in Decoded(frag, heap, Received(c, f)) :
       /\ r.frag.received # r.frag.total
       /\ frag' = NoFragment
       /\ heap' = Freed(r.heap, r.frag.buf)
  /\ lastTick' = now
  /\ UNCHANGED <<gap, timer, event, now, idle, queue, rxsn, task>>

\* Mutant of WriteComplete: a buffer the queue has no room for is not freed.
WriteCompleteLeaks(c, f) ==
  /\ Accepts(c)
  /\ \E r \in Decoded(frag, heap, Received(c, f)) :
       /\ r.frag.received = r.frag.total
       /\ frag' = NoFragment
       /\ queue' = IF Len(queue) < QueueLength
                   THEN Append(queue, [buf |-> r.frag.buf, len |-> r.frag.total])
                   ELSE queue
       /\ heap' = r.heap
  /\ timer' = Off
  /\ UNCHANGED <<gap, event, now, lastTick, idle, rxsn, task>>

\* AGCORE_FRAGMENT_COMPLETE: the buffer goes to the queue when it has room,
\* and is freed when agcore_data_push refuses it.
WriteComplete(c, f) ==
  /\ Accepts(c)
  /\ \E r \in Decoded(frag, heap, Received(c, f)) :
       /\ r.frag.received = r.frag.total
       /\ frag' = NoFragment
       /\ \/ /\ Len(queue) < QueueLength
             /\ queue' = Append(queue, [buf |-> r.frag.buf, len |-> r.frag.total])
             /\ heap' = r.heap
          \/ /\ Len(queue) = QueueLength
             /\ queue' = queue
             /\ heap' = Freed(r.heap, r.frag.buf)
  /\ timer' = Off
  /\ UNCHANGED <<gap, event, now, lastTick, idle, rxsn, task>>

GattWrite(c, f) ==
  \/ WriteFails(c, f)
  \/ WriteMore(c, f)
  \/ WriteMoreNoCallout(c, f)
  \/ WriteComplete(c, f)
-----------------------------------------------------------------------------
(* Time, the timer task and fragment_timeout_cb. *)

\* An expired callout is served, and a queued event is handled, before time
\* goes on too long: this is all that bounds how late the host task runs.
Tick ==
  /\ timer # 0
  /\ event # HostLatency
  /\ now' = IF now = ClockModulus - 1 THEN 0 ELSE now + 1
  /\ timer' = IF timer = Off THEN Off ELSE timer - 1
  /\ event' = IF event = NoEvent THEN NoEvent ELSE event + 1
  /\ idle' = IF idle < Timeout THEN idle + 1 ELSE idle
  /\ UNCHANGED <<gap, frag, heap, lastTick, queue, rxsn, task>>

\* An event that is still queued is not queued again.
CalloutExpire ==
  /\ timer = 0
  /\ timer' = Off
  /\ event' = IF event = NoEvent THEN 0 ELSE event
  /\ UNCHANGED <<gap, frag, heap, now, lastTick, idle, queue, rxsn, task>>

\* Mutant of Elapsed: the readings are subtracted as signed integers.
ElapsedSigned == now - lastTick

\* The difference of two readings of the clock, as unsigned integers subtract.
Elapsed ==
  IF now >= lastTick THEN now - lastTick ELSE ClockModulus + now - lastTick

TimeoutNothing ==
  /\ event # NoEvent
  /\ frag.buf = NoBlock
  /\ event' = NoEvent
  /\ UNCHANGED <<gap, frag, heap, timer, now, lastTick, idle, queue, rxsn, task>>

\* Mutant of TimeoutRearm: the callout is armed for the whole timeout again.
TimeoutRearmWhole ==
  /\ event # NoEvent
  /\ frag.buf # NoBlock
  /\ Elapsed < Timeout
  /\ event' = NoEvent
  /\ timer' = Timeout
  /\ UNCHANGED <<gap, frag, heap, now, lastTick, idle, queue, rxsn, task>>

TimeoutRearm ==
  /\ event # NoEvent
  /\ frag.buf # NoBlock
  /\ Elapsed < Timeout
  /\ event' = NoEvent
  /\ timer' = Timeout - Elapsed
  /\ UNCHANGED <<gap, frag, heap, now, lastTick, idle, queue, rxsn, task>>

\* Mutant of TimeoutRelease: an event is always taken for the one of the
\* message in reassembly.
TimeoutReleaseAlways ==
  /\ event # NoEvent
  /\ frag.buf # NoBlock
  /\ event' = NoEvent
  /\ ReleaseFragment
  /\ UNCHANGED <<gap, timer, now, lastTick, idle, queue, rxsn, task>>

TimeoutRelease ==
  /\ event # NoEvent
  /\ frag.buf # NoBlock
  /\ Elapsed >= Timeout \/ RearmMayFail
  /\ event' = NoEvent
  /\ ReleaseFragment
  /\ UNCHANGED <<gap, timer, now, lastTick, idle, queue, rxsn, task>>

FragmentTimeout == TimeoutNothing \/ TimeoutRearm \/ TimeoutRelease
-----------------------------------------------------------------------------
(* The data task: agcore_data_task and agcore_rawdata_decode. *)

\* What agcore_rawdata_decode may find in a message: bytes of one kind decode
\* to what that kind is, and a mixture may pass the 8-bit checksum or not.
FrameIn(bytes) ==
  IF \E m \in Sources : \A i \in DOMAIN bytes : bytes[i] # Junk /\ bytes[i].src = m
  THEN {FrameSn[bytes[0].src]}
  ELSE Sn \cup {Invalid}

\* Mutant of TaskReceive: the item stays in the queue, as with xQueuePeek.
TaskPeek ==
  /\ task.pc = "wait"
  /\ queue # <<>>
  /\ task' = [task EXCEPT !.pc = "decode", !.item = Head(queue)]
  /\ UNCHANGED <<gap, frag, heap, clock, queue, rxsn>>

TaskReceive ==
  /\ task.pc = "wait"
  /\ queue # <<>>
  /\ task' = [task EXCEPT !.pc = "decode", !.item = Head(queue)]
  /\ queue' = Tail(queue)
  /\ UNCHANGED <<gap, frag, heap, clock, rxsn>>

\* Mutant of TaskDrop: back to the queue without freeing the message.
TaskDropLeaks ==
  /\ task.pc = "decode"
  /\ \E sn \in FrameIn(heap[task.item.buf]) : sn = Invalid \/ (sn # 0 /\ sn = rxsn)
  /\ task' = Waiting
  /\ UNCHANGED <<gap, frag, heap, clock, queue, rxsn>>

\* The frame is no frame, or the last sn again.
TaskDrop ==
  /\ task.pc = "decode"
  /\ \E sn \in FrameIn(heap[task.item.buf]) : sn = Invalid \/ (sn # 0 /\ sn = rxsn)
  /\ task' = [task EXCEPT !.pc = "free"]
  /\ UNCHANGED <<gap, frag, heap, clock, queue, rxsn>>

\* sn 0 is neither compared nor kept.
TaskAccept ==
  /\ task.pc = "decode"
  /\ 0 \in FrameIn(heap[task.item.buf])
  /\ task' = [task EXCEPT !.pc = "route"]
  /\ UNCHANGED <<gap, frag, heap, clock, queue, rxsn>>

\* atomic_load(rx_sn) lets the frame pass ...
TaskCompare ==
  /\ task.pc = "decode"
  /\ \E sn \in FrameIn(heap[task.item.buf]) \ {0, Invalid} :
       /\ sn # rxsn
       /\ task' = [task EXCEPT !.pc = "store", !.sn = sn]
  /\ UNCHANGED <<gap, frag, heap, clock, queue, rxsn>>

\* ... and atomic_store(rx_sn) comes later.
TaskStore ==
  /\ task.pc = "store"
  /\ rxsn' = task.sn
  /\ task' = [task EXCEPT !.pc = "route"]
  /\ UNCHANGED <<gap, frag, heap, clock, queue>>

\* agcore_data_route_handler: the callbacks borrow the buffer and return.
TaskRoute ==
  /\ task.pc = "route"
  /\ task' = [task EXCEPT !.pc = "free"]
  /\ UNCHANGED <<gap, frag, heap, clock, queue, rxsn>>

TaskFree ==
  /\ task.pc = "free"
  /\ heap' = Freed(heap, task.item.buf)
  /\ task' = Waiting
  /\ UNCHANGED <<gap, frag, clock, queue, rxsn>>

\* Everything the data task does but call the callbacks.
Bookkeeping ==
  TaskReceive \/ TaskDrop \/ TaskAccept \/ TaskCompare \/ TaskStore \/ TaskFree

DataTask == TaskRoute \/ Bookkeeping
-----------------------------------------------------------------------------
Connections ==
  \/ Sync
  \/ StackReset
  \/ \E c \in Handles : Connect(c) \/ ConnectSecond(c) \/ Disconnect(c) \/ DisconnectSecond(c)

Timers == Tick \/ CalloutExpire \/ FragmentTimeout

Writes == \E c \in Handles, f \in Fragments : GattWrite(c, f)

Next == Connections \/ Timers \/ Writes \/ DataTask

Spec == Init /\ [][Next]_vars

\* Time passes, the timer task and the host task run, and the data task runs
\* (its callbacks return).  Nothing is assumed of the peer or of the stack.
Fairness ==
  WF_vars(Tick) /\ WF_vars(CalloutExpire) /\ WF_vars(FragmentTimeout) /\ WF_vars(DataTask)

FairSpec == Spec /\ Fairness
-----------------------------------------------------------------------------
(* Properties *)

Item == [buf: Blocks, len: 1 .. MaxMessage]

\* Types.
TypeOK ==
  /\ ready \in BOOLEAN
  /\ links \subseteq Handles
  /\ conn \in Handles \cup {NoConn}
  /\ session \in 0 .. MaxSession
  /\ frag \in [buf: Blocks \cup {NoBlock}, total: 0 .. MaxMessage, received: 0 .. MaxMessage]
  /\ heap \in [Blocks -> Content \cup {Free}]
  /\ timer \in -1 .. Timeout
  /\ event \in -1 .. HostLatency
  /\ now \in 0 .. ClockModulus - 1
  /\ lastTick \in 0 .. ClockModulus - 1
  /\ queue \in Seq(Item)
  /\ Len(queue) <= QueueLength
  /\ rxsn \in Sn \cup {0}
  /\ task \in [pc: {"wait", "decode", "store", "route", "free"},
               item: Item \cup {NoItem}, sn: Sn \cup {0}]
  /\ idle \in 0 .. Timeout

Queued == {queue[i].buf : i \in DOMAIN queue}

\* Every allocated buffer has exactly one owner - the reassembly state, one
\* place of the queue, or the data task - and no owner holds a freed one:
\* nothing leaks, is freed twice or is used after it is freed, whatever full
\* queues, failed mallocs, timeouts and disconnections come in between.
SoleOwner ==
  /\ Live(heap) = (Queued \cup {frag.buf, task.item.buf}) \ {NoBlock}
  /\ frag.buf # NoBlock => frag.buf # task.item.buf /\ frag.buf \notin Queued
  /\ task.item.buf \notin Queued
  /\ \A i, j \in DOMAIN queue : queue[i].buf = queue[j].buf => i = j

Writer(byte) == <<byte.conn, byte.session>>

\* A message in reassembly is a proper prefix, all of it written by the
\* active connection in its present session: a disconnection, a reconnection
\* with the same handle or a stack reset never lets a peer continue what
\* another one began.
ReassemblyOfConnection ==
  frag.buf # NoBlock =>
    /\ conn # NoConn
    /\ frag.received \in 1 .. frag.total - 1
    /\ DOMAIN heap[frag.buf] = 0 .. frag.total - 1
    /\ \A i \in 0 .. frag.received - 1 :
         heap[frag.buf][i] # Junk /\ Writer(heap[frag.buf][i]) = <<conn, session>>

\* Only complete messages get into the queue and to the decoder: every byte
\* of the length handed over was received, and from one connection.
WholeMessage(h, item) ==
  LET bytes == h[item.buf] IN
  /\ DOMAIN bytes = 0 .. item.len - 1
  /\ \A i \in DOMAIN bytes : bytes[i] # Junk /\ Writer(bytes[i]) = Writer(bytes[0])

QueuedWhole ==
  /\ \A i \in DOMAIN queue : WholeMessage(heap, queue[i])
  /\ task.pc # "wait" => WholeMessage(heap, task.item)

\* A message in reassembly is never forgotten: its callout is armed for what
\* is left of the timeout since the last fragment, or the timeout has passed
\* and the event waits for the host.
TimeoutGuards ==
  frag.buf # NoBlock =>
    \/ timer # Off /\ timer + idle = Timeout
    \/ event # NoEvent /\ idle = Timeout

\* The timeout event never discards a message whose last fragment is younger
\* than the timeout, though the event may have been queued for an older
\* message and the clock wraps around; unless the callout cannot be rearmed.
NoEarlyRelease ==
  [][(event # NoEvent /\ event' = NoEvent /\ frag.buf # NoBlock /\ frag'.buf = NoBlock)
       => idle = Timeout \/ RearmMayFail]_vars

\* A peer that stops in the middle of a message does not keep the buffer: it
\* is released or the peer goes on.
ReassemblyEnds ==
  (frag.buf # NoBlock /\ idle > 0) ~> (frag.buf = NoBlock \/ idle = 0)

\* Every message that enters the queue is taken, handled and freed.
QueuedFreed == \A b \in Blocks : (b \in Queued) ~> (heap[b] = Free)
=============================================================================
