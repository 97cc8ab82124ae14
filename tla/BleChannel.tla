----------------------------- MODULE BleChannel -----------------------------
(***************************************************************************)
(* BleReceive with a peer that follows the fragment protocol: it numbers   *)
(* its messages, cuts each into consecutive fragments of any size          *)
(* (agcore_fragment_encode fills the headers), and gives one up only to    *)
(* begin the next.  It writes without response, so it does not learn that  *)
(* a write was dropped: the device loses the fragments for which           *)
(* agcore_ble_gatt_write_cb cannot allocate its copy.                      *)
(***************************************************************************)
EXTENDS BleReceive

CONSTANT LenOf   \* length of the frame of each message

ASSUME ChannelAssumption ==
  /\ Sources \subseteq Nat \ {0}
  /\ LenOf \in [Sources -> 1 .. MaxMessage]

VARIABLES
  message,   \* external: the message the peer is sending
  sent,      \* external: how much of it went out
  headless,  \* history: messages whose first fragment was dropped
  out        \* history: the last message given to the callbacks

peer == <<message, sent, headless>>
channelVars == <<vars, message, sent, headless, out>>

ChannelInit == Init /\ message = 1 /\ sent = 0 /\ headless = {} /\ out = 0

\* The fragment's header as agcore_fragment_encode writes it.
Encoded(chunk) ==
  [total |-> LenOf[message], offset |-> sent, chunk |-> chunk, src |-> message]

\* After the last fragment of a message comes the first of the next.
Advance(chunk) ==
  IF sent + chunk = LenOf[message]
  THEN message' = message + 1 /\ sent' = 0
  ELSE message' = message /\ sent' = sent + chunk

PeerWrite(c) ==
  /\ message \in Sources
  /\ \E chunk \in 1 .. LenOf[message] - sent : GattWrite(c, Encoded(chunk)) /\ Advance(chunk)
  /\ UNCHANGED <<headless, out>>

\* agcore_ble_gatt_write_cb returns before the fragment is looked at.
WriteDropped(c) ==
  /\ Accepts(c)
  /\ message \in Sources
  /\ \E chunk \in 1 .. LenOf[message] - sent : Advance(chunk)
  /\ headless' = IF sent = 0 THEN headless \cup {message} ELSE headless
  /\ UNCHANGED <<vars, out>>

\* The peer gives up in the middle, whatever the reason.
PeerAbandon ==
  /\ sent > 0
  /\ message' = message + 1
  /\ sent' = 0
  /\ UNCHANGED <<vars, headless, out>>

PeerStep == \/ \E c \in Handles : PeerWrite(c) \/ WriteDropped(c)
            \/ PeerAbandon

\* The message that completed a buffer.
MessageIn(item) == heap[item.buf][item.len - 1].src

\* agcore_data_route_handler hands the message over.
ChannelRoute ==
  /\ TaskRoute
  /\ out' = MessageIn(task.item)
  /\ UNCHANGED peer

ChannelBookkeeping == Bookkeeping /\ UNCHANGED <<peer, out>>

Surroundings == (Connections \/ Timers) /\ UNCHANGED <<peer, out>>

ChannelNext == PeerStep \/ ChannelRoute \/ ChannelBookkeeping \/ Surroundings

\* The data task runs, as in BleReceive.
ChannelSpec ==
  ChannelInit /\ [][ChannelNext]_channelVars
  /\ WF_channelVars(ChannelRoute \/ ChannelBookkeeping)
-----------------------------------------------------------------------------
(* The messages on their way: the one the data task has not handed over yet *)
(* and those in the queue.                                                  *)
pending ==
  (IF task.pc \in {"decode", "store", "route"} THEN <<MessageIn(task.item)>> ELSE <<>>)
    \o [i \in DOMAIN queue |-> MessageIn(queue[i])]

Promise == INSTANCE MessageChannel WITH Messages <- Sources, Capacity <- QueueLength + 1

\* The receive path implements the channel: whatever fragments a conforming
\* peer sends, whichever of them are dropped and wherever it is cut off, what
\* the callbacks get was completed in order and none twice, and nothing stays
\* in the queue.
ImplementsChannel == Promise!Spec

Unmixed(item) == \A i \in DOMAIN heap[item.buf] : heap[item.buf][i].src = MessageIn(item)

\* A buffer in the queue is the message that completed it, unless that message
\* lost its first fragment: a message given up, cut off or timed out is never
\* joined to one that arrives from its beginning.
QueuedIntact ==
  \A i \in DOMAIN queue : Unmixed(queue[i]) \/ MessageIn(queue[i]) \in headless

\* README.md:120: only complete messages enter the queue - no buffer handed
\* over mixes the bytes of two messages.
QueuedUnmixed == \A i \in DOMAIN queue : Unmixed(queue[i])
=============================================================================
