------------------------------- MODULE BleLink -------------------------------
(***************************************************************************)
(* The NimBLE host task as the senders see it: connections, resets of the  *)
(* stack, the MTU and advertising (agcore_ble.c, agcore_ble_gap.c,         *)
(* agcore_ble_adv.c, the reset half of agcore_ble_pipe.c).                 *)
(*                                                                         *)
(* session, conn, mtu and tx_sn are shared with the senders and no lock    *)
(* covers them, so a handler writes them one by one: host holds the writes *)
(* still to be done.  Advertising, the ready flag and the MTU callout      *)
(* belong to the host task alone; what a handler does to them is part of   *)
(* the handler's first step.  mtu and linkMtu are payloads, the MTU less   *)
(* its overhead of 7, in units of the smallest (MTU 23: one unit).         *)
(***************************************************************************)
EXTENDS Integers, Sequences

CONSTANTS
  Handles,       \* connection handles the stack may use
  NoConn,        \* BLE_HS_CONN_HANDLE_NONE
  LargeMtu,      \* payload after an MTU exchange; 1 before it
  MaxSession,    \* bound: resets of the pipe in a behaviour
  MaxLinks       \* bound: connections in a behaviour

ASSUME LinkAssumption ==
  /\ NoConn \notin Handles
  /\ LargeMtu \in Nat \ {0}
  /\ MaxSession \in Nat
  /\ MaxLinks \in Nat

VARIABLES
  session,   \* g_agcore_ble_session
  conn,      \* g_agcore_ble_conn_handle
  mtu,       \* g_agcore_ble_gap_mtu
  txsn,      \* tx_sn of the link
  host,      \* what the handler running in the host task has still to write
  ready,     \* g_agcore_ble_ready
  mtuTimer,  \* external: g_agcore_ble_mtu_callout is armed, its event is queued
  synced,    \* external: host and controller are synchronised
  adv,       \* external: the stack advertises
  up,        \* external: the handle of the open connection
  linkMtu,   \* external: what the open connection carries in one fragment
  epoch,     \* history: the number of connections so far
  resets,    \* history: how often tx_sn was reset
  asked,     \* history: an MTU exchange was tried on the open connection
  silenced,  \* history: why nothing is advertised, if nothing is
  unarmed    \* history: the open connection began without an MTU callout

shared == <<session, conn, mtu, txsn>>
own == <<ready, mtuTimer, adv, synced, asked, silenced, unarmed>>
stack == <<up, linkMtu, epoch>>
linkVars == <<session, conn, mtu, txsn, host, ready, mtuTimer, synced, adv,
              up, linkMtu, epoch, resets, asked, silenced, unarmed>>

LinkInit ==
  /\ session = 0
  /\ conn = NoConn
  /\ mtu = 1
  /\ txsn = 0
  /\ host = <<>>
  /\ ready = FALSE
  /\ mtuTimer = {}
  /\ synced = FALSE
  /\ adv = FALSE
  /\ up = NoConn
  /\ linkMtu = 1
  /\ epoch = 0
  /\ resets = 0
  /\ asked = FALSE
  /\ silenced = FALSE
  /\ unarmed = FALSE
-----------------------------------------------------------------------------
(* The shared writes of each handler, in the order of the code. *)

Session == [var |-> "session"]
Mtu(payload) == [var |-> "mtu", to |-> payload]
Conn(c) == [var |-> "conn", to |-> c]
TxSn == [var |-> "txsn"]

\* agcore_ble_gap_connect_handle
ConnectWrites(c) == <<Session, Mtu(1), Conn(c), TxSn>>
\* agcore_ble_gap_disconnect_handle
DisconnectWrites == <<Session, Mtu(1), Conn(NoConn), TxSn>>
\* agcore_ble_on_stack_reset_cb
ResetWrites == <<Session, Conn(NoConn), Mtu(1)>>
\* agcore_ble_gap_mtu_handle
MtuWrites == <<Mtu(LargeMtu)>>
-----------------------------------------------------------------------------
(* Handlers.  The stack has opened or closed the connection before it      *)
(* calls one.                                                              *)

\* Mutant of Advertise: the disconnected handler leaves it to the stack.
AdvertiseUnlessReady ==
  /\ adv' = ~ready
  /\ silenced' = FALSE

\* agcore_ble_adv_update, whose failures are only logged, and
\* agcore_ble_adv_start, which may fail too and is not tried again.
Advertise ==
  /\ adv' \in BOOLEAN
  /\ silenced' = ~adv'

\* agcore_ble_on_stack_sync_cb; it stops half-way when it gets no address.
StackSync ==
  /\ host = <<>>
  /\ ~synced
  /\ synced' = TRUE
  /\ \/ Advertise /\ ready' = TRUE
     \/ UNCHANGED <<adv, silenced, ready>>
  /\ UNCHANGED <<shared, host, mtuTimer, stack, resets, asked, unarmed>>

\* agcore_ble_on_stack_reset_cb: connection and advertising are gone.
StackReset ==
  /\ host = <<>>
  /\ synced
  /\ session < MaxSession
  /\ synced' = FALSE
  /\ ready' = FALSE
  /\ adv' = FALSE
  /\ up' = NoConn
  /\ host' = ResetWrites
  /\ UNCHANGED <<shared, mtuTimer, linkMtu, epoch, resets, asked, silenced, unarmed>>

\* Mutant of LinkUp: the exchange is left to the peer.
LinkUpNoCallout(c) ==
  /\ host = <<>>
  /\ adv
  /\ conn = NoConn
  /\ epoch < MaxLinks
  /\ session < MaxSession
  /\ host' = ConnectWrites(c)
  /\ adv' = FALSE
  /\ up' = c
  /\ linkMtu' = 1
  /\ epoch' = epoch + 1
  /\ asked' = FALSE
  /\ unarmed' = FALSE
  /\ UNCHANGED <<shared, ready, synced, mtuTimer, resets, silenced>>

\* A connection ends the advertising and arms the MTU callout.  Whether that
\* succeeded nobody looks at; where it fails, what an earlier connection left
\* of the callout and of its event stays as it is.
LinkUp(c) ==
  /\ host = <<>>
  /\ adv
  /\ conn = NoConn
  /\ epoch < MaxLinks
  /\ session < MaxSession
  /\ host' = ConnectWrites(c)
  /\ mtuTimer' \in {mtuTimer \cup {"armed"}, mtuTimer}
  /\ unarmed' = (mtuTimer' = {})
  /\ adv' = FALSE
  /\ up' = c
  /\ linkMtu' = 1
  /\ epoch' = epoch + 1
  /\ asked' = FALSE
  /\ UNCHANGED <<shared, ready, synced, resets, silenced>>

\* So does an attempt that fails; the handler ignores it.
LinkFails ==
  /\ host = <<>>
  /\ adv
  /\ adv' = FALSE
  /\ silenced' = TRUE
  /\ UNCHANGED <<shared, host, ready, synced, mtuTimer, stack, resets, asked, unarmed>>

LinkDown ==
  /\ host = <<>>
  /\ up # NoConn
  /\ session < MaxSession
  /\ up' = NoConn
  /\ host' = DisconnectWrites
  /\ mtuTimer' = mtuTimer \ {"armed"}
  /\ Advertise
  /\ UNCHANGED <<shared, ready, synced, linkMtu, epoch, resets, asked, unarmed>>

\* Begun by the peer or by MtuInitiate.
MtuExchanged ==
  /\ host = <<>>
  /\ up # NoConn
  /\ linkMtu # LargeMtu
  /\ linkMtu' = LargeMtu
  /\ host' = MtuWrites
  /\ mtuTimer' = mtuTimer \ {"armed"}
  /\ UNCHANGED <<shared, ready, synced, adv, up, epoch, resets, asked, silenced,
                 unarmed>>

\* The callout expires; its event waits until the host task is free.
MtuExpire ==
  /\ "armed" \in mtuTimer
  /\ mtuTimer' = {"queued"}
  /\ UNCHANGED <<shared, host, ready, synced, adv, stack, resets, asked, silenced,
                 unarmed>>

\* agcore_ble_gap_mtu_exchange_initiate: an error of the stack is only logged.
MtuInitiate ==
  /\ host = <<>>
  /\ "queued" \in mtuTimer
  /\ mtuTimer' = mtuTimer \ {"queued"}
  /\ asked' = (asked \/ (mtu = 1 /\ conn # NoConn))
  /\ UNCHANGED <<shared, host, ready, synced, adv, stack, resets, silenced, unarmed>>
-----------------------------------------------------------------------------
(* The shared writes. *)

Writing(var) == host # <<>> /\ Head(host).var = var /\ host' = Tail(host)

\* agcore_ble_pipe_reset
WriteSession ==
  /\ Writing("session")
  /\ session' = session + 1
  /\ UNCHANGED <<conn, mtu, txsn, own, stack, resets>>

WriteMtu ==
  /\ Writing("mtu")
  /\ mtu' = Head(host).to
  /\ UNCHANGED <<session, conn, txsn, own, stack, resets>>

WriteConn ==
  /\ Writing("conn")
  /\ conn' = Head(host).to
  /\ UNCHANGED <<session, mtu, txsn, own, stack, resets>>

\* agcore_data_link_reset
WriteTxSn ==
  /\ Writing("txsn")
  /\ txsn' = 0
  /\ resets' = resets + 1
  /\ UNCHANGED <<session, conn, mtu, own, stack>>

\* Handlers run to their end, and the host task takes its events.
HostRuns == WriteSession \/ WriteMtu \/ WriteConn \/ WriteTxSn \/ MtuInitiate

Host ==
  \/ StackSync \/ StackReset
  \/ \E c \in Handles : LinkUp(c)
  \/ LinkFails \/ LinkDown
  \/ MtuExchanged \/ MtuExpire
  \/ HostRuns
-----------------------------------------------------------------------------
(* Properties, checked with the senders in BleSend. *)

LinkTypeOK ==
  /\ session \in 0 .. MaxSession
  /\ conn \in Handles \cup {NoConn}
  /\ mtu \in {1, LargeMtu}
  /\ txsn \in 0 .. 255
  /\ ready \in BOOLEAN
  /\ mtuTimer \subseteq {"armed", "queued"}
  /\ synced \in BOOLEAN
  /\ adv \in BOOLEAN
  /\ up \in Handles \cup {NoConn}
  /\ linkMtu \in {1, LargeMtu}
  /\ epoch \in 0 .. MaxLinks
  /\ resets \in 0 .. MaxSession
  /\ asked \in BOOLEAN
  /\ silenced \in BOOLEAN
  /\ unarmed \in BOOLEAN

\* Between handlers the device knows its connection, and one that is ready
\* and has none can be found, unless the stack refused to advertise or a
\* connection failed while it was being made (agcore_ble_gap.c:42, where
\* advertising is not started again): whatever the order of disconnections,
\* resets and synchronisations.
Connectable ==
  host = <<>> =>
    /\ conn = up
    /\ (ready /\ up = NoConn /\ ~adv => silenced)

\* A connection that lasts is not left at the smallest MTU without an attempt
\* (agcore_ble_gap.c:59-61), though its callout may be stopped by the handlers
\* of an earlier connection and its event may be an old one.  The exception is
\* a connection that finds no callout armed and no event queued and whose own
\* callout could not be armed: the code does not notice and does not try again.
MtuTried ==
  up # NoConn ~> (asked \/ linkMtu = LargeMtu \/ up = NoConn \/ unarmed)
=============================================================================
