--------------------------- MODULE BleSend_proofs ---------------------------
(***************************************************************************)
(* Proofs about BleSend and BleLink, for any number of senders, calls,     *)
(* connections, resets and attempts, and every length of a frame.          *)
(***************************************************************************)
EXTENDS BleSend, TLAPS

(* The host task. *)

\* What the handler that runs has still to write, and what the shared
\* variables hold meanwhile.
Writes ==
  \/ host = <<>> /\ conn = up /\ (up = NoConn => mtu = 1)
  \/ host = <<Session, Mtu(1), Conn(up), TxSn>> /\ session < MaxSession
  \/ host = <<Mtu(1), Conn(up), TxSn>> /\ resets < session
  \/ host = <<Conn(up), TxSn>> /\ mtu = 1 /\ resets < session
  \/ host = <<TxSn>> /\ conn = up /\ mtu = 1 /\ resets < session
  \/ host = <<Session, Conn(up), Mtu(1)>> /\ up = NoConn /\ session < MaxSession
  \/ host = <<Conn(up), Mtu(1)>> /\ up = NoConn
  \/ host = <<Mtu(1)>> /\ conn = up /\ up = NoConn
  \/ host = <<Mtu(LargeMtu)>> /\ conn = up /\ up # NoConn /\ linkMtu = LargeMtu

Findable == ready /\ up = NoConn /\ ~adv => silenced

Flags == {ready, synced, adv, asked, silenced, unarmed} \subseteq BOOLEAN

Values ==
  /\ mtuTimer \subseteq {"armed", "queued"}
  /\ session \in 0 .. MaxSession /\ resets \in 0 .. MaxSession
  /\ epoch \in 0 .. MaxLinks /\ txsn \in 0 .. 255
  /\ conn \in Handles \cup {NoConn} /\ up \in Handles \cup {NoConn}
  /\ mtu \in {1, LargeMtu} /\ linkMtu \in {1, LargeMtu}

\* The MTU the senders read is never more than the connection's.
LinkInv ==
  /\ Flags
  /\ Values
  /\ Writes
  /\ Findable
  /\ resets <= session
  /\ mtu <= linkMtu
-----------------------------------------------------------------------------
(* The senders. *)

States ==
  [pc: Locked \cup {"idle", "lock"}, frame: Frames, session: 0 .. MaxSession,
   epoch: 0 .. MaxLinks, conn: Handles \cup {NoConn}, limit: {0, 1, LargeMtu},
   sent: 0 .. FrameLen, retries: 0 .. RetryMax, late: Nat]

SendTypes ==
  /\ lock \in Senders \cup {NoSender}
  /\ send \in [Senders -> States]
  /\ calls \in 0 .. MaxSends
  /\ encoded \in Nat
  /\ air \in [frame: Frames, offset: 0 .. FrameLen, chunk: 0 .. FrameLen]

MutualExclusion == \A s \in Senders : send[s].pc \in Locked <=> lock = s

\* Local variables by place: nothing is sent before the MTU is read, and at
\* a fragment something is left to send and an attempt.
Locals(s) ==
  /\ send[s].pc \notin {"check", "notify", "unlock"} => send[s].sent = 0 /\ send[s].late = 0
  /\ send[s].pc \notin {"check", "notify", "unlock"} => send[s].retries = 0
  /\ send[s].pc \in {"check", "notify"} =>
       send[s].limit >= 1 /\ send[s].sent < FrameLen /\ send[s].retries < RetryMax

\* What a sender copied is not newer than what it was copied from.
Copies(s) ==
  /\ send[s].session <= session
  /\ send[s].epoch <= epoch
  /\ send[s].pc \in {"check", "notify"} /\ send[s].epoch = epoch => send[s].limit <= linkMtu

\* A fragment is late only if the session changed behind the last check.
Late(s) ==
  /\ send[s].late <= 1
  /\ send[s].pc = "notify" => send[s].late = 0
  /\ send[s].pc = "check" /\ send[s].late = 1 => send[s].session < session

\* What a sender has sent on this connection ends with the last fragment.
Continued(s) ==
  send[s].sent > 0 /\ send[s].epoch = epoch =>
    air.frame = send[s].frame /\ air.offset + air.chunk = send[s].sent

\* Counted from b, an unsigned char, to a as many as from n to m.
Agree(a, b, m, n) == (a - b) % 256 = (m - n) % 256

\* The number of a frame agrees with those the link gives next.
Numbered(f) ==
  /\ f.nth < encoded
  /\ f.reset <= resets
  /\ f.reset = resets => Agree(txsn, f.sn, encoded, f.nth)

Ordered(s) ==
  send[s].pc \in Locked \ {"encode"} =>
    /\ Numbered(send[s].frame)
    /\ air # Silent /\ send[s].sent = 0 => Follows(air.frame, send[s].frame)

Sender(s) == Locals(s) /\ Copies(s) /\ Late(s) /\ Continued(s) /\ Ordered(s)

SendInv ==
  /\ SendTypes
  /\ LinkInv
  /\ MutualExclusion
  /\ air # Silent => Numbered(air.frame)
  /\ \A s \in Senders : Sender(s)
-----------------------------------------------------------------------------
(* Steps of the host task. *)

LEMMA LinkTypes ==
  LinkInv => LinkTypeOK
  BY Zenon DEF LinkInv, LinkTypeOK, Flags, Values

\* In the initial state nothing has happened.
LEMMA LinkInitial ==
  LinkInit => LinkInv
<1> SUFFICES ASSUME LinkInit PROVE LinkInv
  OBVIOUS
<1>1. Flags /\ Findable
  BY DEF LinkInit, Flags, Findable
<1>2. Values /\ resets <= session /\ mtu <= linkMtu
  BY LinkAssumption DEF LinkInit, Values
<1>3. Writes
  BY DEF LinkInit, Writes
<1> QED
  BY <1>1, <1>2, <1>3 DEF LinkInv

\* What a step of the host task may do to what the senders copied: sessions
\* and connections are only counted up, tx_sn is only reset, and the MTU of a
\* connection only grows.
HostChange ==
  /\ session' >= session
  /\ (epoch' = epoch /\ linkMtu' >= linkMtu) \/ epoch' = epoch + 1
  /\ UNCHANGED <<txsn, resets>> \/ resets' = resets + 1

\* A handler that the stack calls when no other runs.
LEMMA HandlerBegins ==
  ASSUME LinkInv,
         StackSync \/ StackReset \/ (\E c \in Handles : LinkUp(c)) \/ LinkFails
           \/ LinkDown \/ MtuExchanged \/ MtuExpire \/ MtuInitiate
  PROVE  LinkInv' /\ HostChange
<1> USE LinkAssumption DEF shared, stack
<1> Flags /\ Values /\ Writes /\ Findable /\ resets <= session /\ mtu <= linkMtu
  BY DEF LinkInv
<1>1. CASE StackSync
  <2>4. Flags'
    BY <1>1 DEF Flags, StackSync, Advertise
  <2>5. Findable'
    <3>1. (silenced' = ~adv') \/ UNCHANGED <<adv, silenced, ready>>
      BY <1>1 DEF StackSync, Advertise
    <3>2. up' = up
      BY <1>1 DEF StackSync
    <3> QED
      BY Zenon, <3>1, <3>2 DEF Findable
  <2>6. Values' /\ HostChange /\ resets' <= session' /\ mtu' <= linkMtu'
    BY <1>1 DEF Writes, Values, HostChange, StackSync, Advertise
  <2>7. Writes'
    BY <1>1 DEF Writes, Values, StackSync, Advertise
  <2> QED
    BY <2>4, <2>5, <2>6, <2>7 DEF LinkInv
<1>2. CASE StackReset
  <2>4. Flags'
    BY <1>2 DEF Flags, StackReset, ResetWrites
  <2>5. Findable'
    BY <1>2 DEF Findable, StackReset, ResetWrites
  <2>6. Values' /\ HostChange /\ resets' <= session' /\ mtu' <= linkMtu'
    BY <1>2 DEF Writes, Values, HostChange, StackReset, ResetWrites
  <2>7. Writes'
    BY <1>2 DEF Writes, Values, StackReset, ResetWrites
  <2> QED
    BY <2>4, <2>5, <2>6, <2>7 DEF LinkInv
<1>3. CASE \E c \in Handles : LinkUp(c)
  <2>4. Flags'
    BY <1>3 DEF Flags, LinkUp, ConnectWrites
  <2>5. Findable'
    BY <1>3 DEF Findable, LinkUp, ConnectWrites
  <2>6. Values' /\ HostChange /\ resets' <= session' /\ mtu' <= linkMtu'
    BY <1>3 DEF Writes, Values, HostChange, LinkUp, ConnectWrites
  <2>7. Writes'
    BY <1>3 DEF Writes, Values, LinkUp, ConnectWrites
  <2> QED
    BY <2>4, <2>5, <2>6, <2>7 DEF LinkInv
<1>4. CASE LinkFails
  <2>4. Flags'
    BY <1>4 DEF Flags, LinkFails
  <2>5. Findable'
    BY <1>4 DEF Findable, LinkFails
  <2>6. Values' /\ HostChange /\ resets' <= session' /\ mtu' <= linkMtu'
    BY <1>4 DEF Writes, Values, HostChange, LinkFails
  <2>7. Writes'
    BY <1>4 DEF Writes, Values, LinkFails
  <2> QED
    BY <2>4, <2>5, <2>6, <2>7 DEF LinkInv
<1>5. CASE LinkDown
  <2>4. Flags'
    BY <1>5 DEF Flags, LinkDown, Advertise, DisconnectWrites
  <2>5. Findable'
    BY <1>5 DEF Findable, LinkDown, Advertise, DisconnectWrites
  <2>6. Values' /\ HostChange /\ resets' <= session' /\ mtu' <= linkMtu'
    BY <1>5 DEF Writes, Values, HostChange, LinkDown, Advertise, DisconnectWrites
  <2>7. Writes'
    BY <1>5 DEF Writes, Values, LinkDown, Advertise, DisconnectWrites
  <2> QED
    BY <2>4, <2>5, <2>6, <2>7 DEF LinkInv
<1>6. CASE MtuExchanged
  <2>4. Flags'
    BY <1>6 DEF Flags, MtuExchanged, MtuWrites
  <2>5. Findable'
    BY <1>6 DEF Findable, MtuExchanged, MtuWrites
  <2>6. Values' /\ HostChange /\ resets' <= session' /\ mtu' <= linkMtu'
    BY <1>6 DEF Writes, Values, HostChange, MtuExchanged, MtuWrites
  <2>7. Writes'
    BY <1>6 DEF Writes, Values, MtuExchanged, MtuWrites
  <2> QED
    BY <2>4, <2>5, <2>6, <2>7 DEF LinkInv
<1>7. CASE MtuExpire
  <2>4. Flags'
    BY <1>7 DEF Flags, MtuExpire
  <2>5. Findable'
    BY <1>7 DEF Findable, MtuExpire
  <2>6. Values' /\ HostChange /\ resets' <= session' /\ mtu' <= linkMtu'
    BY <1>7 DEF Writes, Values, HostChange, MtuExpire
  <2>7. Writes'
    BY <1>7 DEF Writes, Values, MtuExpire
  <2> QED
    BY <2>4, <2>5, <2>6, <2>7 DEF LinkInv
<1>8. CASE MtuInitiate
  <2>4. Flags'
    BY <1>8 DEF Flags, MtuInitiate
  <2>5. Findable'
    BY <1>8 DEF Findable, MtuInitiate
  <2>6. Values' /\ HostChange /\ resets' <= session' /\ mtu' <= linkMtu'
    BY <1>8 DEF Writes, Values, HostChange, MtuInitiate
  <2>7. Writes'
    BY <1>8 DEF Writes, Values, MtuInitiate
  <2> QED
    BY <2>4, <2>5, <2>6, <2>7 DEF LinkInv
<1> QED
  BY <1>1, <1>2, <1>3, <1>4, <1>5, <1>6, <1>7, <1>8

\* The next write and those after it.
LEMMA NextWrite ==
  ASSUME Writes
  PROVE  \/ host = <<>>
         \/ Head(host) = Session /\ session < MaxSession /\ Tail(host) = <<Mtu(1), Conn(up), TxSn>>
         \/ Head(host) = Mtu(1) /\ resets < session /\ Tail(host) = <<Conn(up), TxSn>>
         \/ Head(host) = Conn(up) /\ mtu = 1 /\ resets < session /\ Tail(host) = <<TxSn>>
         \/ Head(host) = TxSn /\ conn = up /\ mtu = 1 /\ resets < session /\ Tail(host) = <<>>
         \/ /\ Head(host) = Session /\ up = NoConn /\ session < MaxSession
            /\ Tail(host) = <<Conn(up), Mtu(1)>>
         \/ Head(host) = Conn(up) /\ up = NoConn /\ Tail(host) = <<Mtu(1)>>
         \/ Head(host) = Mtu(1) /\ conn = up /\ up = NoConn /\ Tail(host) = <<>>
         \/ /\ Head(host) = Mtu(LargeMtu) /\ conn = up /\ up # NoConn /\ linkMtu = LargeMtu
            /\ Tail(host) = <<>>
<1>2. ASSUME NEW a, NEW b, NEW c PROVE Head(<<a, b, c>>) = a /\ Tail(<<a, b, c>>) = <<b, c>>
  OBVIOUS
<1>3. ASSUME NEW a, NEW b PROVE Head(<<a, b>>) = a /\ Tail(<<a, b>>) = <<b>>
  OBVIOUS
<1>4. ASSUME NEW a PROVE Head(<<a>>) = a /\ Tail(<<a>>) = <<>>
  OBVIOUS
<1>5. CASE host = <<Session, Mtu(1), Conn(up), TxSn>> /\ session < MaxSession
  BY <1>5
<1>6. CASE host = <<Mtu(1), Conn(up), TxSn>> /\ resets < session
  BY Zenon, <1>2, <1>6
<1>7. CASE host = <<Conn(up), TxSn>> /\ mtu = 1 /\ resets < session
  BY Zenon, <1>3, <1>7
<1>8. CASE host = <<TxSn>> /\ conn = up /\ mtu = 1 /\ resets < session
  BY Zenon, <1>4, <1>8
<1>9. CASE host = <<Session, Conn(up), Mtu(1)>> /\ up = NoConn /\ session < MaxSession
  BY Zenon, <1>2, <1>9
<1>10. CASE host = <<Conn(up), Mtu(1)>> /\ up = NoConn
  BY Zenon, <1>3, <1>10
<1>11. CASE host = <<Mtu(1)>> /\ conn = up /\ up = NoConn
  BY Zenon, <1>4, <1>11
<1>12. CASE host = <<Mtu(LargeMtu)>> /\ conn = up /\ up # NoConn /\ linkMtu = LargeMtu
  BY Zenon, <1>4, <1>12
<1> QED
  BY Zenon, <1>5, <1>6, <1>7, <1>8, <1>9, <1>10, <1>11, <1>12 DEF Writes

\* A write of the handler that runs.
LEMMA HandlerGoesOn ==
  ASSUME LinkInv, WriteSession \/ WriteMtu \/ WriteConn \/ WriteTxSn
  PROVE  LinkInv' /\ HostChange
<1> USE LinkAssumption
<1> Flags /\ Values /\ Writes /\ Findable /\ resets <= session /\ mtu <= linkMtu
  BY DEF LinkInv
<1>0. /\ Session.var = "session" /\ TxSn.var = "txsn"
      /\ \A p : Mtu(p).var = "mtu" /\ Mtu(p).to = p
      /\ \A c : Conn(c).var = "conn" /\ Conn(c).to = c
  BY DEF Session, Mtu, Conn, TxSn
<1>1. CASE WriteSession
  <2>1. \/ host' = <<Mtu(1), Conn(up), TxSn>>
        \/ host' = <<Conn(up), Mtu(1)>> /\ up = NoConn
    BY <1>0, NextWrite, <1>1 DEF WriteSession, Writing
  <2>2. session < MaxSession
    BY <1>0, NextWrite, <1>1 DEF WriteSession, Writing
  <2>3. UNCHANGED <<conn, mtu, txsn, own, stack, resets>> /\ session' = session + 1
    BY <1>1 DEF WriteSession
  <2>4. Flags' /\ Findable'
    BY <2>3 DEF Flags, Findable, own, stack
  <2>5. Values' /\ HostChange /\ resets' < session' /\ mtu' <= linkMtu'
    BY <2>2, <2>3 DEF Values, HostChange, own, stack
  <2>6. Writes'
    BY <2>1, <2>3, <2>5 DEF Writes, own, stack
  <2> QED
    BY <2>4, <2>5, <2>6 DEF LinkInv, Values
<1>2. CASE WriteMtu
  <2>1. \/ host' = <<Conn(up), TxSn>> /\ mtu' = 1 /\ resets < session
        \/ host' = <<>> /\ mtu' = 1 /\ conn = up /\ up = NoConn
        \/ host' = <<>> /\ mtu' = LargeMtu /\ conn = up /\ up # NoConn
             /\ linkMtu = LargeMtu
    BY <1>0, NextWrite, <1>2 DEF WriteMtu, Writing
  <2>3. UNCHANGED <<session, conn, txsn, own, stack, resets>>
    BY <1>2 DEF WriteMtu
  <2>4. Flags' /\ Findable'
    BY <2>3 DEF Flags, Findable, own, stack
  <2>5. Values' /\ HostChange /\ resets' <= session' /\ mtu' <= linkMtu'
    BY <2>1, <2>3 DEF Values, HostChange, own, stack
  <2>6. Writes'
    BY <2>1, <2>3 DEF Writes, own, stack
  <2> QED
    BY <2>4, <2>5, <2>6 DEF LinkInv
<1>3. CASE WriteConn
  <2>1. /\ \/ host' = <<TxSn>> /\ mtu = 1 /\ resets < session
           \/ host' = <<Mtu(1)>> /\ up = NoConn
        /\ conn' = up
    BY <1>0, NextWrite, <1>3 DEF WriteConn, Writing
  <2>3. UNCHANGED <<session, mtu, txsn, own, stack, resets>>
    BY <1>3 DEF WriteConn
  <2>4. Flags' /\ Findable'
    BY <2>3 DEF Flags, Findable, own, stack
  <2>5. Values' /\ HostChange /\ resets' <= session' /\ mtu' <= linkMtu'
    BY <2>1, <2>3 DEF Values, HostChange, own, stack
  <2>6. Writes'
    BY <2>1, <2>3 DEF Writes, own, stack
  <2> QED
    BY <2>4, <2>5, <2>6 DEF LinkInv
<1>4. CASE WriteTxSn
  <2>1. host' = <<>> /\ conn = up /\ mtu = 1 /\ resets < session
    BY <1>0, NextWrite, <1>4 DEF WriteTxSn, Writing
  <2>3. UNCHANGED <<session, conn, mtu, own, stack>> /\ txsn' = 0 /\ resets' = resets + 1
    BY <1>4 DEF WriteTxSn
  <2>4. Flags' /\ Findable'
    BY <2>3 DEF Flags, Findable, own, stack
  <2>5. Values' /\ HostChange /\ resets' <= session' /\ mtu' <= linkMtu'
    BY <2>1, <2>3 DEF Values, HostChange, own, stack
  <2>6. Writes'
    BY <2>1, <2>3 DEF Writes, own, stack
  <2> QED
    BY <2>4, <2>5, <2>6 DEF LinkInv
<1> QED
  BY <1>1, <1>2, <1>3, <1>4

LEMMA HostStep ==
  ASSUME LinkInv, Host
  PROVE  LinkInv' /\ HostChange
  BY HandlerBegins, HandlerGoesOn DEF Host, HostRuns
-----------------------------------------------------------------------------
(* Steps of the senders. *)

LEMMA LinkUntouched ==
  ASSUME LinkInv, UNCHANGED linkVars
  PROVE  LinkInv'
  BY DEF LinkInv, linkVars, Flags, Values, Writes, Findable

\* In the initial state nobody sends.
LEMMA SendInitial ==
  Init => SendInv
<1> SUFFICES ASSUME Init PROVE SendInv
  OBVIOUS
<1> USE SendAssumption, LinkAssumption
<1>1. LinkInv
  BY LinkInitial DEF Init
<1>2. NoFrame \in Frames
  BY DEF NoFrame, Frames
<1>3. Idle \in States
  BY <1>2 DEF Idle, States
<1>4. SendTypes
  BY <1>2, <1>3 DEF Init, SendTypes, Silent
<1>5. MutualExclusion
  BY DEF Init, MutualExclusion, Idle, Locked
<1>6. \A s \in Senders : Sender(s)
  BY <1>1 DEF Init, Sender, Locals, Copies, Late, Continued, Ordered, Idle, LinkInit, Locked
<1> QED
  BY <1>1, <1>4, <1>5, <1>6 DEF SendInv, Init

\* A sender that does not hold the lock has nothing that others could disturb.
LEMMA OtherSender ==
  ASSUME SendInv, NEW s \in Senders, lock = s, NEW t \in Senders \ {s},
         send'[t] = send[t], UNCHANGED <<session, epoch, linkMtu>>
  PROVE  Sender(t)'
<1>1. send[t].pc \notin Locked
  BY DEF SendInv, MutualExclusion
<1>2. Locals(t) /\ Copies(t) /\ send[t].sent = 0 /\ send[t].late = 0
  BY <1>1 DEF SendInv, Sender, Locals, Locked
<1> QED
  BY <1>1, <1>2 DEF Sender, Locals, Copies, Late, Continued, Ordered, Locked

\* A step of the sender that holds the lock, which changes its local variables
\* only.
LEMMA LocalStep ==
  ASSUME SendInv, NEW s \in Senders, lock = s, NEW r \in States, r.pc \in Locked,
         send' = [send EXCEPT ![s] = r], UNCHANGED <<linkVars, lock, calls, encoded, air>>,
         Sender(s)'
  PROVE  SendInv'
<1>1. LinkInv'
  BY LinkUntouched DEF SendInv
<1>2. SendTypes' /\ send'[s] = r
  BY DEF SendInv, SendTypes
<1>3. \A t \in Senders \ {s} : send'[t] = send[t]
  BY DEF SendInv, SendTypes
<1>4. MutualExclusion'
  BY <1>2, <1>3 DEF SendInv, MutualExclusion
<1>5. \A t \in Senders : Sender(t)'
  BY <1>3, OtherSender DEF linkVars
<1>6. (air # Silent => Numbered(air.frame))'
  BY DEF SendInv, Numbered, linkVars
<1> QED
  BY <1>1, <1>2, <1>4, <1>5, <1>6 DEF SendInv

LEMMA CallInv ==
  ASSUME SendInv, NEW s \in Senders, Call(s)
  PROVE  SendInv'
<1> USE SendAssumption DEF Call, At
<1>1. LinkInv'
  BY LinkUntouched DEF SendInv
<1>2. /\ send[s] \in States
      /\ send'[s] = [send[s] EXCEPT !.pc = "lock"] /\ send'[s] \in States
      /\ \A t \in Senders \ {s} : send'[t] = send[t]
  BY DEF SendInv, SendTypes, States
<1>3. SendTypes'
  BY <1>2 DEF SendInv, SendTypes
<1>4. MutualExclusion'
  BY <1>2 DEF SendInv, MutualExclusion, Locked, States
<1>5. \A t \in Senders : Sender(t)'
  <2>1. Sender(s)'
    BY <1>2 DEF SendInv, Sender, Locals, Copies, Late, Continued, Ordered, Locked, linkVars, States
  <2>2. ASSUME NEW t \in Senders \ {s} PROVE Sender(t)'
    BY <1>2 DEF SendInv, Sender, Locals, Copies, Late, Continued, Ordered, Numbered, linkVars
  <2> QED
    BY <2>1, <2>2
<1>6. (air # Silent => Numbered(air.frame))'
  BY DEF SendInv, Numbered, linkVars
<1> QED
  BY <1>1, <1>3, <1>4, <1>5, <1>6 DEF SendInv

LEMMA TakeLockInv ==
  ASSUME SendInv, NEW s \in Senders, TakeLock(s)
  PROVE  SendInv'
<1> USE SendAssumption DEF TakeLock, At
<1>1. LinkInv'
  BY LinkUntouched DEF SendInv
<1>2. /\ send[s] \in States
      /\ send'[s] = [send[s] EXCEPT !.pc = "encode"] /\ send'[s] \in States
      /\ \A t \in Senders \ {s} : send'[t] = send[t]
  BY DEF SendInv, SendTypes, States, Locked
<1>3. SendTypes'
  BY <1>2 DEF SendInv, SendTypes
<1>4. MutualExclusion'
  BY <1>2 DEF SendInv, MutualExclusion, Locked, States
<1>5. \A t \in Senders : Sender(t)'
  <2>1. Sender(s)'
    BY <1>2 DEF SendInv, Sender, Locals, Copies, Late, Continued, Ordered, Locked, linkVars, States
  <2>2. ASSUME NEW t \in Senders \ {s} PROVE Sender(t)'
    BY <1>2 DEF SendInv, Sender, Locals, Copies, Late, Continued, Ordered, Numbered, linkVars
  <2> QED
    BY <2>1, <2>2
<1>6. (air # Silent => Numbered(air.frame))'
  BY DEF SendInv, Numbered, linkVars
<1> QED
  BY <1>1, <1>3, <1>4, <1>5, <1>6 DEF SendInv

\* Counting on modulo 256 keeps a difference modulo 256.
LEMMA NextNumber ==
  ASSUME NEW a \in 0 .. 255, NEW b \in 0 .. 255, NEW m \in Nat, NEW n \in Nat,
         Agree(a, b, m, n)
  PROVE  Agree((a + 1) % 256, b, m + 1, n)
  BY DEF Agree

LEMMA EncodeInv ==
  ASSUME SendInv, NEW s \in Senders, Encode(s)
  PROVE  SendInv'
<1>1. txsn \in 0 .. 255 /\ encoded \in Nat /\ resets \in 0 .. MaxSession /\ MaxSession \in Nat
  BY LinkAssumption DEF SendInv, SendTypes, LinkInv, Values
<1>2. PICK f \in Frames : f = [reset |-> resets, sn |-> txsn, nth |-> encoded]
  BY <1>1 DEF Frames
<1>3. /\ send[s].pc = "encode"
      /\ send' = [send EXCEPT ![s] = [@ EXCEPT !.pc = "session", !.frame = f]]
      /\ txsn' = (txsn + 1) % 256 /\ encoded' = encoded + 1
      /\ session' = session /\ conn' = conn /\ mtu' = mtu /\ host' = host
      /\ ready' = ready /\ mtuTimer' = mtuTimer /\ adv' = adv /\ synced' = synced
      /\ asked' = asked /\ silenced' = silenced /\ unarmed' = unarmed
      /\ up' = up /\ linkMtu' = linkMtu /\ epoch' = epoch
      /\ resets' = resets /\ lock' = lock /\ calls' = calls /\ air' = air
  BY <1>2 DEF Encode, At, stack, own
<1>4. LinkInv'
  <2>1. Values'
    BY <1>3, <1>1 DEF SendInv, LinkInv, Values
  <2>2. Flags' /\ Writes' /\ Findable'
    BY Zenon, <1>3 DEF SendInv, LinkInv, Flags, Writes, Findable
  <2> QED
    BY Zenon, <1>3, <2>1, <2>2 DEF SendInv, LinkInv
<1>5. /\ send[s] \in States
      /\ send'[s] = [send[s] EXCEPT !.pc = "session", !.frame = f]
      /\ \A t \in Senders \ {s} : send'[t] = send[t]
  BY <1>3 DEF SendInv, SendTypes
<1>6. SendTypes'
  <2>1. send'[s] \in States
    BY <1>5 DEF States, Locked
  <2>2. send' \in [Senders -> States]
    BY <1>3, <1>5, <2>1 DEF SendInv, SendTypes
  <2> QED
    BY <1>1, <1>3, <2>2 DEF SendInv, SendTypes
<1>7. lock = s /\ MutualExclusion'
  BY <1>3, <1>5 DEF SendInv, MutualExclusion, Locked, States
<1>8. (air # Silent => Numbered(air.frame))'
  <2>1. air.frame.sn \in 0 .. 255 /\ air.frame.nth \in Nat /\ air.frame.reset \in Nat
    BY LinkAssumption DEF SendInv, SendTypes, Frames
  <2>2. ASSUME air # Silent
        PROVE  /\ air.frame.nth < encoded /\ air.frame.reset <= resets
               /\ air.frame.reset = resets => Agree(txsn, air.frame.sn, encoded, air.frame.nth)
    BY <2>2 DEF SendInv, Numbered
  <2>3. ASSUME air # Silent, air.frame.reset = resets
        PROVE  Agree((txsn + 1) % 256, air.frame.sn, encoded + 1, air.frame.nth)
    BY <1>1, <2>1, <2>2, <2>3, NextNumber
  <2>4. air.frame.nth < encoded + 1
    BY <1>1, <2>1, <2>2 DEF Silent, NoFrame
  <2> QED
    BY <1>1, <1>3, <2>1, <2>2, <2>3, <2>4 DEF Numbered
<1>9. Numbered(f)'
  <2>1. f.nth = encoded /\ f.sn = txsn /\ f.reset = resets
    BY <1>2
  <2>2. Agree((txsn + 1) % 256, txsn, encoded + 1, encoded) /\ encoded < encoded + 1
    BY <1>1 DEF Agree
  <2> QED
    BY <1>1, <1>3, <2>1, <2>2 DEF Numbered
<1>10. air # Silent => Follows(air.frame, f)
  BY <1>2 DEF SendInv, Numbered, Follows, Agree
<1>11. Sender(s)'
  <2>1. Sender(s)
    BY DEF SendInv
  <2>2. /\ send'[s].pc = "session" /\ send'[s].frame = f /\ send'[s].sent = send[s].sent
        /\ send'[s].late = send[s].late /\ send'[s].retries = send[s].retries
        /\ send'[s].session = send[s].session /\ send'[s].epoch = send[s].epoch
        /\ send'[s].limit = send[s].limit
    BY <1>5 DEF States
  <2>3. send[s].sent = 0 /\ send[s].late = 0 /\ send[s].retries = 0
    BY <1>3, <2>1 DEF Sender, Locals
  <2>4. Ordered(s)'
    BY <1>3, <1>9, <1>10, <2>2 DEF Ordered, Numbered, Follows
  <2> QED
    BY <1>3, <2>1, <2>2, <2>3, <2>4 DEF Sender, Locals, Copies, Late, Continued
<1>12. ASSUME NEW t \in Senders \ {s} PROVE Sender(t)'
  BY <1>3, <1>5, <1>7, <1>12, OtherSender
<1> QED
  BY <1>4, <1>6, <1>7, <1>8, <1>11, <1>12 DEF SendInv

LEMMA LoadSessionInv ==
  ASSUME SendInv, NEW s \in Senders, LoadSession(s)
  PROVE  SendInv'
<1>1. /\ send[s].pc = "session" /\ lock = s /\ send[s] \in States /\ Sender(s)
      /\ Writes /\ Values /\ mtu <= linkMtu
  BY DEF LoadSession, At, SendInv, SendTypes, MutualExclusion, LinkInv, Locked
<1>2. PICK r \in States : r = [send[s] EXCEPT !.pc = "conn", !.session = session, !.epoch = epoch]
  BY <1>1, SendAssumption, LinkAssumption DEF States, Locked, Values, Sender, Locals
<1>3. send' = [send EXCEPT ![s] = r] /\ UNCHANGED <<linkVars, lock, calls, encoded, air>>
  BY <1>1, <1>2 DEF LoadSession, At
<1>4. send'[s] = r /\ r.pc \in Locked
  BY <1>1, <1>2, <1>3 DEF SendInv, SendTypes, States, Locked
<1>5. Sender(s)'
  <2> USE <1>1, <1>2, <1>3, <1>4, SendAssumption, LinkAssumption DEF States, linkVars
  <2>1. Locals(s)'
    BY DEF Sender, Locals, Values
  <2>2. Copies(s)'
    BY DEF Sender, Copies, Values
  <2>3. Late(s)'
    BY DEF Sender, Locals, Late, Values
  <2>4. Continued(s)'
    BY DEF Sender, Locals, Continued
  <2>5. Ordered(s)'
    BY DEF Sender, Ordered, Numbered, Locked
  <2> QED
    BY <2>1, <2>2, <2>3, <2>4, <2>5 DEF Sender
<1> QED
  BY <1>1, <1>3, <1>4, <1>5, LocalStep

LEMMA LoadConnInv ==
  ASSUME SendInv, NEW s \in Senders, LoadConn(s)
  PROVE  SendInv'
<1>1. /\ send[s].pc = "conn" /\ lock = s /\ send[s] \in States /\ Sender(s)
      /\ Writes /\ Values /\ mtu <= linkMtu
  BY DEF LoadConn, At, SendInv, SendTypes, MutualExclusion, LinkInv, Locked
<1>2. PICK r \in States : r = [send[s] EXCEPT !.pc = IF conn = NoConn THEN "unlock" ELSE "mtu", !.conn = conn]
  BY <1>1, SendAssumption, LinkAssumption DEF States, Locked, Values, Sender, Locals
<1>3. send' = [send EXCEPT ![s] = r] /\ UNCHANGED <<linkVars, lock, calls, encoded, air>>
  BY <1>1, <1>2 DEF LoadConn, At
<1>4. send'[s] = r /\ r.pc \in Locked
  BY <1>1, <1>2, <1>3 DEF SendInv, SendTypes, States, Locked
<1>5. Sender(s)'
  <2> USE <1>1, <1>2, <1>3, <1>4, SendAssumption, LinkAssumption DEF States, linkVars
  <2>1. Locals(s)'
    BY DEF Sender, Locals, Values
  <2>2. Copies(s)'
    BY DEF Sender, Copies, Values
  <2>3. Late(s)'
    BY DEF Sender, Locals, Late, Values
  <2>4. Continued(s)'
    BY DEF Sender, Locals, Continued
  <2>5. Ordered(s)'
    BY DEF Sender, Ordered, Numbered, Locked
  <2> QED
    BY <2>1, <2>2, <2>3, <2>4, <2>5 DEF Sender
<1> QED
  BY <1>1, <1>3, <1>4, <1>5, LocalStep

LEMMA LoadMtuInv ==
  ASSUME SendInv, NEW s \in Senders, LoadMtu(s)
  PROVE  SendInv'
<1>1. /\ send[s].pc = "mtu" /\ lock = s /\ send[s] \in States /\ Sender(s)
      /\ Writes /\ Values /\ mtu <= linkMtu
  BY DEF LoadMtu, At, SendInv, SendTypes, MutualExclusion, LinkInv, Locked
<1>2. PICK r \in States : r = [send[s] EXCEPT !.pc = "check", !.limit = mtu]
  BY <1>1, SendAssumption, LinkAssumption DEF States, Locked, Values, Sender, Locals
<1>3. send' = [send EXCEPT ![s] = r] /\ UNCHANGED <<linkVars, lock, calls, encoded, air>>
  BY <1>1, <1>2 DEF LoadMtu, At
<1>4. send'[s] = r /\ r.pc \in Locked
  BY <1>1, <1>2, <1>3 DEF SendInv, SendTypes, States, Locked
<1>5. Sender(s)'
  <2> USE <1>1, <1>2, <1>3, <1>4, SendAssumption, LinkAssumption DEF States, linkVars
  <2>1. Locals(s)'
    BY DEF Sender, Locals, Values
  <2>2. Copies(s)'
    BY DEF Sender, Copies, Values
  <2>3. Late(s)'
    BY DEF Sender, Locals, Late, Values
  <2>4. Continued(s)'
    BY DEF Sender, Locals, Continued
  <2>5. Ordered(s)'
    BY DEF Sender, Ordered, Numbered, Locked
  <2> QED
    BY <2>1, <2>2, <2>3, <2>4, <2>5 DEF Sender
<1> QED
  BY <1>1, <1>3, <1>4, <1>5, LocalStep

LEMMA NoMbufInv ==
  ASSUME SendInv, NEW s \in Senders, NoMbuf(s)
  PROVE  SendInv'
<1>1. /\ send[s].pc = "check" /\ lock = s /\ send[s] \in States /\ Sender(s)
      /\ Writes /\ Values /\ mtu <= linkMtu
  BY DEF NoMbuf, At, SendInv, SendTypes, MutualExclusion, LinkInv, Locked
<1>2. PICK r \in States : r = [send[s] EXCEPT !.pc = "unlock"]
  BY <1>1, SendAssumption, LinkAssumption DEF States, Locked, Values, Sender, Locals
<1>3. send' = [send EXCEPT ![s] = r] /\ UNCHANGED <<linkVars, lock, calls, encoded, air>>
  BY <1>1, <1>2 DEF NoMbuf, At
<1>4. send'[s] = r /\ r.pc \in Locked
  BY <1>1, <1>2, <1>3 DEF SendInv, SendTypes, States, Locked
<1>5. Sender(s)'
  <2> USE <1>1, <1>2, <1>3, <1>4, SendAssumption, LinkAssumption DEF States, linkVars
  <2>1. Locals(s)'
    BY DEF Sender, Locals, Values
  <2>2. Copies(s)'
    BY DEF Sender, Copies, Values
  <2>3. Late(s)'
    BY DEF Sender, Locals, Late, Values
  <2>4. Continued(s)'
    BY DEF Sender, Locals, Continued
  <2>5. Ordered(s)'
    BY DEF Sender, Ordered, Numbered, Locked
  <2> QED
    BY <2>1, <2>2, <2>3, <2>4, <2>5 DEF Sender
<1> QED
  BY <1>1, <1>3, <1>4, <1>5, LocalStep

LEMMA CheckSessionInv ==
  ASSUME SendInv, NEW s \in Senders, CheckSession(s)
  PROVE  SendInv'
<1>1. /\ send[s].pc = "check" /\ lock = s /\ send[s] \in States /\ Sender(s)
      /\ Writes /\ Values /\ mtu <= linkMtu
  BY DEF CheckSession, At, SendInv, SendTypes, MutualExclusion, LinkInv, Locked
<1>2. PICK r \in States : r = [send[s] EXCEPT !.pc = IF session = send[s].session THEN "notify" ELSE "unlock"]
  BY <1>1, SendAssumption, LinkAssumption DEF States, Locked, Values, Sender, Locals
<1>3. send' = [send EXCEPT ![s] = r] /\ UNCHANGED <<linkVars, lock, calls, encoded, air>>
  BY <1>1, <1>2 DEF CheckSession, At
<1>4. send'[s] = r /\ r.pc \in Locked
  BY <1>1, <1>2, <1>3 DEF SendInv, SendTypes, States, Locked
<1>5. Sender(s)'
  <2> USE <1>1, <1>2, <1>3, <1>4, SendAssumption, LinkAssumption DEF States, linkVars
  <2>1. Locals(s)'
    BY DEF Sender, Locals, Values
  <2>2. Copies(s)'
    BY DEF Sender, Copies, Values
  <2>3. Late(s)'
    BY DEF Sender, Locals, Late, Values
  <2>4. Continued(s)'
    BY DEF Sender, Locals, Continued
  <2>5. Ordered(s)'
    BY DEF Sender, Ordered, Numbered, Locked
  <2> QED
    BY <2>1, <2>2, <2>3, <2>4, <2>5 DEF Sender
<1> QED
  BY <1>1, <1>3, <1>4, <1>5, LocalStep

LEMMA NotifyAgainInv ==
  ASSUME SendInv, NEW s \in Senders, NotifyAgain(s)
  PROVE  SendInv'
<1>1. /\ send[s].pc = "notify" /\ lock = s /\ send[s] \in States /\ Sender(s)
      /\ Writes /\ Values /\ mtu <= linkMtu
  BY DEF NotifyAgain, At, SendInv, SendTypes, MutualExclusion, LinkInv, Locked
<1>0. send[s].retries + 1 \in 0 .. RetryMax
  BY <1>1, SendAssumption DEF Sender, Locals, States
<1>2. PICK r \in States : r = [send[s] EXCEPT
    !.pc = IF send[s].retries + 1 < RetryMax THEN "check" ELSE "unlock",
    !.retries = send[s].retries + 1]
  BY <1>0, <1>1 DEF States, Locked
<1>3. send' = [send EXCEPT ![s] = r] /\ UNCHANGED <<linkVars, lock, calls, encoded, air>>
  BY <1>1, <1>2 DEF NotifyAgain, At
<1>4. send'[s] = r /\ r.pc \in Locked
  BY <1>1, <1>2, <1>3 DEF SendInv, SendTypes, States, Locked
<1>5. Sender(s)'
  <2> USE <1>1, <1>2, <1>3, <1>4, SendAssumption, LinkAssumption DEF States, linkVars
  <2>1. Locals(s)'
    BY DEF Sender, Locals, Values
  <2>2. Copies(s)'
    BY DEF Sender, Copies, Values
  <2>3. Late(s)'
    BY DEF Sender, Locals, Late, Values
  <2>4. Continued(s)'
    BY DEF Sender, Locals, Continued
  <2>5. Ordered(s)'
    BY DEF Sender, Ordered, Numbered, Locked
  <2> QED
    BY <2>1, <2>2, <2>3, <2>4, <2>5 DEF Sender
<1> QED
  BY <1>1, <1>3, <1>4, <1>5, LocalStep

LEMMA NotifyErrorInv ==
  ASSUME SendInv, NEW s \in Senders, NotifyError(s)
  PROVE  SendInv'
<1>1. /\ send[s].pc = "notify" /\ lock = s /\ send[s] \in States /\ Sender(s)
      /\ Writes /\ Values /\ mtu <= linkMtu
  BY DEF NotifyError, At, SendInv, SendTypes, MutualExclusion, LinkInv, Locked
<1>2. PICK r \in States : r = [send[s] EXCEPT !.pc = "unlock"]
  BY <1>1, SendAssumption, LinkAssumption DEF States, Locked, Values, Sender, Locals
<1>3. send' = [send EXCEPT ![s] = r] /\ UNCHANGED <<linkVars, lock, calls, encoded, air>>
  BY <1>1, <1>2 DEF NotifyError, At
<1>4. send'[s] = r /\ r.pc \in Locked
  BY <1>1, <1>2, <1>3 DEF SendInv, SendTypes, States, Locked
<1>5. Sender(s)'
  <2> USE <1>1, <1>2, <1>3, <1>4, SendAssumption, LinkAssumption DEF States, linkVars
  <2>1. Locals(s)'
    BY DEF Sender, Locals, Values
  <2>2. Copies(s)'
    BY DEF Sender, Copies, Values
  <2>3. Late(s)'
    BY DEF Sender, Locals, Late, Values
  <2>4. Continued(s)'
    BY DEF Sender, Locals, Continued
  <2>5. Ordered(s)'
    BY DEF Sender, Ordered, Numbered, Locked
  <2> QED
    BY <2>1, <2>2, <2>3, <2>4, <2>5 DEF Sender
<1> QED
  BY <1>1, <1>3, <1>4, <1>5, LocalStep

\* A fragment is at least one unit, and no more than the limit or what is left.
LEMMA ChunkFits ==
  ASSUME NEW s \in Senders, send[s] \in States, send[s].limit >= 1, send[s].sent < FrameLen
  PROVE  /\ ChunkLen(s) \in 1 .. FrameLen
         /\ ChunkLen(s) <= send[s].limit
         /\ send[s].sent + ChunkLen(s) \in 1 .. FrameLen
  BY SendAssumption, LinkAssumption DEF ChunkLen, States

\* What a sender is like when the stack takes its fragment.
LEMMA AtNotify ==
  ASSUME SendInv, NEW s \in Senders, send[s].pc = "notify"
  PROVE  /\ lock = s /\ send[s] \in States /\ Sender(s)
         /\ send[s].late = 0 /\ send[s].retries < RetryMax
         /\ send[s].session <= session
         /\ Numbered(send[s].frame)
         /\ ChunkLen(s) \in 1 .. FrameLen
         /\ ChunkLen(s) <= send[s].limit
         /\ send[s].sent + ChunkLen(s) \in 1 .. FrameLen
<1>1. lock = s /\ send[s] \in States /\ Sender(s)
  BY DEF SendInv, SendTypes, MutualExclusion, Locked
<1>2. /\ send[s].late = 0 /\ send[s].retries < RetryMax /\ send[s].session <= session
      /\ send[s].limit >= 1 /\ send[s].sent < FrameLen /\ Numbered(send[s].frame)
  BY <1>1 DEF Sender, Locals, Copies, Late, Ordered, Locked
<1> QED
  BY <1>1, <1>2, ChunkFits

LEMMA NotifyOkInv ==
  ASSUME SendInv, NEW s \in Senders, NotifyOk(s)
  PROVE  SendInv'
<1> USE SendAssumption
<1>1. send[s].pc = "notify"
  BY DEF NotifyOk, At
<1>2. PICK c \in 1 .. FrameLen : c = ChunkLen(s) /\ send[s].sent + c \in 1 .. FrameLen
  BY <1>1, AtNotify
<1>3. /\ lock = s /\ send[s] \in States /\ Sender(s) /\ send[s].late = 0
      /\ send[s].session <= session /\ Numbered(send[s].frame)
  BY <1>1, AtNotify
<1>4. PICK r \in States :
        r = [send[s] EXCEPT
          !.pc = IF send[s].sent + c < FrameLen THEN "check" ELSE "unlock",
          !.sent = send[s].sent + c,
          !.retries = 0,
          !.late = IF session = send[s].session THEN send[s].late ELSE send[s].late + 1]
  <2>1. send[s].sent + c \in 0 .. FrameLen
    BY <1>2
  <2>2. /\ (IF send[s].sent + c < FrameLen THEN "check" ELSE "unlock") \in Locked
        /\ (IF session = send[s].session THEN send[s].late ELSE send[s].late + 1) \in Nat
    BY <1>3 DEF Locked
  <2>3. 0 \in 0 .. RetryMax
    BY SendAssumption
  <2> QED
    BY <1>3, <2>1, <2>2, <2>3 DEF States
<1>5. /\ send' = [send EXCEPT ![s] = r]
      /\ air' = [frame |-> send[s].frame, offset |-> send[s].sent, chunk |-> c]
      /\ UNCHANGED <<linkVars, lock, calls, encoded>>
  BY <1>2, <1>4 DEF NotifyOk
<1>6. /\ send'[s] = r
      /\ \A t \in Senders \ {s} : send'[t] = send[t]
  BY <1>5 DEF SendInv, SendTypes
<1>7. /\ r.pc = IF send[s].sent + c < FrameLen THEN "check" ELSE "unlock"
      /\ r.sent = send[s].sent + c /\ r.retries = 0 /\ r.limit = send[s].limit
      /\ r.late = IF session = send[s].session THEN 0 ELSE 1
      /\ r.session = send[s].session /\ r.epoch = send[s].epoch /\ r.frame = send[s].frame
  BY <1>3, <1>4 DEF States
<1>8. LinkInv'
  BY <1>5, LinkUntouched DEF SendInv
<1>9. SendTypes'
  <2>1. air' \in [frame: Frames, offset: 0 .. FrameLen, chunk: 0 .. FrameLen]
    BY <1>3, <1>5 DEF States
  <2> QED
    BY <1>5, <2>1 DEF SendInv, SendTypes
<1>10. MutualExclusion'
  BY <1>3, <1>5, <1>6, <1>7 DEF SendInv, MutualExclusion, Locked
<1>11. Numbered(send[s].frame)'
  BY <1>3, <1>5, <1>6, <1>7 DEF Numbered, linkVars
<1>12. (air # Silent => Numbered(air.frame))'
  BY <1>5, <1>6, <1>7, <1>11
<1>13. Sender(s)'
  <2>1. Locals(s)'
    BY <1>1, <1>3, <1>6, <1>7 DEF Sender, Locals
  <2>2. Copies(s)'
    BY <1>1, <1>3, <1>5, <1>6, <1>7 DEF Sender, Copies, linkVars
  <2>3. Late(s)'
    <3>1. session \in Nat /\ send[s].session \in Nat
      BY <1>3, LinkAssumption DEF SendInv, LinkInv, Values, States
    <3> QED
      BY <1>3, <1>5, <1>6, <1>7, <3>1 DEF Late, linkVars
  <2>4. Continued(s)'
    BY <1>5, <1>6, <1>7 DEF Continued
  <2>5. Ordered(s)'
    BY <1>2, <1>6, <1>7, <1>11 DEF Ordered
  <2> QED
    BY <2>1, <2>2, <2>3, <2>4, <2>5 DEF Sender
<1>14. ASSUME NEW t \in Senders \ {s} PROVE Sender(t)'
  BY <1>3, <1>5, <1>6, <1>14, OtherSender DEF linkVars
<1> QED
  BY <1>8, <1>9, <1>10, <1>12, <1>13, <1>14 DEF SendInv

LEMMA ReturnInv ==
  ASSUME SendInv, NEW s \in Senders, Return(s)
  PROVE  SendInv'
<1>1. /\ send[s].pc = "unlock" /\ send' = [send EXCEPT ![s] = Idle] /\ lock' = NoSender
      /\ UNCHANGED <<linkVars, calls, encoded, air>>
  BY DEF Return, At
<1>2. lock = s
  BY <1>1 DEF SendInv, MutualExclusion, Locked
<1>3. send'[s] = Idle /\ \A t \in Senders \ {s} : send'[t] = send[t]
  BY <1>1 DEF SendInv, SendTypes
<1>4. LinkInv'
  BY <1>1, LinkUntouched DEF SendInv
<1>5. SendTypes'
  <2>1. Idle \in States
    BY SendAssumption, LinkAssumption DEF Idle, States, Frames, NoFrame
  <2> QED
    BY <1>1, <2>1 DEF SendInv, SendTypes
<1>6. MutualExclusion'
  BY <1>1, <1>2, <1>3, SendAssumption DEF SendInv, MutualExclusion, Locked, Idle
<1>7. (air # Silent => Numbered(air.frame))'
  BY <1>1 DEF SendInv, Numbered, linkVars
<1>8. Sender(s)'
  BY <1>3, <1>4, LinkAssumption DEF Sender, Locals, Copies, Late, Continued, Ordered, Idle, Locked, LinkInv, Values
<1>9. ASSUME NEW t \in Senders \ {s} PROVE Sender(t)'
  BY <1>1, <1>2, <1>3, <1>9, OtherSender DEF linkVars
<1> QED
  BY <1>4, <1>5, <1>6, <1>7, <1>8, <1>9 DEF SendInv

\* The host task moves session, connection and MTU under the senders.
LEMMA HostTaskInv ==
  ASSUME SendInv, HostTask
  PROVE  SendInv'
<1>1. /\ UNCHANGED <<lock, send, calls, encoded>>
      /\ air' = IF epoch' = epoch THEN air ELSE Silent
  BY DEF HostTask, AsHost
<1>2. LinkInv' /\ HostChange
  BY HostStep DEF HostTask, AsHost, SendInv
<1>3. /\ session \in Nat /\ session' \in Nat /\ epoch \in Nat /\ epoch' \in Nat
      /\ resets \in Nat /\ resets' \in Nat /\ linkMtu \in Nat /\ linkMtu' \in Nat
  BY <1>2, LinkAssumption DEF SendInv, LinkInv, Values
<1>4. SendTypes'
  <2>1. Silent \in [frame: Frames, offset: 0 .. FrameLen, chunk: 0 .. FrameLen]
    BY SendAssumption, LinkAssumption DEF Silent, NoFrame, Frames
  <2> QED
    BY <1>1, <2>1 DEF SendInv, SendTypes
<1>5. MutualExclusion'
  BY <1>1 DEF SendInv, MutualExclusion
<1>6. ASSUME NEW f \in Frames, Numbered(f)
      PROVE  Numbered(f)'
  <2>1. f.reset \in Nat
    BY <1>6, LinkAssumption DEF Frames
  <2> QED
    BY <1>1, <1>2, <1>3, <1>6, <2>1 DEF Numbered, HostChange
<1>7. (air # Silent => Numbered(air.frame))'
  <2>1. air.frame \in Frames
    BY DEF SendInv, SendTypes
  <2> QED
    BY <1>1, <1>6, <2>1 DEF SendInv, Numbered
<1>8. ASSUME NEW s \in Senders PROVE Sender(s)'
  <2>1. send[s] \in States /\ Sender(s)
    BY DEF SendInv, SendTypes
  <2>2. send[s].session \in Nat /\ send[s].epoch \in Nat /\ send[s].limit \in Nat
    BY <2>1, LinkAssumption DEF States
  <2>3. Locals(s)'
    BY <1>1, <2>1 DEF Sender, Locals
  <2>4. Copies(s)'
    BY <1>1, <1>2, <1>3, <2>1, <2>2 DEF Sender, Copies, HostChange
  <2>5. Late(s)'
    BY <1>1, <1>2, <1>3, <2>1, <2>2 DEF Sender, Late, HostChange
  <2>6. Continued(s)'
    BY <1>1, <1>2, <1>3, <2>1, <2>2 DEF Sender, Copies, Continued, HostChange
  <2>7. Ordered(s)'
    <3>1. send[s].frame \in Frames
      BY <2>1 DEF States
    <3> QED
      BY <1>1, <1>6, <2>1, <3>1 DEF Sender, Ordered, Numbered, Follows
  <2> QED
    BY <2>3, <2>4, <2>5, <2>6, <2>7 DEF Sender
<1> QED
  BY <1>2, <1>4, <1>5, <1>7, <1>8 DEF SendInv

LEMMA SendStep ==
  SendInv /\ [Next]_vars => SendInv'
<1> SUFFICES ASSUME SendInv, [Next]_vars PROVE SendInv'
  OBVIOUS
<1>1. CASE HostTask
  BY <1>1, HostTaskInv
<1>2. CASE \E s \in Senders : Call(s)
  BY <1>2, CallInv
<1>3. CASE \E s \in Senders : TakeLock(s) \/ Encode(s) \/ LoadSession(s) \/ LoadConn(s)
  BY <1>3, TakeLockInv, EncodeInv, LoadSessionInv, LoadConnInv
<1>4. CASE \E s \in Senders : LoadMtu(s) \/ NoMbuf(s) \/ CheckSession(s)
  BY <1>4, LoadMtuInv, NoMbufInv, CheckSessionInv
<1>5. CASE \E s \in Senders : NotifyOk(s) \/ NotifyAgain(s) \/ NotifyError(s) \/ Return(s)
  BY <1>5, NotifyOkInv, NotifyAgainInv, NotifyErrorInv, ReturnInv
<1>6. CASE UNCHANGED vars
  <2>1. LinkInv'
    BY <1>6, LinkUntouched DEF SendInv, vars
  <2> QED
    BY <1>6, <2>1 DEF SendInv, SendTypes, MutualExclusion, Sender, Locals, Copies, Late, Continued,
      Ordered, Numbered, Follows, vars, linkVars
<1> QED
  BY <1>1, <1>2, <1>3, <1>4, <1>5, <1>6 DEF Next, Sending
-----------------------------------------------------------------------------
(* What follows from the invariant. *)

\* Whatever the host task does to what the senders share, the state of both
\* stays consistent (agcore_data.c:27-70, agcore_ble_pipe.c, agcore_ble_gap.c).
THEOREM SendInvariant ==
  Spec => []SendInv
<1> QED
  BY SendInitial, SendStep, PTL DEF Spec

\* Every variable of the send path and of the link keeps its type.
THEOREM TypeCorrect ==
  Spec => []TypeOK
<1>1. SendInv => TypeOK
  <2> SUFFICES ASSUME SendInv PROVE TypeOK
    OBVIOUS
  <2>1. LinkTypeOK
    BY LinkTypes DEF SendInv
  <2> QED
    BY <2>1 DEF SendInv, SendTypes, States, TypeOK
<1> QED
  BY <1>1, SendInvariant, PTL

\* Between handlers the device knows its connection, and one that is ready and
\* has none advertises, but for the two exceptions Connectable names
\* (agcore_ble_gap.c:36-80).
THEOREM DeviceFindable ==
  Spec => []Connectable
<1>1. SendInv => Connectable
  <2>1. Writes => (host = <<>> => conn = up)
    BY DEF Writes
  <2> QED
    BY Zenon, <2>1 DEF SendInv, LinkInv, Findable, Connectable
<1> QED
  BY <1>1, SendInvariant, PTL

\* After a reset of the session the stack takes at most one more fragment of a
\* send (agcore_ble_pipe.c: the check right before ble_gatts_notify_custom).
THEOREM LateBounded ==
  Spec => []LateAtMostOne
<1>1. SendInv => LateAtMostOne
  BY DEF SendInv, Sender, Late, LateAtMostOne
<1> QED
  BY <1>1, SendInvariant, PTL

\* Only a sender whose fragment the stack takes puts one on the connection.
LEMMA Emission ==
  ASSUME [Next]_vars, Emits
  PROVE  \E s \in Senders : NotifyOk(s)
<1>1. ~ UNCHANGED vars
  BY DEF Emits, vars
<1>2. ~ HostTask
  BY DEF Emits, HostTask, AsHost
<1>3. \A s \in Senders :
        ~ (\/ Call(s) \/ TakeLock(s) \/ Encode(s) \/ LoadSession(s) \/ LoadConn(s) \/ LoadMtu(s)
           \/ NoMbuf(s) \/ CheckSession(s) \/ NotifyAgain(s) \/ NotifyError(s) \/ Return(s))
  BY DEF Emits, Call, TakeLock, Encode, LoadSession, LoadConn, LoadMtu, NoMbuf, CheckSession,
    NotifyAgain, NotifyError, Return
<1> QED
  BY Zenon, <1>1, <1>2, <1>3 DEF Next, Sending

\* The fragment a sender puts on the connection.
LEMMA Fragment ==
  ASSUME SendInv, NEW s \in Senders, NotifyOk(s)
  PROVE  /\ send[s].pc = "notify"
         /\ air' = [frame |-> send[s].frame, offset |-> send[s].sent, chunk |-> ChunkLen(s)]
         /\ send[s].sent \in Nat /\ Sender(s)
         /\ ChunkLen(s) \in Nat /\ ChunkLen(s) <= send[s].limit
         /\ linkMtu \in Nat /\ send[s].limit \in Nat
<1>1. send[s].pc = "notify"
  BY DEF NotifyOk, At
<1>2. air' = [frame |-> send[s].frame, offset |-> send[s].sent, chunk |-> ChunkLen(s)]
  BY DEF NotifyOk
<1>3. linkMtu \in Nat
  BY LinkAssumption DEF SendInv, LinkInv, Values
<1> QED
  BY <1>1, <1>2, <1>3, AtNotify, SendAssumption, LinkAssumption DEF States

\* On one connection the fragments of a frame follow each other without a gap,
\* a repetition or a fragment of another sender (agcore_ble_pipe.c, the loop of
\* agcore_ble_notify under the link's lock).
THEOREM FragmentsInPlace ==
  Spec => FragmentsContiguous
<1>1. ASSUME SendInv, [Next]_vars, Emits, air'.offset # 0
      PROVE  (air'.frame = air.frame /\ air'.offset = air.offset + air.chunk) \/ Stray
  <2>1. PICK s \in Senders : NotifyOk(s)
    BY <1>1, Emission
  <2>2. air'.frame = send[s].frame /\ air'.offset = send[s].sent /\ send[s].sent > 0
    BY <1>1, <2>1, Fragment
  <2>3. CASE send[s].epoch = epoch
    BY <1>1, <2>1, <2>2, <2>3, Fragment DEF Sender, Continued
  <2>4. CASE send[s].epoch # epoch
    BY <2>1, <2>4 DEF Stray
  <2> QED
    BY <2>3, <2>4
<1>2. SendInv /\ [Next]_vars
        => [Emits /\ air'.offset # 0 =>
              \/ air'.frame = air.frame /\ air'.offset = air.offset + air.chunk
              \/ Stray]_vars
  BY <1>1
<1> QED
  BY <1>2, SendInvariant, PTL DEF Spec, FragmentsContiguous

\* Frames reach a connection in the order they were numbered in, and the
\* numbers, an unsigned char, tell how many are missing however often they wrap
\* (agcore_data.c:27).
THEOREM FramesInOrder ==
  Spec => SubmissionOrder
<1>1. ASSUME SendInv, [Next]_vars, Emits, air'.offset = 0, air # Silent
      PROVE  Follows(air.frame, air'.frame)
  <2>1. PICK s \in Senders : NotifyOk(s)
    BY <1>1, Emission
  <2>2. air'.frame = send[s].frame /\ send[s].sent = 0 /\ send[s].pc = "notify" /\ Sender(s)
    BY <1>1, <2>1, Fragment
  <2>3. Follows(air.frame, send[s].frame)
    BY <1>1, <2>2 DEF Sender, Ordered, Locked
  <2> QED
    BY <2>2, <2>3
<1>2. SendInv /\ [Next]_vars
        => [Emits /\ air'.offset = 0 /\ air # Silent => Follows(air.frame, air'.frame)]_vars
  BY <1>1
<1> QED
  BY <1>2, SendInvariant, PTL DEF Spec, SubmissionOrder

\* A fragment fits the MTU of the connection it is put on, though the MTU is
\* read without a lock and once per send (agcore_ble_pipe.c).
THEOREM WithinMtu ==
  Spec => FitsMtu
<1>1. ASSUME SendInv, [Next]_vars, Emits
      PROVE  air'.chunk <= linkMtu \/ Stray
  <2>1. PICK s \in Senders : NotifyOk(s)
    BY <1>1, Emission
  <2>2. CASE send[s].epoch = epoch
    <3>1. send[s].limit <= linkMtu
      BY <1>1, <2>1, <2>2, Fragment DEF Sender, Copies
    <3> QED
      BY <1>1, <2>1, <3>1, Fragment
  <2>3. CASE send[s].epoch # epoch
    BY <2>1, <2>3 DEF Stray
  <2> QED
    BY <2>2, <2>3
<1>2. SendInv /\ [Next]_vars => [Emits => air'.chunk <= linkMtu \/ Stray]_vars
  BY <1>1
<1> QED
  BY <1>2, SendInvariant, PTL DEF Spec, FitsMtu
=============================================================================
