------------------------------- MODULE BleSend -------------------------------
(***************************************************************************)
(* The BLE send path: any number of tasks in agcore_data_send and, under   *)
(* the link's send lock, in agcore_rawdata_encode and agcore_ble_notify,   *)
(* against the NimBLE host task of BleLink (agcore_data.c,                 *)
(* agcore_data_protocol.c, agcore_ble_pipe.c).                             *)
(*                                                                         *)
(* The two sides share session, conn, mtu and tx_sn and no lock covers     *)
(* them: each step below reads or writes one of them.  Lengths are counted *)
(* in units of the smallest fragment payload, as in BleLink.               *)
(***************************************************************************)
EXTENDS BleLink

CONSTANTS
  Senders,       \* tasks that send
  NoSender,
  FrameLen,      \* length of a frame
  RetryMax,      \* AGCORE_BLE_NOTIFY_RETRY_MAX
  MaxSends       \* bound: calls of agcore_data_send in a behaviour

ASSUME SendAssumption ==
  /\ NoSender \notin Senders
  /\ FrameLen \in Nat \ {0}
  /\ RetryMax \in Nat \ {0}
  /\ MaxSends \in Nat

VARIABLES
  lock,      \* send_lock of the link
  send,      \* for each sender, where it is and its local variables
  calls,     \* history: calls of agcore_data_send so far
  encoded,   \* history: frames encoded so far
  air        \* history: the fragment last put on the open connection

vars == <<linkVars, lock, send, calls, encoded, air>>

\* A frame is its sn; reset and nth say when it was encoded.
NoFrame == [reset |-> 0, sn |-> 0, nth |-> 0]
Silent == [frame |-> NoFrame, offset |-> 0, chunk |-> 0]

\* late: fragments the stack took after the session the sender saw was over.
Idle == [pc |-> "idle", frame |-> NoFrame, session |-> 0, epoch |-> 0,
         conn |-> NoConn, limit |-> 0, sent |-> 0, retries |-> 0, late |-> 0]

Init ==
  /\ LinkInit
  /\ lock = NoSender
  /\ send = [s \in Senders |-> Idle]
  /\ calls = 0
  /\ encoded = 0
  /\ air = Silent

\* The host task; a new connection begins with nothing on it.
AsHost(step) ==
  /\ step
  /\ air' = IF epoch' = epoch THEN air ELSE Silent
  /\ UNCHANGED <<lock, send, calls, encoded>>

HostTask == AsHost(Host)
-----------------------------------------------------------------------------
(* A sender. *)

At(s, pc) == send[s].pc = pc

\* agcore_data_send up to the lock, when its arguments are right and the
\* frame's buffer is allocated; otherwise it returns without a trace.
Call(s) ==
  /\ At(s, "idle")
  /\ calls < MaxSends
  /\ calls' = calls + 1
  /\ send' = [send EXCEPT ![s].pc = "lock"]
  /\ UNCHANGED <<linkVars, lock, encoded, air>>

\* Mutant of TakeLock: the sender does not wait.
TakeLockAnyway(s) ==
  /\ At(s, "lock")
  /\ lock' = s
  /\ send' = [send EXCEPT ![s].pc = "encode"]
  /\ UNCHANGED <<linkVars, calls, encoded, air>>

\* xSemaphoreTake(lock, portMAX_DELAY)
TakeLock(s) ==
  /\ At(s, "lock")
  /\ lock = NoSender
  /\ lock' = s
  /\ send' = [send EXCEPT ![s].pc = "encode"]
  /\ UNCHANGED <<linkVars, calls, encoded, air>>

\* agcore_rawdata_encode: the frame gets tx_sn, an unsigned char, and tx_sn
\* the next.
Encode(s) ==
  /\ At(s, "encode")
  /\ send' = [send EXCEPT ![s].pc = "session",
                          ![s].frame = [reset |-> resets, sn |-> txsn, nth |-> encoded]]
  /\ txsn' = (txsn + 1) % 256
  /\ encoded' = encoded + 1
  /\ UNCHANGED <<session, conn, mtu, host, own, stack, resets, lock, calls, air>>

LoadSession(s) ==
  /\ At(s, "session")
  /\ send' = [send EXCEPT ![s].pc = "conn", ![s].session = session, ![s].epoch = epoch]
  /\ UNCHANGED <<linkVars, lock, calls, encoded, air>>

\* Mutant of LoadConn: without a connection the call returns with the lock.
LoadConnKeepsLock(s) ==
  /\ At(s, "conn")
  /\ send' = [send EXCEPT ![s] = IF conn = NoConn THEN Idle ELSE [@ EXCEPT !.pc = "mtu", !.conn = conn]]
  /\ UNCHANGED <<linkVars, lock, calls, encoded, air>>

LoadConn(s) ==
  /\ At(s, "conn")
  /\ send' = [send EXCEPT ![s].pc = IF conn = NoConn THEN "unlock" ELSE "mtu",
                          ![s].conn = conn]
  /\ UNCHANGED <<linkVars, lock, calls, encoded, air>>

LoadMtu(s) ==
  /\ At(s, "mtu")
  /\ send' = [send EXCEPT ![s].pc = "check", ![s].limit = mtu]
  /\ UNCHANGED <<linkVars, lock, calls, encoded, air>>

\* The fragment's mbuf cannot be allocated or filled.
NoMbuf(s) ==
  /\ At(s, "check")
  /\ send' = [send EXCEPT ![s].pc = "unlock"]
  /\ UNCHANGED <<linkVars, lock, calls, encoded, air>>

\* Mutant of CheckSession: no comparison at all.
CheckNothing(s) ==
  /\ At(s, "check")
  /\ send' = [send EXCEPT ![s].pc = "notify"]
  /\ UNCHANGED <<linkVars, lock, calls, encoded, air>>

\* Mutant of CheckSession: compared before the first fragment only.
CheckFirst(s) ==
  /\ At(s, "check")
  /\ send' = [send EXCEPT ![s].pc = IF session = send[s].session \/ send[s].sent > 0
                                  THEN "notify" ELSE "unlock"]
  /\ UNCHANGED <<linkVars, lock, calls, encoded, air>>

\* The session is compared right before the fragment is handed to the stack,
\* and not again until the next one.
CheckSession(s) ==
  /\ At(s, "check")
  /\ send' = [send EXCEPT ![s].pc = IF session = send[s].session THEN "notify" ELSE "unlock"]
  /\ UNCHANGED <<linkVars, lock, calls, encoded, air>>

\* Mutant of ChunkLen: the overhead is taken for smaller than it is.
ChunkTooLong(s) ==
  LET rest == FrameLen - send[s].sent
  IN  IF rest > send[s].limit + 1 THEN send[s].limit + 1 ELSE rest

ChunkLen(s) ==
  LET rest == FrameLen - send[s].sent
  IN  IF rest > send[s].limit THEN send[s].limit ELSE rest

\* ble_gatts_notify_custom returns 0: the stack knows the handle.
NotifyOk(s) ==
  /\ At(s, "notify")
  /\ send[s].conn = up
  /\ LET sent == send[s].sent + ChunkLen(s) IN
     send' = [send EXCEPT ![s].pc = IF sent < FrameLen THEN "check" ELSE "unlock",
                          ![s].sent = sent,
                          ![s].retries = 0,
                          ![s].late = IF session = send[s].session THEN @ ELSE @ + 1]
  /\ air' = [frame |-> send[s].frame, offset |-> send[s].sent, chunk |-> ChunkLen(s)]
  /\ UNCHANGED <<linkVars, lock, calls, encoded>>

\* Mutant of NotifyAgain: one attempt too many.
NotifyOnceMore(s) ==
  /\ At(s, "notify")
  /\ send[s].conn = up
  /\ send' = [send EXCEPT ![s].pc = IF send[s].retries < RetryMax THEN "check" ELSE "unlock",
                          ![s].retries = @ + 1]
  /\ UNCHANGED <<linkVars, lock, calls, encoded, air>>

\* Mutant of NotifyAgain: the next attempt sends what comes after.
NotifySkips(s) ==
  /\ At(s, "notify")
  /\ send[s].conn = up
  /\ send' = [send EXCEPT ![s].pc = IF send[s].sent + ChunkLen(s) < FrameLen THEN "check" ELSE "unlock",
                          ![s].sent = @ + ChunkLen(s)]
  /\ UNCHANGED <<linkVars, lock, calls, encoded, air>>

\* It returns BLE_HS_EAGAIN: again after 10 ms, RetryMax attempts in all.
NotifyAgain(s) ==
  /\ At(s, "notify")
  /\ send[s].conn = up
  /\ send' = [send EXCEPT ![s].pc = IF send[s].retries + 1 < RetryMax THEN "check" ELSE "unlock",
                          ![s].retries = @ + 1]
  /\ UNCHANGED <<linkVars, lock, calls, encoded, air>>

\* Any other error, and always one for a connection that is gone.
NotifyError(s) ==
  /\ At(s, "notify")
  /\ send' = [send EXCEPT ![s].pc = "unlock"]
  /\ UNCHANGED <<linkVars, lock, calls, encoded, air>>

\* xSemaphoreGive(lock), and the call returns.
Return(s) ==
  /\ At(s, "unlock")
  /\ send' = [send EXCEPT ![s] = Idle]
  /\ lock' = NoSender
  /\ UNCHANGED <<linkVars, calls, encoded, air>>

Sending(s) ==
  \/ TakeLock(s) \/ Encode(s) \/ LoadSession(s) \/ LoadConn(s) \/ LoadMtu(s)
  \/ NoMbuf(s) \/ CheckSession(s)
  \/ NotifyOk(s) \/ NotifyAgain(s) \/ NotifyError(s)
  \/ Return(s)

Next == HostTask \/ \E s \in Senders : Call(s) \/ Sending(s)

Spec == Init /\ [][Next]_vars

\* Every sender runs, the host task too, and callouts expire; nothing is
\* assumed of the stack or of the order in which the lock is granted.
FairSpec ==
  /\ Spec
  /\ \A s \in Senders : WF_vars(Sending(s))
  /\ WF_vars(AsHost(HostRuns))
  /\ WF_vars(AsHost(MtuExpire))
-----------------------------------------------------------------------------
(* Properties *)

Locked == {"encode", "session", "conn", "mtu", "check", "notify", "unlock"}

Frames == [reset: 0 .. MaxSession, sn: 0 .. 255, nth: Nat]

\* Types.
TypeOK ==
  /\ LinkTypeOK
  /\ lock \in Senders \cup {NoSender}
  /\ send \in [Senders ->
       [pc: Locked \cup {"idle", "lock"}, frame: Frames, session: 0 .. MaxSession,
        epoch: 0 .. MaxLinks, conn: Handles \cup {NoConn}, limit: {0, 1, LargeMtu},
        sent: 0 .. FrameLen, retries: 0 .. RetryMax, late: Nat]]
  /\ calls \in 0 .. MaxSends
  /\ encoded \in Nat
  /\ air \in [frame: Frames, offset: 0 .. FrameLen, chunk: 0 .. FrameLen]

\* A step that puts a fragment on the connection.
Emits == air' # air /\ air' # Silent

\* A fragment of a send that began under an earlier connection, put on a new
\* one that has the same handle.
Stray == \E s \in Senders : NotifyOk(s) /\ send[s].epoch # epoch

\* What the peer of one connection receives can be reassembled: a fragment
\* that does not begin a frame continues the one before it, whatever other
\* senders, retries, MTU changes and reconnections come in between; a stray
\* one excepted.
FragmentsContiguous ==
  [][Emits /\ air'.offset # 0 =>
       \/ air'.frame = air.frame /\ air'.offset = air.offset + air.chunk
       \/ Stray]_vars

\* The next frame a peer sees was encoded after the last one, and unless tx_sn
\* was reset in between, the numbers tell how many frames are missing.
Follows(f, g) ==
  /\ f.nth < g.nth
  /\ f.reset = g.reset => (g.sn - f.sn) % 256 = (g.nth - f.nth) % 256

\* agcore_data.c:27: frames reach a connection in the order they were encoded
\* in, and so in the order of their numbers, which an unsigned char holds.
SubmissionOrder ==
  [][Emits /\ air'.offset = 0 /\ air # Silent => Follows(air.frame, air'.frame)]_vars

\* A fragment is never longer than the connection's MTU allows, though the MTU
\* is read once per send; a stray one excepted.
FitsMtu == [][Emits => air'.chunk <= linkMtu \/ Stray]_vars

\* Once the session a send began in is over, the stack takes at most one more
\* fragment of it: the one that had passed the check.
LateAtMostOne == \A s \in Senders : send[s].late <= 1

\* agcore_ble_pipe.c:57: a reset makes the sends of the old session fail, so
\* there are no stray fragments.
NoCrossing == [][~Stray]_vars

\* A send that waits for the lock gets to run and returns: every path gives the
\* lock back and retries end.
SendReturns == \A s \in Senders : At(s, "lock") ~> At(s, "idle")
=============================================================================
