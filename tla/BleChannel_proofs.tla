-------------------------- MODULE BleChannel_proofs --------------------------
(***************************************************************************)
(* Proofs about BleChannel, for any number of messages of any length:      *)
(* a message that arrives from its beginning is not altered, and the       *)
(* receive path implements MessageChannel but for its fairness.            *)
(***************************************************************************)
EXTENDS BleChannel, BleReceive_proofs

\* How far the peer is, and which messages lost their first fragment.
PeerInv ==
  /\ message \in Nat \ {0} /\ sent \in Nat
  /\ sent > 0 => message \in Sources /\ sent < LenOf[message]
  /\ headless \subseteq 1 .. message
  /\ message \in headless => sent > 0

\* Once the first fragment of the present message arrived, what is in
\* reassembly, if anything, is of that message.
PrefixInv ==
  frag.buf # NoBlock /\ sent > 0 /\ message \notin headless =>
    \A i \in 0 .. frag.received - 1 : heap[frag.buf][i].src = message

\* What was handed over or waits was completed before the present message.
OrderInv ==
  /\ out \in Nat /\ out < message
  /\ \A i \in DOMAIN queue : MessageIn(queue[i]) < message
  /\ task.pc # "wait" => MessageIn(task.item) < message

ChannelInv == BufferInv /\ PeerInv /\ PrefixInv /\ OrderInv /\ QueuedIntact

\* What ImplementsChannel says without fairness.
ChannelSafe == Promise!Init /\ [][Promise!Next]_<<pending, out>>
-----------------------------------------------------------------------------
(* What each kind of step does to the buffers that the queue and the data task *)
(* hold.                                                                       *)

\* Freeing a block that nobody else holds leaves theirs alone.
LEMMA FreedElsewhere ==
  ASSUME BufferInv, NEW h \in [Blocks -> Content \cup {Free}],
         \A x \in Elsewhere : h[x] = heap[x],
         NEW b \in Blocks \cup {NoBlock}, b \notin Elsewhere
  PROVE  \A x \in Elsewhere : Freed(h, b)[x] = heap[x]
<1>1. Elsewhere \subseteq Blocks
  BY Others
<1>2. \A x \in Blocks : x # b => Freed(h, b)[x] = h[x]
  BY FreedType
<1> QED
  BY <1>1, <1>2

\* The reassembly is given up, or nothing is done to any buffer.
LEMMA SurroundingsLeave ==
  ASSUME BufferInv, Connections \/ Timers
  PROVE  /\ UNCHANGED <<queue, task>>
         /\ \A x \in Elsewhere : heap'[x] = heap[x]
         /\ frag' = NoFragment \/ UNCHANGED <<frag, heap>>
<1>1. ASSUME ReleaseFragment
      PROVE  frag' = NoFragment /\ \A x \in Elsewhere : heap'[x] = heap[x]
  <2>1. /\ heap \in [Blocks -> Content \cup {Free}] /\ frag.buf \in Blocks \cup {NoBlock}
        /\ frag.buf \notin Elsewhere
    BY Others DEF BufferInv, TypeOK
  <2> QED
    BY <1>1, <2>1, FreedElsewhere DEF ReleaseFragment
<1>2. CASE Connections
  <2>1. UNCHANGED <<queue, task>> /\ (ReleaseFragment \/ UNCHANGED <<frag, heap>>)
    BY <1>2 DEF Connections, Sync, StackReset, Connect, ConnectSecond, Disconnect,
                DisconnectSecond, PipeReset
  <2> QED
    BY <1>1, <2>1
<1>3. CASE Timers
  <2>1. UNCHANGED <<queue, task>> /\ (ReleaseFragment \/ UNCHANGED <<frag, heap>>)
    BY <1>3 DEF Timers, Tick, CalloutExpire, FragmentTimeout, TimeoutNothing, TimeoutRearm,
                TimeoutRelease
  <2> QED
    BY <1>1, <2>1
<1> QED
  BY <1>2, <1>3

\* The buffer of outcome r goes to the end of the queue.
Enqueues(r) ==
  /\ r.frag.received = r.frag.total
  /\ frag' = NoFragment
  /\ Len(queue) < QueueLength
  /\ queue' = Append(queue, [buf |-> r.frag.buf, len |-> r.frag.total])

\* A fragment is kept, completes a message that enters the queue, or leaves
\* nothing in reassembly.
LEMMA WriteLeaves ==
  ASSUME BufferInv, NEW c \in Handles, NEW f \in Header, GattWrite(c, f)
  PROVE  /\ task' = task
         /\ \A x \in Elsewhere : heap'[x] = heap[x]
         /\ \/ frag' = NoFragment /\ queue' = queue
            \/ \E r \in Decoded(frag, heap, Received(c, f)) :
                 /\ Kept(r) /\ Extends(r, Received(c, f)) /\ heap' = r.heap
                 /\ (frag' = r.frag /\ queue' = queue) \/ Enqueues(r)
<1>1. CASE WriteFails(c, f)
  <2>1. /\ heap \in [Blocks -> Content \cup {Free}] /\ frag.buf \in Blocks \cup {NoBlock}
        /\ frag.buf \notin Elsewhere
    BY Others DEF BufferInv, TypeOK
  <2> QED
    BY <1>1, <2>1, FreedElsewhere DEF WriteFails, ReleaseFragment
<1>2. ASSUME NEW r, Kept(r) PROVE \A x \in Elsewhere : Freed(r.heap, r.frag.buf)[x] = heap[x]
  BY <1>2, FreedElsewhere DEF Kept
<1>3. Accepts(c) => \A r \in Decoded(frag, heap, Received(c, f)) : Kept(r) /\ Extends(r, Received(c, f))
  BY DecodedKept
<1>4. CASE WriteMore(c, f)
  BY <1>3, <1>4 DEF WriteMore, Kept
<1>5. CASE WriteMoreNoCallout(c, f)
  BY <1>2, <1>3, <1>5 DEF WriteMoreNoCallout
<1>6. CASE WriteComplete(c, f)
  <2>1. PICK r \in Decoded(frag, heap, Received(c, f)) :
          /\ r.frag.received = r.frag.total
          /\ frag' = NoFragment
          /\ \/ /\ Len(queue) < QueueLength
                /\ queue' = Append(queue, [buf |-> r.frag.buf, len |-> r.frag.total])
                /\ heap' = r.heap
             \/ /\ queue' = queue
                /\ heap' = Freed(r.heap, r.frag.buf)
    BY <1>6 DEF WriteComplete
  <2>2. Kept(r) /\ Extends(r, Received(c, f)) /\ task' = task
    BY <1>3, <1>6 DEF WriteComplete
  <2>3. CASE queue' = queue /\ heap' = Freed(r.heap, r.frag.buf)
    BY <1>2, <2>1, <2>2, <2>3
  <2>4. CASE heap' = r.heap /\ Enqueues(r)
    BY <2>1, <2>2, <2>4 DEF Kept
  <2> QED
    BY <2>1, <2>3, <2>4 DEF Enqueues
<1> QED
  BY <1>1, <1>4, <1>5, <1>6 DEF GattWrite

\* A message that is whole was completed by a known message's fragment.
LEMMA MessageKnown ==
  ASSUME BufferInv, NEW item \in Item, item.buf \in Elsewhere, WholeMessage(heap, item)
  PROVE  MessageIn(item) \in Sources
<1>1. heap[item.buf] \in Content
  BY Others DEF BufferInv, TypeOK, Live
<1>2. PICK n \in 1 .. MaxMessage : heap[item.buf] \in [0 .. n - 1 -> Byte \cup {Junk}]
  BY <1>1 DEF Content
<1>3. item.len - 1 \in DOMAIN heap[item.buf] /\ item.len - 1 \in 0 .. n - 1
  BY <1>2, MaxMessageAssumption DEF WholeMessage, Item
<1>4. heap[item.buf][item.len - 1] \in Byte
  BY <1>2, <1>3 DEF WholeMessage
<1> QED
  BY <1>4 DEF Byte, MessageIn

\* The messages of the queue and of the data task are numbers.
LEMMA MessagesKnown ==
  ASSUME BufferInv
  PROVE  /\ \A i \in DOMAIN queue : MessageIn(queue[i]) \in Nat
         /\ task.pc # "wait" => MessageIn(task.item) \in Nat
<1>1. Sources \subseteq Nat
  BY ChannelAssumption
<1>2. \A i \in DOMAIN queue : queue[i] \in Item /\ queue[i].buf \in Elsewhere /\ WholeMessage(heap, queue[i])
  BY Others DEF BufferInv, QueuedWhole
<1>3. task.pc # "wait" => task.item \in Item /\ task.item.buf \in Elsewhere /\ WholeMessage(heap, task.item)
  BY Others DEF BufferInv, QueuedWhole
<1> QED
  BY <1>1, <1>2, <1>3, MessageKnown
-----------------------------------------------------------------------------
(* The invariant. *)

\* A queue that keeps its items and their buffers keeps its messages.
LEMMA QueueKept ==
  ASSUME ChannelInv, NEW k \in Nat, NEW n \in Nat,
         DOMAIN queue' = 1 .. n, \A i \in 1 .. n : i + k \in DOMAIN queue /\ queue'[i] = queue[i + k],
         \A i \in DOMAIN queue : heap'[queue[i].buf] = heap[queue[i].buf],
         headless \subseteq headless', message' \in Nat, message <= message'
  PROVE  QueuedIntact' /\ \A i \in DOMAIN queue' : MessageIn(queue[i])' < message'
<1>1. ASSUME NEW i \in DOMAIN queue'
      PROVE  /\ MessageIn(queue[i])' < message'
             /\ Unmixed(queue[i])' \/ MessageIn(queue[i])' \in headless'
  <2>1. PICK j \in DOMAIN queue : queue'[i] = queue[j]
    BY <1>1
  <2>2. heap'[queue[j].buf] = heap[queue[j].buf]
    BY <2>1
  <2>3. MessageIn(queue[i])' = MessageIn(queue[j]) /\ (Unmixed(queue[j]) => Unmixed(queue[i])')
    BY <2>1, <2>2 DEF MessageIn, Unmixed
  <2>4. MessageIn(queue[j]) < message /\ MessageIn(queue[j]) \in Nat /\ message \in Nat
    BY MessagesKnown DEF ChannelInv, OrderInv, PeerInv
  <2>5. Unmixed(queue[j]) \/ MessageIn(queue[j]) \in headless
    BY DEF ChannelInv, QueuedIntact
  <2> QED
    BY <2>3, <2>4, <2>5
<1> QED
  BY <1>1 DEF QueuedIntact

\* The same for a queue that does not change.
LEMMA QueueStays ==
  ASSUME ChannelInv, UNCHANGED queue, \A x \in Elsewhere : heap'[x] = heap[x],
         headless \subseteq headless', message' \in Nat, message <= message'
  PROVE  QueuedIntact' /\ \A i \in DOMAIN queue' : MessageIn(queue[i])' < message'
<1>1. queue \in Seq(Item) /\ \A i \in DOMAIN queue : heap'[queue[i].buf] = heap[queue[i].buf]
  BY Others DEF ChannelInv
<1>2. PICK n \in Nat : DOMAIN queue' = 1 .. n /\ DOMAIN queue = 1 .. n
  BY <1>1
<1>3. \A i \in 1 .. n : i + 0 \in DOMAIN queue /\ queue'[i] = queue[i + 0]
  BY <1>2
<1> QED
  BY <1>1, <1>2, <1>3, QueueKept

\* A data task that holds on to its item and its buffer keeps its message.
LEMMA TaskStays ==
  ASSUME ChannelInv, task'.pc # "wait" => task.pc # "wait" /\ task'.item = task.item,
         \A x \in Elsewhere : heap'[x] = heap[x], message' \in Nat, message <= message'
  PROVE  task'.pc # "wait" => MessageIn(task.item)' < message'
<1> SUFFICES ASSUME task'.pc # "wait" PROVE MessageIn(task.item)' < message'
  OBVIOUS
<1>1. task.pc # "wait" /\ task'.item = task.item /\ heap'[task.item.buf] = heap[task.item.buf]
  BY Others DEF ChannelInv
<1>2. MessageIn(task.item)' = MessageIn(task.item)
  BY <1>1 DEF MessageIn
<1>3. MessageIn(task.item) < message /\ MessageIn(task.item) \in Nat /\ message \in Nat
  BY <1>1, MessagesKnown DEF ChannelInv, OrderInv, PeerInv
<1> QED
  BY <1>2, <1>3

\* A fragment of the peer has a header, and the peer goes on behind it.
LEMMA PeerSends ==
  ASSUME ChannelInv, message \in Sources, NEW chunk \in 1 .. LenOf[message] - sent, Advance(chunk)
  PROVE  /\ Encoded(chunk) \in Header
         /\ message' \in Nat \ {0} /\ sent' \in Nat /\ message <= message'
         /\ sent' > 0 => message' \in Sources /\ sent' < LenOf[message']
         /\ \/ message' = message /\ sent' = sent + chunk
            \/ message' = message + 1 /\ sent' = 0
         /\ sent + chunk = LenOf[message] => message' = message + 1 /\ sent' = 0
<1>1. message \in Nat \ {0} /\ sent \in Nat /\ LenOf[message] \in Nat
  BY ChannelAssumption, MaxMessageAssumption DEF ChannelInv, PeerInv
<1>2. Encoded(chunk) \in Header
  BY <1>1 DEF Encoded, Header
<1> QED
  BY <1>1, <1>2 DEF Advance

\* Init satisfies the invariant.
LEMMA ChannelInitial ==
  ChannelInit => ChannelInv
<1> SUFFICES ASSUME ChannelInit PROVE ChannelInv
  OBVIOUS
<1>1. BufferInv
  BY BufferInit DEF ChannelInit
<1>2. PeerInv
  BY DEF ChannelInit, PeerInv
<1>3. PrefixInv
  BY DEF ChannelInit, Init, NoFragment, PrefixInv
<1>4. queue = <<>> /\ task.pc = "wait"
  BY DEF ChannelInit, Init, Waiting
<1>5. OrderInv
  BY <1>4 DEF ChannelInit, OrderInv
<1>6. QueuedIntact
  BY <1>4 DEF QueuedIntact
<1> QED
  BY <1>1, <1>2, <1>3, <1>5, <1>6 DEF ChannelInv

\* GAP events, the stack, the clock and the timeout.
LEMMA SurroundingsStep ==
  ASSUME ChannelInv, Surroundings
  PROVE  ChannelInv'
<1>1. BufferInv'
  BY ConnectionsStep, TimersStep DEF ChannelInv, Surroundings
<1>2. /\ UNCHANGED <<queue, task>> /\ UNCHANGED <<message, sent, headless, out>>
      /\ \A x \in Elsewhere : heap'[x] = heap[x]
      /\ frag' = NoFragment \/ UNCHANGED <<frag, heap>>
  BY SurroundingsLeave DEF ChannelInv, Surroundings, peer
<1>3. message' \in Nat /\ message <= message'
  BY <1>2 DEF ChannelInv, PeerInv
<1>4. PeerInv'
  BY <1>2 DEF ChannelInv, PeerInv
<1>5. PrefixInv'
  BY <1>2 DEF ChannelInv, PrefixInv, NoFragment
<1>6. QueuedIntact' /\ \A i \in DOMAIN queue' : MessageIn(queue[i])' < message'
  BY <1>2, <1>3, QueueStays
<1>7. task'.pc # "wait" => MessageIn(task.item)' < message'
  BY <1>2, <1>3, TaskStays
<1>8. OrderInv'
  BY <1>2, <1>6, <1>7 DEF ChannelInv, OrderInv
<1> QED
  BY <1>1, <1>4, <1>5, <1>6, <1>8 DEF ChannelInv

\* The peer goes on, and the device does not see it.
LEMMA UnseenStep ==
  ASSUME ChannelInv, PeerAbandon \/ \E c \in Handles : WriteDropped(c)
  PROVE  ChannelInv'
<1>1. UNCHANGED vars /\ out' = out
  BY DEF PeerAbandon, WriteDropped
<1>2. BufferInv'
  BY <1>1, BufferStep DEF ChannelInv
<1>3. message \in Nat \ {0} /\ sent \in Nat /\ headless \subseteq 1 .. message
  BY DEF ChannelInv, PeerInv
<1>4. PeerInv' /\ headless \subseteq headless' /\ message' \in Nat /\ message <= message'
  <2>1. CASE PeerAbandon
    BY <1>3, <2>1 DEF PeerAbandon, ChannelInv, PeerInv
  <2>2. ASSUME NEW c \in Handles, WriteDropped(c)
        PROVE  PeerInv' /\ headless \subseteq headless' /\ message' \in Nat /\ message <= message'
    <3>1. PICK chunk \in 1 .. LenOf[message] - sent : Advance(chunk)
      BY <2>2 DEF WriteDropped
    <3>2. message \in Sources /\ headless' = IF sent = 0 THEN headless \cup {message} ELSE headless
      BY <2>2 DEF WriteDropped
    <3>3. /\ message' \in Nat \ {0} /\ sent' \in Nat /\ message <= message'
          /\ sent' > 0 => message' \in Sources /\ sent' < LenOf[message']
          /\ \/ message' = message /\ sent' = sent + chunk
             \/ message' = message + 1 /\ sent' = 0
      BY <3>1, <3>2, PeerSends
    <3>4. headless' \subseteq 1 .. message /\ 1 .. message \subseteq 1 .. message'
      BY <1>3, <3>2, <3>3
    <3>5. message' \in headless' => sent' > 0
      BY <1>3, <3>3, <3>4
    <3> QED
      BY <3>2, <3>3, <3>4, <3>5 DEF PeerInv
  <2> QED
    BY <2>1, <2>2
<1>5. UNCHANGED <<queue, task, heap, frag>>
  BY <1>1 DEF vars
<1>6. QueuedIntact' /\ \A i \in DOMAIN queue' : MessageIn(queue[i])' < message'
  BY <1>4, <1>5, QueueStays
<1>7. task'.pc # "wait" => MessageIn(task.item)' < message'
  BY <1>4, <1>5, TaskStays
<1>8. OrderInv'
  BY <1>1, <1>3, <1>4, <1>6, <1>7 DEF ChannelInv, OrderInv
<1>9. PrefixInv'
  <2>1. CASE PeerAbandon
    BY <2>1 DEF PeerAbandon, PrefixInv
  <2>2. ASSUME NEW c \in Handles, WriteDropped(c), sent' > 0, message' \notin headless'
        PROVE  sent > 0 /\ message' = message /\ message \notin headless
    <3>1. PICK chunk \in 1 .. LenOf[message] - sent : Advance(chunk)
      BY <2>2 DEF WriteDropped
    <3>2. message' = message
      BY <2>2, <3>1 DEF Advance
    <3> QED
      BY <1>3, <2>2, <3>2 DEF WriteDropped
  <2> QED
    BY <1>5, <2>1, <2>2 DEF ChannelInv, PrefixInv
<1> QED
  BY <1>2, <1>4, <1>6, <1>8, <1>9 DEF ChannelInv

\* What the decoder made of a fragment is of the peer's message, if that did not
\* lose its first fragment.
LEMMA PeerBytes ==
  ASSUME ChannelInv, NEW c \in Handles, NEW chunk, Encoded(chunk) \in Header, chunk \in Nat \ {0},
         NEW r, Kept(r), Extends(r, Received(c, Encoded(chunk)))
  PROVE  /\ r.frag.total = LenOf[message] /\ r.frag.received = sent + chunk
         /\ r.heap[r.frag.buf][r.frag.received - 1].src = message
         /\ message \notin headless =>
              \A i \in 0 .. r.frag.received - 1 : r.heap[r.frag.buf][i].src = message
<1> DEFINE g == Received(c, Encoded(chunk))
<1>1. /\ g.total = LenOf[message] /\ g.offset = sent /\ g.chunk = chunk /\ g.data.src = message
  BY DEF Received, Encoded
<1>2. sent \in Nat
  BY DEF ChannelInv, PeerInv
<1>3. /\ r.frag.total = g.total /\ r.frag.received = g.offset + g.chunk
      /\ g.offset # 0 => frag.buf # NoBlock /\ frag.received = g.offset
      /\ \A i \in 0 .. g.offset + g.chunk - 1 :
           r.heap[r.frag.buf][i] = IF i < g.offset THEN heap[frag.buf][i] ELSE g.data
  BY DEF Extends
<1> HIDE DEF g
<1>4. r.frag.total = LenOf[message] /\ r.frag.received = sent + chunk
  BY <1>1, <1>3
<1>5. ASSUME NEW i \in 0 .. sent + chunk - 1, ~ (i < sent)
      PROVE  r.heap[r.frag.buf][i].src = message
  BY <1>1, <1>3, <1>5
<1>6. r.heap[r.frag.buf][sent + chunk - 1].src = message
  <2>1. sent + chunk - 1 \in 0 .. sent + chunk - 1 /\ ~ (sent + chunk - 1 < sent)
    BY <1>2
  <2> QED
    BY <1>5, <2>1
<1>7. ASSUME message \notin headless, NEW i \in 0 .. sent + chunk - 1, i < sent
      PROVE  r.heap[r.frag.buf][i].src = message
  <2>1. sent > 0 /\ frag.buf # NoBlock /\ frag.received = sent /\ i \in 0 .. sent - 1
    BY <1>1, <1>2, <1>3, <1>7
  <2>2. heap[frag.buf][i].src = message
    BY <1>7, <2>1 DEF ChannelInv, PrefixInv
  <2> QED
    BY <1>1, <1>3, <1>7, <2>2
<1>8. message \notin headless => \A i \in 0 .. sent + chunk - 1 : r.heap[r.frag.buf][i].src = message
  BY <1>5, <1>7
<1>9. r.frag.received - 1 = sent + chunk - 1
  BY <1>2, <1>4
<1> QED
  BY Zenon, <1>4, <1>6, <1>8, <1>9

\* The message that an outcome completes is the peer's, and no other byte is in
\* its buffer unless its first fragment was dropped.
LEMMA EnqueuedMessage ==
  ASSUME ChannelInv, NEW c \in Handles, NEW chunk, Encoded(chunk) \in Header, chunk \in Nat \ {0},
         NEW r, Kept(r), Extends(r, Received(c, Encoded(chunk))), heap' = r.heap, Enqueues(r),
         headless' = headless, message' = message + 1
  PROVE  /\ DOMAIN queue' = 1 .. Len(queue) + 1
         /\ \A i \in 1 .. Len(queue) : queue'[i] = queue[i]
         /\ \A i \in DOMAIN queue' : i = Len(queue) + 1 => MessageIn(queue[i])' = message
         /\ QueuedIntact' /\ \A i \in DOMAIN queue' : MessageIn(queue[i])' < message'
<1> DEFINE item == [buf |-> r.frag.buf, len |-> r.frag.total]
<1>1. queue \in Seq(Item) /\ message \in Nat
  BY Others DEF ChannelInv, PeerInv
<1>2. PICK n \in Nat : n = Len(queue)
  BY <1>1
<1>3. /\ DOMAIN queue' = 1 .. n + 1 /\ DOMAIN queue = 1 .. n
      /\ \A i \in 1 .. n : queue'[i] = queue[i]
      /\ queue'[n + 1] = item
  BY <1>1, <1>2 DEF Enqueues, Kept, Item
<1> HIDE DEF item
<1>4. item.buf = r.frag.buf /\ item.len = r.frag.total /\ r.frag.received = r.frag.total
  BY DEF item, Enqueues
<1>5. /\ r.heap[r.frag.buf][r.frag.received - 1].src = message
      /\ message \notin headless =>
           \A i \in 0 .. r.frag.received - 1 : r.heap[r.frag.buf][i].src = message
  BY PeerBytes
<1>6. MessageIn(queue[n + 1])' = message
  <2>1. (n + 1)' = n + 1
    OBVIOUS
  <2> QED
    BY <1>2, <1>3, <1>4, <1>5, <2>1 DEF MessageIn
<1>7. message \notin headless => Unmixed(queue[n + 1])'
  <2>1. DOMAIN r.heap[r.frag.buf] = 0 .. r.frag.total - 1
    BY DEF Kept
  <2> QED
    BY <1>3, <1>4, <1>5, <1>6, <2>1 DEF Unmixed
<1>8. ASSUME NEW i \in 1 .. n
      PROVE  /\ MessageIn(queue[i])' < message'
             /\ Unmixed(queue[i])' \/ MessageIn(queue[i])' \in headless'
  <2>1. queue'[i] = queue[i] /\ heap'[queue[i].buf] = heap[queue[i].buf] /\ i \in DOMAIN queue
    BY <1>3, Others DEF Kept, ChannelInv
  <2>2. MessageIn(queue[i])' = MessageIn(queue[i]) /\ (Unmixed(queue[i]) => Unmixed(queue[i])')
    BY <2>1 DEF MessageIn, Unmixed
  <2>3. MessageIn(queue[i]) < message /\ MessageIn(queue[i]) \in Nat
    BY <2>1, MessagesKnown DEF ChannelInv, OrderInv
  <2>4. Unmixed(queue[i]) \/ MessageIn(queue[i]) \in headless
    BY <2>1 DEF ChannelInv, QueuedIntact
  <2> QED
    BY <1>1, <2>2, <2>3, <2>4
<1>9. ASSUME NEW i \in DOMAIN queue'
      PROVE  /\ MessageIn(queue[i])' < message'
             /\ Unmixed(queue[i])' \/ MessageIn(queue[i])' \in headless'
  <2>1. CASE i \in 1 .. n
    BY <1>8, <2>1
  <2>2. CASE i = n + 1
    <3>1. MessageIn(queue[i])' = message /\ (message \notin headless => Unmixed(queue[i])')
      BY <1>6, <1>7, <2>2
    <3> QED
      BY <1>1, <3>1
  <2> QED
    BY <1>3, <2>1, <2>2
<1>10. \A i \in DOMAIN queue' : i = n + 1 => MessageIn(queue[i])' = message
  BY <1>6
<1> QED
  BY <1>2, <1>3, <1>9, <1>10 DEF QueuedIntact

\* A fragment of the peer arrives.
LEMMA PeerWriteStep ==
  ASSUME ChannelInv, NEW c \in Handles, PeerWrite(c)
  PROVE  ChannelInv'
<1>1. PICK chunk \in 1 .. LenOf[message] - sent : GattWrite(c, Encoded(chunk)) /\ Advance(chunk)
  BY DEF PeerWrite
<1>2. message \in Sources /\ UNCHANGED <<headless, out>> /\ chunk \in Nat \ {0}
  BY <1>1, ChannelAssumption, MaxMessageAssumption DEF PeerWrite, ChannelInv, PeerInv
<1>3. /\ Encoded(chunk) \in Header
      /\ message' \in Nat \ {0} /\ sent' \in Nat /\ message <= message'
      /\ sent' > 0 => message' \in Sources /\ sent' < LenOf[message']
      /\ \/ message' = message /\ sent' = sent + chunk
         \/ message' = message + 1 /\ sent' = 0
      /\ sent + chunk = LenOf[message] => message' = message + 1 /\ sent' = 0
  BY <1>1, <1>2, PeerSends
<1>4. BufferInv'
  BY <1>1, <1>3, WritesStep DEF ChannelInv
<1>5. message \in Nat \ {0} /\ sent \in Nat /\ headless \subseteq 1 .. message
  BY DEF ChannelInv, PeerInv
<1>6. PeerInv'
  <2>1. headless' \subseteq 1 .. message /\ 1 .. message \subseteq 1 .. message'
    BY <1>2, <1>3, <1>5
  <2>2. message' \in headless' => sent' > 0
    BY <1>2, <1>3, <1>5
  <2> QED
    BY <1>3, <2>1, <2>2 DEF PeerInv
<1>7. /\ task' = task /\ \A x \in Elsewhere : heap'[x] = heap[x]
      /\ \/ frag' = NoFragment /\ queue' = queue
         \/ \E r \in Decoded(frag, heap, Received(c, Encoded(chunk))) :
              /\ Kept(r) /\ Extends(r, Received(c, Encoded(chunk))) /\ heap' = r.heap
              /\ (frag' = r.frag /\ queue' = queue) \/ Enqueues(r)
  BY <1>1, <1>3, WriteLeaves DEF ChannelInv
<1>8. task'.pc # "wait" => MessageIn(task.item)' < message'
  BY <1>3, <1>7, TaskStays
<1>9. queue' = queue => QueuedIntact' /\ \A i \in DOMAIN queue' : MessageIn(queue[i])' < message'
  BY <1>2, <1>3, <1>7, QueueStays
<1>10. out' \in Nat /\ out' < message'
  BY <1>2, <1>3, <1>5 DEF ChannelInv, OrderInv
<1>11. CASE frag' = NoFragment /\ queue' = queue
  <2>1. PrefixInv'
    BY <1>11 DEF PrefixInv, NoFragment
  <2> QED
    BY <1>4, <1>6, <1>8, <1>9, <1>10, <1>11, <2>1 DEF ChannelInv, OrderInv
<1>12. ASSUME NEW r, Kept(r), Extends(r, Received(c, Encoded(chunk))), heap' = r.heap,
              frag' = r.frag, queue' = queue
       PROVE  ChannelInv'
  <2>1. message \notin headless =>
          \A i \in 0 .. r.frag.received - 1 : r.heap[r.frag.buf][i].src = message
    BY <1>2, <1>3, <1>12, PeerBytes
  <2>2. PrefixInv'
    <3>1. sent' > 0 => message' = message
      BY <1>3
    <3> QED
      BY <1>2, <1>12, <2>1, <3>1 DEF PrefixInv
  <2> QED
    BY <1>4, <1>6, <1>8, <1>9, <1>10, <1>12, <2>2 DEF ChannelInv, OrderInv
<1>13. ASSUME NEW r, Kept(r), Extends(r, Received(c, Encoded(chunk))), heap' = r.heap, Enqueues(r)
       PROVE  ChannelInv'
  <2>1. message' = message + 1
    <3>1. r.frag.total = LenOf[message] /\ r.frag.received = sent + chunk
      BY <1>2, <1>3, <1>13, PeerBytes
    <3> QED
      BY <1>3, <1>13, <3>1 DEF Enqueues
  <2>2. QueuedIntact' /\ \A i \in DOMAIN queue' : MessageIn(queue[i])' < message'
    BY <1>2, <1>3, <1>13, <2>1, EnqueuedMessage
  <2>3. PrefixInv'
    BY <1>13 DEF PrefixInv, Enqueues, NoFragment
  <2> QED
    BY <1>4, <1>6, <1>8, <1>10, <2>2, <2>3 DEF ChannelInv, OrderInv
<1> QED
  BY <1>7, <1>11, <1>12, <1>13

\* The buffer that the data task frees is nobody else's.
LEMMA FreeLeaves ==
  ASSUME BufferInv, TaskFree
  PROVE  /\ \A i \in DOMAIN queue : heap'[queue[i].buf] = heap[queue[i].buf]
         /\ frag.buf # NoBlock => heap'[frag.buf] = heap[frag.buf]
<1>1. /\ task.item.buf \in Blocks /\ heap' = Freed(heap, task.item.buf)
      /\ heap \in [Blocks -> Content \cup {Free}]
  BY Others DEF TaskFree, BufferInv, TypeOK
<1>2. \A x \in Blocks : x # task.item.buf => heap'[x] = heap[x]
  BY <1>1, FreedType
<1>3. \A i \in DOMAIN queue : queue[i].buf \in Blocks /\ queue[i].buf # task.item.buf
  BY Others DEF BufferInv, SoleOwner, Queued
<1>4. frag.buf # NoBlock => frag.buf \in Blocks /\ frag.buf # task.item.buf
  BY DEF BufferInv, SoleOwner, TypeOK
<1> QED
  BY <1>2, <1>3, <1>4

\* The data task takes a step; what it hands over was completed before.
LEMMA DataTaskKeeps ==
  ASSUME ChannelInv, ChannelRoute \/ ChannelBookkeeping
  PROVE  ChannelInv'
<1>1. UNCHANGED <<message, sent, headless, frag>> /\ DataTask
  BY DEF ChannelRoute, ChannelBookkeeping, Bookkeeping, TaskReceive, TaskDrop, TaskAccept,
         TaskCompare, TaskStore, TaskRoute, TaskFree, DataTask, peer
<1>2. BufferInv'
  BY <1>1, DataTaskStep DEF ChannelInv
<1>3. PeerInv' /\ message' \in Nat /\ message <= message' /\ headless \subseteq headless'
  BY <1>1 DEF ChannelInv, PeerInv
<1>4. out' \in Nat /\ out' < message'
  <2>1. CASE ChannelRoute
    <3>1. out' = MessageIn(task.item) /\ task.pc # "wait"
      BY <2>1 DEF ChannelRoute, TaskRoute
    <3> QED
      BY <1>1, <3>1, MessagesKnown DEF ChannelInv, OrderInv
  <2>2. CASE ChannelBookkeeping
    BY <1>1, <2>2 DEF ChannelBookkeeping, ChannelInv, OrderInv
  <2> QED
    BY <2>1, <2>2
<1>5. queue \in Seq(Item) /\ Len(queue) \in Nat /\ DOMAIN queue = 1 .. Len(queue)
  BY Others DEF ChannelInv
<1>6. CASE TaskReceive
  <2>1. heap' = heap /\ queue' = Tail(queue) /\ task'.item = queue[1] /\ queue # <<>>
    BY <1>5, <1>6 DEF TaskReceive, ChannelInv, BufferInv, TypeOK
  <2>2. PICK n \in Nat : n = Len(queue) - 1
    <3>1. Len(queue) \in Nat \ {0}
      BY <1>5, <2>1, EmptySeq
    <3>2. Len(queue) - 1 \in Nat
      BY <3>1
    <3> QED
      BY Zenon, <3>2
  <2>3. /\ DOMAIN queue' = 1 .. n
        /\ \A i \in 1 .. n : i + 1 \in DOMAIN queue /\ queue'[i] = queue[i + 1]
        /\ 1 \in DOMAIN queue
    BY <1>5, <2>1, <2>2
  <2>4. QueuedIntact' /\ \A i \in DOMAIN queue' : MessageIn(queue[i])' < message'
    BY <1>3, <2>1, <2>3, QueueKept
  <2>5. MessageIn(task.item)' < message'
    <3>1. MessageIn(queue[1]) < message
      BY <2>3 DEF ChannelInv, OrderInv
    <3>2. MessageIn(task.item)' = MessageIn(queue[1])
      BY <2>1 DEF MessageIn
    <3> QED
      BY <1>1, <3>1, <3>2
  <2>6. PrefixInv'
    BY <1>1, <2>1 DEF ChannelInv, PrefixInv
  <2> QED
    BY <1>2, <1>3, <1>4, <2>4, <2>5, <2>6 DEF ChannelInv, OrderInv
<1>7. CASE TaskDrop \/ TaskAccept \/ TaskCompare \/ TaskStore \/ TaskRoute
  <2>1. /\ UNCHANGED <<queue, heap>> /\ task'.item = task.item /\ task.pc # "wait"
    BY <1>7 DEF TaskDrop, TaskAccept, TaskCompare, TaskStore, TaskRoute, ChannelInv, BufferInv, TypeOK
  <2>2. QueuedIntact' /\ \A i \in DOMAIN queue' : MessageIn(queue[i])' < message'
    BY <1>3, <2>1, QueueStays
  <2>3. task'.pc # "wait" => MessageIn(task.item)' < message'
    BY <1>3, <2>1, TaskStays
  <2>4. PrefixInv'
    BY <1>1, <2>1 DEF ChannelInv, PrefixInv
  <2> QED
    BY <1>2, <1>3, <1>4, <2>2, <2>3, <2>4 DEF ChannelInv, OrderInv
<1>8. CASE TaskFree
  <2>1. queue' = queue /\ task'.pc = "wait"
    BY <1>8 DEF TaskFree, Waiting
  <2>2. PICK n \in Nat : n = Len(queue)
    BY <1>5
  <2>3. /\ DOMAIN queue' = 1 .. n
        /\ \A i \in 1 .. n : i + 0 \in DOMAIN queue /\ queue'[i] = queue[i + 0]
    BY <1>5, <2>1, <2>2
  <2>4. /\ \A i \in DOMAIN queue : heap'[queue[i].buf] = heap[queue[i].buf]
        /\ frag.buf # NoBlock => heap'[frag.buf] = heap[frag.buf]
    BY <1>8, FreeLeaves DEF ChannelInv
  <2>5. QueuedIntact' /\ \A i \in DOMAIN queue' : MessageIn(queue[i])' < message'
    BY <1>3, <2>3, <2>4, QueueKept
  <2>6. PrefixInv'
    BY <1>1, <2>4 DEF ChannelInv, PrefixInv
  <2> QED
    BY <1>2, <1>3, <1>4, <2>1, <2>5, <2>6 DEF ChannelInv, OrderInv
<1> QED
  BY <1>1, <1>6, <1>7, <1>8 DEF DataTask, Bookkeeping

\* Every step keeps the invariant.
LEMMA ChannelStep ==
  ChannelInv /\ [ChannelNext]_channelVars => ChannelInv'
<1> SUFFICES ASSUME ChannelInv, [ChannelNext]_channelVars PROVE ChannelInv'
  OBVIOUS
<1>1. CASE UNCHANGED channelVars
  <2>1. UNCHANGED vars /\ UNCHANGED <<message, sent, headless, out>>
    BY <1>1 DEF channelVars
  <2>2. BufferInv'
    BY <2>1, BufferStep DEF ChannelInv
  <2>3. UNCHANGED <<queue, task, heap, frag>>
    BY <2>1 DEF vars
  <2> QED
    BY <2>1, <2>2, <2>3 DEF ChannelInv, PeerInv, PrefixInv, OrderInv, QueuedIntact, MessageIn, Unmixed
<1> QED
  BY <1>1, SurroundingsStep, UnseenStep, PeerWriteStep, DataTaskKeeps DEF ChannelNext, PeerStep

\* What is in reassembly, in the queue and in the data task stays what the peer
\* sent, for every order of fragments, losses and connections.
THEOREM ChannelInvariant ==
  ChannelSpec => []ChannelInv
<1> QED
  BY ChannelInitial, ChannelStep, PTL DEF ChannelSpec

\* A buffer in the queue is the message that completed it, unless that message
\* lost its first fragment (agcore_fragment_decode, agcore_ble_rx_data_handle).
THEOREM MessagesIntact ==
  ChannelSpec => []QueuedIntact
<1>1. ChannelInv => QueuedIntact
  BY DEF ChannelInv
<1> QED
  BY <1>1, ChannelInvariant, PTL
-----------------------------------------------------------------------------
(* The messages on their way, as the channel sees them. *)

InTask == IF task.pc \in {"decode", "store", "route"} THEN <<MessageIn(task.item)>> ELSE <<>>
Behind == [i \in DOMAIN queue |-> MessageIn(queue[i])]

AtWork == task.pc \in {"decode", "store", "route"}

\* They are numbers below the present message's, one in the task at most.
PendingShape ==
  /\ pending = InTask \o Behind
  /\ Behind \in Seq(Nat) /\ Len(Behind) = Len(queue)
  /\ \A i \in 1 .. Len(queue) : Behind[i] = MessageIn(queue[i])
  /\ \A i \in 1 .. Len(Behind) : Behind[i] < message
  /\ AtWork => MessageIn(task.item) \in Nat /\ MessageIn(task.item) < message
  /\ InTask = IF AtWork THEN <<MessageIn(task.item)>> ELSE <<>>
  /\ Len(queue) \in Nat /\ Len(queue) <= QueueLength /\ DOMAIN queue = 1 .. Len(queue)

LEMMA PendingIs ==
  ChannelInv => PendingShape
<1> SUFFICES ASSUME ChannelInv PROVE PendingShape
  OBVIOUS
<1>1. queue \in Seq(Item) /\ Len(queue) \in Nat /\ DOMAIN queue = 1 .. Len(queue)
  BY Others DEF ChannelInv
<1>2. Len(queue) <= QueueLength
  BY DEF ChannelInv, BufferInv, TypeOK
<1>3. \A i \in DOMAIN queue : MessageIn(queue[i]) \in Nat /\ MessageIn(queue[i]) < message
  BY MessagesKnown DEF ChannelInv, OrderInv
<1>4. PICK n \in Nat : n = Len(queue)
  BY <1>1
<1>5. Behind = [i \in 1 .. n |-> MessageIn(queue[i])]
  BY <1>1, <1>4 DEF Behind
<1>6. Behind \in Seq(Nat) /\ Len(Behind) = n
  BY <1>1, <1>3, <1>4, <1>5
<1>7. \A i \in 1 .. n : Behind[i] = MessageIn(queue[i])
  BY <1>5
<1>8. AtWork => MessageIn(task.item) \in Nat /\ MessageIn(task.item) < message
  BY MessagesKnown DEF AtWork, ChannelInv, OrderInv
<1>9. pending = InTask \o Behind
  BY DEF pending, InTask, Behind
<1>10. InTask = IF AtWork THEN <<MessageIn(task.item)>> ELSE <<>>
  BY DEF InTask, AtWork
<1>11. \A i \in 1 .. Len(Behind) : Behind[i] < message
  BY <1>1, <1>3, <1>4, <1>6, <1>7
<1> QED
  BY <1>1, <1>2, <1>4, <1>6, <1>7, <1>8, <1>9, <1>10, <1>11 DEF PendingShape

\* The same in the next state.
LEMMA PendingNext ==
  (ChannelInv => PendingShape)'
<1>1. ChannelInv => PendingShape
  BY PendingIs
<1> QED
  BY <1>1, PTL

\* The first element of a sequence and the others.
LEMMA FirstAndRest ==
  ASSUME NEW S, NEW e \in S, NEW s \in Seq(S)
  PROVE  <<e>> \o s # <<>> /\ Head(<<e>> \o s) = e /\ Tail(<<e>> \o s) = s
<1>1. <<e>> \in Seq(S) /\ Len(<<e>>) = 1 /\ <<e>>[1] = e
  OBVIOUS
<1>2. PICK t \in Seq(S) : t = <<e>> \o s
  BY <1>1, ConcatProperties
<1>3. Len(t) = 1 + Len(s) /\ t[1] = e /\ Len(s) \in Nat
  BY <1>1, <1>2, ConcatProperties
<1>4. \A i \in 1 .. Len(s) : t[i + 1] = s[i]
  BY <1>1, <1>2, <1>3, ConcatProperties
<1>5. t # <<>>
  BY <1>3
<1>6. Head(t) = e
  BY <1>3, <1>5
<1>7. Tail(t) \in Seq(S) /\ Len(Tail(t)) = Len(s) /\ \A i \in 1 .. Len(s) : Tail(t)[i] = s[i]
  BY <1>3, <1>4, <1>5, HeadTailProperties
<1>8. Tail(t) = s
  BY <1>7, SeqEqual
<1> QED
  BY <1>2, <1>5, <1>6, <1>8

\* A queue that keeps its items and their buffers.
LEMMA BehindStays ==
  ASSUME ChannelInv, ChannelInv', queue' = queue,
         \A i \in DOMAIN queue : heap'[queue[i].buf] = heap[queue[i].buf]
  PROVE  Behind' = Behind
<1>1. \A i \in DOMAIN queue : MessageIn(queue[i])' = MessageIn(queue[i])
  BY DEF MessageIn
<1> QED
  BY <1>1 DEF Behind

\* A data task that keeps its item and its buffer, in places of the same kind.
LEMMA InTaskStays ==
  ASSUME ChannelInv, ChannelInv', task'.item = task.item,
         \A x \in Elsewhere : heap'[x] = heap[x],
         task'.pc \in {"decode", "store", "route"} <=> task.pc \in {"decode", "store", "route"}
  PROVE  InTask' = InTask
<1>1. CASE task.pc \in {"decode", "store", "route"}
  <2>1. heap'[task.item.buf] = heap[task.item.buf]
    BY <1>1, Others DEF ChannelInv
  <2> QED
    BY <1>1, <2>1 DEF InTask, MessageIn
<1>2. CASE task.pc \notin {"decode", "store", "route"}
  BY <1>2 DEF InTask
<1> QED
  BY <1>1, <1>2

\* Nothing is accepted, handed over or lost by a step that leaves both.
LEMMA NothingMoves ==
  ASSUME ChannelInv, ChannelInv', UNCHANGED <<queue, task>>,
         \A x \in Elsewhere : heap'[x] = heap[x]
  PROVE  pending' = pending
<1>1. \A i \in DOMAIN queue : heap'[queue[i].buf] = heap[queue[i].buf]
  BY Others DEF ChannelInv
<1>2. Behind' = Behind
  BY <1>1, BehindStays
<1>3. InTask' = InTask
  BY InTaskStays
<1> QED
  BY <1>2, <1>3 DEF pending, InTask, Behind

\* A fragment that completes a message is an Accept when the queue takes it, as
\* the number of the message is above every number before it.
LEMMA EnqueueAccepts ==
  ASSUME ChannelInv, ChannelInv', message \in Sources, task' = task,
         \A x \in Elsewhere : heap'[x] = heap[x], out' = out,
         Len(queue) < QueueLength,
         DOMAIN queue' = 1 .. Len(queue) + 1,
         \A i \in 1 .. Len(queue) : queue'[i] = queue[i],
         \A i \in DOMAIN queue' : i = Len(queue) + 1 => MessageIn(queue[i])' = message
  PROVE  Promise!Accept(message)
<1>1. PendingShape /\ PendingShape'
  BY PendingIs, PendingNext
<1>2. message \in Nat /\ out < message /\ QueueLength \in Nat
  BY QueueAssumption DEF ChannelInv, PeerInv, OrderInv
<1>3. InTask' = InTask
  BY InTaskStays
<1>4. PICK n \in Nat : n = Len(queue)
  BY <1>1 DEF PendingShape
<1>5. PICK s \in Seq(Nat) : s = Behind
  BY <1>1 DEF PendingShape
<1>6. PICK u \in Seq(Nat) : u = Behind'
  BY <1>1 DEF PendingShape
<1>7. Len(s) = n /\ Len(u) = n + 1
  BY <1>1, <1>4, <1>5, <1>6 DEF PendingShape
<1>8. \A i \in 1 .. n : u[i] = s[i]
  <2>1. ASSUME NEW i \in 1 .. n PROVE MessageIn(queue[i])' = MessageIn(queue[i])
    <3>1. i \in DOMAIN queue /\ queue'[i] = queue[i]
      BY <1>1, <1>4 DEF PendingShape
    <3>2. heap'[queue[i].buf] = heap[queue[i].buf]
      BY <3>1, Others DEF ChannelInv
    <3> QED
      BY <3>1, <3>2 DEF MessageIn
  <2>2. \A i \in 1 .. n : s[i] = MessageIn(queue[i])
    BY <1>1, <1>4, <1>5 DEF PendingShape
  <2>3. \A i \in 1 .. n + 1 : u[i] = MessageIn(queue[i])'
    BY <1>1, <1>6, <1>7 DEF PendingShape
  <2> QED
    BY <2>1, <2>2, <2>3
<1>9. u[n + 1] = message
  BY <1>1, <1>4, <1>6, <1>7 DEF PendingShape
<1>10. u = s \o <<message>>
  BY <1>2, <1>7, <1>8, <1>9, ConcatProperties, SeqEqual
<1>11. InTask \in Seq(Nat) /\ Len(InTask) \in {0, 1} /\ \A i \in 1 .. Len(InTask) : InTask[i] < message
  <2>1. CASE AtWork
    <3>1. PICK e \in Nat : e = MessageIn(task.item) /\ e < message
      BY <1>1, <2>1 DEF PendingShape
    <3>2. InTask = <<e>>
      BY <1>1, <2>1, <3>1 DEF PendingShape
    <3>3. <<e>> \in Seq(Nat) /\ Len(<<e>>) = 1 /\ \A i \in 1 .. 1 : <<e>>[i] < message
      BY <3>1
    <3> QED
      BY <3>2, <3>3, Zenon
  <2>2. CASE ~ AtWork
    <3>1. InTask = <<>>
      BY <1>1, <2>2 DEF PendingShape
    <3>2. <<>> \in Seq(Nat) /\ Len(<<>>) = 0 /\ 1 .. 0 = {}
      BY EmptySeq
    <3> QED
      BY <3>1, <3>2, Zenon
  <2> QED
    BY <2>1, <2>2
<1>12. PICK a \in Seq(Nat) : a = InTask
  BY <1>11
<1>13. Len(a) \in {0, 1} /\ \A i \in 1 .. Len(a) : a[i] < message
  BY <1>11, <1>12
<1>14. pending = a \o s /\ pending' = a \o u
  BY <1>1, <1>3, <1>5, <1>6, <1>12 DEF PendingShape
<1>15. a \o u = (a \o s) \o <<message>>
  BY <1>2, <1>10, ConcatAssociative
<1>16. (a \o s) \o <<message>> = Append(a \o s, message)
  BY <1>2, ConcatProperties, AppendIsConcat
<1>17. Len(a \o s) < QueueLength + 1 /\ DOMAIN (a \o s) = 1 .. Len(a) + n
  <2>1. Len(a) \in Nat /\ Len(a \o s) = Len(a) + n /\ a \o s \in Seq(Nat)
    BY <1>7, ConcatProperties
  <2>2. n < QueueLength
    BY <1>4
  <2>3. \A k \in {0, 1} : k + n < QueueLength + 1
    BY <1>2, <2>2
  <2>4. DOMAIN (a \o s) = 1 .. Len(a \o s)
    BY <2>1, LenProperties
  <2> QED
    BY <1>13, <2>1, <2>3, <2>4, Zenon
<1>18. \A i \in 1 .. Len(a) + n : (a \o s)[i] < message
  <2>1. \A i \in 1 .. n : s[i] < message
    BY <1>1, <1>5, <1>7 DEF PendingShape
  <2>2. ASSUME NEW i \in 1 .. Len(a) + n
        PROVE  (a \o s)[i] = IF i <= Len(a) THEN a[i] ELSE s[i - Len(a)]
    BY <1>7, ConcatProperties
  <2>3. Len(a) \in Nat
    OBVIOUS
  <2>4. ASSUME NEW i \in 1 .. Len(a) + n PROVE (a \o s)[i] < message
    <3>1. CASE i <= Len(a)
      BY <1>13, <2>2, <2>3, <3>1
    <3>2. CASE ~ (i <= Len(a))
      <4>1. (a \o s)[i] = s[i - Len(a)]
        BY <2>2, <3>2
      <4>2. i - Len(a) \in 1 .. n
        BY <2>3, <3>2
      <4> QED
        BY <2>1, <4>1, <4>2
    <3> QED
      BY <3>1, <3>2
  <2> QED
    BY <2>4
<1> QED
  BY <1>2, <1>14, <1>15, <1>16, <1>17, <1>18 DEF Promise!Accept

\* The messages on their way move up, or do not move, when the data task takes a
\* step: an item is taken, a frame is dropped or handed over.
LEMMA DataTaskImplements ==
  ASSUME ChannelInv, ChannelInv', ChannelRoute \/ ChannelBookkeeping
  PROVE  [Promise!Next]_<<pending, out>>
<1>1. PendingShape /\ PendingShape'
  BY PendingIs, PendingNext
<1>2. ASSUME AtWork, ~ AtWork', UNCHANGED <<queue, heap>>
      PROVE  pending # <<>> /\ Head(pending) = MessageIn(task.item) /\ pending' = Tail(pending)
  <2>1. Behind' = Behind
    BY <1>2, BehindStays
  <2>2. PICK s \in Seq(Nat) : s = Behind
    BY <1>1 DEF PendingShape
  <2>3. PICK e \in Nat : e = MessageIn(task.item)
    BY <1>1, <1>2 DEF PendingShape
  <2>4. pending = <<e>> \o s
    BY <1>1, <1>2, <2>2, <2>3 DEF PendingShape
  <2>5. pending' = <<>> \o s
    BY <1>1, <1>2, <2>1, <2>2 DEF PendingShape
  <2>6. pending' = s
    BY <2>5, ConcatEmptySeq
  <2> QED
    BY <2>3, <2>4, <2>6, FirstAndRest
<1>3. ASSUME AtWork <=> AtWork', task'.item = task.item, UNCHANGED <<queue, heap>>
      PROVE  pending' = pending
  <2>1. Behind' = Behind
    BY <1>3, BehindStays
  <2>2. InTask' = InTask
    BY <1>3, InTaskStays DEF AtWork
  <2> QED
    BY <1>1, <2>1, <2>2 DEF PendingShape
<1>4. CASE ChannelRoute
  <2>1. AtWork /\ ~ AtWork' /\ UNCHANGED <<queue, heap>> /\ out' = MessageIn(task.item)
    BY <1>4 DEF ChannelRoute, TaskRoute, AtWork, ChannelInv, BufferInv, TypeOK
  <2>2. Promise!Deliver
    BY <1>2, <2>1 DEF Promise!Deliver
  <2> QED
    BY <2>2 DEF Promise!Next
<1>5. CASE TaskDrop /\ out' = out
  <2>1. AtWork /\ ~ AtWork' /\ UNCHANGED <<queue, heap>>
    BY <1>5 DEF TaskDrop, AtWork, ChannelInv, BufferInv, TypeOK
  <2>2. Promise!Lose
    BY <1>2, <1>5, <2>1 DEF Promise!Lose
  <2> QED
    BY <2>2 DEF Promise!Next
<1>6. CASE (TaskAccept \/ TaskCompare \/ TaskStore) /\ out' = out
  <2>1. AtWork /\ AtWork' /\ UNCHANGED <<queue, heap>> /\ task'.item = task.item
    BY <1>6 DEF TaskAccept, TaskCompare, TaskStore, AtWork, ChannelInv, BufferInv, TypeOK
  <2> QED
    BY <1>3, <1>6, <2>1
<1>7. CASE TaskReceive /\ out' = out
  <2>1. ~ AtWork /\ AtWork' /\ heap' = heap /\ queue' = Tail(queue) /\ task'.item = Head(queue) /\ queue # <<>>
    BY <1>7 DEF TaskReceive, AtWork, ChannelInv, BufferInv, TypeOK
  <2>2. PICK q \in Seq(Item) : q = queue
    BY Others DEF ChannelInv
  <2>3. /\ Len(q) \in Nat \ {0} /\ Len(Tail(q)) = Len(q) - 1
        /\ \A i \in 1 .. Len(q) - 1 : Tail(q)[i] = q[i + 1]
        /\ Head(q) = q[1]
    BY <2>1, <2>2, EmptySeq, HeadTailProperties
  <2>4. PICK s \in Seq(Nat) : s = Behind
    BY <1>1 DEF PendingShape
  <2>5. PICK u \in Seq(Nat) : u = Behind'
    BY <1>1 DEF PendingShape
  <2>6. Len(s) = Len(q) /\ Len(u) = Len(q) - 1
    BY <1>1, <2>1, <2>2, <2>3, <2>4, <2>5 DEF PendingShape
  <2>7. MessageIn(task.item)' = s[1]
    <3>1. MessageIn(task.item)' = MessageIn(queue[1])
      BY <2>1, <2>2, <2>3 DEF MessageIn
    <3> QED
      BY <1>1, <2>2, <2>3, <2>4, <3>1 DEF PendingShape
  <2>8. ASSUME NEW i \in 1 .. Len(q) - 1 PROVE u[i] = s[i + 1]
    <3>1. MessageIn(queue[i])' = MessageIn(queue[i + 1])
      BY <2>1, <2>2, <2>3 DEF MessageIn
    <3>2. u[i] = MessageIn(queue[i])'
      BY <1>1, <2>5, <2>6 DEF PendingShape
    <3>3. s[i + 1] = MessageIn(queue[i + 1])
      BY <1>1, <2>2, <2>3, <2>4 DEF PendingShape
    <3> QED
      BY <3>1, <3>2, <3>3
  <2>9. s[1] \in Nat
    BY <2>3, <2>6
  <2>10. s = <<s[1]>> \o u
    BY <2>3, <2>6, <2>8, <2>9, ConcatProperties, SeqEqual
  <2>11. pending = <<>> \o s
    BY <1>1, <2>1, <2>4 DEF PendingShape
  <2>12. pending' = <<s[1]>> \o u
    BY <1>1, <2>1, <2>5, <2>7 DEF PendingShape
  <2> QED
    BY <1>7, <2>10, <2>11, <2>12, ConcatEmptySeq
<1>8. CASE TaskFree /\ out' = out
  <2>1. ~ AtWork /\ ~ AtWork' /\ queue' = queue
    BY <1>8 DEF TaskFree, Waiting, AtWork
  <2>2. \A i \in DOMAIN queue : heap'[queue[i].buf] = heap[queue[i].buf]
    BY <1>8, FreeLeaves DEF ChannelInv
  <2>3. Behind' = Behind
    BY <2>1, <2>2, BehindStays
  <2> QED
    BY <1>1, <1>8, <2>1, <2>3 DEF PendingShape
<1> QED
  BY <1>4, <1>5, <1>6, <1>7, <1>8 DEF ChannelBookkeeping, Bookkeeping

\* A step of the peer is an Accept if it completes a message that enters the
\* queue, and changes nothing that the channel sees otherwise.
LEMMA PeerImplements ==
  ASSUME ChannelInv, ChannelInv', PeerStep
  PROVE  [Promise!Next]_<<pending, out>>
<1>1. CASE PeerAbandon \/ \E c \in Handles : WriteDropped(c)
  <2>1. UNCHANGED <<queue, task, heap>> /\ out' = out
    BY <1>1 DEF PeerAbandon, WriteDropped, vars
  <2> QED
    BY <2>1, NothingMoves
<1>2. ASSUME NEW c \in Handles, PeerWrite(c) PROVE [Promise!Next]_<<pending, out>>
  <2>1. PICK chunk \in 1 .. LenOf[message] - sent : GattWrite(c, Encoded(chunk)) /\ Advance(chunk)
    BY <1>2 DEF PeerWrite
  <2>2. /\ message \in Sources /\ UNCHANGED <<headless, out>> /\ chunk \in Nat \ {0}
        /\ message \in Nat
    BY <1>2, <2>1, ChannelAssumption, MaxMessageAssumption DEF PeerWrite, ChannelInv, PeerInv
  <2>3. /\ Encoded(chunk) \in Header
        /\ sent + chunk = LenOf[message] => message' = message + 1
    BY <2>1, <2>2, PeerSends
  <2>4. /\ task' = task /\ \A x \in Elsewhere : heap'[x] = heap[x]
        /\ \/ frag' = NoFragment /\ queue' = queue
           \/ \E r \in Decoded(frag, heap, Received(c, Encoded(chunk))) :
                /\ Kept(r) /\ Extends(r, Received(c, Encoded(chunk))) /\ heap' = r.heap
                /\ (frag' = r.frag /\ queue' = queue) \/ Enqueues(r)
    BY <2>1, <2>3, WriteLeaves DEF ChannelInv
  <2>5. CASE queue' = queue
    BY <2>2, <2>4, <2>5, NothingMoves
  <2>6. ASSUME NEW r, Kept(r), Extends(r, Received(c, Encoded(chunk))), heap' = r.heap, Enqueues(r)
        PROVE  Promise!Accept(message)
    <3>1. message' = message + 1
      <4>1. r.frag.total = LenOf[message] /\ r.frag.received = sent + chunk
        BY <2>2, <2>3, <2>6, PeerBytes
      <4> QED
        BY <2>3, <2>6, <4>1 DEF Enqueues
    <3>2. /\ DOMAIN queue' = 1 .. Len(queue) + 1
          /\ \A i \in 1 .. Len(queue) : queue'[i] = queue[i]
          /\ \A i \in DOMAIN queue' : i = Len(queue) + 1 => MessageIn(queue[i])' = message
      BY <2>2, <2>3, <2>6, <3>1, EnqueuedMessage
    <3>3. Len(queue) < QueueLength
      BY <2>6 DEF Enqueues
    <3> QED
      BY <2>2, <2>4, <3>2, <3>3, EnqueueAccepts
  <2> QED
    BY <2>2, <2>4, <2>5, <2>6 DEF Promise!Next
<1> QED
  BY <1>1, <1>2 DEF PeerStep

\* The receive path implements the channel but for its fairness: what the
\* callbacks get was completed by the peer in this order, none twice, and at
\* most QueueLength + 1 messages are on their way.
THEOREM ChannelImplemented ==
  ChannelSpec => ChannelSafe
<1>1. ChannelInit => Promise!Init
  <2> SUFFICES ASSUME ChannelInit PROVE Promise!Init
    OBVIOUS
  <2>1. queue = <<>> /\ task.pc = "wait" /\ out = 0
    BY DEF ChannelInit, Init, Waiting
  <2>2. ChannelInv
    BY ChannelInitial
  <2>3. ~ AtWork /\ PendingShape /\ Len(queue) = 0
    BY <2>1, <2>2, PendingIs DEF AtWork
  <2>4. Behind \in Seq(Nat) /\ Len(Behind) = 0 /\ pending = <<>> \o Behind
    BY <2>3 DEF PendingShape
  <2>5. pending = <<>>
    BY <2>4, ConcatEmptySeq, EmptySeq
  <2> QED
    BY <2>1, <2>5 DEF Promise!Init
<1>2. ChannelInv /\ ChannelInv' /\ [ChannelNext]_channelVars => [Promise!Next]_<<pending, out>>
  <2> SUFFICES ASSUME ChannelInv, ChannelInv', [ChannelNext]_channelVars
               PROVE  [Promise!Next]_<<pending, out>>
    OBVIOUS
  <2>1. CASE UNCHANGED channelVars
    <3>1. UNCHANGED <<queue, task, heap, out>>
      BY <2>1 DEF channelVars, vars
    <3> QED
      BY <3>1, NothingMoves
  <2>2. CASE Surroundings
    <3>1. UNCHANGED <<queue, task, out>> /\ \A x \in Elsewhere : heap'[x] = heap[x]
      BY <2>2, SurroundingsLeave DEF Surroundings, ChannelInv
    <3> QED
      BY <3>1, NothingMoves
  <2> QED
    BY <2>1, <2>2, PeerImplements, DataTaskImplements DEF ChannelNext
<1> QED
  BY <1>1, <1>2, ChannelInvariant, PTL DEF ChannelSpec, ChannelSafe
=============================================================================
