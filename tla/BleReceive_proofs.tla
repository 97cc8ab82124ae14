-------------------------- MODULE BleReceive_proofs --------------------------
(***************************************************************************)
(* Proofs about BleReceive, for every set of blocks, handles and sources,  *)
(* every fragment a peer may write, every queue length and timeout.        *)
(***************************************************************************)
EXTENDS BleReceive, SequenceTheorems, TLAPS

\* The data task holds an item in every place but where it waits for one.
TaskHolds == task.pc = "wait" <=> task.item = NoItem

\* Buffers and their owners.
BufferInv ==
  /\ TypeOK
  /\ TaskHolds
  /\ SoleOwner
  /\ ReassemblyOfConnection
  /\ QueuedWhole
-----------------------------------------------------------------------------
(* Lemmas about the heap and the decoder. *)

\* Freeing a block leaves every other one alone; freeing NULL leaves them all.
LEMMA FreedType ==
  ASSUME NEW h \in [Blocks -> Content \cup {Free}], NEW b \in Blocks \cup {NoBlock}
  PROVE  /\ Freed(h, b) \in [Blocks -> Content \cup {Free}]
         /\ Live(Freed(h, b)) = Live(h) \ {b}
         /\ \A x \in Blocks : x # b => Freed(h, b)[x] = h[x]
  BY BlocksAssumption DEF Freed, Live

\* Copying a fragment into a buffer that has room for it writes its bytes and
\* no others.
LEMMA CopiedType ==
  ASSUME NEW n \in 1 .. MaxMessage, NEW bytes \in [0 .. n - 1 -> Byte \cup {Junk}],
         NEW f, f.data \in Byte
  PROVE  /\ Copied(bytes, f) \in [0 .. n - 1 -> Byte \cup {Junk}]
         /\ \A i \in 0 .. n - 1 :
              Copied(bytes, f)[i] =
                IF i \in f.offset .. f.offset + f.chunk - 1 THEN f.data ELSE bytes[i]
  BY DEF Copied

\* The bytes of a message are the content of an allocated block.
LEMMA ContentBytes ==
  ASSUME NEW n \in 1 .. MaxMessage, NEW bytes \in [0 .. n - 1 -> Byte \cup {Junk}]
  PROVE  bytes \in Content /\ bytes # Free
  BY ContentAssumption DEF Content

\* The owners of blocks, as the invariant counts them.
Elsewhere == (Queued \cup {task.item.buf}) \ {NoBlock}

\* A kept fragment: what holds of an outcome r of the decoder in a state that
\* satisfies the invariant.  Its buffer belongs to nobody else, has the length
\* of the message and is written up to r.frag.received by the active
\* connection; the buffers in the queue and in the data task are untouched.
Kept(r) ==
  /\ r.frag \in [buf: Blocks, total: 1 .. MaxMessage, received: 1 .. MaxMessage]
  /\ r.heap \in [Blocks -> Content \cup {Free}]
  /\ r.frag.received <= r.frag.total
  /\ r.frag.buf \notin Elsewhere
  /\ Live(r.heap) = Elsewhere \cup {r.frag.buf}
  /\ \A b \in Elsewhere : r.heap[b] = heap[b]
  /\ DOMAIN r.heap[r.frag.buf] = 0 .. r.frag.total - 1
  /\ \A i \in 0 .. r.frag.received - 1 :
       /\ r.heap[r.frag.buf][i] # Junk
       /\ Writer(r.heap[r.frag.buf][i]) = <<conn, session>>

\* What a header may say, and who wrote the fragment.
Header == [total: Nat, offset: Nat, chunk: Nat, src: Sources]

\* An outcome r has the bytes of fragment g behind those of the reassembly
\* that g continues, if it does not begin one.
Extends(r, g) ==
  /\ r.frag.total = g.total /\ r.frag.received = g.offset + g.chunk /\ g.chunk > 0
  /\ g.offset # 0 => frag.buf # NoBlock /\ frag.received = g.offset
  /\ \A i \in 0 .. g.offset + g.chunk - 1 :
       r.heap[r.frag.buf][i] = IF i < g.offset THEN heap[frag.buf][i] ELSE g.data

\* Every fragment the decoder keeps is kept as Kept and Extends describe.
LEMMA DecodedKept ==
  ASSUME BufferInv, NEW c \in Handles, NEW f \in Header, Accepts(c),
         NEW r \in Decoded(frag, heap, Received(c, f))
  PROVE  Kept(r) /\ Extends(r, Received(c, f))
<1> DEFINE g == Received(c, f)
<1> USE MaxMessageAssumption DEF Header
<1>1. /\ g.total \in Nat /\ g.offset \in Nat /\ g.chunk \in Nat
      /\ g.data \in Byte
      /\ Writer(g.data) = <<conn, session>>
  BY DEF Received, Byte, BufferInv, TypeOK, Accepts, Writer
<1>2. /\ WellFormed(g)
      /\ g.total \in 1 .. MaxMessage
      /\ g.chunk > 0 /\ g.offset < g.total /\ g.chunk <= g.total - g.offset
  BY DEF Decoded, WellFormed
<1>3. g.data # Junk
  BY <1>1, ContentAssumption
<1>4. heap \in [Blocks -> Content \cup {Free}] /\ frag.buf \in Blocks \cup {NoBlock}
  BY DEF BufferInv, TypeOK
<1>5. Live(heap) = Elsewhere \cup ({frag.buf} \ {NoBlock}) /\ frag.buf \notin Elsewhere
  BY DEF BufferInv, SoleOwner, Elsewhere
<1>6. Elsewhere \subseteq Blocks
  BY <1>5 DEF Live
<1> HIDE DEF g
<1>7. CASE g.offset = 0
  <2> DEFINE released == Freed(heap, frag.buf)
             empty == [i \in 0 .. g.total - 1 |-> Junk]
  <2>1. PICK b \in Blocks \ Live(released) :
          r = Appended([buf |-> b, total |-> g.total, received |-> 0],
                       Malloc(released, b, g.total), g)
    BY <1>2, <1>7 DEF Decoded, Started, g
  <2>2. /\ released \in [Blocks -> Content \cup {Free}]
        /\ Live(released) = Live(heap) \ {frag.buf}
        /\ \A x \in Blocks : x # frag.buf => released[x] = heap[x]
    BY <1>4, FreedType
  <2>3. /\ Live(released) = Elsewhere
        /\ \A x \in Elsewhere : released[x] = heap[x]
    BY <1>5, <1>6, <2>2, BlocksAssumption
  <2> DEFINE allocated == Malloc(released, b, g.total)
  <2> HIDE DEF released
  <2>4. /\ r.frag = [buf |-> b, total |-> g.total, received |-> g.chunk]
        /\ r.heap = [allocated EXCEPT ![b] = Copied(allocated[b], g)]
    BY <2>1, <1>1, SMT DEF Appended
  <2>5. allocated = [released EXCEPT ![b] = empty]
    BY DEF Malloc
  <2>6. empty \in [0 .. g.total - 1 -> Byte \cup {Junk}]
    OBVIOUS
  <2> HIDE DEF empty, allocated
  <2>7. /\ Copied(empty, g) \in [0 .. g.total - 1 -> Byte \cup {Junk}]
        /\ \A i \in 0 .. g.total - 1 :
             Copied(empty, g)[i] =
               IF i \in g.offset .. g.offset + g.chunk - 1 THEN g.data ELSE empty[i]
    BY <1>1, <1>2, <2>6, CopiedType
  <2>8. Copied(empty, g) \in Content /\ Copied(empty, g) # Free
    BY <1>2, <2>7, ContentBytes
  <2>9. /\ empty \in Content
        /\ allocated \in [Blocks -> Content \cup {Free}]
        /\ allocated[b] = empty
        /\ \A x \in Blocks : x # b => allocated[x] = released[x]
    BY <1>2, <2>1, <2>2, <2>5, <2>6, ContentBytes
  <2>10. /\ r.heap \in [Blocks -> Content \cup {Free}]
         /\ r.heap[b] = Copied(empty, g)
         /\ \A x \in Blocks : x # b => r.heap[x] = released[x]
    BY <2>1, <2>4, <2>8, <2>9
  <2>11. Live(r.heap) = Elsewhere \cup {b} /\ b \in Blocks \ Elsewhere
    BY <2>1, <2>3, <2>8, <2>10 DEF Live
  <2>12. \A i \in 0 .. g.chunk - 1 :
           r.heap[b][i] # Junk /\ Writer(r.heap[b][i]) = <<conn, session>>
    <3> SUFFICES ASSUME NEW i \in 0 .. g.chunk - 1 PROVE Copied(empty, g)[i] = g.data
      BY <1>1, <1>3, <2>10
    <3>1. i \in 0 .. g.total - 1 /\ i \in g.offset .. g.offset + g.chunk - 1
      BY <1>1, <1>2, <1>7
    <3> QED
      BY <2>7, <3>1
  <2>13. DOMAIN r.heap[b] = 0 .. g.total - 1
    BY <2>7, <2>10
  <2>14. \A x \in Elsewhere : r.heap[x] = heap[x]
    BY <1>6, <2>3, <2>10, <2>11
  <2>15. /\ r.frag \in [buf: Blocks, total: 1 .. MaxMessage, received: 1 .. MaxMessage]
         /\ r.frag.received <= r.frag.total
    BY <1>1, <1>2, <1>7, <2>1, <2>4
  <2>16. r.frag.buf = b /\ r.frag.total = g.total /\ r.frag.received = g.chunk
    BY <2>4
  <2>17. Extends(r, g)
    <3>1. \A i \in 0 .. g.chunk - 1 :
            /\ i \in 0 .. g.total - 1 /\ i \in g.offset .. g.offset + g.chunk - 1
            /\ ~ (i < g.offset)
      BY <1>1, <1>2, <1>7
    <3>2. \A i \in 0 .. g.chunk - 1 : r.heap[b][i] = g.data
      BY <2>7, <2>10, <3>1
    <3>3. g.offset + g.chunk = g.chunk
      BY <1>1, <1>7
    <3>4. \A i \in 0 .. g.offset + g.chunk - 1 :
            r.heap[r.frag.buf][i] = IF i < g.offset THEN heap[frag.buf][i] ELSE g.data
      <4>1. ASSUME NEW i \in 0 .. g.chunk - 1
            PROVE  r.heap[r.frag.buf][i] = IF i < g.offset THEN heap[frag.buf][i] ELSE g.data
        <5>1. ~ (i < g.offset) /\ r.heap[b][i] = g.data
          BY <3>1, <3>2
        <5> QED
          BY Zenon, <2>16, <5>1
      <4>2. 0 .. g.offset + g.chunk - 1 = 0 .. g.chunk - 1
        BY <1>1, <3>3
      <4> QED
        BY Zenon, <4>1, <4>2
    <3> QED
      BY <1>2, <1>7, <2>16, <3>3, <3>4 DEF Extends
  <2>18. Kept(r)
    BY <2>10, <2>11, <2>12, <2>13, <2>14, <2>15, <2>16 DEF Kept
  <2> QED
    BY <2>17, <2>18 DEF g
<1>8. CASE g.offset # 0
  <2>1. /\ Continues(frag, g)
        /\ r = Appended(frag, heap, g)
    BY <1>2, <1>8 DEF Decoded, g
  <2> DEFINE b == frag.buf
             bytes == heap[b]
             n == frag.total
  <2>2. /\ b \in Blocks /\ n = g.total /\ frag.received = g.offset
        /\ frag.received \in 1 .. n - 1
        /\ DOMAIN bytes = 0 .. n - 1
        /\ \A i \in 0 .. frag.received - 1 : bytes[i] # Junk /\ Writer(bytes[i]) = <<conn, session>>
    BY <1>4, <2>1 DEF Continues, BufferInv, ReassemblyOfConnection
  <2>3. bytes \in Content
    BY <1>4, <1>5, <2>2, BlocksAssumption DEF Live
  <2>4. bytes \in [0 .. n - 1 -> Byte \cup {Junk}]
    BY <2>2, <2>3 DEF Content
  <2>5. frag = [buf |-> b, total |-> n, received |-> g.offset]
    BY <2>2 DEF BufferInv, TypeOK
  <2>6. /\ r.frag = [buf |-> b, total |-> n, received |-> g.offset + g.chunk]
        /\ r.heap = [heap EXCEPT ![b] = Copied(bytes, g)]
    BY <2>1, <2>2, <2>5 DEF Appended
  <2> HIDE DEF bytes, n, b
  <2>7. /\ Copied(bytes, g) \in [0 .. n - 1 -> Byte \cup {Junk}]
        /\ \A i \in 0 .. n - 1 :
             Copied(bytes, g)[i] =
               IF i \in g.offset .. g.offset + g.chunk - 1 THEN g.data ELSE bytes[i]
    BY <1>1, <1>2, <2>2, <2>4, CopiedType
  <2>8. Copied(bytes, g) \in Content /\ Copied(bytes, g) # Free
    BY <1>2, <2>2, <2>7, ContentBytes
  <2>9. /\ r.heap \in [Blocks -> Content \cup {Free}]
        /\ r.heap[b] = Copied(bytes, g)
        /\ \A x \in Blocks : x # b => r.heap[x] = heap[x]
    BY <1>4, <2>2, <2>6, <2>8
  <2>10. Live(r.heap) = Elsewhere \cup {b} /\ b \notin Elsewhere
    BY <1>5, <2>2, <2>8, <2>9, BlocksAssumption DEF Live, b
  <2>11. \A i \in 0 .. g.offset + g.chunk - 1 :
           r.heap[b][i] # Junk /\ Writer(r.heap[b][i]) = <<conn, session>>
    <3> SUFFICES ASSUME NEW i \in 0 .. g.offset + g.chunk - 1
                 PROVE  /\ Copied(bytes, g)[i] # Junk
                        /\ Writer(Copied(bytes, g)[i]) = <<conn, session>>
      BY <2>9
    <3>1. i \in 0 .. n - 1
      BY <1>1, <1>2, <2>2
    <3>2. CASE i < g.offset
      <4>1. i \in 0 .. frag.received - 1 /\ i \notin g.offset .. g.offset + g.chunk - 1
        BY <1>1, <2>2, <3>2
      <4> QED
        BY <2>2, <2>7, <3>1, <4>1
    <3>3. CASE i >= g.offset
      <4>1. i \in g.offset .. g.offset + g.chunk - 1
        BY <1>1, <3>3
      <4> QED
        BY <1>1, <1>3, <2>7, <3>1, <4>1
    <3> QED
      BY <1>1, <3>2, <3>3
  <2>12. DOMAIN r.heap[b] = 0 .. n - 1
    BY <2>7, <2>9
  <2>13. \A x \in Elsewhere : r.heap[x] = heap[x]
    BY <1>6, <2>9, <2>10
  <2>14. /\ r.frag \in [buf: Blocks, total: 1 .. MaxMessage, received: 1 .. MaxMessage]
         /\ r.frag.received <= r.frag.total
    BY <1>1, <1>2, <2>2, <2>6
  <2>15. r.frag.buf = b /\ r.frag.total = n /\ r.frag.received = g.offset + g.chunk
    BY <2>6
  <2>16. /\ DOMAIN r.heap[r.frag.buf] = 0 .. r.frag.total - 1
         /\ \A i \in 0 .. r.frag.received - 1 :
              /\ r.heap[r.frag.buf][i] # Junk
              /\ Writer(r.heap[r.frag.buf][i]) = <<conn, session>>
    BY <1>1, <2>2, <2>11, <2>12, <2>14, <2>15
  <2>17. Live(r.heap) = Elsewhere \cup {r.frag.buf} /\ r.frag.buf \notin Elsewhere
    BY <2>10, <2>15
  <2>18. Extends(r, g)
    <3>1. ASSUME NEW i \in 0 .. g.offset + g.chunk - 1
          PROVE  Copied(bytes, g)[i] = IF i < g.offset THEN bytes[i] ELSE g.data
      <4>1. /\ i \in 0 .. n - 1
            /\ i < g.offset => i \notin g.offset .. g.offset + g.chunk - 1
            /\ ~ (i < g.offset) => i \in g.offset .. g.offset + g.chunk - 1
        BY <1>1, <1>2, <2>2
      <4> QED
        BY <2>7, <4>1
    <3>2. /\ frag.buf # NoBlock /\ frag.received = g.offset /\ bytes = heap[frag.buf]
          /\ r.heap[r.frag.buf] = Copied(bytes, g)
      BY <2>2, <2>9, <2>15, BlocksAssumption DEF b, bytes
    <3> QED
      BY <1>2, <2>2, <2>15, <3>1, <3>2 DEF Extends
  <2>19. Kept(r)
    BY <2>9, <2>13, <2>14, <2>16, <2>17 DEF Kept
  <2> QED
    BY <2>18, <2>19 DEF g
<1> QED
  BY <1>7, <1>8 DEF g
-----------------------------------------------------------------------------
(* What each kind of step does to the buffers and their owners. *)

Buffers == TaskHolds /\ SoleOwner /\ ReassemblyOfConnection /\ QueuedWhole

\* What BufferInv says of the blocks somebody else than the reassembly owns.
LEMMA Others ==
  ASSUME BufferInv
  PROVE  /\ queue \in Seq(Item)
         /\ Elsewhere \subseteq Blocks
         /\ frag.buf \notin Elsewhere
         /\ Live(heap) = Elsewhere \cup ({frag.buf} \ {NoBlock})
         /\ \A i \in DOMAIN queue : queue[i] \in Item /\ queue[i].buf \in Elsewhere
         /\ task.pc # "wait" => task.item \in Item /\ task.item.buf \in Elsewhere
         /\ task.pc = "wait" => task.item.buf = NoBlock
         /\ NoBlock \notin Elsewhere
<1>1. queue \in Seq(Item) /\ \A i \in DOMAIN queue : queue[i] \in Item
  BY DEF BufferInv, TypeOK
<1>2. /\ task.pc # "wait" => task.item \in Item
      /\ task.pc = "wait" => task.item = NoItem
  BY DEF BufferInv, TypeOK, TaskHolds
<1>3. \A i \in DOMAIN queue : queue[i].buf \in Blocks
  BY <1>1 DEF Item
<1>4. Queued \subseteq Blocks
  BY <1>3 DEF Queued
<1>5. task.item.buf \in Blocks \cup {NoBlock} /\ (task.pc # "wait" => task.item.buf \in Blocks)
  BY <1>2 DEF Item, NoItem
<1>6. /\ Elsewhere \subseteq Blocks
      /\ \A i \in DOMAIN queue : queue[i].buf \in Elsewhere
      /\ task.pc # "wait" => task.item.buf \in Elsewhere
      /\ task.pc = "wait" => task.item.buf = NoBlock
  BY <1>2, <1>3, <1>4, <1>5, BlocksAssumption DEF Elsewhere, Queued, NoItem
<1>7. frag.buf \notin Elsewhere /\ Live(heap) = Elsewhere \cup ({frag.buf} \ {NoBlock})
  BY DEF BufferInv, SoleOwner, Elsewhere
<1> QED
  BY <1>1, <1>2, <1>6, <1>7 DEF Elsewhere

\* A message that is whole stays so while its block is left alone.
LEMMA StillWhole ==
  ASSUME NEW item, NEW h, NEW k, WholeMessage(h, item), k[item.buf] = h[item.buf]
  PROVE  WholeMessage(k, item)
  BY DEF WholeMessage, Writer

\* A step that changes neither a buffer nor an owner keeps the invariant.
LEMMA UntouchedBuffers ==
  ASSUME BufferInv, UNCHANGED <<frag, heap, queue, task, conn, session>>
  PROVE  Buffers'
  BY DEF BufferInv, Buffers, TaskHolds, SoleOwner, ReassemblyOfConnection, QueuedWhole,
         WholeMessage, Writer, Queued, Live

\* A step keeps it that leaves no reassembly behind and, of the buffers, those
\* of the queue and of the data task as they were.
LEMMA NoReassembly ==
  ASSUME BufferInv, UNCHANGED <<queue, task>>, frag' = NoFragment,
         heap' \in [Blocks -> Content \cup {Free}],
         Live(heap') = Elsewhere, \A b \in Elsewhere : heap'[b] = heap[b]
  PROVE  Buffers'
<1>1. TaskHolds'
  BY DEF BufferInv, TaskHolds
<1>2. frag'.buf = NoBlock
  BY DEF NoFragment
<1>3. SoleOwner'
  BY <1>2 DEF BufferInv, SoleOwner, Elsewhere, Queued
<1>4. ReassemblyOfConnection'
  BY <1>2 DEF ReassemblyOfConnection
<1>5. QueuedWhole'
  <2>1. \A i \in DOMAIN queue : WholeMessage(heap, queue[i]) /\ heap'[queue[i].buf] = heap[queue[i].buf]
    BY Others DEF BufferInv, QueuedWhole
  <2>2. task.pc # "wait" => WholeMessage(heap, task.item) /\ heap'[task.item.buf] = heap[task.item.buf]
    BY Others DEF BufferInv, QueuedWhole
  <2> QED
    BY <2>1, <2>2, StillWhole DEF QueuedWhole
<1> QED
  BY <1>1, <1>3, <1>4, <1>5 DEF Buffers

\* agcore_fragment_reset is such a step ...
LEMMA ReleasedBuffers ==
  ASSUME BufferInv, ReleaseFragment, UNCHANGED <<queue, task>>
  PROVE  Buffers' /\ heap' \in [Blocks -> Content \cup {Free}]
<1>1. frag.buf \in Blocks \cup {NoBlock} /\ heap \in [Blocks -> Content \cup {Free}]
  BY DEF BufferInv, TypeOK
<1>2. /\ heap' \in [Blocks -> Content \cup {Free}]
      /\ Live(heap') = Live(heap) \ {frag.buf}
      /\ \A x \in Blocks : x # frag.buf => heap'[x] = heap[x]
  BY <1>1, FreedType DEF ReleaseFragment
<1>3. Live(heap') = Elsewhere /\ \A b \in Elsewhere : heap'[b] = heap[b]
  BY <1>2, Others
<1> QED
  BY <1>2, <1>3, NoReassembly DEF ReleaseFragment

\* ... and so is freeing the buffer of a fragment that was just decoded.
LEMMA DroppedBuffers ==
  ASSUME BufferInv, NEW r, Kept(r), UNCHANGED <<queue, task>>,
         frag' = NoFragment, heap' = Freed(r.heap, r.frag.buf)
  PROVE  Buffers' /\ heap' \in [Blocks -> Content \cup {Free}]
<1>1. r.frag.buf \in Blocks /\ r.heap \in [Blocks -> Content \cup {Free}]
  BY DEF Kept
<1>2. /\ heap' \in [Blocks -> Content \cup {Free}]
      /\ Live(heap') = Live(r.heap) \ {r.frag.buf}
      /\ \A x \in Blocks : x # r.frag.buf => heap'[x] = r.heap[x]
  BY <1>1, FreedType
<1>3. Live(heap') = Elsewhere /\ \A b \in Elsewhere : heap'[b] = heap[b]
  BY <1>2, Others DEF Kept
<1> QED
  BY <1>2, <1>3, NoReassembly

\* AGCORE_FRAGMENT_MORE: the reassembly state keeps what the decoder kept.
LEMMA KeptBuffers ==
  ASSUME BufferInv, NEW r, Kept(r), r.frag.received # r.frag.total, conn # NoConn,
         UNCHANGED <<queue, task, conn, session>>,
         frag' = r.frag, heap' = r.heap
  PROVE  Buffers'
<1>1. /\ frag'.buf \in Blocks /\ frag'.buf \notin Elsewhere
      /\ Live(heap') = Elsewhere \cup {frag'.buf}
      /\ \A b \in Elsewhere : heap'[b] = heap[b]
  BY DEF Kept
<1>2. TaskHolds'
  BY DEF BufferInv, TaskHolds
<1>3. SoleOwner'
  <2>1. Queued' = Queued /\ task'.item = task.item
    BY DEF Queued
  <2>2. frag'.buf # NoBlock /\ NoBlock \notin Elsewhere
    BY <1>1, BlocksAssumption, Others
  <2>3. frag'.buf \notin Queued /\ frag'.buf # task.item.buf
    BY <1>1, <2>2 DEF Elsewhere
  <2> QED
    BY <1>1, <2>1, <2>2, <2>3 DEF BufferInv, SoleOwner, Elsewhere
<1>4. ReassemblyOfConnection'
  <2>1. frag'.received \in 1 .. frag'.total - 1
    BY MaxMessageAssumption DEF Kept
  <2> QED
    BY <2>1 DEF Kept, ReassemblyOfConnection, Writer
<1>5. QueuedWhole'
  <2>1. \A i \in DOMAIN queue : WholeMessage(heap, queue[i]) /\ heap'[queue[i].buf] = heap[queue[i].buf]
    BY <1>1, Others DEF BufferInv, QueuedWhole
  <2>2. task.pc # "wait" => WholeMessage(heap, task.item) /\ heap'[task.item.buf] = heap[task.item.buf]
    BY <1>1, Others DEF BufferInv, QueuedWhole
  <2> QED
    BY <2>1, <2>2, StillWhole DEF QueuedWhole
<1> QED
  BY <1>2, <1>3, <1>4, <1>5 DEF Buffers

\* A complete message passes from the reassembly state to the queue.
LEMMA EnqueuedBuffers ==
  ASSUME BufferInv, NEW r, Kept(r), r.frag.received = r.frag.total, UNCHANGED task,
         frag' = NoFragment, heap' = r.heap,
         queue' = Append(queue, [buf |-> r.frag.buf, len |-> r.frag.total])
  PROVE  Buffers' /\ queue' \in Seq(Item)
<1> DEFINE item == [buf |-> r.frag.buf, len |-> r.frag.total]
<1>1. item \in Item /\ queue \in Seq(Item)
  BY Others DEF Kept, Item
<1>2. /\ r.frag.buf \in Blocks /\ r.frag.buf \notin Elsewhere
      /\ Live(heap') = Elsewhere \cup {r.frag.buf}
      /\ \A b \in Elsewhere : heap'[b] = heap[b]
  BY DEF Kept
<1>3. /\ queue' \in Seq(Item)
      /\ DOMAIN queue' = 1 .. Len(queue) + 1
      /\ DOMAIN queue = 1 .. Len(queue)
      /\ Len(queue) \in Nat
      /\ \A i \in DOMAIN queue : queue'[i] = queue[i]
      /\ queue'[Len(queue) + 1] = item
  BY <1>1
<1> HIDE DEF item
<1>4. TaskHolds'
  BY DEF BufferInv, TaskHolds
<1>5. frag'.buf = NoBlock
  BY DEF NoFragment
<1>6. Queued' = Queued \cup {r.frag.buf}
  BY <1>3 DEF Queued, item
<1>7. r.frag.buf \notin Queued /\ r.frag.buf # task.item.buf /\ r.frag.buf # NoBlock
  BY <1>2, BlocksAssumption DEF Elsewhere
<1>8. SoleOwner'
  <2>1. Live(heap') = (Queued' \cup {frag'.buf, task'.item.buf}) \ {NoBlock}
    BY <1>2, <1>5, <1>6, <1>7 DEF Elsewhere
  <2>2. task'.item.buf \notin Queued'
    BY <1>6, <1>7 DEF BufferInv, SoleOwner
  <2>3. ASSUME NEW i \in DOMAIN queue', NEW j \in DOMAIN queue', queue'[i].buf = queue'[j].buf
        PROVE  i = j
    <3>1. \A k \in DOMAIN queue : queue'[k].buf \in Queued
      BY <1>3 DEF Queued
    <3>2. queue'[Len(queue) + 1].buf = r.frag.buf
      BY <1>3 DEF item
    <3>3. CASE i \in DOMAIN queue /\ j \in DOMAIN queue
      BY <1>3, <2>3, <3>3 DEF BufferInv, SoleOwner
    <3>4. CASE i \notin DOMAIN queue \/ j \notin DOMAIN queue
      <4>1. \A k \in DOMAIN queue' : k \in DOMAIN queue \/ k = Len(queue) + 1
        BY <1>3
      <4> QED
        BY <1>7, <2>3, <3>1, <3>2, <3>4, <4>1
    <3> QED
      BY <3>3, <3>4
  <2> QED
    BY <1>5, <2>1, <2>2, <2>3 DEF SoleOwner
<1>9. ReassemblyOfConnection'
  BY <1>5 DEF ReassemblyOfConnection
<1>10. QueuedWhole'
  <2>1. \A i \in DOMAIN queue : WholeMessage(heap, queue[i]) /\ heap'[queue[i].buf] = heap[queue[i].buf]
    BY <1>2, Others DEF BufferInv, QueuedWhole
  <2>2. task.pc # "wait" => WholeMessage(heap, task.item) /\ heap'[task.item.buf] = heap[task.item.buf]
    BY <1>2, Others DEF BufferInv, QueuedWhole
  <2>3. WholeMessage(heap', item)
    <3>1. /\ item.buf = r.frag.buf /\ item.len = r.frag.total
          /\ r.frag.total \in 1 .. MaxMessage
      BY DEF item, Kept
    <3>2. /\ DOMAIN heap'[r.frag.buf] = 0 .. r.frag.total - 1
          /\ \A i \in 0 .. r.frag.total - 1 :
               heap'[r.frag.buf][i] # Junk /\ Writer(heap'[r.frag.buf][i]) = <<conn, session>>
      BY DEF Kept
    <3>3. 0 \in 0 .. r.frag.total - 1
      BY <3>1, MaxMessageAssumption
    <3> QED
      BY <3>1, <3>2, <3>3 DEF WholeMessage
  <2>4. \A i \in DOMAIN queue : WholeMessage(heap', queue'[i])
    BY <1>3, <2>1, StillWhole
  <2>5. \A i \in DOMAIN queue' : i \in DOMAIN queue \/ i = Len(queue) + 1
    BY <1>3
  <2>6. \A i \in DOMAIN queue' : WholeMessage(heap', queue'[i])
    BY <1>3, <2>3, <2>4, <2>5
  <2> QED
    BY <2>2, <2>6, StillWhole DEF QueuedWhole
<1> QED
  BY <1>3, <1>4, <1>8, <1>9, <1>10 DEF Buffers

\* The data task moves on with the item it holds.
LEMMA TaskMoves ==
  ASSUME BufferInv, UNCHANGED <<frag, heap, queue, conn, session>>,
         task.pc # "wait", task'.pc # "wait", task'.item = task.item
  PROVE  Buffers'
<1>1. TaskHolds'
  <2>1. task.item # NoItem
    BY DEF BufferInv, TaskHolds
  <2> QED
    BY <2>1 DEF TaskHolds
<1>2. SoleOwner'
  BY DEF BufferInv, SoleOwner, Queued, Live
<1>3. ReassemblyOfConnection'
  BY DEF BufferInv, ReassemblyOfConnection, Writer
<1>4. QueuedWhole'
  BY DEF BufferInv, QueuedWhole, WholeMessage
<1> QED
  BY <1>1, <1>2, <1>3, <1>4 DEF Buffers

\* The head of the queue passes to the data task.
LEMMA ReceivedBuffers ==
  ASSUME BufferInv, TaskReceive
  PROVE  Buffers' /\ task'.item \in Item /\ queue' \in Seq(Item) /\ Len(queue') <= QueueLength
<1>1. /\ queue \in Seq(Item) /\ queue # <<>>
      /\ Len(queue) <= QueueLength
      /\ queue' = Tail(queue)
  BY DEF BufferInv, TypeOK, TaskReceive
<1>2. /\ Len(queue) \in Nat \ {0}
      /\ DOMAIN queue = 1 .. Len(queue)
      /\ queue' \in Seq(Item)
      /\ Len(queue') = Len(queue) - 1
      /\ DOMAIN queue' = 1 .. Len(queue) - 1
      /\ \A i \in DOMAIN queue' : queue'[i] = queue[i + 1] /\ i + 1 \in DOMAIN queue
  BY <1>1
<1>3. task'.pc = "decode" /\ task'.item = queue[1] /\ 1 \in DOMAIN queue
  BY <1>1, <1>2 DEF TaskReceive, BufferInv, TypeOK
<1>4. task.pc = "wait" /\ task.item.buf = NoBlock
  BY Others DEF TaskReceive
<1>5. queue[1] \in Item /\ queue[1] # NoItem
  <2>1. queue[1] \in Item /\ queue[1].buf \in Blocks
    BY <1>3, Others DEF Item
  <2>2. NoItem.buf = NoBlock
    BY DEF NoItem
  <2> QED
    BY <2>1, <2>2, BlocksAssumption
<1>6. TaskHolds'
  BY <1>3, <1>5 DEF TaskHolds
<1>7. \A i \in DOMAIN queue : i # 1 => (i - 1 \in DOMAIN queue' /\ queue'[i - 1] = queue[i])
  <2> SUFFICES ASSUME NEW i \in DOMAIN queue, i # 1
               PROVE  (i - 1 \in DOMAIN queue' /\ queue'[i - 1] = queue[i])
    OBVIOUS
  <2> DEFINE k == i - 1
  <2>1. k \in DOMAIN queue' /\ k + 1 = i
    BY <1>2
  <2> HIDE DEF k
  <2>2. queue'[k] = queue[i]
    BY <1>2, <2>1
  <2> QED
    BY <2>1, <2>2 DEF k
<1>8. Queued = Queued' \cup {queue[1].buf}
  BY <1>2, <1>3, <1>7 DEF Queued
<1>9. \A i, j \in DOMAIN queue : queue[i].buf = queue[j].buf => i = j
  BY DEF BufferInv, SoleOwner
<1>10. queue[1].buf \notin Queued'
  <2>1. \A i \in DOMAIN queue' : queue'[i] = queue[i + 1] /\ i + 1 \in DOMAIN queue /\ i + 1 # 1
    BY <1>2
  <2> QED
    BY <1>3, <1>9, <2>1 DEF Queued
<1>11. UNCHANGED <<frag, heap, conn, session>>
  BY DEF TaskReceive, gap
<1>12. SoleOwner'
  <2>1. \A i, j \in DOMAIN queue' : queue'[i].buf = queue'[j].buf => i = j
    <3>1. TAKE i, j \in DOMAIN queue'
    <3>2. HAVE queue'[i].buf = queue'[j].buf
    <3>3. i + 1 = j + 1
      BY <1>2, <1>9, <3>2
    <3> QED
      BY <1>2, <3>3
  <2>2. Live(heap) = (Queued \cup {frag.buf}) \ {NoBlock}
    BY <1>4 DEF BufferInv, SoleOwner
  <2>3. frag.buf # NoBlock => frag.buf \notin Queued
    BY DEF BufferInv, SoleOwner
  <2> QED
    BY <1>3, <1>8, <1>10, <1>11, <2>1, <2>2, <2>3 DEF SoleOwner
<1>13. ReassemblyOfConnection'
  BY <1>11 DEF BufferInv, ReassemblyOfConnection, Writer
<1>14. QueuedWhole'
  BY <1>2, <1>3, <1>11 DEF BufferInv, QueuedWhole
<1> QED
  <2>1. Len(queue') <= QueueLength
    BY <1>1, <1>2, QueueAssumption
  <2>2. task'.item \in Item
    BY <1>3, <1>5
  <2> QED
    BY <1>2, <1>6, <1>12, <1>13, <1>14, <2>1, <2>2 DEF Buffers

\* The data task frees the buffer it holds and waits for the next.
LEMMA TaskFreedBuffers ==
  ASSUME BufferInv, TaskFree
  PROVE  Buffers' /\ heap' \in [Blocks -> Content \cup {Free}]
<1>1. /\ task.pc = "free" /\ task'.pc = "wait" /\ task'.item = NoItem
      /\ heap' = Freed(heap, task.item.buf)
      /\ UNCHANGED <<frag, queue, conn, session>>
  BY DEF TaskFree, Waiting, gap
<1>2. task.item.buf \in Blocks /\ task.item.buf \in Elsewhere
  BY <1>1, Others
<1>3. /\ heap' \in [Blocks -> Content \cup {Free}]
      /\ Live(heap') = Live(heap) \ {task.item.buf}
      /\ \A x \in Blocks : x # task.item.buf => heap'[x] = heap[x]
  BY <1>1, <1>2, FreedType DEF BufferInv, TypeOK
<1>4. task'.item.buf = NoBlock
  BY <1>1 DEF NoItem
<1>5. NoBlock \notin Queued /\ Queued' = Queued
  <2>1. \A i \in DOMAIN queue : queue[i].buf # NoBlock
    BY Others
  <2> QED
    BY <1>1, <2>1 DEF Queued
<1>6. /\ task.item.buf \notin Queued
      /\ frag.buf # NoBlock => frag.buf # task.item.buf
  BY DEF BufferInv, SoleOwner
<1>7. SoleOwner'
  <2>1. Live(heap) = (Queued \cup {frag.buf, task.item.buf}) \ {NoBlock}
    BY DEF BufferInv, SoleOwner
  <2>2. Live(heap') = (Queued' \cup {frag'.buf, task'.item.buf}) \ {NoBlock}
    BY <1>1, <1>2, <1>3, <1>4, <1>5, <1>6, <2>1, BlocksAssumption
  <2> QED
    BY <1>1, <1>4, <1>5, <2>2 DEF BufferInv, SoleOwner
<1>8. TaskHolds'
  BY <1>1 DEF TaskHolds
<1>9. ReassemblyOfConnection'
  <2>1. frag.buf # NoBlock => heap'[frag.buf] = heap[frag.buf]
    BY <1>3, <1>6 DEF BufferInv, TypeOK
  <2> QED
    BY <1>1, <2>1 DEF BufferInv, ReassemblyOfConnection
<1>10. QueuedWhole'
  <2>1. \A i \in DOMAIN queue : WholeMessage(heap, queue[i]) /\ heap'[queue[i].buf] = heap[queue[i].buf]
    <3>1. \A i \in DOMAIN queue : queue[i].buf \in Blocks /\ queue[i].buf # task.item.buf
      BY <1>6, Others DEF Queued
    <3> QED
      BY <1>3, <3>1 DEF BufferInv, QueuedWhole
  <2> QED
    BY <1>1, <2>1, StillWhole DEF QueuedWhole
<1> QED
  BY <1>3, <1>7, <1>8, <1>9, <1>10 DEF Buffers
-----------------------------------------------------------------------------
(* The invariant: one lemma for the steps of each actor. *)

\* The decoder finds a known sn in a whole message, or rejects it.
LEMMA FrameSns ==
  ASSUME BufferInv, task.pc # "wait"
  PROVE  FrameIn(heap[task.item.buf]) \subseteq Sn \cup {Invalid}
<1> DEFINE bytes == heap[task.item.buf]
<1>1. WholeMessage(heap, task.item) /\ task.item \in Item
  BY Others DEF BufferInv, QueuedWhole
<1>2. 0 \in DOMAIN bytes
  BY <1>1, MaxMessageAssumption DEF WholeMessage, Item
<1> HIDE DEF bytes
<1>3. FrameIn(bytes) \subseteq Sn \cup {Invalid}
  <2>1. CASE \E m \in Sources : \A i \in DOMAIN bytes : bytes[i] # Junk /\ bytes[i].src = m
    <3>1. bytes[0].src \in Sources
      BY <1>2, <2>1
    <3> QED
      BY <2>1, <3>1 DEF FrameIn, Sn
  <2>2. CASE ~ \E m \in Sources : \A i \in DOMAIN bytes : bytes[i] # Junk /\ bytes[i].src = m
    BY <2>2 DEF FrameIn
  <2> QED
    BY <2>1, <2>2
<1> QED
  BY <1>3 DEF bytes

\* Nothing is allocated when the system starts.
LEMMA BufferInit ==
  Init => BufferInv
<1> SUFFICES ASSUME Init PROVE BufferInv
  OBVIOUS
<1> USE DEF Init, NoFragment, Waiting, NoItem
<1>1. TypeOK
  <2>1. queue \in Seq(Item) /\ Len(queue) <= QueueLength
    BY QueueAssumption
  <2>2. heap \in [Blocks -> Content \cup {Free}]
    OBVIOUS
  <2>3. 0 \in 0 .. MaxMessage /\ 0 \in 0 .. MaxSession /\ -1 \in -1 .. Timeout
        /\ -1 \in -1 .. HostLatency /\ 0 \in 0 .. ClockModulus - 1 /\ 0 \in 0 .. Timeout
    BY ClockAssumption, MaxMessageAssumption
  <2>4. task \in [pc: {"wait", "decode", "store", "route", "free"},
                  item: Item \cup {NoItem}, sn: Sn \cup {0}]
    OBVIOUS
  <2> QED
    BY <2>1, <2>2, <2>3, <2>4 DEF TypeOK, Off, NoEvent
<1>2. Queued = {} /\ Live(heap) = {}
  BY DEF Queued, Live
<1>3. SoleOwner
  BY <1>2 DEF SoleOwner
<1> QED
  BY <1>1, <1>3 DEF BufferInv, TaskHolds, ReassemblyOfConnection, QueuedWhole

\* agcore_ble_pipe_reset with whatever the handler that calls it does besides.
LEMMA ResetStep ==
  ASSUME BufferInv, PipeReset, UNCHANGED <<queue, task>>,
         ready' \in BOOLEAN, links' \subseteq Handles, conn' \in Handles \cup {NoConn},
         rxsn' \in Sn \cup {0}
  PROVE  BufferInv'
<1>1. Buffers' /\ heap' \in [Blocks -> Content \cup {Free}]
  BY ReleasedBuffers DEF PipeReset
<1>2. session' \in 0 .. MaxSession /\ timer' \in -1 .. Timeout
  BY ClockAssumption DEF PipeReset, BufferInv, TypeOK, Off
<1>3. frag' \in [buf: Blocks \cup {NoBlock}, total: 0 .. MaxMessage, received: 0 .. MaxMessage]
  BY MaxMessageAssumption DEF PipeReset, ReleaseFragment, NoFragment
<1>4. TypeOK'
  BY <1>1, <1>2, <1>3 DEF PipeReset, BufferInv, TypeOK
<1> QED
  BY <1>1, <1>4 DEF BufferInv, Buffers

\* GAP events and the stack's reset and sync callbacks.
LEMMA ConnectionsStep ==
  ASSUME BufferInv, Connections
  PROVE  BufferInv'
<1>1. CASE Sync
  <2>1. Buffers'
    BY <1>1, UntouchedBuffers DEF Sync
  <2>2. TypeOK'
    BY <1>1 DEF Sync, clock, BufferInv, TypeOK
  <2> QED
    BY <2>1, <2>2 DEF BufferInv, Buffers
<1>2. CASE StackReset
  BY <1>2, ResetStep DEF StackReset, BufferInv, TypeOK
<1>3. ASSUME NEW c \in Handles, Connect(c) PROVE BufferInv'
  BY <1>3, ResetStep DEF Connect, BufferInv, TypeOK
<1>4. ASSUME NEW c \in Handles, ConnectSecond(c) PROVE BufferInv'
  <2>1. Buffers'
    BY <1>4, UntouchedBuffers DEF ConnectSecond
  <2>2. TypeOK'
    BY <1>4 DEF ConnectSecond, clock, BufferInv, TypeOK
  <2> QED
    BY <2>1, <2>2 DEF BufferInv, Buffers
<1>5. ASSUME NEW c \in Handles, Disconnect(c) PROVE BufferInv'
  BY <1>5, ResetStep DEF Disconnect, BufferInv, TypeOK
<1>6. ASSUME NEW c \in Handles, DisconnectSecond(c) PROVE BufferInv'
  <2>1. Buffers'
    BY <1>6, UntouchedBuffers DEF DisconnectSecond
  <2>2. TypeOK'
    BY <1>6 DEF DisconnectSecond, clock, BufferInv, TypeOK
  <2> QED
    BY <2>1, <2>2 DEF BufferInv, Buffers
<1> QED
  BY <1>1, <1>2, <1>3, <1>4, <1>5, <1>6 DEF Connections

\* A fragment arrives.
LEMMA WritesStep ==
  ASSUME BufferInv, NEW c \in Handles, NEW f \in Header, GattWrite(c, f)
  PROVE  BufferInv'
<1> USE ClockAssumption, MaxMessageAssumption
<1>1. conn # NoConn
  BY HandlesAssumption DEF GattWrite, WriteFails, WriteMore, WriteMoreNoCallout, WriteComplete, Accepts
<1>2. NoFragment \in [buf: Blocks \cup {NoBlock}, total: 0 .. MaxMessage, received: 0 .. MaxMessage]
  BY DEF NoFragment
<1>3. Off \in -1 .. Timeout /\ Timeout \in -1 .. Timeout /\ 0 \in 0 .. Timeout
  BY DEF Off
<1>4. CASE WriteFails(c, f)
  <2>1. Buffers' /\ heap' \in [Blocks -> Content \cup {Free}]
    BY <1>4, ReleasedBuffers DEF WriteFails
  <2>2. TypeOK'
    BY <1>2, <1>3, <1>4, <2>1 DEF WriteFails, ReleaseFragment, gap, BufferInv, TypeOK
  <2> QED
    BY <2>1, <2>2 DEF BufferInv, Buffers
<1>5. CASE WriteMore(c, f)
  <2>1. PICK r \in Decoded(frag, heap, Received(c, f)) :
          r.frag.received # r.frag.total /\ frag' = r.frag /\ heap' = r.heap
    BY <1>5 DEF WriteMore
  <2>2. Kept(r)
    BY <1>5, DecodedKept DEF WriteMore
  <2>3. Buffers'
    BY <1>1, <1>5, <2>1, <2>2, KeptBuffers DEF WriteMore, gap
  <2>4. /\ heap' \in [Blocks -> Content \cup {Free}]
        /\ frag' \in [buf: Blocks \cup {NoBlock}, total: 0 .. MaxMessage, received: 0 .. MaxMessage]
    BY <2>1, <2>2 DEF Kept
  <2>5. TypeOK'
    BY <1>3, <1>5, <2>4 DEF WriteMore, gap, BufferInv, TypeOK
  <2> QED
    BY <2>3, <2>5 DEF BufferInv, Buffers
<1>6. CASE WriteMoreNoCallout(c, f)
  <2>1. PICK r \in Decoded(frag, heap, Received(c, f)) :
          frag' = NoFragment /\ heap' = Freed(r.heap, r.frag.buf)
    BY <1>6 DEF WriteMoreNoCallout
  <2>2. Kept(r)
    BY <1>6, DecodedKept DEF WriteMoreNoCallout
  <2>3. Buffers' /\ heap' \in [Blocks -> Content \cup {Free}]
    BY <1>6, <2>1, <2>2, DroppedBuffers DEF WriteMoreNoCallout
  <2>4. TypeOK'
    BY <1>2, <1>6, <2>1, <2>3 DEF WriteMoreNoCallout, gap, BufferInv, TypeOK
  <2> QED
    BY <2>3, <2>4 DEF BufferInv, Buffers
<1>7. CASE WriteComplete(c, f)
  <2>1. PICK r \in Decoded(frag, heap, Received(c, f)) :
          /\ r.frag.received = r.frag.total
          /\ frag' = NoFragment
          /\ \/ /\ Len(queue) < QueueLength
                /\ queue' = Append(queue, [buf |-> r.frag.buf, len |-> r.frag.total])
                /\ heap' = r.heap
             \/ /\ queue' = queue
                /\ heap' = Freed(r.heap, r.frag.buf)
    BY <1>7 DEF WriteComplete
  <2>2. Kept(r)
    BY <1>7, DecodedKept DEF WriteComplete
  <2>3. UNCHANGED task
    BY <1>7 DEF WriteComplete
  <2>4. CASE heap' = r.heap /\ Len(queue) < QueueLength
               /\ queue' = Append(queue, [buf |-> r.frag.buf, len |-> r.frag.total])
    <3>1. Buffers' /\ queue' \in Seq(Item)
      BY <2>1, <2>2, <2>3, <2>4, EnqueuedBuffers
    <3>2. Len(queue') <= QueueLength
      BY <2>4, QueueAssumption DEF BufferInv, TypeOK
    <3>3. heap' \in [Blocks -> Content \cup {Free}]
      BY <2>2, <2>4 DEF Kept
    <3>4. TypeOK'
      BY <1>2, <1>3, <1>7, <2>1, <3>1, <3>2, <3>3 DEF WriteComplete, gap, BufferInv, TypeOK
    <3> QED
      BY <3>1, <3>4 DEF BufferInv, Buffers
  <2>5. CASE heap' = Freed(r.heap, r.frag.buf) /\ queue' = queue
    <3>1. Buffers' /\ heap' \in [Blocks -> Content \cup {Free}]
      BY <2>1, <2>2, <2>3, <2>5, DroppedBuffers
    <3>2. TypeOK'
      BY <1>2, <1>3, <1>7, <2>1, <2>5, <3>1 DEF WriteComplete, gap, BufferInv, TypeOK
    <3> QED
      BY <3>1, <3>2 DEF BufferInv, Buffers
  <2> QED
    BY <2>1, <2>4, <2>5
<1> QED
  BY <1>4, <1>5, <1>6, <1>7 DEF GattWrite

\* Time passes, the callout expires or its event is handled.
LEMMA TimersStep ==
  ASSUME BufferInv, Timers
  PROVE  BufferInv'
<1> USE ClockAssumption
<1>1. CASE Tick
  <2>1. Buffers'
    BY <1>1, UntouchedBuffers DEF Tick, gap
  <2>2. TypeOK'
    BY <1>1 DEF Tick, gap, BufferInv, TypeOK, Off, NoEvent
  <2> QED
    BY <2>1, <2>2 DEF BufferInv, Buffers
<1>2. CASE CalloutExpire
  <2>1. Buffers'
    BY <1>2, UntouchedBuffers DEF CalloutExpire, gap
  <2>2. TypeOK'
    BY <1>2 DEF CalloutExpire, gap, BufferInv, TypeOK, Off, NoEvent
  <2> QED
    BY <2>1, <2>2 DEF BufferInv, Buffers
<1>3. CASE TimeoutNothing
  <2>1. Buffers'
    BY <1>3, UntouchedBuffers DEF TimeoutNothing, gap
  <2>2. TypeOK'
    BY <1>3 DEF TimeoutNothing, gap, BufferInv, TypeOK, NoEvent
  <2> QED
    BY <2>1, <2>2 DEF BufferInv, Buffers
<1>4. CASE TimeoutRearm
  <2>1. Buffers'
    BY <1>4, UntouchedBuffers DEF TimeoutRearm, gap
  <2>2. Timeout - Elapsed \in -1 .. Timeout
    BY <1>4 DEF TimeoutRearm, Elapsed, BufferInv, TypeOK
  <2>3. TypeOK'
    BY <1>4, <2>2 DEF TimeoutRearm, gap, BufferInv, TypeOK, NoEvent
  <2> QED
    BY <2>1, <2>3 DEF BufferInv, Buffers
<1>5. CASE TimeoutRelease
  <2>1. Buffers' /\ heap' \in [Blocks -> Content \cup {Free}]
    BY <1>5, ReleasedBuffers DEF TimeoutRelease
  <2>2. frag' \in [buf: Blocks \cup {NoBlock}, total: 0 .. MaxMessage, received: 0 .. MaxMessage]
    BY <1>5, MaxMessageAssumption DEF TimeoutRelease, ReleaseFragment, NoFragment
  <2>3. TypeOK'
    BY <1>5, <2>1, <2>2 DEF TimeoutRelease, gap, BufferInv, TypeOK, NoEvent
  <2> QED
    BY <2>1, <2>3 DEF BufferInv, Buffers
<1> QED
  BY <1>1, <1>2, <1>3, <1>4, <1>5 DEF Timers, FragmentTimeout

\* The data task takes a step.
LEMMA DataTaskStep ==
  ASSUME BufferInv, DataTask
  PROVE  BufferInv'
<1> DEFINE Tasks == [pc: {"wait", "decode", "store", "route", "free"},
                     item: Item \cup {NoItem}, sn: Sn \cup {0}]
<1>1. task \in Tasks
  BY DEF BufferInv, TypeOK
<1>2. CASE TaskReceive
  <2>1. Buffers' /\ task'.item \in Item /\ queue' \in Seq(Item) /\ Len(queue') <= QueueLength
    BY <1>2, ReceivedBuffers
  <2>2. task' \in Tasks
    BY <1>1, <1>2, <2>1 DEF TaskReceive
  <2>3. TypeOK'
    BY <1>2, <2>1, <2>2 DEF TaskReceive, gap, clock, BufferInv, TypeOK
  <2> QED
    BY <2>1, <2>3 DEF BufferInv, Buffers
<1>3. CASE TaskDrop \/ TaskAccept \/ TaskRoute
  <2>1. /\ task.pc # "wait" /\ task'.pc # "wait" /\ task'.item = task.item
        /\ task' \in Tasks
    BY <1>1, <1>3 DEF TaskDrop, TaskAccept, TaskRoute
  <2>2. UNCHANGED <<gap, frag, heap, clock, queue, rxsn>>
    BY <1>3 DEF TaskDrop, TaskAccept, TaskRoute
  <2>3. Buffers'
    BY <2>1, <2>2, TaskMoves DEF gap
  <2>4. TypeOK'
    BY <2>1, <2>2 DEF gap, clock, BufferInv, TypeOK
  <2> QED
    BY <2>3, <2>4 DEF BufferInv, Buffers
<1>4. CASE TaskCompare
  <2>1. PICK sn \in FrameIn(heap[task.item.buf]) \ {0, Invalid} :
          task' = [task EXCEPT !.pc = "store", !.sn = sn]
    BY <1>4 DEF TaskCompare
  <2>2. sn \in Sn
    BY <1>4, <2>1, FrameSns DEF TaskCompare
  <2>3. /\ task.pc # "wait" /\ task'.pc # "wait" /\ task'.item = task.item
        /\ task' \in Tasks
    BY <1>1, <1>4, <2>1, <2>2 DEF TaskCompare
  <2>4. UNCHANGED <<gap, frag, heap, clock, queue, rxsn>>
    BY <1>4 DEF TaskCompare
  <2>5. Buffers'
    BY <2>3, <2>4, TaskMoves DEF gap
  <2>6. TypeOK'
    BY <2>3, <2>4 DEF gap, clock, BufferInv, TypeOK
  <2> QED
    BY <2>5, <2>6 DEF BufferInv, Buffers
<1>5. CASE TaskStore
  <2>1. /\ task.pc # "wait" /\ task'.pc # "wait" /\ task'.item = task.item
        /\ task' \in Tasks /\ rxsn' \in Sn \cup {0}
    BY <1>1, <1>5 DEF TaskStore
  <2>2. UNCHANGED <<gap, frag, heap, clock, queue>>
    BY <1>5 DEF TaskStore
  <2>3. Buffers'
    BY <2>1, <2>2, TaskMoves DEF gap
  <2>4. TypeOK'
    BY <2>1, <2>2 DEF gap, clock, BufferInv, TypeOK
  <2> QED
    BY <2>3, <2>4 DEF BufferInv, Buffers
<1>6. CASE TaskFree
  <2>1. Buffers' /\ heap' \in [Blocks -> Content \cup {Free}]
    BY <1>6, TaskFreedBuffers
  <2>2. task' \in Tasks
    BY <1>6 DEF TaskFree, Waiting
  <2>3. TypeOK'
    BY <1>6, <2>1, <2>2 DEF TaskFree, gap, clock, BufferInv, TypeOK
  <2> QED
    BY <2>1, <2>3 DEF BufferInv, Buffers
<1> QED
  BY <1>2, <1>3, <1>4, <1>5, <1>6 DEF DataTask, Bookkeeping

\* Every step keeps the invariant ...
LEMMA BufferStep ==
  BufferInv /\ [Next]_vars => BufferInv'
<1> SUFFICES ASSUME BufferInv, [Next]_vars PROVE BufferInv'
  OBVIOUS
<1>1. CASE Connections
  BY <1>1, ConnectionsStep
<1>2. CASE Timers
  BY <1>2, TimersStep
<1>3. CASE Writes
  BY <1>3, WritesStep, FragmentsAssumption DEF Writes, Header
<1>4. CASE DataTask
  BY <1>4, DataTaskStep
<1>5. CASE UNCHANGED vars
  <2>1. Buffers'
    BY <1>5, UntouchedBuffers DEF vars
  <2>2. TypeOK'
    BY <1>5 DEF vars, BufferInv, TypeOK
  <2> QED
    BY <2>1, <2>2 DEF BufferInv, Buffers
<1> QED
  BY <1>1, <1>2, <1>3, <1>4, <1>5 DEF Next

\* ... and so it holds in every reachable state.
LEMMA BufferInvariant ==
  Spec => []BufferInv
<1> QED
  BY BufferInit, BufferStep, PTL DEF Spec
-----------------------------------------------------------------------------
(* The timeout. *)

\* While a message is in reassembly, either the callout is armed and the ticks
\* since the last fragment and the ticks left add up to the timeout, or the
\* timeout has passed by no more than the queued event has waited: the clock
\* cannot have gone round since the fragment.
Window ==
  frag.buf # NoBlock =>
    \/ timer # Off /\ Elapsed + timer = Timeout /\ idle = Elapsed
    \/ /\ timer = Off /\ event # NoEvent /\ idle = Timeout
       /\ Timeout <= Elapsed /\ Elapsed <= Timeout + event

\* The difference of two readings of the clock is a reading.
LEMMA ElapsedRange ==
  ASSUME TypeOK
  PROVE  Elapsed \in 0 .. ClockModulus - 1
  BY ClockAssumption DEF TypeOK, Elapsed

\* Every step keeps the window: only a fragment restarts it.
LEMMA WindowStep ==
  ASSUME TypeOK, Window, [Next]_vars
  PROVE  Window'
<1> USE ClockAssumption
<1>1. /\ timer \in -1 .. Timeout /\ event \in -1 .. HostLatency /\ idle \in 0 .. Timeout
      /\ now \in 0 .. ClockModulus - 1 /\ lastTick \in 0 .. ClockModulus - 1
      /\ Elapsed \in 0 .. ClockModulus - 1
  BY ElapsedRange DEF TypeOK
<1>2. ASSUME frag' = NoFragment PROVE Window'
  BY <1>2 DEF NoFragment, Window
<1>3. ASSUME UNCHANGED <<frag, timer, event, idle, now, lastTick>> PROVE Window'
  BY <1>3 DEF Window, Elapsed
<1>4. CASE Connections
  <2>1. CASE Sync \/ \E c \in Handles : ConnectSecond(c) \/ DisconnectSecond(c)
    BY <1>3, <2>1 DEF Sync, ConnectSecond, DisconnectSecond, clock
  <2>2. CASE StackReset \/ \E c \in Handles : Connect(c) \/ Disconnect(c)
    BY <1>2, <2>2 DEF StackReset, Connect, Disconnect, PipeReset, ReleaseFragment
  <2> QED
    BY <1>4, <2>1, <2>2 DEF Connections
<1>5. CASE Writes
  <2>1. PICK c \in Handles, f \in Fragments : GattWrite(c, f)
    BY <1>5 DEF Writes
  <2>2. CASE WriteFails(c, f) \/ WriteMoreNoCallout(c, f) \/ WriteComplete(c, f)
    BY <1>2, <2>2 DEF WriteFails, WriteMoreNoCallout, WriteComplete, ReleaseFragment
  <2>3. CASE WriteMore(c, f)
    <3>1. timer' = Timeout /\ lastTick' = now /\ now' = now /\ idle' = 0
      BY <2>3 DEF WriteMore
    <3>2. Elapsed' = 0
      BY <1>1, <3>1 DEF Elapsed
    <3> QED
      BY <3>1, <3>2 DEF Window, Off
  <2> QED
    BY <2>1, <2>2, <2>3 DEF GattWrite
<1>6. CASE Tick
  <2>1. /\ frag' = frag /\ lastTick' = lastTick
        /\ timer # 0 /\ event # HostLatency
        /\ timer' = IF timer = Off THEN Off ELSE timer - 1
        /\ event' = IF event = NoEvent THEN NoEvent ELSE event + 1
        /\ idle' = IF idle < Timeout THEN idle + 1 ELSE idle
    BY <1>6 DEF Tick
  <2>2. Elapsed' = IF Elapsed = ClockModulus - 1 THEN 0 ELSE Elapsed + 1
    BY <1>1, <1>6 DEF Tick, Elapsed
  <2> SUFFICES ASSUME frag.buf # NoBlock
               PROVE  \/ timer' # Off /\ Elapsed' + timer' = Timeout /\ idle' = Elapsed'
                      \/ /\ timer' = Off /\ event' # NoEvent /\ idle' = Timeout
                         /\ Timeout <= Elapsed' /\ Elapsed' <= Timeout + event'
    BY <2>1 DEF Window
  <2>3. CASE timer # Off /\ Elapsed + timer = Timeout /\ idle = Elapsed
    BY <1>1, <2>1, <2>2, <2>3 DEF Off
  <2>4. CASE /\ timer = Off /\ event # NoEvent /\ idle = Timeout
             /\ Timeout <= Elapsed /\ Elapsed <= Timeout + event
    BY <1>1, <2>1, <2>2, <2>4 DEF Off, NoEvent
  <2> QED
    BY <2>3, <2>4 DEF Window
<1>7. CASE CalloutExpire
  <2>1. /\ UNCHANGED <<frag, idle, now, lastTick>> /\ timer = 0 /\ timer' = Off
        /\ event' = IF event = NoEvent THEN 0 ELSE event
    BY <1>7 DEF CalloutExpire
  <2>2. Elapsed' = Elapsed
    BY <2>1 DEF Elapsed
  <2> QED
    BY <1>1, <2>1, <2>2 DEF Window, Off, NoEvent
<1>8. CASE TimeoutNothing
  BY <1>8 DEF TimeoutNothing, Window
<1>9. CASE TimeoutRearm
  <2>1. /\ UNCHANGED <<frag, idle, now, lastTick>> /\ Elapsed < Timeout
        /\ frag.buf # NoBlock /\ timer' = Timeout - Elapsed
    BY <1>9 DEF TimeoutRearm
  <2>2. Elapsed' = Elapsed
    BY <2>1 DEF Elapsed
  <2> QED
    BY <1>1, <2>1, <2>2 DEF Window, Off
<1>10. CASE TimeoutRelease
  BY <1>2, <1>10 DEF TimeoutRelease, ReleaseFragment
<1>11. CASE DataTask
  BY <1>3, <1>11 DEF DataTask, Bookkeeping, TaskReceive, TaskDrop, TaskAccept, TaskCompare,
                     TaskStore, TaskRoute, TaskFree, clock
<1>12. CASE UNCHANGED vars
  BY <1>3, <1>12 DEF vars
<1> QED
  BY <1>4, <1>5, <1>6, <1>7, <1>8, <1>9, <1>10, <1>11, <1>12 DEF Next, Timers, FragmentTimeout

\* The types and the window hold in every reachable state.
LEMMA WindowInvariant ==
  Spec => [](TypeOK /\ Window)
<1>1. Init => Window
  BY DEF Init, NoFragment, Window
<1>2. BufferInv => TypeOK
  BY DEF BufferInv
<1>3. TypeOK /\ Window /\ [Next]_vars => Window'
  BY WindowStep
<1> QED
  BY <1>1, <1>2, <1>3, BufferInvariant, PTL DEF Spec
-----------------------------------------------------------------------------
(* Theorems *)

\* The variables have their types in every reachable state.
THEOREM TypeCorrect ==
  Spec => []TypeOK
<1>1. BufferInv => TypeOK
  BY DEF BufferInv
<1> QED
  BY <1>1, BufferInvariant, PTL

\* Every buffer the receive path allocates has exactly one owner until it is
\* freed, whatever the peer writes and whatever fails.
THEOREM BuffersOwned ==
  Spec => []SoleOwner
<1>1. BufferInv => SoleOwner
  BY DEF BufferInv
<1> QED
  BY <1>1, BufferInvariant, PTL

\* A message in reassembly never mixes connections or sessions.
THEOREM ReassemblySeparate ==
  Spec => []ReassemblyOfConnection
<1>1. BufferInv => ReassemblyOfConnection
  BY DEF BufferInv
<1> QED
  BY <1>1, BufferInvariant, PTL

\* Only complete messages of one connection reach the queue and the decoder.
THEOREM OnlyWholeMessages ==
  Spec => []QueuedWhole
<1>1. BufferInv => QueuedWhole
  BY DEF BufferInv
<1> QED
  BY <1>1, BufferInvariant, PTL

\* A message in reassembly always has its timeout armed or waiting for the
\* host, for exactly what is left of it.
THEOREM TimeoutArmed ==
  Spec => []TimeoutGuards
<1>1. TypeOK /\ Window => TimeoutGuards
  BY ClockAssumption DEF Window, TimeoutGuards, TypeOK
<1> QED
  BY <1>1, WindowInvariant, PTL

\* fragment_timeout_cb discards a message only when its last fragment is as old
\* as the timeout, wherever the clock wraps around.
THEOREM TimeoutNotEarly ==
  Spec => NoEarlyRelease
<1> DEFINE Early == /\ event # NoEvent /\ event' = NoEvent
                    /\ frag.buf # NoBlock /\ frag'.buf = NoBlock
<1>1. ASSUME TypeOK, Window, Next, Early PROVE idle = Timeout \/ RearmMayFail
  <2>1. CASE TimeoutRelease
    <3>1. Elapsed >= Timeout \/ RearmMayFail
      BY <2>1 DEF TimeoutRelease
    <3>2. timer \in -1 .. Timeout /\ Elapsed \in 0 .. ClockModulus - 1
      BY <1>1, ElapsedRange DEF TypeOK
    <3> QED
      BY <1>1, <3>1, <3>2, ClockAssumption DEF Window, Off
  <2>2. CASE UNCHANGED frag
    BY <1>1, <2>2
  <2>3. CASE UNCHANGED event
    BY <1>1, <2>3
  <2>4. TimeoutRelease \/ UNCHANGED frag \/ UNCHANGED event
    <3>1. Connections => UNCHANGED event
      BY DEF Connections, Sync, StackReset, Connect, ConnectSecond, Disconnect,
             DisconnectSecond, PipeReset, clock
    <3>2. Writes => UNCHANGED event
      BY DEF Writes, GattWrite, WriteFails, WriteMore, WriteMoreNoCallout, WriteComplete
    <3>3. Timers => TimeoutRelease \/ UNCHANGED frag
      BY DEF Timers, FragmentTimeout, Tick, CalloutExpire, TimeoutNothing, TimeoutRearm
    <3>4. DataTask => UNCHANGED frag
      BY DEF DataTask, Bookkeeping, TaskReceive, TaskDrop, TaskAccept, TaskCompare,
             TaskStore, TaskRoute, TaskFree
    <3> QED
      BY <1>1, <3>1, <3>2, <3>3, <3>4 DEF Next
  <2> QED
    BY <2>1, <2>2, <2>3, <2>4
<1>2. TypeOK /\ Window /\ [Next]_vars => [Early => idle = Timeout \/ RearmMayFail]_vars
  BY <1>1
<1> QED
  BY <1>2, WindowInvariant, PTL DEF Spec, NoEarlyRelease
=============================================================================
