------------------------------ MODULE Fragment ------------------------------
(***************************************************************************)
(* Reassembly of a message from fragments, pipe/data/protocol/             *)
(* agcore_data_protocol.c: agcore_fragment_reset and                       *)
(* agcore_fragment_decode, as operators on a reassembly state s            *)
(* (agcore_fragment_state_t) and on the heap h that holds its buffer.      *)
(*                                                                         *)
(* A heap maps a block either to Free or to its bytes, a function on       *)
(* 0 .. size-1.  malloc leaves Junk in a block; memcpy writes into it.     *)
(* A fragment f is the decoded header and the data behind it: f.total,     *)
(* f.offset, f.chunk (bytes behind the header; 0 stands for every write    *)
(* that is empty or not longer than the header) and f.data, the value of   *)
(* each of its bytes.                                                      *)
(***************************************************************************)
EXTENDS Integers

CONSTANTS
  Blocks,      \* the blocks agcore_malloc can hand out
  NoBlock,     \* the NULL pointer
  Free,        \* content of a block that is not allocated
  Junk,        \* content of a byte that was allocated and not written yet
  MaxMessage   \* CONFIG_AGCORE_BLE_MESSAGE_MAX_LEN, in bytes of the model

ASSUME BlocksAssumption == NoBlock \notin Blocks
ASSUME MaxMessageAssumption == MaxMessage \in Nat \ {0}

Live(h) == {b \in Blocks : h[b] # Free}

Malloc(h, b, size) == [h EXCEPT ![b] = [i \in 0 .. size - 1 |-> Junk]]

\* agcore_free: freeing NULL does nothing.
Freed(h, b) == IF b = NoBlock THEN h ELSE [h EXCEPT ![b] = Free]

\* What memset leaves in agcore_fragment_reset.
NoFragment == [buf |-> NoBlock, total |-> 0, received |-> 0]

\* Mutant of WellFormed: a fragment may reach behind the end of its message.
WellFormedNoRoom(f) == f.chunk > 0 /\ f.total \in 1 .. MaxMessage /\ f.offset < f.total

\* The checks on one fragment alone, before the reassembly state is looked at.
WellFormed(f) ==
  /\ f.chunk > 0
  /\ f.total \in 1 .. MaxMessage
  /\ f.offset < f.total
  /\ f.chunk <= f.total - f.offset

\* Mutant of Continues: a fragment is appended wherever it starts.
ContinuesAnywhere(s, f) == s.buf # NoBlock /\ s.total = f.total

\* The fragment is the next one of the message being reassembled.
Continues(s, f) ==
  /\ s.buf # NoBlock
  /\ s.total = f.total
  /\ s.received = f.offset

\* memcpy of the fragment's data to its offset in the buffer.
Copied(bytes, f) ==
  [i \in DOMAIN bytes |->
     IF i \in f.offset .. f.offset + f.chunk - 1 THEN f.data ELSE bytes[i]]

Appended(s, h, f) ==
  [frag |-> [s EXCEPT !.received = @ + f.chunk],
   heap |-> [h EXCEPT ![s.buf] = Copied(@, f)]]

\* A fragment at offset 0 discards the message being reassembled and starts
\* one in a block that is free once the old buffer is.
Started(s, h, f) ==
  LET released == Freed(h, s.buf)
  IN  {Appended([buf |-> b, total |-> f.total, received |-> 0],
                Malloc(released, b, f.total), f)
         : b \in Blocks \ Live(released)}

\* The outcomes of agcore_fragment_decode that keep the fragment (MORE or
\* COMPLETE).  None: the decode ends in ERROR or NO_MEMORY and resets.
Decoded(s, h, f) ==
  IF ~WellFormed(f) THEN {}
  ELSE IF f.offset = 0 THEN Started(s, h, f)
  ELSE IF Continues(s, f) THEN {Appended(s, h, f)}
  ELSE {}

\* When the decode may end in a reset: always for a first fragment, since
\* malloc may fail, and for any fragment that does not fit.
DecodeMayFail(s, f) ==
  ~WellFormed(f) \/ f.offset = 0 \/ ~Continues(s, f)
=============================================================================
