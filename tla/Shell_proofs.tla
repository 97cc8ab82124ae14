---------------------------- MODULE Shell_proofs ----------------------------
(***************************************************************************)
(* Proofs about Shell, for any commands, any sessions, any size of the     *)
(* history and of the console.                                             *)
(***************************************************************************)
EXTENDS Shell, SequenceTheorems, FiniteSetTheorems, TLAPS

(* What a handler may write. *)

\* A line that fits a buffer of this size.
Editable(text, size) == IsSequence(text) /\ Len(text) < size

\* A write, a flag, or a line that fits with the cursor in it.
Step(w, size) ==
  \/ w \in {Text, Prompt, Back, Erase, Lost}
  \/ \E value \in BOOLEAN : w = Active(value)
  \/ \E text : IsSequence(text) /\ w = Put(text)
  \/ \E text : Editable(text, size) /\ \E at \in 0 .. Len(text) : w = Edit(text, at)

\* What is left of a handler.
Program(steps, size) == IsSequence(steps) /\ \A n \in 1 .. Len(steps) : Step(steps[n], size)
-----------------------------------------------------------------------------
(* Sequences. *)

\* Concatenation.
Join(s, t) == s \o t

\* A sequence over any set.
LEMMA SequenceOver ==
  ASSUME NEW S, NEW s \in Seq(S)
  PROVE  IsSequence(s)
<1>1. DOMAIN s = 1 .. Len(s) /\ Len(s) \in Nat
  OBVIOUS
<1>2. s \in [1 .. Len(s) -> ToSet(s)]
  BY <1>1 DEF ToSet
<1> QED
  BY <1>1, <1>2 DEF IsSequence

\* Two sequences, one after the other.
LEMMA SequencesJoined ==
  ASSUME NEW s, NEW t, IsSequence(s), IsSequence(t)
  PROVE  /\ IsSequence(Join(s, t)) /\ Len(Join(s, t)) = Len(s) + Len(t)
         /\ \A i \in 1 .. Len(s) : Join(s, t)[i] = s[i]
         /\ \A i \in 1 .. Len(t) : Join(s, t)[Len(s) + i] = t[i]
         /\ \A i \in 1 .. Len(s) + Len(t) : i > Len(s) => Join(s, t)[i] = t[i - Len(s)]
         /\ Len(s) \in Nat /\ Len(t) \in Nat
<1>1. PICK S : S = ToSet(s) \cup ToSet(t)
  OBVIOUS
<1>2. s \in Seq(ToSet(s)) /\ t \in Seq(ToSet(t))
  BY DEF IsSequence
<1>3. s \in Seq(S) /\ t \in Seq(S)
  BY <1>1, <1>2, SeqMonotonic
<1>4. /\ s \o t \in Seq(S) /\ Len(s \o t) = Len(s) + Len(t)
      /\ \A i \in 1 .. Len(s) + Len(t) : (s \o t)[i] = IF i <= Len(s) THEN s[i] ELSE t[i - Len(s)]
  BY <1>3, ConcatProperties
<1>5. PICK j : j = s \o t
  OBVIOUS
<1>6. /\ j \in Seq(S) /\ Len(j) = Len(s) + Len(t)
      /\ \A i \in 1 .. Len(s) + Len(t) : j[i] = IF i <= Len(s) THEN s[i] ELSE t[i - Len(s)]
  BY <1>4, <1>5
<1>7. Len(s) \in Nat /\ Len(t) \in Nat
  BY <1>3
<1>8. IsSequence(j)
  BY <1>6, SequenceOver
<1>9. \A i \in 1 .. Len(s) : j[i] = s[i]
  BY <1>6, <1>7
<1>10. \A i \in 1 .. Len(t) : j[Len(s) + i] = t[i]
  <2> TAKE i \in 1 .. Len(t)
  <2>1. Len(s) + i \in 1 .. Len(s) + Len(t) /\ ~ (Len(s) + i <= Len(s)) /\ Len(s) + i - Len(s) = i
    BY <1>7
  <2> QED
    BY <1>6, <2>1
<1>11. \A i \in 1 .. Len(s) + Len(t) : i > Len(s) => j[i] = t[i - Len(s)]
  BY <1>6, <1>7
<1>12. Join(s, t) = j
  BY <1>5 DEF Join
<1> QED
  BY <1>6, <1>7, <1>8, <1>9, <1>10, <1>11, <1>12

\* A part of a sequence.
LEMMA PartOf ==
  ASSUME NEW s, IsSequence(s), NEW m \in Nat \ {0}, NEW n \in Int, n <= Len(s)
  PROVE  /\ IsSequence(SubSeq(s, m, n))
         /\ Len(SubSeq(s, m, n)) = IF m <= n THEN n - m + 1 ELSE 0
         /\ \A i \in 1 .. n - m + 1 : SubSeq(s, m, n)[i] = s[m + i - 1]
         /\ Len(s) \in Nat
<1>1. s \in Seq(ToSet(s))
  BY DEF IsSequence
<1>2. \A i \in m .. n : s[i] \in ToSet(s)
  BY <1>1
<1>3. /\ SubSeq(s, m, n) \in Seq(ToSet(s))
      /\ Len(SubSeq(s, m, n)) = IF m <= n THEN n - m + 1 ELSE 0
      /\ \A i \in 1 .. n - m + 1 : SubSeq(s, m, n)[i] = s[m + i - 1]
  BY <1>2, SubSeqProperties
<1>4. IsSequence(SubSeq(s, m, n))
  BY <1>3, SequenceOver
<1>5. Len(s) \in Nat
  BY <1>1
<1> QED
  BY <1>3, <1>4, <1>5

\* The first elements.
LEMMA Beginning ==
  ASSUME NEW s, IsSequence(s), NEW n \in 0 .. Len(s)
  PROVE  IsSequence(SubSeq(s, 1, n)) /\ Len(SubSeq(s, 1, n)) = n
<1>1. Len(s) \in Nat
  BY DEF IsSequence
<1>2. 1 \in Nat \ {0} /\ n \in Int /\ n <= Len(s)
  BY <1>1
<1>3. IsSequence(SubSeq(s, 1, n)) /\ Len(SubSeq(s, 1, n)) = IF 1 <= n THEN n - 1 + 1 ELSE 0
  BY <1>2, PartOf
<1> QED
  BY <1>2, <1>3

\* The elements from the m-th on.
LEMMA Remainder ==
  ASSUME NEW s, IsSequence(s), NEW m \in 1 .. Len(s) + 1
  PROVE  IsSequence(SubSeq(s, m, Len(s))) /\ Len(SubSeq(s, m, Len(s))) = Len(s) - m + 1
<1>1. Len(s) \in Nat
  BY DEF IsSequence
<1>2. m \in Nat \ {0} /\ Len(s) \in Int /\ Len(s) <= Len(s)
  BY <1>1
<1>3. /\ IsSequence(SubSeq(s, m, Len(s)))
      /\ Len(SubSeq(s, m, Len(s))) = IF m <= Len(s) THEN Len(s) - m + 1 ELSE 0
  BY <1>2, PartOf
<1> QED
  BY <1>1, <1>2, <1>3

\* A sequence of one element.
LEMMA OneElement ==
  ASSUME NEW e
  PROVE  IsSequence(<<e>>) /\ Len(<<e>>) = 1 /\ <<e>>[1] = e
<1>1. <<e>> \in Seq({e})
  OBVIOUS
<1> QED
  BY <1>1, SequenceOver

\* The empty sequence.
LEMMA NoElement ==
  IsSequence(<<>>) /\ Len(<<>>) = 0
<1>1. <<>> \in Seq({})
  OBVIOUS
<1> QED
  BY <1>1, SequenceOver
-----------------------------------------------------------------------------
(* Programs. *)

\* A handler that does nothing.
LEMMA NothingToDo ==
  ASSUME NEW size
  PROVE  Program(<<>>, size)
  BY NoElement DEF Program

\* One that does one thing.
LEMMA OneStep ==
  ASSUME NEW size, NEW w, Step(w, size)
  PROVE  Program(<<w>>, size)
  BY OneElement DEF Program

\* One handler's steps and then another's.
LEMMA Then ==
  ASSUME NEW size, NEW p, NEW q, Program(p, size), Program(q, size)
  PROVE  Program(Join(p, q), size)
<1>1. IsSequence(p) /\ IsSequence(q)
  BY DEF Program
<1>2. PICK j : j = Join(p, q)
  OBVIOUS
<1>3. /\ IsSequence(j) /\ Len(j) = Len(p) + Len(q)
      /\ \A i \in 1 .. Len(p) : j[i] = p[i]
      /\ \A i \in 1 .. Len(p) + Len(q) : i > Len(p) => j[i] = q[i - Len(p)]
      /\ Len(p) \in Nat /\ Len(q) \in Nat
  BY <1>1, <1>2, SequencesJoined
<1>4. ASSUME NEW i \in 1 .. Len(j) PROVE Step(j[i], size)
  <2>1. CASE i <= Len(p)
    <3>1. i \in 1 .. Len(p)
      BY <1>3, <2>1
    <3> QED
      BY <1>3, <3>1 DEF Program
  <2>2. CASE i > Len(p)
    <3>1. i - Len(p) \in 1 .. Len(q) /\ i \in 1 .. Len(p) + Len(q)
      BY <1>3, <2>2
    <3> QED
      BY <1>3, <2>2, <3>1 DEF Program
  <2> QED
    BY <1>3, <2>1, <2>2
<1> QED
  BY <1>2, <1>3, <1>4 DEF Program

\* A step that is repeated.
LEMMA Repeated ==
  ASSUME NEW size, NEW w, Step(w, size), NEW n \in Int
  PROVE  Program(Repeat(w, n), size)
<1>1. PICK m \in Nat : 1 .. n = 1 .. m
  <2>1. CASE n >= 0
    BY <2>1
  <2>2. CASE n < 0
    <3>1. 1 .. n = 1 .. 0
      BY <2>2
    <3> QED
      BY <3>1
  <2> QED
    BY <2>1, <2>2
<1>2. Repeat(w, n) \in Seq({w}) /\ Len(Repeat(w, n)) = m
  <2>1. [i \in 1 .. m |-> w] \in Seq({w}) /\ Len([i \in 1 .. m |-> w]) = m
    OBVIOUS
  <2>2. Repeat(w, n) = [i \in 1 .. m |-> w]
    BY <1>1 DEF Repeat
  <2> QED
    BY <2>1, <2>2
<1>3. \A i \in 1 .. m : Repeat(w, n)[i] = w
  BY <1>1 DEF Repeat
<1> QED
  BY <1>2, <1>3, SequenceOver DEF Program

\* The characters of a text, each written alone.
LEMMA EachOne ==
  ASSUME NEW size, NEW text, IsSequence(text)
  PROVE  Program(Each(text), size)
<1>1. Len(text) \in Nat
  BY DEF IsSequence
<1>2. PICK S : S = {Put(<<text[i]>>) : i \in 1 .. Len(text)}
  OBVIOUS
<1>3. Each(text) \in Seq(S) /\ Len(Each(text)) = Len(text)
  BY <1>1, <1>2 DEF Each
<1>4. \A i \in 1 .. Len(text) : Each(text)[i] = Put(<<text[i]>>)
  BY <1>1 DEF Each
<1>5. \A i \in 1 .. Len(text) : Step(Put(<<text[i]>>), size)
  BY OneElement DEF Step
<1> QED
  BY <1>3, <1>4, <1>5, SequenceOver DEF Program
-----------------------------------------------------------------------------
(* The handlers' programs. *)

\* Steps that need no more than their form.
LEMMA Simple ==
  ASSUME NEW size
  PROVE  /\ Step(Text, size) /\ Step(Prompt, size) /\ Step(Back, size) /\ Step(Erase, size)
         /\ Step(Lost, size) /\ Step(Active(TRUE), size) /\ Step(Active(FALSE), size)
         /\ \A e : Step(Put(<<e>>), size)
<1>1. \A e : Step(Put(<<e>>), size)
  BY OneElement DEF Step
<1> QED
  BY <1>1 DEF Step

\* A text that is put, and a line that is set with the cursor in it.
LEMMA Edits ==
  ASSUME NEW size, NEW text, IsSequence(text)
  PROVE  /\ Step(Put(text), size)
         /\ Len(text) < size => \A at \in 0 .. Len(text) : Step(Edit(text, at), size)
  BY DEF Step, Editable

\* shellWritePrompt
LEMMA Prompting ==
  ASSUME NEW size
  PROVE  Program(WritePrompt(TRUE), size)
<1>1. WritePrompt(TRUE) = Join(<<Text>>, <<Prompt>>)
  BY DEF WritePrompt, Join
<1> QED
  <2>1. Program(<<Text>>, size) /\ Program(<<Prompt>>, size)
    BY Simple, OneStep
  <2> QED
    BY <1>1, <2>1, Then

\* shellClearCommandLine
LEMMA Clearing ==
  ASSUME NEW size, NEW l, IsSequence(l), NEW c \in Int
  PROVE  Program(ClearCommandLine(l, c), size)
<1>1. Len(l) \in Nat /\ Len(l) - c \in Int /\ Len(l) % 256 \in Int
  BY DEF IsSequence
<1>2. Program(Repeat(Put(<<" ">>), Len(l) - c), size)
  BY <1>1, Simple, Repeated
<1>3. Program(DeleteCommandLine(Len(l)), size)
  BY <1>1, Simple, Repeated DEF DeleteCommandLine
<1>4. ClearCommandLine(l, c) = Join(Repeat(Put(<<" ">>), Len(l) - c), DeleteCommandLine(Len(l)))
  BY DEF ClearCommandLine, Join
<1> QED
  BY <1>2, <1>3, <1>4, Then

\* A character that is refused leaves the line as it is.
LEMMA Refusing ==
  ASSUME NEW size, NEW l, IsSequence(l), NEW c
  PROVE  Program(TooLong(l, c), size)
<1> DEFINE end == IF c < Len(l) THEN <<Lost>> ELSE <<>>
<1>1. Program(<<Text>>, size) /\ Program(WritePrompt(TRUE), size) /\ Program(<<Put(l)>>, size)
  BY Simple, Edits, OneStep, Prompting
<1>2. Program(end, size)
  BY Simple, OneStep, NothingToDo
<1>3. TooLong(l, c) = Join(Join(Join(<<Text>>, WritePrompt(TRUE)), <<Put(l)>>), end)
  BY DEF TooLong, Join
<1> QED
  BY <1>1, <1>2, <1>3, Then

\* InsertAt in terms of Join.
LEMMA InsertedAs ==
  ASSUME NEW l, NEW i, NEW data
  PROVE  InsertAt(l, i, data) = Join(Join(SubSeq(l, 1, i - 1), <<data>>), SubSeq(l, i, Len(l)))
  BY DEF InsertAt, Join

\* A character goes into a line.
LEMMA Inserted ==
  ASSUME NEW l, IsSequence(l), NEW c \in 0 .. Len(l), NEW data
  PROVE  IsSequence(InsertAt(l, c + 1, data)) /\ Len(InsertAt(l, c + 1, data)) = Len(l) + 1
<1>1. Len(l) \in Nat
  BY DEF IsSequence
<1>2. PICK a : a = SubSeq(l, 1, c) /\ IsSequence(a) /\ Len(a) = c
  BY Beginning
<1>3. PICK b : b = SubSeq(l, c + 1, Len(l)) /\ IsSequence(b) /\ Len(b) = Len(l) - c
  <2>1. c + 1 \in 1 .. Len(l) + 1
    BY <1>1
  <2>2. /\ IsSequence(SubSeq(l, c + 1, Len(l)))
        /\ Len(SubSeq(l, c + 1, Len(l))) = Len(l) - (c + 1) + 1
    BY <2>1, Remainder
  <2>3. Len(l) - (c + 1) + 1 = Len(l) - c
    BY <1>1
  <2> QED
    BY <2>2, <2>3, Zenon
<1>4. InsertAt(l, c + 1, data) = Join(Join(a, <<data>>), b)
  <2>1. c + 1 - 1 = c
    BY <1>1
  <2>2. InsertAt(l, c + 1, data)
          = Join(Join(SubSeq(l, 1, c + 1 - 1), <<data>>), SubSeq(l, c + 1, Len(l)))
    BY InsertedAs
  <2> QED
    BY <1>2, <1>3, <2>1, <2>2, Zenon
<1>5. PICK m : m = Join(a, <<data>>) /\ IsSequence(m) /\ Len(m) = c + 1
  <2>1. IsSequence(<<data>>) /\ Len(<<data>>) = 1
    BY OneElement
  <2>2. IsSequence(Join(a, <<data>>)) /\ Len(Join(a, <<data>>)) = Len(a) + Len(<<data>>)
    BY <1>2, <2>1, SequencesJoined
  <2> QED
    BY <1>2, <2>1, <2>2
<1>6. IsSequence(Join(m, b)) /\ Len(Join(m, b)) = Len(m) + Len(b)
  BY <1>3, <1>5, SequencesJoined
<1> QED
  BY <1>1, <1>3, <1>4, <1>5, <1>6

\* shellInsertByte sets a line that fits, with the cursor behind the character.
LEMMA Inserting ==
  ASSUME NEW l, Editable(l, Session.size), NEW c \in 0 .. Len(l), NEW data, Session.size \in Nat
  PROVE  Program(InsertByte(l, c, data), Session.size)
<1>1. IsSequence(l) /\ Len(l) \in Nat /\ Len(l) < Session.size
  BY DEF Editable, IsSequence
<1>2. PICK new : /\ new = InsertAt(l, c + 1, data) /\ IsSequence(new) /\ Len(new) = Len(l) + 1
  BY <1>1, Inserted
<1>3. CASE Len(l) >= Session.size - 1
  BY <1>1, <1>3, Refusing DEF InsertByte
<1>4. CASE Len(l) < Session.size - 1
  <2>1. c + 1 \in Nat \ {0} /\ c + 1 \in 0 .. Len(new) /\ Len(new) \in Int /\ Len(new) <= Len(new)
        /\ Len(new) < Session.size /\ Len(l) - c \in Int /\ ~ (Len(l) >= Session.size - 1)
    BY <1>1, <1>2, <1>4
  <2>2. Program(<<Edit(new, c + 1)>>, Session.size)
    BY <1>2, <2>1, Edits, OneStep
  <2>3. IsSequence(SubSeq(new, c + 1, Len(new)))
    BY <1>2, <2>1, PartOf
  <2>4. Program(Each(SubSeq(new, c + 1, Len(new))), Session.size)
    BY <2>3, EachOne
  <2>5. Program(Repeat(Back, Len(l) - c), Session.size)
    BY <2>1, Simple, Repeated
  <2>6. InsertByte(l, c, data)
          = Join(Join(<<Edit(new, c + 1)>>, Each(SubSeq(new, c + 1, Len(new)))), Repeat(Back, Len(l) - c))
    BY <1>2, <2>1 DEF InsertByte, Join
  <2> QED
    BY <2>2, <2>4, <2>5, <2>6, Then
<1> QED
  BY <1>1, <1>3, <1>4

\* One goes out of it.
LEMMA Removed ==
  ASSUME NEW l, IsSequence(l), NEW c \in 1 .. Len(l)
  PROVE  IsSequence(RemoveAt(l, c)) /\ Len(RemoveAt(l, c)) = Len(l) - 1
<1>1. Len(l) \in Nat
  BY DEF IsSequence
<1>2. PICK a : a = SubSeq(l, 1, c - 1) /\ IsSequence(a) /\ Len(a) = c - 1
  <2>1. c - 1 \in 0 .. Len(l)
    BY <1>1
  <2> QED
    BY <2>1, Beginning
<1>3. PICK b : b = SubSeq(l, c + 1, Len(l)) /\ IsSequence(b) /\ Len(b) = Len(l) - c
  <2>1. c + 1 \in 1 .. Len(l) + 1
    BY <1>1
  <2>2. /\ IsSequence(SubSeq(l, c + 1, Len(l)))
        /\ Len(SubSeq(l, c + 1, Len(l))) = Len(l) - (c + 1) + 1
    BY <2>1, Remainder
  <2>3. Len(l) - (c + 1) + 1 = Len(l) - c
    BY <1>1
  <2> QED
    BY <2>2, <2>3, Zenon
<1>4. RemoveAt(l, c) = Join(a, b)
  BY <1>2, <1>3 DEF RemoveAt, Join
<1>5. IsSequence(Join(a, b)) /\ Len(Join(a, b)) = Len(a) + Len(b)
  BY <1>2, <1>3, SequencesJoined
<1>6. Len(a) + Len(b) = Len(l) - 1
  <2>1. c - 1 + (Len(l) - c) = Len(l) - 1
    BY <1>1
  <2> QED
    BY <1>2, <1>3, <2>1, Zenon
<1> QED
  BY <1>4, <1>5, <1>6, Zenon

\* shellDeleteByte, backwards and forwards, sets a line with the cursor in it.
LEMMA DeletingBefore ==
  ASSUME NEW size \in Nat, NEW l, Editable(l, size), NEW c \in 0 .. Len(l)
  PROVE  Program(DeleteBefore(l, c), size)
<1>1. IsSequence(l) /\ Len(l) \in Nat /\ Len(l) < size
  BY DEF Editable, IsSequence
<1>2. CASE c = 0
  BY <1>2, NothingToDo DEF DeleteBefore
<1>3. CASE c # 0 /\ c = Len(l)
  <2>1. PICK new : new = Front(l) /\ IsSequence(new) /\ Len(new) = c - 1
    <3>1. Len(l) - 1 \in 0 .. Len(l) /\ Len(l) - 1 = c - 1
      BY <1>1, <1>3
    <3>2. IsSequence(SubSeq(l, 1, Len(l) - 1)) /\ Len(SubSeq(l, 1, Len(l) - 1)) = Len(l) - 1
      BY <1>1, <3>1, Beginning
    <3> QED
      BY <3>1, <3>2 DEF Front
  <2>2. Program(<<Edit(new, c - 1)>>, size)
    <3>1. c - 1 \in 0 .. Len(new) /\ Len(new) < size
      BY <1>1, <1>3, <2>1
    <3> QED
      BY <2>1, <3>1, Edits, OneStep
  <2>3. Program(DeleteCommandLine(1), size)
    <3>1. 1 % 256 \in Int
      OBVIOUS
    <3> QED
      BY <3>1, Simple, Repeated DEF DeleteCommandLine
  <2>4. DeleteBefore(l, c) = Join(<<Edit(new, c - 1)>>, DeleteCommandLine(1))
    BY <1>3, <2>1 DEF DeleteBefore, Join
  <2> QED
    BY <2>2, <2>3, <2>4, Then
<1>4. CASE c # 0 /\ c # Len(l)
  <2>1. PICK new : new = RemoveAt(l, c) /\ IsSequence(new) /\ Len(new) = Len(l) - 1
    BY <1>1, <1>4, Removed
  <2>2. /\ c - 1 \in 0 .. Len(new) /\ Len(new) < size /\ c + 1 \in Nat \ {0} /\ Len(l) \in Int
        /\ Len(l) <= Len(l) /\ Len(l) - c + 1 \in Int
    BY <1>1, <1>4, <2>1
  <2>3. Program(<<Edit(new, c - 1), Back>>, size)
    <3>1. Program(<<Edit(new, c - 1)>>, size) /\ Program(<<Back>>, size)
      BY <2>1, <2>2, Edits, Simple, OneStep
    <3>2. <<Edit(new, c - 1), Back>> = Join(<<Edit(new, c - 1)>>, <<Back>>)
      BY DEF Join
    <3> QED
      BY <3>1, <3>2, Then
  <2>4. Program(Each(SubSeq(l, c + 1, Len(l))), size)
    <3>1. IsSequence(SubSeq(l, c + 1, Len(l)))
      BY <1>1, <2>2, PartOf
    <3> QED
      BY <3>1, EachOne
  <2>5. Program(<<Put(<<" ">>)>>, size) /\ Program(Repeat(Back, Len(l) - c + 1), size)
    BY <2>2, Simple, OneStep, Repeated
  <2>6. DeleteBefore(l, c)
          = Join(Join(Join(<<Edit(new, c - 1), Back>>, Each(SubSeq(l, c + 1, Len(l)))), <<Put(<<" ">>)>>),
                 Repeat(Back, Len(l) - c + 1))
    BY <1>4, <2>1 DEF DeleteBefore, Join
  <2> QED
    BY <2>3, <2>4, <2>5, <2>6, Then
<1> QED
  BY <1>2, <1>3, <1>4

\* The character at the cursor is deleted.
LEMMA DeletingAt ==
  ASSUME NEW size \in Nat, NEW l, Editable(l, size), NEW c \in 0 .. Len(l)
  PROVE  Program(DeleteAt(l, c), size)
<1>1. IsSequence(l) /\ Len(l) \in Nat /\ Len(l) < size
  BY DEF Editable, IsSequence
<1>2. CASE c = Len(l)
  BY <1>2, NothingToDo DEF DeleteAt
<1>3. CASE c # Len(l)
  <2>1. c + 1 \in 1 .. Len(l)
    BY <1>1, <1>3
  <2>2. PICK new : new = RemoveAt(l, c + 1) /\ IsSequence(new) /\ Len(new) = Len(l) - 1
    BY <1>1, <2>1, Removed
  <2>3. /\ c \in 0 .. Len(new) /\ Len(new) < size /\ c + 2 \in Nat \ {0} /\ Len(l) \in Int
        /\ Len(l) <= Len(l) /\ Len(l) - c \in Int
    BY <1>1, <1>3, <2>2
  <2>4. Program(<<Edit(new, c)>>, size)
    BY <2>2, <2>3, Edits, OneStep
  <2>5. Program(Each(SubSeq(l, c + 2, Len(l))), size)
    <3>1. IsSequence(SubSeq(l, c + 2, Len(l)))
      BY <1>1, <2>3, PartOf
    <3> QED
      BY <3>1, EachOne
  <2>6. Program(<<Put(<<" ">>)>>, size) /\ Program(Repeat(Back, Len(l) - c), size)
    BY <2>3, Simple, OneStep, Repeated
  <2>7. DeleteAt(l, c)
          = Join(Join(Join(<<Edit(new, c)>>, Each(SubSeq(l, c + 2, Len(l)))), <<Put(<<" ">>)>>),
                 Repeat(Back, Len(l) - c))
    BY <1>3, <2>2 DEF DeleteAt, Join
  <2> QED
    BY <2>4, <2>5, <2>6, <2>7, Then
<1> QED
  BY <1>2, <1>3

\* The cursor stays in the line.
LEMMA Moving ==
  ASSUME NEW size \in Nat, NEW l, Editable(l, size), NEW c \in 0 .. Len(l)
  PROVE  Program(Right(l, c), size) /\ Program(Left(l, c), size)
<1>1. IsSequence(l) /\ Len(l) \in Nat /\ Len(l) < size
  BY DEF Editable, IsSequence
<1>2. Program(Right(l, c), size)
  <2>1. CASE c < Len(l)
    <3>1. c + 1 \in 0 .. Len(l)
      BY <1>1, <2>1
    <3>2. Program(<<Edit(l, c + 1)>>, size) /\ Program(<<Put(<<l[c + 1]>>)>>, size)
      BY <1>1, <3>1, Edits, Simple, OneStep
    <3>3. Right(l, c) = Join(<<Edit(l, c + 1)>>, <<Put(<<l[c + 1]>>)>>)
      BY <2>1 DEF Right, Join
    <3> QED
      BY <3>2, <3>3, Then
  <2>2. CASE ~ (c < Len(l))
    BY <2>2, NothingToDo DEF Right
  <2> QED
    BY <2>1, <2>2
<1>3. Program(Left(l, c), size)
  <2>1. CASE c > 0
    <3>1. c - 1 \in 0 .. Len(l)
      BY <1>1, <2>1
    <3>2. Program(<<Back>>, size) /\ Program(<<Edit(l, c - 1)>>, size)
      BY <1>1, <3>1, Edits, Simple, OneStep
    <3>3. Left(l, c) = Join(<<Back>>, <<Edit(l, c - 1)>>)
      BY <2>1 DEF Left, Join
    <3> QED
      BY <3>2, <3>3, Then
  <2>2. CASE ~ (c > 0)
    BY <2>2, NothingToDo DEF Left
  <2> QED
    BY <2>1, <2>2
<1> QED
  BY <1>2, <1>3
-----------------------------------------------------------------------------
(* Numbers and sessions. *)

\* The least of some naturals.
LEMMA Least ==
  ASSUME NEW S, S \subseteq Nat, S # {}
  PROVE  Min(S) \in S /\ \A n \in S : Min(S) <= n
<1>1. PICK R : R = {p \in Nat \X Nat : p[1] < p[2]}
  OBVIOUS
<1>2. IsWellFoundedOn(R, Nat)
  BY <1>1, NatLessThanWellFounded DEF OpToRel
<1>3. PICK m \in S : \A n \in S : <<n, m>> \notin R
  BY <1>2, WFMin
<1>4. ASSUME NEW n \in S PROVE m <= n
  <2>1. n < m => <<n, m>> \in R
    BY <1>1
  <2> QED
    BY <1>3, <2>1
<1>5. \E x \in S : \A n \in S : x <= n
  BY <1>4
<1> QED
  BY <1>5 DEF Min

\* The greatest of some naturals that have a bound.
LEMMA Greatest ==
  ASSUME NEW S, NEW b \in Nat, S \subseteq 0 .. b, S # {}
  PROVE  Max(S) \in S /\ \A n \in S : Max(S) >= n
<1>1. PICK T : T = {b - n : n \in S}
  OBVIOUS
<1>2. T \subseteq Nat /\ T # {}
  <2>1. \A n \in S : b - n \in Nat
    OBVIOUS
  <2> QED
    BY <1>1, <2>1, Zenon
<1>3. PICK t \in T : \A u \in T : t <= u
  BY <1>2, Least
<1>4. PICK m \in S : t = b - m
  BY <1>1, <1>3
<1>5. ASSUME NEW n \in S PROVE m >= n
  <2>1. t <= b - n
    BY <1>1, <1>3
  <2> QED
    BY <1>4, <2>1
<1> QED
  BY <1>5 DEF Max

\* What is assumed of the sessions, for this one.
LEMMA SessionRight ==
  ASSUME session \in DOMAIN Sessions
  PROVE  /\ Columns \in Nat /\ Session.size \in 2 .. Columns /\ Session.size \in Nat
         /\ Session.submits \in Nat
         /\ Editable(Session.typed, Session.size)
         /\ IsSequence(Commands) /\ Len(Commands) \in Nat
         /\ DOMAIN Commands = 1 .. Len(Commands)
         /\ \A i \in DOMAIN Commands : Editable(Commands[i].name, Session.size)
<1>1. IsSequence(Tables[Session.table])
  BY ShellAssumption DEF Session
<1>2. IsSequence(Commands) /\ Len(Commands) \in Nat /\ DOMAIN Commands = 1 .. Len(Commands)
  <2>1. \A s : IsSequence(s) => Len(s) \in Nat /\ DOMAIN s = 1 .. Len(s)
    BY DEF IsSequence
  <2> QED
    BY <1>1, <2>1 DEF Commands
<1>3. \A i \in DOMAIN Commands : Editable(Commands[i].name, Session.size)
  BY ShellAssumption DEF Session, Commands, Editable
<1>4. Columns \in Nat /\ Session.size \in 2 .. Columns /\ Session.submits \in Nat
  BY ShellAssumption DEF Session
<1>5. Editable(Session.typed, Session.size)
  BY ShellAssumption DEF Session, Editable
<1> QED
  BY <1>2, <1>3, <1>4, <1>5

\* Some of the commands.
LEMMA SomeCommands ==
  ASSUME session \in DOMAIN Sessions, NEW found, found \subseteq DOMAIN Commands
  PROVE  IsFiniteSet(found) /\ Cardinality(found) \in Nat
<1>1. Len(Commands) \in Nat /\ DOMAIN Commands = 1 .. Len(Commands)
  BY SessionRight
<1>2. IsFiniteSet(1 .. Len(Commands))
  BY <1>1, FS_Interval
<1>3. found \in SUBSET (1 .. Len(Commands))
  BY <1>1
<1>4. IsFiniteSet(found)
  BY <1>2, <1>3, FS_Subset
<1> QED
  BY <1>4, FS_CardinalityType

\* A command that is found is one, and no key.
LEMMA Found ==
  ASSUME session \in DOMAIN Sessions, NEW name, Seek(name) # 0
  PROVE  Seek(name) \in DOMAIN Commands /\ Named(Seek(name))
<1>1. PICK found : found = {i \in DOMAIN Commands : Named(i) /\ Commands[i].name = name}
  OBVIOUS
<1>2. Seek(name) = IF found = {} THEN 0 ELSE Min(found)
  BY <1>1 DEF Seek
<1>3. DOMAIN Commands = 1 .. Len(Commands) /\ Len(Commands) \in Nat
  BY SessionRight
<1>4. found # {} /\ found \subseteq Nat
  BY <1>1, <1>2, <1>3
<1>5. Min(found) \in found
  BY <1>4, Least
<1> QED
  BY <1>1, <1>2, <1>4, <1>5
-----------------------------------------------------------------------------
(* The commands' programs. *)

\* A list of commands changes nothing but the console.
LEMMA Listing ==
  ASSUME session \in DOMAIN Sessions, NEW size, NEW types
  PROVE  Program(List(types), size)
<1>1. PICK n : n = Cardinality({i \in DOMAIN Commands : Commands[i].type \in types})
  OBVIOUS
<1>2. n \in Int
  BY <1>1, SomeCommands
<1>3. List(types) = Join(<<Text>>, Repeat(ListItem, n))
  BY <1>1 DEF List, Join
<1>4. Program(<<Text>>, size)
  BY Simple, OneStep
<1>5. Program(Repeat(ListItem, n), size)
  <2>1. Step(ListItem, size)
    BY Simple DEF ListItem
  <2> QED
    BY <1>2, <2>1, Repeated
<1> QED
  BY <1>3, <1>4, <1>5, Then

\* Nor does what a command writes.
LEMMA Outputs ==
  ASSUME session \in DOMAIN Sessions, NEW size, NEW words,
         NEW i \in DOMAIN Commands, Commands[i].type \in CommandTypes
  PROVE  Program(Output(i, words), size)
<1>1. Program(<<Text>>, size)
  BY Simple, OneStep
<1>2. /\ Program(ListAll, size) /\ Program(ListUser, size) /\ Program(ListCommand, size)
      /\ Program(ListVar, size) /\ Program(ListKey, size) /\ Program(ShowVar, size)
  BY <1>1, Listing DEF ListAll, ListUser, ListCommand, ListVar, ListKey, ShowVar
<1>3. Program(CommandHelp(words[2]), size)
  BY <1>1 DEF CommandHelp
<1>4. Commands[i].does \in {"help", "users", "cmds", "vars", "keys", "setVar", "clear", "app"}
  BY ShellAssumption DEF Commands, Session, CommandTypes
<1> QED
  BY <1>1, <1>2, <1>3, <1>4 DEF Output

\* shellRunCommand, of a command that was found.
LEMMA Running ==
  ASSUME session \in DOMAIN Sessions, NEW size, NEW words,
         NEW i \in DOMAIN Commands, Named(i)
  PROVE  Program(RunCommand(i, words), size)
<1> DEFINE run == IF Arguments(i, words).called THEN Output(i, words) ELSE <<>>
<1> DEFINE body == CASE Commands[i].type \in CommandTypes -> run \o ReturnValue(i)
                     [] Commands[i].type = "var" -> ShowVar
                     [] Commands[i].type = "user" -> <<Text>>
<1>1. Program(<<Text>>, size) /\ Program(<<Active(TRUE)>>, size) /\ Program(<<Active(FALSE)>>, size)
  BY Simple, OneStep
<1>2. Commands[i].type \in {"main", "func", "var", "user"}
  BY ShellAssumption DEF Commands, Session, Named
<1>3. Program(body, size)
  <2>1. CASE Commands[i].type \in CommandTypes
    <3>1. Program(run, size)
      BY <2>1, Outputs, NothingToDo
    <3>2. Program(ReturnValue(i), size)
      BY <1>1, NothingToDo DEF ReturnValue
    <3>3. body = Join(run, ReturnValue(i))
      BY <2>1 DEF Join, CommandTypes
    <3> HIDE DEF body, run
    <3> QED
      BY <3>1, <3>2, <3>3, Then
  <2>2. CASE Commands[i].type = "var"
    BY <1>1, <2>2 DEF CommandTypes, ShowVar
  <2>3. CASE Commands[i].type = "user"
    BY <1>1, <2>3 DEF CommandTypes
  <2> QED
    BY <1>2, <2>1, <2>2, <2>3 DEF CommandTypes
<1>4. RunCommand(i, words) = Join(Join(<<Active(TRUE)>>, body), <<Active(FALSE)>>)
  BY Zenon DEF RunCommand, Join
<1> HIDE DEF body, run
<1> QED
  BY <1>1, <1>3, <1>4, Then

\* shellExec empties the line.
LEMMA Executing ==
  ASSUME session \in DOMAIN Sessions, NEW l
  PROVE  Program(Exec(l), Session.size)
<1> DEFINE words == Split(l)
<1> DEFINE i == Seek(words[1])
<1> DEFINE what == IF i = 0 THEN <<Text>> ELSE RunCommand(i, words)
<1> DEFINE all == IF words = <<>> THEN <<>> ELSE <<Text>> \o what
<1>1. Program(<<Text>>, Session.size)
  BY Simple, OneStep
<1>2. Program(<<Edit(<<>>, 0)>>, Session.size)
  <2>1. 0 \in 0 .. 0 /\ 0 < Session.size
    BY SessionRight
  <2> QED
    BY <2>1, NoElement, Edits, OneStep
<1>3. Program(what, Session.size)
  <2>1. CASE i = 0
    BY <1>1, <2>1
  <2>2. CASE i # 0
    BY <2>2, Found, Running
  <2> QED
    BY <2>1, <2>2
<1>4. Program(all, Session.size)
  <2>1. CASE words = <<>>
    BY <2>1, NothingToDo
  <2>2. CASE words # <<>>
    <3>1. all = Join(<<Text>>, what)
      BY <2>2 DEF Join
    <3> HIDE DEF all, what
    <3> QED
      BY <1>1, <1>3, <3>1, Then
  <2> QED
    BY <2>1, <2>2
<1>5. Exec(l) = Join(<<Edit(<<>>, 0)>>, all)
  BY Zenon DEF Exec, Join
<1> HIDE DEF all, what
<1> QED
  BY <1>2, <1>4, <1>5, Then
-----------------------------------------------------------------------------
(* Completion. *)

\* Two names have no more in common than either has.
LEMMA CommonBounds ==
  ASSUME session \in DOMAIN Sessions, NEW i \in DOMAIN Commands, NEW j \in DOMAIN Commands
  PROVE  Common(i, j) \in Nat /\ Common(i, j) <= Len(Commands[j].name)
<1>1. PICK s : s = Commands[i].name /\ IsSequence(s)
  BY SessionRight DEF Editable
<1>2. PICK t : t = Commands[j].name /\ IsSequence(t)
  BY SessionRight DEF Editable
<1>3. DOMAIN s = 1 .. Len(s) /\ Len(s) \in Nat /\ Len(t) \in Nat
  BY <1>1, <1>2 DEF IsSequence
<1>4. PICK both : both = {k \in DOMAIN s : IsPrefix(SubSeq(s, 1, k), t)}
  OBVIOUS
<1>5. Common(i, j) = Cardinality(both) \/ Common(i, j) = Len(t)
  BY <1>1, <1>2, <1>4 DEF Common
<1>6. ASSUME NEW k \in both PROVE k \in 1 .. Len(t)
  <2>1. k \in 1 .. Len(s) /\ k \in 0 .. Len(s)
    BY <1>3, <1>4
  <2>2. Len(SubSeq(s, 1, k)) = k
    BY <1>1, <2>1, Beginning
  <2>3. IsPrefix(SubSeq(s, 1, k), t)
    BY <1>4
  <2>4. Len(SubSeq(s, 1, k)) <= Len(t)
    BY <2>3 DEF IsPrefix
  <2> QED
    BY <1>3, <2>1, <2>2, <2>4
<1>7. both \in SUBSET (1 .. Len(t))
  BY <1>6
<1>8. IsFiniteSet(1 .. Len(t)) /\ Cardinality(1 .. Len(t)) = Len(t)
  <2>1. 1 \in Int /\ Len(t) \in Int
    BY <1>3
  <2>2. /\ IsFiniteSet(1 .. Len(t))
        /\ Cardinality(1 .. Len(t)) = IF 1 > Len(t) THEN 0 ELSE Len(t) - 1 + 1
    BY <2>1, FS_Interval
  <2> QED
    BY <1>3, <2>2
<1>9. IsFiniteSet(both) /\ Cardinality(both) <= Len(t)
  BY <1>7, <1>8, FS_Subset
<1>10. Cardinality(both) \in Nat
  BY <1>9, FS_CardinalityType
<1> QED
  BY <1>2, <1>3, <1>5, <1>9, <1>10

\* Of what is found there is a first and a last.
LEMMA Ends ==
  ASSUME session \in DOMAIN Sessions, NEW found, found \subseteq DOMAIN Commands, found # {}
  PROVE  /\ Min(found) \in found /\ Max(found) \in found
         /\ \A i \in found : Min(found) <= i /\ i <= Max(found)
<1>1. Len(Commands) \in Nat /\ DOMAIN Commands = 1 .. Len(Commands)
  BY SessionRight
<1>2. found \subseteq Nat /\ found \subseteq 0 .. Len(Commands)
  BY <1>1
<1>3. Min(found) \in found /\ \A i \in found : Min(found) <= i
  BY <1>2, Least
<1>4. Max(found) \in found /\ \A i \in found : Max(found) >= i
  BY <1>1, <1>2, Greatest
<1> QED
  BY <1>2, <1>3, <1>4

\* What several have in common is a part of the last one's name.
LEMMA MaxMatchBounds ==
  ASSUME session \in DOMAIN Sessions, NEW found, found \subseteq DOMAIN Commands, found # {},
         Cardinality(found) # 1
  PROVE  MaxMatch(found) \in 0 .. Len(Commands[Max(found)].name)
<1> DEFINE previous(i) == {j \in found : j < i}
<1> DEFINE all == {Session.size} \cup
                  {Common(Max(previous(i)), i) : i \in found \ {Min(found)}}
<1>1. /\ Min(found) \in found /\ Max(found) \in found
      /\ \A i \in found : Min(found) <= i /\ i <= Max(found)
  BY Ends
<1>2. Session.size \in Nat
  BY SessionRight
<1>3. found \subseteq Int
  BY SessionRight
<1>4. ASSUME NEW i \in found \ {Min(found)}
      PROVE  Common(Max(previous(i)), i) \in Nat
             /\ Common(Max(previous(i)), i) <= Len(Commands[i].name)
  <2>1. Min(found) \in previous(i)
    BY <1>1, <1>3
  <2>2. previous(i) \subseteq DOMAIN Commands /\ previous(i) # {}
    BY <2>1
  <2> HIDE DEF previous
  <2>3. Max(previous(i)) \in previous(i)
    BY <2>2, Ends
  <2>4. Max(previous(i)) \in DOMAIN Commands /\ i \in DOMAIN Commands
    BY <2>2, <2>3
  <2> QED
    BY <2>4, CommonBounds
<1>5. Max(found) # Min(found)
  <2>1. SUFFICES ASSUME Max(found) = Min(found) PROVE FALSE
    OBVIOUS
  <2>2. PICK x : x = Min(found) /\ x \in found /\ x \in Int
    BY <1>1, <1>3
  <2>3. \A i \in found : x <= i /\ i <= x
    BY <1>1, <2>1, <2>2
  <2>4. found = {x}
    BY <1>3, <2>2, <2>3
  <2>5. Cardinality(found) = 1
    BY <2>4, FS_Singleton
  <2> QED
    BY <2>5
<1>6. all \subseteq Nat
  <2> HIDE DEF previous
  <2> QED
    BY <1>2, <1>4
<1>7. Common(Max(previous(Max(found))), Max(found)) \in all
  BY <1>1, <1>5
<1>8. MaxMatch(found) = Min(all)
  BY DEF MaxMatch
<1> HIDE DEF all
<1>9. Min(all) \in all /\ \A n \in all : Min(all) <= n
  BY <1>6, <1>7, Least
<1>10. Min(all) \in Nat /\ Min(all) <= Common(Max(previous(Max(found))), Max(found))
  BY <1>6, <1>7, <1>9
<1>11. /\ Common(Max(previous(Max(found))), Max(found)) \in Nat
       /\ Common(Max(previous(Max(found))), Max(found)) <= Len(Commands[Max(found)].name)
  BY <1>1, <1>4, <1>5
<1>12. Len(Commands[Max(found)].name) \in Nat
  BY <1>1, SessionRight DEF Editable, IsSequence
<1> HIDE DEF previous
<1> QED
  BY <1>8, <1>10, <1>11, <1>12

\* A completed line fits, for a name fits and so does a part of it.
LEMMA Completing ==
  ASSUME session \in DOMAIN Sessions, NEW l, Editable(l, Session.size), NEW c \in Int,
         Matches(l) # {}
  PROVE  Program(Complete(l, c), Session.size)
<1>1. PICK found : found = Matches(l) /\ found \subseteq DOMAIN Commands /\ found # {}
  BY DEF Matches
<1>2. PICK last : /\ last = Commands[Max(found)].name /\ Editable(last, Session.size)
                  /\ IsSequence(last) /\ Len(last) \in Nat /\ Len(last) < Session.size
  <2>1. Max(found) \in DOMAIN Commands
    BY <1>1, Ends
  <2>2. Editable(Commands[Max(found)].name, Session.size)
    BY <2>1, SessionRight
  <2> QED
    BY <2>2 DEF Editable, IsSequence
<1>3. CASE Cardinality(found) = 1
  <2>1. Program(ClearCommandLine(l, c), Session.size)
    BY Clearing DEF Editable
  <2>2. Program(<<Edit(last, Len(last))>>, Session.size) /\ Program(<<Put(last)>>, Session.size)
    <3>1. Len(last) \in 0 .. Len(last)
      BY <1>2
    <3> QED
      BY <1>2, <3>1, Edits, OneStep
  <2>3. <<Edit(last, Len(last)), Put(last)>> = Join(<<Edit(last, Len(last))>>, <<Put(last)>>)
    BY DEF Join
  <2>4. Program(<<Edit(last, Len(last)), Put(last)>>, Session.size)
    BY <2>2, <2>3, Then
  <2>5. Complete(l, c) = Join(ClearCommandLine(l, c), <<Edit(last, Len(last)), Put(last)>>)
    BY <1>1, <1>2, <1>3, Zenon DEF Complete, Join
  <2> QED
    BY <2>1, <2>4, <2>5, Then
<1>4. CASE Cardinality(found) # 1
  <2>1. PICK most : /\ most = SubSeq(last, 1, MaxMatch(found))
                    /\ IsSequence(most) /\ Len(most) = MaxMatch(found)
    BY <1>1, <1>2, <1>4, MaxMatchBounds, Beginning
  <2>2. Len(most) \in 0 .. Len(most) /\ Len(most) < Session.size
    <3>1. Editable(last, Session.size) /\ last = Commands[Max(found)].name
      BY <1>2
    <3>2. MaxMatch(found) \in 0 .. Len(last)
      BY <1>1, <1>4, <3>1, MaxMatchBounds, Zenon
    <3>3. Len(last) \in Nat /\ Len(last) < Session.size /\ Session.size \in Nat
      BY <3>1, SessionRight DEF Editable, IsSequence
    <3> QED
      BY <2>1, <3>2, <3>3
  <2>3. Program(<<Edit(most, Len(most))>>, Session.size) /\ Program(<<Put(most)>>, Session.size)
    BY <2>1, <2>2, Edits, OneStep
  <2>4. <<Edit(most, Len(most)), Put(most)>> = Join(<<Edit(most, Len(most))>>, <<Put(most)>>)
    BY DEF Join
  <2>5. Program(<<Edit(most, Len(most)), Put(most)>>, Session.size)
    BY <2>3, <2>4, Then
  <2>6. Program(Repeat(ListItem, Cardinality(found)), Session.size)
    <3>1. Cardinality(found) \in Int
      BY <1>1, SomeCommands
    <3> QED
      BY <3>1, Simple, Repeated DEF ListItem
  <2>7. Program(<<Text>>, Session.size) /\ Program(WritePrompt(TRUE), Session.size)
    BY Simple, OneStep, Prompting
  <2>8. Complete(l, c)
          = Join(Join(Join(<<Text>>, Repeat(ListItem, Cardinality(found))), WritePrompt(TRUE)),
                 <<Edit(most, Len(most)), Put(most)>>)
    BY <1>1, <1>2, <1>4, <2>1, Zenon DEF Complete, Join
  <2> QED
    BY <2>5, <2>6, <2>7, <2>8, Then
<1> QED
  BY <1>3, <1>4

\* The help of a second tab.
LEMMA Helping ==
  ASSUME session \in DOMAIN Sessions, NEW l, Matches(l) # {}
  PROVE  Program(QuickHelp(l), Session.size)
<1>1. Matches(l) \subseteq DOMAIN Commands
  BY DEF Matches
<1>2. PICK name : name = Commands[Max(Matches(l))].name /\ IsSequence(name)
  BY <1>1, Ends, SessionRight DEF Editable
<1>3. /\ Program(<<Text>>, Session.size) /\ Program(CommandHelp(name), Session.size)
      /\ Program(WritePrompt(TRUE), Session.size) /\ Program(<<Put(name)>>, Session.size)
  BY <1>2, Simple, Edits, OneStep, Prompting DEF CommandHelp
<1>4. QuickHelp(l)
        = Join(Join(Join(<<Text>>, CommandHelp(name)), WritePrompt(TRUE)), <<Put(name)>>)
  BY <1>2, Zenon DEF QuickHelp, Join
<1> QED
  BY <1>3, <1>4, Then
-----------------------------------------------------------------------------
(* A line of the history, recalled. *)

\* A change of the line.
IsEdit(w) == "line" \in DOMAIN w

\* Every change of the line that is still to come leaves it x with the cursor
\* behind it; and one is to come, or the line is x already.
Coming(steps, x) ==
  /\ \A n \in 1 .. Len(steps) : IsEdit(steps[n]) => steps[n] = Edit(x, Len(x))
  /\ (\E n \in 1 .. Len(steps) : IsEdit(steps[n])) \/ (line = x /\ cursor = Len(x))

\* Which steps change the line.
LEMMA Edited ==
  /\ \A text : ~ IsEdit(Put(text))
  /\ \A value : ~ IsEdit(Active(value))
  /\ ~ IsEdit(Text) /\ ~ IsEdit(Prompt) /\ ~ IsEdit(Back) /\ ~ IsEdit(Erase) /\ ~ IsEdit(Lost)
  /\ \A text, at : IsEdit(Edit(text, at)) /\ Edit(text, at).line = text
                   /\ Edit(text, at).cursor = at
  BY DEF IsEdit, Put, Active, Text, Prompt, Back, Erase, Lost, Edit

\* The steps of a repetition.
LEMMA RepeatedAre ==
  ASSUME NEW w, NEW n \in Int
  PROVE  \A i \in 1 .. Len(Repeat(w, n)) : Repeat(w, n)[i] = w
<1>1. PICK m \in Nat : 1 .. n = 1 .. m
  <2>1. CASE n >= 0
    BY <2>1
  <2>2. CASE n < 0
    <3>1. 1 .. n = 1 .. 0
      BY <2>2
    <3> QED
      BY <3>1
  <2> QED
    BY <2>1, <2>2
<1>2. Repeat(w, n) = [i \in 1 .. m |-> w]
  BY <1>1 DEF Repeat
<1>3. Len([i \in 1 .. m |-> w]) = m
  OBVIOUS
<1> QED
  BY <1>2, <1>3

\* Clearing the line on the console does not change it in the buffer.
LEMMA ClearingEditsNothing ==
  ASSUME NEW size, NEW l, IsSequence(l), NEW c \in Int
  PROVE  \A n \in 1 .. Len(ClearCommandLine(l, c)) : ~ IsEdit(ClearCommandLine(l, c)[n])
<1>1. Len(l) - c \in Int /\ Len(l) % 256 \in Int
  BY DEF IsSequence
<1>2. PICK p : p = Repeat(Put(<<" ">>), Len(l) - c)
  OBVIOUS
<1>3. PICK q : q = Repeat(Erase, Len(l) % 256)
  OBVIOUS
<1>4. IsSequence(p) /\ IsSequence(q)
  BY <1>1, <1>2, <1>3, Simple, Repeated DEF Program
<1>5. \A n \in 1 .. Len(p) : p[n] = Put(<<" ">>)
  BY <1>1, <1>2, RepeatedAre
<1>6. \A n \in 1 .. Len(q) : q[n] = Erase
  BY <1>1, <1>3, RepeatedAre
<1>7. PICK j : j = Join(p, q)
  OBVIOUS
<1>8. /\ Len(j) = Len(p) + Len(q) /\ \A n \in 1 .. Len(p) : j[n] = p[n]
      /\ \A n \in 1 .. Len(p) + Len(q) : n > Len(p) => j[n] = q[n - Len(p)]
      /\ Len(p) \in Nat /\ Len(q) \in Nat
  BY <1>4, <1>7, SequencesJoined
<1>9. ASSUME NEW n \in 1 .. Len(j) PROVE ~ IsEdit(j[n])
  <2>1. CASE n <= Len(p)
    <3>1. n \in 1 .. Len(p)
      BY <1>8, <2>1
    <3>2. j[n] = Put(<<" ">>)
      BY <1>5, <1>8, <3>1
    <3>3. ~ IsEdit(Put(<<" ">>))
      BY Edited
    <3> QED
      BY <3>2, <3>3
  <2>2. CASE n > Len(p)
    <3>1. n - Len(p) \in 1 .. Len(q) /\ n \in 1 .. Len(p) + Len(q)
      BY <1>8, <2>2
    <3> QED
      BY <1>6, <1>8, <2>2, <3>1, Edited
  <2> QED
    BY <1>8, <2>1, <2>2
<1>10. ClearCommandLine(l, c) = j
  BY <1>2, <1>3, <1>7, Zenon DEF ClearCommandLine, DeleteCommandLine, Join
<1> QED
  BY <1>9, <1>10

\* What the up and down keys do.
LEMMA Recalling ==
  ASSUME session \in DOMAIN Sessions, NEW l, IsSequence(l), NEW c \in Int, NEW o \in Int,
         o # 0 => Editable(Recall(o), Session.size)
  PROVE  /\ Program(Recalled(l, c, o), Session.size)
         /\ o # 0 => Coming(Recalled(l, c, o), Recall(o))
<1>1. PICK p : p = ClearCommandLine(l, c)
  OBVIOUS
<1>2. Program(p, Session.size)
  BY <1>1, Clearing
<1>3. CASE o = 0
  <2>1. Program(<<Edit(<<>>, 0)>>, Session.size)
    <3>1. 0 \in 0 .. 0 /\ 0 < Session.size
      BY SessionRight
    <3> QED
      BY <3>1, NoElement, Edits, OneStep
  <2>2. Recalled(l, c, o) = Join(p, <<Edit(<<>>, 0)>>)
    BY <1>1, <1>3 DEF Recalled, Join
  <2> QED
    BY <1>2, <1>3, <2>1, <2>2, Then
<1>4. CASE o # 0
  <2>1. PICK x : x = Recall(o) /\ IsSequence(x) /\ Len(x) < Session.size /\ Len(x) \in Nat
    BY <1>4 DEF Editable, IsSequence
  <2>2. Program(<<Edit(x, Len(x))>>, Session.size) /\ Program(<<Put(x)>>, Session.size)
    <3>1. Len(x) \in 0 .. Len(x)
      BY <2>1
    <3> QED
      BY <2>1, <3>1, Edits, OneStep
  <2>3. PICK q : q = <<Edit(x, Len(x)), Put(x)>>
    OBVIOUS
  <2>4. q = Join(<<Edit(x, Len(x))>>, <<Put(x)>>)
    BY <2>3 DEF Join
  <2>5. Program(q, Session.size)
    BY <2>2, <2>4, Then
  <2>6. Len(q) = 2 /\ q[1] = Edit(x, Len(x)) /\ q[2] = Put(x)
    BY <2>3
  <2>7. PICK j : j = Join(p, q)
    OBVIOUS
  <2>8. Recalled(l, c, o) = j
    BY <1>1, <1>4, <2>1, <2>3, <2>7, Zenon DEF Recalled, Join
  <2>9. Program(j, Session.size)
    BY <1>2, <2>5, <2>7, Then
  <2>10. /\ Len(j) = Len(p) + 2 /\ Len(p) \in Nat
         /\ \A n \in 1 .. Len(p) : j[n] = p[n]
         /\ \A n \in 1 .. Len(q) : j[Len(p) + n] = q[n]
         /\ \A n \in 1 .. Len(p) + Len(q) : n > Len(p) => j[n] = q[n - Len(p)]
    <3>1. IsSequence(p) /\ IsSequence(q)
      BY <1>2, <2>5 DEF Program
    <3>2. /\ Len(j) = Len(p) + Len(q) /\ Len(p) \in Nat
          /\ \A n \in 1 .. Len(p) : j[n] = p[n]
          /\ \A n \in 1 .. Len(q) : j[Len(p) + n] = q[n]
          /\ \A n \in 1 .. Len(p) + Len(q) : n > Len(p) => j[n] = q[n - Len(p)]
      BY <2>7, <3>1, SequencesJoined
    <3> QED
      BY <2>6, <3>2
  <2>11. \A n \in 1 .. Len(p) : ~ IsEdit(p[n])
    BY <1>1, ClearingEditsNothing
  <2>12. ASSUME NEW n \in 1 .. Len(j), IsEdit(j[n]) PROVE j[n] = Edit(x, Len(x))
    <3>1. n > Len(p)
      BY <2>10, <2>11, <2>12
    <3>2. n - Len(p) \in 1 .. 2 /\ j[n] = q[n - Len(p)]
      BY <2>6, <2>10, <3>1
    <3>3. n - Len(p) = 1
      BY <2>6, <2>12, <3>2, Edited
    <3> QED
      BY <2>6, <3>2, <3>3
  <2>13. Len(p) + 1 \in 1 .. Len(j) /\ IsEdit(j[Len(p) + 1])
    BY <2>6, <2>10, Edited
  <2>14. Coming(j, x)
    BY <2>12, <2>13 DEF Coming
  <2> QED
    BY <2>1, <2>8, <2>9, <2>14
<1> QED
  BY <1>3, <1>4
\* A step that is repeated.
LEMMA RepeatIs ==
  ASSUME NEW w, NEW n \in Nat
  PROVE  /\ IsSequence(Repeat(w, n)) /\ Len(Repeat(w, n)) = n
         /\ \A i \in 1 .. n : Repeat(w, n)[i] = w
<1>1. Repeat(w, n) \in Seq({w}) /\ Len(Repeat(w, n)) = n
  BY DEF Repeat
<1>2. \A i \in 1 .. n : Repeat(w, n)[i] = w
  BY DEF Repeat
<1> QED
  BY <1>1, <1>2, SequenceOver

-----------------------------------------------------------------------------
(* The invariant. *)

\* The ring holds what was entered: the entry number -k counted from the next
\* free one is the k-th last line, of those behind the last that overran.
Ring ==
  /\ record \in 0 .. H - 1
  /\ number \in 0 .. H
  /\ number < H => record = number
  /\ item = [i \in 0 .. H - 1 |-> item[i]]
  /\ \A i \in 0 .. H - 1 : Editable(item[i], Session.size)
  /\ IsSequence(recent)
  /\ Len(recent) <= number
  /\ overrun \/ Len(recent) = number
  /\ \A k \in 1 .. Len(recent) : Recall(-k) = recent[k]

\* The last row of the console, with its cursor in it.
Row(s) == s = [row |-> s.row, col |-> s.col, prompted |-> s.prompted] /\ s.col \in 0 .. Columns

Shows(s) == s = Garbled \/ Row(s)

Flags ==
  tabFlag \in BOOLEAN /\ active \in BOOLEAN /\ overrun \in BOOLEAN /\ recalled \in BOOLEAN

\* A recalled line is there, or what is left of the handler will bring it.
Arriving ==
  recalled => offset # 0 /\ (-offset <= Len(recent) => Coming(todo, recent[-offset]))

ShellInv ==
  /\ session \in DOMAIN Sessions
  /\ submits \in 0 .. Session.submits
  /\ Editable(line, Session.size)
  /\ cursor \in 0 .. Len(line)
  /\ Flags
  /\ redraw \in {"idle", "text", "after", "line", "back"}
  /\ behind \in 0 .. Columns
  /\ Shows(screen)
  /\ Program(todo, Session.size)
  /\ Ring
  /\ offset \in -number .. 0
  /\ Arriving

\* The ring, stated of the next state.
LEMMA RingStays ==
  ASSUME Ring, UNCHANGED <<session, item, record, number, recent, overrun>>
  PROVE  Ring'
  BY DEF Ring, Recall, Session, Editable

\* Indices of the ring.
LEMMA Around ==
  ASSUME NEW n \in Nat \ {0}, NEW r \in 0 .. n - 1
  PROVE  /\ \A k \in 0 .. n : (r + n + (-k)) % n = IF k <= r THEN r - k ELSE r + n - k
         /\ (r + 1) % n = IF r + 1 = n THEN 0 ELSE r + 1
<1>1. \A i \in 0 .. n - 1 : i % n = i /\ (i + n) % n = i
  OBVIOUS
<1>2. n % n = 0
  OBVIOUS
<1>3. ASSUME NEW k \in 0 .. n
      PROVE  (r + n + (-k)) % n = IF k <= r THEN r - k ELSE r + n - k
  <2>1. CASE k <= r
    <3>1. r - k \in 0 .. n - 1 /\ r + n + (-k) = (r - k) + n
      BY <2>1
    <3> QED
      BY <1>1, <2>1, <3>1
  <2>2. CASE ~ (k <= r)
    <3>1. r + n - k \in 0 .. n - 1 /\ r + n + (-k) = r + n - k
      BY <2>2
    <3> QED
      BY <1>1, <2>2, <3>1
  <2> QED
    BY <2>1, <2>2
<1>4. (r + 1) % n = IF r + 1 = n THEN 0 ELSE r + 1
  <2>1. CASE r + 1 = n
    BY <1>2, <2>1
  <2>2. CASE r + 1 # n
    <3>1. r + 1 \in 0 .. n - 1
      BY <2>2
    <3> QED
      BY <1>1, <2>2, <3>1
  <2> QED
    BY <2>1, <2>2
<1> QED
  BY <1>3, <1>4

\* The less and the greater of two numbers.
LEMMA OfTwo ==
  ASSUME NEW a \in Int, NEW b \in Int
  PROVE  /\ Min({a, b}) = IF a <= b THEN a ELSE b
         /\ Max({a, b}) = IF a >= b THEN a ELSE b
<1>1. Min({a, b}) = IF a <= b THEN a ELSE b
  <2>1. PICK m : m = IF a <= b THEN a ELSE b
    OBVIOUS
  <2>2. m \in {a, b} /\ \A y \in {a, b} : m <= y
    BY <2>1
  <2>3. \A x \in {a, b} : (\A y \in {a, b} : x <= y) => x = m
    BY <2>1
  <2> QED
    BY <2>1, <2>2, <2>3 DEF Min
<1>2. Max({a, b}) = IF a >= b THEN a ELSE b
  <2>1. PICK m : m = IF a >= b THEN a ELSE b
    OBVIOUS
  <2>2. m \in {a, b} /\ \A y \in {a, b} : m >= y
    BY <2>1
  <2>3. \A x \in {a, b} : (\A y \in {a, b} : x >= y) => x = m
    BY <2>1
  <2> QED
    BY <2>1, <2>2, <2>3 DEF Max
<1> QED
  BY <1>1, <1>2

\* A row whose cursor is elsewhere.
LEMMA RowMoved ==
  ASSUME NEW s, Row(s), NEW c \in 0 .. Columns
  PROVE  /\ Row([s EXCEPT !.col = c]) /\ \A p : Row([s EXCEPT !.prompted = p])
         /\ \A r : Row([s EXCEPT !.row = r, !.col = c])
         /\ \A i, e : Row([s EXCEPT !.col = c, !.row[i] = e])
<1>1. PICK row, col, prompted : s = [row |-> row, col |-> col, prompted |-> prompted]
  BY DEF Row
<1>2. \A r, p : Row([row |-> r, col |-> c, prompted |-> p])
  BY DEF Row
<1>3. [s EXCEPT !.col = c] = [row |-> row, col |-> c, prompted |-> prompted]
  BY <1>1
<1>4. ASSUME NEW p PROVE Row([s EXCEPT !.prompted = p])
  <2>1. [s EXCEPT !.prompted = p] = [row |-> row, col |-> col, prompted |-> p]
    BY <1>1
  <2>2. col \in 0 .. Columns
    BY <1>1 DEF Row
  <2> QED
    BY <2>1, <2>2 DEF Row
<1>5. ASSUME NEW r PROVE Row([s EXCEPT !.row = r, !.col = c])
  <2>1. [s EXCEPT !.row = r, !.col = c] = [row |-> r, col |-> c, prompted |-> prompted]
    <3>1. PICK t : t = [s EXCEPT !.row = r]
      OBVIOUS
    <3>2. t = [row |-> r, col |-> col, prompted |-> prompted]
      BY <1>1, <3>1
    <3>3. [t EXCEPT !.col = c] = [row |-> r, col |-> c, prompted |-> prompted]
      BY <3>2
    <3>4. [s EXCEPT !.row = r, !.col = c] = [t EXCEPT !.col = c]
      BY <3>1
    <3> QED
      BY <3>3, <3>4
  <2> QED
    BY <1>2, <2>1
<1>6. ASSUME NEW i, NEW e PROVE Row([s EXCEPT !.col = c, !.row[i] = e])
  <2>1. [s EXCEPT !.col = c, !.row[i] = e]
          = [row |-> [row EXCEPT ![i] = e], col |-> c, prompted |-> prompted]
    <3>1. PICK t : t = [s EXCEPT !.col = c]
      OBVIOUS
    <3>2. t = [row |-> row, col |-> c, prompted |-> prompted]
      BY <1>1, <3>1
    <3>3. [t EXCEPT !.row[i] = e]
            = [row |-> [row EXCEPT ![i] = e], col |-> c, prompted |-> prompted]
      BY <3>2
    <3>4. [s EXCEPT !.col = c, !.row[i] = e] = [t EXCEPT !.row[i] = e]
      BY <3>1
    <3> QED
      BY <3>3, <3>4
  <2> QED
    BY <1>2, <2>1
<1> QED
  BY <1>2, <1>3, <1>4, <1>5, <1>6

\* What a write leaves on the console.
LEMMA WrittenShows ==
  ASSUME NEW s, Shows(s), NEW w,
         w \in {Text, Prompt, Back, Erase} \/ \E text : IsSequence(text) /\ w = Put(text),
         Columns \in Nat
  PROVE  Shows(Written(s, w))
<1>1. Row(NewRow)
  BY DEF Row, NewRow
<1>2. CASE w = Text \/ s = Garbled
  BY <1>1, <1>2 DEF Written, Shows
<1>3. CASE w # Text /\ s # Garbled
  <2>1. s = [row |-> s.row, col |-> s.col, prompted |-> s.prompted] /\ s.col \in 0 .. Columns
    BY <1>3 DEF Shows, Row
  <2>6. Row(s)
    BY <1>3 DEF Shows
  <2>2. CASE w = Prompt
    <3>1. Row([s EXCEPT !.prompted = TRUE])
      BY <2>6, <2>1, RowMoved
    <3>2. Written(s, w) = IF s = NewRow THEN [s EXCEPT !.prompted = TRUE] ELSE Garbled
      BY <1>3, <2>2 DEF Written
    <3> QED
      BY <3>1, <3>2 DEF Shows
  <2>3. CASE w = Back
    <3>1. s.col # 0 => Row([s EXCEPT !.col = s.col - 1])
      <4>1. s.col # 0 => s.col - 1 \in 0 .. Columns
        BY <2>1
      <4> QED
        BY <2>6, <4>1, RowMoved
    <3>2. Written(s, w) = IF s.col = 0 THEN Garbled ELSE [s EXCEPT !.col = s.col - 1]
      BY <1>3, <2>3 DEF Written, Back, Prompt
    <3> QED
      BY <3>1, <3>2 DEF Shows
  <2>4. CASE w = Erase
    <3>1. s.col # 0 => Row([s EXCEPT !.col = s.col - 1, !.row[s.col] = " "])
      <4>1. s.col # 0 => s.col - 1 \in 0 .. Columns
        BY <2>1
      <4> QED
        BY <2>6, <4>1, RowMoved
    <3>2. Written(s, w)
            = IF s.col = 0 THEN Garbled ELSE [s EXCEPT !.col = s.col - 1, !.row[s.col] = " "]
      BY <1>3, <2>4 DEF Written, Back, Prompt, Erase
    <3> QED
      BY <3>1, <3>2 DEF Shows
  <2>5. ASSUME NEW text, IsSequence(text), w = Put(text) PROVE Shows(Written(s, w))
    <3>1. Len(text) \in Nat
      BY <2>5 DEF IsSequence
    <3>2. Written(s, w) = Overwrite(s, text)
      BY <1>3, <2>5 DEF Written, Put, Prompt, Back, Erase
    <3>3. PICK row : row = [i \in 1 .. Columns |->
                              IF i \in s.col + 1 .. s.col + Len(text) THEN text[i - s.col]
                              ELSE s.row[i]]
      OBVIOUS
    <3>4. Overwrite(s, text)
            = IF s.col + Len(text) > Columns THEN Garbled
              ELSE [s EXCEPT !.row = row, !.col = s.col + Len(text)]
      BY <2>1, <3>3 DEF Overwrite
    <3>5. s.col + Len(text) <= Columns => Row([s EXCEPT !.row = row, !.col = s.col + Len(text)])
      <4>1. s.col + Len(text) <= Columns => s.col + Len(text) \in 0 .. Columns
        BY <2>1, <3>1
      <4> QED
        BY <2>6, <4>1, RowMoved
    <3> QED
      BY <2>1, <3>1, <3>2, <3>4, <3>5 DEF Shows
  <2> QED
    BY <1>3, <2>2, <2>3, <2>4, <2>5
<1> QED
  BY <1>2, <1>3

\* A write of either task, with or without the other's.
LEMMA Writing ==
  ASSUME Shows(screen), Columns \in Nat, NEW w, NEW other, Write(w, other),
         \/ w = Nothing \/ w \in {Text, Prompt, Back, Erase}
         \/ \E text : IsSequence(text) /\ w = Put(text)
  PROVE  Shows(screen')
<1>1. screen' = IF other /\ ~active THEN Garbled
                ELSE IF w = Nothing THEN screen ELSE Written(screen, w)
  BY DEF Write
<1>2. Shows(Garbled)
  BY DEF Shows
<1>3. w # Nothing => Shows(Written(screen, w))
  BY WrittenShows
<1> QED
  BY <1>1, <1>2, <1>3
-----------------------------------------------------------------------------
(* The keys. *)

\* A handler that has nothing to do with the line being one of the history.
LEMMA KeyHandled ==
  ASSUME ShellInv, NEW function, NEW writes, Handles(function, writes),
         Program(writes, Session.size),
         submits' \in 0 .. Session.submits, tabFlag' \in BOOLEAN, recalled' = FALSE,
         overrun' \in BOOLEAN, Ring', offset' \in -number' .. 0
  PROVE  ShellInv'
<1>1. /\ todo' = writes
      /\ UNCHANGED <<session, line, cursor, active, redraw, behind, screen>>
  BY DEF Handles
<1>2. Session' = Session
  BY <1>1 DEF Session
<1>3. /\ session' \in DOMAIN Sessions /\ submits' \in 0 .. Session'.submits
      /\ Editable(line', Session'.size) /\ cursor' \in 0 .. Len(line')
      /\ redraw' \in {"idle", "text", "after", "line", "back"} /\ behind' \in 0 .. Columns
      /\ Shows(screen') /\ Program(todo', Session'.size)
  BY <1>1, <1>2 DEF ShellInv
<1>4. Flags'
  BY <1>1, Zenon DEF ShellInv, Flags
<1> QED
  BY <1>3, <1>4 DEF ShellInv, Arriving

\* The same, when the history stays as it is.
LEMMA KeyPlain ==
  ASSUME ShellInv, NEW function, NEW writes, Handles(function, writes),
         Program(writes, Session.size), tabFlag' \in BOOLEAN, recalled' = FALSE,
         UNCHANGED <<submits, item, record, number, offset, recent, overrun>>
  PROVE  ShellInv'
<1>1. Ring'
  <2>1. Ring /\ UNCHANGED <<session, item, record, number, recent, overrun>>
    BY DEF ShellInv, Handles
  <2> QED
    BY <2>1, RingStays
<1>2. submits' \in 0 .. Session.submits /\ offset' \in -number' .. 0
  BY DEF ShellInv
<1>3. overrun' \in BOOLEAN
  BY Zenon DEF ShellInv, Flags
<1> QED
  BY <1>1, <1>2, <1>3, KeyHandled

\* What is in force whenever a key is handled.
LEMMA Known ==
  ASSUME ShellInv
  PROVE  /\ session \in DOMAIN Sessions /\ Session.size \in Nat
         /\ Editable(line, Session.size) /\ IsSequence(line) /\ Len(line) \in Nat
         /\ cursor \in 0 .. Len(line) /\ cursor \in Int
         /\ tabFlag \in BOOLEAN /\ Columns \in Nat
<1>1. session \in DOMAIN Sessions /\ Editable(line, Session.size) /\ cursor \in 0 .. Len(line)
  BY DEF ShellInv
<1>2. IsSequence(line) /\ Len(line) \in Nat
  BY <1>1 DEF Editable, IsSequence
<1>3. tabFlag \in BOOLEAN
  BY DEF ShellInv, Flags
<1>4. Session.size \in Nat /\ Columns \in Nat
  BY <1>1, SessionRight
<1> QED
  BY <1>1, <1>2, <1>3, <1>4

\* A byte of a key that is not its last.
LEMMA ByteTaken ==
  ASSUME ShellInv, KeyByte
  PROVE  ShellInv'
<1>1. UNCHANGED <<session, submits, history, line, cursor, active, todo, redraw, behind, screen>>
  BY DEF KeyByte
<1>2. UNCHANGED <<item, record, number, offset, tabFlag, recent, overrun, recalled>>
  BY <1>1 DEF history
<1>3. Session' = Session
  BY <1>1 DEF Session
<1>4. Ring'
  BY <1>1, <1>2, RingStays DEF ShellInv
<1>5. Flags'
  BY <1>1, <1>2 DEF ShellInv, Flags
<1>6. Arriving'
  BY <1>1, <1>2 DEF ShellInv, Arriving, Coming
<1>7. /\ session' \in DOMAIN Sessions /\ submits' \in 0 .. Session'.submits
      /\ Editable(line', Session'.size) /\ cursor' \in 0 .. Len(line')
      /\ redraw' \in {"idle", "text", "after", "line", "back"} /\ behind' \in 0 .. Columns
      /\ Shows(screen') /\ Program(todo', Session'.size) /\ offset' \in -number' .. 0
  BY <1>1, <1>2, <1>3 DEF ShellInv
<1> QED
  BY <1>4, <1>5, <1>6, <1>7 DEF ShellInv

\* The keys that move the cursor or delete a character.
LEMMA LineEdited ==
  ASSUME ShellInv, ShellRight \/ ShellLeft \/ ShellBackspace \/ ShellDelete
  PROVE  ShellInv'
<1>1. ASSUME NEW function, NEW writes, Moves(function, writes), Program(writes, Session.size)
      PROVE  ShellInv'
  <2>1. /\ Handles(function, writes) /\ recalled' = FALSE
        /\ UNCHANGED <<submits, item, record, number, offset, recent, overrun>> /\ tabFlag' = tabFlag
    BY <1>1 DEF Moves
  <2>2. tabFlag' \in BOOLEAN
    BY <2>1, Known, Zenon
  <2> QED
    BY <1>1, <2>1, <2>2, KeyPlain
<1>2. /\ Program(Right(line, cursor), Session.size) /\ Program(Left(line, cursor), Session.size)
      /\ Program(DeleteBefore(line, cursor), Session.size)
      /\ Program(DeleteAt(line, cursor), Session.size)
  BY Known, Moving, DeletingBefore, DeletingAt
<1> QED
  BY <1>1, <1>2 DEF ShellRight, ShellLeft, ShellBackspace, ShellDelete

\* Any other character.
LEMMA CharacterTyped ==
  ASSUME ShellInv, NEW data, NormalInput(data)
  PROVE  ShellInv'
<1>1. /\ UNCHANGED <<session, submits, item, record, number, offset, recent, overrun, line, cursor,
                     active, redraw, behind, screen>>
      /\ todo' = InsertByte(line, cursor, data) /\ tabFlag' = FALSE /\ recalled' = FALSE
  BY DEF NormalInput
<1>2. Program(todo', Session.size)
  BY <1>1, Known, Inserting
<1>3. Session' = Session
  BY <1>1 DEF Session
<1>4. Ring'
  BY <1>1, RingStays DEF ShellInv
<1>5. Flags'
  BY <1>1 DEF ShellInv, Flags
<1>6. /\ session' \in DOMAIN Sessions /\ submits' \in 0 .. Session'.submits
      /\ Editable(line', Session'.size) /\ cursor' \in 0 .. Len(line')
      /\ redraw' \in {"idle", "text", "after", "line", "back"} /\ behind' \in 0 .. Columns
      /\ Shows(screen') /\ Program(todo', Session'.size) /\ offset' \in -number' .. 0
  BY <1>1, <1>2, <1>3 DEF ShellInv
<1> QED
  BY <1>1, <1>4, <1>5, <1>6 DEF ShellInv, Arriving

\* The tab key.
LEMMA Tabbed ==
  ASSUME ShellInv, ShellTab
  PROVE  ShellInv'
<1>1. UNCHANGED <<submits, item, record, number, offset, recent, overrun>> /\ recalled' = FALSE
  BY DEF ShellTab
<1>2. PICK quick \in BOOLEAN :
        IF line = <<>>
        THEN /\ Handles("tab", ListAll \o WritePrompt(TRUE))
             /\ tabFlag' = TRUE
        ELSE IF Matches(line) = {}
        THEN /\ Handles("tab", <<>>)
             /\ UNCHANGED tabFlag
        ELSE LET help == quick /\ tabFlag /\ Cardinality(Matches(line)) = 1
             IN /\ Handles("tab", Complete(line, cursor) \o (IF help THEN QuickHelp(line) ELSE <<>>))
                /\ tabFlag' = (tabFlag \/ ~help)
  BY Zenon DEF ShellTab
<1>3. CASE line = <<>>
  <2>1. Handles("tab", ListAll \o WritePrompt(TRUE)) /\ tabFlag' \in BOOLEAN
    BY <1>2, <1>3, Zenon
  <2>2. Program(ListAll, Session.size) /\ Program(WritePrompt(TRUE), Session.size)
    BY Known, Listing, Prompting DEF ListAll, ListCommand
  <2>3. Program(Join(ListAll, WritePrompt(TRUE)), Session.size)
    BY <2>2, Then
  <2>4. Handles("tab", Join(ListAll, WritePrompt(TRUE)))
    BY <2>1, Zenon DEF Join
  <2> QED
    BY <1>1, <2>1, <2>3, <2>4, KeyPlain
<1>4. CASE line # <<>> /\ Matches(line) = {}
  <2>1. Handles("tab", <<>>) /\ tabFlag' = tabFlag
    BY <1>2, <1>4, Zenon
  <2>2. tabFlag' \in BOOLEAN
    BY <2>1, Known, Zenon
  <2>3. Program(<<>>, Session.size)
    BY NothingToDo
  <2> QED
    BY <1>1, <2>1, <2>2, <2>3, KeyPlain
<1>5. CASE line # <<>> /\ Matches(line) # {}
  <2> DEFINE help == quick /\ tabFlag /\ Cardinality(Matches(line)) = 1
  <2> DEFINE more == IF help THEN QuickHelp(line) ELSE <<>>
  <2>1. Handles("tab", Complete(line, cursor) \o more) /\ tabFlag' = (tabFlag \/ ~help)
    BY <1>2, <1>5, Zenon
  <2>2. tabFlag' \in BOOLEAN
    BY <2>1, Zenon
  <2>3. Program(more, Session.size)
    BY <1>5, Known, Helping, NothingToDo
  <2> HIDE DEF more, help
  <2>4. Program(Complete(line, cursor), Session.size)
    BY <1>5, Known, Completing
  <2>5. Program(Join(Complete(line, cursor), more), Session.size)
    BY <2>3, <2>4, Then
  <2>6. Handles("tab", Join(Complete(line, cursor), more))
    BY <2>1, Zenon DEF Join
  <2> QED
    BY <1>1, <2>2, <2>5, <2>6, KeyPlain
<1> QED
  BY <1>3, <1>4, <1>5

\* An empty line is entered.
LEMMA NothingEntered ==
  ASSUME ShellInv, EnterNothing
  PROVE  ShellInv'
<1>1. /\ Handles("enter", WritePrompt(TRUE)) /\ recalled' = FALSE /\ tabFlag' = tabFlag
      /\ UNCHANGED <<submits, item, record, number, offset, recent, overrun>>
  BY DEF EnterNothing
<1>2. tabFlag' \in BOOLEAN
  BY <1>1, Known, Zenon
<1>3. Program(WritePrompt(TRUE), Session.size)
  BY Prompting
<1> QED
  BY <1>1, <1>2, <1>3, KeyPlain

\* What is left of an entry fits its place.
LEMMA RemainsFit ==
  ASSUME session \in DOMAIN Sessions, NEW entry, Editable(entry, Session.size),
         NEW t \in Remains(entry)
  PROVE  Editable(t, Session.size)
<1>1. Session.size \in Nat /\ Len(entry) \in Nat /\ Len(entry) < Session.size
  BY SessionRight DEF Editable, IsSequence
<1>2. CASE t = entry
  BY <1>2
<1>3. CASE IsSequence(t) /\ Len(t) <= Len(entry)
  <2>1. Len(t) \in Nat
    BY <1>3 DEF IsSequence
  <2> QED
    BY <1>1, <1>3, <2>1 DEF Editable
<1>4. ASSUME NEW n \in 0 .. Session.size - 1, t = Repeat(Stale, n) PROVE Editable(t, Session.size)
  <2>1. n \in Nat /\ n < Session.size
    BY <1>1
  <2>2. IsSequence(t) /\ Len(t) = n
    BY <1>4, <2>1, RepeatIs
  <2> QED
    BY <2>1, <2>2 DEF Editable
<1>5. \/ t = entry
      \/ IsSequence(t) /\ Len(t) <= Len(entry)
      \/ \E n \in 0 .. Session.size - 1 : t = Repeat(Stale, n)
  BY Zenon DEF Remains
<1> QED
  BY <1>2, <1>3, <1>4, <1>5

\* The entries of the history, each of which fits its place.
Entries(ring) ==
  /\ ring = [i \in 0 .. H - 1 |-> ring[i]]
  /\ \A i \in 0 .. H - 1 : Editable(ring[i], Session.size)

\* The run of a line leaves such entries, and the same if it does not overrun.
LEMMA LeavingsFit ==
  ASSUME session \in DOMAIN Sessions, NEW l, NEW ring, Entries(ring), NEW left \in Leavings(l, ring)
  PROVE  Entries(left) /\ (~Overruns(l) => left = ring)
<1>1. CASE ~Overruns(l)
  BY <1>1 DEF Leavings
<1>2. CASE Overruns(l)
  <2>1. /\ left \in [0 .. H - 1 -> UNION {Remains(ring[i]) : i \in 0 .. H - 1}]
        /\ \A i \in 0 .. H - 1 : left[i] \in Remains(ring[i])
    BY <1>2, Zenon DEF Leavings
  <2>2. left = [i \in 0 .. H - 1 |-> left[i]]
    BY <2>1
  <2>3. ASSUME NEW i \in 0 .. H - 1 PROVE Editable(left[i], Session.size)
    <3>1. Editable(ring[i], Session.size) /\ left[i] \in Remains(ring[i])
      BY <2>1 DEF Entries
    <3> QED
      BY <3>1, RemainsFit
  <2> QED
    BY <1>2, <2>2, <2>3 DEF Entries
<1> QED
  BY <1>1, <1>2

\* They fit, and the oldest is now the line.
Renewed(ring, l) ==
  /\ Entries(ring) /\ ring[record] = l
  /\ \A i \in 0 .. H - 1 : i # record => ring[i] = item[i]

\* With one of them replaced by a line they still fit.
LEMMA EntryReplaced ==
  ASSUME Entries(item), H \in Nat \ {0}, record \in 0 .. H - 1,
         NEW l, Editable(l, Session.size), NEW ring, ring = [item EXCEPT ![record] = l]
  PROVE  Renewed(ring, l)
<1>1. item \in [0 .. H - 1 -> {item[i] : i \in 0 .. H - 1}]
  BY DEF Entries
<1>2. /\ ring = [i \in 0 .. H - 1 |-> ring[i]] /\ ring[record] = l
      /\ \A i \in 0 .. H - 1 : i # record => ring[i] = item[i]
  BY <1>1
<1> QED
  BY <1>2 DEF Entries, Renewed

\* Where the ring is after the line.
LEMMA RingTurns ==
  ASSUME Ring, H \in Nat \ {0}, record' = (record + 1) % H, number' = Min({number + 1, H})
  PROVE  /\ number' = (IF number + 1 <= H THEN number + 1 ELSE H)
         /\ record' = (IF record + 1 = H THEN 0 ELSE record + 1)
         /\ record' \in 0 .. H - 1 /\ number' \in 1 .. H /\ (number' < H => record' = number')
<1>1. record \in 0 .. H - 1 /\ number \in 0 .. H /\ (number < H => record = number)
  BY DEF Ring
<1>2. number' = IF number + 1 <= H THEN number + 1 ELSE H
  <2>1. number + 1 \in Int /\ H \in Int
    BY <1>1
  <2>2. Min({number + 1, H}) = IF number + 1 <= H THEN number + 1 ELSE H
    BY <2>1, OfTwo
  <2> QED
    BY <2>2
<1>3. record' = IF record + 1 = H THEN 0 ELSE record + 1
  BY <1>1, Around
<1> QED
  BY <1>1, <1>2, <1>3

\* A line that overruns leaves entries of which only their size is known.
LEMMA RingOverrun ==
  ASSUME session \in DOMAIN Sessions, session' = session, H \in Nat \ {0}, NEW l, Overruns(l),
         NEW ring, Entries(ring), item' \in Leavings(l, ring),
         record' \in 0 .. H - 1, number' \in 0 .. H, number' < H => record' = number',
         recent' = <<>>, overrun' = TRUE
  PROVE  Ring'
<1>1. Entries(item')
  BY LeavingsFit
<1>2. Session' = Session
  BY DEF Session
<1>3. item' = [i \in 0 .. H - 1 |-> item'[i]] /\ \A i \in 0 .. H - 1 : Editable(item'[i], Session'.size)
  BY <1>1, <1>2 DEF Entries
<1>4. IsSequence(recent') /\ Len(recent') = 0 /\ number' \in Nat
  BY NoElement
<1>5. \A k \in 1 .. Len(recent') : Recall(-k)' = recent'[k]
  <2>1. \A k \in 1 .. 0 : FALSE
    OBVIOUS
  <2> QED
    BY <1>4, <2>1
<1>6. Len(recent') <= number'
  BY <1>4
<1> QED
  BY <1>3, <1>4, <1>5, <1>6 DEF Ring

\* The lines entered, with one more in front and no more than H of them.
Fronted(lines, l) ==
  /\ IsSequence(lines)
  /\ Len(lines) = (IF Len(recent) + 1 <= H THEN Len(recent) + 1 ELSE H)
  /\ Len(lines) \in Nat \ {0} /\ lines[1] = l
  /\ \A k \in 2 .. Len(lines) : k - 1 \in 1 .. Len(recent) /\ lines[k] = recent[k - 1]

\* Entered makes them so.
LEMMA OneMoreLine ==
  ASSUME IsSequence(recent), Len(recent) <= H, H \in Nat \ {0}, NEW l, NEW lines,
         lines = SubSeq(<<l>> \o recent, 1, Min({Len(recent) + 1, H}))
  PROVE  Fronted(lines, l)
<1>1. Len(recent) \in Nat
  BY DEF IsSequence
<1>2. PICK n : n = Min({Len(recent) + 1, H})
  OBVIOUS
<1>3. n = IF Len(recent) + 1 <= H THEN Len(recent) + 1 ELSE H
  <2>1. Len(recent) + 1 \in Int /\ H \in Int
    BY <1>1
  <2> QED
    BY <1>2, <2>1, OfTwo
<1>4. n \in Nat \ {0} /\ n <= Len(recent) + 1
  BY <1>1, <1>3
<1>5. PICK e : e = <<l>>
  OBVIOUS
<1>6. IsSequence(e) /\ Len(e) = 1 /\ e[1] = l
  BY <1>5, OneElement
<1>7. PICK j : j = Join(e, recent)
  OBVIOUS
<1>8. /\ IsSequence(j) /\ Len(j) = Len(e) + Len(recent)
      /\ \A k \in 1 .. Len(e) : j[k] = e[k]
      /\ \A k \in 1 .. Len(e) + Len(recent) : k > Len(e) => j[k] = recent[k - Len(e)]
  BY <1>6, <1>7, SequencesJoined
<1>9. /\ Len(j) = Len(recent) + 1 /\ j[1] = l
      /\ \A k \in 2 .. Len(recent) + 1 : j[k] = recent[k - 1]
  BY <1>1, <1>6, <1>8
<1>10. lines = SubSeq(j, 1, n)
  BY <1>2, <1>5, <1>7 DEF Join
<1>11. n \in 0 .. Len(j) /\ n \in Int /\ n <= Len(j) /\ 1 \in Nat \ {0}
  BY <1>1, <1>4, <1>9
<1>12. IsSequence(lines) /\ Len(lines) = n
  BY <1>8, <1>10, <1>11, Beginning
<1>13. ASSUME NEW k \in 1 .. n PROVE lines[k] = j[k]
  <2>1. \A m \in 1 .. n - 1 + 1 : SubSeq(j, 1, n)[m] = j[1 + m - 1]
    BY <1>8, <1>11, PartOf
  <2>2. k \in 1 .. n - 1 + 1 /\ 1 + k - 1 = k
    BY <1>4
  <2>3. SubSeq(j, 1, n)[k] = j[1 + k - 1]
    BY <2>1, <2>2
  <2> QED
    BY <1>10, <2>2, <2>3
<1>14. lines[1] = l
  <2>1. 1 \in 1 .. n
    BY <1>4
  <2>2. lines[1] = j[1]
    BY <1>13, <2>1
  <2> QED
    BY <1>9, <2>2
<1>15. ASSUME NEW k \in 2 .. n PROVE k - 1 \in 1 .. Len(recent) /\ lines[k] = recent[k - 1]
  <2>1. k \in 1 .. n /\ k \in 2 .. Len(recent) + 1 /\ k - 1 \in 1 .. Len(recent)
    BY <1>1, <1>4
  <2> QED
    BY <1>9, <1>13, <2>1
<1> QED
  BY <1>3, <1>4, <1>12, <1>14, <1>15 DEF Fronted

\* A line goes into the ring unless it is the newest entry.
LEMMA RingAdds ==
  ASSUME ShellInv, NEW l, Editable(l, Session.size), HistoryAdd(l),
         recent' = (IF Overruns(l) THEN <<>> ELSE Entered(l)),
         overrun' = (overrun \/ Overruns(l)), session' = session
  PROVE  Ring' /\ offset' \in -number' .. 0
<1>1. /\ record \in 0 .. H - 1 /\ number \in 0 .. H /\ (number < H => record = number)
      /\ Entries(item)
      /\ IsSequence(recent) /\ Len(recent) <= number /\ (overrun \/ Len(recent) = number)
      /\ \A k \in 1 .. Len(recent) : Recall(-k) = recent[k]
      /\ Ring /\ session \in DOMAIN Sessions
  BY DEF ShellInv, Ring, Entries
<1>2. H \in Nat \ {0} /\ Len(recent) \in Nat
  BY <1>1, ShellAssumption DEF IsSequence
<1>3. /\ \A k \in 0 .. H : (record + H + (-k)) % H = IF k <= record THEN record - k ELSE record + H - k
      /\ (record + 1) % H = IF record + 1 = H THEN 0 ELSE record + 1
  BY <1>1, <1>2, Around
<1>4. \A k \in 0 .. H : Recall(-k) = item[IF k <= record THEN record - k ELSE record + H - k]
  BY <1>3 DEF Recall
<1>5. Newest = Recall(-1)
  <2>1. Recall(-1) = item[IF 1 <= record THEN record - 1 ELSE record + H - 1]
    BY <1>2, <1>4
  <2>2. (IF 1 <= record THEN record - 1 ELSE record + H - 1) = (IF record = 0 THEN H ELSE record) - 1
    BY <1>1, <1>2
  <2> QED
    BY <2>1, <2>2 DEF Newest
<1>6. Len(recent) > 0 => recent # <<>> /\ Head(recent) = Newest
  <2>1. Len(recent) > 0 => Recall(-1) = recent[1]
    BY <1>1, <1>2
  <2>2. \A s : IsSequence(s) /\ Len(s) > 0 => s # <<>> /\ Head(s) = s[1]
    BY DEF IsSequence
  <2> QED
    BY <1>1, <1>5, <2>1, <2>2
<1>7. Len(recent) = 0 => recent = <<>>
  BY <1>1 DEF IsSequence
<1>8. offset' = 0 /\ Session' = Session
  BY DEF HistoryAdd, Session
<1>9. CASE number > 0 /\ Newest = l
  <2>1. item' \in Leavings(l, item) /\ UNCHANGED <<record, number>>
    BY <1>9 DEF HistoryAdd
  <2>2. CASE Overruns(l)
    <3>1. Ring'
      BY <1>1, <1>2, <2>1, <2>2, RingOverrun
    <3> QED
      BY <1>1, <1>8, <2>1, <3>1
  <2>3. CASE ~Overruns(l)
    <3>1. item' = item /\ recent' = Entered(l)
      BY <1>1, <2>1, <2>3, LeavingsFit
    <3>2. (overrun' /\ overrun) \/ (~overrun' /\ ~overrun)
      BY <2>3
    <3>3. CASE Len(recent) > 0
      <4>1. recent' = recent
        BY <1>6, <1>9, <3>1, <3>3 DEF Entered
      <4>2. Ring'
        <5>1. overrun' \/ Len(recent') = number'
          BY <1>1, <2>1, <3>2, <4>1
        <5> QED
          BY <1>1, <1>8, <2>1, <3>1, <4>1, <5>1 DEF Ring, Recall
      <4> QED
        BY <1>1, <1>8, <2>1, <4>2
    <3>4. CASE Len(recent) = 0
      <4>1. recent = <<>> /\ overrun'
        BY <1>1, <1>7, <1>9, <3>2, <3>4
      <4>2. recent' = SubSeq(<<l>> \o recent, 1, Min({Len(recent) + 1, H}))
        BY <3>1, <4>1 DEF Entered
      <4>3. /\ IsSequence(recent') /\ Len(recent') = 1 /\ recent'[1] = l
        <5>1. Len(recent) <= H
          BY <1>2, <3>4
        <5>2. Fronted(recent', l)
          BY <1>1, <1>2, <4>2, <5>1, OneMoreLine, Zenon
        <5> QED
          BY <1>2, <3>4, <5>2 DEF Fronted
      <4>4. Recall(-1) = l /\ Recall(-1) = item[(record + H + (-1)) % H]
        BY <1>5, <1>9 DEF Recall
      <4>5. ASSUME NEW k \in 1 .. Len(recent') PROVE Recall(-k)' = recent'[k]
        <5>1. k = 1
          BY <4>3
        <5>2. Recall(-k)' = item'[(record' + H + (-k)) % H]
          BY DEF Recall
        <5>3. item'[(record' + H + (-k)) % H] = l
          BY <2>1, <3>1, <4>4, <5>1
        <5> QED
          BY <4>3, <5>1, <5>2, <5>3
      <4>6. Len(recent') <= number'
        <5>1. number \in Int /\ number > 0 /\ number' = number
          BY <1>1, <1>2, <1>9, <2>1
        <5>2. PICK n : n = Len(recent')
          OBVIOUS
        <5>3. n = 1 /\ n <= number'
          BY <4>3, <5>1, <5>2
        <5> QED
          BY <5>2, <5>3
      <4>7. Ring'
        BY <1>1, <1>8, <2>1, <3>1, <4>1, <4>3, <4>5, <4>6 DEF Ring, Entries
      <4> QED
        BY <1>1, <1>8, <2>1, <4>7
    <3> QED
      BY <1>2, <3>3, <3>4
  <2> QED
    BY <2>2, <2>3
<1>10. CASE ~ (number > 0 /\ Newest = l)
  <2>1. PICK ring : ring = [item EXCEPT ![record] = l]
    OBVIOUS
  <2>2. item' \in Leavings(l, ring) /\ record' = (record + 1) % H /\ number' = Min({number + 1, H})
    BY <1>10, <2>1 DEF HistoryAdd
  <2>3. /\ Entries(ring) /\ ring[record] = l
        /\ \A i \in 0 .. H - 1 : i # record => ring[i] = item[i]
    <3>1. Entries(item) /\ H \in Nat \ {0} /\ record \in 0 .. H - 1
      BY <1>1, <1>2
    <3>2. Renewed(ring, l)
      BY <2>1, <3>1, EntryReplaced, Zenon
    <3> QED
      BY <3>2 DEF Renewed
  <2>4. /\ number' = (IF number + 1 <= H THEN number + 1 ELSE H)
        /\ record' = (IF record + 1 = H THEN 0 ELSE record + 1)
        /\ record' \in 0 .. H - 1 /\ number' \in 1 .. H /\ (number' < H => record' = number')
    BY <1>1, <1>2, <2>2, RingTurns
  <2>5. offset' \in -number' .. 0
    BY <1>2, <1>8, <2>4
  <2>6. CASE Overruns(l)
    <3>1. number' \in 0 .. H
      BY <1>2, <2>4
    <3>2. Ring'
      BY <1>1, <1>2, <2>2, <2>3, <2>4, <2>6, <3>1, RingOverrun
    <3> QED
      BY <2>5, <3>2
  <2>7. CASE ~Overruns(l)
    <3>1. item' = ring /\ recent' = Entered(l)
      BY <1>1, <2>2, <2>3, <2>7, LeavingsFit
    <3>2. recent' = SubSeq(<<l>> \o recent, 1, Min({Len(recent) + 1, H}))
      <4>1. ~ (recent # <<>> /\ Head(recent) = l)
        BY <1>1, <1>2, <1>6, <1>7, <1>10
      <4> QED
        BY <3>1, <4>1 DEF Entered
    <3>3. Len(recent) <= H
      BY <1>1, <1>2
    <3>4. /\ IsSequence(recent')
          /\ Len(recent') = (IF Len(recent) + 1 <= H THEN Len(recent) + 1 ELSE H)
          /\ Len(recent') \in Nat \ {0} /\ recent'[1] = l
          /\ \A k \in 2 .. Len(recent') : k - 1 \in 1 .. Len(recent) /\ recent'[k] = recent[k - 1]
      <4>1. Fronted(recent', l)
        BY <1>1, <1>2, <3>2, <3>3, OneMoreLine, Zenon
      <4> QED
        BY <4>1 DEF Fronted
    <3>5. Len(recent') <= number' /\ Len(recent') <= H
      BY <1>1, <1>2, <2>4, <3>4
    <3>6. overrun' \/ Len(recent') = number'
      <4>1. Len(recent) = number => Len(recent') = number'
        BY <1>1, <1>2, <2>4, <3>4
      <4> QED
        BY <1>1, <2>7, <4>1
    <3>7. ASSUME NEW k \in 1 .. Len(recent') PROVE Recall(-k)' = recent'[k]
      <4>1. k \in 1 .. H /\ k \in 0 .. H
        BY <1>2, <3>4, <3>5
      <4>2. (record' + H + (-k)) % H = IF k <= record' THEN record' - k ELSE record' + H - k
        BY <1>2, <2>4, <4>1, Around, Zenon
      <4>3. Recall(-k)' = item'[IF k <= record' THEN record' - k ELSE record' + H - k]
        BY <4>2 DEF Recall
      <4>4. CASE k = 1
        <5>1. (IF k <= record' THEN record' - k ELSE record' + H - k) = record
          BY <1>1, <1>2, <2>4, <4>4
        <5> QED
          BY <2>3, <3>1, <3>4, <4>3, <4>4, <5>1
      <4>5. CASE k # 1
        <5>1. /\ k \in 2 .. Len(recent') /\ k - 1 \in 1 .. Len(recent) /\ k - 1 \in 0 .. H
              /\ recent'[k] = recent[k - 1]
          BY <1>1, <1>2, <3>4, <4>1, <4>5
        <5>2. PICK i : i = IF k - 1 <= record THEN record - (k - 1) ELSE record + H - (k - 1)
          OBVIOUS
        <5>3. (IF k <= record' THEN record' - k ELSE record' + H - k) = i
          <6>1. CASE record + 1 = H
            BY <1>1, <1>2, <2>4, <4>1, <5>1, <5>2, <6>1
          <6>2. CASE record + 1 # H
            BY <1>1, <1>2, <2>4, <4>1, <5>1, <5>2, <6>2
          <6> QED
            BY <6>1, <6>2
        <5>4. i \in 0 .. H - 1 /\ i # record
          BY <1>1, <1>2, <4>1, <4>5, <5>1, <5>2
        <5>5. Recall(-(k - 1)) = item[i]
          BY <1>4, <5>1, <5>2
        <5>6. Recall(-(k - 1)) = recent[k - 1]
          BY <1>1, <5>1
        <5> QED
          BY <2>3, <3>1, <4>3, <5>1, <5>3, <5>4, <5>5, <5>6
      <4> QED
        BY <4>4, <4>5
    <3>8. /\ item' = [i \in 0 .. H - 1 |-> item'[i]]
          /\ \A i \in 0 .. H - 1 : Editable(item'[i], Session'.size)
      BY <1>8, <2>3, <3>1 DEF Entries
    <3>9. number' \in 0 .. H
      BY <1>2, <2>4
    <3>10. Ring'
      BY <2>4, <3>4, <3>5, <3>6, <3>7, <3>8, <3>9 DEF Ring
    <3> QED
      BY <2>5, <3>10
  <2> QED
    BY <2>6, <2>7
<1> QED
  BY <1>9, <1>10

\* A line is entered, which is executed and goes into the history.
LEMMA LineEntered ==
  ASSUME ShellInv, EnterLine
  PROVE  ShellInv'
<1>1. /\ submits > 0 /\ submits' = submits - 1 /\ Handles("enter", Exec(line) \o WritePrompt(TRUE))
      /\ HistoryAdd(line) /\ recent' = (IF Overruns(line) THEN <<>> ELSE Entered(line))
      /\ overrun' = (overrun \/ Overruns(line)) /\ recalled' = FALSE /\ tabFlag' = tabFlag
  BY DEF EnterLine
<1>2. tabFlag' \in BOOLEAN
  BY <1>1, Known, Zenon
<1>3. Program(Exec(line), Session.size) /\ Program(WritePrompt(TRUE), Session.size)
  BY Known, Executing, Prompting
<1>4. Program(Join(Exec(line), WritePrompt(TRUE)), Session.size)
  BY <1>3, Then
<1>5. Handles("enter", Join(Exec(line), WritePrompt(TRUE)))
  BY <1>1, Zenon DEF Join
<1>6. submits' \in 0 .. Session.submits
  <2>1. Session.submits \in Nat /\ submits \in 0 .. Session.submits
    BY Known, SessionRight DEF ShellInv
  <2> QED
    BY <1>1, <2>1
<1>7. session' = session
  BY <1>5 DEF Handles
<1>8. Ring' /\ offset' \in -number' .. 0
  BY <1>1, <1>7, Known, RingAdds
<1>9. overrun' \in BOOLEAN
  BY <1>1, Zenon DEF Overruns, ShellInv, Flags
<1> QED
  BY <1>1, <1>2, <1>4, <1>5, <1>6, <1>8, <1>9, KeyHandled

\* The up and down keys.
LEMMA HistoryShown ==
  ASSUME ShellInv, NEW o \in -number .. 0, NEW function,
         Handles(function, Recalled(line, cursor, o)),
         offset' = o, recalled' = (o # 0),
         UNCHANGED <<submits, item, record, number, tabFlag, recent, overrun>>
  PROVE  ShellInv'
<1>1. /\ todo' = Recalled(line, cursor, o)
      /\ UNCHANGED <<session, line, cursor, active, redraw, behind, screen>>
  BY DEF Handles
<1>2. Session' = Session
  BY <1>1 DEF Session
<1>3. /\ record \in 0 .. H - 1 /\ number \in 0 .. H
      /\ \A i \in 0 .. H - 1 : Editable(item[i], Session.size)
      /\ \A k \in 1 .. Len(recent) : Recall(-k) = recent[k]
      /\ IsSequence(recent)
  BY DEF ShellInv, Ring
<1>4. H \in Nat \ {0} /\ o \in Int
  BY <1>3, ShellAssumption
<1>5. o # 0 => Editable(Recall(o), Session.size)
  <2>1. (record + H + o) % H \in 0 .. H - 1
    <3>1. PICK x \in Int : x = record + H + o
      BY <1>3, <1>4
    <3>2. x % H \in 0 .. H - 1
      BY <1>4
    <3> QED
      BY <3>1, <3>2
  <2> QED
    BY <1>3, <2>1 DEF Recall
<1>6. /\ Program(Recalled(line, cursor, o), Session.size)
      /\ o # 0 => Coming(Recalled(line, cursor, o), Recall(o))
  BY <1>4, <1>5, Known, Recalling
<1>7. o # 0 /\ -o <= Len(recent) => Recall(o) = recent[-o]
  <2>1. Len(recent) \in Nat
    BY <1>3 DEF IsSequence
  <2>2. o # 0 /\ -o <= Len(recent) => -o \in 1 .. Len(recent) /\ -(-o) = o
    BY <1>3, <2>1
  <2> QED
    BY <1>3, <2>2
<1>8. Arriving'
  BY <1>1, <1>6, <1>7 DEF Arriving, Coming
<1>9. Flags'
  <2>1. recalled' \in BOOLEAN
    BY Zenon
  <2> QED
    BY <1>1, <2>1, Zenon DEF ShellInv, Flags
<1>10. Ring'
  BY <1>1, RingStays DEF ShellInv
<1>11. /\ session' \in DOMAIN Sessions /\ submits' \in 0 .. Session'.submits
       /\ Editable(line', Session'.size) /\ cursor' \in 0 .. Len(line')
       /\ redraw' \in {"idle", "text", "after", "line", "back"} /\ behind' \in 0 .. Columns
       /\ Shows(screen') /\ Program(todo', Session'.size) /\ offset' \in -number' .. 0
  BY <1>1, <1>2, <1>6 DEF ShellInv
<1> QED
  BY <1>8, <1>9, <1>10, <1>11 DEF ShellInv

\* The up key goes no further back than there are entries.
LEMMA WentUp ==
  ASSUME ShellInv, ShellUp
  PROVE  ShellInv'
<1> DEFINE top == Max({number, record})
<1> DEFINE to == IF offset <= -top THEN -top ELSE offset - 1
<1>1. /\ record \in 0 .. H - 1 /\ number \in 0 .. H /\ (number < H => record = number)
      /\ offset \in -number .. 0
  BY DEF ShellInv, Ring
<1>2. H \in Nat \ {0}
  BY ShellAssumption
<1>3. top = number
  <2>1. number \in Int /\ record \in Int
    BY <1>1, <1>2
  <2>2. Max({number, record}) = IF number >= record THEN number ELSE record
    BY <2>1, OfTwo
  <2> QED
    BY <1>1, <1>2, <2>2
<1>4. to \in -number .. 0
  <2> HIDE DEF top
  <2> QED
    BY <1>1, <1>3
<1>5. /\ Handles("up", Recalled(line, cursor, to)) /\ offset' = to /\ recalled' = (to # 0)
      /\ UNCHANGED <<submits, item, record, number, tabFlag, recent, overrun>>
  BY Zenon DEF ShellUp
<1> HIDE DEF to
<1> QED
  BY <1>4, <1>5, HistoryShown

\* The down key goes no further forward than the empty line.
LEMMA WentDown ==
  ASSUME ShellInv, ShellDown
  PROVE  ShellInv'
<1>1. offset \in -number .. 0 /\ number \in Nat
  BY DEF ShellInv, Ring
<1>2. /\ Handles("down", IF offset = 0 THEN <<>> ELSE Recalled(line, cursor, offset + 1))
      /\ offset' = (IF offset = 0 THEN 0 ELSE offset + 1) /\ recalled' = (offset' # 0)
      /\ UNCHANGED <<submits, item, record, number, tabFlag, recent, overrun>>
  BY DEF ShellDown
<1>3. CASE offset = 0
  <2>1. Handles("down", <<>>) /\ offset' = offset /\ recalled' = FALSE /\ tabFlag' = tabFlag
    BY <1>2, <1>3, Zenon
  <2>2. tabFlag' \in BOOLEAN
    BY <2>1, Known, Zenon
  <2>3. Program(<<>>, Session.size)
    BY NothingToDo
  <2> QED
    BY <1>2, <2>1, <2>2, <2>3, KeyPlain
<1>4. CASE offset # 0
  <2>1. /\ Handles("down", Recalled(line, cursor, offset + 1)) /\ offset' = offset + 1
        /\ recalled' = (offset + 1 # 0)
    BY <1>2, <1>4, Zenon
  <2>2. offset + 1 \in -number .. 0
    BY <1>1, <1>4
  <2> QED
    BY <1>2, <2>1, <2>2, HistoryShown
<1> QED
  BY <1>3, <1>4
-----------------------------------------------------------------------------
(* The two tasks write. *)

\* The first step of a handler, and what is left of it.
LEMMA StepTaken ==
  ASSUME NEW p, NEW size, Program(p, size), p # <<>>
  PROVE  /\ Step(Head(p), size) /\ Program(Tail(p), size)
         /\ Head(p) = p[1] /\ Len(p) \in Nat \ {0} /\ Len(Tail(p)) = Len(p) - 1
         /\ \A n \in 1 .. Len(Tail(p)) : Tail(p)[n] = p[n + 1]
<1>1. IsSequence(p)
  BY DEF Program
<1>2. p \in Seq(ToSet(p))
  BY <1>1 DEF IsSequence
<1>3. /\ Tail(p) \in Seq(ToSet(p)) /\ Len(Tail(p)) = Len(p) - 1
      /\ \A n \in 1 .. Len(Tail(p)) : Tail(p)[n] = p[n + 1]
  BY <1>2, HeadTailProperties
<1>4. Len(p) \in Nat \ {0} /\ Head(p) = p[1]
  BY <1>2
<1>5. IsSequence(Tail(p))
  BY <1>3, SequenceOver
<1>6. Step(p[1], size)
  <2>1. 1 \in 1 .. Len(p)
    BY <1>4
  <2> QED
    BY <2>1 DEF Program
<1>7. ASSUME NEW n \in 1 .. Len(Tail(p)) PROVE Step(Tail(p)[n], size)
  <2>1. n + 1 \in 1 .. Len(p)
    BY <1>3, <1>4
  <2> QED
    BY <1>3, <2>1 DEF Program
<1> QED
  BY <1>3, <1>4, <1>5, <1>6, <1>7 DEF Program

\* What a step of a handler changes: a write, the line, or a flag.
LEMMA StepsAre ==
  ASSUME NEW w, NEW size, Step(w, size)
  PROVE  \/ /\ w \in {Text, Prompt, Back, Erase} \/ \E text : IsSequence(text) /\ w = Put(text)
            /\ "line" \notin DOMAIN w /\ "active" \notin DOMAIN w /\ w # Lost
         \/ w = Lost /\ "line" \notin DOMAIN w /\ "active" \notin DOMAIN w
         \/ /\ \E value \in BOOLEAN : w = Active(value)
            /\ "line" \notin DOMAIN w /\ "active" \in DOMAIN w /\ w.active \in BOOLEAN /\ w # Lost
         \/ /\ Editable(w.line, size) /\ w.cursor \in 0 .. Len(w.line)
            /\ "line" \in DOMAIN w /\ "active" \notin DOMAIN w /\ w # Lost
<1>1. CASE w \in {Text, Prompt, Back, Erase}
  BY <1>1 DEF Text, Prompt, Back, Erase, Lost
<1>2. CASE w = Lost
  BY <1>2 DEF Lost
<1>3. ASSUME NEW value \in BOOLEAN, w = Active(value)
      PROVE  /\ "line" \notin DOMAIN w /\ "active" \in DOMAIN w /\ w.active = value
             /\ w # Lost
  BY <1>3 DEF Active, Lost
<1>4. ASSUME NEW text, IsSequence(text), w = Put(text)
      PROVE  "line" \notin DOMAIN w /\ "active" \notin DOMAIN w /\ w # Lost
  BY <1>4 DEF Put, Lost
<1>5. ASSUME NEW text, Editable(text, size), NEW at \in 0 .. Len(text), w = Edit(text, at)
      PROVE  /\ w.line = text /\ w.cursor = at /\ "line" \in DOMAIN w
             /\ "active" \notin DOMAIN w /\ w # Lost
  BY <1>5 DEF Edit, Lost
<1>6. CASE \E value \in BOOLEAN : w = Active(value)
  <2>1. PICK value \in BOOLEAN : w = Active(value)
    BY <1>6
  <2>2. w.active \in BOOLEAN
    BY <1>3, <2>1, Zenon
  <2> QED
    BY <1>3, <1>6, <2>1, <2>2, Zenon
<1>7. CASE \E text : IsSequence(text) /\ w = Put(text)
  BY <1>4, <1>7
<1>8. CASE \E text : Editable(text, size) /\ \E at \in 0 .. Len(text) : w = Edit(text, at)
  BY <1>5, <1>8
<1> QED
  BY <1>1, <1>2, <1>6, <1>7, <1>8 DEF Step

\* A step of a key's handler.
LEMMA KeyStepped ==
  ASSUME ShellInv, KeyStep
  PROVE  ShellInv'
<1>1. PICK next : next = Head(todo)
  OBVIOUS
<1>2. PICK size : size = Session.size
  OBVIOUS
<1>3. todo # <<>> /\ Program(todo, size)
  BY <1>2 DEF KeyStep, ShellInv
<1>4. /\ Step(next, size) /\ Program(Tail(todo), size)
      /\ next = todo[1] /\ Len(todo) \in Nat \ {0} /\ Len(Tail(todo)) = Len(todo) - 1
      /\ \A n \in 1 .. Len(Tail(todo)) : Tail(todo)[n] = todo[n + 1]
  BY <1>1, <1>3, StepTaken
<1>5. /\ line' = (IF "line" \in DOMAIN next THEN next.line ELSE line)
      /\ cursor' = (IF "line" \in DOMAIN next THEN next.cursor ELSE cursor)
      /\ active' = (IF "active" \in DOMAIN next THEN next.active ELSE active)
      /\ todo' = Tail(todo)
      /\ UNCHANGED <<session, submits, keyValue, history, vars, redraw, behind>>
  BY <1>1, Zenon DEF KeyStep
<1>6. /\ next = Lost => screen' = Garbled
      /\ next # Lost =>
           Write(IF DOMAIN next \cap {"line", "active", "lost"} = {} THEN next ELSE Nothing,
                 redraw # "idle")
  BY <1>1, Zenon DEF KeyStep
<1>7. UNCHANGED <<item, record, number, offset, tabFlag, recent, overrun, recalled>>
  BY <1>5 DEF history
<1>8. Session' = Session
  BY <1>5 DEF Session
<1>9. /\ session \in DOMAIN Sessions /\ Editable(line, size) /\ cursor \in 0 .. Len(line)
      /\ Flags /\ Shows(screen) /\ Ring /\ offset \in -number .. 0
      /\ Arriving
  BY <1>2 DEF ShellInv
<1>10. Editable(line', size) /\ cursor' \in 0 .. Len(line')
  BY <1>4, <1>5, <1>9, StepsAre
<1>11. Flags'
  <2>1. active' \in BOOLEAN
    <3>1. CASE "active" \in DOMAIN next
      <4>1. next.active \in BOOLEAN
        BY <1>4, <3>1, StepsAre, Zenon
      <4> QED
        BY <1>5, <3>1, <4>1, Zenon
    <3>2. CASE "active" \notin DOMAIN next
      BY <1>5, <1>9, <3>2, Zenon DEF Flags
    <3> QED
      BY <3>1, <3>2
  <2> QED
    BY <1>7, <1>9, <2>1, Zenon DEF Flags
<1>12. Shows(screen')
  <2>1. CASE next = Lost
    BY <1>6, <2>1 DEF Shows
  <2>2. CASE next # Lost
    <3>1. PICK w : w = IF DOMAIN next \cap {"line", "active", "lost"} = {} THEN next ELSE Nothing
      OBVIOUS
    <3>2. PICK other \in BOOLEAN : other = (redraw # "idle")
      BY Zenon
    <3>3. Write(w, other)
      BY <1>6, <2>2, <3>1, <3>2, Zenon
    <3>4. \/ w = Nothing \/ w \in {Text, Prompt, Back, Erase}
          \/ \E text : IsSequence(text) /\ w = Put(text)
      <4>1. CASE DOMAIN next \cap {"line", "active", "lost"} = {}
        <5>1. "line" \notin DOMAIN next /\ "active" \notin DOMAIN next
          BY <4>1
        <5> QED
          BY <1>4, <2>2, <3>1, <4>1, <5>1, StepsAre
      <4>2. CASE DOMAIN next \cap {"line", "active", "lost"} # {}
        BY <3>1, <4>2
      <4> QED
        BY <4>1, <4>2
    <3> QED
      BY <1>9, <3>3, <3>4, Known, Writing
  <2> QED
    BY <2>1, <2>2
<1>13. Ring'
  BY <1>5, <1>7, <1>9, RingStays
<1>14. Arriving'
  <2>1. SUFFICES ASSUME recalled, -offset <= Len(recent) PROVE Coming(todo, recent[-offset])'
    BY <1>7, <1>9 DEF Arriving
  <2>2. PICK x : x = recent[-offset]
    OBVIOUS
  <2>3. /\ offset # 0
        /\ \A n \in 1 .. Len(todo) : IsEdit(todo[n]) => todo[n] = Edit(x, Len(x))
        /\ (\E n \in 1 .. Len(todo) : IsEdit(todo[n])) \/ (line = x /\ cursor = Len(x))
    BY <1>9, <2>1, <2>2 DEF Arriving, Coming
  <2>4. ASSUME NEW n \in 1 .. Len(todo'), IsEdit(todo'[n]) PROVE todo'[n] = Edit(x, Len(x))
    <3>1. n + 1 \in 1 .. Len(todo) /\ todo'[n] = todo[n + 1]
      BY <1>4, <1>5
    <3> QED
      BY <2>3, <2>4, <3>1
  <2>5. CASE IsEdit(next)
    <3>1. next = Edit(x, Len(x))
      <4>1. 1 \in 1 .. Len(todo)
        BY <1>4
      <4> QED
        BY <1>4, <2>3, <2>5, <4>1
    <3>2. line' = x /\ cursor' = Len(x)
      BY <1>5, <2>5, <3>1, Edited DEF IsEdit
    <3> QED
      BY <1>7, <2>2, <2>3, <2>4, <3>2 DEF Coming
  <2>6. CASE ~ IsEdit(next)
    <3>1. line' = line /\ cursor' = cursor
      BY <1>5, <2>6 DEF IsEdit
    <3>2. (\E n \in 1 .. Len(todo') : IsEdit(todo'[n])) \/ (line = x /\ cursor = Len(x))
      <4>1. ASSUME NEW n \in 1 .. Len(todo), IsEdit(todo[n])
            PROVE  \E m \in 1 .. Len(todo') : IsEdit(todo'[m])
        <5>1. n # 1
          BY <1>4, <2>6, <4>1
        <5>2. n - 1 \in 1 .. Len(todo') /\ n - 1 + 1 = n
          BY <1>4, <1>5, <5>1
        <5>3. todo'[n - 1] = todo[n]
          BY <1>4, <1>5, <5>2
        <5> QED
          BY <4>1, <5>2, <5>3
      <4> QED
        BY <2>3, <4>1
    <3> QED
      BY <1>7, <2>2, <2>3, <2>4, <3>1, <3>2 DEF Coming
  <2> QED
    BY <2>5, <2>6
<1>15. /\ session' \in DOMAIN Sessions /\ submits' \in 0 .. Session'.submits
       /\ redraw' \in {"idle", "text", "after", "line", "back"} /\ behind' \in 0 .. Columns
       /\ Program(todo', Session'.size) /\ offset' \in -number' .. 0
  BY <1>2, <1>4, <1>5, <1>7, <1>8 DEF ShellInv
<1> QED
  BY <1>2, <1>8, <1>10, <1>11, <1>12, <1>13, <1>14, <1>15 DEF ShellInv

\* A step of the log's task.
LEMMA Redrawn ==
  ASSUME ShellInv, NEW from, NEW to \in {"idle", "text", "after", "line", "back"}, NEW w,
         Redraws(from, to, w), behind' \in 0 .. Columns,
         w \in {Nothing, Text, Prompt, Back} \/ w = Put(line)
  PROVE  ShellInv'
<1>1. redraw' = to /\ Write(w, todo # <<>>) /\ UNCHANGED <<private, line, cursor, active, todo>>
  BY DEF Redraws
<1>2. UNCHANGED <<session, submits, item, record, number, offset, tabFlag, recent, overrun, recalled>>
  BY <1>1 DEF private, history
<1>3. Session' = Session
  BY <1>2 DEF Session
<1>4. Shows(screen')
  <2>1. PICK other \in BOOLEAN : other = (todo # <<>>)
    BY Zenon
  <2>2. Write(w, other)
    BY <1>1, <2>1, Zenon
  <2>3. \/ w = Nothing \/ w \in {Text, Prompt, Back, Erase}
        \/ \E text : IsSequence(text) /\ w = Put(text)
    BY Known
  <2>4. Shows(screen)
    BY DEF ShellInv
  <2> QED
    BY <2>2, <2>3, <2>4, Known, Writing
<1>5. Ring'
  BY <1>2, RingStays DEF ShellInv
<1>6. Flags'
  BY <1>1, <1>2, Zenon DEF ShellInv, Flags
<1>7. Arriving'
  BY <1>1, <1>2 DEF ShellInv, Arriving, Coming
<1>8. /\ session' \in DOMAIN Sessions /\ submits' \in 0 .. Session'.submits
      /\ Editable(line', Session'.size) /\ cursor' \in 0 .. Len(line')
      /\ redraw' \in {"idle", "text", "after", "line", "back"}
      /\ Program(todo', Session'.size) /\ offset' \in -number' .. 0
  BY <1>1, <1>2, <1>3 DEF ShellInv
<1> QED
  BY <1>4, <1>5, <1>6, <1>7, <1>8 DEF ShellInv

\* shellWriteEndLine goes back no further than the line has columns.
LEMMA EndLineWritten ==
  ASSUME ShellInv, WriteEndLine
  PROVE  ShellInv'
<1>1. behind \in 0 .. Columns
  BY DEF ShellInv
<1>2. CASE RedrawBegin
  BY <1>1, <1>2, Redrawn DEF RedrawBegin
<1>3. CASE RedrawText
  BY <1>1, <1>3, Redrawn DEF RedrawText
<1>4. CASE RedrawNothing
  BY <1>1, <1>4, Redrawn DEF RedrawNothing
<1>5. CASE RedrawPrompt
  BY <1>1, <1>5, Redrawn DEF RedrawPrompt
<1>6. CASE RedrawLine
  BY <1>1, <1>6, Redrawn DEF RedrawLine
<1>7. CASE RedrawBack
  <2>1. CASE behind < Len(line) - cursor
    <3>1. behind + 1 \in 0 .. Columns
      <4>1. Len(line) < Session.size /\ Session.size \in 2 .. Columns /\ cursor \in 0 .. Len(line)
        BY Known, SessionRight DEF Editable
      <4> QED
        BY <1>1, <2>1, <4>1, Known
    <3> QED
      BY <1>7, <2>1, <3>1, Redrawn DEF RedrawBack
  <2>2. CASE ~ (behind < Len(line) - cursor)
    <3>1. 0 \in 0 .. Columns
      BY Known
    <3> QED
      BY <1>7, <2>2, <3>1, Redrawn DEF RedrawBack
  <2> QED
    BY <2>1, <2>2
<1> QED
  BY <1>2, <1>3, <1>4, <1>5, <1>6, <1>7 DEF WriteEndLine
-----------------------------------------------------------------------------
(* The theorems. *)

\* The invariant holds at first.
LEMMA ShellBegins ==
  ASSUME ShellInit
  PROVE  ShellInv
<1>1. /\ session \in DOMAIN Sessions /\ submits = Session.submits /\ line = Session.typed
      /\ cursor = Len(Session.typed) /\ item = NoLines /\ record = 0 /\ number = 0 /\ offset = 0
      /\ tabFlag = FALSE /\ active = FALSE /\ todo = <<>> /\ redraw = "idle" /\ behind = 0
      /\ screen = [row |-> Shown(Session.typed), col |-> Len(Session.typed), prompted |-> TRUE]
      /\ recent = <<>> /\ overrun = FALSE /\ recalled = FALSE
  BY DEF ShellInit
<1>2. /\ Columns \in Nat /\ Session.size \in 2 .. Columns /\ Session.submits \in Nat
      /\ Editable(Session.typed, Session.size)
  BY <1>1, SessionRight
<1>3. Len(line) \in Nat /\ Len(line) < Session.size
  BY <1>1, <1>2 DEF Editable, IsSequence
<1>4. H \in Nat \ {0}
  BY ShellAssumption
<1>5. Shows(screen)
  BY <1>1, <1>2, <1>3 DEF Shows, Row
<1>6. Program(todo, Session.size)
  BY <1>1, NothingToDo
<1>7. Ring
  <2>1. /\ item = [i \in 0 .. H - 1 |-> item[i]] /\ \A i \in 0 .. H - 1 : item[i] = <<>>
    BY <1>1 DEF NoLines
  <2>2. Editable(<<>>, Session.size)
    BY <1>2, NoElement DEF Editable
  <2>3. IsSequence(recent) /\ Len(recent) = 0
    BY <1>1, NoElement
  <2> QED
    BY <1>1, <1>4, <2>1, <2>2, <2>3 DEF Ring
<1>8. Flags
  BY <1>1, Zenon DEF Flags
<1> QED
  BY <1>1, <1>2, <1>3, <1>5, <1>6, <1>7, <1>8 DEF ShellInv, Arriving

\* The line fits the buffer with its zero, the cursor is in the line, what is
\* left of a key's handler keeps both so, and the ring holds the last lines
\* entered behind one that overran, for any commands and sessions and any size of the history.
THEOREM ShellInvariant == ShellSpec => []ShellInv
<1>1. ShellInit => ShellInv
  BY ShellBegins
<1>2. ShellInv /\ [ShellNext]_shellVars => ShellInv'
  <2> SUFFICES ASSUME ShellInv, [ShellNext]_shellVars PROVE ShellInv'
    OBVIOUS
  <2>1. CASE ShellHandler
    <3>1. ASSUME NEW data \in Session.text, NormalInput(data) PROVE ShellInv'
      BY <3>1, CharacterTyped
    <3> QED
      BY <2>1, <3>1, ByteTaken, LineEdited, WentUp, WentDown, Tabbed, NothingEntered, LineEntered
      DEF ShellHandler
  <2>2. CASE KeyStep
    BY <2>2, KeyStepped
  <2>3. CASE WriteEndLine
    BY <2>3, EndLineWritten
  <2>4. CASE UNCHANGED shellVars
    <3>1. /\ UNCHANGED <<session, submits, item, record, number, offset, tabFlag, recent, overrun, recalled>>
          /\ UNCHANGED <<line, cursor, active, todo, redraw, behind, screen>>
      BY <2>4 DEF shellVars, private, history
    <3>2. Session' = Session
      BY <3>1 DEF Session
    <3>3. Ring'
      BY <3>1, RingStays DEF ShellInv
    <3>4. Flags'
      BY <3>1, Zenon DEF ShellInv, Flags
    <3>5. Arriving'
      BY <3>1 DEF ShellInv, Arriving, Coming
    <3> QED
      BY <3>1, <3>2, <3>3, <3>4, <3>5 DEF ShellInv
  <2> QED
    BY <2>1, <2>2, <2>3, <2>4 DEF ShellNext
<1> QED
  BY <1>1, <1>2, PTL DEF ShellSpec

\* Every variable keeps its type: the line and its zero fit the buffer and the
\* cursor is in the line, whatever is typed, completed or recalled.
THEOREM TypeCorrect == ShellSpec => []TypeOK
<1>1. ShellInv => TypeOK
  <2> SUFFICES ASSUME ShellInv PROVE TypeOK
    OBVIOUS
  <2>1. {tabFlag, active, overrun, recalled} \subseteq BOOLEAN
    BY Zenon DEF ShellInv, Flags
  <2>2. screen = Garbled \/ screen.col \in 0 .. Columns
    BY DEF ShellInv, Shows, Row
  <2> QED
    BY <2>1, <2>2 DEF ShellInv, Ring, Editable, TypeOK
<1> QED
  BY <1>1, ShellInvariant, PTL

\* The ring holds the last lines entered, the newest first, and the line that
\* the up and down keys leave is the entry they have come to.  A line that runs
\* on behind its end may destroy the entries there are, and those entered after
\* it are held again.
THEOREM HistoryRight == ShellSpec => []HistoryFaithful
<1>1. ShellInv => HistoryFaithful
  <2> SUFFICES ASSUME ShellInv PROVE HistoryFaithful
    OBVIOUS
  <2>1. /\ Len(recent) <= number /\ (overrun \/ Len(recent) = number)
        /\ \A k \in 1 .. Len(recent) : Recall(-k) = recent[k]
    BY DEF ShellInv, Ring
  <2>2. ASSUME todo = <<>>, recalled, -offset <= Len(recent)
        PROVE  line = recent[-offset] /\ cursor = Len(line)
    <3>1. Coming(todo, recent[-offset])
      BY <2>2 DEF ShellInv, Arriving
    <3> QED
      BY <2>2, <3>1, NoElement DEF Coming
  <2> QED
    BY <2>1, <2>2 DEF HistoryFaithful
<1> QED
  BY <1>1, ShellInvariant, PTL
-----------------------------------------------------------------------------
(* What the console shows while a handler's steps are taken. *)

\* A row behind its prompt, with the cursor in it.
RowAt(r, k) == [row |-> r, col |-> k, prompted |-> TRUE]
On(r, k) == {Garbled, RowAt(r, k)}
Fresh == {Garbled, NewRow}

\* The console, and what the handler changes of what the other task reads.
Display(s, l, c, a) == [screen |-> s, line |-> l, cursor |-> c, active |-> a]
Displays(S, l, c) == {Display(s, l, c, FALSE) : s \in S}

\* A step of a handler on the console.
Done(w, s) ==
  IF w = Lost THEN Garbled
  ELSE IF DOMAIN w \cap {"line", "active", "lost"} = {} THEN Written(s, w) ELSE s

\* The step, when the other task may garble the row, or write what it likes
\* while a command is active.
Steps(d, w, e) ==
  \E s : /\ d.active \/ s \in {Garbled, Done(w, d.screen)}
         /\ e = Display(s, IF "line" \in DOMAIN w THEN w.line ELSE d.line,
                           IF "line" \in DOMAIN w THEN w.cursor ELSE d.cursor,
                           IF "active" \in DOMAIN w THEN w.active ELSE d.active)

Trace(tr, p) == \A i \in 1 .. Len(p) : Steps(tr[i - 1], p[i], tr[i])

\* A step, and a handler, that lead from one of D to one of E.
Carries(w, D, E) == \A d \in D : \A e : Steps(d, w, e) => e \in E
Leads(p, D, E) == \A tr : Trace(tr, p) /\ tr[0] \in D => tr[Len(p)] \in E

\* The fields of a display.
LEMMA Fields ==
  ASSUME NEW s, NEW l, NEW c, NEW a, NEW d, d = Display(s, l, c, a)
  PROVE  d.screen = s /\ d.line = l /\ d.cursor = c /\ d.active = a
  BY DEF Display

\* What holds of zero, and of a number's successor, holds up to n.
LEMMA UpTo ==
  ASSUME NEW n \in Nat, NEW S, 0 \in S, \A i \in 0 .. n : i \in S /\ i < n => i + 1 \in S
  PROVE  \A i \in 0 .. n : i \in S
<1>1. PICK T : T = {i \in 0 .. n : i \notin S}
  OBVIOUS
<1>2. ASSUME T # {} PROVE FALSE
  <2>1. T \subseteq Nat
    BY <1>1
  <2>2. PICK m : m \in T /\ \A i \in T : m <= i
    BY <1>2, <2>1, Least
  <2>3. m \in 1 .. n /\ m - 1 \in 0 .. n /\ m - 1 < n /\ m - 1 + 1 = m
    BY <1>1, <2>2
  <2>4. m - 1 \in S
    <3>1. m - 1 \in T => m <= m - 1
      BY <2>2
    <3>2. m - 1 \notin T
      BY <2>3, <3>1
    <3> QED
      BY <1>1, <2>3, <3>2
  <2>5. m \in S
    BY <2>3, <2>4
  <2> QED
    BY <1>1, <2>2, <2>5
<1> QED
  BY <1>1, <1>2

\* One step after another.
LEMMA Stepwise ==
  ASSUME NEW p, Len(p) \in Nat, NEW D, \A i \in 1 .. Len(p) : Carries(p[i], D[i - 1], D[i])
  PROVE  Leads(p, D[0], D[Len(p)])
<1> SUFFICES ASSUME NEW tr, Trace(tr, p), tr[0] \in D[0] PROVE tr[Len(p)] \in D[Len(p)]
  BY DEF Leads
<1>1. PICK S : S = {i \in 0 .. Len(p) : tr[i] \in D[i]}
  OBVIOUS
<1>2. 0 \in S
  BY <1>1
<1>3. ASSUME NEW i \in 0 .. Len(p), i \in S, i < Len(p) PROVE i + 1 \in S
  <2>1. i + 1 \in 1 .. Len(p) /\ i + 1 - 1 = i /\ i + 1 \in 0 .. Len(p)
    BY <1>3
  <2>2. Steps(tr[i], p[i + 1], tr[i + 1])
    BY <2>1 DEF Trace
  <2>3. Carries(p[i + 1], D[i], D[i + 1])
    BY <2>1
  <2>4. tr[i] \in D[i]
    BY <1>1, <1>3
  <2>5. tr[i + 1] \in D[i + 1]
    BY <2>2, <2>3, <2>4 DEF Carries
  <2> QED
    BY <1>1, <2>1, <2>5
<1>4. \A i \in 0 .. Len(p) : i \in S
  BY <1>2, <1>3, UpTo
<1>5. Len(p) \in S
  BY <1>4
<1> QED
  BY <1>1, <1>5

\* A handler of one step.
LEMMA AtOnce ==
  ASSUME NEW w, NEW D, NEW E, Carries(w, D, E)
  PROVE  Leads(<<w>>, D, E)
<1> SUFFICES ASSUME NEW tr, Trace(tr, <<w>>), tr[0] \in D PROVE tr[1] \in E
  BY OneElement DEF Leads
<1>1. Steps(tr[0], w, tr[1])
  <2>1. 1 \in 1 .. Len(<<w>>) /\ 1 - 1 = 0 /\ <<w>>[1] = w
    BY OneElement
  <2> QED
    BY <2>1 DEF Trace
<1> QED
  BY <1>1 DEF Carries

\* A trace of two handlers, one after the other, is one of each.
LEMMA TraceSplit ==
  ASSUME NEW p, NEW q, IsSequence(p), IsSequence(q), NEW tr, Trace(tr, Join(p, q))
  PROVE  /\ Trace(tr, p)
         /\ \E rest : Trace(rest, q) /\ rest[0] = tr[Len(p)]
                      /\ rest[Len(q)] = tr[Len(Join(p, q))]
<1>1. PICK j : j = Join(p, q)
  OBVIOUS
<1>2. /\ Len(j) = Len(p) + Len(q) /\ Len(p) \in Nat /\ Len(q) \in Nat
      /\ \A i \in 1 .. Len(p) : j[i] = p[i]
      /\ \A i \in 1 .. Len(q) : j[Len(p) + i] = q[i]
  BY <1>1, SequencesJoined
<1>3. \A i \in 1 .. Len(j) : Steps(tr[i - 1], j[i], tr[i])
  BY <1>1 DEF Trace
<1>4. \A i \in 1 .. Len(p) : i \in 1 .. Len(j)
  BY <1>2
<1>5. Trace(tr, p)
  BY <1>2, <1>3, <1>4 DEF Trace
<1>6. PICK rest : rest = [i \in 0 .. Len(q) |-> tr[Len(p) + i]]
  OBVIOUS
<1>7. ASSUME NEW i \in 1 .. Len(q) PROVE Steps(rest[i - 1], q[i], rest[i])
  <2>1. Len(p) + i \in 1 .. Len(j) /\ i - 1 \in 0 .. Len(q) /\ i \in 0 .. Len(q)
        /\ Len(p) + i - 1 = Len(p) + (i - 1)
    BY <1>2
  <2>2. rest[i - 1] = tr[Len(p) + i - 1] /\ rest[i] = tr[Len(p) + i]
    BY <1>6, <2>1
  <2>3. Steps(tr[Len(p) + i - 1], j[Len(p) + i], tr[Len(p) + i])
    BY <1>3, <2>1
  <2> QED
    BY <1>2, <2>2, <2>3
<1>8. rest[0] = tr[Len(p)] /\ rest[Len(q)] = tr[Len(j)]
  <2>1. 0 \in 0 .. Len(q) /\ Len(q) \in 0 .. Len(q) /\ Len(p) + 0 = Len(p)
    BY <1>2
  <2> QED
    BY <1>2, <1>6, <2>1
<1> QED
  BY <1>1, <1>5, <1>7, <1>8 DEF Trace

\* One handler's steps and then another's.
LEMMA InTurn ==
  ASSUME NEW p, NEW q, IsSequence(p), IsSequence(q), NEW D, NEW E, NEW F,
         Leads(p, D, E), Leads(q, E, F)
  PROVE  Leads(Join(p, q), D, F)
<1> SUFFICES ASSUME NEW tr, Trace(tr, Join(p, q)), tr[0] \in D PROVE tr[Len(Join(p, q))] \in F
  BY DEF Leads
<1>1. tr[Len(p)] \in E
  BY TraceSplit DEF Leads
<1>2. PICK rest : Trace(rest, q) /\ rest[0] = tr[Len(p)] /\ rest[Len(q)] = tr[Len(Join(p, q))]
  BY TraceSplit
<1> QED
  BY <1>1, <1>2 DEF Leads

\* A handler that does nothing.
LEMMA NoSteps ==
  ASSUME NEW D
  PROVE  Leads(<<>>, D, D)
  BY NoElement DEF Leads
-----------------------------------------------------------------------------
(* Writes to a row. *)

\* A row some of whose columns are overwritten.
Over(r, k, text) ==
  [i \in 1 .. Columns |-> IF i \in k + 1 .. k + Len(text) THEN text[i - k] ELSE r[i]]

\* The fields of a row.
LEMMA RowFields ==
  ASSUME NEW r, NEW k, NEW p, NEW s, s = [row |-> r, col |-> k, prompted |-> p]
  PROVE  s.row = r /\ s.col = k /\ s # Garbled
  BY DEF Garbled

\* What each write does to a row.
LEMMA Writes ==
  ASSUME NEW s
  PROVE  /\ Done(Text, s) = NewRow /\ Done(Lost, s) = Garbled
         /\ \A w \in {Prompt, Back, Erase} : Done(w, s) = Written(s, w)
         /\ \A text : Done(Put(text), s) = Written(s, Put(text))
         /\ \A text, at : Done(Edit(text, at), s) = s
<1>1. Done(Text, s) = NewRow
  <2>1. Text # Lost /\ DOMAIN Text \cap {"line", "active", "lost"} = {}
    BY DEF Text, Lost
  <2> QED
    BY <2>1 DEF Done, Written
<1>2. \A w \in {Prompt, Back, Erase} : Done(w, s) = Written(s, w)
  <2>1. \A w \in {Prompt, Back, Erase} :
          w # Lost /\ DOMAIN w \cap {"line", "active", "lost"} = {}
    BY DEF Prompt, Back, Erase, Lost
  <2> QED
    BY <2>1 DEF Done
<1>3. ASSUME NEW text PROVE Done(Put(text), s) = Written(s, Put(text))
  <2>1. Put(text) # Lost /\ DOMAIN Put(text) \cap {"line", "active", "lost"} = {}
    BY DEF Put, Lost
  <2> QED
    BY <2>1 DEF Done
<1>4. ASSUME NEW text, NEW at PROVE Done(Edit(text, at), s) = s
  <2>1. Edit(text, at) # Lost /\ "line" \in DOMAIN Edit(text, at)
    BY DEF Edit, Lost
  <2>2. DOMAIN Edit(text, at) \cap {"line", "active", "lost"} # {}
    BY <2>1
  <2> QED
    BY <2>1, <2>2 DEF Done
<1>5. Done(Lost, s) = Garbled
  BY DEF Done
<1> QED
  BY <1>1, <1>2, <1>3, <1>4, <1>5

\* The writes to a row that is known.
LEMMA RowWritten ==
  ASSUME NEW r, NEW k \in Nat, Columns \in Nat
  PROVE  /\ \A w \in {Prompt, Back, Erase} : Done(w, Garbled) = Garbled
         /\ \A text : Done(Put(text), Garbled) = Garbled
         /\ Done(Prompt, NewRow) = RowAt(Blank, 0)
         /\ k # 0 => Done(Back, RowAt(r, k)) = RowAt(r, k - 1)
         /\ k # 0 => Done(Erase, RowAt(r, k)) = RowAt([r EXCEPT ![k] = " "], k - 1)
         /\ \A text : k + Len(text) <= Columns =>
              Done(Put(text), RowAt(r, k)) = RowAt(Over(r, k, text), k + Len(text))
<1>1. \A w \in {Prompt, Back, Erase} : w # Text
  BY DEF Text, Prompt, Back, Erase
<1>2. \A text : Put(text) \notin {Text, Prompt, Back, Erase} /\ Put(text).put = text
  BY DEF Put, Text, Prompt, Back, Erase
<1>3. Prompt # Back /\ Prompt # Erase /\ Back # Erase
  BY DEF Prompt, Back, Erase
<1>4. PICK s, p : s = RowAt(r, k) /\ p = TRUE
  OBVIOUS
<1>5. s = [row |-> r, col |-> k, prompted |-> p]
  BY <1>4 DEF RowAt
<1>6. \A e, n : RowAt(e, n) = [row |-> e, col |-> n, prompted |-> p]
  BY <1>4, Zenon DEF RowAt
<1>7. s # Garbled /\ s.col = k /\ s.row = r
  BY <1>5, RowFields
<1>8. \A w \in {Prompt, Back, Erase} : Done(w, Garbled) = Garbled
  BY <1>1, Writes DEF Written
<1>9. \A text : Done(Put(text), Garbled) = Garbled
  BY <1>2, Writes DEF Written
<1>10. Done(Prompt, NewRow) = RowAt(Blank, 0)
  <2>1. PICK q : q = FALSE /\ NewRow = [row |-> Blank, col |-> 0, prompted |-> q]
    BY Zenon DEF NewRow
  <2>2. NewRow # Garbled
    BY <2>1, RowFields
  <2>3. [NewRow EXCEPT !.prompted = p] = [row |-> Blank, col |-> 0, prompted |-> p]
    BY <2>1
  <2>4. [NewRow EXCEPT !.prompted = TRUE] = RowAt(Blank, 0)
    BY <1>4, <2>3, Zenon DEF RowAt
  <2>5. Done(Prompt, NewRow) = Written(NewRow, Prompt)
    BY Writes
  <2>6. Written(NewRow, Prompt) = [NewRow EXCEPT !.prompted = TRUE]
    BY <1>1, <2>2 DEF Written
  <2> QED
    BY <2>5, <2>6, <2>4, Zenon
<1>11. ASSUME k # 0 PROVE Done(Back, s) = RowAt(r, k - 1)
  <2>1. Written(s, Back) = [s EXCEPT !.col = s.col - 1]
    BY <1>1, <1>3, <1>7, <1>11 DEF Written
  <2>2. [s EXCEPT !.col = k - 1] = RowAt(r, k - 1)
    <3>1. PICK n : n = k - 1
      OBVIOUS
    <3>2. [s EXCEPT !.col = n] = [row |-> r, col |-> n, prompted |-> p]
      BY <1>5
    <3> QED
      BY <1>6, <3>1, <3>2, Zenon
  <2> QED
    BY <1>7, <2>1, <2>2, Writes
<1>12. ASSUME k # 0 PROVE Done(Erase, s) = RowAt([r EXCEPT ![k] = " "], k - 1)
  <2>1. Written(s, Erase) = [s EXCEPT !.col = s.col - 1, !.row[s.col] = " "]
    BY <1>1, <1>3, <1>7, <1>12 DEF Written
  <2>2. [s EXCEPT !.col = k - 1, !.row[k] = " "] = RowAt([r EXCEPT ![k] = " "], k - 1)
    <3>1. PICK n, e : n = k - 1 /\ e = " "
      OBVIOUS
    <3>2. [s EXCEPT !.col = n, !.row[k] = e] =
            [row |-> [r EXCEPT ![k] = e], col |-> n, prompted |-> p]
      <4>1. PICK t : t = [s EXCEPT !.col = n]
        OBVIOUS
      <4>2. t = [row |-> r, col |-> n, prompted |-> p]
        BY <1>5, <4>1
      <4>3. [t EXCEPT !.row[k] = e] = [row |-> [r EXCEPT ![k] = e], col |-> n, prompted |-> p]
        BY <4>2
      <4> QED
        BY <4>1, <4>3
    <3> QED
      BY <1>6, <3>1, <3>2, Zenon
  <2> QED
    BY <1>7, <2>1, <2>2, Writes
<1>13. ASSUME NEW text, k + Len(text) <= Columns
       PROVE  Done(Put(text), s) = RowAt(Over(r, k, text), k + Len(text))
  <2>1. Written(s, Put(text)) = Overwrite(s, text)
    BY <1>2, <1>7 DEF Written
  <2>2. PICK row : row = Over(r, k, text)
    OBVIOUS
  <2>3. Overwrite(s, text) = [s EXCEPT !.row = row, !.col = k + Len(text)]
    BY <1>7, <1>13, <2>2 DEF Overwrite, Over
  <2>4. [s EXCEPT !.row = row, !.col = k + Len(text)] = RowAt(row, k + Len(text))
    <3>1. PICK n : n = k + Len(text)
      OBVIOUS
    <3>2. [s EXCEPT !.row = row, !.col = n] = [row |-> row, col |-> n, prompted |-> p]
      <4>1. PICK t : t = [s EXCEPT !.row = row]
        OBVIOUS
      <4>2. t = [row |-> row, col |-> k, prompted |-> p]
        BY <1>5, <4>1
      <4>3. [t EXCEPT !.col = n] = [row |-> row, col |-> n, prompted |-> p]
        BY <4>2
      <4> QED
        BY <4>1, <4>3
    <3> QED
      BY <1>6, <3>1, <3>2, Zenon
  <2>5. Done(Put(text), s) = Written(s, Put(text))
    BY Writes
  <2> QED
    BY <2>1, <2>2, <2>3, <2>4, <2>5, Zenon
<1> QED
  BY <1>4, <1>8, <1>9, <1>10, <1>11, <1>12, <1>13

\* A step that sets neither the line nor the flag.
LEMMA Quietly ==
  ASSUME NEW w, "line" \notin DOMAIN w, "active" \notin DOMAIN w, NEW S, NEW T, Garbled \in T,
         \A s \in S : Done(w, s) \in T, NEW l, NEW c
  PROVE  Carries(w, Displays(S, l, c), Displays(T, l, c))
<1> SUFFICES ASSUME NEW d \in Displays(S, l, c), NEW e, Steps(d, w, e) PROVE e \in Displays(T, l, c)
  BY DEF Carries
<1>1. PICK s \in S : d = Display(s, l, c, FALSE)
  BY Zenon DEF Displays
<1>2. d.screen = s /\ d.line = l /\ d.cursor = c /\ d.active = FALSE
  <2>1. PICK a : a = FALSE /\ d = Display(s, l, c, a)
    BY <1>1, Zenon
  <2>2. d.screen = s /\ d.line = l /\ d.cursor = c /\ d.active = a
    BY <2>1, Fields
  <2> QED
    BY <2>1, <2>2, Zenon
<1>3. PICK t : t \in {Garbled, Done(w, s)} /\ e = Display(t, l, c, FALSE)
  BY <1>2, Zenon DEF Steps
<1>4. t \in T
  BY <1>3
<1> QED
  BY <1>3, <1>4, Zenon DEF Displays

\* A step that sets the line.
LEMMA Setting ==
  ASSUME NEW S, Garbled \in S, NEW l, NEW c, NEW text, NEW at
  PROVE  Carries(Edit(text, at), Displays(S, l, c), Displays(S, text, at))
<1> SUFFICES ASSUME NEW d \in Displays(S, l, c), NEW e, Steps(d, Edit(text, at), e)
             PROVE  e \in Displays(S, text, at)
  BY DEF Carries
<1>1. PICK s \in S : d = Display(s, l, c, FALSE)
  BY Zenon DEF Displays
<1>2. d.screen = s /\ d.line = l /\ d.cursor = c /\ d.active = FALSE
  <2>1. PICK a : a = FALSE /\ d = Display(s, l, c, a)
    BY <1>1, Zenon
  <2>2. d.screen = s /\ d.line = l /\ d.cursor = c /\ d.active = a
    BY <2>1, Fields
  <2> QED
    BY <2>1, <2>2, Zenon
<1>3. /\ "line" \in DOMAIN Edit(text, at) /\ "active" \notin DOMAIN Edit(text, at)
      /\ Edit(text, at).line = text /\ Edit(text, at).cursor = at
  BY DEF Edit
<1>4. PICK t : t \in {Garbled, Done(Edit(text, at), s)} /\ e = Display(t, text, at, FALSE)
  BY <1>2, <1>3, Zenon DEF Steps
<1>5. t \in S
  BY <1>4, Writes
<1> QED
  BY <1>4, <1>5, Zenon DEF Displays
-----------------------------------------------------------------------------
(* Rows that are filled and cleared. *)

\* A row with the first n characters of a text from a column on, and one with
\* blanks between two columns.
Filled(r, k, text, n) ==
  [i \in 1 .. Columns |-> IF i \in k + 1 .. k + n THEN text[i - k] ELSE r[i]]
Cleared(r, a, b) == [i \in 1 .. Columns |-> IF i \in a + 1 .. b THEN " " ELSE r[i]]
IsRow(r) == r = [i \in 1 .. Columns |-> r[i]]

\* Each of the steps that are no edit, from one row to another.
LEMMA Single ==
  ASSUME Columns \in Nat, NEW l, NEW c, NEW r, NEW k \in Nat, NEW S
  PROVE  /\ Carries(Text, Displays(S, l, c), Displays(Fresh, l, c))
         /\ Carries(Prompt, Displays(Fresh, l, c), Displays(On(Blank, 0), l, c))
         /\ Carries(Lost, Displays(S, l, c), Displays(On(r, k), l, c))
         /\ k # 0 => Carries(Back, Displays(On(r, k), l, c), Displays(On(r, k - 1), l, c))
         /\ k # 0 => Carries(Erase, Displays(On(r, k), l, c),
                             Displays(On([r EXCEPT ![k] = " "], k - 1), l, c))
         /\ \A text : k + Len(text) <= Columns =>
              Carries(Put(text), Displays(On(r, k), l, c),
                      Displays(On(Over(r, k, text), k + Len(text)), l, c))
<1>1. \A w \in {Text, Prompt, Lost, Back, Erase} : "line" \notin DOMAIN w /\ "active" \notin DOMAIN w
  BY DEF Text, Prompt, Lost, Back, Erase
<1>2. \A text : "line" \notin DOMAIN Put(text) /\ "active" \notin DOMAIN Put(text)
  BY DEF Put
<1>3. Carries(Text, Displays(S, l, c), Displays(Fresh, l, c))
  <2>1. \A s \in S : Done(Text, s) \in Fresh
    BY Writes DEF Fresh
  <2>2. Garbled \in Fresh
    BY DEF Fresh
  <2> QED
    BY <1>1, <2>1, <2>2, Quietly
<1>4. Carries(Prompt, Displays(Fresh, l, c), Displays(On(Blank, 0), l, c))
  <2>1. \A s \in Fresh : Done(Prompt, s) \in On(Blank, 0)
    BY RowWritten DEF Fresh, On
  <2>2. Garbled \in On(Blank, 0)
    BY DEF On
  <2> QED
    BY <1>1, <2>1, <2>2, Quietly
<1>5. Garbled \in On(r, k)
  BY DEF On
<1>6. Carries(Lost, Displays(S, l, c), Displays(On(r, k), l, c))
  <2>1. \A s \in S : Done(Lost, s) \in On(r, k)
    BY <1>5, Writes
  <2> QED
    BY <1>1, <1>5, <2>1, Quietly
<1>7. ASSUME k # 0 PROVE Carries(Back, Displays(On(r, k), l, c), Displays(On(r, k - 1), l, c))
  <2>1. \A s \in On(r, k) : Done(Back, s) \in On(r, k - 1)
    BY <1>7, RowWritten DEF On
  <2>2. Garbled \in On(r, k - 1)
    BY DEF On
  <2> QED
    BY <1>1, <2>1, <2>2, Quietly
<1>8. ASSUME k # 0
      PROVE  Carries(Erase, Displays(On(r, k), l, c),
                     Displays(On([r EXCEPT ![k] = " "], k - 1), l, c))
  <2>1. \A s \in On(r, k) : Done(Erase, s) \in On([r EXCEPT ![k] = " "], k - 1)
    BY <1>8, RowWritten DEF On
  <2>2. Garbled \in On([r EXCEPT ![k] = " "], k - 1)
    BY DEF On
  <2> QED
    BY <1>1, <2>1, <2>2, Quietly
<1>9. ASSUME NEW text, k + Len(text) <= Columns
      PROVE  Carries(Put(text), Displays(On(r, k), l, c),
                     Displays(On(Over(r, k, text), k + Len(text)), l, c))
  <2>1. \A s \in On(r, k) : Done(Put(text), s) \in On(Over(r, k, text), k + Len(text))
    <3>1. Done(Put(text), RowAt(r, k)) = RowAt(Over(r, k, text), k + Len(text))
      <4>1. \A t : k + Len(t) <= Columns => Done(Put(t), RowAt(r, k)) =
              RowAt(Over(r, k, t), k + Len(t))
        BY RowWritten
      <4> QED
        BY <1>9, <4>1
    <3>2. Done(Put(text), Garbled) = Garbled
      BY RowWritten
    <3> QED
      BY <3>1, <3>2, Zenon DEF On
  <2>2. Garbled \in On(Over(r, k, text), k + Len(text))
    BY DEF On
  <2> QED
    BY <1>2, <2>1, <2>2, Quietly
<1> QED
  BY <1>3, <1>4, <1>6, <1>7, <1>8, <1>9

\* The cursor goes back.
LEMMA GoneBack ==
  ASSUME Columns \in Nat, NEW l, NEW c, NEW r, NEW k \in Nat, NEW n \in 0 .. k
  PROVE  Leads(Repeat(Back, n), Displays(On(r, k), l, c), Displays(On(r, k - n), l, c))
<1>1. PICK D : D = [i \in 0 .. n |-> Displays(On(r, k - i), l, c)]
  OBVIOUS
<1>2. Len(Repeat(Back, n)) = n /\ \A i \in 1 .. n : Repeat(Back, n)[i] = Back
  BY RepeatIs
<1>3. ASSUME NEW i \in 1 .. n PROVE Carries(Back, D[i - 1], D[i])
  <2>1. PICK m \in Nat : m = k - (i - 1)
    OBVIOUS
  <2>2. m # 0 /\ m - 1 = k - i /\ i - 1 \in 0 .. n /\ i \in 0 .. n
    BY <2>1
  <2>3. D[i - 1] = Displays(On(r, m), l, c) /\ D[i] = Displays(On(r, m - 1), l, c)
    BY <1>1, <2>1, <2>2
  <2> QED
    BY <2>2, <2>3, Single
<1>4. D[0] = Displays(On(r, k), l, c) /\ D[n] = Displays(On(r, k - n), l, c)
  <2>1. k - 0 = k /\ 0 \in 0 .. n /\ n \in 0 .. n
    OBVIOUS
  <2> QED
    BY <1>1, <2>1
<1>5. Leads(Repeat(Back, n), D[0], D[n])
  BY <1>2, <1>3, Stepwise
<1> QED
  BY <1>4, <1>5

\* Columns are erased.
LEMMA Erased ==
  ASSUME Columns \in Nat, NEW l, NEW c, NEW r, IsRow(r), NEW k \in 0 .. Columns, NEW n \in 0 .. k
  PROVE  Leads(Repeat(Erase, n), Displays(On(r, k), l, c),
               Displays(On(Cleared(r, k - n, k), k - n), l, c))
<1>1. PICK D : D = [i \in 0 .. n |-> Displays(On(Cleared(r, k - i, k), k - i), l, c)]
  OBVIOUS
<1>2. Len(Repeat(Erase, n)) = n /\ \A i \in 1 .. n : Repeat(Erase, n)[i] = Erase
  BY RepeatIs
<1>3. ASSUME NEW i \in 1 .. n PROVE Carries(Erase, D[i - 1], D[i])
  <2>1. PICK m \in Nat : m = k - (i - 1)
    OBVIOUS
  <2>2. m \in 1 .. Columns /\ m <= k /\ m - 1 = k - i /\ i - 1 \in 0 .. n /\ i \in 0 .. n
    BY <2>1
  <2>3. PICK q : q = Cleared(r, m, k)
    OBVIOUS
  <2>4. [q EXCEPT ![m] = " "] = Cleared(r, m - 1, k)
    <3>1. q = [j \in 1 .. Columns |-> q[j]]
      BY <2>3 DEF Cleared
    <3>2. [q EXCEPT ![m] = " "] = [j \in 1 .. Columns |-> IF j = m THEN " " ELSE q[j]]
      BY <2>2, <3>1
    <3>3. \A j \in 1 .. Columns : (IF j = m THEN " " ELSE q[j])
                                   = IF j \in m - 1 + 1 .. k THEN " " ELSE r[j]
      <4>1. \A j \in 1 .. Columns : q[j] = IF j \in m + 1 .. k THEN " " ELSE r[j]
        BY <2>3 DEF Cleared
      <4>2. \A j \in 1 .. Columns : j \in m - 1 + 1 .. k <=> j = m \/ j \in m + 1 .. k
        BY <2>2
      <4> QED
        BY <4>1, <4>2
    <3> QED
      BY <3>2, <3>3 DEF Cleared
  <2>5. D[i - 1] = Displays(On(q, m), l, c) /\ D[i] = Displays(On([q EXCEPT ![m] = " "], m - 1), l, c)
    BY <1>1, <2>1, <2>2, <2>3, <2>4
  <2>6. m # 0
    BY <2>2
  <2> QED
    BY <2>5, <2>6, Single
<1>4. D[0] = Displays(On(r, k), l, c) /\ D[n] = Displays(On(Cleared(r, k - n, k), k - n), l, c)
  <2>1. k - 0 = k /\ 0 \in 0 .. n /\ n \in 0 .. n
    OBVIOUS
  <2>2. Cleared(r, k, k) = r
    <3>1. \A i \in 1 .. Columns : i \notin k + 1 .. k
      OBVIOUS
    <3>2. [i \in 1 .. Columns |-> IF i \in k + 1 .. k THEN " " ELSE r[i]] =
            [i \in 1 .. Columns |-> r[i]]
      BY <3>1
    <3> QED
      BY <3>2, Zenon DEF Cleared, IsRow
  <2> QED
    BY <1>1, <2>1, <2>2
<1>5. Leads(Repeat(Erase, n), D[0], D[n])
  BY <1>2, <1>3, Stepwise
<1> QED
  BY <1>4, <1>5

\* A text is written character by character.
LEMMA Spelled ==
  ASSUME Columns \in Nat, NEW l, NEW c, NEW r, IsRow(r), NEW k \in Nat,
         NEW text, IsSequence(text), k + Len(text) <= Columns
  PROVE  Leads(Each(text), Displays(On(r, k), l, c),
               Displays(On(Over(r, k, text), k + Len(text)), l, c))
<1>1. PICK n \in Nat : n = Len(text)
  BY DEF IsSequence
<1>2. PICK D : D = [i \in 0 .. n |-> Displays(On(Filled(r, k, text, i), k + i), l, c)]
  OBVIOUS
<1>3. Len(Each(text)) = n /\ \A i \in 1 .. n : Each(text)[i] = Put(<<text[i]>>)
  BY <1>1 DEF Each
<1>4. ASSUME NEW i \in 1 .. n PROVE Carries(Put(<<text[i]>>), D[i - 1], D[i])
  <2>1. PICK m \in Nat : m = k + (i - 1)
    OBVIOUS
  <2>2. PICK one : one = <<text[i]>> /\ Len(one) = 1 /\ one[1] = text[i]
    BY OneElement
  <2>3. m + Len(one) <= Columns /\ i - 1 \in 0 .. n /\ i \in 0 .. n /\ m + Len(one) = k + i
    BY <1>1, <2>1, <2>2
  <2>4. PICK q : q = Filled(r, k, text, i - 1)
    OBVIOUS
  <2>5. Over(q, m, one) = Filled(r, k, text, i)
    BY <2>1, <2>2, <2>3, <2>4 DEF Over, Filled
  <2>6. D[i - 1] = Displays(On(q, m), l, c)
        /\ D[i] = Displays(On(Over(q, m, one), m + Len(one)), l, c)
    BY <1>2, <2>1, <2>3, <2>4, <2>5
  <2>7. Carries(Put(one), D[i - 1], D[i])
    BY <2>3, <2>6, Single
  <2> QED
    BY <2>2, <2>7
<1>5. D[0] = Displays(On(r, k), l, c) /\ D[n] = Displays(On(Over(r, k, text), k + n), l, c)
  <2>1. k + 0 = k /\ 0 \in 0 .. n /\ n \in 0 .. n
    OBVIOUS
  <2>2. Filled(r, k, text, 0) = r
    BY DEF Filled, IsRow
  <2>3. Filled(r, k, text, n) = Over(r, k, text)
    BY <1>1 DEF Filled, Over
  <2> QED
    BY <1>2, <2>1, <2>2, <2>3
<1>6. Leads(Each(text), D[0], D[n])
  BY <1>3, <1>4, Stepwise
<1> QED
  BY <1>1, <1>5, <1>6
-----------------------------------------------------------------------------
(* The line on the row. *)

\* The line with its cursor on the console, and a handler that leads from it to
\* another or the same.
Typed(l, c) == Displays(On(Shown(l), c), l, c)
Brings(p, l, c) == \E m, k : Leads(p, Typed(l, c), Typed(m, k))

\* A line as a row.
LEMMA Rows ==
  ASSUME Columns \in Nat, NEW x, IsSequence(x), Len(x) <= Columns
  PROVE  /\ Len(x) \in Nat /\ IsRow(Shown(x)) /\ IsRow(Blank)
         /\ Over(Blank, 0, x) = Shown(x) /\ Shown(<<>>) = Blank
<1>1. Len(x) \in Nat
  BY DEF IsSequence
<1>2. IsRow(Shown(x)) /\ IsRow(Blank)
  BY DEF IsRow, Shown, Blank
<1>3. Over(Blank, 0, x) = Shown(x)
  <2>1. \A i \in 1 .. Columns : i \in 0 + 1 .. 0 + Len(x) <=> i <= Len(x)
    BY <1>1
  <2>2. \A i \in 1 .. Columns : i - 0 = i /\ Blank[i] = " "
    BY DEF Blank
  <2> QED
    BY <2>1, <2>2 DEF Over, Shown
<1>4. Shown(<<>>) = Blank
  <2>1. \A i \in 1 .. Columns : ~ (i <= Len(<<>>))
    BY NoElement
  <2> QED
    BY <2>1 DEF Shown, Blank
<1> QED
  BY <1>1, <1>2, <1>3, <1>4

\* shellClearCommandLine leaves nothing behind the prompt, up to 255 characters.
LEMMA LineCleared ==
  ASSUME Columns \in Nat, NEW l, IsSequence(l), Len(l) <= Columns, Len(l) < 256, NEW c \in 0 .. Len(l)
  PROVE  /\ Leads(ClearCommandLine(l, c), Typed(l, c), Displays(On(Blank, 0), l, c))
         /\ IsSequence(ClearCommandLine(l, c))
<1>1. Len(l) \in Nat
  BY DEF IsSequence
<1>2. PICK n \in Nat : n = Len(l) - c /\ c \in Nat /\ c + n = Len(l)
  <2>1. Len(l) - c \in Nat /\ c \in Nat /\ c + (Len(l) - c) = Len(l)
    BY <1>1
  <2> QED
    BY <2>1
<1>3. PICK blanks : blanks = Repeat(" ", n) /\ IsSequence(blanks) /\ Len(blanks) = n
                    /\ \A i \in 1 .. n : blanks[i] = " "
  BY RepeatIs
<1>4. Repeat(Put(<<" ">>), n) = Each(blanks)
  BY <1>3 DEF Repeat, Each
<1>5. PICK q : q = Over(Shown(l), c, blanks)
  OBVIOUS
<1>6. IsRow(q) /\ c + Len(blanks) = Len(l) /\ c \in Nat
  <2>1. IsRow(q)
    BY <1>5 DEF IsRow, Over
  <2> QED
    BY <1>2, <1>3, <2>1
<1>7. Leads(Each(blanks), Typed(l, c), Displays(On(q, Len(l)), l, c))
  BY <1>3, <1>5, <1>6, Rows, Spelled DEF Typed
<1>8. Cleared(q, 0, Len(l)) = Blank
  <2>1. ASSUME NEW i \in 1 .. Columns, i \notin 0 + 1 .. Len(l) PROVE q[i] = " "
    <3>1. ~ (i <= Len(l)) /\ i \notin c + 1 .. c + Len(blanks)
      BY <1>1, <1>2, <1>6, <2>1
    <3>2. q[i] = Shown(l)[i]
      BY <1>5, <3>1 DEF Over
    <3>3. Shown(l)[i] = " "
      BY <1>1, <3>1 DEF Shown
    <3> QED
      BY <3>2, <3>3
  <2> QED
    BY <2>1 DEF Cleared, Blank
<1>9. Leads(Repeat(Erase, Len(l)), Displays(On(q, Len(l)), l, c), Displays(On(Blank, 0), l, c))
  <2>1. Len(l) \in 0 .. Columns /\ Len(l) \in 0 .. Len(l) /\ Len(l) - Len(l) = 0
    BY <1>1
  <2>2. Leads(Repeat(Erase, Len(l)), Displays(On(q, Len(l)), l, c),
              Displays(On(Cleared(q, Len(l) - Len(l), Len(l)), Len(l) - Len(l)), l, c))
    BY <1>6, <2>1, Erased
  <2> QED
    BY <1>8, <2>1, <2>2
<1>10. DeleteCommandLine(Len(l)) = Repeat(Erase, Len(l))
  <2>1. Len(l) % 256 = Len(l)
    BY <1>1
  <2> QED
    BY <2>1 DEF DeleteCommandLine
<1>11. ClearCommandLine(l, c) = Join(Each(blanks), Repeat(Erase, Len(l)))
  BY <1>2, <1>4, <1>10 DEF ClearCommandLine, Join
<1>12. IsSequence(Each(blanks)) /\ IsSequence(Repeat(Erase, Len(l)))
  BY <1>1, <1>2, <1>4, RepeatIs
<1> QED
  BY <1>7, <1>9, <1>11, <1>12, InTurn, SequencesJoined

\* Another line is written behind the prompt.
LEMMA LineSet ==
  ASSUME Columns \in Nat, NEW l, NEW c, NEW x, IsSequence(x), Len(x) <= Columns
  PROVE  /\ Leads(<<Edit(x, Len(x)), Put(x)>>, Displays(On(Blank, 0), l, c), Typed(x, Len(x)))
         /\ Leads(<<Edit(<<>>, 0)>>, Displays(On(Blank, 0), l, c), Typed(<<>>, 0))
         /\ Leads(<<Put(x)>>, Displays(On(Blank, 0), x, Len(x)), Typed(x, Len(x)))
<1>1. \A t, at : Leads(<<Edit(t, at)>>, Displays(On(Blank, 0), l, c), Displays(On(Blank, 0), t, at))
  <2>1. Garbled \in On(Blank, 0)
    BY DEF On
  <2> QED
    BY <2>1, Setting, AtOnce
<1>2. Leads(<<Put(x)>>, Displays(On(Blank, 0), x, Len(x)), Typed(x, Len(x)))
  <2>1. Len(x) \in Nat /\ 0 + Len(x) = Len(x) /\ Over(Blank, 0, x) = Shown(x)
    BY Rows
  <2>2. Carries(Put(x), Displays(On(Blank, 0), x, Len(x)),
                Displays(On(Over(Blank, 0, x), 0 + Len(x)), x, Len(x)))
    <3>1. \A t : 0 + Len(t) <= Columns =>
            Carries(Put(t), Displays(On(Blank, 0), x, Len(x)),
                    Displays(On(Over(Blank, 0, t), 0 + Len(t)), x, Len(x)))
      BY Single
    <3> QED
      BY <2>1, <3>1
  <2> QED
    BY <2>1, <2>2, AtOnce DEF Typed
<1>3. <<Edit(x, Len(x)), Put(x)>> = Join(<<Edit(x, Len(x))>>, <<Put(x)>>)
  BY DEF Join
<1>4. IsSequence(<<Edit(x, Len(x))>>) /\ IsSequence(<<Put(x)>>)
  BY OneElement
<1>5. Leads(<<Edit(x, Len(x)), Put(x)>>, Displays(On(Blank, 0), l, c), Typed(x, Len(x)))
  BY <1>1, <1>2, <1>3, <1>4, InTurn
<1>6. Leads(<<Edit(<<>>, 0)>>, Displays(On(Blank, 0), l, c), Typed(<<>>, 0))
  BY <1>1, Rows DEF Typed
<1> QED
  BY <1>2, <1>5, <1>6

\* The prompt, from whatever was there before.
LEMMA Prompted ==
  ASSUME Columns \in Nat, NEW l, NEW c, NEW S
  PROVE  /\ Leads(WritePrompt(TRUE), Displays(S, l, c), Displays(On(Blank, 0), l, c))
         /\ IsSequence(WritePrompt(TRUE))
<1>1. WritePrompt(TRUE) = Join(<<Text>>, <<Prompt>>)
  BY DEF WritePrompt, Join
<1>2. IsSequence(<<Text>>) /\ IsSequence(<<Prompt>>)
  BY OneElement
<1>3. /\ Leads(<<Text>>, Displays(S, l, c), Displays(Fresh, l, c))
      /\ Leads(<<Prompt>>, Displays(Fresh, l, c), Displays(On(Blank, 0), l, c))
  BY Single, AtOnce
<1> QED
  BY <1>1, <1>2, <1>3, InTurn, SequencesJoined

\* Lines of text.
LEMMA TextWritten ==
  ASSUME Columns \in Nat, NEW l, NEW c, NEW S, NEW n \in Nat
  PROVE  /\ Leads(<<Text>>, Displays(S, l, c), Displays(Fresh, l, c))
         /\ Leads(Repeat(Text, n), Displays(Fresh, l, c), Displays(Fresh, l, c))
         /\ IsSequence(<<Text>>) /\ IsSequence(Repeat(Text, n))
<1>1. /\ Carries(Text, Displays(S, l, c), Displays(Fresh, l, c))
      /\ Carries(Text, Displays(Fresh, l, c), Displays(Fresh, l, c))
  BY Single
<1>2. PICK D : D = [i \in 0 .. n |-> Displays(Fresh, l, c)]
  OBVIOUS
<1>3. \A i \in 1 .. n : Carries(Repeat(Text, n)[i], D[i - 1], D[i])
  BY <1>1, <1>2, RepeatIs
<1>4. D[0] = Displays(Fresh, l, c) /\ D[n] = Displays(Fresh, l, c) /\ Len(Repeat(Text, n)) = n
  BY <1>2, RepeatIs
<1>5. Leads(Repeat(Text, n), D[0], D[n])
  BY <1>3, <1>4, Stepwise
<1> QED
  BY <1>1, <1>4, <1>5, AtOnce, OneElement, RepeatIs

\* A character that is refused.
LEMMA Refused ==
  ASSUME Columns \in Nat, NEW l, IsSequence(l), Len(l) <= Columns, NEW c \in 0 .. Len(l)
  PROVE  Brings(TooLong(l, c), l, c)
<1>1. Len(l) \in Nat
  BY DEF IsSequence
<1>2. PICK p : p = Join(Join(<<Text>>, WritePrompt(TRUE)), <<Put(l)>>)
  OBVIOUS
<1>3. /\ IsSequence(<<Text>>) /\ IsSequence(WritePrompt(TRUE))
      /\ IsSequence(<<Put(l)>>) /\ IsSequence(<<Lost>>)
  BY OneElement, Prompted
<1>4. IsSequence(Join(<<Text>>, WritePrompt(TRUE))) /\ IsSequence(p)
  BY <1>2, <1>3, SequencesJoined
<1>5. Leads(<<Put(l)>>, Displays(On(Blank, 0), l, c), Displays(On(Shown(l), Len(l)), l, c))
  <2>1. 0 + Len(l) = Len(l) /\ Over(Blank, 0, l) = Shown(l)
    BY <1>1, Rows
  <2>2. \A t : 0 + Len(t) <= Columns =>
          Carries(Put(t), Displays(On(Blank, 0), l, c),
            Displays(On(Over(Blank, 0, t), 0 + Len(t)), l, c))
    BY Single
  <2> QED
    BY <2>1, <2>2, AtOnce
<1>6. Leads(p, Typed(l, c), Displays(On(Shown(l), Len(l)), l, c))
  <2>1. /\ Leads(<<Text>>, Typed(l, c), Displays(Fresh, l, c))
        /\ Leads(WritePrompt(TRUE), Displays(Fresh, l, c), Displays(On(Blank, 0), l, c))
    BY TextWritten, Prompted DEF Typed
  <2>2. Leads(Join(<<Text>>, WritePrompt(TRUE)), Typed(l, c), Displays(On(Blank, 0), l, c))
    BY <1>3, <2>1, InTurn
  <2> QED
    BY <1>2, <1>3, <1>4, <1>5, <2>2, InTurn
<1>7. CASE c < Len(l)
  <2>1. TooLong(l, c) = Join(p, <<Lost>>)
    BY <1>2, <1>7 DEF TooLong, Join
  <2>2. Leads(<<Lost>>, Displays(On(Shown(l), Len(l)), l, c), Typed(l, c))
    <3>1. c \in Nat
      BY <1>1
    <3> QED
      BY <3>1, Single, AtOnce DEF Typed
  <2>3. Leads(TooLong(l, c), Typed(l, c), Typed(l, c))
    BY <1>3, <1>4, <1>6, <2>1, <2>2, InTurn
  <2> QED
    BY <2>3 DEF Brings
<1>8. CASE ~ (c < Len(l))
  <2>1. TooLong(l, c) = Join(p, <<>>) /\ c = Len(l)
    <3>1. TooLong(l, c) = Join(p, <<>>)
      BY <1>2, <1>8 DEF TooLong, Join
    <3>2. c = Len(l)
      BY <1>1, <1>8
    <3> QED
      BY <3>1, <3>2
  <2>2. Leads(p, Typed(l, c), Typed(l, c))
    BY <1>6, <2>1 DEF Typed
  <2>3. Leads(Join(p, <<>>), Typed(l, c), Typed(l, c))
    BY <1>4, <2>2, NoElement, NoSteps, InTurn
  <2> QED
    BY <2>1, <2>3 DEF Brings
<1> QED
  BY <1>7, <1>8
-----------------------------------------------------------------------------
(* A character is inserted. *)

\* The line from a column on is written again.
LEMMA Rewritten ==
  ASSUME Columns \in Nat, NEW l, IsSequence(l), NEW m, IsSequence(m),
         NEW c \in 0 .. Len(l), c <= Len(m), \A i \in 1 .. c : m[i] = l[i],
         NEW t, Len(t) = Len(m) - c, \A j \in 1 .. Len(t) : t[j] = m[c + j]
  PROVE  /\ Len(m) >= Len(l) => Over(Shown(l), c, t) = Shown(m)
         /\ Len(m) = Len(l) - 1 => Over(Over(Shown(l), c, t), Len(m), <<" ">>) = Shown(m)
<1>1. PICK a \in Nat, b \in Nat, n \in Nat : a = Len(l) /\ b = Len(m) /\ n = Len(t)
           /\ c + n = b /\ c <= a
                   /\ c \in Nat
  <2>1. Len(l) \in Nat /\ Len(m) \in Nat
    BY DEF IsSequence
  <2>2. Len(t) \in Nat /\ c + Len(t) = Len(m) /\ c \in Nat
    BY <2>1
  <2> QED
    BY <2>1, <2>2
<1>2. PICK q : q = Over(Shown(l), c, t)
  OBVIOUS
<1>3. ASSUME NEW i \in 1 .. Columns PROVE q[i] = IF i <= b THEN m[i] ELSE IF i <= a THEN l[i] ELSE " "
  <2>1. q[i] = IF i \in c + 1 .. c + n THEN t[i - c] ELSE IF i <= a THEN l[i] ELSE " "
    BY <1>1, <1>2 DEF Over, Shown
  <2>2. i \in c + 1 .. c + n <=> i > c /\ i <= b
    BY <1>1
  <2>3. CASE i <= c
    <3>1. i \in 1 .. c /\ i <= a /\ i <= b /\ ~ (i > c)
      BY <1>1, <2>3
    <3>2. m[i] = l[i]
      BY <3>1
    <3> QED
      BY <2>1, <2>2, <3>1, <3>2
  <2>4. CASE i > c /\ i <= b
    <3>1. i - c \in 1 .. Len(t) /\ c + (i - c) = i
      BY <1>1, <2>4
    <3>2. t[i - c] = m[i]
      BY <3>1
    <3> QED
      BY <2>1, <2>2, <2>4, <3>2
  <2>5. CASE i > b
    <3>1. i > c /\ ~ (i <= b)
      BY <1>1, <2>5
    <3> QED
      BY <2>1, <2>2, <3>1
  <2>6. i <= c \/ (i > c /\ i <= b) \/ i > b
    OBVIOUS
  <2> QED
    BY <2>3, <2>4, <2>5, <2>6
<1>4. ASSUME b >= a PROVE q = Shown(m)
  <2>1. ASSUME NEW i \in 1 .. Columns PROVE q[i] = IF i <= b THEN m[i] ELSE " "
    <3>1. ~ (i <= b) => ~ (i <= a)
      BY <1>4
    <3> QED
      BY <1>3, <3>1
  <2>2. q = [i \in 1 .. Columns |-> q[i]]
    BY <1>2 DEF Over
  <2> QED
    BY <1>1, <2>1, <2>2 DEF Shown
<1>5. ASSUME b = a - 1 PROVE Over(q, b, <<" ">>) = Shown(m)
  <2>1. PICK one : one = <<" ">> /\ Len(one) = 1 /\ one[1] = " "
    BY OneElement
  <2>2. ASSUME NEW i \in 1 .. Columns
        PROVE  (IF i \in b + 1 .. b + Len(one) THEN one[i - b] ELSE q[i]) =
          IF i <= b THEN m[i] ELSE " "
    <3>1. i \in b + 1 .. b + Len(one) <=> i = b + 1
      <4>1. \A x, y \in Int : x \in y + 1 .. y + 1 <=> x = y + 1
        OBVIOUS
      <4>2. b \in Int /\ i \in Int
        BY <1>1
      <4> QED
        BY <2>1, <4>1, <4>2
    <3>2. CASE i = b + 1
      <4>1. i - b = 1 /\ ~ (i <= b)
        BY <3>2
      <4> QED
        BY <2>1, <3>1, <3>2, <4>1
    <3>3. CASE i # b + 1
      <4>1. ~ (i <= b) => ~ (i <= a)
        BY <1>5, <3>3
      <4> QED
        BY <1>3, <3>1, <3>3, <4>1
    <3> QED
      BY <3>2, <3>3
  <2> QED
    BY <1>1, <2>1, <2>2 DEF Over, Shown
<1>6. /\ Len(m) >= Len(l) <=> b >= a
      /\ Len(m) = Len(l) - 1 <=> b = a - 1
  BY <1>1
<1> QED
  BY <1>1, <1>2, <1>4, <1>5, <1>6

\* What is in front of a character that goes in.
LEMMA InsertedBehind ==
  ASSUME NEW l, IsSequence(l), NEW c \in 0 .. Len(l), NEW data
  PROVE  \A i \in 1 .. c : InsertAt(l, c + 1, data)[i] = l[i]
<1>1. Len(l) \in Nat
  BY DEF IsSequence
<1>2. PICK a : a = SubSeq(l, 1, c) /\ IsSequence(a) /\ Len(a) = c
  BY Beginning
<1>3. ASSUME NEW i \in 1 .. c PROVE a[i] = l[i]
  <2>1. 1 \in Nat \ {0} /\ c \in Int /\ c <= Len(l) /\ i \in 1 .. c - 1 + 1 /\ 1 + i - 1 = i
    BY <1>1
  <2>2. \A j \in 1 .. c - 1 + 1 : SubSeq(l, 1, c)[j] = l[1 + j - 1]
    BY <2>1, PartOf
  <2> QED
    BY <1>2, <2>1, <2>2
<1>4. PICK b : b = SubSeq(l, c + 1, Len(l)) /\ IsSequence(b)
  <2>1. c + 1 \in 1 .. Len(l) + 1
    BY <1>1
  <2> QED
    BY <2>1, Remainder
<1>5. PICK e : e = <<data>> /\ IsSequence(e) /\ Len(e) = 1
  BY OneElement
<1>6. PICK x : x = Join(a, e) /\ IsSequence(x) /\ Len(x) = c + 1 /\ \A i \in 1 .. c : x[i] = a[i]
  <2>1. IsSequence(Join(a, e)) /\ Len(Join(a, e)) = Len(a) + Len(e)
        /\ \A i \in 1 .. Len(a) : Join(a, e)[i] = a[i]
    <3>1. IsSequence(a) /\ IsSequence(e)
      BY <1>2, <1>5
    <3> QED
      BY <3>1, SequencesJoined
  <2> QED
    BY <1>2, <1>5, <2>1
<1>7. \A i \in 1 .. Len(x) : Join(x, b)[i] = x[i]
  BY <1>4, <1>6, SequencesJoined
<1>8. \A i \in 1 .. c : i \in 1 .. Len(x)
  BY <1>1, <1>6
<1>9. InsertAt(l, c + 1, data) = Join(x, b)
  <2>1. c + 1 - 1 = c
    BY <1>1
  <2>2. InsertAt(l, c + 1, data)
          = Join(Join(SubSeq(l, 1, c + 1 - 1), <<data>>), SubSeq(l, c + 1, Len(l)))
    BY InsertedAs
  <2> QED
    BY <1>2, <1>4, <1>5, <1>6, <2>1, <2>2, Zenon
<1> QED
  BY <1>3, <1>6, <1>7, <1>8, <1>9

\* What is in front of, and behind, a character that goes out.
LEMMA RemovedBetween ==
  ASSUME NEW l, IsSequence(l), NEW c \in 1 .. Len(l)
  PROVE  /\ \A i \in 1 .. c - 1 : RemoveAt(l, c)[i] = l[i]
         /\ \A j \in 1 .. Len(l) - c : RemoveAt(l, c)[c - 1 + j] = SubSeq(l, c + 1, Len(l))[j]
         /\ IsSequence(SubSeq(l, c + 1, Len(l))) /\ Len(SubSeq(l, c + 1, Len(l))) = Len(l) - c
<1>1. Len(l) \in Nat
  BY DEF IsSequence
<1>2. PICK a : a = SubSeq(l, 1, c - 1) /\ IsSequence(a) /\ Len(a) = c - 1
  <2>1. c - 1 \in 0 .. Len(l)
    BY <1>1
  <2> QED
    BY <2>1, Beginning
<1>3. ASSUME NEW i \in 1 .. c - 1 PROVE a[i] = l[i]
  <2>1. PICK n \in Int : n = c - 1
    BY <1>1
  <2>2. 1 \in Nat \ {0} /\ n <= Len(l) /\ i \in 1 .. n - 1 + 1 /\ 1 + i - 1 = i
    BY <1>1, <2>1
  <2>3. \A j \in 1 .. n - 1 + 1 : SubSeq(l, 1, n)[j] = l[1 + j - 1]
    BY <2>2, PartOf
  <2> QED
    BY <1>2, <2>1, <2>2, <2>3
<1>4. PICK b : b = SubSeq(l, c + 1, Len(l)) /\ IsSequence(b) /\ Len(b) = Len(l) - c
  <2>1. c + 1 \in 1 .. Len(l) + 1 /\ Len(l) - (c + 1) + 1 = Len(l) - c
    BY <1>1
  <2>2. /\ IsSequence(SubSeq(l, c + 1, Len(l)))
        /\ Len(SubSeq(l, c + 1, Len(l))) = Len(l) - (c + 1) + 1
    BY <2>1, Remainder
  <2> QED
    BY <2>1, <2>2, Zenon
<1>5. RemoveAt(l, c) = Join(a, b)
  BY <1>2, <1>4 DEF RemoveAt, Join
<1>6. /\ \A i \in 1 .. Len(a) : Join(a, b)[i] = a[i]
      /\ \A j \in 1 .. Len(b) : Join(a, b)[Len(a) + j] = b[j]
  <2>1. IsSequence(a) /\ IsSequence(b)
    BY <1>2, <1>4
  <2> QED
    BY <2>1, SequencesJoined
<1> QED
  BY <1>2, <1>3, <1>4, <1>5, <1>6, Zenon

\* shellInsertByte
LEMMA ByteShown ==
  ASSUME Columns \in Nat, NEW l, IsSequence(l), NEW c \in 0 .. Len(l), NEW data,
         Len(l) < Session.size, Session.size \in 2 .. Columns
  PROVE  Brings(InsertByte(l, c, data), l, c)
<1>1. Len(l) \in Nat /\ c \in Nat /\ c <= Len(l) /\ Len(l) <= Columns /\ Session.size \in Nat
  <2>1. Len(l) \in Nat
    BY DEF IsSequence
  <2> QED
    BY <2>1
<1>2. PICK new : new = InsertAt(l, c + 1, data) /\ IsSequence(new) /\ Len(new) = Len(l) + 1
                 /\ \A i \in 1 .. c : new[i] = l[i]
  BY Inserted, InsertedBehind
<1>3. CASE Len(l) >= Session.size - 1
  <2>1. InsertByte(l, c, data) = TooLong(l, c)
    BY <1>3 DEF InsertByte
  <2> QED
    BY <1>1, <2>1, Refused
<1>4. CASE ~ (Len(l) >= Session.size - 1)
  <2>1. PICK k \in Nat : k = c + 1 /\ k \in Nat \ {0} /\ Len(new) <= Columns /\ Len(new) \in Int
             /\ Len(new) \in Nat
    BY <1>1, <1>2, <1>4
  <2>2. PICK t : t = SubSeq(new, k, Len(new))
    OBVIOUS
  <2>3. IsSequence(t) /\ Len(t) = Len(new) - c /\ \A j \in 1 .. Len(t) : t[j] = new[c + j]
    <3>1. /\ IsSequence(t) /\ Len(t) = IF k <= Len(new) THEN Len(new) - k + 1 ELSE 0
          /\ \A i \in 1 .. Len(new) - k + 1 : t[i] = new[k + i - 1]
      BY <1>2, <2>1, <2>2, PartOf
    <3>2. k <= Len(new) /\ Len(new) - k + 1 = Len(new) - c
      BY <1>1, <1>2, <2>1
    <3>3. \A i \in 1 .. Len(new) - k + 1 : k + i - 1 = c + i
      BY <1>1, <1>2, <2>1
    <3> QED
      BY <3>1, <3>2, <3>3
  <2>4. PICK n \in Nat : n = Len(l) - c /\ n \in 0 .. Len(new) /\ Len(new) - n = k
    <3>1. Len(l) - c \in Nat /\ Len(l) - c \in 0 .. Len(new) /\ Len(new) - (Len(l) - c) = k
      BY <1>1, <1>2, <2>1
    <3> QED
      BY <3>1
  <2>5. Leads(<<Edit(new, k)>>, Typed(l, c), Displays(On(Shown(l), c), new, k))
    <3>1. Garbled \in On(Shown(l), c)
      BY DEF On
    <3> QED
      BY <3>1, Setting, AtOnce DEF Typed
  <2>6. Leads(Each(t), Displays(On(Shown(l), c), new, k), Displays(On(Shown(new), Len(new)), new, k))
    <3>1. Over(Shown(l), c, t) = Shown(new)
      <4>1. Len(new) >= Len(l) /\ c <= Len(new)
        BY <1>1, <1>2
      <4> QED
        BY <1>1, <1>2, <2>3, <4>1, Rewritten
    <3>2. c + Len(t) = Len(new)
      BY <1>1, <2>1, <2>3
    <3>3. IsRow(Shown(l))
      BY <1>1, Rows
    <3>4. Leads(Each(t), Displays(On(Shown(l), c), new, k),
                Displays(On(Over(Shown(l), c, t), c + Len(t)), new, k))
      BY <1>1, <2>1, <2>3, <3>2, <3>3, Spelled
    <3> QED
      BY <3>1, <3>2, <3>4
  <2>7. Leads(Repeat(Back, n), Displays(On(Shown(new), Len(new)), new, k), Typed(new, k))
    BY <2>1, <2>4, GoneBack DEF Typed
  <2>8. InsertByte(l, c, data) = Join(Join(<<Edit(new, k)>>, Each(t)), Repeat(Back, n))
    BY <1>2, <1>4, <2>1, <2>2, <2>4 DEF InsertByte, Join
  <2>9. IsSequence(<<Edit(new, k)>>) /\ IsSequence(Each(t)) /\ IsSequence(Repeat(Back, n))
    BY <2>3, OneElement, EachOne, RepeatIs DEF Program
  <2>10. IsSequence(Join(<<Edit(new, k)>>, Each(t)))
    BY <2>9, SequencesJoined
  <2>11. Leads(Join(<<Edit(new, k)>>, Each(t)), Typed(l, c),
           Displays(On(Shown(new), Len(new)), new, k))
    BY <2>5, <2>6, <2>9, InTurn
  <2>12. Leads(InsertByte(l, c, data), Typed(l, c), Typed(new, k))
    BY <2>7, <2>8, <2>9, <2>10, <2>11, InTurn
  <2> QED
    BY <2>12, Zenon DEF Brings
<1> QED
  BY <1>3, <1>4
-----------------------------------------------------------------------------
(* A character is deleted, and the cursor moves. *)

\* The rest of a line is written one column further to the left, with a blank
\* behind it, and the cursor goes back to where that begins.
LEMMA Closed ==
  ASSUME Columns \in Nat, NEW l, IsSequence(l), NEW c \in 0 .. Len(l), Len(l) <= Columns, c < Len(l),
         NEW m, m = RemoveAt(l, c + 1), NEW t, t = SubSeq(l, c + 2, Len(l)), NEW n, n = Len(l) - c,
         NEW p, IsSequence(p), NEW D, Leads(p, D, Displays(On(Shown(l), c), m, c))
  PROVE  Leads(Join(Join(Join(p, Each(t)), <<Put(<<" ">>)>>), Repeat(Back, n)), D, Typed(m, c))
<1>1. PICK a \in Nat : a = Len(l) /\ c \in Nat /\ c < a
  <2>1. Len(l) \in Nat
    BY DEF IsSequence
  <2>2. c \in Nat
    BY <2>1
  <2> QED
    BY <2>1, <2>2
<1>2. c + 1 \in 1 .. Len(l) /\ c + 1 - 1 = c /\ c + 1 + 1 = c + 2 /\ Len(l) - (c + 1) = a - c - 1
  BY <1>1
<1>3. IsSequence(m) /\ Len(m) = a - 1 /\ Len(m) = Len(l) - 1
  BY <1>1, <1>2, Removed
<1>4. /\ \A i \in 1 .. c : m[i] = l[i]
      /\ IsSequence(t) /\ Len(t) = a - c - 1
      /\ \A j \in 1 .. Len(t) : m[c + j] = t[j]
  <2>1. PICK d : d = c + 1
    OBVIOUS
  <2>2. /\ \A i \in 1 .. d - 1 : RemoveAt(l, d)[i] = l[i]
        /\ \A j \in 1 .. Len(l) - d : RemoveAt(l, d)[d - 1 + j] = SubSeq(l, d + 1, Len(l))[j]
        /\ IsSequence(SubSeq(l, d + 1, Len(l))) /\ Len(SubSeq(l, d + 1, Len(l))) = Len(l) - d
    BY <1>2, <2>1, RemovedBetween
  <2>3. d - 1 = c /\ d + 1 = c + 2 /\ Len(l) - d = a - c - 1 /\ m = RemoveAt(l, d)
    BY <1>1, <2>1
  <2> QED
    BY <2>2, <2>3
<1>5. PICK one : one = <<" ">> /\ Len(one) = 1
  BY OneElement
<1>6. c + Len(t) = a - 1 /\ Len(m) \in Nat /\ a - 1 + Len(one) = a /\ a <= Columns
      /\ c + Len(t) <= Columns
  <2>1. a <= Columns /\ a - 1 \in Nat /\ c + (a - c - 1) = a - 1 /\ a - 1 + 1 = a /\ a - 1 <= Columns
    BY <1>1
  <2> QED
    BY <1>3, <1>4, <1>5, <2>1
<1>7. PICK q : q = Over(Shown(l), c, t)
  OBVIOUS
<1>8. Leads(Each(t), Displays(On(Shown(l), c), m, c), Displays(On(q, a - 1), m, c))
  <2>1. IsRow(Shown(l))
    BY <1>1, Rows
  <2>2. Leads(Each(t), Displays(On(Shown(l), c), m, c),
              Displays(On(Over(Shown(l), c, t), c + Len(t)), m, c))
    BY <1>1, <1>4, <1>6, <2>1, Spelled
  <2> QED
    BY <1>6, <1>7, <2>2
<1>9. Leads(<<Put(one)>>, Displays(On(q, a - 1), m, c), Displays(On(Shown(m), a), m, c))
  <2>1. PICK b \in Nat : b = a - 1
    BY <1>1
  <2>2. \A x : b + Len(x) <= Columns =>
          Carries(Put(x), Displays(On(q, b), m, c), Displays(On(Over(q, b, x), b + Len(x)), m, c))
    BY Single
  <2>3. Over(q, Len(m), one) = Shown(m)
    <3>1. /\ c <= Len(m) /\ Len(t) = Len(m) - c /\ \A j \in 1 .. Len(t) : t[j] = m[c + j]
      <4>1. c <= a - 1 /\ a - c - 1 = a - 1 - c
        BY <1>1
      <4>2. \A j \in 1 .. Len(t) : t[j] = m[c + j]
        BY <1>4
      <4> QED
        BY <1>3, <1>4, <4>1, <4>2
    <3>2. Len(m) = Len(l) - 1 => Over(Over(Shown(l), c, t), Len(m), <<" ">>) = Shown(m)
      BY <1>3, <1>4, <3>1, Rewritten
    <3> QED
      BY <1>3, <1>5, <1>7, <3>2
  <2>4. Over(q, b, one) = Shown(m) /\ b + Len(one) = a /\ b + Len(one) <= Columns
    BY <1>3, <1>6, <2>1, <2>3
  <2>5. Carries(Put(one), Displays(On(q, b), m, c), Displays(On(Over(q, b, one), b + Len(one)), m, c))
    BY <2>2, <2>4
  <2> QED
    BY <2>1, <2>4, <2>5, AtOnce
<1>10. Leads(Repeat(Back, n), Displays(On(Shown(m), a), m, c), Typed(m, c))
  <2>1. n \in 0 .. a /\ a - n = c
    BY <1>1
  <2> QED
    BY <2>1, GoneBack DEF Typed
<1>11. IsSequence(Each(t)) /\ IsSequence(<<Put(one)>>) /\ IsSequence(Repeat(Back, n))
  <2>1. n \in Nat
    BY <1>1
  <2> QED
    BY <1>4, <2>1, OneElement, EachOne, RepeatIs DEF Program
<1>12. Leads(Join(p, Each(t)), D, Displays(On(q, a - 1), m, c)) /\ IsSequence(Join(p, Each(t)))
  BY <1>8, <1>11, InTurn, SequencesJoined
<1>13. /\ Leads(Join(Join(p, Each(t)), <<Put(one)>>), D, Displays(On(Shown(m), a), m, c))
       /\ IsSequence(Join(Join(p, Each(t)), <<Put(one)>>))
  BY <1>9, <1>11, <1>12, InTurn, SequencesJoined
<1> QED
  BY <1>5, <1>10, <1>11, <1>13, InTurn

\* The cursor is put elsewhere in another line, which the console does not show yet.
LEMMA EditsOnly ==
  ASSUME NEW r, NEW k, NEW l, NEW c, NEW m, NEW d
  PROVE  /\ Leads(<<Edit(m, d)>>, Displays(On(r, k), l, c), Displays(On(r, k), m, d))
         /\ IsSequence(<<Edit(m, d)>>)
<1>1. Garbled \in On(r, k)
  BY DEF On
<1> QED
  BY <1>1, Setting, AtOnce, OneElement

\* The character at the cursor is deleted.
LEMMA DeletedAt ==
  ASSUME Columns \in Nat, NEW l, IsSequence(l), NEW c \in 0 .. Len(l), Len(l) <= Columns
  PROVE  Brings(DeleteAt(l, c), l, c)
<1>1. Len(l) \in Nat
  BY DEF IsSequence
<1>2. CASE c = Len(l)
  <2>1. DeleteAt(l, c) = <<>>
    BY <1>2 DEF DeleteAt
  <2>2. Leads(<<>>, Typed(l, c), Typed(l, c))
    BY NoSteps
  <2> QED
    BY <2>1, <2>2, Zenon DEF Brings
<1>3. CASE c # Len(l)
  <2>1. PICK m, t, n : m = RemoveAt(l, c + 1) /\ t = SubSeq(l, c + 2, Len(l)) /\ n = Len(l) - c
    OBVIOUS
  <2>2. Leads(<<Edit(m, c)>>, Typed(l, c), Displays(On(Shown(l), c), m, c))
        /\ IsSequence(<<Edit(m, c)>>)
    BY EditsOnly DEF Typed
  <2>3. c < Len(l)
    BY <1>1, <1>3
  <2>4. Leads(Join(Join(Join(<<Edit(m, c)>>, Each(t)), <<Put(<<" ">>)>>), Repeat(Back, n)),
          Typed(l, c), Typed(m, c))
    BY <2>1, <2>2, <2>3, Closed
  <2>5. DeleteAt(l, c) = Join(Join(Join(<<Edit(m, c)>>, Each(t)), <<Put(<<" ">>)>>), Repeat(Back, n))
    BY <1>3, <2>1, Zenon DEF DeleteAt, Join
  <2> QED
    BY <2>4, <2>5, Zenon DEF Brings
<1> QED
  BY <1>2, <1>3

\* The character before the cursor is deleted.
LEMMA DeletedBefore ==
  ASSUME Columns \in Nat, NEW l, IsSequence(l), NEW c \in 0 .. Len(l), Len(l) <= Columns
  PROVE  Brings(DeleteBefore(l, c), l, c)
<1>1. Len(l) \in Nat /\ c \in Nat /\ c <= Len(l)
  <2>1. Len(l) \in Nat
    BY DEF IsSequence
  <2> QED
    BY <2>1
<1>2. CASE c = 0
  <2>1. DeleteBefore(l, c) = <<>>
    BY <1>2 DEF DeleteBefore
  <2>2. Leads(<<>>, Typed(l, c), Typed(l, c))
    BY NoSteps
  <2> QED
    BY <2>1, <2>2, Zenon DEF Brings
<1>3. CASE c # 0 /\ c = Len(l)
  <2>1. PICK m : m = Front(l)
    OBVIOUS
  <2>2. PICK b \in Nat : b = c - 1 /\ b + 1 = c /\ c \in 0 .. Columns /\ 1 \in 0 .. c /\ 1 % 256 = 1
    <3>1. c - 1 \in Nat /\ c - 1 + 1 = c /\ c \in 0 .. Columns /\ 1 \in 0 .. c /\ 1 % 256 = 1
      BY <1>1, <1>3
    <3> QED
      BY <3>1
  <2>3. /\ IsSequence(m) /\ Len(m) = b
        /\ \A i \in 1 .. b : m[i] = l[i]
    <3>1. m = SubSeq(l, 1, b)
      BY <1>3, <2>1, <2>2 DEF Front
    <3>2. b \in 0 .. Len(l)
      BY <1>1, <2>2
    <3>3. IsSequence(m) /\ Len(m) = b
      BY <3>1, <3>2, Beginning
    <3>4. 1 \in Nat \ {0} /\ b \in Int /\ b <= Len(l)
          /\ \A i \in 1 .. b : i \in 1 .. b - 1 + 1 /\ 1 + i - 1 = i
      BY <3>2
    <3>5. \A i \in 1 .. b - 1 + 1 : SubSeq(l, 1, b)[i] = l[1 + i - 1]
      BY <3>4, PartOf
    <3> QED
      BY <3>1, <3>3, <3>4, <3>5
  <2>4. Cleared(Shown(l), b, c) = Shown(m)
    <3>1. ASSUME NEW i \in 1 .. Columns
          PROVE  (IF i \in b + 1 .. c THEN " " ELSE Shown(l)[i]) = IF i <= Len(m) THEN m[i] ELSE " "
      <4>1. i \in b + 1 .. c <=> i = c
        BY <1>1, <2>2
      <4>2. Shown(l)[i] = IF i <= c THEN l[i] ELSE " "
        BY <1>3 DEF Shown
      <4>3. CASE i <= b
        <5>1. i \in 1 .. b /\ i # c /\ i <= c
          BY <2>2, <4>3
        <5> QED
          BY <2>3, <4>1, <4>2, <4>3, <5>1
      <4>4. CASE ~ (i <= b)
        <5>1. i = c \/ ~ (i <= c)
          BY <2>2, <4>4
        <5> QED
          BY <2>3, <4>1, <4>2, <4>4, <5>1
      <4> QED
        BY <4>3, <4>4
    <3> QED
      BY <3>1 DEF Cleared, Shown
  <2>5. Leads(<<Edit(m, b)>>, Typed(l, c), Displays(On(Shown(l), c), m, b))
        /\ IsSequence(<<Edit(m, b)>>)
    BY EditsOnly DEF Typed
  <2>6. Leads(Repeat(Erase, 1), Displays(On(Shown(l), c), m, b), Typed(m, b))
        /\ IsSequence(Repeat(Erase, 1))
    <3>1. IsRow(Shown(l))
      BY <1>1, Rows
    <3>2. Leads(Repeat(Erase, 1), Displays(On(Shown(l), c), m, b),
                Displays(On(Cleared(Shown(l), c - 1, c), c - 1), m, b))
      BY <2>2, <3>1, Erased
    <3> QED
      BY <2>2, <2>4, <3>2, RepeatIs DEF Typed
  <2>7. DeleteBefore(l, c) = Join(<<Edit(m, b)>>, Repeat(Erase, 1))
    BY <1>3, <2>1, <2>2, Zenon DEF DeleteBefore, DeleteCommandLine, Join
  <2>8. Leads(Join(<<Edit(m, b)>>, Repeat(Erase, 1)), Typed(l, c), Typed(m, b))
    BY <2>5, <2>6, InTurn
  <2> QED
    BY <2>7, <2>8, Zenon DEF Brings
<1>4. CASE c # 0 /\ c # Len(l)
  <2>1. PICK b \in 0 .. Len(l) : b = c - 1 /\ b + 1 = c /\ b + 2 = c + 1 /\ b < Len(l)
             /\ Len(l) - b = Len(l) - c + 1
    <3>1. /\ c - 1 \in 0 .. Len(l) /\ c - 1 + 1 = c /\ c - 1 + 2 = c + 1 /\ c - 1 < Len(l)
          /\ Len(l) - (c - 1) = Len(l) - c + 1
      BY <1>1, <1>4
    <3> QED
      BY <3>1
  <2>2. PICK m, t, n : m = RemoveAt(l, c) /\ t = SubSeq(l, c + 1, Len(l)) /\ n = Len(l) - c + 1
    OBVIOUS
  <2>3. m = RemoveAt(l, b + 1) /\ t = SubSeq(l, b + 2, Len(l)) /\ n = Len(l) - b
    BY <2>1, <2>2, Zenon
  <2>4. PICK p : p = Join(<<Edit(m, b)>>, <<Back>>)
    OBVIOUS
  <2>5. Leads(p, Typed(l, c), Displays(On(Shown(l), b), m, b)) /\ IsSequence(p)
    <3>1. Leads(<<Edit(m, b)>>, Typed(l, c), Displays(On(Shown(l), c), m, b))
          /\ IsSequence(<<Edit(m, b)>>)
      BY EditsOnly DEF Typed
    <3>2. Carries(Back, Displays(On(Shown(l), c), m, b), Displays(On(Shown(l), c - 1), m, b))
      BY <1>1, <1>4, Single
    <3>3. Leads(<<Back>>, Displays(On(Shown(l), c), m, b), Displays(On(Shown(l), b), m, b))
          /\ IsSequence(<<Back>>)
      BY <2>1, <3>2, AtOnce, OneElement
    <3> QED
      BY <2>4, <3>1, <3>3, InTurn, SequencesJoined
  <2>6. Leads(Join(Join(Join(p, Each(t)), <<Put(<<" ">>)>>), Repeat(Back, n)),
          Typed(l, c), Typed(m, b))
    BY <1>1, <2>1, <2>3, <2>5, Closed
  <2>7. DeleteBefore(l, c) = Join(Join(Join(p, Each(t)), <<Put(<<" ">>)>>), Repeat(Back, n))
    <3>1. <<Edit(m, b), Back>> = p
      BY <2>4 DEF Join
    <3> QED
      BY <1>4, <2>1, <2>2, <3>1, Zenon DEF DeleteBefore, Join
  <2> QED
    BY <2>6, <2>7, Zenon DEF Brings
<1> QED
  BY <1>2, <1>3, <1>4

\* The cursor moves.
LEMMA Moved ==
  ASSUME Columns \in Nat, NEW l, IsSequence(l), NEW c \in 0 .. Len(l), Len(l) <= Columns
  PROVE  Brings(Right(l, c), l, c) /\ Brings(Left(l, c), l, c)
<1>1. Len(l) \in Nat /\ c \in Nat /\ c <= Len(l)
  <2>1. Len(l) \in Nat
    BY DEF IsSequence
  <2> QED
    BY <2>1
<1>2. Brings(<<>>, l, c)
  BY NoSteps, Zenon DEF Brings
<1>3. ASSUME c < Len(l) PROVE Brings(Right(l, c), l, c)
  <2>1. PICK k, one : k = c + 1 /\ one = <<l[c + 1]>> /\ Len(one) = 1 /\ one[1] = l[c + 1]
    BY OneElement
  <2>2. c + Len(one) <= Columns /\ c + Len(one) = k /\ k \in Nat /\ k <= Len(l)
    BY <1>1, <1>3, <2>1
  <2>3. Over(Shown(l), c, one) = Shown(l)
    <3>1. ASSUME NEW i \in 1 .. Columns
          PROVE  (IF i \in c + 1 .. c + Len(one) THEN one[i - c] ELSE Shown(l)[i])
                   = IF i <= Len(l) THEN l[i] ELSE " "
      <4>1. i \in c + 1 .. c + Len(one) => i = c + 1 /\ i - c = 1 /\ i <= Len(l)
        BY <1>1, <1>3, <2>1
      <4>2. Shown(l)[i] = IF i <= Len(l) THEN l[i] ELSE " "
        BY DEF Shown
      <4> QED
        BY <2>1, <4>1, <4>2
    <3> QED
      BY <3>1 DEF Over, Shown
  <2>4. Leads(<<Edit(l, k)>>, Typed(l, c), Displays(On(Shown(l), c), l, k))
        /\ IsSequence(<<Edit(l, k)>>)
    BY EditsOnly DEF Typed
  <2>5. Leads(<<Put(one)>>, Displays(On(Shown(l), c), l, k), Typed(l, k)) /\ IsSequence(<<Put(one)>>)
    <3>1. \A x : c + Len(x) <= Columns =>
            Carries(Put(x), Displays(On(Shown(l), c), l, k),
                    Displays(On(Over(Shown(l), c, x), c + Len(x)), l, k))
      BY <1>1, Single
    <3>2. Carries(Put(one), Displays(On(Shown(l), c), l, k),
                  Displays(On(Over(Shown(l), c, one), c + Len(one)), l, k))
      BY <2>2, <3>1
    <3> QED
      BY <2>2, <2>3, <3>2, AtOnce, OneElement DEF Typed
  <2>6. Right(l, c) = Join(<<Edit(l, k)>>, <<Put(one)>>)
    BY <1>3, <2>1 DEF Right, Join
  <2>7. Leads(Join(<<Edit(l, k)>>, <<Put(one)>>), Typed(l, c), Typed(l, k))
    BY <2>4, <2>5, InTurn
  <2> QED
    BY <2>6, <2>7, Zenon DEF Brings
<1>4. ASSUME c > 0 PROVE Brings(Left(l, c), l, c)
  <2>1. PICK b : b = c - 1
    OBVIOUS
  <2>2. Carries(Back, Displays(On(Shown(l), c), l, c), Displays(On(Shown(l), c - 1), l, c))
    <3>1. c # 0
      BY <1>1, <1>4
    <3> QED
      BY <1>1, <3>1, Single
  <2>3. Leads(<<Back>>, Typed(l, c), Displays(On(Shown(l), b), l, c)) /\ IsSequence(<<Back>>)
    BY <2>1, <2>2, AtOnce, OneElement DEF Typed
  <2>4. Leads(<<Edit(l, b)>>, Displays(On(Shown(l), b), l, c), Typed(l, b))
        /\ IsSequence(<<Edit(l, b)>>)
    BY EditsOnly DEF Typed
  <2>5. Left(l, c) = Join(<<Back>>, <<Edit(l, b)>>)
    BY <1>4, <2>1 DEF Left, Join
  <2>6. Leads(Join(<<Back>>, <<Edit(l, b)>>), Typed(l, c), Typed(l, b))
    BY <2>3, <2>4, InTurn
  <2> QED
    BY <2>5, <2>6, Zenon DEF Brings
<1>5. /\ ~ (c < Len(l)) => Right(l, c) = <<>>
      /\ ~ (c > 0) => Left(l, c) = <<>>
  BY DEF Right, Left
<1> QED
  BY <1>2, <1>3, <1>4, <1>5
-----------------------------------------------------------------------------
(* Completion, the history and lists. *)

\* The completed line is shown.
LEMMA Completed ==
  ASSUME Columns \in Nat, session \in DOMAIN Sessions, NEW l, Editable(l, Session.size), Len(l) < 256,
         NEW c \in 0 .. Len(l), Matches(l) # {}
  PROVE  /\ Brings(Complete(l, c), l, c) /\ IsSequence(Complete(l, c))
         /\ Cardinality(Matches(l)) = 1 => Brings(Join(Complete(l, c), QuickHelp(l)), l, c)
<1>1. PICK found : found = Matches(l) /\ found \subseteq DOMAIN Commands /\ found # {}
  BY DEF Matches
<1>2. IsSequence(l) /\ Len(l) \in Nat /\ Session.size <= Columns /\ Len(l) <= Columns
  <2>1. IsSequence(l) /\ Len(l) \in Nat /\ Len(l) < Session.size /\ Session.size \in 2 .. Columns
    BY SessionRight DEF Editable, IsSequence
  <2> QED
    BY <2>1
<1>3. PICK last : /\ last = Commands[Max(found)].name /\ IsSequence(last) /\ Len(last) \in Nat
                  /\ Len(last) <= Columns
  <2>1. Max(found) \in DOMAIN Commands
    BY <1>1, Ends
  <2>2. Editable(Commands[Max(found)].name, Session.size) /\ Session.size \in 2 .. Columns
    BY <2>1, SessionRight
  <2>3. PICK last : last = Commands[Max(found)].name
    OBVIOUS
  <2>4. IsSequence(last) /\ Len(last) \in Nat /\ Len(last) < Session.size
    BY <2>2, <2>3 DEF Editable, IsSequence
  <2>5. Len(last) <= Columns
    BY <2>2, <2>4
  <2> QED
    BY <2>3, <2>4, <2>5
<1>4. \A x : IsSequence(<<Edit(x, Len(x)), Put(x)>>)
  <2> TAKE x
  <2>1. <<Edit(x, Len(x)), Put(x)>> = Join(<<Edit(x, Len(x))>>, <<Put(x)>>)
    BY DEF Join
  <2> QED
    BY <2>1, OneElement, SequencesJoined
<1>5. CASE Cardinality(found) = 1
  <2>1. /\ Leads(ClearCommandLine(l, c), Typed(l, c), Displays(On(Blank, 0), l, c))
        /\ IsSequence(ClearCommandLine(l, c))
    BY <1>2, LineCleared
  <2>2. Leads(<<Edit(last, Len(last)), Put(last)>>, Displays(On(Blank, 0), l, c),
          Typed(last, Len(last)))
    BY <1>3, LineSet
  <2>3. Complete(l, c) = Join(ClearCommandLine(l, c), <<Edit(last, Len(last)), Put(last)>>)
    BY <1>1, <1>3, <1>5, Zenon DEF Complete, Join
  <2>4. Leads(Complete(l, c), Typed(l, c), Typed(last, Len(last))) /\ IsSequence(Complete(l, c))
    BY <1>4, <2>1, <2>2, <2>3, InTurn, SequencesJoined
  <2>5. PICK p : p = Join(Join(<<Text>>, <<Text>>), WritePrompt(TRUE))
    OBVIOUS
  <2>6. /\ Leads(Join(<<Text>>, <<Text>>), Typed(last, Len(last)), Displays(Fresh, last, Len(last)))
        /\ IsSequence(Join(<<Text>>, <<Text>>))
    <3>1. /\ Leads(<<Text>>, Typed(last, Len(last)), Displays(Fresh, last, Len(last)))
          /\ Leads(<<Text>>, Displays(Fresh, last, Len(last)), Displays(Fresh, last, Len(last)))
          /\ IsSequence(<<Text>>)
      BY TextWritten, OneElement DEF Typed
    <3> QED
      BY <3>1, InTurn, SequencesJoined
  <2>7. Leads(p, Typed(last, Len(last)), Displays(On(Blank, 0), last, Len(last))) /\ IsSequence(p)
    <3>1. /\ Leads(WritePrompt(TRUE), Displays(Fresh, last, Len(last)),
               Displays(On(Blank, 0), last, Len(last)))
          /\ IsSequence(WritePrompt(TRUE))
      BY Prompted
    <3> QED
      BY <2>5, <2>6, <3>1, InTurn, SequencesJoined
  <2>8. Leads(<<Put(last)>>, Displays(On(Blank, 0), last, Len(last)), Typed(last, Len(last)))
    BY <1>3, LineSet
  <2>9. QuickHelp(l) = Join(p, <<Put(last)>>)
    BY <1>1, <1>3, <2>5, Zenon DEF QuickHelp, CommandHelp, Join
  <2>10. Leads(QuickHelp(l), Typed(last, Len(last)), Typed(last, Len(last)))
         /\ IsSequence(QuickHelp(l))
    BY <2>7, <2>8, <2>9, OneElement, InTurn, SequencesJoined
  <2>11. Leads(Join(Complete(l, c), QuickHelp(l)), Typed(l, c), Typed(last, Len(last)))
    BY <2>4, <2>10, InTurn
  <2> QED
    BY <2>4, <2>11, Zenon DEF Brings
<1>6. CASE Cardinality(found) # 1
  <2>1. PICK most : most = SubSeq(last, 1, MaxMatch(found))
    OBVIOUS
  <2>2. IsSequence(most) /\ Len(most) <= Columns
    <3>1. PICK n \in 0 .. Len(last) : n = MaxMatch(found)
      BY <1>1, <1>3, <1>6, MaxMatchBounds
    <3>2. IsSequence(most) /\ Len(most) = n
      BY <1>3, <2>1, <3>1, Beginning
    <3> QED
      BY <1>3, <3>2
  <2>3. PICK n \in Nat : n = Cardinality(found)
    BY <1>1, SomeCommands
  <2>4. PICK p : p = Join(<<Text>>, Repeat(Text, n))
    OBVIOUS
  <2>5. Leads(p, Typed(l, c), Displays(Fresh, l, c)) /\ IsSequence(p)
    <3>1. /\ Leads(<<Text>>, Typed(l, c), Displays(Fresh, l, c))
          /\ Leads(Repeat(Text, n), Displays(Fresh, l, c), Displays(Fresh, l, c))
          /\ IsSequence(<<Text>>) /\ IsSequence(Repeat(Text, n))
      BY TextWritten DEF Typed
    <3> QED
      BY <2>4, <3>1, InTurn, SequencesJoined
  <2>6. /\ Leads(WritePrompt(TRUE), Displays(Fresh, l, c), Displays(On(Blank, 0), l, c))
        /\ IsSequence(WritePrompt(TRUE))
    BY Prompted
  <2>7. Leads(Join(p, WritePrompt(TRUE)), Typed(l, c), Displays(On(Blank, 0), l, c))
        /\ IsSequence(Join(p, WritePrompt(TRUE)))
    BY <2>5, <2>6, InTurn, SequencesJoined
  <2>8. Leads(<<Edit(most, Len(most)), Put(most)>>, Displays(On(Blank, 0), l, c),
          Typed(most, Len(most)))
    BY <2>2, LineSet
  <2>9. Complete(l, c) = Join(Join(p, WritePrompt(TRUE)), <<Edit(most, Len(most)), Put(most)>>)
    BY <1>1, <1>3, <1>6, <2>1, <2>3, <2>4, Zenon DEF Complete, ListItem, Join
  <2>10. Leads(Complete(l, c), Typed(l, c), Typed(most, Len(most))) /\ IsSequence(Complete(l, c))
    BY <1>4, <2>7, <2>8, <2>9, InTurn, SequencesJoined
  <2> QED
    BY <1>1, <1>6, <2>10, Zenon DEF Brings
<1> QED
  BY <1>5, <1>6

\* So is a line that is recalled, or none.
LEMMA RecalledShown ==
  ASSUME Columns \in Nat, NEW l, IsSequence(l), Len(l) <= Columns, Len(l) < 256,
         NEW c \in 0 .. Len(l),
         NEW o, o # 0 => IsSequence(Recall(o)) /\ Len(Recall(o)) <= Columns
  PROVE  Brings(Recalled(l, c, o), l, c)
<1>1. /\ Leads(ClearCommandLine(l, c), Typed(l, c), Displays(On(Blank, 0), l, c))
      /\ IsSequence(ClearCommandLine(l, c))
  BY LineCleared
<1>2. CASE o = 0
  <2>1. Leads(<<Edit(<<>>, 0)>>, Displays(On(Blank, 0), l, c), Typed(<<>>, 0))
        /\ IsSequence(<<Edit(<<>>, 0)>>)
    BY LineSet, OneElement
  <2>2. Recalled(l, c, o) = Join(ClearCommandLine(l, c), <<Edit(<<>>, 0)>>)
    BY <1>2, Zenon DEF Recalled, Join
  <2>3. Leads(Recalled(l, c, o), Typed(l, c), Typed(<<>>, 0))
    BY <1>1, <2>1, <2>2, InTurn
  <2> QED
    BY <2>3, Zenon DEF Brings
<1>3. CASE o # 0
  <2>1. PICK x : x = Recall(o) /\ IsSequence(x) /\ Len(x) <= Columns
    BY <1>3
  <2>2. Leads(<<Edit(x, Len(x)), Put(x)>>, Displays(On(Blank, 0), l, c), Typed(x, Len(x)))
    BY <2>1, LineSet
  <2>3. IsSequence(<<Edit(x, Len(x)), Put(x)>>)
    <3>1. <<Edit(x, Len(x)), Put(x)>> = Join(<<Edit(x, Len(x))>>, <<Put(x)>>)
      BY DEF Join
    <3> QED
      BY <3>1, OneElement, SequencesJoined
  <2>4. Recalled(l, c, o) = Join(ClearCommandLine(l, c), <<Edit(x, Len(x)), Put(x)>>)
    BY <1>3, <2>1, Zenon DEF Recalled, Join
  <2>5. Leads(Recalled(l, c, o), Typed(l, c), Typed(x, Len(x)))
    BY <1>1, <2>2, <2>3, <2>4, InTurn
  <2> QED
    BY <2>5, Zenon DEF Brings
<1> QED
  BY <1>2, <1>3

\* The prompt of an empty line, and the commands before it.
LEMMA Listed ==
  ASSUME Columns \in Nat, session \in DOMAIN Sessions
  PROVE  /\ Brings(WritePrompt(TRUE), <<>>, 0)
         /\ Brings(Join(ListAll, WritePrompt(TRUE)), <<>>, 0)
<1>1. Typed(<<>>, 0) = Displays(On(Blank, 0), <<>>, 0)
  <2>1. IsSequence(<<>>) /\ Len(<<>>) <= Columns
    BY NoElement
  <2>2. Shown(<<>>) = Blank
    BY <2>1, Rows
  <2> QED
    BY <2>2 DEF Typed
<1>2. Leads(WritePrompt(TRUE), Typed(<<>>, 0), Typed(<<>>, 0)) /\ IsSequence(WritePrompt(TRUE))
  BY <1>1, Prompted
<1>3. PICK n \in Nat : n = Cardinality({i \in DOMAIN Commands : Commands[i].type \in CommandTypes})
  BY SomeCommands
<1>4. ListAll = Join(<<Text>>, Repeat(Text, n))
  BY <1>3 DEF ListAll, ListCommand, List, ListItem, Join
<1>5. /\ Leads(<<Text>>, Typed(<<>>, 0), Displays(Fresh, <<>>, 0))
      /\ Leads(Repeat(Text, n), Displays(Fresh, <<>>, 0), Displays(Fresh, <<>>, 0))
      /\ IsSequence(<<Text>>) /\ IsSequence(Repeat(Text, n))
  BY TextWritten DEF Typed
<1>6. Leads(ListAll, Typed(<<>>, 0), Displays(Fresh, <<>>, 0)) /\ IsSequence(ListAll)
  BY <1>4, <1>5, InTurn, SequencesJoined
<1>7. Leads(WritePrompt(TRUE), Displays(Fresh, <<>>, 0), Typed(<<>>, 0))
  BY <1>1, Prompted
<1>8. Leads(Join(ListAll, WritePrompt(TRUE)), Typed(<<>>, 0), Typed(<<>>, 0))
  BY <1>2, <1>6, <1>7, InTurn
<1> QED
  BY <1>2, <1>8, Zenon DEF Brings
-----------------------------------------------------------------------------
(* Commands. *)

\* A display, whatever its row, and a handler that changes the rest of it.
Has(d, l, c, a) == \E s : d = Display(s, l, c, a)
Sets(p, l, c, a, m, k, b) == \A tr : Trace(tr, p) /\ Has(tr[0], l, c, a) => Has(tr[Len(p)], m, k, b)

\* Lines of text, or none.
Texts(p) == IsSequence(p) /\ \A i \in 1 .. Len(p) : p[i] = Text

\* One step of those that are not edits.
LEMMA StepSets ==
  ASSUME NEW w, NEW l, NEW c, NEW a, NEW b, "line" \notin DOMAIN w,
         b = IF "active" \in DOMAIN w THEN w.active ELSE a,
         NEW d, NEW e, Has(d, l, c, a), Steps(d, w, e)
  PROVE  Has(e, l, c, b)
<1>1. PICK s : d = Display(s, l, c, a)
  BY Zenon DEF Has
<1>2. d.line = l /\ d.cursor = c /\ d.active = a
  BY <1>1, Fields
<1>3. PICK t : e = Display(t, d.line, d.cursor, IF "active" \in DOMAIN w THEN w.active ELSE d.active)
  BY Zenon DEF Steps
<1>4. e = Display(t, l, c, b)
  BY <1>2, <1>3, Zenon
<1> QED
  BY <1>4, Zenon DEF Has

\* A handler of one step.
LEMMA SetsAtOnce ==
  ASSUME NEW l, NEW c, NEW a
  PROVE  /\ \A b : Sets(<<Active(b)>>, l, c, a, l, c, b)
         /\ \A m, k : Sets(<<Edit(m, k)>>, l, c, a, m, k, a)
<1>1. \A w, tr : Trace(tr, <<w>>) => Steps(tr[0], w, tr[1])
  <2> TAKE w, tr
  <2>1. 1 \in 1 .. Len(<<w>>) /\ 1 - 1 = 0 /\ <<w>>[1] = w
    BY OneElement
  <2> QED
    BY <2>1 DEF Trace
<1>2. ASSUME NEW b, NEW tr, Trace(tr, <<Active(b)>>), Has(tr[0], l, c, a) PROVE Has(tr[1], l, c, b)
  <2>1. PICK w : w = Active(b)
    OBVIOUS
  <2>2. "line" \notin DOMAIN w /\ "active" \in DOMAIN w
    BY <2>1 DEF Active
  <2>3. w.active = b
    BY <2>1 DEF Active
  <2>4. Steps(tr[0], w, tr[1])
    BY <1>1, <1>2, <2>1
  <2>5. b = IF "active" \in DOMAIN w THEN w.active ELSE a
    BY <2>2, <2>3
  <2> QED
    BY <1>2, <2>2, <2>4, <2>5, StepSets
<1>3. ASSUME NEW m, NEW k, NEW tr, Trace(tr, <<Edit(m, k)>>), Has(tr[0], l, c, a)
      PROVE  Has(tr[1], m, k, a)
  <2>1. PICK w : w = Edit(m, k)
    OBVIOUS
  <2>2. "line" \in DOMAIN w /\ "active" \notin DOMAIN w /\ w.line = m /\ w.cursor = k
    BY <2>1 DEF Edit
  <2>3. PICK s : tr[0] = Display(s, l, c, a)
    BY <1>3, Zenon DEF Has
  <2>4. tr[0].active = a
    BY <2>3, Fields
  <2>5. Steps(tr[0], w, tr[1])
    BY <1>1, <1>3, <2>1
  <2>6. PICK t : tr[1] = Display(t, m, k, a)
    BY <2>2, <2>4, <2>5, Zenon DEF Steps
  <2> QED
    BY <2>6, Zenon DEF Has
<1> QED
  BY <1>2, <1>3, OneElement, Zenon DEF Sets

\* One after the other.
LEMMA SetsInTurn ==
  ASSUME NEW p, NEW q, IsSequence(p), IsSequence(q),
         NEW l, NEW c, NEW a, NEW m, NEW k, NEW b, NEW n, NEW j, NEW z,
         Sets(p, l, c, a, m, k, b), Sets(q, m, k, b, n, j, z)
  PROVE  Sets(Join(p, q), l, c, a, n, j, z)
<1> SUFFICES ASSUME NEW tr, Trace(tr, Join(p, q)), Has(tr[0], l, c, a)
             PROVE  Has(tr[Len(Join(p, q))], n, j, z)
  BY Zenon DEF Sets
<1>1. Trace(tr, p)
  BY TraceSplit
<1>2. Has(tr[Len(p)], m, k, b)
  BY <1>1, Zenon DEF Sets
<1>3. PICK rest : Trace(rest, q) /\ rest[0] = tr[Len(p)] /\ rest[Len(q)] = tr[Len(Join(p, q))]
  BY TraceSplit
<1>4. Has(rest[0], m, k, b)
  BY <1>2, <1>3
<1>5. Has(rest[Len(q)], n, j, z)
  BY <1>3, <1>4, Zenon DEF Sets
<1> QED
  BY <1>3, <1>5

\* Text sets nothing.
LEMMA TextsSet ==
  ASSUME NEW p, Texts(p), NEW l, NEW c, NEW a
  PROVE  Sets(p, l, c, a, l, c, a)
<1> SUFFICES ASSUME NEW tr, Trace(tr, p), Has(tr[0], l, c, a) PROVE Has(tr[Len(p)], l, c, a)
  BY Zenon DEF Sets
<1>1. Len(p) \in Nat
  BY DEF Texts, IsSequence
<1>2. PICK S : S = {i \in 0 .. Len(p) : Has(tr[i], l, c, a)}
  OBVIOUS
<1>3. 0 \in S
  BY <1>1, <1>2
<1>4. ASSUME NEW i \in 0 .. Len(p), i \in S, i < Len(p) PROVE i + 1 \in S
  <2>1. i + 1 \in 1 .. Len(p) /\ i + 1 - 1 = i /\ i + 1 \in 0 .. Len(p)
    BY <1>1, <1>4
  <2>2. Steps(tr[i], Text, tr[i + 1])
    BY <2>1 DEF Trace, Texts
  <2>3. "line" \notin DOMAIN Text /\ "active" \notin DOMAIN Text
    BY DEF Text
  <2>4. a = IF "active" \in DOMAIN Text THEN Text.active ELSE a
    BY <2>3, Zenon
  <2>5. Has(tr[i], l, c, a)
    BY <1>2, <1>4
  <2>6. Has(tr[i + 1], l, c, a)
    BY <2>2, <2>3, <2>4, <2>5, StepSets
  <2> QED
    BY <1>2, <2>1, <2>6
<1>5. \A i \in 0 .. Len(p) : i \in S
  BY <1>1, <1>3, <1>4, UpTo
<1>6. Len(p) \in S
  BY <1>1, <1>5
<1> QED
  BY <1>2, <1>6

\* Lines of text and more of them.
LEMMA TextsJoined ==
  /\ Texts(<<Text>>) /\ Texts(<<>>)
  /\ \A n \in Nat : Texts(Repeat(Text, n))
  /\ \A p, q : Texts(p) /\ Texts(q) => Texts(Join(p, q))
<1>1. Texts(<<Text>>) /\ Texts(<<>>)
  BY OneElement, NoElement DEF Texts
<1>2. \A n \in Nat : Texts(Repeat(Text, n))
  BY RepeatIs DEF Texts
<1>3. ASSUME NEW p, NEW q, Texts(p), Texts(q) PROVE Texts(Join(p, q))
  <2>1. PICK j : j = Join(p, q)
    OBVIOUS
  <2>2. /\ IsSequence(j) /\ Len(j) = Len(p) + Len(q) /\ Len(p) \in Nat /\ Len(q) \in Nat
        /\ \A i \in 1 .. Len(p) : j[i] = p[i]
        /\ \A i \in 1 .. Len(p) + Len(q) : i > Len(p) => j[i] = q[i - Len(p)]
    BY <1>3, <2>1, SequencesJoined DEF Texts
  <2>3. ASSUME NEW i \in 1 .. Len(j) PROVE j[i] = Text
    <3>1. i \in 1 .. Len(p) \/ (i > Len(p) /\ i - Len(p) \in 1 .. Len(q))
      BY <2>2
    <3> QED
      BY <1>3, <2>2, <3>1 DEF Texts
  <2> QED
    BY <2>1, <2>2, <2>3 DEF Texts
<1> QED
  BY <1>1, <1>2, <1>3

\* A list, and what a command writes, are text.
LEMMA OutputTexts ==
  ASSUME session \in DOMAIN Sessions, NEW words,
         NEW i \in DOMAIN Commands, Commands[i].type \in CommandTypes
  PROVE  Texts(Output(i, words))
<1>1. ASSUME NEW types PROVE Texts(List(types))
  <2>1. PICK n \in Nat : n = Cardinality({j \in DOMAIN Commands : Commands[j].type \in types})
    BY SomeCommands
  <2>2. List(types) = Join(<<Text>>, Repeat(Text, n))
    BY <2>1 DEF List, ListItem, Join
  <2> QED
    BY <2>2, TextsJoined
<1>2. /\ Texts(ListAll) /\ Texts(ListUser) /\ Texts(ListCommand)
      /\ Texts(ListVar) /\ Texts(ListKey) /\ Texts(ShowVar) /\ Texts(CommandHelp(words[2]))
  BY <1>1, TextsJoined DEF ListAll, ListUser, ListCommand, ListVar, ListKey, ShowVar, CommandHelp
<1>3. Commands[i].does \in {"help", "users", "cmds", "vars", "keys", "setVar", "clear", "app"}
  BY ShellAssumption DEF Commands, Session, CommandTypes
<1> QED
  BY <1>2, <1>3, TextsJoined DEF Output

\* A command sets nothing, and ends with the flag it began with.
LEMMA RunSets ==
  ASSUME session \in DOMAIN Sessions, NEW words, NEW i \in DOMAIN Commands, Named(i), NEW l, NEW c
  PROVE  /\ Sets(RunCommand(i, words), l, c, FALSE, l, c, FALSE)
         /\ IsSequence(RunCommand(i, words))
<1> DEFINE run == IF Arguments(i, words).called THEN Output(i, words) ELSE <<>>
<1> DEFINE body == CASE Commands[i].type \in CommandTypes -> run \o ReturnValue(i)
                     [] Commands[i].type = "var" -> ShowVar
                     [] Commands[i].type = "user" -> <<Text>>
<1>1. Commands[i].type \in {"main", "func", "var", "user"}
  BY ShellAssumption DEF Commands, Session, Named
<1>2. Texts(body)
  <2>1. CASE Commands[i].type \in CommandTypes
    <3>1. Texts(run)
      BY <2>1, OutputTexts, TextsJoined
    <3>2. Texts(ReturnValue(i))
      BY TextsJoined DEF ReturnValue
    <3>3. body = Join(run, ReturnValue(i))
      BY <2>1 DEF Join, CommandTypes
    <3> HIDE DEF body, run
    <3> QED
      BY <3>1, <3>2, <3>3, TextsJoined
  <2>2. CASE Commands[i].type = "var"
    BY <2>2, TextsJoined DEF CommandTypes, ShowVar
  <2>3. CASE Commands[i].type = "user"
    BY <2>3, TextsJoined DEF CommandTypes
  <2> QED
    BY <1>1, <2>1, <2>2, <2>3 DEF CommandTypes
<1>3. RunCommand(i, words) = Join(Join(<<Active(TRUE)>>, body), <<Active(FALSE)>>)
  BY Zenon DEF RunCommand, Join
<1> HIDE DEF body, run
<1>4. IsSequence(<<Active(TRUE)>>) /\ IsSequence(<<Active(FALSE)>>) /\ IsSequence(body)
  BY <1>2, OneElement DEF Texts
<1>5. IsSequence(Join(<<Active(TRUE)>>, body))
  BY <1>4, SequencesJoined
<1>6. Sets(<<Active(TRUE)>>, l, c, FALSE, l, c, TRUE)
      /\ Sets(<<Active(FALSE)>>, l, c, TRUE, l, c, FALSE)
  BY SetsAtOnce, Zenon
<1>7. Sets(body, l, c, TRUE, l, c, TRUE)
  BY <1>2, TextsSet, Zenon
<1>8. Sets(Join(<<Active(TRUE)>>, body), l, c, FALSE, l, c, TRUE)
  BY <1>4, <1>6, <1>7, SetsInTurn, Zenon
<1>9. Sets(RunCommand(i, words), l, c, FALSE, l, c, FALSE)
  BY <1>3, <1>4, <1>5, <1>6, <1>8, SetsInTurn, Zenon
<1> QED
  BY <1>3, <1>4, <1>5, <1>9, SequencesJoined, Zenon

\* shellExec empties the line, whatever is called.
LEMMA ExecSets ==
  ASSUME session \in DOMAIN Sessions, NEW l, NEW c
  PROVE  /\ Sets(Exec(l), l, c, FALSE, <<>>, 0, FALSE)
         /\ IsSequence(Exec(l))
<1> DEFINE words == Split(l)
<1> DEFINE i == Seek(words[1])
<1> DEFINE what == IF i = 0 THEN <<Text>> ELSE RunCommand(i, words)
<1> DEFINE all == IF words = <<>> THEN <<>> ELSE <<Text>> \o what
<1>1. Sets(<<Text>>, <<>>, 0, FALSE, <<>>, 0, FALSE) /\ IsSequence(<<Text>>)
  BY TextsJoined, TextsSet, OneElement, Zenon
<1>2. Sets(what, <<>>, 0, FALSE, <<>>, 0, FALSE) /\ IsSequence(what)
  <2>1. CASE i = 0
    BY <1>1, <2>1, Zenon
  <2>2. CASE i # 0
    BY <2>2, Found, RunSets, Zenon
  <2> QED
    BY <2>1, <2>2, Zenon
<1>3. Sets(all, <<>>, 0, FALSE, <<>>, 0, FALSE) /\ IsSequence(all)
  <2>1. CASE words = <<>>
    <3>1. all = <<>>
      BY <2>1
    <3> HIDE DEF all
    <3> QED
      BY <3>1, TextsJoined, TextsSet, NoElement, Zenon
  <2>2. CASE words # <<>>
    <3>1. all = Join(<<Text>>, what)
      BY <2>2 DEF Join
    <3> HIDE DEF all, what
    <3>2. IsSequence(all)
      BY <1>1, <1>2, <3>1, SequencesJoined
    <3> QED
      BY <1>1, <1>2, <3>1, <3>2, SetsInTurn, Zenon
  <2> QED
    BY <2>1, <2>2, Zenon
<1>4. Exec(l) = Join(<<Edit(<<>>, 0)>>, all)
  BY Zenon DEF Exec, Join
<1> HIDE DEF all, what
<1>5. Sets(<<Edit(<<>>, 0)>>, l, c, FALSE, <<>>, 0, FALSE) /\ IsSequence(<<Edit(<<>>, 0)>>)
  BY SetsAtOnce, OneElement, Zenon
<1>6. IsSequence(Exec(l))
  BY <1>3, <1>4, <1>5, SequencesJoined
<1> QED
  BY <1>3, <1>4, <1>5, <1>6, SetsInTurn, Zenon

\* A line that is entered, with what it writes, is followed by an empty one.
LEMMA Executed ==
  ASSUME Columns \in Nat, session \in DOMAIN Sessions, NEW l, NEW c
  PROVE  Brings(Join(Exec(l), WritePrompt(TRUE)), l, c)
<1>1. Typed(<<>>, 0) = Displays(On(Blank, 0), <<>>, 0)
  <2>1. IsSequence(<<>>) /\ Len(<<>>) <= Columns
    BY NoElement
  <2>2. Shown(<<>>) = Blank
    BY <2>1, Rows
  <2> QED
    BY <2>2 DEF Typed
<1>2. PICK p : p = Exec(l) /\ IsSequence(p) /\ Sets(p, l, c, FALSE, <<>>, 0, FALSE)
  BY ExecSets, Zenon
<1>3. PICK q : q = WritePrompt(TRUE) /\ IsSequence(q)
               /\ \A S : Leads(q, Displays(S, <<>>, 0), Displays(On(Blank, 0), <<>>, 0))
  BY Prompted
<1>4. ASSUME NEW tr, Trace(tr, Join(p, q)), tr[0] \in Typed(l, c)
      PROVE  tr[Len(Join(p, q))] \in Typed(<<>>, 0)
  <2>1. Has(tr[0], l, c, FALSE)
    BY <1>4, Zenon DEF Typed, Displays, Has
  <2>2. Trace(tr, p)
    BY <1>2, <1>3, <1>4, TraceSplit
  <2>3. Has(tr[Len(p)], <<>>, 0, FALSE)
    BY <1>2, <2>1, <2>2, Zenon DEF Sets
  <2>4. PICK s : tr[Len(p)] = Display(s, <<>>, 0, FALSE)
    BY <2>3, Zenon DEF Has
  <2>5. tr[Len(p)] \in Displays({s}, <<>>, 0)
    <3>1. s \in {s}
      OBVIOUS
    <3> QED
      BY <2>4, <3>1, Zenon DEF Displays
  <2>6. PICK rest : Trace(rest, q) /\ rest[0] = tr[Len(p)] /\ rest[Len(q)] = tr[Len(Join(p, q))]
    <3>1. IsSequence(p) /\ IsSequence(q)
      BY <1>2, <1>3
    <3> QED
      BY <1>4, <3>1, TraceSplit
  <2>7. Leads(q, Displays({s}, <<>>, 0), Displays(On(Blank, 0), <<>>, 0))
    BY <1>3, Zenon
  <2>8. rest[Len(q)] \in Displays(On(Blank, 0), <<>>, 0)
    BY <2>5, <2>6, <2>7 DEF Leads
  <2> QED
    BY <1>1, <2>6, <2>8
<1>5. Leads(Join(p, q), Typed(l, c), Typed(<<>>, 0))
  BY <1>4 DEF Leads
<1> QED
  BY <1>2, <1>3, <1>5, Zenon DEF Brings
-----------------------------------------------------------------------------
(* The invariant of the row. *)

\* No command is active, and the row is the line's or garbled.
Good(d) == d.active = FALSE /\ d.screen \in On(Shown(d.line), d.cursor)

\* A handler that is good at its end, however it is interleaved.
AllGood(p, d) == \A tr : Trace(tr, p) /\ tr[0] = d => Good(tr[Len(p)])

\* What the handler finds: where the log's task is at work nothing is known of
\* the row.
Console == Display(IF redraw = "idle" THEN screen ELSE Garbled, line, cursor, active)

\* What the log's task has written, if no key's handler met it.
LogShown ==
  /\ redraw = "after" => screen \in Fresh
  /\ redraw = "line" => screen \in On(Blank, 0)
  /\ redraw = "back" => \/ screen = Garbled
                        \/ /\ screen = RowAt(Shown(line), Len(line) - behind)
                           /\ behind <= Len(line) - cursor
  /\ redraw = "idle" => screen \in On(Shown(line), cursor)

RowInv ==
  /\ redraw # "back" => behind = 0
  /\ todo = <<>> => active = FALSE /\ LogShown
  /\ todo # <<>> => AllGood(todo, Console)

\* A handler that leads from the line to the same or another is good.
LEMMA BroughtGood ==
  ASSUME NEW p, NEW l, NEW c, Brings(p, l, c), NEW d \in Typed(l, c)
  PROVE  AllGood(p, d)
<1> SUFFICES ASSUME NEW tr, Trace(tr, p), tr[0] = d PROVE Good(tr[Len(p)])
  BY DEF AllGood
<1>1. PICK m, k : Leads(p, Typed(l, c), Typed(m, k))
  BY Zenon DEF Brings
<1>2. tr[Len(p)] \in Typed(m, k)
  BY <1>1 DEF Leads
<1>3. PICK e : e = tr[Len(p)]
  OBVIOUS
<1>4. PICK s \in On(Shown(m), k) : e = Display(s, m, k, FALSE)
  BY <1>2, <1>3, Zenon DEF Typed, Displays
<1>5. e.screen = s /\ e.line = m /\ e.cursor = k /\ e.active = FALSE
  <2>1. PICK a : a = FALSE /\ e = Display(s, m, k, a)
    BY <1>4, Zenon
  <2>2. e.screen = s /\ e.line = m /\ e.cursor = k /\ e.active = a
    BY <2>1, Fields
  <2> QED
    BY <2>1, <2>2, Zenon
<1>6. Good(e)
  BY <1>4, <1>5, Zenon DEF Good
<1> QED
  BY <1>3, <1>6

\* What is left of a good handler after its first step is good.
LEMMA StillGood ==
  ASSUME NEW p, NEW size, Program(p, size), p # <<>>, NEW d, AllGood(p, d),
         NEW e, Steps(d, Head(p), e)
  PROVE  AllGood(Tail(p), e) /\ (Tail(p) = <<>> => Good(e))
<1>1. PICK q : q = Tail(p)
  OBVIOUS
<1>2. /\ Head(p) = p[1] /\ Len(p) \in Nat \ {0} /\ Len(q) = Len(p) - 1
      /\ \A n \in 1 .. Len(q) : q[n] = p[n + 1]
  BY <1>1, StepTaken
<1>3. ASSUME NEW tr, Trace(tr, q), tr[0] = e PROVE Good(tr[Len(q)])
  <2>1. PICK long : long = [i \in 0 .. Len(p) |-> IF i = 0 THEN d ELSE tr[i - 1]]
    OBVIOUS
  <2>2. long[0] = d /\ \A i \in 1 .. Len(p) : long[i] = tr[i - 1]
    BY <1>2, <2>1
  <2>3. ASSUME NEW i \in 1 .. Len(p) PROVE Steps(long[i - 1], p[i], long[i])
    <3>1. CASE i = 1
      <4>1. i - 1 = 0 /\ long[i] = e
        BY <1>3, <2>2, <3>1
      <4> QED
        BY <1>2, <2>2, <3>1, <4>1
    <3>2. CASE i # 1
      <4>1. i - 1 \in 1 .. Len(q) /\ i - 1 \in 1 .. Len(p) /\ i - 1 + 1 = i
        BY <1>2, <3>2
      <4>2. Steps(tr[i - 1 - 1], q[i - 1], tr[i - 1])
        BY <1>3, <4>1 DEF Trace
      <4>3. q[i - 1] = p[i]
        BY <1>2, <4>1
      <4>4. long[i - 1] = tr[i - 1 - 1] /\ long[i] = tr[i - 1]
        BY <2>2, <4>1
      <4> QED
        BY <4>2, <4>3, <4>4
    <3> QED
      BY <3>1, <3>2
  <2>4. Good(long[Len(p)])
    BY <2>2, <2>3 DEF Trace, AllGood
  <2>5. long[Len(p)] = tr[Len(q)]
    BY <1>2, <2>2
  <2> QED
    BY <2>4, <2>5
<1>4. AllGood(q, e)
  BY <1>3 DEF AllGood
<1>5. ASSUME q = <<>> PROVE Good(e)
  <2>1. PICK tr : tr = [i \in {0} |-> e]
    OBVIOUS
  <2>2. tr[0] = e /\ Trace(tr, q) /\ Len(q) = 0
    BY <1>5, <2>1, NoElement DEF Trace
  <2> QED
    BY <1>3, <2>2
<1> QED
  BY <1>1, <1>4, <1>5

\* A handler is as good from where its first step can do no more.
LEMMA GoodFrom ==
  ASSUME NEW p, Len(p) \in Nat \ {0}, NEW d, NEW e, AllGood(p, d),
         \A x : Steps(e, p[1], x) => Steps(d, p[1], x)
  PROVE  AllGood(p, e)
<1> SUFFICES ASSUME NEW tr, Trace(tr, p), tr[0] = e PROVE Good(tr[Len(p)])
  BY DEF AllGood
<1>1. PICK other : other = [i \in 0 .. Len(p) |-> IF i = 0 THEN d ELSE tr[i]]
  OBVIOUS
<1>2. other[0] = d /\ \A i \in 1 .. Len(p) : other[i] = tr[i]
  BY <1>1
<1>3. ASSUME NEW i \in 1 .. Len(p) PROVE Steps(other[i - 1], p[i], other[i])
  <2>1. Steps(tr[i - 1], p[i], tr[i])
    BY DEF Trace
  <2>2. CASE i = 1
    <3>1. i - 1 = 0
      BY <2>2
    <3> QED
      BY <1>2, <2>1, <2>2, <3>1
  <2>3. CASE i # 1
    <3>1. i - 1 \in 1 .. Len(p)
      BY <2>3
    <3> QED
      BY <1>2, <2>1, <3>1
  <2> QED
    BY <2>2, <2>3
<1>4. Good(other[Len(p)])
  BY <1>2, <1>3 DEF Trace, AllGood
<1> QED
  BY <1>2, <1>4

\* Whatever the row was, it is no better for being garbled.
LEMMA NoBetter ==
  ASSUME NEW p, NEW size, Program(p, size), p # <<>>, NEW s, NEW t, NEW l, NEW c, NEW a,
         a # FALSE \/ t = Garbled, Columns \in Nat, a \in BOOLEAN,
         AllGood(p, Display(s, l, c, a))
  PROVE  AllGood(p, Display(t, l, c, a))
<1>1. PICK w : w = p[1]
  OBVIOUS
<1>2. Step(w, size) /\ Len(p) \in Nat \ {0}
  BY <1>1, StepTaken
<1>3. PICK d, e : d = Display(s, l, c, a) /\ e = Display(t, l, c, a)
  OBVIOUS
<1>4. /\ d.screen = s /\ d.line = l /\ d.cursor = c /\ d.active = a
      /\ e.screen = t /\ e.line = l /\ e.cursor = c /\ e.active = a
  BY <1>3, Fields
<1>5. t = Garbled => Done(w, t) \in {Garbled, Done(w, s)}
  <2>1. SUFFICES Done(w, Garbled) \in {Garbled, Done(w, s)}
    OBVIOUS
  <2>2. CASE w = Text
    BY <2>2, Writes
  <2>3. CASE w \in {Prompt, Back, Erase} \/ \E text : w = Put(text)
    <3>1. PICK r, k \in Nat : k = 0
      OBVIOUS
    <3>2. /\ \A v \in {Prompt, Back, Erase} : Done(v, Garbled) = Garbled
          /\ \A text : Done(Put(text), Garbled) = Garbled
      BY <3>1, RowWritten
    <3> QED
      BY <2>3, <3>2
  <2>4. CASE w = Lost
    BY <2>4, Writes
  <2>5. CASE (\E value \in BOOLEAN : w = Active(value)) \/ \E text, at : w = Edit(text, at)
    <3>1. w # Lost /\ DOMAIN w \cap {"line", "active", "lost"} # {}
      BY <2>5 DEF Active, Edit, Lost
    <3> QED
      BY <3>1 DEF Done
  <2> QED
    BY <1>2, <2>2, <2>3, <2>4, <2>5 DEF Step
<1>6. ASSUME NEW x, Steps(e, w, x) PROVE Steps(d, w, x)
  <2>1. PICK r : /\ e.active \/ r \in {Garbled, Done(w, e.screen)}
                 /\ x = Display(r, IF "line" \in DOMAIN w THEN w.line ELSE e.line,
                                IF "line" \in DOMAIN w THEN w.cursor ELSE e.cursor,
                                IF "active" \in DOMAIN w THEN w.active ELSE e.active)
    BY <1>6, Zenon DEF Steps
  <2>2. x = Display(r, IF "line" \in DOMAIN w THEN w.line ELSE d.line,
                    IF "line" \in DOMAIN w THEN w.cursor ELSE d.cursor,
                    IF "active" \in DOMAIN w THEN w.active ELSE d.active)
    BY <1>4, <2>1, Zenon
  <2>3. d.active \/ r \in {Garbled, Done(w, d.screen)}
    <3>1. CASE a = FALSE
      <4>1. t = Garbled
        BY <3>1, Zenon
      <4>2. r \in {Garbled, Done(w, t)}
        BY <1>4, <2>1, <3>1, Zenon
      <4>3. r \in {Garbled, Done(w, s)}
        BY <1>5, <4>1, <4>2
      <4> QED
        BY <1>4, <4>3, Zenon
    <3>2. CASE a # FALSE
      BY <1>4, <3>2, Zenon
    <3> QED
      BY <3>1, <3>2
  <2> QED
    BY <2>2, <2>3, Zenon DEF Steps
<1>7. AllGood(p, e)
  BY <1>1, <1>2, <1>3, <1>6, GoodFrom
<1> QED
  BY <1>3, <1>7
-----------------------------------------------------------------------------
(* The keys keep the row. *)

\* What is known of a line that is cleared right.
LEMMA KnownShort ==
  ASSUME ShellInv, Session.size <= 256
  PROVE  /\ Len(line) < 256 /\ Len(line) < Session.size /\ Len(line) <= Columns
         /\ Session.size \in 2 .. Columns
<1>1. Session.size \in 2 .. Columns /\ Columns \in Nat
  BY Known, SessionRight
<1>2. Len(line) < Session.size /\ Len(line) \in Nat
  BY Known DEF Editable
<1> QED
  BY <1>1, <1>2

\* A handler that begins on the line finds it on the console.
LEMMA HandlerBegins ==
  ASSUME RowInv, todo = <<>>, NEW writes, todo' = writes,
         writes = <<>> \/ Brings(writes, line, cursor),
         UNCHANGED <<line, cursor, active, redraw, behind, screen>>
  PROVE  RowInv'
<1>1. active = FALSE /\ LogShown /\ (redraw # "back" => behind = 0)
  BY DEF RowInv
<1>2. LogShown'
  BY <1>1 DEF LogShown
<1>3. active' = FALSE /\ (redraw' # "back" => behind' = 0)
  BY <1>1, Zenon
<1>4. ASSUME todo' # <<>> PROVE AllGood(todo, Console)'
  <2>1. Brings(writes, line, cursor)
    BY <1>4
  <2>2. PICK s : s = IF redraw = "idle" THEN screen ELSE Garbled
    OBVIOUS
  <2>3. s \in On(Shown(line), cursor)
    BY <1>1, <2>2 DEF LogShown, On
  <2>4. Console' = Display(s, line, cursor, FALSE)
    BY <1>1, <2>2, Zenon DEF Console
  <2>5. Console' \in Typed(line, cursor)
    BY <2>3, <2>4, Zenon DEF Typed, Displays
  <2>6. AllGood(writes, Console')
    BY <2>1, <2>5, BroughtGood
  <2> QED
    BY <2>6 DEF AllGood
<1> QED
  BY <1>2, <1>3, <1>4, Zenon DEF RowInv

\* The same, of a key.
LEMMA KeyBegins ==
  ASSUME RowInv, NEW function, NEW writes, Handles(function, writes),
         writes = <<>> \/ Brings(writes, line, cursor)
  PROVE  RowInv'
<1>1. todo = <<>> /\ todo' = writes /\ UNCHANGED <<line, cursor, active, redraw, behind, screen>>
  BY DEF Handles
<1> QED
  BY <1>1, HandlerBegins

\* The keys that edit the line.
LEMMA EditsShown ==
  ASSUME ShellInv, RowInv, Session.size <= 256,
         ShellRight \/ ShellLeft \/ ShellBackspace \/ ShellDelete
  PROVE  RowInv'
<1>1. Columns \in Nat /\ IsSequence(line) /\ cursor \in 0 .. Len(line) /\ Len(line) <= Columns
  BY Known, KnownShort
<1>2. /\ Brings(Right(line, cursor), line, cursor) /\ Brings(Left(line, cursor), line, cursor)
      /\ Brings(DeleteBefore(line, cursor), line, cursor)
      /\ Brings(DeleteAt(line, cursor), line, cursor)
  BY <1>1, Moved, DeletedBefore, DeletedAt
<1> QED
  BY <1>2, KeyBegins DEF ShellRight, ShellLeft, ShellBackspace, ShellDelete, Moves

\* Any other character.
LEMMA CharacterShown ==
  ASSUME ShellInv, RowInv, Session.size <= 256, NEW data, NormalInput(data)
  PROVE  RowInv'
<1>1. /\ todo = <<>> /\ todo' = InsertByte(line, cursor, data)
      /\ UNCHANGED <<line, cursor, active, redraw, behind, screen>>
  BY DEF NormalInput
<1>2. Brings(InsertByte(line, cursor, data), line, cursor)
  BY Known, KnownShort, ByteShown
<1> QED
  BY <1>1, <1>2, HandlerBegins

\* The tab key.
LEMMA TabShown ==
  ASSUME ShellInv, RowInv, Session.size <= 256, ShellTab
  PROVE  RowInv'
<1>1. PICK quick \in BOOLEAN :
        IF line = <<>>
        THEN /\ Handles("tab", ListAll \o WritePrompt(TRUE))
             /\ tabFlag' = TRUE
        ELSE IF Matches(line) = {}
        THEN /\ Handles("tab", <<>>)
             /\ UNCHANGED tabFlag
        ELSE LET help == quick /\ tabFlag /\ Cardinality(Matches(line)) = 1
             IN /\ Handles("tab", Complete(line, cursor) \o (IF help THEN QuickHelp(line) ELSE <<>>))
                /\ tabFlag' = (tabFlag \/ ~help)
  BY Zenon DEF ShellTab
<1>2. CASE line = <<>>
  <2>1. Handles("tab", Join(ListAll, WritePrompt(TRUE)))
    BY <1>1, <1>2, Zenon DEF Join
  <2>2. cursor = 0
    BY <1>2, Known, NoElement
  <2>3. Brings(Join(ListAll, WritePrompt(TRUE)), line, cursor)
    BY <1>2, <2>2, Known, Listed
  <2> QED
    BY <2>1, <2>3, KeyBegins
<1>3. CASE line # <<>> /\ Matches(line) = {}
  <2>1. Handles("tab", <<>>)
    BY <1>1, <1>3, Zenon
  <2> QED
    BY <2>1, KeyBegins
<1>4. CASE line # <<>> /\ Matches(line) # {}
  <2> DEFINE help == quick /\ tabFlag /\ Cardinality(Matches(line)) = 1
  <2> DEFINE more == IF help THEN QuickHelp(line) ELSE <<>>
  <2>1. Handles("tab", Join(Complete(line, cursor), more))
    BY <1>1, <1>4, Zenon DEF Join
  <2>2. /\ Brings(Complete(line, cursor), line, cursor) /\ IsSequence(Complete(line, cursor))
        /\ Cardinality(Matches(line)) = 1 =>
             Brings(Join(Complete(line, cursor), QuickHelp(line)), line, cursor)
    BY <1>4, Known, KnownShort, Completed
  <2>3. CASE help
    BY <2>1, <2>2, <2>3, KeyBegins, Zenon
  <2>4. CASE ~ help
    <3>1. PICK m, k : Leads(Complete(line, cursor), Typed(line, cursor), Typed(m, k))
      BY <2>2, Zenon DEF Brings
    <3>2. Leads(Join(Complete(line, cursor), <<>>), Typed(line, cursor), Typed(m, k))
      BY <2>2, <3>1, NoElement, NoSteps, InTurn
    <3>3. Brings(Join(Complete(line, cursor), <<>>), line, cursor)
      BY <3>2, Zenon DEF Brings
    <3> QED
      BY <2>1, <2>4, <3>3, KeyBegins, Zenon
  <2> QED
    BY <2>3, <2>4
<1> QED
  BY <1>2, <1>3, <1>4

\* The up and down keys.
LEMMA HistoryOnRow ==
  ASSUME ShellInv, RowInv, Session.size <= 256, NEW o \in -number .. 0, NEW function,
         Handles(function, Recalled(line, cursor, o))
  PROVE  RowInv'
<1>1. /\ record \in 0 .. H - 1 /\ number \in 0 .. H
      /\ \A i \in 0 .. H - 1 : Editable(item[i], Session.size)
  BY DEF ShellInv, Ring
<1>2. H \in Nat \ {0} /\ o \in Int
  BY <1>1, ShellAssumption
<1>3. (record + H + o) % H \in 0 .. H - 1
  <2>1. PICK x \in Int : x = record + H + o
    BY <1>1, <1>2
  <2>2. x % H \in 0 .. H - 1
    BY <1>2
  <2> QED
    BY <2>1, <2>2
<1>4. PICK x : x = Recall(o)
  OBVIOUS
<1>5. Editable(x, Session.size)
  BY <1>1, <1>3, <1>4 DEF Recall
<1>6. IsSequence(x) /\ Len(x) \in Nat /\ Len(x) < Session.size
  BY <1>5 DEF Editable, IsSequence
<1>7. Len(x) <= Columns
  BY <1>6, KnownShort, Known
<1>8. Brings(Recalled(line, cursor, o), line, cursor)
  BY <1>4, <1>6, <1>7, Known, KnownShort, RecalledShown
<1> QED
  BY <1>8, KeyBegins

\* They go no further than there are entries.
LEMMA UpAndDownShown ==
  ASSUME ShellInv, RowInv, Session.size <= 256, ShellUp \/ ShellDown
  PROVE  RowInv'
<1>1. /\ record \in 0 .. H - 1 /\ number \in 0 .. H /\ (number < H => record = number)
      /\ offset \in -number .. 0
  BY DEF ShellInv, Ring
<1>2. H \in Nat \ {0}
  BY ShellAssumption
<1>3. CASE ShellUp
  <2> DEFINE top == Max({number, record})
  <2> DEFINE to == IF offset <= -top THEN -top ELSE offset - 1
  <2>1. top = number
    <3>1. number \in Int /\ record \in Int
      BY <1>1, <1>2
    <3>2. Max({number, record}) = IF number >= record THEN number ELSE record
      BY <3>1, OfTwo
    <3> QED
      BY <1>1, <1>2, <3>2
  <2>2. to \in -number .. 0
    <3> HIDE DEF top
    <3> QED
      BY <1>1, <2>1
  <2>3. Handles("up", Recalled(line, cursor, to))
    BY <1>3, Zenon DEF ShellUp
  <2> HIDE DEF to
  <2> QED
    BY <2>2, <2>3, HistoryOnRow
<1>4. CASE ShellDown
  <2>1. Handles("down", IF offset = 0 THEN <<>> ELSE Recalled(line, cursor, offset + 1))
    BY <1>4, Zenon DEF ShellDown
  <2>2. CASE offset = 0
    <3>1. Handles("down", <<>>)
      BY <2>1, <2>2, Zenon
    <3> QED
      BY <3>1, KeyBegins
  <2>3. CASE offset # 0
    <3>1. Handles("down", Recalled(line, cursor, offset + 1))
      BY <2>1, <2>3, Zenon
    <3>2. offset + 1 \in -number .. 0
      BY <1>1, <1>2, <2>3
    <3> QED
      BY <3>1, <3>2, HistoryOnRow
  <2> QED
    BY <2>2, <2>3
<1> QED
  BY <1>3, <1>4

\* The enter key.
LEMMA EnterShown ==
  ASSUME ShellInv, RowInv, EnterNothing \/ EnterLine
  PROVE  RowInv'
<1>1. CASE EnterNothing
  <2>1. line = <<>> /\ Handles("enter", WritePrompt(TRUE))
    BY <1>1 DEF EnterNothing
  <2>2. cursor = 0
    BY <2>1, Known, NoElement
  <2>3. Brings(WritePrompt(TRUE), line, cursor)
    BY <2>1, <2>2, Known, Listed
  <2> QED
    BY <2>1, <2>3, KeyBegins
<1>2. CASE EnterLine
  <2>1. Handles("enter", Join(Exec(line), WritePrompt(TRUE)))
    BY <1>2, Zenon DEF EnterLine, Join
  <2>2. Brings(Join(Exec(line), WritePrompt(TRUE)), line, cursor)
    BY Known, Executed
  <2> QED
    BY <2>1, <2>2, KeyBegins
<1> QED
  BY <1>1, <1>2
-----------------------------------------------------------------------------
(* The two tasks keep the row. *)

\* A step of a key's handler is one of those its goodness is about, and it
\* garbles the row where the log's task is at work.
LEMMA StepOnConsole ==
  ASSUME ShellInv, KeyStep
  PROVE  /\ Steps(Console, Head(todo), Console')
         /\ redraw # "idle" /\ active = FALSE => screen' = Garbled
         /\ active # FALSE => \A s : Steps(Console, Head(todo), Display(s, line', cursor', active'))
<1>1. PICK next : next = Head(todo)
  OBVIOUS
<1>2. /\ line' = (IF "line" \in DOMAIN next THEN next.line ELSE line)
      /\ cursor' = (IF "line" \in DOMAIN next THEN next.cursor ELSE cursor)
      /\ active' = (IF "active" \in DOMAIN next THEN next.active ELSE active)
      /\ redraw' = redraw
  BY <1>1, Zenon DEF KeyStep
<1>3. /\ next = Lost => screen' = Garbled
      /\ next # Lost =>
           Write(IF DOMAIN next \cap {"line", "active", "lost"} = {} THEN next ELSE Nothing,
                 redraw # "idle")
  BY <1>1, Zenon DEF KeyStep
<1>4. active \in BOOLEAN
  BY DEF ShellInv, Flags
<1>5. /\ Console.screen = (IF redraw = "idle" THEN screen ELSE Garbled)
      /\ Console.line = line /\ Console.cursor = cursor /\ Console.active = active
  <2>1. PICK s : s = IF redraw = "idle" THEN screen ELSE Garbled
    OBVIOUS
  <2>2. PICK d : d = Console /\ d = Display(s, line, cursor, active)
    BY <2>1, Zenon DEF Console
  <2>3. d.screen = s /\ d.line = line /\ d.cursor = cursor /\ d.active = active
    BY <2>2, Fields
  <2> QED
    BY <2>1, <2>2, <2>3
<1>6. ASSUME active # FALSE, NEW s PROVE Steps(Console, next, Display(s, line', cursor', active'))
  <2>1. Console.active
    BY <1>4, <1>5, <1>6, Zenon
  <2> QED
    BY <1>2, <1>5, <2>1, Zenon DEF Steps
<1>7. ASSUME redraw # "idle", active = FALSE PROVE screen' = Garbled
  BY <1>3, <1>7, Zenon DEF Write
<1>8. ASSUME redraw = "idle", active = FALSE PROVE screen' = Done(next, screen)
  <2>1. CASE next = Lost
    BY <1>3, <2>1, Writes
  <2>2. CASE next # Lost
    <3>1. CASE DOMAIN next \cap {"line", "active", "lost"} = {}
      <4>1. Write(next, redraw # "idle")
        BY <1>3, <2>2, <3>1, Zenon
      <4>2. next # Nothing
        <5>1. /\ next \in {Text, Prompt, Back, Erase} \/ \E text : next = Put(text)
          <6>1. Step(next, Session.size)
            BY <1>1, StepTaken DEF KeyStep, ShellInv
          <6>2. "line" \notin DOMAIN next /\ "active" \notin DOMAIN next
            BY <3>1
          <6> QED
            BY <2>2, <6>1, <6>2, StepsAre
        <5>2. /\ Text # Nothing /\ Prompt # Nothing /\ Back # Nothing /\ Erase # Nothing
              /\ \A text : Put(text) # Nothing
          BY DEF Text, Prompt, Back, Erase, Put, Nothing
        <5> QED
          BY <5>1, <5>2
      <4>3. screen' = Written(screen, next)
        BY <1>8, <4>1, <4>2, Zenon DEF Write
      <4> QED
        BY <2>2, <3>1, <4>3, Zenon DEF Done
    <3>2. CASE DOMAIN next \cap {"line", "active", "lost"} # {}
      <4>1. Write(Nothing, redraw # "idle")
        BY <1>3, <2>2, <3>2, Zenon
      <4>2. screen' = screen
        BY <1>8, <4>1, Zenon DEF Write
      <4> QED
        BY <2>2, <3>2, <4>2, Zenon DEF Done
    <3> QED
      BY <3>1, <3>2
  <2> QED
    BY <2>1, <2>2
<1>9. PICK t : t = IF redraw' = "idle" THEN screen' ELSE Garbled
  OBVIOUS
<1>10. Console' = Display(t, line', cursor', active')
  BY <1>9, Zenon DEF Console
<1>11. Steps(Console, next, Console')
  <2>1. CASE active = FALSE
    <3>1. t \in {Garbled, Done(next, Console.screen)}
      BY <1>2, <1>5, <1>8, <1>9, <2>1
    <3> QED
      BY <1>2, <1>5, <1>10, <3>1, Zenon DEF Steps
  <2>2. CASE active # FALSE
    BY <1>6, <1>10, <2>2, Zenon
  <2> QED
    BY <2>1, <2>2
<1> QED
  BY <1>1, <1>6, <1>7, <1>11

\* A step of a key's handler.
LEMMA StepShown ==
  ASSUME ShellInv, RowInv, KeyStep
  PROVE  RowInv'
<1>1. /\ todo # <<>> /\ todo' = Tail(todo) /\ redraw' = redraw /\ behind' = behind
  BY DEF KeyStep
<1>2. AllGood(todo, Console) /\ (redraw # "back" => behind = 0)
  BY <1>1 DEF RowInv
<1>3. Program(todo, Session.size)
  BY DEF ShellInv
<1>4. Steps(Console, Head(todo), Console')
  BY StepOnConsole, Zenon
<1>5. AllGood(Tail(todo), Console') /\ (Tail(todo) = <<>> => Good(Console'))
  BY <1>1, <1>2, <1>3, <1>4, StillGood
<1>6. todo' # <<>> => AllGood(todo, Console)'
  BY <1>1, <1>5 DEF AllGood
<1>7. ASSUME todo' = <<>> PROVE active' = FALSE /\ LogShown'
  <2>1. Good(Console')
    BY <1>1, <1>5, <1>7
  <2>2. PICK t : t = IF redraw' = "idle" THEN screen' ELSE Garbled
    OBVIOUS
  <2>3. Console' = Display(t, line', cursor', active')
    BY <2>2, Zenon DEF Console
  <2>4. \A s : Good(Display(s, line', cursor', active')) =>
                 active' = FALSE /\ s \in On(Shown(line'), cursor')
    <3> TAKE s
    <3>1. PICK d : d = Display(s, line', cursor', active')
      OBVIOUS
    <3>2. d.screen = s /\ d.line = line' /\ d.cursor = cursor' /\ d.active = active'
      BY <3>1, Fields
    <3>3. Good(d) => active' = FALSE /\ s \in On(Shown(line'), cursor')
      BY <3>2, Zenon DEF Good
    <3> QED
      BY <3>1, <3>3, Zenon
  <2>5. active' = FALSE /\ t \in On(Shown(line'), cursor')
    BY <2>1, <2>3, <2>4, Zenon
  <2>6. CASE redraw = "idle"
    <3>1. screen' \in On(Shown(line'), cursor')
      BY <1>1, <2>2, <2>5, <2>6
    <3>2. LogShown'
      BY <1>1, <2>6, <3>1 DEF LogShown
    <3> QED
      BY <2>5, <3>2
  <2>7. CASE redraw # "idle"
    <3>1. screen' = Garbled
      <4>1. CASE active = FALSE
        BY <2>7, <4>1, StepOnConsole, Zenon
      <4>2. CASE active # FALSE
        <5>1. Steps(Console, Head(todo), Display(NewRow, line', cursor', active'))
          BY <4>2, StepOnConsole, Zenon
        <5>2. PICK e : e = Display(NewRow, line', cursor', active')
          OBVIOUS
        <5>3. Good(e)
          BY <1>1, <1>2, <1>3, <1>7, <5>1, <5>2, StillGood
        <5>4. NewRow \in On(Shown(line'), cursor')
          BY <2>4, <5>2, <5>3, Zenon
        <5>5. NewRow \notin On(Shown(line'), cursor')
          <6>1. NewRow # Garbled
            <7>1. PICK q : q = FALSE /\ NewRow = [row |-> Blank, col |-> 0, prompted |-> q]
              BY Zenon DEF NewRow
            <7> QED
              BY <7>1, RowFields
          <6>2. NewRow # RowAt(Shown(line'), cursor')
            <7>1. PICK p, q : p = TRUE /\ q = FALSE
              OBVIOUS
            <7>2. p # q
              BY <7>1, Zenon
            <7>3. \A r, k, z, n : [row |-> r, col |-> k, prompted |-> q] #
                                    [row |-> z, col |-> n, prompted |-> p]
              BY <7>2
            <7> QED
              BY <7>1, <7>3, Zenon DEF NewRow, RowAt
          <6> QED
            BY <6>1, <6>2 DEF On
        <5> QED
          BY <5>4, <5>5
      <4> QED
        BY <4>1, <4>2
    <3>2. LogShown'
      BY <1>1, <2>7, <3>1 DEF LogShown, Fresh, On
    <3> QED
      BY <2>5, <3>2
  <2> QED
    BY <2>6, <2>7
<1> QED
  BY <1>1, <1>2, <1>6, <1>7, Zenon DEF RowInv

\* What the log's task writes while a handler is under way spoils nothing that
\* is not spoilt already, or comes while a command is active.
LEMMA LogBetween ==
  ASSUME ShellInv, RowInv, todo # <<>>, NEW from, NEW to, NEW w, Redraws(from, to, w),
         redraw' # "back" => behind' = 0
  PROVE  RowInv'
<1>1. Write(w, todo # <<>>) /\ UNCHANGED <<line, cursor, active, todo>>
  BY DEF Redraws
<1>2. active \in BOOLEAN
  BY DEF ShellInv, Flags
<1>3. active = FALSE => screen' = Garbled
  BY <1>1, Zenon DEF Write
<1>4. PICK s, t : /\ s = IF redraw = "idle" THEN screen ELSE Garbled
                  /\ t = IF redraw' = "idle" THEN screen' ELSE Garbled
  OBVIOUS
<1>5. Console = Display(s, line, cursor, active) /\ Console' = Display(t, line, cursor, active)
  BY <1>1, <1>4, Zenon DEF Console
<1>6. active # FALSE \/ t = Garbled
  BY <1>3, <1>4, Zenon
<1>7. AllGood(todo, Display(s, line, cursor, active))
  BY <1>5, Zenon DEF RowInv
<1>8. Program(todo, Session.size) /\ Columns \in Nat
  BY Known DEF ShellInv
<1>9. AllGood(todo, Display(t, line, cursor, active))
  BY <1>2, <1>6, <1>7, <1>8, NoBetter
<1>10. AllGood(todo, Console)'
  BY <1>1, <1>5, <1>9 DEF AllGood
<1> QED
  BY <1>1, <1>10, Zenon DEF RowInv

\* Between two keys each of its writes is what the row needs.
LEMMA LogAlone ==
  ASSUME ShellInv, RowInv, todo = <<>>, WriteEndLine
  PROVE  RowInv'
<1>1. active = FALSE /\ LogShown /\ (redraw # "back" => behind = 0)
  BY DEF RowInv
<1>2. ASSUME NEW from, NEW to, NEW w, Redraws(from, to, w),
             redraw' # "back" => behind' = 0, LogShown'
      PROVE  RowInv'
  <2>1. todo' = todo /\ active' = active
    BY <1>2, Zenon DEF Redraws
  <2>2. active' = FALSE
    BY <1>1, <2>1, Zenon
  <2> QED
    BY <1>2, <2>1, <2>2, Zenon DEF RowInv
<1>3. ASSUME NEW from, NEW to, NEW w, Redraws(from, to, w)
      PROVE  /\ redraw = from /\ redraw' = to /\ line' = line /\ cursor' = cursor
             /\ screen' = IF w = Nothing THEN screen ELSE Written(screen, w)
  BY <1>1, <1>3, Zenon DEF Redraws, Write
<1>4. /\ Text # Nothing /\ Prompt # Nothing /\ Back # Nothing
      /\ \A text : Put(text) # Nothing
  BY DEF Text, Prompt, Back, Put, Nothing
<1>5. PICK n \in Nat : /\ n = Len(line) /\ n <= Columns /\ IsSequence(line) /\ Columns \in Nat
                       /\ cursor \in 0 .. n /\ behind \in 0 .. Columns
  <2>1. Session.size \in 2 .. Columns /\ Len(line) < Session.size /\ Len(line) \in Nat
        /\ Columns \in Nat
    BY Known, SessionRight DEF Editable
  <2>2. Len(line) <= Columns
    BY <2>1
  <2> QED
    BY <2>1, <2>2, Known DEF ShellInv
<1>6. CASE RedrawBegin
  <2>1. Redraws("idle", "text", IF active THEN Nothing ELSE Text) /\ behind' = behind
    BY <1>6, Zenon DEF RedrawBegin
  <2>2. redraw = "idle" /\ redraw' = "text"
    BY <2>1, <1>3
  <2>3. LogShown'
    BY <2>2 DEF LogShown
  <2> QED
    BY <1>1, <1>2, <2>1, <2>2, <2>3
<1>7. CASE RedrawText
  <2>1. Redraws("text", "after", Text) /\ behind' = behind
    BY <1>7 DEF RedrawText
  <2>2. redraw = "text" /\ redraw' = "after" /\ screen' = Written(screen, Text)
    BY <2>1, <1>3, <1>4
  <2>3. screen' \in Fresh
    BY <2>2 DEF Written, Fresh
  <2>4. LogShown'
    BY <2>2, <2>3 DEF LogShown
  <2> QED
    BY <1>1, <1>2, <2>1, <2>2, <2>4
<1>8. CASE RedrawNothing
  BY <1>1, <1>8, Zenon DEF RedrawNothing
<1>9. CASE RedrawPrompt
  <2>1. Redraws("after", "line", Prompt) /\ behind' = behind
    BY <1>9 DEF RedrawPrompt
  <2>2. redraw = "after" /\ redraw' = "line" /\ screen' = Written(screen, Prompt)
    BY <2>1, <1>3, <1>4
  <2>3. screen \in Fresh
    BY <1>1, <2>2 DEF LogShown
  <2>4. screen' = Done(Prompt, screen)
    BY <2>2, Writes
  <2>5. screen' \in On(Blank, 0)
    <3>1. PICK r, k \in Nat : k = 0
      OBVIOUS
    <3>2. Done(Prompt, NewRow) = RowAt(Blank, 0) /\ Done(Prompt, Garbled) = Garbled
      BY <1>5, <3>1, RowWritten
    <3> QED
      BY <2>3, <2>4, <3>2 DEF Fresh, On
  <2>6. LogShown'
    BY <2>2, <2>5 DEF LogShown
  <2> QED
    BY <1>1, <1>2, <2>1, <2>2, <2>6
<1>10. CASE RedrawLine
  <2>1. CASE line = <<>>
    <3>1. Redraws("line", "idle", Nothing) /\ behind' = behind
      BY <1>10, <2>1 DEF RedrawLine
    <3>2. redraw = "line" /\ redraw' = "idle" /\ screen' = screen /\ line' = line /\ cursor' = cursor
      BY <3>1, <1>3
    <3>3. screen \in On(Blank, 0)
      BY <1>1, <3>2 DEF LogShown
    <3>4. cursor = 0 /\ Shown(line) = Blank
      BY <1>5, <2>1, NoElement, Rows
    <3>5. LogShown'
      BY <3>2, <3>3, <3>4 DEF LogShown
    <3> QED
      BY <1>1, <1>2, <3>1, <3>2, <3>5
  <2>2. CASE line # <<>>
    <3>1. Redraws("line", "back", Put(line)) /\ behind' = behind
      BY <1>10, <2>2 DEF RedrawLine
    <3>2. /\ redraw = "line" /\ redraw' = "back" /\ screen' = Written(screen, Put(line))
          /\ line' = line /\ cursor' = cursor
      BY <3>1, <1>3, <1>4
    <3>3. screen \in On(Blank, 0) /\ behind' = 0
      BY <1>1, <3>1, <3>2 DEF LogShown
    <3>4. screen' = Done(Put(line), screen)
      BY <3>2, Writes
    <3>5. screen' = Garbled \/ screen' = RowAt(Shown(line), n)
      <4>1. PICK k \in Nat : k = 0
        OBVIOUS
      <4>2. /\ \A text : Done(Put(text), Garbled) = Garbled
            /\ \A text : k + Len(text) <= Columns =>
                 Done(Put(text), RowAt(Blank, k)) = RowAt(Over(Blank, k, text), k + Len(text))
        <5>1. \A text : k + Len(text) <= Columns =>
                Done(Put(text), RowAt(Blank, k)) = RowAt(Over(Blank, k, text), k + Len(text))
          BY <1>5, <4>1, RowWritten
        <5>2. \A text : Done(Put(text), Garbled) = Garbled
          <6>1. k \in Nat /\ Columns \in Nat
            BY <1>5, <4>1
          <6> QED
            BY <6>1, RowWritten, Zenon
        <5> QED
          BY <5>1, <5>2
      <4>3. k + Len(line) <= Columns /\ k + Len(line) = n
        BY <1>5, <4>1
      <4>4. Done(Put(line), RowAt(Blank, 0)) = RowAt(Over(Blank, 0, line), n)
        BY <4>1, <4>2, <4>3
      <4>5. Over(Blank, 0, line) = Shown(line)
        BY <1>5, Rows
      <4> QED
        BY <3>3, <3>4, <4>2, <4>4, <4>5 DEF On
    <3>6. Len(line') - behind' = n /\ behind' <= Len(line') - cursor'
      BY <1>5, <3>2, <3>3
    <3>7. LogShown'
      BY <3>2, <3>5, <3>6 DEF LogShown
    <3> QED
      BY <1>2, <3>1, <3>2, <3>7
  <2> QED
    BY <2>1, <2>2
<1>11. CASE RedrawBack
  <2>1. CASE behind < Len(line) - cursor
    <3>1. Redraws("back", "back", Back) /\ behind' = behind + 1
      BY <1>11, <2>1 DEF RedrawBack
    <3>2. /\ redraw = "back" /\ redraw' = "back" /\ screen' = Written(screen, Back)
          /\ line' = line /\ cursor' = cursor
      BY <3>1, <1>3, <1>4
    <3>3. screen = Garbled \/ screen = RowAt(Shown(line), n - behind)
      BY <1>1, <1>5, <3>2 DEF LogShown
    <3>4. screen' = Done(Back, screen)
      BY <3>2, Writes
    <3>5. PICK k \in Nat : k = n - behind /\ k # 0
      <4>1. n - behind \in Nat /\ n - behind # 0
        BY <1>5, <2>1
      <4> QED
        BY <4>1
    <3>6. screen' = Garbled \/ screen' = RowAt(Shown(line), k - 1)
      <4>1. Done(Back, RowAt(Shown(line), k)) = RowAt(Shown(line), k - 1)
            /\ Done(Back, Garbled) = Garbled
        BY <1>5, <3>5, RowWritten
      <4> QED
        BY <3>3, <3>4, <3>5, <4>1
    <3>7. Len(line') - behind' = k - 1 /\ behind' <= Len(line') - cursor'
      BY <1>5, <2>1, <3>1, <3>2, <3>5
    <3>8. LogShown'
      BY <3>2, <3>6, <3>7 DEF LogShown
    <3> QED
      BY <1>2, <3>1, <3>2, <3>8
  <2>2. CASE ~ (behind < Len(line) - cursor)
    <3>1. Redraws("back", "idle", Nothing) /\ behind' = 0
      BY <1>11, <2>2 DEF RedrawBack
    <3>2. /\ redraw = "back" /\ redraw' = "idle" /\ screen' = screen
          /\ line' = line /\ cursor' = cursor
      BY <3>1, <1>3
    <3>3. \/ screen = Garbled
          \/ screen = RowAt(Shown(line), Len(line) - behind) /\ behind <= Len(line) - cursor
      BY <1>1, <3>2 DEF LogShown
    <3>4. behind <= Len(line) - cursor => Len(line) - behind = cursor
      BY <1>5, <2>2
    <3>5. screen \in On(Shown(line), cursor)
      BY <3>3, <3>4 DEF On
    <3>6. LogShown'
      BY <3>2, <3>5 DEF LogShown
    <3> QED
      BY <1>2, <3>1, <3>2, <3>6
  <2> QED
    BY <2>1, <2>2
<1> QED
  BY <1>6, <1>7, <1>8, <1>9, <1>10, <1>11 DEF WriteEndLine

\* A step of the log's task.
LEMMA LogKeepsRow ==
  ASSUME ShellInv, RowInv, WriteEndLine
  PROVE  RowInv'
<1>1. CASE todo = <<>>
  BY <1>1, LogAlone
<1>2. CASE todo # <<>>
  <2>1. redraw # "back" => behind = 0
    BY DEF RowInv
  <2>2. ASSUME RedrawBegin \/ RedrawText \/ RedrawNothing \/ RedrawPrompt \/ RedrawLine
        PROVE  RowInv'
    <3>1. redraw # "back" /\ behind' = behind
      BY <2>2 DEF RedrawBegin, RedrawText, RedrawNothing, RedrawPrompt, RedrawLine, Redraws
    <3>2. redraw' # "back" => behind' = 0
      BY <2>1, <3>1
    <3>3. \E from, to, w : Redraws(from, to, w)
      BY <2>2, Zenon DEF RedrawBegin, RedrawText, RedrawNothing, RedrawPrompt, RedrawLine
    <3> QED
      BY <1>2, <3>2, <3>3, LogBetween
  <2>3. CASE RedrawBack
    <3>1. redraw' # "back" => behind' = 0
      BY <2>3 DEF RedrawBack, Redraws
    <3>2. \E from, to, w : Redraws(from, to, w)
      BY <2>3, Zenon DEF RedrawBack
    <3> QED
      BY <1>2, <3>1, <3>2, LogBetween
  <2> QED
    BY <2>2, <2>3 DEF WriteEndLine
<1> QED
  BY <1>1, <1>2

\* The invariant of the row holds at first.
LEMMA RowBegins ==
  ASSUME ShellInit
  PROVE  RowInv
<1>1. /\ session \in DOMAIN Sessions /\ line = Session.typed
      /\ cursor = Len(Session.typed)
      /\ active = FALSE /\ todo = <<>> /\ redraw = "idle" /\ behind = 0
      /\ screen = [row |-> Shown(Session.typed), col |-> Len(Session.typed), prompted |-> TRUE]
  BY DEF ShellInit
<1>2. screen = RowAt(Shown(line), cursor)
  BY <1>1, Zenon DEF RowAt
<1>3. LogShown
  BY <1>1, <1>2 DEF LogShown, On
<1> QED
  BY <1>1, <1>3, Zenon DEF RowInv

\* Lines that shellDeleteCommandLine can count in an unsigned char.
ShortLines == \A n \in DOMAIN Sessions : Sessions[n].size <= 256

\* Whenever neither task writes, the row shows the line with its cursor, or is
\* garbled, if no line is longer than the 255 characters shellClearCommandLine
\* can clear, for any commands, sessions and history and any number of columns.
THEOREM LineRight ==
  ASSUME ShortLines
  PROVE  ShellSpec => []LineShown
<1>1. ShellInit => RowInv
  BY RowBegins
<1>2. ShellInv /\ RowInv /\ [ShellNext]_shellVars => RowInv'
  <2> SUFFICES ASSUME ShellInv, RowInv, [ShellNext]_shellVars PROVE RowInv'
    OBVIOUS
  <2>1. Session.size <= 256
    BY Known DEF ShortLines, Session
  <2>2. CASE ShellHandler
    <3>1. ASSUME NEW data \in Session.text, NormalInput(data) PROVE RowInv'
      BY <2>1, <3>1, CharacterShown
    <3>2. CASE KeyByte
      <4>1. UNCHANGED <<line, cursor, active, todo, redraw, behind, screen>>
        BY <3>2 DEF KeyByte
      <4>2. todo = <<>> => LogShown'
        BY <4>1 DEF RowInv, LogShown
      <4>3. todo = <<>>
        BY <3>2 DEF KeyByte
      <4> QED
        BY <4>1, <4>2, <4>3, Zenon DEF RowInv
    <3> QED
      BY <2>1, <2>2, <3>1, <3>2, EditsShown, TabShown, UpAndDownShown, EnterShown DEF ShellHandler
  <2>3. CASE KeyStep
    BY <2>3, StepShown
  <2>4. CASE WriteEndLine
    BY <2>4, LogKeepsRow
  <2>5. CASE UNCHANGED shellVars
    <3>1. UNCHANGED <<line, cursor, active, todo, redraw, behind, screen>>
      BY <2>5 DEF shellVars
    <3>2. LogShown' = LogShown /\ Console' = Console
      BY <3>1 DEF LogShown, Console
    <3> QED
      BY <3>1, <3>2, Zenon DEF RowInv, AllGood
  <2> QED
    BY <2>2, <2>3, <2>4, <2>5 DEF ShellNext
<1>3. RowInv => LineShown
  <2> SUFFICES ASSUME RowInv, todo = <<>>, redraw = "idle", screen # Garbled
               PROVE  screen = RowAt(Shown(line), cursor)
    BY Zenon DEF LineShown, RowAt
  <2> QED
    BY DEF RowInv, LogShown, On
<1> QED
  BY <1>1, <1>2, <1>3, ShellInvariant, PTL DEF ShellSpec
-----------------------------------------------------------------------------
(* The words of a line: what is escaped, quoted and parted, one character
   after the other. *)

\* The number of backslashes before a character, one after the other.
LEMMA BackslashesCounted ==
  ASSUME NEW l, NEW i \in Nat \ {0}
  PROVE  /\ Backslashes(l, i) \in Nat
         /\ Backslashes(l, i + 1) = IF l[i] = Backslash THEN Backslashes(l, i) + 1 ELSE 0
<1> DEFINE In(k) == {0} \cup {n \in 1 .. k - 1 : \A j \in k - n .. k - 1 : l[j] = Backslash}
<1>1. ASSUME NEW k \in Nat \ {0}
      PROVE  Max(In(k)) \in In(k) /\ \A n \in In(k) : Max(In(k)) >= n
  <2>1. In(k) \subseteq 0 .. k - 1 /\ k - 1 \in Nat /\ In(k) # {}
    OBVIOUS
  <2> HIDE DEF In
  <2> QED
    BY <2>1, Greatest
<1>2. ASSUME NEW k \in Nat \ {0} PROVE Backslashes(l, k) = Max(In(k))
  BY DEF Backslashes
<1>3. PICK m : m = Max(In(i)) /\ m \in In(i) /\ \A n \in In(i) : m >= n
  <2> HIDE DEF In
  <2> QED
    BY <1>1
<1>4. PICK k : k = Max(In(i + 1)) /\ k \in In(i + 1) /\ \A n \in In(i + 1) : k >= n
  <2>1. i + 1 \in Nat \ {0}
    OBVIOUS
  <2> HIDE DEF In
  <2> QED
    BY <1>1, <2>1
<1>5. m \in Nat /\ k \in Nat
  BY <1>3, <1>4
<1>6. Backslashes(l, i) = m /\ Backslashes(l, i + 1) = k
  <2>1. i + 1 \in Nat \ {0}
    OBVIOUS
  <2> HIDE DEF In
  <2> QED
    BY <1>2, <1>3, <1>4, <2>1
<1>7. CASE l[i] = Backslash
  <2>1. m + 1 \in In(i + 1)
    <3>1. m + 1 \in 1 .. (i + 1) - 1
      BY <1>3
    <3>2. ASSUME NEW j \in (i + 1) - (m + 1) .. (i + 1) - 1 PROVE l[j] = Backslash
      <4>1. CASE j = i
        BY <1>7, <4>1
      <4>2. CASE j # i
        <5>1. j \in i - m .. i - 1 /\ m # 0
          BY <4>2, <1>5
        <5> QED
          BY <1>3, <5>1
      <4> QED
        BY <4>1, <4>2
    <3> QED
      BY <3>1, <3>2
  <2>2. k >= m + 1
    BY <1>4, <2>1
  <2>3. k - 1 \in In(i)
    <3> k # 0
      BY <1>5, <2>2
    <3>1. k \in 1 .. (i + 1) - 1 /\ \A j \in (i + 1) - k .. (i + 1) - 1 : l[j] = Backslash
      BY <1>4
    <3>2. \A j \in i - (k - 1) .. i - 1 : j \in (i + 1) - k .. (i + 1) - 1
      BY <3>1
    <3>3. \A j \in i - (k - 1) .. i - 1 : l[j] = Backslash
      BY <3>1, <3>2
    <3> QED
      BY <3>1, <3>3
  <2>4. m >= k - 1
    BY <1>3, <2>3
  <2> QED
    BY <1>5, <1>7, <1>6, <2>2, <2>4
<1>8. CASE l[i] # Backslash
  <2>1. k = 0
    <3>1. ASSUME k # 0 PROVE FALSE
      <4>1. \A j \in (i + 1) - k .. (i + 1) - 1 : l[j] = Backslash
        BY <1>4, <3>1
      <4>2. i \in (i + 1) - k .. (i + 1) - 1
        BY <1>5, <3>1
      <4> QED
        BY <1>8, <4>1, <4>2
    <3> QED
      BY <3>1
  <2> QED
    BY <1>5, <1>8, <1>6, <2>1
<1> QED
  BY <1>7, <1>8

\* The first character is not escaped, and the next one is behind a backslash
\* that is not.
LEMMA EscapedNext ==
  ASSUME NEW l
  PROVE  /\ ~Escaped(l, 1)
         /\ \A i \in Nat \ {0} : Escaped(l, i + 1) <=> l[i] = Backslash /\ ~Escaped(l, i)
<1>1. Backslashes(l, 1) = 0
  <2> DEFINE none == {n \in 1 .. 1 - 1 : \A j \in 1 - n .. 1 - 1 : l[j] = Backslash}
  <2>1. {0} \cup none = {0}
    OBVIOUS
  <2>2. Backslashes(l, 1) = Max({0} \cup none)
    BY Zenon DEF Backslashes
  <2>3. Max({0}) = 0
    BY DEF Max
  <2> QED
    BY <2>1, <2>2, <2>3, Zenon
<1>2. ASSUME NEW i \in Nat \ {0}
      PROVE  Escaped(l, i + 1) <=> l[i] = Backslash /\ ~Escaped(l, i)
  <2>1. PICK b \in Nat : b = Backslashes(l, i)
    BY BackslashesCounted
  <2>2. Backslashes(l, i + 1) = IF l[i] = Backslash THEN b + 1 ELSE 0
    BY <2>1, BackslashesCounted
  <2>3. Escaped(l, i) <=> b % 2 = 1
    BY <2>1 DEF Escaped
  <2>4. Escaped(l, i + 1) <=> (IF l[i] = Backslash THEN b + 1 ELSE 0) % 2 = 1
    BY <2>2 DEF Escaped
  <2>5. ((b + 1) % 2 = 1 <=> ~(b % 2 = 1)) /\ 0 % 2 # 1
    OBVIOUS
  <2> QED
    BY <2>3, <2>4, <2>5
<1> QED
  BY <1>1, <1>2 DEF Escaped

Odd(n) == n % 2 = 1

\* Whether the quotes are open before a character, one after the other.
LEMMA QuotesNext ==
  ASSUME NEW l
  PROVE  /\ ~Odd(Cardinality(Quotes(l, 1)))
         /\ \A i \in Nat \ {0} :
              /\ Odd(Cardinality(Quotes(l, i))) <=> ~(Cardinality(Quotes(l, i)) % 2 = 0)
              /\ Odd(Cardinality(Quotes(l, i + 1))) <=>
                   IF l[i] = Quote /\ ~Escaped(l, i) THEN ~Odd(Cardinality(Quotes(l, i)))
                   ELSE Odd(Cardinality(Quotes(l, i)))
<1>1. Quotes(l, 1) = {}
  BY DEF Quotes
<1>2. ASSUME NEW i \in Nat \ {0}
      PROVE  /\ Odd(Cardinality(Quotes(l, i))) <=> ~(Cardinality(Quotes(l, i)) % 2 = 0)
             /\ Odd(Cardinality(Quotes(l, i + 1))) <=>
                  IF l[i] = Quote /\ ~Escaped(l, i) THEN ~Odd(Cardinality(Quotes(l, i)))
                  ELSE Odd(Cardinality(Quotes(l, i)))
  <2>1. IsFiniteSet(Quotes(l, i)) /\ i \notin Quotes(l, i)
    <3>1. IsFiniteSet(1 .. i - 1) /\ Quotes(l, i) \in SUBSET (1 .. i - 1)
      BY FS_Interval DEF Quotes
    <3>2. i \notin 1 .. i - 1
      OBVIOUS
    <3> QED
      BY <3>1, <3>2, FS_Subset
  <2>2. PICK q \in Nat : q = Cardinality(Quotes(l, i))
    BY <2>1, FS_CardinalityType
  <2>3. (Odd(q) <=> ~(q % 2 = 0)) /\ (Odd(q + 1) <=> ~Odd(q))
    BY DEF Odd
  <2>4. CASE l[i] = Quote /\ ~Escaped(l, i)
    <3>1. Quotes(l, i + 1) = Quotes(l, i) \cup {i}
      BY <2>4 DEF Quotes
    <3>2. Cardinality(Quotes(l, i + 1)) = q + 1
      BY <2>1, <2>2, <3>1, FS_AddElement
    <3> QED
      BY <2>2, <2>3, <2>4, <3>2
  <2>5. CASE ~(l[i] = Quote /\ ~Escaped(l, i))
    <3>1. Quotes(l, i + 1) = Quotes(l, i)
      BY <2>5 DEF Quotes
    <3> QED
      BY <2>2, <2>3, <2>5, <3>1
  <2> QED
    BY <2>4, <2>5
<1>3. ~Odd(Cardinality({}))
  BY FS_EmptySet DEF Odd
<1> QED
  BY <1>1, <1>2, <1>3
-----------------------------------------------------------------------------
(* The loop of shellSplit, character by character, against that. *)

\* The states of a loop that has passed n characters of a line.
Looped(f, l, n) == f = [i \in 0 .. n |-> IF i = 0 THEN NoWords ELSE SplitAt(f[i - 1], l, i)]

\* There are some, for every line.
LEMMA LoopEnds ==
  ASSUME NEW l, NEW n \in Nat
  PROVE  \E f : Looped(f, l, n)
<1>1. PICK S : S = {m \in 0 .. n : \E f : Looped(f, l, m)}
  OBVIOUS
<1>2. 0 \in S
  <2>1. Looped([i \in 0 .. 0 |-> NoWords], l, 0)
    BY DEF Looped
  <2> QED
    BY <1>1, <2>1
<1>3. ASSUME NEW m \in 0 .. n, m \in S, m < n PROVE m + 1 \in S
  <2>1. PICK f : Looped(f, l, m)
    BY <1>1, <1>3
  <2>2. PICK g : g = [i \in 0 .. m + 1 |-> IF i = m + 1 THEN SplitAt(f[m], l, m + 1) ELSE f[i]]
    OBVIOUS
  <2>3. ASSUME NEW i \in 0 .. m + 1
        PROVE  g[i] = IF i = 0 THEN NoWords ELSE SplitAt(g[i - 1], l, i)
    <3>1. CASE i = m + 1
      <4>1. g[i] = SplitAt(f[m], l, i) /\ g[i - 1] = f[m] /\ i # 0
        BY <2>2, <3>1
      <4> QED
        BY <4>1
    <3>2. CASE i # m + 1 /\ i # 0
      <4>1. i \in 1 .. m /\ i - 1 \in 0 .. m
        BY <3>2
      <4>2. g[i] = f[i] /\ g[i - 1] = f[i - 1]
        BY <2>2, <4>1
      <4>3. f[i] = SplitAt(f[i - 1], l, i)
        BY <2>1, <4>1 DEF Looped
      <4> QED
        BY <3>2, <4>2, <4>3
    <3>3. CASE i # m + 1 /\ i = 0
      BY <2>1, <2>2, <3>3 DEF Looped
    <3> QED
      BY <3>1, <3>2, <3>3
  <2>4. Looped(g, l, m + 1)
    BY <2>2, <2>3 DEF Looped
  <2> QED
    BY <1>1, <1>3, <2>4
<1>4. n \in S
  BY <1>2, <1>3, UpTo
<1> QED
  BY <1>1, <1>4

\* The states are those of the loop: there is one before the first character, and
\* each character makes the next one of the one before it.
LEMMA SplittingStates ==
  ASSUME NEW l, Len(l) \in Nat
  PROVE  /\ Splitting(l)[0] = NoWords
         /\ \A i \in 1 .. Len(l) : Splitting(l)[i] = SplitAt(Splitting(l)[i - 1], l, i)
<1>1. Splitting(l) = CHOOSE f : Looped(f, l, Len(l))
  BY Zenon DEF Splitting, Looped
<1>2. Looped(Splitting(l), l, Len(l))
  BY <1>1, LoopEnds, Zenon
<1>3. PICK f : f = Splitting(l) /\ Looped(f, l, Len(l))
  BY <1>2
<1>4. \A i \in 0 .. Len(l) : f[i] = IF i = 0 THEN NoWords ELSE SplitAt(f[i - 1], l, i)
  BY <1>3 DEF Looped
<1>5. f[0] = NoWords /\ \A i \in 1 .. Len(l) : f[i] = SplitAt(f[i - 1], l, i)
  BY <1>4
<1> QED
  BY <1>3, <1>5

\* The states of the loop.
SplitStates ==
  [starts : Seq(Nat), ends : SUBSET Nat, record : BOOLEAN, quoted : BOOLEAN, skip : BOOLEAN]

\* What a character makes of a state: an escaped one does nothing,
LEMMA SkippedAt ==
  ASSUME NEW l, NEW i \in Nat, NEW s \in SplitStates, s.skip, NEW t, t = SplitAt(s, l, i)
  PROVE  /\ t \in SplitStates
         /\ t.starts = s.starts /\ t.ends = s.ends
         /\ (t.record <=> s.record) /\ (t.quoted <=> s.quoted) /\ ~t.skip
<1>1. t = [s EXCEPT !.skip = FALSE]
  BY Zenon DEF SplitAt
<1> QED
  BY <1>1 DEF SplitStates

\* and any but a separator may begin a word.
LEMMA PassedAt ==
  ASSUME NEW l, NEW i \in Nat, NEW s \in SplitStates, ~s.skip, ~Closes(s, l[i]),
         NEW t, t = SplitAt(s, l, i)
  PROVE  /\ t \in SplitStates
         /\ t.starts = IF Opens(s, l[i]) THEN Append(s.starts, i) ELSE s.starts
         /\ t.ends = s.ends
         /\ (t.record <=> s.record /\ ~Opens(s, l[i]))
         /\ (t.quoted <=> IF l[i] = Quote THEN ~s.quoted ELSE s.quoted)
         /\ (t.skip <=> l[i] = Backslash /\ i < Len(l))
<1> DEFINE o == Opens(s, l[i])
<1>1. t = [s EXCEPT !.starts = IF o THEN Append(@, i) ELSE @,
                    !.record = IF o THEN FALSE ELSE @,
                    !.quoted = IF l[i] = Quote THEN ~@ ELSE @,
                    !.skip = (l[i] = Backslash /\ i < Len(l))]
  BY Zenon DEF SplitAt
<1>2. PICK starts : starts = IF o THEN Append(s.starts, i) ELSE s.starts
  OBVIOUS
<1>3. PICK r \in BOOLEAN : r = IF o THEN FALSE ELSE s.record
  <2>1. s.record \in BOOLEAN
    BY DEF SplitStates
  <2> QED
    BY <2>1, Zenon
<1>4. PICK q \in BOOLEAN : q = IF l[i] = Quote THEN ~s.quoted ELSE s.quoted
  <2>1. s.quoted \in BOOLEAN /\ (~s.quoted) \in BOOLEAN
    BY DEF SplitStates
  <2> QED
    BY <2>1, Zenon
<1>5. PICK k \in BOOLEAN : k = (l[i] = Backslash /\ i < Len(l))
  OBVIOUS
<1>6. t = [s EXCEPT !.starts = starts, !.record = r, !.quoted = q, !.skip = k]
  BY <1>1, <1>2, <1>3, <1>4, <1>5, Zenon
<1>7. t.starts = starts /\ t.ends = s.ends /\ t.record = r /\ t.quoted = q /\ t.skip = k
  BY <1>6 DEF SplitStates
<1>8. starts \in Seq(Nat)
  BY <1>2 DEF SplitStates
<1>9. t \in SplitStates
  BY <1>6, <1>8 DEF SplitStates
<1>10. r <=> s.record /\ ~o
  BY <1>3, Zenon DEF SplitStates
<1>11. q <=> IF l[i] = Quote THEN ~s.quoted ELSE s.quoted
  BY <1>4, Zenon
<1> QED
  BY <1>2, <1>5, <1>7, <1>9, <1>10, <1>11, Zenon

Full(s) == Len(s.starts) >= ParamMax

\* The flags after i characters, told by the definitions without a loop: whether
\* the next character is escaped, whether quotes are open, and whether a word may
\* begin.
FlagsAt(l, i, s) ==
  /\ s.skip <=> i < Len(l) /\ Escaped(l, i + 1)
  /\ s.quoted <=> Odd(Cardinality(Quotes(l, i + 1)))
  /\ s.record /\ ~Full(s) => i = 0 \/ Parts(l, i)
  /\ ~s.record => i # 0 /\ (Parts(l, i) => i < Len(l) /\ l[i + 1] = " ")

\* The next character parts words if the loop takes it for a separator, and
\* behind one that does no quotes are open and nothing is escaped.
LEMMA PartsSeen ==
  ASSUME NEW l, Len(l) \in Nat, NEW i \in 0 .. Len(l) - 1, NEW s \in SplitStates, FlagsAt(l, i, s)
  PROVE  /\ Parts(l, i + 1) <=> l[i + 1] = " " /\ ~s.skip /\ ~s.quoted
         /\ i = 0 \/ Parts(l, i) => ~s.skip /\ ~s.quoted
         /\ i + 1 \in Begins(l) <=> ~Parts(l, i + 1) /\ (i = 0 \/ Parts(l, i))
<1>1. i < Len(l) /\ i + 1 \in Nat \ {0} /\ i + 1 \in 1 .. Len(l) /\ (i + 1) - 1 = i
  OBVIOUS
<1>2. (s.skip <=> Escaped(l, i + 1)) /\ (s.quoted <=> Odd(Cardinality(Quotes(l, i + 1))))
  BY <1>1 DEF FlagsAt
<1>3. Odd(Cardinality(Quotes(l, i + 1))) <=> ~(Cardinality(Quotes(l, i + 1)) % 2 = 0)
  BY <1>1, QuotesNext
<1>4. Parts(l, i + 1) <=> l[i + 1] = " " /\ ~s.skip /\ ~s.quoted
  BY <1>2, <1>3 DEF Parts
<1>5. i = 0 => ~s.skip /\ ~s.quoted
  BY <1>2, EscapedNext, QuotesNext
<1>6. ASSUME i # 0, Parts(l, i) PROVE ~s.skip /\ ~s.quoted
  <2>1. i \in Nat \ {0}
    BY <1>6
  <2>2. l[i] = " " /\ Cardinality(Quotes(l, i)) % 2 = 0
    BY <1>6 DEF Parts
  <2>3. l[i] # Backslash /\ l[i] # Quote
    BY <2>2 DEF Backslash, Quote
  <2>4. ~Escaped(l, i + 1)
    BY <2>1, <2>3, EscapedNext
  <2>5. ~Odd(Cardinality(Quotes(l, i))) /\ ~Odd(Cardinality(Quotes(l, i + 1)))
    BY <2>1, <2>2, <2>3, QuotesNext
  <2> QED
    BY <1>2, <2>4, <2>5
<1>7. i + 1 \in Begins(l) <=> ~Parts(l, i + 1) /\ (i + 1 > 1 => Parts(l, (i + 1) - 1))
  BY <1>1 DEF Begins
<1>8. i + 1 > 1 <=> i # 0
  OBVIOUS
<1>9. i + 1 \in Begins(l) <=> ~Parts(l, i + 1) /\ (i # 0 => Parts(l, i))
  BY <1>1, <1>7, <1>8
<1> QED
  BY <1>4, <1>5, <1>6, <1>9, Zenon

\* What a character may do: end a word, begin one, or neither.
EndsWord(l, j, s, t) ==
  /\ ~s.record /\ Parts(l, j) /\ (~t.record => CharAt(l, j + 1) = " ")
  /\ t.starts = s.starts /\ \A e : e \in t.ends <=> e \in s.ends \/ e = j

BeginsWord(l, j, s, t) ==
  /\ s.record /\ ~t.record /\ ~Full(s) /\ j \in Begins(l)
  /\ t.starts = Append(s.starts, j) /\ t.ends = s.ends

Stays(l, j, s, t) ==
  /\ t.record <=> s.record
  /\ ~Full(s) => j \notin Begins(l) /\ (s.record => Parts(l, j))
  /\ Parts(l, j) => s.record
  /\ t.starts = s.starts /\ t.ends = s.ends

\* A separator ends a word.
LEMMA WordEnded ==
  ASSUME NEW l, NEW j \in Nat, NEW s \in SplitStates, ~s.skip, Closes(s, l[j]), Parts(l, j),
         NEW t, t = SplitAt(s, l, j)
  PROVE  t \in SplitStates /\ EndsWord(l, j, s, t) /\ ~t.quoted /\ ~t.skip
<1>1. PICK b \in BOOLEAN : b <=> CharAt(l, j + 1) # " "
  OBVIOUS
<1>2. (CharAt(l, j + 1) # " ") = b
  BY <1>1
<1>3. t = [s EXCEPT !.ends = @ \cup {j}, !.record = CharAt(l, j + 1) # " "]
  BY Zenon DEF SplitAt
<1>4. t = [s EXCEPT !.ends = @ \cup {j}, !.record = b]
  BY <1>2, <1>3, Zenon
<1>5. t \in SplitStates /\ t.starts = s.starts /\ t.ends = s.ends \cup {j}
  BY <1>4 DEF SplitStates
<1>6. t.record = b /\ t.quoted = s.quoted /\ t.skip = s.skip
  BY <1>4 DEF SplitStates
<1>7. ~s.quoted /\ ~s.record
  BY Zenon DEF Closes
<1>8. \A e : e \in t.ends <=> e \in s.ends \/ e = j
  BY <1>5
<1>9. ~t.record => CharAt(l, j + 1) = " "
  BY <1>1, <1>6, Zenon
<1>10. EndsWord(l, j, s, t)
  BY <1>5, <1>7, <1>8, <1>9, Zenon DEF EndsWord
<1> QED
  BY <1>5, <1>6, <1>7, <1>10, Zenon

\* The flags stay right, and a character ends a word, begins one, or does neither.
LEMMA CharacterSplits ==
  ASSUME NEW l, Len(l) \in Nat, NEW i \in 0 .. Len(l) - 1, NEW j, j = i + 1,
         NEW s \in SplitStates, FlagsAt(l, i, s), NEW t, t = SplitAt(s, l, j)
  PROVE  /\ t \in SplitStates
         /\ (t.skip <=> j < Len(l) /\ Escaped(l, j + 1))
         /\ (t.quoted <=> Odd(Cardinality(Quotes(l, j + 1))))
         /\ EndsWord(l, j, s, t) \/ BeginsWord(l, j, s, t) \/ Stays(l, j, s, t)
<1>1. j \in Nat /\ j \in Nat \ {0} /\ i < Len(l)
  OBVIOUS
<1>2. /\ Parts(l, j) <=> l[j] = " " /\ ~s.skip /\ ~s.quoted
      /\ i = 0 \/ Parts(l, i) => ~s.skip /\ ~s.quoted
      /\ j \in Begins(l) <=> ~Parts(l, j) /\ (i = 0 \/ Parts(l, i))
  BY PartsSeen
<1>3. /\ s.skip <=> Escaped(l, j)
      /\ s.quoted <=> Odd(Cardinality(Quotes(l, j)))
      /\ s.record /\ ~Full(s) => i = 0 \/ Parts(l, i)
      /\ ~s.record => i # 0 /\ (Parts(l, i) => l[j] = " ")
  BY <1>1, Zenon DEF FlagsAt
<1>4. Escaped(l, j + 1) <=> l[j] = Backslash /\ ~Escaped(l, j)
  BY <1>1, EscapedNext
<1>5. Odd(Cardinality(Quotes(l, j + 1))) <=>
        IF l[j] = Quote /\ ~Escaped(l, j) THEN ~Odd(Cardinality(Quotes(l, j)))
        ELSE Odd(Cardinality(Quotes(l, j)))
  BY <1>1, QuotesNext
<1>6. CASE s.skip
  <2>1. /\ t \in SplitStates /\ t.starts = s.starts /\ t.ends = s.ends
        /\ (t.record <=> s.record) /\ (t.quoted <=> s.quoted) /\ ~t.skip
    BY <1>1, <1>6, SkippedAt
  <2>2. Stays(l, j, s, t)
    BY <1>2, <1>3, <1>6, <2>1, Zenon DEF Stays
  <2>3. ~Escaped(l, j + 1) /\ (t.quoted <=> Odd(Cardinality(Quotes(l, j + 1))))
    BY <1>3, <1>4, <1>5, <1>6, <2>1, Zenon
  <2> QED
    BY <1>1, <2>1, <2>2, <2>3
<1>7. CASE ~s.skip /\ Closes(s, l[j])
  <2>2. ~s.quoted /\ l[j] = " " /\ ~s.record
    BY <1>7, Zenon DEF Closes
  <2>1. t \in SplitStates /\ EndsWord(l, j, s, t) /\ ~t.quoted /\ ~t.skip
    <3>1. Parts(l, j)
      BY <1>2, <1>7, <2>2, Zenon
    <3>2. j \in Nat /\ t = SplitAt(s, l, j)
      BY <1>1
    <3> QED
      BY <1>7, <3>1, <3>2, WordEnded
  <2>3. EndsWord(l, j, s, t)
    BY <2>1
  <2>4. l[j] # Quote /\ l[j] # Backslash
    BY <2>2 DEF Quote, Backslash
  <2>5. ~Escaped(l, j + 1) /\ (t.quoted <=> Odd(Cardinality(Quotes(l, j + 1))))
    BY <1>3, <1>4, <1>5, <2>1, <2>2, <2>4, Zenon
  <2>6. t \in SplitStates /\ (t.skip <=> j < Len(l) /\ Escaped(l, j + 1))
    BY <2>1, <2>5
  <2> QED
    BY <2>3, <2>5, <2>6
<1>8. CASE ~s.skip /\ ~Closes(s, l[j])
  <2>1. /\ t \in SplitStates
        /\ t.starts = IF Opens(s, l[j]) THEN Append(s.starts, j) ELSE s.starts
        /\ t.ends = s.ends
        /\ (t.record <=> s.record /\ ~Opens(s, l[j]))
        /\ (t.quoted <=> IF l[j] = Quote THEN ~s.quoted ELSE s.quoted)
        /\ (t.skip <=> l[j] = Backslash /\ j < Len(l))
    BY <1>1, <1>8, PassedAt
  <2>2. t.skip <=> j < Len(l) /\ Escaped(l, j + 1)
    BY <1>3, <1>4, <1>8, <2>1, Zenon
  <2>3. t.quoted <=> Odd(Cardinality(Quotes(l, j + 1)))
    BY <1>3, <1>5, <1>8, <2>1, Zenon
  <2>4. s.quoted \/ l[j] # " " \/ s.record
    BY <1>8, Zenon DEF Closes
  <2>5. Len(s.starts) < ParamMax <=> ~Full(s)
    <3>1. Len(s.starts) \in Nat
      BY DEF SplitStates
    <3> QED
      BY <3>1, ArgsAssumption DEF Full
  <2>6. Opens(s, l[j]) <=> ~s.quoted /\ l[j] # " " /\ s.record /\ ~Full(s)
    BY <2>5, Zenon DEF Opens
  <2>7. CASE Opens(s, l[j])
    <3>1. BeginsWord(l, j, s, t)
      BY <1>2, <1>3, <2>1, <2>6, <2>7, Zenon DEF BeginsWord
    <3> QED
      BY <1>1, <2>1, <2>2, <2>3, <3>1
  <2>8. CASE ~Opens(s, l[j])
    <3>1. ASSUME ~Full(s), j \in Begins(l) PROVE FALSE
      BY <1>2, <1>3, <1>8, <2>6, <2>8, <3>1, Zenon
    <3>2. ASSUME ~Full(s), s.record PROVE Parts(l, j)
      BY <1>2, <1>3, <1>8, <2>6, <2>8, <3>2, Zenon
    <3>3. Parts(l, j) => s.record
      BY <1>2, <2>4, Zenon
    <3>4. Stays(l, j, s, t)
      BY <2>1, <2>8, <3>1, <3>2, <3>3, Zenon DEF Stays
    <3> QED
      BY <1>1, <2>1, <2>2, <2>3, <3>4
  <2> QED
    BY <2>7, <2>8
<1> QED
  BY <1>6, <1>7, <1>8
-----------------------------------------------------------------------------
(* Where the words begin. *)

\* The words that have begun after i characters, and before a character.
Begun(l, i) == {j \in Begins(l) : j <= i}
BegunBefore(l, i) == {j \in Begins(l) : j < i}

\* They are finitely many: none before the first character, all after the last,
\* and one more at each place where one begins.
LEMMA BegunCounted ==
  ASSUME NEW l, Len(l) \in Nat
  PROVE  /\ IsFiniteSet(Begins(l)) /\ Cardinality(Begins(l)) \in Nat
         /\ Begun(l, Len(l)) = Begins(l) /\ Cardinality(Begun(l, 0)) = 0
         /\ \A i \in Nat :
              /\ Cardinality(Begun(l, i)) \in Nat
              /\ BegunBefore(l, i + 1) = Begun(l, i)
              /\ Cardinality(Begun(l, i + 1)) =
                   IF i + 1 \in Begins(l) THEN Cardinality(Begun(l, i)) + 1
                   ELSE Cardinality(Begun(l, i))
<1>1. IsFiniteSet(Begins(l)) /\ Begins(l) \subseteq 1 .. Len(l)
  <2>1. IsFiniteSet(1 .. Len(l)) /\ Begins(l) \in SUBSET (1 .. Len(l))
    BY FS_Interval DEF Begins
  <2> QED
    BY <2>1, FS_Subset
<1>2. Begun(l, Len(l)) = Begins(l)
  BY <1>1 DEF Begun
<1>3. Begun(l, 0) = {}
  BY <1>1 DEF Begun
<1>4. ASSUME NEW i \in Nat
      PROVE  /\ Cardinality(Begun(l, i)) \in Nat
             /\ BegunBefore(l, i + 1) = Begun(l, i)
             /\ Cardinality(Begun(l, i + 1)) =
                  IF i + 1 \in Begins(l) THEN Cardinality(Begun(l, i)) + 1
                  ELSE Cardinality(Begun(l, i))
  <2>1. Begun(l, i) \in SUBSET Begins(l)
    BY DEF Begun
  <2>2. IsFiniteSet(Begun(l, i)) /\ Cardinality(Begun(l, i)) \in Nat
    BY <1>1, <2>1, FS_Subset, FS_CardinalityType
  <2>3. BegunBefore(l, i + 1) = Begun(l, i)
    BY <1>1 DEF BegunBefore, Begun
  <2>4. CASE i + 1 \in Begins(l)
    <3>1. Begun(l, i + 1) = Begun(l, i) \cup {i + 1} /\ i + 1 \notin Begun(l, i)
      BY <1>1, <2>4 DEF Begun
    <3> QED
      BY <2>2, <2>3, <2>4, <3>1, FS_AddElement
  <2>5. CASE i + 1 \notin Begins(l)
    <3>1. Begun(l, i + 1) = Begun(l, i)
      BY <1>1, <2>5 DEF Begun
    <3> QED
      BY <2>2, <2>3, <2>5, <3>1
  <2> QED
    BY <2>4, <2>5
<1> QED
  BY <1>1, <1>2, <1>3, <1>4, FS_EmptySet, FS_CardinalityType

\* The k-th word begins where k - 1 have begun before it.
LEMMA BeginIs ==
  ASSUME NEW l, Len(l) \in Nat, NEW k \in Nat, NEW i \in Begins(l),
         Cardinality(BegunBefore(l, i)) = k - 1
  PROVE  Begin(l, k) = i
<1>1. Begins(l) \subseteq 1 .. Len(l) /\ IsFiniteSet(Begins(l))
  BY BegunCounted DEF Begins
<1>2. ASSUME NEW a \in Begins(l), NEW b \in Begins(l), a < b
      PROVE  Cardinality(BegunBefore(l, a)) # Cardinality(BegunBefore(l, b))
  <2>1. BegunBefore(l, b) \in SUBSET Begins(l)
    BY DEF BegunBefore
  <2>2. IsFiniteSet(BegunBefore(l, b))
    BY <1>1, <2>1, FS_Subset
  <2>3. BegunBefore(l, a) \in SUBSET BegunBefore(l, b)
    BY <1>1, <1>2 DEF BegunBefore
  <2>4. a \in BegunBefore(l, b) /\ a \notin BegunBefore(l, a)
    BY <1>1, <1>2 DEF BegunBefore
  <2> QED
    BY <2>2, <2>3, <2>4, FS_Subset
<1>3. ASSUME NEW j \in Begins(l), Cardinality(BegunBefore(l, j)) = k - 1 PROVE j = i
  <2>1. i \in Int /\ j \in Int
    BY <1>1
  <2>2. ~(i < j) /\ ~(j < i)
    BY <1>2, <1>3
  <2> QED
    BY <2>1, <2>2
<1>4. Begin(l, k) = CHOOSE j \in Begins(l) : Cardinality(BegunBefore(l, j)) = k - 1
  BY DEF Begin, BegunBefore
<1> QED
  BY <1>3, <1>4, Zenon

\* Where the words that begun so far began.
StartsRight(l, i, s) ==
  /\ Len(s.starts) <= ParamMax
  /\ Len(s.starts) <= Cardinality(Begun(l, i))
  /\ ~Full(s) => Len(s.starts) = Cardinality(Begun(l, i))
  /\ \A k \in 1 .. Len(s.starts) :
       s.starts[k] \in Begun(l, i) /\ Cardinality(BegunBefore(l, s.starts[k])) = k - 1

\* Where words ended: at separators, and before the next one behind a start.
EndsRight(l, i, s) ==
  /\ \A e \in s.ends : e \in 1 .. i /\ Parts(l, e)
  /\ \A k \in 1 .. Len(s.starts) :
       /\ s.record => \E e \in s.ends : s.starts[k] < e
       /\ \A p \in s.starts[k] + 1 .. i :
            Parts(l, p) => \E e \in s.ends : s.starts[k] < e /\ e <= p

SplitInv(l, i, s) ==
  s \in SplitStates /\ FlagsAt(l, i, s) /\ StartsRight(l, i, s) /\ EndsRight(l, i, s)

\* Before the first character.
LEMMA SplitBegins ==
  ASSUME NEW l, Len(l) \in Nat
  PROVE  SplitInv(l, 0, NoWords)
<1>1. PICK s : s = NoWords
  OBVIOUS
<1>2. s.starts = <<>> /\ s.ends = {} /\ s.record = TRUE /\ s.quoted = FALSE /\ s.skip = FALSE
  BY <1>1 DEF NoWords
<1>3. s \in SplitStates
  BY <1>1 DEF NoWords, SplitStates
<1>4. FlagsAt(l, 0, s)
  <2>1. ~Escaped(l, 0 + 1) /\ ~Odd(Cardinality(Quotes(l, 0 + 1)))
    BY EscapedNext, QuotesNext
  <2> QED
    BY <1>2, <2>1, Zenon DEF FlagsAt
<1>5. StartsRight(l, 0, s)
  <2>1. Len(s.starts) = 0 /\ Cardinality(Begun(l, 0)) = 0
    BY <1>2, BegunCounted
  <2> QED
    BY <2>1, ArgsAssumption DEF StartsRight
<1>6. EndsRight(l, 0, s)
  <2>1. Len(s.starts) = 0 /\ 1 .. 0 = {}
    BY <1>2
  <2> QED
    BY <1>2, <2>1 DEF EndsRight
<1> QED
  BY <1>1, <1>3, <1>4, <1>5, <1>6 DEF SplitInv
-----------------------------------------------------------------------------
(* How a step keeps what is known of the loop. *)

\* The flags.
LEMMA FlagsStay ==
  ASSUME NEW l, Len(l) \in Nat, DOMAIN l = 1 .. Len(l), NEW i \in 0 .. Len(l) - 1,
         NEW j, j = i + 1, NEW s \in SplitStates, FlagsAt(l, i, s), NEW t, t = SplitAt(s, l, j)
  PROVE  FlagsAt(l, j, t)
<1>1. /\ (t.skip <=> j < Len(l) /\ Escaped(l, j + 1))
      /\ (t.quoted <=> Odd(Cardinality(Quotes(l, j + 1))))
      /\ EndsWord(l, j, s, t) \/ BeginsWord(l, j, s, t) \/ Stays(l, j, s, t)
  BY CharacterSplits
<1>2. j # 0
  OBVIOUS
<1>3. t.record /\ ~Full(t) => Parts(l, j)
  <2>1. CASE EndsWord(l, j, s, t)
    BY <2>1 DEF EndsWord
  <2>2. CASE BeginsWord(l, j, s, t)
    BY <2>2 DEF BeginsWord
  <2>3. CASE Stays(l, j, s, t)
    BY <2>3, Zenon DEF Stays, Full
  <2> QED
    BY <1>1, <2>1, <2>2, <2>3
<1>4. ~t.record => (Parts(l, j) => j < Len(l) /\ l[j + 1] = " ")
  <2>1. CASE EndsWord(l, j, s, t)
    <3>1. CharAt(l, j + 1) = " " => j + 1 \in DOMAIN l /\ l[j + 1] = " "
      BY DEF CharAt, Nul
    <3>2. j + 1 \in DOMAIN l => j < Len(l)
      OBVIOUS
    <3>3. ~t.record => CharAt(l, j + 1) = " "
      BY <2>1, Zenon DEF EndsWord
    <3> QED
      BY <3>1, <3>2, <3>3, Zenon
  <2>2. CASE BeginsWord(l, j, s, t)
    BY <2>2 DEF BeginsWord, Begins
  <2>3. CASE Stays(l, j, s, t)
    BY <2>3, Zenon DEF Stays
  <2> QED
    BY <1>1, <2>1, <2>2, <2>3
<1> QED
  BY <1>1, <1>2, <1>3, <1>4, Zenon DEF FlagsAt

\* The starts: one more at a place where a word begins, if there is room.
LEMMA StartsStay ==
  ASSUME NEW l, Len(l) \in Nat, NEW i \in 0 .. Len(l) - 1, NEW j, j = i + 1,
         NEW s \in SplitStates, StartsRight(l, i, s), NEW t \in SplitStates,
         EndsWord(l, j, s, t) \/ BeginsWord(l, j, s, t) \/ Stays(l, j, s, t)
  PROVE  StartsRight(l, j, t)
<1>1. PICK n \in Nat : n = Cardinality(Begun(l, i))
  BY BegunCounted
<1>2. Cardinality(Begun(l, j)) = IF j \in Begins(l) THEN n + 1 ELSE n
  <2>1. i \in Nat
    OBVIOUS
  <2>2. Cardinality(Begun(l, i + 1)) =
          IF i + 1 \in Begins(l) THEN Cardinality(Begun(l, i)) + 1 ELSE Cardinality(Begun(l, i))
    BY <2>1, BegunCounted, Zenon
  <2> QED
    BY <1>1, <2>2, Zenon
<1>3. Begun(l, i) \subseteq Begun(l, j) /\ (j \in Begins(l) => j \in Begun(l, j))
  <2>1. Begins(l) \subseteq 1 .. Len(l)
    BY DEF Begins
  <2> QED
    BY <2>1 DEF Begun
<1>4. Len(s.starts) \in Nat /\ s.starts \in Seq(Nat)
  BY DEF SplitStates
<1>5. /\ Len(s.starts) <= ParamMax /\ Len(s.starts) <= n
      /\ ~Full(s) => Len(s.starts) = n
      /\ \A k \in 1 .. Len(s.starts) :
           s.starts[k] \in Begun(l, i) /\ Cardinality(BegunBefore(l, s.starts[k])) = k - 1
  BY <1>1 DEF StartsRight
<1>6. ASSUME t.starts = s.starts, j \in Begins(l) => Full(s) PROVE StartsRight(l, j, t)
  <2>1. Full(t) <=> Full(s)
    BY <1>6 DEF Full
  <2>2. Len(t.starts) <= Cardinality(Begun(l, j))
    BY <1>2, <1>4, <1>5, <1>6
  <2>3. ~Full(t) => Len(t.starts) = Cardinality(Begun(l, j))
    BY <1>2, <1>5, <1>6, <2>1
  <2>4. \A k \in 1 .. Len(t.starts) :
          t.starts[k] \in Begun(l, j) /\ Cardinality(BegunBefore(l, t.starts[k])) = k - 1
    BY <1>3, <1>5, <1>6
  <2> QED
    BY <1>5, <1>6, <2>2, <2>3, <2>4 DEF StartsRight
<1>7. CASE EndsWord(l, j, s, t)
  BY <1>6, <1>7 DEF EndsWord, Begins
<1>8. CASE Stays(l, j, s, t)
  BY <1>6, <1>8, Zenon DEF Stays
<1>9. CASE BeginsWord(l, j, s, t)
  <2>1. ~Full(s) /\ j \in Begins(l) /\ t.starts = Append(s.starts, j)
    BY <1>9, Zenon DEF BeginsWord
  <2>2. Len(s.starts) = n /\ Len(t.starts) = n + 1 /\ t.starts[n + 1] = j
        /\ \A k \in 1 .. n : t.starts[k] = s.starts[k]
    BY <1>4, <1>5, <2>1
  <2>3. n < ParamMax
    BY <1>1, <2>1, <2>2, ArgsAssumption DEF Full
  <2>4. Cardinality(Begun(l, j)) = n + 1
    BY <1>2, <2>1
  <2>5. ASSUME NEW k \in 1 .. n + 1
        PROVE  t.starts[k] \in Begun(l, j) /\ Cardinality(BegunBefore(l, t.starts[k])) = k - 1
    <3>1. CASE k = n + 1
      <4>1. Cardinality(BegunBefore(l, j)) = n
        BY <1>1, BegunCounted
      <4> QED
        BY <1>3, <2>1, <2>2, <3>1, <4>1
    <3>2. CASE k # n + 1
      <4>1. k \in 1 .. n /\ k \in 1 .. Len(s.starts) /\ t.starts[k] = s.starts[k]
        BY <2>2, <3>2
      <4>2. s.starts[k] \in Begun(l, i) /\ Cardinality(BegunBefore(l, s.starts[k])) = k - 1
        BY <1>5, <4>1
      <4> QED
        BY <1>3, <4>1, <4>2
    <3> QED
      BY <3>1, <3>2
  <2> QED
    BY <2>2, <2>3, <2>4, <2>5, ArgsAssumption DEF StartsRight
<1> QED
  BY <1>7, <1>8, <1>9

\* The ends: one more at a place where a word ends, if it was taken.
LEMMA EndsStay ==
  ASSUME NEW l, Len(l) \in Nat, NEW i \in 0 .. Len(l) - 1, NEW j, j = i + 1,
         NEW s \in SplitStates, StartsRight(l, i, s), EndsRight(l, i, s), NEW t \in SplitStates,
         EndsWord(l, j, s, t) \/ BeginsWord(l, j, s, t) \/ Stays(l, j, s, t)
  PROVE  EndsRight(l, j, t)
<1>1. s.starts \in Seq(Nat) /\ Len(s.starts) \in Nat
  BY DEF SplitStates
<1>2. \A k \in 1 .. Len(s.starts) : s.starts[k] \in Nat /\ s.starts[k] <= i
  BY <1>1 DEF StartsRight, Begun
<1>3. /\ \A e \in s.ends : e \in 1 .. i /\ Parts(l, e)
      /\ \A k \in 1 .. Len(s.starts) :
           /\ s.record => \E e \in s.ends : s.starts[k] < e
           /\ \A p \in s.starts[k] + 1 .. i :
                Parts(l, p) => \E e \in s.ends : s.starts[k] < e /\ e <= p
  BY Zenon DEF EndsRight
<1>4. CASE EndsWord(l, j, s, t)
  <2>1. Parts(l, j) /\ t.starts = s.starts /\ \A e : e \in t.ends <=> e \in s.ends \/ e = j
    BY <1>4 DEF EndsWord
  <2>2. \A e \in t.ends : e \in 1 .. j /\ Parts(l, e)
    BY <1>3, <2>1
  <2>3. ASSUME NEW k \in 1 .. Len(t.starts)
        PROVE  /\ \E e \in t.ends : t.starts[k] < e
               /\ \A p \in t.starts[k] + 1 .. j :
                    Parts(l, p) => \E e \in t.ends : t.starts[k] < e /\ e <= p
    <3>1. s.starts[k] \in Nat /\ s.starts[k] < j /\ j \in t.ends
      BY <1>2, <2>1
    <3>2. ASSUME NEW p \in s.starts[k] + 1 .. j, Parts(l, p)
          PROVE  \E e \in t.ends : s.starts[k] < e /\ e <= p
      <4>1. CASE p = j
        BY <3>1, <4>1
      <4>2. CASE p # j
        <5>1. p \in s.starts[k] + 1 .. i
          BY <3>1, <4>2
        <5> QED
          BY <1>3, <2>1, <3>2, <5>1
      <4> QED
        BY <4>1, <4>2
    <3> QED
      BY <2>1, <3>1, <3>2
  <2> QED
    BY <2>2, <2>3 DEF EndsRight
<1>5. CASE BeginsWord(l, j, s, t)
  <2>1. ~t.record /\ s.record /\ ~Parts(l, j) /\ t.ends = s.ends /\ t.starts = Append(s.starts, j)
    BY <1>5 DEF BeginsWord, Begins
  <2>2. \A e \in t.ends : e \in 1 .. j /\ Parts(l, e)
    BY <1>3, <2>1
  <2>3. ASSUME NEW k \in 1 .. Len(t.starts), NEW p \in t.starts[k] + 1 .. j, Parts(l, p)
        PROVE  \E e \in t.ends : t.starts[k] < e /\ e <= p
    <3>1. CASE k \in 1 .. Len(s.starts)
      <4>1. t.starts[k] = s.starts[k] /\ s.starts[k] \in Nat
        BY <1>1, <1>2, <2>1, <3>1
      <4>2. p # j
        BY <2>1, <2>3
      <4>3. p \in s.starts[k] + 1 .. i
        BY <2>3, <4>1, <4>2
      <4> QED
        BY <1>3, <2>1, <2>3, <3>1, <4>1, <4>3
    <3>2. CASE k = Len(s.starts) + 1
      <4>1. t.starts[k] = j
        BY <1>1, <2>1, <3>2
      <4> QED
        BY <2>3, <4>1
    <3> QED
      BY <1>1, <2>1, <3>1, <3>2
  <2> QED
    BY <2>1, <2>2, <2>3, Zenon DEF EndsRight
<1>6. CASE Stays(l, j, s, t)
  <2>1. (t.record <=> s.record) /\ (Parts(l, j) => s.record) /\ t.starts = s.starts /\ t.ends = s.ends
    BY <1>6, Zenon DEF Stays
  <2>2. \A e \in t.ends : e \in 1 .. j /\ Parts(l, e)
    BY <1>3, <2>1
  <2>3. ASSUME NEW k \in 1 .. Len(t.starts)
        PROVE  t.record => \E e \in t.ends : t.starts[k] < e
    BY <1>3, <2>1, Zenon
  <2>4. ASSUME NEW k \in 1 .. Len(t.starts), NEW p \in t.starts[k] + 1 .. j, Parts(l, p)
        PROVE  \E e \in t.ends : t.starts[k] < e /\ e <= p
    <3>1. k \in 1 .. Len(s.starts) /\ t.starts[k] = s.starts[k] /\ s.starts[k] \in Nat
      BY <1>2, <2>1
    <3>2. CASE p = j
      <4>1. PICK e \in s.ends : s.starts[k] < e
        <5>1. s.record
          BY <2>1, <2>4, <3>2, Zenon
        <5> QED
          BY <1>3, <3>1, <5>1, Zenon
      <4>2. e <= p
        BY <1>3, <3>2, <4>1
      <4> QED
        BY <2>1, <3>1, <4>1, <4>2
    <3>3. CASE p # j
      <4>1. p \in s.starts[k] + 1 .. i
        BY <2>4, <3>1, <3>3
      <4> QED
        BY <1>3, <2>1, <2>4, <3>1, <4>1
    <3> QED
      BY <3>2, <3>3
  <2> QED
    BY <2>2, <2>3, <2>4, Zenon DEF EndsRight
<1> QED
  BY <1>4, <1>5, <1>6

\* The invariant holds after every character.
LEMMA SplitInvHolds ==
  ASSUME NEW l, Len(l) \in Nat, DOMAIN l = 1 .. Len(l)
  PROVE  SplitInv(l, Len(l), Splitting(l)[Len(l)])
<1>1. PICK S : S = {i \in 0 .. Len(l) : SplitInv(l, i, Splitting(l)[i])}
  OBVIOUS
<1>2. 0 \in S
  BY <1>1, SplitBegins, SplittingStates
<1>3. ASSUME NEW i \in 0 .. Len(l), i \in S, i < Len(l) PROVE i + 1 \in S
  <2>1. PICK j : j = i + 1
    OBVIOUS
  <2>2. PICK s : s = Splitting(l)[i]
    OBVIOUS
  <2>3. PICK t : t = Splitting(l)[j]
    OBVIOUS
  <2>4. i \in 0 .. Len(l) - 1 /\ j \in 1 .. Len(l) /\ j - 1 = i
    BY <1>3, <2>1
  <2>5. t = SplitAt(s, l, j)
    BY <2>2, <2>3, <2>4, SplittingStates
  <2>6. s \in SplitStates /\ FlagsAt(l, i, s) /\ StartsRight(l, i, s) /\ EndsRight(l, i, s)
    BY <1>1, <1>3, <2>2 DEF SplitInv
  <2>7. /\ t \in SplitStates
        /\ EndsWord(l, j, s, t) \/ BeginsWord(l, j, s, t) \/ Stays(l, j, s, t)
    BY <2>1, <2>4, <2>5, <2>6, CharacterSplits
  <2>8. FlagsAt(l, j, t)
    BY <2>1, <2>4, <2>5, <2>6, FlagsStay
  <2>9. StartsRight(l, j, t)
    BY <2>1, <2>4, <2>6, <2>7, StartsStay
  <2>10. EndsRight(l, j, t)
    BY <2>1, <2>4, <2>6, <2>7, EndsStay
  <2>11. SplitInv(l, j, t)
    BY <2>7, <2>8, <2>9, <2>10 DEF SplitInv
  <2>12. j \in S
    BY <1>1, <2>3, <2>4, <2>11
  <2> QED
    BY <2>1, <2>12
<1>4. \A i \in 0 .. Len(l) : i \in S
  <2>1. \A i \in 0 .. Len(l) : i \in S /\ i < Len(l) => i + 1 \in S
    BY <1>3
  <2> QED
    BY <1>2, <2>1, UpTo, Zenon
<1> QED
  BY <1>1, <1>4

\* The first end behind the start of a word is the first character that parts.
LEMMA EndIsRight ==
  ASSUME NEW l, Len(l) \in Nat, NEW s \in SplitStates, EndsRight(l, Len(l), s),
         NEW k \in 1 .. Len(s.starts)
  PROVE  Min({e \in s.ends : e > s.starts[k]} \cup {Len(l) + 1}) = EndOf(l, s.starts[k])
<1> DEFINE A == {e \in s.ends : e > s.starts[k]} \cup {Len(l) + 1}
           B == {j \in s.starts[k] + 1 .. Len(l) : Parts(l, j)} \cup {Len(l) + 1}
<1>1. s.starts[k] \in Nat
  BY DEF SplitStates
<1>2. /\ \A e \in s.ends : e \in 1 .. Len(l) /\ Parts(l, e)
      /\ \A p \in s.starts[k] + 1 .. Len(l) :
           Parts(l, p) => \E e \in s.ends : s.starts[k] < e /\ e <= p
  BY Zenon DEF EndsRight
<1>3. A \subseteq Nat /\ A # {} /\ B \subseteq Nat /\ B # {}
  BY <1>1, <1>2
<1>4. A \subseteq B
  BY <1>1, <1>2
<1>5. \A p \in B : \E e \in A : e <= p
  BY <1>1, <1>2
<1>6. EndOf(l, s.starts[k]) = Min(B)
  BY DEF EndOf
<1> HIDE DEF A, B
<1>7. PICK a : a = Min(A) /\ a \in A /\ \A n \in A : a <= n
  BY <1>3, Least
<1>8. PICK b : b = Min(B) /\ b \in B /\ \A n \in B : b <= n
  BY <1>3, Least
<1>9. a = b
  <2>1. a \in Nat /\ b \in Nat /\ b <= a
    BY <1>3, <1>4, <1>7, <1>8
  <2>2. PICK e \in A : e <= b
    BY <1>5, <1>8
  <2>3. a <= e /\ e \in Nat
    BY <1>3, <1>7, <2>2
  <2> QED
    BY <2>1, <2>2, <2>3
<1>10. Min(A) = EndOf(l, s.starts[k])
  BY <1>6, <1>7, <1>8, <1>9
<1> QED
  BY <1>10 DEF A

\* The loop finds the words of every line.
LEMMA SplitRight ==
  ASSUME NEW l, Len(l) \in Nat, DOMAIN l = 1 .. Len(l)
  PROVE  Split(l) = Words(l)
<1>1. PICK s : s = Splitting(l)[Len(l)]
  OBVIOUS
<1>2. /\ s \in SplitStates /\ EndsRight(l, Len(l), s)
      /\ Len(s.starts) <= ParamMax
      /\ Len(s.starts) <= Cardinality(Begun(l, Len(l)))
      /\ ~Full(s) => Len(s.starts) = Cardinality(Begun(l, Len(l)))
      /\ \A k \in 1 .. Len(s.starts) :
           s.starts[k] \in Begun(l, Len(l)) /\ Cardinality(BegunBefore(l, s.starts[k])) = k - 1
  BY <1>1, SplitInvHolds DEF SplitInv, StartsRight
<1>3. s.starts \in Seq(Nat) /\ Len(s.starts) \in Nat /\ DOMAIN s.starts = 1 .. Len(s.starts)
  BY <1>2 DEF SplitStates
<1>4. Cardinality(Begins(l)) \in Nat /\ Begun(l, Len(l)) = Begins(l)
  BY BegunCounted
<1>5. Min({Cardinality(Begins(l)), ParamMax}) = Len(s.starts)
  <2>1. PICK c \in Nat : c = Cardinality(Begins(l))
    BY <1>4
  <2>2. PICK m : m = Min({c, ParamMax})
    OBVIOUS
  <2>3. ParamMax \in Nat
    BY ArgsAssumption
  <2>4. m \in {c, ParamMax} /\ m <= c /\ m <= ParamMax
    <3>1. {c, ParamMax} \subseteq Nat /\ {c, ParamMax} # {} /\ c \in {c, ParamMax}
          /\ ParamMax \in {c, ParamMax}
      BY <2>3
    <3> QED
      BY <2>2, <3>1, Least
  <2>5. Len(s.starts) <= ParamMax /\ Len(s.starts) <= c
        /\ (Len(s.starts) < ParamMax => Len(s.starts) = c)
    BY <1>2, <1>3, <1>4, <2>1, <2>3 DEF Full
  <2>6. m = Len(s.starts)
    BY <1>3, <2>3, <2>4, <2>5
  <2> QED
    BY <2>1, <2>2, <2>6
<1>6. ASSUME NEW k \in 1 .. Len(s.starts)
      PROVE  SubSeq(l, s.starts[k],
                    Min({e \in s.ends : e > s.starts[k]} \cup {Len(l) + 1}) - 1) =
               SubSeq(l, Begin(l, k), EndOf(l, Begin(l, k)) - 1)
  <2>1. k \in Nat /\ s.starts[k] \in Begins(l) /\ Cardinality(BegunBefore(l, s.starts[k])) = k - 1
    BY <1>2, <1>4
  <2>2. Begin(l, k) = s.starts[k]
    BY <2>1, BeginIs
  <2>3. Min({e \in s.ends : e > s.starts[k]} \cup {Len(l) + 1}) = EndOf(l, s.starts[k])
    BY <1>2, EndIsRight
  <2> QED
    BY <2>2, <2>3, Zenon
<1>7. Split(l) =
        [k \in DOMAIN s.starts |->
           SubSeq(l, s.starts[k], Min({e \in s.ends : e > s.starts[k]} \cup {Len(l) + 1}) - 1)]
  BY <1>1, Zenon DEF Split
<1>8. Words(l) = [k \in 1 .. Len(s.starts) |-> SubSeq(l, Begin(l, k), EndOf(l, Begin(l, k)) - 1)]
  BY <1>5, Zenon DEF Words
<1> QED
  BY <1>3, <1>6, <1>7, <1>8, Zenon
-----------------------------------------------------------------------------
(* The words, and main functions. *)

\* Words are sequences with at least one character.
LEMMA WordsAre ==
  ASSUME NEW l, IsSequence(l)
  PROVE  /\ Split(l) = Words(l)
         /\ Len(Words(l)) \in Nat /\ DOMAIN Words(l) = 1 .. Len(Words(l))
         /\ \A k \in 1 .. Len(Words(l)) :
              IsSequence(Words(l)[k]) /\ Len(Words(l)[k]) \in Nat /\ Len(Words(l)[k]) > 0
<1>1. Len(l) \in Nat /\ DOMAIN l = 1 .. Len(l)
  BY DEF IsSequence
<1>2. PICK s : s = Splitting(l)[Len(l)]
  OBVIOUS
<1>3. PICK words : words = Words(l)
  OBVIOUS
<1>4. words = Split(l)
  BY <1>1, <1>3, SplitRight
<1>5. /\ s \in SplitStates /\ EndsRight(l, Len(l), s)
      /\ \A k \in 1 .. Len(s.starts) : s.starts[k] \in Begun(l, Len(l))
  BY <1>1, <1>2, SplitInvHolds DEF SplitInv, StartsRight
<1>6. DOMAIN s.starts = 1 .. Len(s.starts) /\ Len(s.starts) \in Nat
  BY <1>5 DEF SplitStates
<1>7. words =
        [k \in 1 .. Len(s.starts) |->
           SubSeq(l, s.starts[k], Min({e \in s.ends : e > s.starts[k]} \cup {Len(l) + 1}) - 1)]
  BY <1>2, <1>4, <1>6, Zenon DEF Split
<1>8. ASSUME NEW k \in 1 .. Len(s.starts)
      PROVE  IsSequence(words[k]) /\ Len(words[k]) \in Nat /\ Len(words[k]) > 0
  <2>1. PICK m : m = s.starts[k]
    OBVIOUS
  <2>2. m \in 1 .. Len(l)
    BY <1>5, <2>1 DEF Begun, Begins
  <2>3. PICK A : A = {e \in s.ends : e > m} \cup {Len(l) + 1}
    OBVIOUS
  <2>4. \A e \in s.ends : e \in 1 .. Len(l)
    BY <1>5 DEF EndsRight
  <2>5. A \subseteq Nat /\ A # {} /\ Len(l) + 1 \in A /\ \A e \in A : e > m
    BY <1>1, <2>2, <2>3, <2>4
  <2>6. PICK n : n = Min(A) - 1
    OBVIOUS
  <2>7. Min(A) \in A /\ Min(A) <= Len(l) + 1
    BY <2>5, Least
  <2>8. n \in Int /\ m <= n /\ n <= Len(l) /\ m \in Nat \ {0}
    <3>1. Min(A) \in Nat /\ Min(A) > m
      BY <2>5, <2>7, Zenon
    <3> QED
      BY <1>1, <2>2, <2>6, <2>7, <3>1
  <2>9. words[k] = SubSeq(l, m, n)
    BY <1>7, <2>1, <2>3, <2>6, Zenon
  <2>10. IsSequence(SubSeq(l, m, n)) /\ Len(SubSeq(l, m, n)) = n - m + 1
    BY <2>8, PartOf
  <2> QED
    BY <2>8, <2>9, <2>10
<1>9. Len(words) = Len(s.starts) /\ DOMAIN words = 1 .. Len(s.starts)
  <2>1. DOMAIN words = 1 .. Len(s.starts) /\ words = [k \in 1 .. Len(s.starts) |-> words[k]]
    BY <1>7, Zenon
  <2>2. words \in Seq(ToSet(words))
    BY <1>6, <2>1 DEF ToSet
  <2> QED
    BY <1>6, <2>1, <2>2
<1> QED
  BY <1>3, <1>4, <1>6, <1>8, <1>9

\* The last elements.
LEMMA TailIs ==
  ASSUME NEW w, IsSequence(w), Len(w) > 0
  PROVE  /\ IsSequence(Tail(w)) /\ Len(Tail(w)) = Len(w) - 1
         /\ \A i \in 1 .. Len(w) - 1 : Tail(w)[i] = w[i + 1]
<1>1. w \in Seq(ToSet(w)) /\ Len(w) \in Nat
  BY DEF IsSequence
<1>2. PICK S : S = ToSet(w)
  OBVIOUS
<1>3. w \in Seq(S) /\ w # <<>>
  BY <1>1, <1>2
<1>4. Tail(w) \in Seq(S) /\ Len(Tail(w)) = Len(w) - 1
      /\ \A i \in 1 .. Len(w) - 1 : Tail(w)[i] = w[i + 1]
  BY <1>3
<1> QED
  BY <1>4, SequenceOver

\* Two sequences of one length with the same elements are the same.
LEMMA SameElements ==
  ASSUME NEW s, NEW t, IsSequence(s), IsSequence(t), Len(s) = Len(t),
         \A i \in 1 .. Len(s) : s[i] = t[i]
  PROVE  s = t
<1>1. s \in Seq(ToSet(s)) /\ t \in Seq(ToSet(t))
  BY DEF IsSequence
<1>2. PICK S : S = ToSet(s) \cup ToSet(t)
  OBVIOUS
<1>3. s \in Seq(S) /\ t \in Seq(S)
  BY <1>1, <1>2, SeqMonotonic
<1> QED
  BY <1>3, SeqEqual

\* Every element is one of them.
LEMMA InIt ==
  ASSUME NEW w, IsSequence(w), NEW i \in 1 .. Len(w)
  PROVE  w[i] \in ToSet(w) /\ w # <<>>
<1>1. w \in Seq(ToSet(w)) /\ DOMAIN w = 1 .. Len(w)
  BY DEF IsSequence
<1>2. w[i] \in ToSet(w)
  BY <1>1 DEF ToSet
<1>3. Len(<<>>) = 0 /\ Len(w) # 0
  BY <1>1
<1> QED
  BY <1>2, <1>3

\* A part of a sequence, element by element.
PartIs(v, s, m, n) ==
  /\ IsSequence(v) /\ Len(v) = IF m <= n THEN n - m + 1 ELSE 0
  /\ \A i \in 1 .. n - m + 1 : v[i] = s[m + i - 1]

\* SubSeq takes it.
LEMMA PartTaken ==
  ASSUME NEW s, IsSequence(s), NEW m \in Nat \ {0}, NEW n \in Int, n <= Len(s),
         NEW v, v = SubSeq(s, m, n)
  PROVE  PartIs(v, s, m, n)
  BY PartOf DEF PartIs

\* What is within the quotes, as the loop takes it apart.
LEMMA WithinIs ==
  ASSUME NEW w, IsSequence(w), Len(w) > 1
  PROVE  /\ IsSequence(Within(w)) /\ Len(Within(w)) = Len(w) - 2
         /\ \A i \in 1 .. Len(w) - 2 : Within(w)[i] = w[i + 1]
         /\ Front(Tail(w)) = Within(w)
<1>1. Len(w) \in Nat
  BY DEF IsSequence
<1>2. /\ IsSequence(Within(w)) /\ Len(Within(w)) = Len(w) - 2
      /\ \A i \in 1 .. Len(w) - 2 : Within(w)[i] = w[i + 1]
  <2>1. PICK m, n : m = 2 /\ n = Len(w) - 1
    OBVIOUS
  <2>2. m \in Nat \ {0} /\ n \in Int /\ n <= Len(w)
    BY <1>1, <2>1
  <2>3. Within(w) = SubSeq(w, m, n)
    BY <2>1 DEF Within
  <2>4. PartIs(Within(w), w, m, n)
    BY <2>2, <2>3, PartTaken
  <2> QED
    BY <1>1, <2>1, <2>4 DEF PartIs
<1>3. PICK t : t = Tail(w)
  OBVIOUS
<1>4. IsSequence(t) /\ Len(t) = Len(w) - 1 /\ \A i \in 1 .. Len(w) - 1 : t[i] = w[i + 1]
  BY <1>3, TailIs
<1>5. /\ IsSequence(SubSeq(t, 1, Len(t) - 1)) /\ Len(SubSeq(t, 1, Len(t) - 1)) = Len(w) - 2
      /\ \A i \in 1 .. Len(w) - 2 : SubSeq(t, 1, Len(t) - 1)[i] = w[i + 1]
  <2>1. PICK m, n : m = 1 /\ n = Len(t) - 1
    OBVIOUS
  <2>2. m \in Nat \ {0} /\ n \in Int /\ n <= Len(t)
    BY <1>1, <1>4, <2>1
  <2>3. PICK v : v = SubSeq(t, m, n)
    OBVIOUS
  <2>4. PartIs(v, t, m, n)
    BY <1>4, <2>2, <2>3, PartTaken
  <2>5. IsSequence(v) /\ Len(v) = Len(w) - 2 /\ \A i \in 1 .. Len(w) - 2 : v[i] = t[i]
    BY <1>1, <1>4, <2>1, <2>4 DEF PartIs
  <2>6. \A i \in 1 .. Len(w) - 2 : v[i] = w[i + 1]
    BY <1>1, <1>4, <2>5
  <2>7. v = SubSeq(t, 1, Len(t) - 1)
    BY <2>1, <2>3
  <2> QED
    BY <2>5, <2>6, <2>7
<1>6. SubSeq(t, 1, Len(t) - 1) = Within(w)
  BY <1>2, <1>5, SameElements
<1> QED
  BY <1>2, <1>3, <1>6 DEF Front

\* A main function gets its words without the quotes around them.
LEMMA QuotesRemoved ==
  ASSUME NEW w, IsSequence(w), Len(w) > 0
  PROVE  Unquoted(w) \subseteq {RemoveParamQuotes(w)}
<1>1. Len(w) \in Nat /\ 1 \in 1 .. Len(w) /\ Len(w) \in 1 .. Len(w)
  BY DEF IsSequence
<1>2. Head(w) = w[1]
  OBVIOUS
<1>3. CASE Quoted(w)
  <2>1. Len(w) > 1 /\ w[1] = Quote /\ w[Len(w)] = Quote
    BY <1>3, Zenon DEF Quoted, Last
  <2>2. PICK t : t = Tail(w)
    OBVIOUS
  <2>3. IsSequence(t) /\ Len(t) = Len(w) - 1 /\ \A i \in 1 .. Len(w) - 1 : t[i] = w[i + 1]
    BY <2>2, TailIs
  <2>4. Len(t) \in 1 .. Len(w) - 1 /\ Len(t) + 1 = Len(w) /\ Len(t) \in 1 .. Len(t)
    BY <1>1, <2>1, <2>3
  <2>5. t[Len(t)] = Quote /\ t # <<>>
    BY <2>1, <2>3, <2>4, InIt
  <2>6. Front(t) = Within(w)
    BY <2>1, <2>2, WithinIs
  <2>7. RemoveParamQuotes(w) = Within(w)
    BY <1>2, <2>1, <2>2, <2>5, <2>6, Zenon DEF RemoveParamQuotes, Last
  <2>8. Unquoted(w) = {Within(w)}
    BY <1>3, Zenon DEF Unquoted
  <2> QED
    BY <2>7, <2>8
<1>4. CASE ~Quoted(w) /\ Quote \notin ToSet(w)
  <2>1. w[1] # Quote /\ w[Len(w)] # Quote
    BY <1>1, <1>4, InIt
  <2>2. RemoveParamQuotes(w) = w
    BY <1>2, <2>1, Zenon DEF RemoveParamQuotes, Last
  <2>3. Unquoted(w) = {w}
    BY <1>4, Zenon DEF Unquoted
  <2> QED
    BY <2>2, <2>3
<1>5. CASE ~Quoted(w) /\ Quote \in ToSet(w)
  <2>1. Unquoted(w) = {}
    BY <1>5, Zenon DEF Unquoted
  <2> QED
    BY <2>1
<1> QED
  BY <1>3, <1>4, <1>5
-----------------------------------------------------------------------------
(* Texts, and the other arguments of functions. *)

\* What shellExtParseString takes from the i-th character on, given what it takes
\* from later ones on.
TakenFrom(s, f, i) ==
  IF i > Len(s) \/ CharAt(s, i) = Quote THEN <<>>
  ELSE IF s[i] # Backslash THEN <<s[i]>> \o f[i + 1]
  ELSE LET c == Escape(CharAt(s, i + 1))
       IN IF c = Nul THEN <<>> ELSE <<c>> \o f[i + 2]

StringLooped(f, s, a) == f = [i \in a .. Len(s) + 2 |-> TakenFrom(s, f, i)]

\* There is such a function, for every string.
LEMMA StringEnds ==
  ASSUME NEW s, Len(s) \in Nat
  PROVE  \E f : StringLooped(f, s, 1)
<1>1. PICK n \in Nat : n = Len(s) + 1
  OBVIOUS
<1>2. PICK S : S = {m \in 0 .. n : \E f : StringLooped(f, s, n + 1 - m)}
  OBVIOUS
<1>3. 0 \in S
  <2>1. PICK f : f = [i \in n + 1 .. Len(s) + 2 |-> <<>>]
    OBVIOUS
  <2>2. ASSUME NEW i \in n + 1 .. Len(s) + 2 PROVE TakenFrom(s, f, i) = <<>>
    <3>1. i > Len(s)
      BY <1>1
    <3> QED
      BY <3>1, Zenon DEF TakenFrom
  <2>3. StringLooped(f, s, n + 1)
    BY <2>1, <2>2, Zenon DEF StringLooped
  <2>4. n + 1 - 0 = n + 1
    OBVIOUS
  <2> QED
    BY <1>2, <2>3, <2>4
<1>4. ASSUME NEW m \in 0 .. n, m \in S, m < n PROVE m + 1 \in S
  <2>1. PICK a : a = n - m
    OBVIOUS
  <2>2. a \in 1 .. Len(s) + 1 /\ n + 1 - m = a + 1 /\ n + 1 - (m + 1) = a
    BY <1>1, <1>4, <2>1
  <2>3. PICK f : StringLooped(f, s, a + 1)
    BY <1>2, <1>4, <2>2
  <2>4. f = [i \in a + 1 .. Len(s) + 2 |-> TakenFrom(s, f, i)]
    BY <2>3, Zenon DEF StringLooped
  <2>5. PICK g : g = [i \in a .. Len(s) + 2 |-> TakenFrom(s, f, i)]
    OBVIOUS
  <2>6. ASSUME NEW i \in a + 1 .. Len(s) + 2 PROVE g[i] = f[i]
    <3>1. i \in a .. Len(s) + 2
      BY <2>2
    <3>2. g[i] = TakenFrom(s, f, i)
      BY <2>5, <3>1, Zenon
    <3>3. f[i] = TakenFrom(s, f, i)
      BY <2>4, Zenon
    <3> QED
      BY <3>2, <3>3
  <2>7. ASSUME NEW i \in a .. Len(s) + 2 PROVE TakenFrom(s, f, i) = TakenFrom(s, g, i)
    <3>1. CASE i > Len(s)
      BY <3>1, Zenon DEF TakenFrom
    <3>2. CASE ~(i > Len(s))
      <4>1. i + 1 \in a + 1 .. Len(s) + 2 /\ i + 2 \in a + 1 .. Len(s) + 2
        BY <2>2, <3>2
      <4>2. f[i + 1] = g[i + 1] /\ f[i + 2] = g[i + 2]
        BY <2>6, <4>1
      <4> QED
        BY <4>2, Zenon DEF TakenFrom
    <3> QED
      BY <3>1, <3>2
  <2>8. g = [i \in a .. Len(s) + 2 |-> TakenFrom(s, g, i)]
    BY <2>5, <2>7, Zenon
  <2>9. StringLooped(g, s, a)
    BY <2>8, Zenon DEF StringLooped
  <2>10. m + 1 \in 0 .. n
    BY <1>4
  <2> QED
    BY <1>2, <2>2, <2>9, <2>10
<1>5. n \in S
  <2>1. \A m \in 0 .. n : m \in S /\ m < n => m + 1 \in S
    BY <1>4
  <2>2. \A m \in 0 .. n : m \in S
    BY <1>3, <2>1, UpTo, Zenon
  <2> QED
    BY <2>2
<1>6. n + 1 - n = 1
  OBVIOUS
<1> QED
  BY <1>2, <1>5, <1>6

\* A part of a sequence with the element before it.
LEMMA OneMore ==
  ASSUME NEW s, IsSequence(s), NEW i \in Nat \ {0}, NEW b \in Int, i <= b, b <= Len(s)
  PROVE  <<s[i]>> \o SubSeq(s, i + 1, b) = SubSeq(s, i, b)
<1>1. PICK p : p = <<s[i]>>
  OBVIOUS
<1>2. PICK q : q = SubSeq(s, i + 1, b)
  OBVIOUS
<1>3. PICK v : v = SubSeq(s, i, b)
  OBVIOUS
<1>4. PICK j : j = Join(p, q)
  OBVIOUS
<1>5. IsSequence(p) /\ Len(p) = 1 /\ p[1] = s[i]
  BY <1>1, OneElement
<1>6. IsSequence(q) /\ Len(q) = b - i /\ \A k \in 1 .. b - i : q[k] = s[i + k]
  <2>1. PICK a : a = i + 1
    OBVIOUS
  <2>2. q = SubSeq(s, a, b) /\ a \in Nat \ {0}
    BY <1>2, <2>1
  <2>3. PartIs(q, s, a, b)
    BY <2>2, PartTaken
  <2> QED
    BY <2>1, <2>3 DEF PartIs
<1>7. IsSequence(v) /\ Len(v) = b - i + 1 /\ \A k \in 1 .. b - i + 1 : v[k] = s[i + k - 1]
  <2>1. PartIs(v, s, i, b)
    BY <1>3, PartTaken
  <2> QED
    BY <2>1 DEF PartIs
<1>8. /\ IsSequence(j) /\ Len(j) = Len(p) + Len(q)
      /\ \A k \in 1 .. Len(p) : j[k] = p[k]
      /\ \A k \in 1 .. Len(p) + Len(q) : k > Len(p) => j[k] = q[k - Len(p)]
  BY <1>4, <1>5, <1>6, SequencesJoined
<1>9. ASSUME NEW k \in 1 .. Len(j) PROVE j[k] = v[k]
  <2>1. CASE k = 1
    <3>1. 1 \in 1 .. b - i + 1 /\ i + 1 - 1 = i
      OBVIOUS
    <3> QED
      BY <1>5, <1>7, <1>8, <2>1, <3>1
  <2>2. CASE k # 1
    <3>1. k - 1 \in 1 .. b - i /\ i + (k - 1) = i + k - 1 /\ k \in 1 .. b - i + 1 /\ k > 1
          /\ k \in 1 .. Len(p) + Len(q)
      BY <1>5, <1>6, <1>8, <2>2
    <3>2. j[k] = q[k - 1]
      BY <1>5, <1>8, <3>1
    <3>3. q[k - 1] = s[i + k - 1]
      BY <1>6, <3>1
    <3> QED
      BY <1>7, <3>1, <3>2, <3>3
  <2> QED
    BY <2>1, <2>2
<1>10. j = v
  <2>1. Len(j) = Len(v)
    BY <1>5, <1>6, <1>7, <1>8
  <2> QED
    BY <1>7, <1>8, <1>9, <2>1, SameElements
<1> QED
  BY <1>1, <1>2, <1>3, <1>4, <1>10, Zenon DEF Join

\* Up to a quote or the end, and without a backslash before, every character is
\* taken.
LEMMA StringTaken ==
  ASSUME NEW s, IsSequence(s), NEW f, StringLooped(f, s, 1), NEW q \in 1 .. Len(s) + 1,
         q <= Len(s) => s[q] = Quote,
         \A i \in 1 .. q - 1 : s[i] # Quote /\ s[i] # Backslash
  PROVE  f[1] = SubSeq(s, 1, q - 1)
<1>1. Len(s) \in Nat /\ DOMAIN s = 1 .. Len(s) /\ s \in Seq(ToSet(s))
  BY DEF IsSequence
<1>2. ASSUME NEW i \in 1 .. Len(s) + 2 PROVE f[i] = TakenFrom(s, f, i)
  BY Zenon DEF StringLooped
<1>3. PICK n \in Nat : n = q - 1
  BY <1>1
<1>4. PICK S : S = {m \in 0 .. n : f[q - m] = SubSeq(s, q - m, q - 1)}
  OBVIOUS
<1>5. 0 \in S
  <2>1. f[q] = <<>>
    <3>1. q \in 1 .. Len(s) + 2
      BY <1>1
    <3>2. q > Len(s) \/ CharAt(s, q) = Quote
      BY <1>1 DEF CharAt
    <3> QED
      BY <1>2, <3>1, <3>2, Zenon DEF TakenFrom
  <2>2. SubSeq(s, q, q - 1) = <<>>
    <3>1. PICK a, b : a = q /\ b = q - 1
      OBVIOUS
    <3>2. PICK v : v = SubSeq(s, a, b)
      OBVIOUS
    <3>3. a \in Nat \ {0} /\ b \in Int /\ b <= Len(s)
      BY <1>1, <3>1
    <3>4. PartIs(v, s, a, b)
      BY <3>2, <3>3, PartTaken
    <3>5. IsSequence(v) /\ Len(v) = 0
      BY <1>1, <3>1, <3>4 DEF PartIs
    <3>6. v = <<>>
      <4>1. v \in Seq(ToSet(v))
        BY <3>5 DEF IsSequence
      <4> QED
        BY <3>5, <4>1
    <3> QED
      BY <3>1, <3>2, <3>6
  <2>3. q - 0 = q /\ 0 \in 0 .. n
    BY <1>1
  <2>4. f[q - 0] = SubSeq(s, q - 0, q - 1)
    BY <2>1, <2>2, <2>3, Zenon
  <2> QED
    BY <1>4, <2>3, <2>4, Zenon
<1>6. ASSUME NEW m \in 0 .. n, m \in S, m < n PROVE m + 1 \in S
  <2>1. PICK i : i = q - (m + 1)
    OBVIOUS
  <2>2. i \in 1 .. q - 1 /\ q - m = i + 1 /\ i \in 1 .. Len(s) /\ i \in 1 .. Len(s) + 2
    BY <1>1, <1>3, <1>6, <2>1
  <2>3. f[i + 1] = SubSeq(s, i + 1, q - 1)
    BY <1>4, <1>6, <2>2
  <2>4. ~(i > Len(s)) /\ CharAt(s, i) = s[i] /\ s[i] # Quote /\ s[i] # Backslash
    BY <1>1, <2>2 DEF CharAt
  <2>5. f[i] = <<s[i]>> \o f[i + 1]
    BY <1>2, <2>2, <2>4, Zenon DEF TakenFrom
  <2>6. <<s[i]>> \o SubSeq(s, i + 1, q - 1) = SubSeq(s, i, q - 1)
    <3>1. i \in Nat \ {0} /\ q - 1 \in Int /\ i <= q - 1 /\ q - 1 <= Len(s)
      BY <1>1, <2>2
    <3> QED
      BY <3>1, OneMore
  <2>7. f[i] = SubSeq(s, i, q - 1)
    BY <2>3, <2>5, <2>6
  <2>8. m + 1 \in 0 .. n
    BY <1>6
  <2> QED
    BY <1>4, <2>1, <2>7, <2>8
<1>7. n \in S
  <2>1. \A m \in 0 .. n : m \in S /\ m < n => m + 1 \in S
    BY <1>6
  <2>2. \A m \in 0 .. n : m \in S
    BY <1>5, <2>1, UpTo, Zenon
  <2> QED
    BY <2>2
<1>8. q - n = 1
  BY <1>1, <1>3
<1> QED
  BY <1>4, <1>7, <1>8

\* The string of a word.
LEMMA StringOf ==
  ASSUME NEW w, NEW s, s = (IF Head(w) = Quote THEN Tail(w) ELSE w), IsSequence(s)
  PROVE  \E f : StringLooped(f, s, 1) /\ ParseString(w) = f[1]
<1>1. PICK f : f = CHOOSE g : StringLooped(g, s, 1)
  OBVIOUS
<1>2. Len(s) \in Nat
  BY DEF IsSequence
<1>3. StringLooped(f, s, 1)
  BY <1>1, <1>2, StringEnds, Zenon
<1>4. ParseString(w) = f[1]
  BY <1>1, Zenon DEF ParseString, Parsed, StringLooped, TakenFrom
<1> QED
  BY <1>3, <1>4

\* A word that begins with no special character is none of the other kinds.
LEMMA DigitsAreSpecial ==
  ASSUME NEW c, c \notin Special
  PROVE  /\ c # Quote /\ c # Apostrophe /\ c # "$"
         /\ c \notin {"-", "0", "1", "2", "3", "4", "5", "6", "7", "8", "9"}
<1>1. DOMAIN Digits = 1 .. 16
  BY DEF Digits
<1>2. /\ Digits[1] = "0" /\ Digits[2] = "1" /\ Digits[3] = "2" /\ Digits[4] = "3"
      /\ Digits[5] = "4" /\ Digits[6] = "5" /\ Digits[7] = "6" /\ Digits[8] = "7"
      /\ Digits[9] = "8" /\ Digits[10] = "9"
  BY DEF Digits
<1>3. {"0", "1", "2", "3", "4", "5", "6", "7", "8", "9"} \subseteq ToSet(Digits)
  <2>1. \A i \in 1 .. 10 : Digits[i] \in ToSet(Digits)
    BY <1>1 DEF ToSet
  <2>2. /\ Digits[1] \in ToSet(Digits) /\ Digits[2] \in ToSet(Digits) /\ Digits[3] \in ToSet(Digits)
        /\ Digits[4] \in ToSet(Digits) /\ Digits[5] \in ToSet(Digits) /\ Digits[6] \in ToSet(Digits)
        /\ Digits[7] \in ToSet(Digits) /\ Digits[8] \in ToSet(Digits) /\ Digits[9] \in ToSet(Digits)
        /\ Digits[10] \in ToSet(Digits)
    BY <2>1
  <2> QED
    BY <1>2, <2>2
<1>4. c \notin {Quote, Apostrophe, Backslash, "$", "-"} /\ c \notin ToSet(Digits)
  BY DEF Special
<1> QED
  BY <1>3, <1>4

\* A word without quotes or backslashes stands for itself.
LEMMA StringIsWord ==
  ASSUME NEW w, IsSequence(w), Len(w) > 0, Quote \notin ToSet(w), Backslash \notin ToSet(w)
  PROVE  ParseString(w) = w
<1>1. Len(w) \in Nat /\ 1 \in 1 .. Len(w)
  BY DEF IsSequence
<1>2. Head(w) = w[1] /\ w[1] # Quote
  BY <1>1, InIt
<1>3. w = IF Head(w) = Quote THEN Tail(w) ELSE w
  BY <1>2
<1>4. PICK f : StringLooped(f, w, 1) /\ ParseString(w) = f[1]
  BY <1>3, StringOf, Zenon
<1>5. PICK q : q = Len(w) + 1
  OBVIOUS
<1>6. q \in 1 .. Len(w) + 1 /\ ~(q <= Len(w)) /\ q - 1 = Len(w)
  BY <1>1, <1>5
<1>7. \A i \in 1 .. q - 1 : w[i] # Quote /\ w[i] # Backslash
  BY <1>6, InIt
<1>8. f[1] = SubSeq(w, 1, q - 1)
  BY <1>4, <1>6, <1>7, StringTaken
<1>9. SubSeq(w, 1, Len(w)) = w
  <2>1. PICK v : v = SubSeq(w, 1, Len(w))
    OBVIOUS
  <2>2. PICK m, n : m = 1 /\ n = Len(w)
    OBVIOUS
  <2>3. v = SubSeq(w, m, n) /\ m \in Nat \ {0} /\ n \in Int /\ n <= Len(w)
    BY <1>1, <2>1, <2>2
  <2>4. PartIs(v, w, m, n)
    BY <2>3, PartTaken
  <2>5. IsSequence(v) /\ Len(v) = Len(w) /\ \A i \in 1 .. Len(v) : v[i] = w[i]
    BY <1>1, <2>2, <2>4 DEF PartIs
  <2>6. v = w
    BY <2>5, SameElements
  <2> QED
    BY <2>1, <2>6
<1> QED
  BY <1>4, <1>6, <1>8, <1>9

\* And a quoted one stands for what it quotes.
LEMMA StringIsWithin ==
  ASSUME NEW w, IsSequence(w), Quoted(w), Backslash \notin ToSet(w)
  PROVE  ParseString(w) = Within(w)
<1>1. Len(w) > 1 /\ w[1] = Quote /\ w[Len(w)] = Quote /\ Quote \notin ToSet(Within(w))
  BY Zenon DEF Quoted, Last
<1>2. Len(w) \in Nat /\ Head(w) = w[1]
  BY DEF IsSequence
<1>3. PICK s : s = Tail(w)
  OBVIOUS
<1>4. IsSequence(s) /\ Len(s) = Len(w) - 1 /\ \A i \in 1 .. Len(w) - 1 : s[i] = w[i + 1]
  BY <1>1, <1>3, TailIs
<1>5. s = IF Head(w) = Quote THEN Tail(w) ELSE w
  BY <1>1, <1>2, <1>3
<1>6. PICK f : StringLooped(f, s, 1) /\ ParseString(w) = f[1]
  BY <1>4, <1>5, StringOf, Zenon
<1>7. PICK q : q = Len(s)
  OBVIOUS
<1>8. q \in 1 .. Len(s) + 1 /\ q \in 1 .. Len(w) - 1 /\ q + 1 = Len(w)
  BY <1>1, <1>2, <1>4, <1>7
<1>9. s[q] = Quote
  BY <1>1, <1>4, <1>8
<1>10. ASSUME NEW i \in 1 .. q - 1 PROVE s[i] # Quote /\ s[i] # Backslash
  <2>1. i \in 1 .. Len(w) - 2 /\ i \in 1 .. Len(w) - 1 /\ i + 1 \in 1 .. Len(w)
    BY <1>2, <1>8
  <2>2. s[i] = w[i + 1] /\ w[i + 1] \in ToSet(w)
    BY <1>4, <2>1, InIt
  <2>3. IsSequence(Within(w)) /\ i \in 1 .. Len(Within(w)) /\ Within(w)[i] = w[i + 1]
    BY <1>1, <2>1, WithinIs
  <2>4. Within(w)[i] \in ToSet(Within(w))
    BY <2>3, InIt
  <2> QED
    BY <1>1, <2>2, <2>3, <2>4
<1>11. f[1] = SubSeq(s, 1, q - 1)
  BY <1>4, <1>6, <1>8, <1>9, <1>10, StringTaken
<1>12. SubSeq(s, 1, q - 1) = Within(w)
  <2>1. Front(s) = Within(w)
    BY <1>1, <1>3, WithinIs
  <2> QED
    BY <1>7, <2>1 DEF Front
<1> QED
  BY <1>6, <1>11, <1>12

\* A function gets what a word plainly means.
LEMMA PlainlyParsed ==
  ASSUME NEW w, IsSequence(w), Len(w) > 0, NEW values
  PROVE  Plainly(w, values) \subseteq {ParsePara(w, values)}
<1>1. Len(w) \in Nat /\ 1 \in 1 .. Len(w) /\ Head(w) = w[1]
  BY DEF IsSequence
<1> DEFINE numeric == {"-", "0", "1", "2", "3", "4", "5", "6", "7", "8", "9"}
<1>2. CASE Quoted(w) /\ Backslash \notin ToSet(w)
  <2>1. w[1] = Quote
    BY <1>2, Zenon DEF Quoted
  <2>2. w[1] # Apostrophe /\ w[1] \notin numeric /\ w[1] # "$"
    BY <2>1 DEF Quote, Apostrophe
  <2>3. ParsePara(w, values) = [text |-> ParseString(w)]
    BY <1>1, <2>2, Zenon DEF ParsePara
  <2>4. ParseString(w) = Within(w)
    BY <1>2, StringIsWithin
  <2>5. Plainly(w, values) = {[text |-> Within(w)]}
    BY <1>2, Zenon DEF Plainly
  <2> QED
    BY <2>3, <2>4, <2>5
<1>3. CASE ~(Quoted(w) /\ Backslash \notin ToSet(w))
  <2>1. CASE Len(w) = 2 /\ w[1] = Apostrophe /\ w[2] # Backslash
    <3>1. ParsePara(w, values) = [char |-> ParseChar(w)]
      <4>1. Head(w) = Apostrophe /\ Len(w) > 1
        BY <1>1, <2>1
      <4> QED
        BY <4>1, Zenon DEF ParsePara
    <3>2. PICK t : t = Tail(w)
      OBVIOUS
    <3>3. IsSequence(t) /\ Len(t) = 1 /\ t[1] = w[2]
      BY <2>1, <3>2, TailIs
    <3>4. CharAt(t, 1) = w[2]
      BY <3>3 DEF CharAt, IsSequence
    <3>5. ParseChar(w) = w[2]
      BY <1>1, <2>1, <3>2, <3>4, Zenon DEF ParseChar
    <3>6. Plainly(w, values) = {[char |-> w[2]]}
      BY <1>3, <2>1, Zenon DEF Plainly
    <3> QED
      BY <3>1, <3>5, <3>6
  <2>2. CASE /\ ~(Len(w) = 2 /\ w[1] = Apostrophe /\ w[2] # Backslash)
             /\ w[1] = "$" /\ Len(w) > 1 /\ Tail(w) \in DOMAIN values
    <3>1. w[1] # Apostrophe /\ w[1] \notin numeric
      BY <2>2 DEF Apostrophe
    <3>2. ParsePara(w, values) = [int |-> values[Tail(w)]]
      BY <1>1, <2>2, <3>1, Zenon DEF ParsePara
    <3>3. Plainly(w, values) = {[int |-> values[Tail(w)]]}
      BY <1>3, <2>2, Zenon DEF Plainly
    <3> QED
      BY <3>2, <3>3
  <2>3. CASE /\ ~(Len(w) = 2 /\ w[1] = Apostrophe /\ w[2] # Backslash)
             /\ ~(w[1] = "$" /\ Len(w) > 1 /\ Tail(w) \in DOMAIN values)
             /\ w[1] \notin Special /\ ToSet(w) \cap {Quote, Backslash} = {}
    <3>1. w[1] # Apostrophe /\ w[1] \notin numeric /\ w[1] # "$"
      BY <2>3, DigitsAreSpecial
    <3>2. ParsePara(w, values) = [text |-> ParseString(w)]
      BY <1>1, <3>1, Zenon DEF ParsePara
    <3>3. Quote \notin ToSet(w) /\ Backslash \notin ToSet(w)
      BY <2>3
    <3>4. ParseString(w) = w
      BY <3>3, StringIsWord
    <3>5. Plainly(w, values) = {[text |-> w]}
      BY <1>3, <2>3, Zenon DEF Plainly
    <3> QED
      BY <3>2, <3>4, <3>5
  <2>4. CASE /\ ~(Len(w) = 2 /\ w[1] = Apostrophe /\ w[2] # Backslash)
             /\ ~(w[1] = "$" /\ Len(w) > 1 /\ Tail(w) \in DOMAIN values)
             /\ ~(w[1] \notin Special /\ ToSet(w) \cap {Quote, Backslash} = {})
    <3>1. Plainly(w, values) = {}
      BY <1>3, <2>4, Zenon DEF Plainly
    <3> QED
      BY <3>1
  <2> QED
    BY <2>1, <2>2, <2>3, <2>4
<1> QED
  BY <1>2, <1>3
-----------------------------------------------------------------------------
(* The command a line calls. *)

\* What is known of a command that is called.
RanRight(r) ==
  r.called =>
    LET words == Words(r.line)
    IN /\ IsSequence(r.line) /\ Len(words) > 0
       /\ r.command \in DOMAIN Commands
       /\ Commands[r.command].name = words[1]
       /\ Commands[r.command].type = "main" =>
            r.args = [k \in DOMAIN words |-> RemoveParamQuotes(words[k])]
       /\ Commands[r.command].type = "func" =>
            r.args = ExtRun(Commands[r.command].paramNum, words, r.values).args

RanInv == session \in DOMAIN Sessions /\ RanRight(ran)

\* It has the name.
LEMMA FoundByName ==
  ASSUME session \in DOMAIN Sessions, NEW name, Seek(name) # 0
  PROVE  Seek(name) \in DOMAIN Commands /\ Commands[Seek(name)].name = name
<1>1. PICK found : found = {i \in DOMAIN Commands : Named(i) /\ Commands[i].name = name}
  OBVIOUS
<1>2. Seek(name) = IF found = {} THEN 0 ELSE Min(found)
  BY <1>1 DEF Seek
<1>3. DOMAIN Commands = 1 .. Len(Commands) /\ Len(Commands) \in Nat
  BY SessionRight
<1>4. found # {} /\ found \subseteq Nat
  BY <1>1, <1>2, <1>3
<1>5. Min(found) \in found
  BY <1>4, Least
<1> QED
  BY <1>1, <1>2, <1>4, <1>5

\* Every command that a line calls is called right.
LEMMA RunRight ==
  ASSUME session \in DOMAIN Sessions, NEW l, IsSequence(l)
  PROVE  RanRight(Run(l)) /\ RanRight(NoRun)
<1>1. RanRight(NoRun)
  BY DEF RanRight, NoRun
<1>2. PICK words : words = Words(l)
  OBVIOUS
<1>3. Split(l) = words /\ Len(words) \in Nat /\ DOMAIN words = 1 .. Len(words)
  BY <1>2, WordsAre
<1>4. PICK i : i = Seek(words[1])
  OBVIOUS
<1>5. CASE words = <<>> \/ i = 0 \/ Commands[i].type \notin CommandTypes
  <2>1. Run(l) = NoRun
    BY <1>3, <1>4, <1>5, Zenon DEF Run
  <2> QED
    BY <1>1, <2>1
<1>6. CASE words # <<>> /\ i # 0 /\ Commands[i].type \in CommandTypes
  <2>1. PICK r : r = [line |-> l, command |-> i, values |-> Values,
                      called |-> Arguments(i, words).called, args |-> Arguments(i, words).args]
    OBVIOUS
  <2>2. Run(l) = r
    BY <1>3, <1>4, <1>6, <2>1, Zenon DEF Run
  <2>3. r.line = l /\ r.command = i /\ r.values = Values /\ r.args = Arguments(i, words).args
    BY <2>1
  <2>4. i \in DOMAIN Commands /\ Commands[i].name = words[1]
    BY <1>4, <1>6, FoundByName
  <2>5. Len(words) > 0
    <3>1. words \in Seq(ToSet(words))
      <4>1. words = Split(l) /\ words = [k \in DOMAIN words |-> words[k]]
        BY <1>3, Zenon DEF Split
      <4> QED
        BY <1>3, <4>1 DEF ToSet
    <3> QED
      BY <1>3, <1>6, <3>1
  <2>6. Commands[i].type = "main" =>
          r.args = [k \in DOMAIN words |-> RemoveParamQuotes(words[k])]
    BY <2>3 DEF Arguments
  <2>7. Commands[i].type = "func" =>
          r.args = ExtRun(Commands[i].paramNum, words, r.values).args
    BY <2>3 DEF Arguments
  <2>8. RanRight(r)
    BY <1>2, <2>3, <2>4, <2>5, <2>6, <2>7, Zenon DEF RanRight
  <2> QED
    BY <1>1, <2>2, <2>8
<1> QED
  BY <1>5, <1>6

\* Nothing else touches the last command.
LEMMA RanStays ==
  ASSUME ShellInv, RanInv, [ShellNext]_shellVars
  PROVE  RanInv'
<1>1. session' = session
  BY DEF ShellNext, ShellHandler, WriteEndLine, KeyByte, ShellRight, ShellLeft, ShellBackspace,
         ShellDelete, ShellUp, ShellDown, ShellTab, EnterNothing, EnterLine, NormalInput, Moves,
         Handles, KeyStep, RedrawBegin, RedrawText, RedrawNothing, RedrawPrompt, RedrawLine,
         RedrawBack, Redraws, shellVars, private
<1>2. ran' \in {ran, NoRun, Run(line)}
  BY DEF ShellNext, ShellHandler, WriteEndLine, KeyByte, ShellRight, ShellLeft, ShellBackspace,
         ShellDelete, ShellUp, ShellDown, ShellTab, EnterNothing, EnterLine, NormalInput, Moves,
         Handles, KeyStep, RedrawBegin, RedrawText, RedrawNothing, RedrawPrompt, RedrawLine,
         RedrawBack, Redraws, shellVars, private
<1>3. session \in DOMAIN Sessions /\ IsSequence(line)
  BY Known
<1>4. RanRight(ran')
  BY <1>2, <1>3, RunRight DEF RanInv
<1>5. RanRight(ran)'
  BY <1>1, <1>4 DEF RanRight, Commands, Session
<1> QED
  BY <1>1, <1>3, <1>5 DEF RanInv

\* The arguments of a function, as many as there are words or parameters.
Given(args, p, words, values) ==
  /\ Len(args) = Max({p, Len(words) - 1}) /\ DOMAIN args = 1 .. Len(args)
  /\ \A k \in DOMAIN args :
       args[k] = IF k <= Len(words) - 1 THEN ParsePara(words[k + 1], values) ELSE [int |-> 0]

\* They are what shellExtRun makes of the words.
LEMMA ExtArguments ==
  ASSUME NEW p \in Nat, NEW words, Len(words) \in Nat, Len(words) > 0, NEW values,
         NEW args, args = ExtRun(p, words, values).args
  PROVE  Given(args, p, words, values)
<1> DEFINE given == Len(words) - 1
           count == Max({p, given})
           inner == [i \in 1 .. given |-> ParsePara(words[i + 1], values)]
<1>1. args = [i \in 1 .. count |-> IF i <= given THEN inner[i] ELSE [int |-> 0]]
  BY DEF ExtRun
<1>2. given \in Nat
  OBVIOUS
<1>3. count \in Nat
  <2>1. PICK b \in Nat : b >= p /\ b >= given
    <3>1. p + given \in Nat /\ p + given >= p /\ p + given >= given
      BY <1>2
    <3> QED
      BY <3>1
  <2>2. {p, given} \subseteq 0 .. b /\ {p, given} # {}
    BY <1>2, <2>1
  <2>3. count \in {p, given}
    BY <2>2, Greatest
  <2> QED
    BY <1>2, <2>3
<1> HIDE DEF given, count
<1>4. DOMAIN args = 1 .. count
  BY <1>1
<1>5. Len(args) = count
  <2>1. args = [i \in 1 .. count |-> args[i]]
    BY <1>1, Zenon
  <2>2. args \in Seq(ToSet(args))
    BY <1>3, <1>4, <2>1 DEF ToSet
  <2> QED
    BY <1>3, <1>4, <2>2
<1>6. ASSUME NEW k \in 1 .. count
      PROVE  args[k] = IF k <= given THEN ParsePara(words[k + 1], values) ELSE [int |-> 0]
  <2>1. CASE k <= given
    <3>1. k \in 1 .. given
      BY <1>2, <1>3, <2>1
    <3>2. inner[k] = ParsePara(words[k + 1], values)
      BY <3>1
    <3> QED
      BY <1>1, <2>1, <3>2
  <2>2. CASE ~(k <= given)
    BY <1>1, <2>2
  <2> QED
    BY <2>1, <2>2
<1> QED
  BY <1>4, <1>5, <1>6 DEF Given, given, count

\* No command was called yet, and each that is called later is called right.
LEMMA RanHolds == ShellSpec => []RanInv
<1>1. ShellInit => RanInv
  <2> SUFFICES ASSUME ShellInit PROVE RanInv
    OBVIOUS
  <2>1. session \in DOMAIN Sessions /\ ran = NoRun
    BY DEF ShellInit
  <2>2. RanRight(NoRun)
    BY DEF RanRight, NoRun
  <2> QED
    BY <2>1, <2>2 DEF RanInv
<1>2. ShellInv /\ RanInv /\ [ShellNext]_shellVars => RanInv'
  BY RanStays
<1> QED
  BY <1>1, <1>2, ShellInvariant, PTL DEF ShellSpec

\* What a main function is called with: its words without quotes around them.
LEMMA MainWords ==
  ASSUME RanInv, ran.called, Commands[ran.command].type = "main"
  PROVE  LET words == Words(ran.line)
         IN /\ Len(ran.args) = Len(words)
            /\ \A k \in DOMAIN words : Unquoted(words[k]) \subseteq {ran.args[k]}
<1>1. PICK words : words = Words(ran.line)
  OBVIOUS
<1>2. IsSequence(ran.line) /\ ran.args = [k \in DOMAIN words |-> RemoveParamQuotes(words[k])]
  BY <1>1 DEF RanInv, RanRight
<1>3. /\ Len(words) \in Nat /\ DOMAIN words = 1 .. Len(words)
      /\ \A k \in 1 .. Len(words) : IsSequence(words[k]) /\ Len(words[k]) > 0
  BY <1>1, <1>2, WordsAre
<1>4. Len(ran.args) = Len(words)
  <2>1. PICK args : args = ran.args
    OBVIOUS
  <2>2. DOMAIN args = 1 .. Len(words) /\ args = [k \in 1 .. Len(words) |-> args[k]]
    BY <1>2, <1>3, <2>1
  <2>3. args \in Seq(ToSet(args))
    BY <1>3, <2>2 DEF ToSet
  <2> QED
    BY <1>3, <2>1, <2>2, <2>3
<1>5. \A k \in DOMAIN words : ran.args[k] = RemoveParamQuotes(words[k])
  BY <1>2
<1>6. \A k \in DOMAIN words : Unquoted(words[k]) \subseteq {ran.args[k]}
  BY <1>3, <1>5, QuotesRemoved
<1> QED
  BY <1>1, <1>4, <1>6

\* Of a function: as many as it has parameters or the line words, and each what
\* its word plainly means.
LEMMA FunctionWords ==
  ASSUME RanInv, ran.called, Commands[ran.command].type = "func"
  PROVE  LET words == Words(ran.line)
         IN /\ Len(ran.args) = Max({Commands[ran.command].paramNum, Len(words) - 1})
            /\ \A k \in DOMAIN ran.args :
                 (IF k < Len(words) THEN Plainly(words[k + 1], ran.values) ELSE {[int |-> 0]})
                   \subseteq {ran.args[k]}
<1>1. PICK words : words = Words(ran.line)
  OBVIOUS
<1>2. PICK p : p = Commands[ran.command].paramNum
  OBVIOUS
<1>3. PICK args : args = ran.args
  OBVIOUS
<1>4. PICK values : values = ran.values
  OBVIOUS
<1>5. /\ IsSequence(ran.line) /\ Len(words) > 0 /\ ran.command \in DOMAIN Commands
      /\ args = ExtRun(p, words, values).args
  BY <1>1, <1>2, <1>3, <1>4 DEF RanInv, RanRight
<1>6. p \in Nat
  <2>1. session \in DOMAIN Sessions
    BY DEF RanInv
  <2> QED
    BY <1>2, <1>5, <2>1, ShellAssumption DEF Commands, Session
<1>7. /\ Len(words) \in Nat /\ DOMAIN words = 1 .. Len(words)
      /\ \A k \in 1 .. Len(words) : IsSequence(words[k]) /\ Len(words[k]) > 0
  BY <1>1, <1>5, WordsAre
<1>8. Given(args, p, words, values)
  <2>1. p \in Nat /\ Len(words) \in Nat /\ Len(words) > 0 /\ args = ExtRun(p, words, values).args
    BY <1>5, <1>6, <1>7
  <2> QED
    BY <2>1, ExtArguments, Zenon
<1>9. ASSUME NEW k \in DOMAIN args
      PROVE  (IF k < Len(words) THEN Plainly(words[k + 1], values) ELSE {[int |-> 0]})
               \subseteq {args[k]}
  <2>0. k \in Nat /\ k >= 1
    BY <1>8 DEF Given
  <2>1. CASE k < Len(words)
    <3>1. k + 1 \in 1 .. Len(words) /\ k <= Len(words) - 1
      BY <1>7, <2>0, <2>1
    <3>2. args[k] = ParsePara(words[k + 1], values)
      BY <1>8, <3>1 DEF Given
    <3>3. Plainly(words[k + 1], values) \subseteq {ParsePara(words[k + 1], values)}
      BY <1>7, <3>1, PlainlyParsed
    <3> QED
      BY <2>1, <3>2, <3>3
  <2>2. CASE ~(k < Len(words))
    <3>1. ~(k <= Len(words) - 1)
      BY <1>7, <2>0, <2>2
    <3>2. args[k] = [int |-> 0]
      BY <1>8, <3>1 DEF Given
    <3> QED
      BY <2>2, <3>2
  <2> QED
    BY <2>1, <2>2
<1> QED
  BY <1>1, <1>2, <1>3, <1>4, <1>8, <1>9 DEF Given

\* However a line was typed, edited, completed or recalled, the command it calls
\* is the one its first word names, with as many arguments as the line has words
\* or the signature parameters: a main function's are the words themselves,
\* parted as the definition without the loop of shellSplit parts them, and a
\* function's are what its words plainly mean, with the values the variables had
\* when the line was entered, and zero beyond them.
THEOREM CommandsGetTheirArguments == ShellSpec => []ArgumentsRight
<1>1. RanInv => WordsRight
  <2> SUFFICES ASSUME RanInv, ran.called PROVE WordsRight
    BY DEF WordsRight
  <2>1. Commands[ran.command].name = Words(ran.line)[1]
    BY DEF RanInv, RanRight
  <2> QED
    BY <2>1, MainWords, FunctionWords, Zenon DEF WordsRight
<1>2. RanInv => MeaningsRight
  BY FunctionWords, Zenon DEF MeaningsRight
<1>3. RanInv => ArgumentsRight
  BY <1>1, <1>2 DEF ArgumentsRight
<1> QED
  BY <1>3, RanHolds, PTL
=============================================================================
