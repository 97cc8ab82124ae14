----------------------------- MODULE ShellSyntax -----------------------------
(***************************************************************************)
(* What the words of a line, and the arguments they stand for, ought to    *)
(* be, without the loops of ShellArgs: a reference to compare them with.   *)
(***************************************************************************)
EXTENDS ShellArgs

\* How many backslashes are right before i.
Backslashes(l, i) ==
  Max({0} \cup {n \in 1 .. i - 1 : \A j \in i - n .. i - 1 : l[j] = Backslash})

Escaped(l, i) == Backslashes(l, i) % 2 = 1

Quotes(l, i) == {j \in 1 .. i - 1 : l[j] = Quote /\ ~Escaped(l, j)}

\* A space parts words unless it is escaped or quoted.
Parts(l, i) == l[i] = " " /\ ~Escaped(l, i) /\ Cardinality(Quotes(l, i)) % 2 = 0

\* Where words begin: the first character, and those behind a space that parts.
Begins(l) == {i \in 1 .. Len(l) : ~Parts(l, i) /\ (i > 1 => Parts(l, i - 1))}

\* Where the k-th does, and where the one that begins at i is over.
Begin(l, k) == CHOOSE i \in Begins(l) : Cardinality({j \in Begins(l) : j < i}) = k - 1
EndOf(l, i) == Min({j \in i + 1 .. Len(l) : Parts(l, j)} \cup {Len(l) + 1})

Words(l) ==
  [k \in 1 .. Min({Cardinality(Begins(l)), ParamMax}) |->
     SubSeq(l, Begin(l, k), EndOf(l, Begin(l, k)) - 1)]
-----------------------------------------------------------------------------
\* A word whose only quotes are around it, and what it quotes.
Within(w) == SubSeq(w, 2, Len(w) - 1)
Quoted(w) ==
  Len(w) > 1 /\ w[1] = Quote /\ Last(w) = Quote /\ Quote \notin ToSet(Within(w))

InRadix(digits, radix) ==
  digits # <<>> /\ ToSet(digits) \subseteq {Digits[i] : i \in 1 .. radix}

Weight(digits, radix) ==
  MapThenSumSet(LAMBDA k : (Min(Places(Digits, digits[k])) - 1) * radix ^ (Len(digits) - k),
                DOMAIN digits)

Behind(w, n) == SubSeq(w, n + 1, Len(w))
Without(w, c) == SelectSeq(w, LAMBDA d : d # c)

\* The arguments an unsigned number means: none if it is no number, and the
\* fraction if it is a decimal one.
Meaning(u) ==
  CASE IsPrefix(<<"0", "x">>, u) /\ InRadix(Behind(u, 2), 16) -> {[int |-> Weight(Behind(u, 2), 16)]}
    [] IsPrefix(<<"0", "b">>, u) /\ InRadix(Behind(u, 2), 2) -> {[int |-> Weight(Behind(u, 2), 2)]}
    [] IsPrefix(<<"0">>, u) /\ InRadix(u, 8) -> {[int |-> Weight(u, 8)]}
    [] ~IsPrefix(<<"0">>, u) /\ InRadix(u, 10) -> {[int |-> Weight(u, 10)]}
    [] /\ Cardinality(Places(u, ".")) = 1
       /\ InRadix(Without(u, "."), 10)
       /\ Places(u, ".") \cap {1, Len(u)} = {} ->
         {[over |-> 10 ^ (Len(u) - Max(Places(u, "."))), float |-> Weight(Without(u, "."), 10)]}
    [] OTHER -> {}

Signed(sign, m) ==
  IF "int" \in DOMAIN m THEN [int |-> (sign * m.int) % Word]
  ELSE [m EXCEPT !.float = sign * (@ % Word)]

Number(w) ==
  IF w[1] = "-" THEN {Signed(-1, m) : m \in Meaning(Tail(w))}
  ELSE {Signed(1, m) : m \in Meaning(w)}

Special == {Quote, Apostrophe, Backslash, "$", "-"} \cup ToSet(Digits)

\* The argument of a function that a word means, if it has a plain meaning and is
\* no number: a quoted text, a character, a variable, or itself.
Plainly(w, values) ==
  IF Quoted(w) /\ Backslash \notin ToSet(w) THEN {[text |-> Within(w)]}
  ELSE IF Len(w) = 2 /\ w[1] = Apostrophe /\ w[2] # Backslash THEN {[char |-> w[2]]}
  ELSE IF w[1] = "$" /\ Len(w) > 1 /\ Tail(w) \in DOMAIN values THEN {[int |-> values[Tail(w)]]}
  ELSE IF w[1] \notin Special /\ ToSet(w) \cap {Quote, Backslash} = {} THEN {[text |-> w]}
  ELSE {}

\* The word a main function is given.
Unquoted(w) ==
  IF Quoted(w) THEN {Within(w)} ELSE IF Quote \notin ToSet(w) THEN {w} ELSE {}
=============================================================================
