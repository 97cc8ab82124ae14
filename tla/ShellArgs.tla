------------------------------ MODULE ShellArgs ------------------------------
(***************************************************************************)
(* What the shell makes of a line: words, and arguments of a command       *)
(* (shellSplit, shellRemoveParamQuotes, shell_ext.c), without function     *)
(* signatures and array parameters, which the configuration turns off.     *)
(*                                                                         *)
(* A line is a sequence of characters and Nul is what follows it.  A text  *)
(* that ends in a backslash makes shellExtParseString read and write on    *)
(* behind the line: RunsOn says which lines do, Shell what it destroys.    *)
(***************************************************************************)
EXTENDS Integers, Sequences, SequencesExt, FiniteSetsExt

CONSTANTS
  ParamMax,  \* SHELL_PARAMETER_MAX_NUMBER
  Word       \* size_t is 0 .. Word - 1

ASSUME ArgsAssumption == ParamMax \in Nat \ {0} /\ Word \in Nat \ {0}

Quote == "\""
Apostrophe == "'"
Backslash == "\\"
Nul == "nul"
CharAt(s, i) == IF i \in DOMAIN s THEN s[i] ELSE Nul
-----------------------------------------------------------------------------
(* shellSplit, for the one pair of quotes and the space as separator. *)

NoWords == [starts |-> <<>>, ends |-> {}, record |-> TRUE, quoted |-> FALSE, skip |-> FALSE]

Opens(s, c) == ~s.quoted /\ c # " " /\ s.record /\ Len(s.starts) < ParamMax

\* Mutant of Closes: a space ends a word between quotes too.
ClosesInQuotes(s, c) == c = " " /\ ~s.record

Closes(s, c) == ~s.quoted /\ c = " " /\ ~s.record

\* One character of the loop; an escaped one is passed over.
SplitAt(s, line, i) ==
  LET c == line[i] IN
  IF s.skip THEN [s EXCEPT !.skip = FALSE]
  ELSE IF Closes(s, c)
  THEN [s EXCEPT !.ends = @ \cup {i}, !.record = CharAt(line, i + 1) # " "]
  ELSE [s EXCEPT !.starts = IF Opens(s, c) THEN Append(@, i) ELSE @,
                 !.record = IF Opens(s, c) THEN FALSE ELSE @,
                 !.quoted = IF c = Quote THEN ~@ ELSE @,
                 !.skip = (c = Backslash /\ i < Len(line))]

\* After every character.
Splitting(line) ==
  LET state[i \in 0 .. Len(line)] ==
        IF i = 0 THEN NoWords ELSE SplitAt(state[i - 1], line, i)
  IN state

\* The words, each up to the first zero behind it.
Split(line) ==
  LET done == Splitting(line)[Len(line)]
      End(k) == Min({e \in done.ends : e > done.starts[k]} \cup {Len(line) + 1})
  IN [k \in DOMAIN done.starts |-> SubSeq(line, done.starts[k], End(k) - 1)]

RemoveParamQuotes(w) ==
  LET v == IF Head(w) = Quote THEN Tail(w) ELSE w
  IN IF v # <<>> /\ Last(v) = Quote THEN Front(v) ELSE v
-----------------------------------------------------------------------------
(* Numbers: shellExtNumType, shellExtToNum, shellExtParseNumber. *)

Sign(w) == IF Head(w) = "-" THEN -1 ELSE 1

\* The point of a float is looked for behind the first character only.
NumType(w) ==
  IF \E i \in 2 .. Len(w) - 1 : w[i] = "." THEN "float"
  ELSE IF CharAt(w, 1) # "0" THEN "dec"
  ELSE IF CharAt(w, 2) \in {"x", "X"} THEN "hex"
  ELSE IF CharAt(w, 2) \in {"b", "B"} THEN "bin"
  ELSE "oct"

\* Mutant of Radix: a leading zero makes no octal number.
RadixDecimal == [dec |-> 10, float |-> 10, hex |-> 16, bin |-> 2, oct |-> 10]

Radix == [dec |-> 10, float |-> 10, hex |-> 16, bin |-> 2, oct |-> 8]
Prefix == [dec |-> 0, float |-> 0, hex |-> 2, bin |-> 2, oct |-> 1]

Digits == <<"0", "1", "2", "3", "4", "5", "6", "7", "8", "9", "a", "b", "c", "d", "e", "f">>
Capitals == <<"A", "B", "C", "D", "E", "F">>
Places(s, c) == {i \in DOMAIN s : s[i] = c}

\* Anything else counts as zero.
ToNum(c) == Max({0} \cup {i - 1 : i \in Places(Digits, c)} \cup {i + 9 : i \in Places(Capitals, c)})

\* The digits in their radix, points left out.
Value(digits, radix) ==
  LET v[i \in 0 .. Len(digits)] ==
        IF i = 0 THEN 0
        ELSE IF digits[i] = "." THEN v[i - 1]
        ELSE (v[i - 1] * radix + ToNum(digits[i])) % Word
  IN v[Len(digits)]

\* A float is a fraction here; its denominator starts again at each point.
ParseNumber(w) ==
  LET unsigned == IF Sign(w) = -1 THEN Tail(w) ELSE w
      type == NumType(unsigned)
      digits == SubSeq(unsigned, Prefix[type] + 1, Len(unsigned))
      value == Value(digits, Radix[type])
  IN IF type = "float"
     THEN [over |-> 10 ^ (Len(digits) - Max(Places(digits, "."))), float |-> Sign(w) * value]
     ELSE [int |-> (Sign(w) * value) % Word]
-----------------------------------------------------------------------------
(* Characters and strings: shellExtParseChar, shellExtParseString. *)

Controls == [b |-> "BS", r |-> "CR", n |-> "LF", t |-> "TAB"]

Escape(c) ==
  IF c = "0" THEN Nul ELSE IF c \in DOMAIN Controls THEN Controls[c] ELSE c

ParseChar(w) ==
  LET p == IF Head(w) = Apostrophe THEN Tail(w) ELSE w
  IN IF CharAt(p, 1) = Backslash THEN Escape(CharAt(p, 2)) ELSE CharAt(p, 1)

\* What the loop leaves of a text, up to the first zero it has written: for a
\* quote, for an escaped zero, for a backslash at the end.
Parsed(s) ==
  LET from[i \in 1 .. Len(s) + 2] ==
        IF i > Len(s) \/ CharAt(s, i) = Quote THEN <<>>
        ELSE IF s[i] # Backslash THEN <<s[i]>> \o from[i + 1]
        ELSE LET c == Escape(CharAt(s, i + 1))
             IN IF c = Nul THEN <<>> ELSE <<c>> \o from[i + 2]
  IN from[1]

ParseString(w) == Parsed(IF Head(w) = Quote THEN Tail(w) ELSE w)

\* The loop takes the zero behind a last backslash for an escaped character, and
\* goes on behind it.
EndsOpen(s) ==
  Max({n \in 0 .. Len(s) : \A i \in Len(s) - n + 1 .. Len(s) : s[i] = Backslash}) % 2 = 1
-----------------------------------------------------------------------------
(* Arguments: shellExtParsePara and shellExtRun.  vars gives the variables *)
(* their values.                                                           *)

Failed == [failed |-> TRUE]

ParsePara(w, vars) ==
  IF Head(w) = Apostrophe /\ Len(w) > 1 THEN [char |-> ParseChar(w)]
  ELSE IF Head(w) \in {"-", "0", "1", "2", "3", "4", "5", "6", "7", "8", "9"} THEN ParseNumber(w)
  ELSE IF Head(w) = "$" /\ Len(w) > 1
  THEN IF Tail(w) \in DOMAIN vars THEN [int |-> vars[Tail(w)]] ELSE Failed
  ELSE [text |-> ParseString(w)]

\* Of the words only the last can end so.  Its turn comes if the others can be
\* parsed, whether or not the function is called then.
RunsOn(words, vars) ==
  /\ Len(words) > 1
  /\ \A i \in 2 .. Len(words) : ParsePara(words[i], vars) # Failed
  /\ "text" \in DOMAIN ParsePara(Last(words), vars)
  /\ EndsOpen(Last(words))

\* Whether a function is called, and the arguments: those the line leaves out
\* are zero.  It is not called when one cannot be parsed.
ExtRun(paramNum, words, vars) ==
  LET given == Len(words) - 1
      args == [i \in 1 .. given |-> ParsePara(words[i + 1], vars)]
      count == Max({paramNum, given})
  IN [called |-> Failed \notin {args[i] : i \in 1 .. given} /\ count < ParamMax,
      args |-> [i \in 1 .. count |-> IF i <= given THEN args[i] ELSE [int |-> 0]]]
=============================================================================
