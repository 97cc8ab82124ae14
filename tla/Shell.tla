-------------------------------- MODULE Shell --------------------------------
(***************************************************************************)
(* The shell on the console (letter_shell's shell.c as configured by       *)
(* agcore_shell_cfg_user.h, agcore_console_shell.c): the line editor, the  *)
(* history, completion and the commands, and the log that is written       *)
(* around the line being edited, by another task and without a lock.       *)
(*                                                                         *)
(* A key's handler is the list of its writes to the console, each of which *)
(* is whole, and of its changes of what the other task reads; the rest of  *)
(* what it changes is private and changed at once.  line and cursor change *)
(* together.  A text ends in a newline.  The user sends whole keys, is not *)
(* asked for a password and has every permission.                          *)
(***************************************************************************)
EXTENDS ShellSyntax

CONSTANTS
  H,         \* SHELL_HISTORY_MAX_NUMBER
  Tables,    \* command tables, sequences of records
  Sessions,  \* a sequence: a table, a size of the buffer, and what the user does
  Columns    \* of the console, behind the prompt

IsSequence(s) == s \in Seq(ToSet(s))

ASSUME ShellAssumption ==
  /\ H \in Nat \ {0}
  /\ Columns \in Nat
  /\ \A n \in DOMAIN Sessions : LET s == Sessions[n] IN
       /\ s.size \in 2 .. Columns
       /\ s.submits \in Nat
       /\ IsSequence(s.typed) /\ Len(s.typed) < s.size
       /\ LET commands == Tables[s.table] IN
          /\ IsSequence(commands)
          /\ \A i, j \in DOMAIN commands :
               commands[i].type = "key" /\ commands[j].type # "key" =>
                 Head(commands[i].name) # Head(commands[j].name)
          /\ \A i \in DOMAIN commands :
               /\ IsSequence(commands[i].name) /\ Len(commands[i].name) < s.size
               /\ commands[i].type \in {"main", "func", "var", "user", "key"}
               /\ commands[i].type = "func" => commands[i].paramNum \in Nat
               /\ commands[i].type \in {"main", "func"} =>
                    commands[i].does \in
                      {"help", "users", "cmds", "vars", "keys", "setVar", "clear", "app"}

VARIABLES
  session,   \* which session it is
  submits,   \* bound: lines still to be entered; then none is typed
  keyValue,  \* parser.keyValue, the bytes of a key so far
  line,      \* parser.buffer and length
  cursor,    \* parser.cursor
  item,      \* history.item
  record, number, offset,  \* history.record and so on
  tabFlag,   \* status.tabFlag
  active,    \* status.isActive
  vars,      \* the values of the variables
  todo,      \* what is left of the handler of the key
  redraw,    \* where shellWriteEndLine is
  behind,    \* how many columns its cursor has still to go back
  screen,    \* external: the last row of the console
  recent,    \* history: the lines entered since the last that overran, the last one first
  overrun,   \* history: a line has overrun
  recalled,  \* history: the line is one of them
  ran        \* history: the last command, its line, the variables and its arguments

Session == Sessions[session]
history == <<item, record, number, offset, tabFlag, recent, overrun, recalled>>
private == <<session, submits, keyValue, history, vars, ran>>
shellVars == <<private, line, cursor, active, todo, redraw, behind, screen>>
-----------------------------------------------------------------------------
(* The console: what a write does to its last row. *)

Put(text) == [put |-> text]
Back == [back |-> 1]
Erase == [erase |-> 1]  \* back, a blank, and back
Text == [text |-> 1]    \* lines, or a cleared line or console: the row is new
Prompt == [prompt |-> 1]

Blank == [i \in 1 .. Columns |-> " "]
Nothing == [nothing |-> 1]

NewRow == [row |-> Blank, col |-> 0, prompted |-> FALSE]
Garbled == [garbled |-> TRUE]

\* A line as the row shows it.
Shown(text) == [i \in 1 .. Columns |-> IF i <= Len(text) THEN text[i] ELSE " "]

Overwrite(s, text) ==
  IF s.col + Len(text) > Columns THEN Garbled
  ELSE [s EXCEPT !.row = [i \in 1 .. Columns |->
                            IF i \in s.col + 1 .. s.col + Len(text) THEN text[i - s.col] ELSE @[i]],
                 !.col = @ + Len(text)]

Written(s, write) ==
  IF write = Text THEN NewRow
  ELSE IF s = Garbled THEN Garbled
  ELSE IF write = Prompt THEN IF s = NewRow THEN [s EXCEPT !.prompted = TRUE] ELSE Garbled
  ELSE IF write = Back THEN IF s.col = 0 THEN Garbled ELSE [s EXCEPT !.col = @ - 1]
  ELSE IF write = Erase
  THEN IF s.col = 0 THEN Garbled ELSE [s EXCEPT !.col = @ - 1, !.row[s.col] = " "]
  ELSE Overwrite(s, write.put)

\* The other changes of a handler, in their place among its writes.
Edit(text, at) == [line |-> text, cursor |-> at]
Active(value) == [active |-> value]
Lost == [lost |-> 1]  \* history: the console's cursor is not where it should be

Repeat(write, n) == [i \in 1 .. n |-> write]
Each(text) == [i \in 1 .. Len(text) |-> Put(<<text[i]>>)]
-----------------------------------------------------------------------------
(* Parts of the handlers, for a line l with the cursor at c. *)

\* shellWritePrompt
WritePrompt(newline) == (IF newline THEN <<Text>> ELSE <<>>) \o <<Prompt>>

\* shellDeleteCommandLine: the length is an unsigned char.
DeleteCommandLine(length) == Repeat(Erase, length % 256)

\* Mutant of ClearCommandLine: what is behind the cursor stays.
ClearToCursor(l, c) == DeleteCommandLine(c)

ClearCommandLine(l, c) == Repeat(Put(<<" ">>), Len(l) - c) \o DeleteCommandLine(Len(l))

\* Refused, the line is written again, and the cursor stays behind it.
TooLong(l, c) ==
  <<Text>> \o WritePrompt(TRUE) \o <<Put(l)>> \o (IF c < Len(l) THEN <<Lost>> ELSE <<>>)

\* Mutant of InsertByte: the room for the zero is not kept.
InsertByteFull(l, c, data) ==
  LET new == InsertAt(l, c + 1, data) IN
  IF Len(l) >= Session.size THEN TooLong(l, c)
  ELSE <<Edit(new, c + 1)>> \o Each(SubSeq(new, c + 1, Len(new))) \o Repeat(Back, Len(l) - c)

InsertByte(l, c, data) ==
  LET new == InsertAt(l, c + 1, data) IN
  IF Len(l) >= Session.size - 1 THEN TooLong(l, c)
  ELSE <<Edit(new, c + 1)>> \o Each(SubSeq(new, c + 1, Len(new))) \o Repeat(Back, Len(l) - c)

\* shellDeleteByte with the direction 1: the character before the cursor.
DeleteBefore(l, c) ==
  IF c = 0 THEN <<>>
  ELSE IF c = Len(l) THEN <<Edit(Front(l), c - 1)>> \o DeleteCommandLine(1)
  ELSE <<Edit(RemoveAt(l, c), c - 1), Back>> \o Each(SubSeq(l, c + 1, Len(l)))
         \o <<Put(<<" ">>)>> \o Repeat(Back, Len(l) - c + 1)

\* and with -1: the one at the cursor.
DeleteAt(l, c) ==
  IF c = Len(l) THEN <<>>
  ELSE <<Edit(RemoveAt(l, c + 1), c)>> \o Each(SubSeq(l, c + 2, Len(l)))
         \o <<Put(<<" ">>)>> \o Repeat(Back, Len(l) - c)

Right(l, c) == IF c < Len(l) THEN <<Edit(l, c + 1), Put(<<l[c + 1]>>)>> ELSE <<>>
Left(l, c) == IF c > 0 THEN <<Back, Edit(l, c - 1)>> ELSE <<>>
-----------------------------------------------------------------------------
(* Lists. *)

\* shellCommandList
Commands == Tables[Session.table]
CommandTypes == {"main", "func"}
Named(i) == Commands[i].type # "key"

\* shellListItem
ListItem == Text

\* A heading, and the commands of these types.
List(types) ==
  <<Text>> \o Repeat(ListItem, Cardinality({i \in DOMAIN Commands : Commands[i].type \in types}))

ListCommand == List(CommandTypes)
ListVar == List({"var"})
ListUser == List({"user"})
ListKey == List({"key"})

\* Users, variables and keys are configured away.
ListAll == ListCommand
-----------------------------------------------------------------------------
(* Commands. *)

\* shellSeekCommand: the first of that name that is no key, or 0.
Seek(name) ==
  LET found == {i \in DOMAIN Commands : Named(i) /\ Commands[i].name = name}
  IN IF found = {} THEN 0 ELSE Min(found)

\* shellGetVarValue for every name: what is no variable has none.  A variable is
\* kept as its bytes, and a signed one is extended when it is read.
Values ==
  [name \in {Commands[i].name : i \in {j \in DOMAIN Commands : Named(j)}} |->
     LET i == Seek(name) IN
     IF Commands[i].type # "var" THEN 0
     ELSE IF Commands[i].signed /\ vars[name] >= Commands[i].width \div 2
     THEN (vars[name] - Commands[i].width) % Word
     ELSE vars[name]]

\* shellWriteCommandHelp
CommandHelp(name) == <<Text>>

\* shellShowVar
ShowVar == <<Text>>

\* shellSetVarValue, a number into a variable of its width, which is cut to it.  A
\* pointer is like one that can only be read; strings and nodes are left out.
SetVarValue(i, value) ==
  IF Commands[i].readOnly THEN vars
  ELSE [vars EXCEPT ![Commands[i].name] = value % Commands[i].width]

\* shellSetVar, for a name that is a string.
SetVar(args) ==
  LET i == Seek(args[1].text) IN
  IF i # 0 /\ Commands[i].type = "var" THEN SetVarValue(i, args[2].int) ELSE vars

\* What a command writes.
Output(i, words) ==
  CASE Commands[i].does = "help" ->
         IF Len(words) = 1 THEN ListAll ELSE CommandHelp(words[2])
    [] Commands[i].does = "users" -> ListUser
    [] Commands[i].does = "cmds" -> ListCommand
    [] Commands[i].does = "vars" -> ListVar
    [] Commands[i].does = "keys" -> ListKey
    [] Commands[i].does = "setVar" -> ShowVar
    [] Commands[i].does \in {"clear", "app"} -> <<Text>>

\* The arguments a command is called with.
Arguments(i, words) ==
  IF Commands[i].type = "main"
  THEN [called |-> TRUE, args |-> [k \in DOMAIN words |-> RemoveParamQuotes(words[k])]]
  ELSE ExtRun(Commands[i].paramNum, words, Values)

\* shellWriteReturnValue
ReturnValue(i) == IF Commands[i].disableReturn THEN <<>> ELSE <<Text>>

\* shellRunCommand; shellSetUser clears the console.
RunCommand(i, words) ==
  <<Active(TRUE)>>
    \o (CASE Commands[i].type \in CommandTypes ->
               (IF Arguments(i, words).called THEN Output(i, words) ELSE <<>>)
                  \o ReturnValue(i)
          [] Commands[i].type = "var" -> ShowVar
          [] Commands[i].type = "user" -> <<Text>>)
    \o <<Active(FALSE)>>

\* shellExec, without its changes of the history.
Exec(l) ==
  LET words == Split(l)
      i == Seek(words[1])
  IN <<Edit(<<>>, 0)>>
       \o (IF words = <<>> THEN <<>>
           ELSE <<Text>> \o (IF i = 0 THEN <<Text>> ELSE RunCommand(i, words)))
-----------------------------------------------------------------------------
(* shellTab *)

\* Every entry counts, and a key's name is its value in hexadecimal.
Matches(l) == {i \in DOMAIN Commands : IsPrefix(l, Commands[i].name)}

\* shellStringCompare: how many characters two names have in common.  The names
\* of two keys are one buffer, which is compared with itself.
Common(i, j) ==
  IF ~Named(i) /\ ~Named(j) THEN Len(Commands[j].name)
  ELSE Cardinality({k \in DOMAIN Commands[i].name :
                      IsPrefix(SubSeq(Commands[i].name, 1, k), Commands[j].name)})

\* Each match is compared with the one before it.
MaxMatch(found) ==
  Min({Session.size} \cup
      {Common(Max({j \in found : j < i}), i) : i \in found \ {Min(found)}})

Complete(l, c) ==
  LET found == Matches(l)
      last == Commands[Max(found)].name
      most == SubSeq(last, 1, MaxMatch(found))
  IN IF Cardinality(found) = 1
     THEN ClearCommandLine(l, c) \o <<Edit(last, Len(last)), Put(last)>>
     ELSE <<Text>> \o Repeat(ListItem, Cardinality(found)) \o WritePrompt(TRUE)
            \o <<Edit(most, Len(most)), Put(most)>>

\* The help of a second tab in time.
QuickHelp(l) ==
  LET name == Commands[Max(Matches(l))].name
  IN <<Text>> \o CommandHelp(name) \o WritePrompt(TRUE) \o <<Put(name)>>
-----------------------------------------------------------------------------
(* The history. *)

NoLines == [i \in 0 .. H - 1 |-> <<>>]
Newest == item[(IF record = 0 THEN H ELSE record) - 1]
Recall(o) == item[(record + H + o) % H]

\* The text of an entry, or none.
Recalled(l, c, o) ==
  ClearCommandLine(l, c)
    \o (IF o = 0 THEN <<Edit(<<>>, 0)>> ELSE <<Edit(Recall(o), Len(Recall(o))), Put(Recall(o))>>)

\* The line calls a function whose last argument runs on behind the line: its
\* buffer is followed by the entries of the history (shellInit).
Overruns(l) ==
  LET words == Split(l)
      i == Seek(words[1])
  IN words # <<>> /\ i # 0 /\ Commands[i].type = "func" /\ RunsOn(words, Values)

\* A character of some entry that was there before.
Stale == "stale"

\* What can become of an entry: nothing, where a zero has come before it, or what
\* is left of it, moved towards the front by the characters escaped so far.  One
\* that is moved over its own zero, which is passed too, shows what lay behind.
Remains(entry) ==
  {entry}
    \cup {t \in {Parsed(Behind(entry, n)) : n \in 1 .. Len(entry)} :
            IsSequence(t) /\ Len(t) <= Len(entry)}
    \cup (IF EndsOpen(entry) THEN {Repeat(Stale, n) : n \in 0 .. Session.size - 1} ELSE {})

\* What the run of a line leaves of the history.  Nothing is known of what lies
\* behind a line that is not full, so no entry need be reached; the second is
\* only reached through the first, and so on.
Leavings(l, ring) ==
  IF ~Overruns(l) THEN {ring}
  ELSE {left \in [0 .. H - 1 -> UNION {Remains(ring[i]) : i \in 0 .. H - 1}] :
          \A i \in 0 .. H - 1 :
            /\ left[i] \in Remains(ring[i])
            /\ left[i] # ring[i] => \A j \in 0 .. i - 1 : EndsOpen(ring[j])}

\* Mutant of HistoryAdd: a line is compared with the entry it will replace.
HistoryAddOldest(l) ==
  /\ offset' = 0
  /\ IF number > 0 /\ item[record] = l
     THEN item' \in Leavings(l, item) /\ UNCHANGED <<record, number>>
     ELSE /\ item' \in Leavings(l, [item EXCEPT ![record] = l])
          /\ record' = (record + 1) % H
          /\ number' = Min({number + 1, H})

\* shellHistoryAdd, and what the run of the line does to the history: a line that
\* is entered again is not added.
HistoryAdd(l) ==
  /\ offset' = 0
  /\ IF number > 0 /\ Newest = l
     THEN item' \in Leavings(l, item) /\ UNCHANGED <<record, number>>
     ELSE /\ item' \in Leavings(l, [item EXCEPT ![record] = l])
          /\ record' = (record + 1) % H
          /\ number' = Min({number + 1, H})

\* What was entered, without repetitions in a row.
Entered(l) ==
  IF recent # <<>> /\ Head(recent) = l THEN recent
  ELSE SubSeq(<<l>> \o recent, 1, Min({Len(recent) + 1, H}))
-----------------------------------------------------------------------------
(* shellHandler.  The bytes of a key are taken one by one. *)

Keys ==
  {<<<<"ESC", "[", "A">>, "up">>, <<<<"ESC", "[", "B">>, "down">>,
   <<<<"ESC", "[", "C">>, "right">>, <<<<"ESC", "[", "D">>, "left">>,
   <<<<"TAB">>, "tab">>, <<<<"BS">>, "backspace">>, <<<<"DEL">>, "backspace">>,
   <<<<"ESC", "[", "3", "~">>, "delete">>, <<<<"LF">>, "enter">>, <<<<"CR">>, "enter">>}

KeyByte ==
  /\ todo = <<>>
  /\ \E key \in Keys :
       /\ key[2] \in Session.keys
       /\ IsStrictPrefix(keyValue, Front(key[1]))
       /\ keyValue' = SubSeq(key[1], 1, Len(keyValue) + 1)
  /\ UNCHANGED <<session, submits, history, vars, ran, line, cursor, active, todo, redraw, behind,
                 screen>>

\* The last byte of a key, whose handler writes this.
Handles(function, writes) ==
  /\ todo = <<>>
  /\ function \in Session.keys
  /\ \E key \in Keys : key[2] = function /\ keyValue = Front(key[1])
  /\ keyValue' = <<>>
  /\ todo' = writes
  /\ UNCHANGED <<session, line, cursor, active, redraw, behind, screen>>

Moves(function, writes) ==
  /\ Handles(function, writes)
  /\ recalled' = FALSE
  /\ UNCHANGED <<submits, item, record, number, offset, tabFlag, recent, overrun, vars, ran>>

ShellRight == Moves("right", Right(line, cursor))
ShellLeft == Moves("left", Left(line, cursor))
ShellBackspace == Moves("backspace", DeleteBefore(line, cursor))
ShellDelete == Moves("delete", DeleteAt(line, cursor))

\* shellNormalInput
NormalInput(data) ==
  /\ submits > 0 \/ Session.submits = 0
  /\ todo = <<>>
  /\ keyValue = <<>>
  /\ todo' = InsertByte(line, cursor, data)
  /\ tabFlag' = FALSE
  /\ recalled' = FALSE
  /\ UNCHANGED <<session, submits, keyValue, item, record, number, offset, recent, overrun, vars,
                 ran, line, cursor, active, redraw, behind, screen>>

\* Bound: an entry of which nothing is left is not recalled, for its length would
\* be zero with the cursor left where it was (shellHistory).
Holds(o) == o # 0 => Recall(o) # <<>>

\* shellHistory upwards, as far as there are entries.
ShellUp ==
  LET top == Max({number, record})
      to == IF offset <= -top THEN -top ELSE offset - 1
  IN /\ Holds(to)
     /\ Handles("up", Recalled(line, cursor, to))
     /\ offset' = to
     /\ recalled' = (to # 0)
     /\ UNCHANGED <<submits, item, record, number, tabFlag, recent, overrun, vars, ran>>

ShellDown ==
  /\ offset # 0 => Holds(offset + 1)
  /\ Handles("down", IF offset = 0 THEN <<>> ELSE Recalled(line, cursor, offset + 1))
  /\ offset' = IF offset = 0 THEN 0 ELSE offset + 1
  /\ recalled' = (offset' # 0)
  /\ UNCHANGED <<submits, item, record, number, tabFlag, recent, overrun, vars, ran>>

\* A second tab that finds one name gives its help, if it is quick enough.
ShellTab ==
  /\ \E quick \in BOOLEAN :
       IF line = <<>>
       THEN /\ Handles("tab", ListAll \o WritePrompt(TRUE))
            /\ tabFlag' = TRUE
       ELSE IF Matches(line) = {}
       THEN /\ Handles("tab", <<>>)
            /\ UNCHANGED tabFlag
       ELSE LET help == quick /\ tabFlag /\ Cardinality(Matches(line)) = 1
            IN /\ Handles("tab", Complete(line, cursor) \o (IF help THEN QuickHelp(line) ELSE <<>>))
               /\ tabFlag' = (tabFlag \/ ~help)
  /\ recalled' = FALSE
  /\ UNCHANGED <<submits, item, record, number, offset, recent, overrun, vars, ran>>

NoRun == [line |-> <<>>, command |-> 0, values |-> <<>>, called |-> FALSE, args |-> <<>>]

\* The command of a line, and what it is called with.
Run(l) ==
  LET words == Split(l)
      i == Seek(words[1])
  IN IF words = <<>> THEN NoRun
     ELSE IF i = 0 THEN NoRun
     ELSE IF Commands[i].type \notin CommandTypes THEN NoRun
     ELSE [line |-> l, command |-> i, values |-> Values,
           called |-> Arguments(i, words).called, args |-> Arguments(i, words).args]

EnterNothing ==
  /\ line = <<>>
  /\ Handles("enter", WritePrompt(TRUE))
  /\ recalled' = FALSE
  /\ UNCHANGED <<submits, item, record, number, offset, tabFlag, recent, overrun, vars, ran>>

\* shellEnter and shellExec
EnterLine ==
  /\ line # <<>>
  /\ submits > 0
  /\ submits' = submits - 1
  /\ Handles("enter", Exec(line) \o WritePrompt(TRUE))
  /\ HistoryAdd(line)
  /\ recent' = IF Overruns(line) THEN <<>> ELSE Entered(line)
  /\ overrun' = (overrun \/ Overruns(line))
  /\ recalled' = FALSE
  /\ ran' = Run(line)
  /\ vars' = IF ran'.called /\ Commands[ran'.command].does = "setVar"
             THEN SetVar(ran'.args) ELSE vars
  /\ UNCHANGED tabFlag
-----------------------------------------------------------------------------
(* The two tasks write.  Where they meet the row is a mess, but for a log  *)
(* while a command is active.                                              *)

Write(write, other) ==
  screen' = IF other /\ ~active THEN Garbled
            ELSE IF write = Nothing THEN screen ELSE Written(screen, write)

KeyStep ==
  /\ todo # <<>>
  /\ LET next == Head(todo)
         writes == DOMAIN next \cap {"line", "active", "lost"} = {} IN
     /\ line' = IF "line" \in DOMAIN next THEN next.line ELSE line
     /\ cursor' = IF "line" \in DOMAIN next THEN next.cursor ELSE cursor
     /\ active' = IF "active" \in DOMAIN next THEN next.active ELSE active
     /\ IF next = Lost THEN screen' = Garbled
        ELSE Write(IF writes THEN next ELSE Nothing, redraw # "idle")
  /\ todo' = Tail(todo)
  /\ ran' = IF Tail(todo) = <<>> THEN NoRun ELSE ran
  /\ UNCHANGED <<session, submits, keyValue, history, vars, redraw, behind>>

\* A step of shellWriteEndLine, which looks twice whether a command is active.
Redraws(from, to, write) ==
  /\ redraw = from
  /\ redraw' = to
  /\ Write(write, todo # <<>>)
  /\ UNCHANGED <<private, line, cursor, active, todo>>

RedrawBegin ==
  /\ Session.logs
  /\ Redraws("idle", "text", IF active THEN Nothing ELSE Text)
  /\ behind' = behind

RedrawText == Redraws("text", "after", Text) /\ behind' = behind
RedrawNothing == active /\ Redraws("after", "idle", Nothing) /\ behind' = behind
RedrawPrompt == ~active /\ Redraws("after", "line", Prompt) /\ behind' = behind

RedrawLine ==
  /\ IF line = <<>> THEN Redraws("line", "idle", Nothing) ELSE Redraws("line", "back", Put(line))
  /\ behind' = behind

\* One column for each character behind the cursor.
RedrawBack ==
  IF behind < Len(line) - cursor
  THEN Redraws("back", "back", Back) /\ behind' = behind + 1
  ELSE Redraws("back", "idle", Nothing) /\ behind' = 0
-----------------------------------------------------------------------------
\* The prompt is there, and a part of a line perhaps typed.
ShellInit ==
  /\ session \in DOMAIN Sessions
  /\ submits = Session.submits
  /\ keyValue = <<>>
  /\ line = Session.typed
  /\ cursor = Len(Session.typed)
  /\ item = NoLines
  /\ record = 0 /\ number = 0 /\ offset = 0
  /\ tabFlag = FALSE
  /\ active = FALSE
  /\ vars = [name \in {Commands[i].name : i \in {j \in DOMAIN Commands : Commands[j].type = "var"}} |->
               Commands[Seek(name)].value]
  /\ todo = <<>>
  /\ redraw = "idle"
  /\ behind = 0
  /\ screen = [row |-> Shown(Session.typed), col |-> Len(Session.typed), prompted |-> TRUE]
  /\ recent = <<>>
  /\ overrun = FALSE
  /\ recalled = FALSE
  /\ ran = NoRun

ShellHandler ==
  \/ KeyByte
  \/ ShellRight \/ ShellLeft \/ ShellBackspace \/ ShellDelete \/ ShellUp \/ ShellDown \/ ShellTab
  \/ EnterNothing \/ EnterLine
  \/ \E data \in Session.text : NormalInput(data)

WriteEndLine ==
  RedrawBegin \/ RedrawText \/ RedrawNothing \/ RedrawPrompt \/ RedrawLine \/ RedrawBack

ShellNext == ShellHandler \/ KeyStep \/ WriteEndLine

ShellSpec == ShellInit /\ [][ShellNext]_shellVars
-----------------------------------------------------------------------------
(* Properties *)

\* Types.
TypeOK ==
  /\ session \in DOMAIN Sessions
  /\ submits \in 0 .. Session.submits
  /\ Len(line) < Session.size
  /\ cursor \in 0 .. Len(line)
  /\ record \in 0 .. H - 1
  /\ number \in 0 .. H
  /\ offset \in -number .. 0
  /\ {tabFlag, active, overrun, recalled} \subseteq BOOLEAN
  /\ redraw \in {"idle", "text", "after", "line", "back"}
  /\ behind \in 0 .. Columns
  /\ screen = Garbled \/ screen.col \in 0 .. Columns

\* Whenever neither task is writing, the console shows the prompt and the line
\* with its cursor: after every key, and after every log that came between two
\* keys or during a command.  A log that met a key's handler may spoil the row
\* until a new one is begun (agcore_console_shell.c:44, without a lock), and so
\* does a character that is refused inside the line (shell.c:826).
LineShown ==
  (todo = <<>> /\ redraw = "idle" /\ screen # Garbled) =>
    screen = [row |-> Shown(line), col |-> cursor, prompted |-> TRUE]

\* The ring of the history, with the entry number k counted back from the next
\* free one, always holds the last H lines entered, and what the up and down
\* keys leave in the line is the entry they have come to.  Nothing is said of the
\* lines up to one whose last argument is a text that ends in a backslash, nor of
\* that one: parsing it writes behind the line, on a full one into the first
\* entry (shell_ext.c:230, shell.c:198).  Those entered after it are held again.
HistoryFaithful ==
  /\ Len(recent) <= number
  /\ overrun \/ Len(recent) = number
  /\ \A k \in 1 .. Len(recent) : Recall(-k) = recent[k]
  /\ todo = <<>> /\ recalled /\ -offset <= Len(recent) =>
       line = recent[-offset] /\ cursor = Len(line)

\* A command is called by the first word of its line, parted from the others by
\* the spaces that are neither escaped nor quoted: a main function with all of
\* them, without the quotes around them, and a function with the others, and
\* with what its signature asks for beyond them.
WordsRight ==
  ran.called =>
    LET words == Words(ran.line)
        i == ran.command
        args == ran.args
    IN /\ Commands[i].name = words[1]
       /\ Commands[i].type = "main" =>
            /\ Len(args) = Len(words)
            /\ \A k \in DOMAIN words : Unquoted(words[k]) \subseteq {args[k]}
       /\ Commands[i].type = "func" =>
            Len(args) = Max({Commands[i].paramNum, Len(words) - 1})

\* A function is called with what its words plainly mean, a text, a character or
\* a variable, and with zero for those the line leaves out.
MeaningsRight ==
  ran.called /\ Commands[ran.command].type = "func" =>
    LET words == Words(ran.line)
    IN \A k \in DOMAIN ran.args :
         (IF k < Len(words) THEN Plainly(words[k + 1], ran.values) ELSE {[int |-> 0]})
           \subseteq {ran.args[k]}

\* Both: a command is called with what was typed.
ArgumentsRight == WordsRight /\ MeaningsRight

\* A function is called with the numbers its words are.
NumbersRight ==
  ran.called /\ Commands[ran.command].type = "func" =>
    LET words == Words(ran.line)
    IN \A k \in 1 .. Len(words) - 1 : Number(words[k + 1]) \subseteq {ran.args[k]}
=============================================================================
