------------------------------ MODULE MCShell ------------------------------
(* Instances of Shell for TLC. *)
EXTENDS Shell

Entry(name, type, does) ==
  [name |-> name, type |-> type, does |-> does, disableReturn |-> does # "app", paramNum |-> 0,
   readOnly |-> FALSE, width |-> 16, signed |-> FALSE, value |-> 5]

\* Two names of the second begin with ba; two keys of the last begin alike.
MCTables ==
  <<<<Entry(<<"a", "b">>, "main", "app"), Entry(<<"b">>, "func", "app"), Entry(<<"#">>, "key", "")>>,
    <<Entry(<<"a", "b">>, "main", "app"), Entry(<<"b", "a", "a">>, "func", "app"),
      Entry(<<"b", "a", "b">>, "user", "")>>,
    <<Entry(<<"m">>, "main", "app"), [Entry(<<"f">>, "func", "app") EXCEPT !.paramNum = 2],
      Entry(<<"h">>, "main", "help"), Entry(<<"u">>, "func", "users"),
      Entry(<<"c">>, "func", "cmds"), Entry(<<"k">>, "func", "keys"),
      Entry(<<"l">>, "func", "clear"), Entry(<<"p">>, "func", "vars"), Entry(<<"g">>, "user", ""),
      [Entry(<<"s">>, "func", "setVar") EXCEPT !.paramNum = 2],
      [Entry(<<"v">>, "var", "") EXCEPT !.signed = TRUE, !.value = 13],
      [Entry(<<"r">>, "var", "") EXCEPT !.readOnly = TRUE]>>,
    <<Entry(<<"#", "1">>, "key", ""), Entry(<<"#", "2">>, "key", "")>>>>

AllKeys == {"up", "down", "right", "left", "tab", "backspace", "delete", "enter"}

\* Lines that are edited, with and without a history, while there are logs.
Editing(table, size, lines) ==
  [table |-> table, size |-> size, typed |-> <<>>, text |-> {"a", "b"}, keys |-> AllKeys,
   submits |-> lines, logs |-> TRUE]

\* One line that is typed to its end.
Typing(size, typed, text) ==
  [table |-> 3, size |-> size, typed |-> typed, text |-> text, keys |-> {"enter"},
   submits |-> 1, logs |-> FALSE]

MCSessions ==
  <<[Editing(1, 3, 2) EXCEPT !.logs = FALSE], Editing(2, 4, 1),
   [Editing(1, 3, 4) EXCEPT !.logs = FALSE, !.keys = {"up", "down", "backspace", "enter"}],
   [Typing(3, <<>>, {"h", "u", "c", "k", "l", "p", "g", "v", " "}) EXCEPT !.logs = TRUE],
   [Typing(4, <<"h", " ">>, {"h", "u", "c", "k", "l", "p", "g", "v"}) EXCEPT !.logs = TRUE],
   Typing(7, <<"s", " ", "v", " ">>, {"1", "7"}),
   Typing(7, <<"s", " ", "r", " ">>, {"1"}),
   Typing(8, <<"m", " ">>, {"a", " ", Quote, Backslash}),
   Typing(7, <<"f", " ">>, {"a", " ", Quote, Backslash}),
   Typing(6, <<"f", " ">>, {"a", " ", Apostrophe, "$", "v", Backslash}),
   Typing(6, <<"f", " ">>, {"0", "1", "9", "x", "b", "-", "."}),
   Typing(7, <<"f", " ", "-">>, {"0", "1", "9", "x", "b", "."}),
   [Typing(4, <<"f", " ">>, {"a", Backslash}) EXCEPT !.keys = {"up", "down", "enter"}, !.submits = 2],
   [Typing(4, <<>>, {"#"}) EXCEPT !.table = 4, !.keys = {"tab", "enter"}]>>
=============================================================================
