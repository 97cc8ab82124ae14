----------------------------- MODULE MCAsyncLog -----------------------------
(* Instances of AsyncLog for TLC. *)
EXTENDS AsyncLog

\* A short line and one that has to be output in two pieces.
MCLogs == {<<"x", "nl">>, <<"y", "y", "nl">>}
=============================================================================
