------------------------------ MODULE AsyncLog ------------------------------
(***************************************************************************)
(* The asynchronous log: tasks that log compose a line in a common buffer  *)
(* and put it into a ring, the output task takes lines out of the ring and *)
(* writes them to the console (elog.c, elog_async.c,                       *)
(* agcore_console_log.c), where the shell writes too                       *)
(* (agcore_console_shell.c).  One mutex guards all of it                   *)
(* (agcore_console_adapter.c, elog_port.c).                                *)
(*                                                                         *)
(* agcore_log_init has run: the log is enabled, in asynchronous mode and   *)
(* with its task.  What the shell writes around a log (it clears the line  *)
(* and writes the prompt again) takes the lock for writes of its own and   *)
(* is part of Shell here.                                                  *)
(***************************************************************************)
EXTENDS Integers, Sequences, FiniteSetsExt

CONSTANTS
  Loggers,      \* tasks that log
  Output,       \* the task of the asynchronous output
  Shell,        \* the shell's task
  Nobody,
  Chars,
  Newline,      \* ELOG_NEWLINE_SIGN, one character
  Logs,         \* what may be logged: sequences of characters
  Blank,        \* what the ring holds before anything is put into it
  BufSize,      \* OUTPUT_BUF_SIZE
  LineSize      \* the size of the output task's buffer

ASSUME SizesAssumption == BufSize \in Nat \ {0} /\ LineSize \in Nat \ {0}
ASSUME TasksAssumption ==
  Nobody \notin Loggers \cup {Output, Shell} /\ Output # Shell
    /\ {Output, Shell} \cap Loggers = {}
\* Every log has a character: elog_output ends it with a newline.  An empty
\* one of elog_raw_output would leave the flags wrong (see README).
ASSUME LogsAssumption == Logs \subseteq Seq(Chars) \ {<<>>} /\ Blank \in Chars

VARIABLES
  lock,      \* g_console_output_lock: who holds it
  pc,        \* where each logger is in elog_output
  arg,       \* what it was told to log
  logBuf,    \* log_buf of elog.c, the line in the making
  ring,      \* log_buf of elog_async.c
  write,     \* write_index
  read,      \* read_index
  full,      \* buf_is_full
  empty,     \* buf_is_empty
  notice,    \* g_log_notify, a binary semaphore
  out,       \* where the output task is
  chunk,     \* what the output task took and has not written yet
  shell,     \* whether the shell is in agcore_console_output
  printed,   \* external: what the console got last from the output task
  held       \* history: characters put into the ring and not taken yet

indices == <<write, read, full, empty>>
loggers == <<pc, arg, logBuf>>
vars == <<lock, pc, arg, logBuf, ring, write, read, full, empty, notice, out,
          chunk, shell, printed, held>>

Init ==
  /\ lock = Nobody
  /\ pc = [t \in Loggers |-> "idle"]
  /\ arg = [t \in Loggers |-> <<>>]
  /\ logBuf = <<>>
  /\ ring = [i \in 0 .. BufSize - 1 |-> Blank]
  /\ write = 0
  /\ read = 0
  /\ full = FALSE
  /\ empty = TRUE
  /\ notice = FALSE
  /\ out = "wait"
  /\ chunk = <<>>
  /\ shell = FALSE
  /\ printed = <<>>
  /\ held = 0

Least(a, b) == IF a < b THEN a ELSE b
First(s, n) == SubSeq(s, 1, n)
Rest(s, n) == SubSeq(s, n + 1, Len(s))
-----------------------------------------------------------------------------
(* The ring. *)

\* Mutant of Used: equal indices always mean an empty ring.
UsedNeverFull == IF write >= read THEN write - read ELSE BufSize - (read - write)

\* elog_async_get_buf_used
Used ==
  IF write > read THEN write - read
  ELSE IF ~full /\ ~empty THEN BufSize - (read - write)
  ELSE IF full THEN BufSize ELSE 0

Space == BufSize - Used

\* Mutant of Put: only a log that is cut makes the ring full.
PutFullLate(log) ==
  LET size == Least(Space, Len(log)) IN
  IF Space = 0 THEN UNCHANGED <<ring, indices, notice, held>>
  ELSE
    /\ ring' = [i \in DOMAIN ring |->
                  LET k == (i - write) % BufSize IN IF k < size THEN log[k + 1] ELSE ring[i]]
    /\ write' = (write + size) % BufSize
    /\ full' = (full \/ Space < Len(log))
    /\ empty' = FALSE
    /\ notice' = (notice \/ size > 0)
    /\ held' = held + size
    /\ UNCHANGED read

\* async_put_log, and the notice elog_async_output gives when it put something.
Put(log) ==
  LET size == Least(Space, Len(log)) IN
  IF Space = 0 THEN UNCHANGED <<ring, indices, notice, held>>
  ELSE
    /\ ring' = [i \in DOMAIN ring |->
                  LET k == (i - write) % BufSize IN IF k < size THEN log[k + 1] ELSE ring[i]]
    /\ write' = (write + size) % BufSize
    /\ full' = (full \/ Space <= Len(log))
    /\ empty' = FALSE
    /\ notice' = (notice \/ size > 0)
    /\ held' = held + size
    /\ UNCHANGED read

\* elog_cpyln: how much of n characters from index i on is one line.
LineLen(i, n) ==
  LET ends == {k \in 1 .. n : ring[i + k - 1] = Newline} IN
  IF ends = {} THEN n ELSE Min(ends)

\* How much elog_async_get_line_log takes when asked for n characters.  The
\* second part, from the start of the ring, is taken whenever the first was
\* copied to its end, even if it ended there with a newline.
Cut(n) ==
  LET tail == BufSize - read
      part == LineLen(read, Least(n, tail)) IN
  IF n >= tail /\ part = tail THEN part + LineLen(0, n - part) ELSE part

Stored(n) == [k \in 1 .. n |-> ring[(read + k - 1) % BufSize]]
-----------------------------------------------------------------------------
(* A task that logs: elog_output and elog_raw_output. *)

Log(t, log) ==
  /\ pc[t] = "idle"
  /\ pc' = [pc EXCEPT ![t] = "lock"]
  /\ arg' = [arg EXCEPT ![t] = log]
  /\ UNCHANGED <<lock, logBuf, ring, indices, notice, out, chunk, shell, printed, held>>

\* The lock is taken and the line composed.
Format(t) ==
  /\ pc[t] = "lock"
  /\ lock = Nobody
  /\ lock' = t
  /\ pc' = [pc EXCEPT ![t] = "put"]
  /\ logBuf' = arg[t]
  /\ UNCHANGED <<arg, ring, indices, notice, out, chunk, shell, printed, held>>

\* elog_async_output
AsyncOutput(t) ==
  /\ pc[t] = "put"
  /\ pc' = [pc EXCEPT ![t] = "unlock"]
  /\ Put(logBuf)
  /\ UNCHANGED <<lock, arg, logBuf, out, chunk, shell, printed>>

Unlock(t) ==
  /\ pc[t] = "unlock"
  /\ lock' = Nobody
  /\ pc' = [pc EXCEPT ![t] = "idle"]
  /\ arg' = [arg EXCEPT ![t] = <<>>]
  /\ UNCHANGED <<logBuf, ring, indices, notice, out, chunk, shell, printed, held>>
-----------------------------------------------------------------------------
(* The output task: agcore_log_output_task. *)

AwaitNotice ==
  /\ out = "wait"
  /\ notice
  /\ notice' = FALSE
  /\ out' = "get"
  /\ UNCHANGED <<lock, loggers, ring, indices, chunk, shell, printed, held>>

\* elog_async_get_line_log has nothing.
GetNothing ==
  /\ out = "get"
  /\ lock = Nobody
  /\ Used = 0
  /\ out' = "wait"
  /\ UNCHANGED <<lock, loggers, ring, indices, notice, chunk, shell, printed, held>>

\* Mutant of GetLine: the index that reaches the end of the ring stays there.
GetLineNoWrap ==
  /\ out = "get"
  /\ lock = Nobody
  /\ Used > 0
  /\ LET n == Cut(Least(Used, LineSize)) IN
     /\ chunk' = Stored(n)
     /\ read' = IF read + n > BufSize THEN read + n - BufSize ELSE read + n
     /\ empty' = (empty \/ Used = n)
     /\ held' = IF n > held THEN 0 ELSE held - n
  /\ full' = FALSE
  /\ out' = "print"
  /\ UNCHANGED <<lock, loggers, ring, write, notice, shell, printed>>

GetLine ==
  /\ out = "get"
  /\ lock = Nobody
  /\ Used > 0
  /\ LET n == Cut(Least(Used, LineSize)) IN
     /\ chunk' = Stored(n)
     /\ read' = (read + n) % BufSize
     /\ empty' = (empty \/ Used = n)
     /\ held' = IF n > held THEN 0 ELSE held - n
  /\ full' = FALSE
  /\ out' = "print"
  /\ UNCHANGED <<lock, loggers, ring, write, notice, shell, printed>>

\* agcore_log_port_output: the lock, then as many writes as it takes.
BeginPrint ==
  /\ out = "print"
  /\ lock = Nobody
  /\ lock' = Output
  /\ out' = "write"
  /\ UNCHANGED <<loggers, ring, indices, notice, chunk, shell, printed, held>>

Write ==
  /\ out = "write"
  /\ \E n \in 1 .. Len(chunk) :
       /\ printed' = First(chunk, n)
       /\ chunk' = Rest(chunk, n)
  /\ UNCHANGED <<lock, loggers, ring, indices, notice, out, shell, held>>

\* A write that fails ends the output.
WriteFails ==
  /\ out = "write"
  /\ chunk # <<>>
  /\ chunk' = <<>>
  /\ UNCHANGED <<lock, loggers, ring, indices, notice, out, shell, printed, held>>

\* Mutant of EndPrint: one notice, one line.
EndPrintWaits ==
  /\ out = "write"
  /\ chunk = <<>>
  /\ lock' = Nobody
  /\ out' = "wait"
  /\ UNCHANGED <<loggers, ring, indices, notice, chunk, shell, printed, held>>

\* The next line is taken without waiting for a notice.
EndPrint ==
  /\ out = "write"
  /\ chunk = <<>>
  /\ lock' = Nobody
  /\ out' = "get"
  /\ UNCHANGED <<loggers, ring, indices, notice, chunk, shell, printed, held>>

OutputTask ==
  AwaitNotice \/ GetNothing \/ GetLine \/ BeginPrint \/ Write \/ WriteFails \/ EndPrint
-----------------------------------------------------------------------------
(* The shell's task: agcore_shell_write. *)

\* Mutant of ShellWrite: without the lock.
ShellWriteUnlocked ==
  /\ ~shell
  /\ shell' = TRUE
  /\ UNCHANGED <<lock, loggers, ring, indices, notice, out, chunk, printed, held>>

ShellWrite ==
  /\ ~shell
  /\ lock = Nobody
  /\ lock' = Shell
  /\ shell' = TRUE
  /\ UNCHANGED <<loggers, ring, indices, notice, out, chunk, printed, held>>

ShellWritten ==
  /\ shell
  /\ lock' = Nobody
  /\ shell' = FALSE
  /\ UNCHANGED <<loggers, ring, indices, notice, out, chunk, printed, held>>
-----------------------------------------------------------------------------
Logging ==
  \E t \in Loggers :
    (\E log \in Logs : Log(t, log)) \/ Format(t) \/ AsyncOutput(t) \/ Unlock(t)

Next == Logging \/ OutputTask \/ ShellWrite \/ ShellWritten

Spec == Init /\ [][Next]_vars

\* The output task runs, and whoever holds the lock gives it back.
Fairness ==
  /\ WF_vars(OutputTask)
  /\ WF_vars(ShellWritten)
  /\ \A t \in Loggers : WF_vars(AsyncOutput(t)) /\ WF_vars(Unlock(t))

FairSpec == Spec /\ Fairness
-----------------------------------------------------------------------------
(* Properties *)

\* Types.
TypeOK ==
  /\ lock \in Loggers \cup {Output, Shell, Nobody}
  /\ pc \in [Loggers -> {"idle", "lock", "put", "unlock"}]
  /\ arg \in [Loggers -> Logs \cup {<<>>}]
  /\ logBuf \in Logs \cup {<<>>}
  /\ ring \in [0 .. BufSize - 1 -> Chars]
  /\ write \in 0 .. BufSize - 1
  /\ read \in 0 .. BufSize - 1
  /\ full \in BOOLEAN
  /\ empty \in BOOLEAN
  /\ notice \in BOOLEAN
  /\ out \in {"wait", "get", "print", "write"}
  /\ chunk \in Seq(Chars)
  /\ Len(chunk) <= LineSize
  /\ shell \in BOOLEAN
  /\ printed \in Seq(Chars)
  /\ held \in 0 .. BufSize

\* The two flags tell an empty ring from a full one, and with the indices they
\* tell how many characters put into the ring have not been taken.
FlagsAgree ==
  /\ ~(full /\ empty)
  /\ write = read => full \/ empty
  /\ full \/ empty => write = read
  /\ Used = held

\* One task at a time is in the line buffer, the ring or the console, so a
\* line is put as it was composed and the shell does not write into one that
\* the output task is writing.
Busy == {t \in Loggers : pc[t] \in {"put", "unlock"}}
          \cup (IF out = "write" THEN {Output} ELSE {})
          \cup (IF shell THEN {Shell} ELSE {})

OneAtATime == Busy = {lock} \ {Nobody}

pending == chunk \o Stored(Used)

Stream == INSTANCE LogStream WITH Capacity <- BufSize, Limit <- BufSize + LineSize

\* The ring, with all its indices and flags, is a stream of characters: what
\* was accepted is printed in order and none twice, and a log is cut only
\* when the ring is full.
ImplementsStream == Stream!Spec

\* A notice is never lost: once nobody logs any more, the ring gets empty.
Quiet == lock \in {Nobody, Output} /\ ~shell /\ \A t \in Loggers : pc[t] = "idle"

Drains == <>[]Quiet => <>[](held = 0 /\ chunk = <<>>)
=============================================================================
