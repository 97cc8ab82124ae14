--------------------------- MODULE AsyncLog_proofs ---------------------------
(***************************************************************************)
(* Proofs about AsyncLog, for any number of tasks that log, any non-empty  *)
(* logs and any sizes of the ring and of the output task's buffer.         *)
(***************************************************************************)
EXTENDS AsyncLog, WellFoundedInduction, SequenceTheorems, TLAPS

(* The inductive invariant. *)

\* The flags and the indices by the number of characters in the ring.
RingInv ==
  /\ write \in 0 .. BufSize - 1 /\ read \in 0 .. BufSize - 1 /\ held \in 0 .. BufSize
  /\ full \in BOOLEAN /\ empty \in BOOLEAN
  /\ full <=> held = BufSize
  /\ empty <=> held = 0
  /\ write = (read + held) % BufSize

\* The lock and those who are where only its holder may be.
LockInv ==
  /\ lock \in Loggers \cup {Output, Shell, Nobody}
  /\ pc \in [Loggers -> {"idle", "lock", "put", "unlock"}]
  /\ out \in {"wait", "get", "print", "write"}
  /\ shell \in BOOLEAN
  /\ \A t \in Loggers : pc[t] \in {"put", "unlock"} <=> lock = t
  /\ out = "write" <=> lock = Output
  /\ shell <=> lock = Shell

\* What the variables hold, and what is in the making.
ContentInv ==
  /\ ring \in [0 .. BufSize - 1 -> Chars]
  /\ arg \in [Loggers -> Logs \cup {<<>>}]
  /\ \A t \in Loggers : pc[t] # "idle" => arg[t] \in Logs
  /\ logBuf \in Logs \cup {<<>>}
  /\ \A t \in Loggers : pc[t] = "put" => logBuf \in Logs
  /\ notice \in BOOLEAN
  /\ chunk \in Seq(Chars) /\ Len(chunk) <= LineSize
  /\ out \in {"wait", "get"} => chunk = <<>>
  /\ printed \in Seq(Chars)

LogInv == RingInv /\ LockInv /\ ContentInv
-----------------------------------------------------------------------------
(* Numbers. *)

\* An index goes round the ring at most once.
LEMMA Around ==
  ASSUME NEW n \in Nat \ {0}, NEW i \in 0 .. n - 1
  PROVE  i % n = i /\ (i + n) % n = i /\ (i - n) % n = i
<1>1. i % n = i
  OBVIOUS
<1>2. (i + n) % n = i
  OBVIOUS
<1>3. (i - n) % n = i
  OBVIOUS
<1> QED
  BY <1>1, <1>2, <1>3

LEMMA MinOfNaturals ==
  ASSUME NEW S \in SUBSET Nat, S # {}
  PROVE  Min(S) \in S
<1> DEFINE R == {ss \in Nat \X Nat : ss[1] < ss[2]}
<1>1. IsWellFoundedOn(R, Nat)
  BY NatLessThanWellFounded DEF OpToRel
<1>2. PICK x \in S : \A y \in S : <<y, x>> \notin R
  <2> HIDE DEF R
  <2> QED
    BY <1>1, WFMin
<1>3. ASSUME NEW y \in S PROVE x <= y
  <2>1. y < x => <<y, x>> \in R
    OBVIOUS
  <2> QED
    BY <1>2, <2>1
<1> QED
  BY <1>3 DEF Min
-----------------------------------------------------------------------------
(* Lines. *)

\* What elog_cpyln copies of n characters is at least one if there is any.
LEMMA LineLenBounds ==
  ASSUME NEW i, NEW n \in Nat
  PROVE  LineLen(i, n) \in 0 .. n /\ (n > 0 => LineLen(i, n) > 0)
<1> DEFINE ends == {k \in 1 .. n : ring[i + k - 1] = Newline}
<1>1. CASE ends = {}
  BY <1>1 DEF LineLen
<1>2. CASE ends # {}
  <2>1. Min(ends) \in ends
    BY <1>2, MinOfNaturals
  <2>2. LineLen(i, n) = Min(ends)
    BY <1>2 DEF LineLen
  <2> QED
    BY <2>1, <2>2
<1> QED
  BY <1>1, <1>2

\* So the output task gets at least one character and no more than it asked for.
LEMMA CutBounds ==
  ASSUME read \in 0 .. BufSize - 1, NEW n \in Nat \ {0}
  PROVE  Cut(n) \in 1 .. n
<1> DEFINE tail == BufSize - read
           part == LineLen(read, Least(n, tail))
<1>1. tail \in Nat \ {0} /\ Least(n, tail) \in 1 .. n
  BY SizesAssumption DEF Least
<1>2. part \in 1 .. n
  BY <1>1, LineLenBounds
<1>3. n - part \in Nat
  BY <1>2
<1>4. LineLen(0, n - part) \in 0 .. n - part
  BY <1>3, LineLenBounds
<1>5. Cut(n) = IF n >= tail /\ part = tail THEN part + LineLen(0, n - part) ELSE part
  BY DEF Cut
<1> HIDE DEF tail, part
<1> QED
  BY <1>2, <1>4, <1>5
-----------------------------------------------------------------------------
(* The ring. *)

\* An index that has gone round the ring once.
Wrap(a) == IF a < BufSize THEN a ELSE a - BufSize

LEMMA Wrapped ==
  ASSUME NEW a \in 0 .. BufSize + BufSize - 1
  PROVE  a % BufSize = Wrap(a) /\ Wrap(a) \in 0 .. BufSize - 1
<1>1. CASE a < BufSize
  BY <1>1, Around, SizesAssumption DEF Wrap
<1>2. CASE a >= BufSize
  <2>1. PICK i \in 0 .. BufSize - 1 : i = a - BufSize /\ i + BufSize = a
    BY <1>2, SizesAssumption
  <2>2. a % BufSize = i
    BY <2>1, Around, SizesAssumption
  <2> QED
    BY <1>2, <2>1, <2>2, SizesAssumption DEF Wrap
<1> QED
  BY <1>1, <1>2, SizesAssumption

\* elog_async_get_buf_used computes the number of characters in the ring.
LEMMA UsedIsHeld ==
  ASSUME RingInv
  PROVE  Used = held
<1>1. write = Wrap(read + held)
  BY Wrapped, SizesAssumption DEF RingInv
<1> QED
  BY <1>1, SizesAssumption DEF Used, RingInv, Wrap

\* A log that is put into the ring, or the part of it that has room.
LEMMA PutRing ==
  ASSUME RingInv, NEW log \in Logs, Put(log)
  PROVE  RingInv'
<1>1. /\ log \in Seq(Chars) /\ Len(log) \in Nat \ {0}
      /\ Space = BufSize - held
  BY LogsAssumption, UsedIsHeld DEF Space
<1>2. CASE Space = 0
  BY <1>2 DEF Put, indices, RingInv
<1>3. CASE Space # 0
  <2>1. PICK size \in 1 .. BufSize :
          size = Least(Space, Len(log)) /\ size <= Len(log) /\ size <= BufSize - held
    BY <1>1, <1>3, SizesAssumption DEF Least, RingInv
  <2>2. /\ write' = (write + size) % BufSize /\ read' = read /\ held' = held + size
        /\ full' = (full \/ Space <= Len(log)) /\ empty' = FALSE
    BY <1>3, <2>1 DEF Put
  <2>3. write' = (read' + held') % BufSize /\ write' \in 0 .. BufSize - 1
    <3>1. /\ write \in 0 .. BufSize - 1 /\ read \in 0 .. BufSize - 1 /\ held \in 0 .. BufSize
          /\ write = (read + held) % BufSize /\ BufSize \in Nat \ {0}
      BY SizesAssumption DEF RingInv
    <3>2. /\ write + size \in 0 .. BufSize + BufSize - 1
          /\ read + held \in 0 .. BufSize + BufSize - 1
          /\ read + (held + size) \in 0 .. BufSize + BufSize - 1
      BY <2>1, <3>1
    <3>3. /\ write = Wrap(read + held)
          /\ write' = Wrap(write + size) /\ write' \in 0 .. BufSize - 1
          /\ (read + (held + size)) % BufSize = Wrap(read + (held + size))
      BY Zenon, <2>2, <3>1, <3>2, Wrapped
    <3>4. Wrap(write + size) = Wrap(read + (held + size))
      <4>1. write = Wrap(read + held) /\ write \in 0 .. BufSize - 1 /\ read \in 0 .. BufSize - 1
            /\ held \in 0 .. BufSize /\ BufSize \in Nat /\ size \in 1 .. BufSize
            /\ held + size <= BufSize
        BY <2>1, <3>1, <3>3
      <4> QED
        BY <4>1 DEF Wrap
    <3> QED
      BY <2>2, <3>3, <3>4
  <2>4. held' \in 1 .. BufSize
    BY <2>1, <2>2, SizesAssumption DEF RingInv
  <2>5. held' = BufSize <=> held = BufSize \/ Space <= Len(log)
    BY <1>1, <2>1, <2>2, SizesAssumption DEF Least, RingInv
  <2>6. full' \in BOOLEAN /\ empty' \in BOOLEAN /\ (full' <=> held' = BufSize) /\ (empty' <=> held' = 0)
    <3>1. held' # 0
      BY <2>4, SizesAssumption
    <3> QED
      BY Zenon, <2>2, <2>5, <3>1 DEF RingInv
  <2>7. read' \in 0 .. BufSize - 1 /\ held' \in 0 .. BufSize
    BY <2>2, <2>4, SizesAssumption DEF RingInv
  <2> QED
    BY Zenon, <2>3, <2>6, <2>7 DEF RingInv
<1> QED
  BY <1>2, <1>3

\* A line that is taken out of it.
LEMMA GetLineRing ==
  ASSUME RingInv, GetLine
  PROVE  /\ RingInv'
         /\ \E n \in 1 .. held : /\ n <= LineSize /\ chunk' = Stored(n)
                                 /\ read' = Wrap(read + n) /\ held' = held - n
<1>1. Used = held /\ held > 0 /\ held \in 1 .. BufSize
  BY UsedIsHeld DEF GetLine, RingInv
<1>2. Least(held, LineSize) \in 1 .. held /\ Least(held, LineSize) <= LineSize
  BY <1>1, SizesAssumption DEF Least
<1>3. PICK n \in 1 .. held : n = Cut(Least(held, LineSize)) /\ n <= LineSize
  BY <1>1, <1>2, CutBounds, SizesAssumption DEF RingInv
<1>4. /\ chunk' = Stored(n) /\ read' = (read + n) % BufSize /\ empty' = (empty \/ held = n)
      /\ held' = (IF n > held THEN 0 ELSE held - n) /\ full' = FALSE /\ write' = write
  BY <1>1, <1>3 DEF GetLine
<1>5. held' = held - n /\ held' \in 0 .. BufSize - 1
  BY <1>1, <1>3, <1>4, SizesAssumption
<1>6. read' = Wrap(read + n) /\ read' \in 0 .. BufSize - 1
  BY <1>1, <1>3, <1>4, Wrapped, SizesAssumption DEF RingInv
<1>7. write' = (read' + held') % BufSize
  <2>1. write = Wrap(read + held)
    BY Wrapped, SizesAssumption DEF RingInv
  <2>2. (read' + held') % BufSize = Wrap(read' + held')
    BY <1>5, <1>6, Wrapped, SizesAssumption
  <2>3. Wrap(read' + held') = Wrap(read + held)
    <3>1. /\ read \in 0 .. BufSize - 1 /\ held \in 0 .. BufSize /\ BufSize \in Nat \ {0}
          /\ n \in 1 .. held
      BY <1>3, SizesAssumption DEF RingInv
    <3> QED
      BY <1>5, <1>6, <3>1 DEF Wrap
  <2> QED
    BY <1>4, <2>1, <2>2, <2>3
<1>8. full' \in BOOLEAN /\ empty' \in BOOLEAN /\ (full' <=> held' = BufSize) /\ (empty' <=> held' = 0)
  <2>1. held' # BufSize /\ (held' = 0 <=> held = n) /\ held # 0
    BY <1>1, <1>3, <1>5, SizesAssumption
  <2> QED
    BY Zenon, <1>4, <2>1 DEF RingInv
<1>9. RingInv'
  <2>1. write' \in 0 .. BufSize - 1 /\ held' \in 0 .. BufSize
    BY <1>4, <1>5, SizesAssumption DEF RingInv
  <2> QED
    BY Zenon, <1>6, <1>7, <1>8, <2>1 DEF RingInv
<1> QED
  BY <1>3, <1>4, <1>5, <1>6, <1>9

LEMMA RingStep ==
  ASSUME LogInv, [Next]_vars
  PROVE  RingInv'
<1>1. CASE \E t \in Loggers : AsyncOutput(t)
  <2>1. PICK t \in Loggers : AsyncOutput(t)
    BY <1>1
  <2>2. logBuf \in Logs /\ Put(logBuf)
    BY <2>1 DEF AsyncOutput, LogInv, ContentInv
  <2> QED
    BY <2>2, PutRing DEF LogInv
<1>2. CASE GetLine
  BY <1>2, GetLineRing DEF LogInv
<1>3. CASE UNCHANGED <<indices, held>>
  BY <1>3 DEF LogInv, RingInv, indices
<1>4. ASSUME NEW t \in Loggers,
             (\E log \in Logs : Log(t, log)) \/ Format(t) \/ Unlock(t)
      PROVE  UNCHANGED <<indices, held>>
  BY <1>4 DEF Log, Format, Unlock
<1>5. ASSUME AwaitNotice \/ GetNothing \/ BeginPrint \/ Write \/ WriteFails \/ EndPrint
      PROVE  UNCHANGED <<indices, held>>
  BY <1>5 DEF AwaitNotice, GetNothing, BeginPrint, Write, WriteFails, EndPrint
<1>6. ASSUME ShellWrite \/ ShellWritten \/ UNCHANGED vars
      PROVE  UNCHANGED <<indices, held>>
  BY <1>6 DEF ShellWrite, ShellWritten, vars, indices
<1> QED
  BY <1>1, <1>2, <1>3, <1>4, <1>5, <1>6 DEF Next, Logging, OutputTask
-----------------------------------------------------------------------------
(* The lock. *)

\* A logger's step.
LEMMA LoggerLock ==
  ASSUME LockInv, NEW t \in Loggers,
         (\E log \in Logs : Log(t, log)) \/ Format(t) \/ AsyncOutput(t) \/ Unlock(t)
  PROVE  LockInv'
<1> USE TasksAssumption
<1>1. out' = out /\ shell' = shell
  BY DEF Log, Format, AsyncOutput, Unlock
<1>2. /\ pc' \in [Loggers -> {"idle", "lock", "put", "unlock"}]
      /\ \A u \in Loggers \ {t} : pc'[u] = pc[u]
  BY DEF Log, Format, AsyncOutput, Unlock, LockInv
<1>3. \/ lock' = lock /\ (pc'[t] \in {"put", "unlock"} <=> pc[t] \in {"put", "unlock"})
      \/ lock = Nobody /\ lock' = t /\ pc'[t] \in {"put", "unlock"}
      \/ lock = t /\ lock' = Nobody /\ pc'[t] \notin {"put", "unlock"}
  BY DEF Log, Format, AsyncOutput, Unlock, LockInv
<1>4. lock' \in Loggers \cup {Output, Shell, Nobody}
  BY <1>3 DEF LockInv
<1>5. \A u \in Loggers : pc'[u] \in {"put", "unlock"} <=> lock' = u
  BY <1>2, <1>3 DEF LockInv
<1>6. (lock' = Output <=> lock = Output) /\ (lock' = Shell <=> lock = Shell)
  BY <1>3
<1> QED
  BY Zenon, <1>1, <1>2, <1>4, <1>5, <1>6 DEF LockInv

\* A step of the output task or of the shell.
LEMMA OtherLock ==
  ASSUME LockInv, OutputTask \/ ShellWrite \/ ShellWritten
  PROVE  LockInv'
<1> USE TasksAssumption
<1>1. pc' = pc
  BY DEF OutputTask, AwaitNotice, GetNothing, GetLine, BeginPrint, Write, WriteFails, EndPrint,
    ShellWrite, ShellWritten, loggers
<1>2. /\ out' \in {"wait", "get", "print", "write"}
      /\ \/ lock' = lock /\ shell' = shell /\ (out' = "write" <=> out = "write")
         \/ lock = Nobody /\ lock' = Output /\ shell' = shell /\ out' = "write"
         \/ out = "write" /\ lock' = Nobody /\ shell' = shell /\ out' # "write"
         \/ lock = Nobody /\ lock' = Shell /\ out' = out /\ shell' = TRUE
         \/ shell /\ lock' = Nobody /\ out' = out /\ shell' = FALSE
  BY DEF OutputTask, AwaitNotice, GetNothing, GetLine, BeginPrint, Write, WriteFails, EndPrint,
    ShellWrite, ShellWritten, LockInv
<1>3. lock = Nobody \/ lock = Output \/ lock = Shell => \A t \in Loggers : lock # t
  OBVIOUS
<1>4. CASE lock' = lock /\ shell' = shell /\ (out' = "write" <=> out = "write")
  BY Zenon, <1>1, <1>2, <1>4 DEF LockInv
<1>5. CASE lock = Nobody /\ lock' = Output /\ shell' = shell /\ out' = "write"
  BY <1>1, <1>5 DEF LockInv
<1>6. CASE out = "write" /\ lock' = Nobody /\ shell' = shell /\ out' # "write"
  BY <1>1, <1>2, <1>6 DEF LockInv
<1>7. CASE lock = Nobody /\ lock' = Shell /\ out' = out /\ shell' = TRUE
  BY <1>1, <1>7 DEF LockInv
<1>8. CASE shell /\ lock' = Nobody /\ out' = out /\ shell' = FALSE
  BY <1>1, <1>8 DEF LockInv
<1> QED
  BY <1>2, <1>4, <1>5, <1>6, <1>7, <1>8

LEMMA LockStep ==
  ASSUME LockInv, [Next]_vars
  PROVE  LockInv'
<1>1. CASE UNCHANGED vars
  BY Zenon, <1>1 DEF LockInv, vars
<1> QED
  BY <1>1, LoggerLock, OtherLock DEF Next, Logging
-----------------------------------------------------------------------------
(* The contents. *)

LEMMA PutContent ==
  ASSUME RingInv, ContentInv, NEW log \in Logs, Put(log)
  PROVE  ring' \in [0 .. BufSize - 1 -> Chars] /\ notice' \in BOOLEAN
<1>1. log \in Seq(Chars) /\ Len(log) \in Nat
  BY LogsAssumption
<1>2. CASE Space = 0
  BY <1>2 DEF Put, ContentInv
<1>3. CASE Space # 0
  <2> DEFINE size == Least(Space, Len(log))
  <2>1. /\ ring' = [i \in DOMAIN ring |->
                      IF (i - write) % BufSize < size THEN log[((i - write) % BufSize) + 1] ELSE ring[i]]
        /\ notice' = (notice \/ size > 0)
    BY <1>3 DEF Put
  <2>2. size <= Len(log) /\ size \in Int
    BY <1>1, UsedIsHeld, SizesAssumption DEF Least, Space, RingInv
  <2>3. \A i \in 0 .. BufSize - 1 : (i - write) % BufSize \in 0 .. BufSize - 1
    BY SizesAssumption DEF RingInv
  <2>4. ASSUME NEW k \in 0 .. BufSize - 1, k < size PROVE log[k + 1] \in Chars
    BY <1>1, <2>2, <2>4
  <2> HIDE DEF size
  <2> QED
    BY <2>1, <2>3, <2>4, SizesAssumption DEF ContentInv
<1> QED
  BY <1>2, <1>3

LEMMA StoredContent ==
  ASSUME read \in 0 .. BufSize - 1, ring \in [0 .. BufSize - 1 -> Chars], NEW n \in Nat
  PROVE  /\ Stored(n) \in Seq(Chars) /\ Len(Stored(n)) = n
         /\ \A k \in 1 .. n : Stored(n)[k] = ring[(read + k - 1) % BufSize]
<1>1. \A k \in 1 .. n : (read + k - 1) % BufSize \in 0 .. BufSize - 1
  BY SizesAssumption
<1>2. \A k \in 1 .. n : ring[(read + k - 1) % BufSize] \in Chars
  BY <1>1
<1> QED
  BY <1>2 DEF Stored

LEMMA ContentStep ==
  ASSUME LogInv, [Next]_vars
  PROVE  ContentInv'
<1> USE DEF LogInv
<1>1. ASSUME NEW t \in Loggers, NEW log \in Logs, Log(t, log) PROVE ContentInv'
  BY <1>1 DEF Log, ContentInv, LockInv
<1>2. ASSUME NEW t \in Loggers, Format(t) PROVE ContentInv'
  BY <1>2 DEF Format, ContentInv, LockInv
<1>3. ASSUME NEW t \in Loggers, AsyncOutput(t) PROVE ContentInv'
  <2>1. ring' \in [0 .. BufSize - 1 -> Chars] /\ notice' \in BOOLEAN
    BY <1>3, PutContent DEF AsyncOutput, ContentInv
  <2> QED
    BY <1>3, <2>1 DEF AsyncOutput, ContentInv, LockInv
<1>4. ASSUME NEW t \in Loggers, Unlock(t) PROVE ContentInv'
  BY <1>4 DEF Unlock, ContentInv, LockInv
<1>5. ASSUME GetLine PROVE ContentInv'
  <2>1. PICK n \in 1 .. held : n <= LineSize /\ chunk' = Stored(n)
    BY <1>5, GetLineRing
  <2>2. chunk' \in Seq(Chars) /\ Len(chunk') <= LineSize
    BY <2>1, StoredContent DEF RingInv, ContentInv
  <2>3. out' = "print" /\ UNCHANGED <<ring, arg, pc, logBuf, notice, printed>>
    BY <1>5 DEF GetLine, loggers
  <2> QED
    BY <2>2, <2>3 DEF ContentInv
<1>6. ASSUME Write PROVE ContentInv'
  <2>1. PICK n \in 1 .. Len(chunk) : printed' = First(chunk, n) /\ chunk' = Rest(chunk, n)
    BY <1>6 DEF Write
  <2>2. /\ chunk' \in Seq(Chars) /\ Len(chunk') <= Len(chunk) /\ printed' \in Seq(Chars)
    BY <2>1 DEF ContentInv, First, Rest
  <2>3. out' = "write" /\ UNCHANGED <<ring, arg, pc, logBuf, notice>>
    BY <1>6 DEF Write, loggers
  <2> QED
    BY <2>2, <2>3, SizesAssumption DEF ContentInv
<1>7. ASSUME AwaitNotice \/ GetNothing \/ BeginPrint \/ EndPrint PROVE ContentInv'
  <2>1. UNCHANGED <<ring, arg, pc, logBuf, chunk, printed>> /\ notice' \in BOOLEAN
    BY <1>7 DEF AwaitNotice, GetNothing, BeginPrint, EndPrint, loggers, ContentInv
  <2>2. out' \in {"wait", "get"} => chunk = <<>>
    BY <1>7 DEF AwaitNotice, GetNothing, BeginPrint, EndPrint, ContentInv
  <2> QED
    BY Zenon, <2>1, <2>2 DEF ContentInv
<1>8. ASSUME WriteFails PROVE ContentInv'
  BY <1>8, SizesAssumption DEF WriteFails, loggers, ContentInv
<1>9. ASSUME ShellWrite \/ ShellWritten \/ UNCHANGED vars PROVE ContentInv'
  <2>1. UNCHANGED <<ring, arg, pc, logBuf, notice, chunk, out, printed>>
    BY <1>9 DEF ShellWrite, ShellWritten, vars, loggers
  <2> QED
    BY Zenon, <2>1 DEF ContentInv
<1> QED
  BY <1>1, <1>2, <1>3, <1>4, <1>5, <1>6, <1>7, <1>8, <1>9 DEF Next, Logging, OutputTask

LEMMA LogInitial ==
  Init => LogInv
<1> SUFFICES ASSUME Init PROVE LogInv
  OBVIOUS
<1>1. RingInv
  <2>1. (read + held) % BufSize = 0
    BY Around, SizesAssumption DEF Init
  <2>2. 0 \in 0 .. BufSize - 1 /\ 0 \in 0 .. BufSize /\ 0 # BufSize
    BY SizesAssumption
  <2> QED
    BY Zenon, <2>1, <2>2 DEF Init, RingInv
<1>2. LockInv
  BY TasksAssumption DEF Init, LockInv
<1>3. ContentInv
  BY LogsAssumption, SizesAssumption DEF Init, ContentInv
<1> QED
  BY <1>1, <1>2, <1>3 DEF LogInv
-----------------------------------------------------------------------------
(* What follows. *)

\* Ring, lock and contents stay consistent, whoever logs, prints or writes.
THEOREM LogInvariant ==
  Spec => []LogInv
<1>1. LogInv /\ [Next]_vars => LogInv'
  BY RingStep, LockStep, ContentStep DEF LogInv
<1> QED
  BY <1>1, LogInitial, PTL DEF Spec

\* Every variable keeps its type; the indices stay in the ring.
THEOREM TypeCorrect ==
  Spec => []TypeOK
<1>1. LogInv => TypeOK
  BY Zenon DEF LogInv, RingInv, LockInv, ContentInv, TypeOK
<1> QED
  BY <1>1, LogInvariant, PTL

\* The indices and the two flags tell how many characters are in the ring,
\* for rings of any size (elog_async.c:88-110, elog_async_get_buf_used).
THEOREM FlagsSound ==
  Spec => []FlagsAgree
<1>1. ASSUME LogInv PROVE FlagsAgree
  <2>1. RingInv /\ Used = held
    BY <1>1, UsedIsHeld DEF LogInv
  <2>2. write = Wrap(read + held)
    BY <2>1, Wrapped, SizesAssumption DEF RingInv
  <2>3. BufSize \in Nat \ {0} /\ read \in 0 .. BufSize - 1 /\ held \in 0 .. BufSize
    BY <2>1, SizesAssumption DEF RingInv
  <2>4. write = read <=> held = 0 \/ held = BufSize
    BY <2>2, <2>3 DEF Wrap
  <2>5. ~ (held = 0 /\ held = BufSize)
    BY <2>3
  <2> QED
    BY Zenon, <2>1, <2>4, <2>5 DEF RingInv, FlagsAgree
<1> QED
  BY <1>1, LogInvariant, PTL

\* One task at a time is in the line buffer, the ring or the console
\* (agcore_console_adapter.c, elog_port.c).
THEOREM Exclusive ==
  Spec => []OneAtATime
<1>1. ASSUME LogInv PROVE OneAtATime
  <2>1. ASSUME NEW x PROVE x \in Busy <=> x = lock /\ x # Nobody
    BY <1>1, TasksAssumption DEF LogInv, LockInv, Busy
  <2> QED
    BY <2>1 DEF OneAtATime
<1> QED
  BY <1>1, LogInvariant, PTL
-----------------------------------------------------------------------------
(* The refinement of LogStream. *)

\* The n characters that a ring r holds from index i on.
Line(r, i, n) == [k \in 1 .. n |-> r[(i + k - 1) % BufSize]]

Rings == [0 .. BufSize - 1 -> Chars]

LEMMA LineIsSeq ==
  ASSUME NEW r \in Rings, NEW i \in 0 .. BufSize - 1, NEW n \in 0 .. BufSize
  PROVE  /\ Line(r, i, n) \in Seq(Chars) /\ Len(Line(r, i, n)) = n
         /\ \A k \in 1 .. n : Line(r, i, n)[k] = r[Wrap(i + k - 1)]
<1>1. ASSUME NEW k \in 1 .. n
      PROVE  /\ (i + k - 1) % BufSize = Wrap(i + k - 1)
             /\ r[(i + k - 1) % BufSize] \in Chars
  <2>1. i + k - 1 \in 0 .. BufSize + BufSize - 1
    BY SizesAssumption
  <2>2. (i + k - 1) % BufSize = Wrap(i + k - 1) /\ Wrap(i + k - 1) \in 0 .. BufSize - 1
    BY Zenon, <2>1, Wrapped
  <2> QED
    BY <2>2 DEF Rings
<1> DEFINE e(k) == r[(i + k - 1) % BufSize]
<1>2. \A k \in 1 .. n : e(k) \in Chars /\ e(k) = r[Wrap(i + k - 1)]
  BY <1>1
<1>3. n \in Nat
  BY SizesAssumption
<1>4. Line(r, i, n) = [k \in 1 .. n |-> e(k)]
  BY DEF Line
<1> HIDE DEF e
<1> QED
  BY <1>2, <1>3, <1>4

LEMMA Joined ==
  ASSUME NEW S, NEW s \in Seq(S), NEW u \in Seq(S), NEW v \in Seq(S),
         Len(v) = Len(s) + Len(u),
         \A k \in 1 .. Len(s) : v[k] = s[k],
         \A k \in 1 .. Len(u) : v[Len(s) + k] = u[k]
  PROVE  v = s \o u
<1>1. /\ s \o u \in Seq(S) /\ Len(s \o u) = Len(s) + Len(u)
      /\ \A k \in 1 .. Len(s) + Len(u) :
           (s \o u)[k] = IF k <= Len(s) THEN s[k] ELSE u[k - Len(s)]
  BY ConcatProperties
<1>2. ASSUME NEW k \in 1 .. Len(v) PROVE v[k] = (s \o u)[k]
  <2>1. CASE k <= Len(s)
    BY <1>1, <2>1
  <2>2. CASE k > Len(s)
    <3>1. k - Len(s) \in 1 .. Len(u) /\ Len(s) + (k - Len(s)) = k
      BY <2>2
    <3>2. v[k] = u[k - Len(s)]
      BY <3>1
    <3> QED
      BY <1>1, <2>2, <3>2
  <2> QED
    BY <2>1, <2>2
<1> QED
  BY <1>1, <1>2, SeqEqual

\* A difference of indices, taken round the ring.
LEMMA WrappedBack ==
  ASSUME NEW d \in Int, 0 <= d + BufSize, d < BufSize
  PROVE  d % BufSize = IF d >= 0 THEN d ELSE d + BufSize
<1>1. CASE d >= 0
  BY <1>1, Around, SizesAssumption
<1>2. CASE d < 0
  <2>1. PICK i \in 0 .. BufSize - 1 : i = d + BufSize /\ i - BufSize = d
    BY <1>2, SizesAssumption
  <2>2. (i - BufSize) % BufSize = i
    BY Around, SizesAssumption
  <2> QED
    BY <1>2, <2>1, <2>2
<1> QED
  BY <1>1, <1>2

\* How far the index of the k-th character is behind the end of n characters.
LEMMA Offset ==
  ASSUME NEW i \in 0 .. BufSize - 1, NEW n \in 0 .. BufSize, NEW k \in 1 .. BufSize
  PROVE  /\ Wrap(i + k - 1) \in 0 .. BufSize - 1
         /\ (Wrap(i + k - 1) - Wrap(i + n)) % BufSize =
              IF k <= n THEN BufSize + k - 1 - n ELSE k - 1 - n
<1>1. BufSize \in Nat \ {0}
  BY SizesAssumption
<1>2. PICK w \in 0 .. BufSize - 1 : w = Wrap(i + n)
  <2>1. i + n \in 0 .. BufSize + BufSize - 1
    BY <1>1
  <2> QED
    BY <2>1, Wrapped
<1>3. PICK x \in 0 .. BufSize - 1 : x = Wrap(i + k - 1)
  <2>1. i + k - 1 \in 0 .. BufSize + BufSize - 1
    BY <1>1
  <2> QED
    BY <2>1, Wrapped
<1>4. PICK d \in Int : d = x - w /\ 0 <= d + BufSize /\ d < BufSize
  BY <1>1
<1>5. d % BufSize = IF d >= 0 THEN d ELSE d + BufSize
  BY <1>4, WrappedBack
<1>6. (IF d >= 0 THEN d ELSE d + BufSize) = IF k <= n THEN BufSize + k - 1 - n ELSE k - 1 - n
  BY <1>1, <1>2, <1>3, <1>4 DEF Wrap
<1> QED
  BY <1>2, <1>3, <1>4, <1>5, <1>6

\* Ring q is ring r with size characters of a log written from index w on.
WrittenAt(q, r, w, log, size) ==
  \A j \in 0 .. BufSize - 1 :
    q[j] = IF (j - w) % BufSize < size THEN log[((j - w) % BufSize) + 1] ELSE r[j]

\* What is written behind n characters comes after them.
LEMMA LineGrows ==
  ASSUME NEW r \in Rings, NEW q \in Rings, NEW i \in 0 .. BufSize - 1, NEW n \in 0 .. BufSize,
         NEW w, w = Wrap(i + n),
         NEW log \in Seq(Chars), NEW size \in 0 .. Len(log), n + size <= BufSize,
         WrittenAt(q, r, w, log, size)
  PROVE  Line(q, i, n + size) = Line(r, i, n) \o First(log, size)
<1> DEFINE new == Line(q, i, n + size)
           old == Line(r, i, n)
           put == First(log, size)
<1>1. BufSize \in Nat \ {0} /\ size \in Nat /\ n \in Nat /\ n + size \in 0 .. BufSize
  BY SizesAssumption
<1>2. w \in 0 .. BufSize - 1
  BY <1>1 DEF Wrap
<1>3. /\ new \in Seq(Chars) /\ Len(new) = n + size
      /\ \A k \in 1 .. n + size : new[k] = q[Wrap(i + k - 1)]
  BY <1>1, LineIsSeq
<1>4. old \in Seq(Chars) /\ Len(old) = n /\ \A k \in 1 .. n : old[k] = r[Wrap(i + k - 1)]
  BY LineIsSeq
<1>5. put \in Seq(Chars) /\ Len(put) = size /\ \A k \in 1 .. size : put[k] = log[k]
  BY <1>1 DEF First
<1> HIDE DEF new, old, put
<1>6. \A k \in 1 .. n + size :
        /\ Wrap(i + k - 1) \in 0 .. BufSize - 1
        /\ (Wrap(i + k - 1) - w) % BufSize = IF k <= n THEN BufSize + k - 1 - n ELSE k - 1 - n
  <2>1. \A k \in 1 .. n + size : k \in 1 .. BufSize
    BY <1>1
  <2> QED
    BY Zenon, <2>1, Offset
<1>7. ASSUME NEW k \in 1 .. n PROVE new[k] = old[k]
  <2>1. k \in 1 .. n + size /\ ~ (BufSize + k - 1 - n < size)
    BY <1>1
  <2>2. q[Wrap(i + k - 1)] = r[Wrap(i + k - 1)]
    BY <1>6, <2>1 DEF WrittenAt
  <2> QED
    BY <1>3, <1>4, <2>1, <2>2
<1>8. ASSUME NEW k \in 1 .. size PROVE new[n + k] = put[k]
  <2>1. n + k \in 1 .. n + size /\ ~ (n + k <= n) /\ n + k - 1 - n = k - 1 /\ k - 1 < size
        /\ k - 1 + 1 = k
    BY <1>1
  <2>2. (Wrap(i + (n + k) - 1) - w) % BufSize = k - 1 /\ Wrap(i + (n + k) - 1) \in 0 .. BufSize - 1
    <3>1. PICK l \in 1 .. n + size : l = n + k /\ ~ (l <= n) /\ l - 1 - n = k - 1
      BY <1>1, <2>1
    <3>2. Wrap(i + l - 1) \in 0 .. BufSize - 1 /\ (Wrap(i + l - 1) - w) % BufSize = k - 1
      BY <1>6, <3>1
    <3> QED
      BY <3>1, <3>2
  <2>3. q[Wrap(i + (n + k) - 1)] = log[k]
    BY <2>1, <2>2 DEF WrittenAt
  <2> QED
    BY <1>3, <1>5, <2>1, <2>3
<1>9. new = old \o put
  BY <1>3, <1>4, <1>5, <1>7, <1>8, Joined
<1> QED
  BY <1>9 DEF new, old, put

\* Taking n characters leaves those after them.
LEMMA LineSplits ==
  ASSUME NEW r \in Rings, NEW i \in 0 .. BufSize - 1, NEW m \in 0 .. BufSize, NEW n \in 0 .. m
  PROVE  Line(r, i, m) = Line(r, i, n) \o Line(r, Wrap(i + n), m - n)
<1>1. BufSize \in Nat \ {0} /\ m \in Nat /\ n \in Nat /\ n \in 0 .. BufSize /\ m - n \in 0 .. BufSize
  BY SizesAssumption
<1>2. PICK h \in 0 .. BufSize - 1 : h = Wrap(i + n)
  <2>1. i + n \in 0 .. BufSize + BufSize - 1
    BY <1>1
  <2> QED
    BY <2>1, Wrapped
<1> DEFINE all == Line(r, i, m)
           one == Line(r, i, n)
           two == Line(r, h, m - n)
<1>3. all \in Seq(Chars) /\ Len(all) = m /\ \A k \in 1 .. m : all[k] = r[Wrap(i + k - 1)]
  BY LineIsSeq
<1>4. one \in Seq(Chars) /\ Len(one) = n /\ \A k \in 1 .. n : one[k] = r[Wrap(i + k - 1)]
  BY <1>1, LineIsSeq
<1>5. /\ two \in Seq(Chars) /\ Len(two) = m - n
      /\ \A k \in 1 .. m - n : two[k] = r[Wrap(h + k - 1)]
  BY <1>1, LineIsSeq
<1> HIDE DEF all, one, two
<1>6. ASSUME NEW k \in 1 .. m - n PROVE all[n + k] = two[k]
  <2>1. n + k \in 1 .. m /\ Wrap(h + k - 1) = Wrap(i + (n + k) - 1)
    BY <1>1, <1>2 DEF Wrap
  <2> QED
    BY <1>3, <1>5, <2>1
<1>7. ASSUME NEW k \in 1 .. n PROVE all[k] = one[k]
  <2>1. k \in 1 .. m
    BY <1>1
  <2> QED
    BY <1>3, <1>4, <2>1
<1>8. all = one \o two
  <2>1. Len(all) = Len(one) + Len(two)
    BY <1>1, <1>3, <1>4, <1>5
  <2>2. /\ \A k \in 1 .. Len(one) : all[k] = one[k]
        /\ \A k \in 1 .. Len(two) : all[Len(one) + k] = two[k]
    BY <1>4, <1>5, <1>6, <1>7
  <2> QED
    BY <1>3, <1>4, <1>5, <2>1, <2>2, Joined
<1> QED
  BY <1>2, <1>8 DEF all, one, two

LEMMA Concatenated ==
  ASSUME NEW S, NEW s \in Seq(S), NEW u \in Seq(S)
  PROVE  /\ s \o u \in Seq(S) /\ Len(s \o u) = Len(s) + Len(u)
         /\ \A k \in 1 .. Len(s) : (s \o u)[k] = s[k]
         /\ \A k \in 1 .. Len(u) : (s \o u)[Len(s) + k] = u[k]
  BY ConcatProperties

LEMMA RestOf ==
  ASSUME NEW S, NEW s \in Seq(S), NEW n \in 1 .. Len(s)
  PROVE  /\ Rest(s, n) \in Seq(S) /\ Len(Rest(s, n)) = Len(s) - n
         /\ \A k \in 1 .. Len(s) - n : Rest(s, n)[k] = s[n + k]
  BY DEF Rest

\* A piece at the beginning of a sequence.
LEMMA PieceOf ==
  ASSUME NEW S, NEW s \in Seq(S), NEW u \in Seq(S), NEW n \in 1 .. Len(s)
  PROVE  First(s \o u, n) = First(s, n) /\ Rest(s \o u, n) = Rest(s, n) \o u
<1> DEFINE all == s \o u
           v == Rest(all, n)
           rest == Rest(s, n)
<1>1. First(all, n) = First(s, n)
  BY SubSeqOfConcat1 DEF First
<1>2. /\ all \in Seq(S) /\ Len(all) = Len(s) + Len(u)
      /\ \A k \in 1 .. Len(s) : all[k] = s[k]
      /\ \A k \in 1 .. Len(u) : all[Len(s) + k] = u[k]
  BY Concatenated
<1>3. Len(s) \in Nat /\ Len(u) \in Nat /\ n \in 1 .. Len(s) /\ n \in 1 .. Len(s) + Len(u)
  OBVIOUS
<1>4. rest \in Seq(S) /\ Len(rest) = Len(s) - n /\ \A k \in 1 .. Len(s) - n : rest[k] = s[n + k]
  BY RestOf
<1> HIDE DEF all, rest
<1>5. /\ v \in Seq(S) /\ Len(v) = Len(s) + Len(u) - n
      /\ \A k \in 1 .. Len(s) + Len(u) - n : v[k] = all[n + k]
  <2>1. Len(all) = Len(s) + Len(u) /\ n \in 1 .. Len(all)
    BY <1>2, <1>3
  <2>2. /\ v \in Seq(S) /\ Len(v) = Len(all) - n
        /\ \A k \in 1 .. Len(all) - n : v[k] = all[n + k]
    BY <1>2, <2>1, RestOf
  <2> HIDE DEF v
  <2> QED
    BY <2>1, <2>2
<1> HIDE DEF v
<1>6. ASSUME NEW k \in 1 .. Len(rest) PROVE v[k] = rest[k]
  <2>1. k \in 1 .. Len(s) - n /\ n + k \in 1 .. Len(s) /\ k \in 1 .. Len(s) + Len(u) - n
    BY <1>3, <1>4
  <2> QED
    BY <1>2, <1>4, <1>5, <2>1
<1>7. ASSUME NEW k \in 1 .. Len(u) PROVE v[Len(rest) + k] = u[k]
  <2>0. Len(rest) = Len(s) - n
    BY <1>4
  <2>1. PICK l \in 1 .. Len(s) + Len(u) - n : l = Len(s) - n + k
    BY <1>3
  <2>2. v[l] = all[Len(s) + k]
    <3>1. n + l = Len(s) + k
      BY <1>3, <2>1
    <3> QED
      BY <1>5, <2>1, <3>1
  <2> QED
    BY <1>2, <2>0, <2>1, <2>2
<1>8. v = rest \o u
  <2>1. Len(v) = Len(rest) + Len(u)
    BY <1>3, <1>4, <1>5
  <2> QED
    BY <1>4, <1>5, <1>6, <1>7, <2>1, Joined
<1> QED
  BY <1>1, <1>8 DEF all, v, rest

\* The same in the next state.
LEMMA UsedNext ==
  RingInv' => Used' = held'
<1>1. RingInv => Used = held
  BY UsedIsHeld
<1>2. (RingInv => Used = held)'
  BY <1>1, PTL
<1> QED
  BY <1>2

LEMMA Pending ==
  ASSUME LogInv, LogInv'
  PROVE  /\ pending = chunk \o Line(ring, read, held)
         /\ pending' = chunk' \o Line(ring', read', held')
         /\ ring \in Rings /\ read \in 0 .. BufSize - 1 /\ held \in 0 .. BufSize
         /\ Line(ring, read, held) \in Seq(Chars) /\ Len(Line(ring, read, held)) = held
         /\ chunk \in Seq(Chars) /\ Len(chunk) <= LineSize
<1>1. Used = held /\ Used' = held'
  BY UsedIsHeld, UsedNext DEF LogInv
<1>2. ring \in Rings /\ read \in 0 .. BufSize - 1 /\ held \in 0 .. BufSize
  BY DEF LogInv, RingInv, ContentInv, Rings
<1>3. Line(ring, read, held) \in Seq(Chars) /\ Len(Line(ring, read, held)) = held
  BY <1>2, LineIsSeq
<1>4. /\ pending = chunk \o Line(ring, read, held)
      /\ pending' = chunk' \o Line(ring', read', held')
  BY <1>1 DEF pending, Stored, Line
<1> QED
  BY <1>2, <1>3, <1>4 DEF LogInv, ContentInv

\* A log is accepted, as much of it as there is room.
LEMMA AcceptStep ==
  ASSUME LogInv, LogInv', NEW t \in Loggers, AsyncOutput(t)
  PROVE  (\E log \in Logs : Stream!Accept(log)) \/ UNCHANGED <<pending, printed>>
<1>1. /\ logBuf \in Logs /\ Put(logBuf) /\ chunk' = chunk /\ printed' = printed
      /\ logBuf \in Seq(Chars) /\ Len(logBuf) \in Nat
  BY LogsAssumption DEF AsyncOutput, LogInv, ContentInv
<1>2. Space = BufSize - held /\ BufSize \in Nat \ {0} /\ LineSize \in Nat
  BY UsedIsHeld, SizesAssumption DEF LogInv, Space
<1> DEFINE line == Line(ring, read, held)
<1>5. /\ ring \in Rings /\ read \in 0 .. BufSize - 1 /\ held \in 0 .. BufSize
      /\ line \in Seq(Chars) /\ Len(line) = held
      /\ chunk \in Seq(Chars) /\ Len(chunk) \in Nat /\ Len(chunk) <= LineSize
      /\ pending = chunk \o line /\ pending' = chunk' \o Line(ring', read', held')
  BY Pending
<1>3. CASE Space = 0
  <2>1. ring' = ring /\ read' = read /\ held' = held
    BY <1>1, <1>3 DEF Put, indices
  <2> QED
    BY <1>1, <2>1, Pending
<1>4. CASE Space # 0
  <2>1. PICK size \in 0 .. Len(logBuf) : size = Least(Space, Len(logBuf)) /\ held + size <= BufSize
    BY <1>1, <1>2, <1>4, <1>5 DEF Least
  <2>2. /\ ring' = [i \in DOMAIN ring |->
                      IF (i - write) % BufSize < size THEN logBuf[((i - write) % BufSize) + 1]
                      ELSE ring[i]]
        /\ read' = read /\ held' = held + size
    BY <1>1, <1>4, <2>1 DEF Put
  <2>3. write = Wrap(read + held)
    <3>1. read + held \in 0 .. BufSize + BufSize - 1
      BY <1>2, Pending
    <3> QED
      BY <3>1, Wrapped DEF LogInv, RingInv
  <2>4. ring' \in Rings /\ WrittenAt(ring', ring, write, logBuf, size)
    <3>1. DOMAIN ring = 0 .. BufSize - 1
      BY Pending DEF Rings
    <3> QED
      BY <2>2, <3>1 DEF LogInv, ContentInv, Rings, WrittenAt
  <2>5. Line(ring', read, held + size) = Line(ring, read, held) \o First(logBuf, size)
    BY Zenon, <1>1, <1>5, <2>1, <2>3, <2>4, LineGrows
  <2>6. First(logBuf, size) \in Seq(Chars) /\ Len(First(logBuf, size)) = size
    BY <1>1, <2>1 DEF First
  <2>7. pending' = pending \o First(logBuf, size)
    <3>1. pending' = chunk \o (line \o First(logBuf, size))
      BY <1>1, <1>5, <2>2, <2>5
    <3>2. PICK a \in Seq(Chars), b \in Seq(Chars), c \in Seq(Chars) :
            a = chunk /\ b = line /\ c = First(logBuf, size)
      BY <1>5, <2>6
    <3>3. (a \o b) \o c = a \o (b \o c)
      BY ConcatAssociative
    <3>4. pending' = a \o (b \o c) /\ pending = a \o b
      BY <1>5, <3>1, <3>2
    <3> QED
      BY <3>2, <3>3, <3>4
  <2>8. /\ pending \in Seq(Chars) /\ Len(pending) = Len(chunk) + held
        /\ Len(pending') = Len(chunk) + held + size
    <3>1. pending \in Seq(Chars) /\ Len(pending) = Len(chunk) + held
      BY <1>5, Concatenated
    <3>2. Len(pending') = Len(pending) + size
      BY <2>6, <2>7, <3>1, Concatenated
    <3> QED
      BY <1>5, <2>1, <3>1, <3>2
  <2>9. Len(pending') < Len(pending) + Len(logBuf) => Len(pending') >= BufSize
    <3>1. size < Len(logBuf) => held + size = BufSize
      BY <1>1, <1>2, <1>5, <2>1 DEF Least
    <3> QED
      BY <1>1, <1>2, <1>5, <2>1, <2>8, <3>1
  <2>10. Len(pending') <= BufSize + LineSize
    BY <1>1, <1>2, <1>5, <2>1, <2>8
  <2>11. pending' = pending \o Stream!First(logBuf, size)
    BY <2>7 DEF Stream!First, First
  <2> QED
    BY <1>1, <2>1, <2>9, <2>10, <2>11 DEF Stream!Accept
<1> QED
  BY <1>3, <1>4

\* A line that the output task takes is still to be printed.
LEMMA TakeStep ==
  ASSUME LogInv, LogInv', GetLine
  PROVE  UNCHANGED <<pending, printed>>
<1>1. PICK n \in 1 .. held : chunk' = Stored(n) /\ read' = Wrap(read + n) /\ held' = held - n
  BY GetLineRing DEF LogInv
<1>2. ring' = ring /\ printed' = printed /\ chunk = <<>>
  BY DEF GetLine, LogInv, ContentInv
<1>3. Line(ring, read, held) = Line(ring, read, n) \o Line(ring, Wrap(read + n), held - n)
  <2>1. ring \in Rings /\ read \in 0 .. BufSize - 1 /\ held \in 0 .. BufSize
    BY Pending
  <2> QED
    BY <2>1, LineSplits
<1>4. chunk' = Line(ring, read, n)
  BY <1>1 DEF Stored, Line
<1>5. pending = Line(ring, read, held)
  BY <1>2, Pending, ConcatEmptySeq
<1> QED
  BY <1>1, <1>2, <1>3, <1>4, <1>5, Pending

\* The console takes a part, or nothing of what is left.
LEMMA WriteStep ==
  ASSUME LogInv, LogInv', Write \/ WriteFails
  PROVE  Stream!PrintSome \/ Stream!Lose
<1> DEFINE line == Line(ring, read, held)
<1>1. ring' = ring /\ read' = read /\ held' = held
  BY DEF Write, WriteFails, indices
<1>2. /\ pending = chunk \o line /\ pending' = chunk' \o line
      /\ chunk \in Seq(Chars) /\ line \in Seq(Chars)
  BY <1>1, Pending
<1> HIDE DEF line
<1>3. \A n \in 1 .. Len(chunk) : n \in 1 .. Len(pending)
  BY <1>2
<1>4. CASE Write
  <2>1. PICK n \in 1 .. Len(chunk) : printed' = First(chunk, n) /\ chunk' = Rest(chunk, n)
    BY <1>4 DEF Write
  <2>2. printed' = First(pending, n) /\ pending' = Rest(pending, n)
    BY <1>2, <2>1, PieceOf
  <2>3. n \in 1 .. Len(pending)
    BY <1>3
  <2>4. printed' = Stream!First(pending, n) /\ pending' = Stream!Rest(pending, n)
    BY <2>2 DEF Stream!First, Stream!Rest, First, Rest
  <2> QED
    BY <2>3, <2>4 DEF Stream!PrintSome
<1>5. CASE WriteFails
  <2>1. chunk # <<>> /\ chunk' = <<>> /\ printed' = printed
    BY <1>5 DEF WriteFails
  <2>2. PICK n \in 1 .. Len(chunk) : n = Len(chunk)
    BY <1>2, <2>1
  <2>3. Rest(chunk, n) = <<>>
    BY <1>2, <2>2 DEF Rest
  <2>4. pending' = Rest(pending, n)
    BY <1>2, <2>1, <2>3, PieceOf
  <2>5. n \in 1 .. Len(pending)
    BY <1>3
  <2>6. pending' = Stream!Rest(pending, n)
    BY <2>4 DEF Stream!Rest, Rest
  <2> QED
    BY <2>1, <2>5, <2>6 DEF Stream!Lose
<1> QED
  BY <1>4, <1>5

\* Nothing else changes what is in the ring or with the output task.
LEMMA OtherStep ==
  ASSUME LogInv, LogInv', UNCHANGED <<chunk, ring, indices, held, printed>>
  PROVE  UNCHANGED <<pending, printed>>
  BY Pending DEF indices

\* The ring with its indices and flags, the line buffer, the notices and the
\* lock implement a stream of characters that cuts a log only when it is full
\* (elog_async.c, agcore_console_log.c).
THEOREM StreamImplemented ==
  Spec => ImplementsStream
<1>1. Init => Stream!Init
  <2>1. Init => pending = <<>>
    <3> SUFFICES ASSUME Init PROVE pending = <<>>
      OBVIOUS
    <3>1. Used = 0
      BY LogInitial, UsedIsHeld DEF LogInv, Init
    <3>2. Stored(0) = <<>>
      BY DEF Stored
    <3> QED
      BY <3>1, <3>2 DEF pending, Init
  <2> QED
    BY <2>1 DEF Stream!Init, Init
<1>2. ASSUME LogInv, LogInv', [Next]_vars
      PROVE  [Stream!Next]_<<pending, printed>>
  <2>1. CASE \E t \in Loggers : AsyncOutput(t)
    BY <1>2, <2>1, AcceptStep DEF Stream!Next
  <2>2. CASE GetLine
    BY <1>2, <2>2, TakeStep
  <2>3. CASE Write \/ WriteFails
    BY <1>2, <2>3, WriteStep DEF Stream!Next
  <2>4. ASSUME NEW t \in Loggers, (\E log \in Logs : Log(t, log)) \/ Format(t) \/ Unlock(t)
        PROVE  UNCHANGED <<chunk, ring, indices, held, printed>>
    BY <2>4 DEF Log, Format, Unlock
  <2>5. ASSUME \/ AwaitNotice \/ GetNothing \/ BeginPrint \/ EndPrint
               \/ ShellWrite \/ ShellWritten \/ UNCHANGED vars
        PROVE  UNCHANGED <<chunk, ring, indices, held, printed>>
    BY <2>5 DEF AwaitNotice, GetNothing, BeginPrint, EndPrint, ShellWrite, ShellWritten, vars, indices
  <2> QED
    BY <1>2, <2>1, <2>2, <2>3, <2>4, <2>5, OtherStep DEF Next, Logging, OutputTask
<1> QED
  BY <1>1, <1>2, LogInvariant, PTL DEF Spec, ImplementsStream, Stream!Spec
=============================================================================
