------------------------------ MODULE Lifecycle ------------------------------
(***************************************************************************)
(* The boot statistics of common/lifecycle/agcore_lifecycle.c and the one  *)
(* record they keep in flash through common/persist/agcore_nvs.c.          *)
(*                                                                         *)
(* A boot reads the record, counts itself, decides why it boots and writes *)
(* the record back; once the device has run for the stable time, a task,   *)
(* or before that the application, marks the boot stable.  The power may   *)
(* fail at any moment.  The flash (external) replaces a blob as a whole:   *)
(* it holds the old record or the new one, and after a failed write it may *)
(* hold either.                                                            *)
(*                                                                         *)
(* A record whose magic or CRC is wrong is the same as none: Blank.  The   *)
(* reset reason is left out, nothing depends on it.                        *)
(***************************************************************************)
EXTENDS Integers

CONSTANTS
  FactoryBoots,   \* CONFIG_AGCORE_LIFECYCLE_FACTORY_BOOT_COUNT
  Blank,          \* no valid record in flash
  ReadMayFail,    \* whether nvs_open or nvs_get_blob may fail with a record there
  SaveMayFail,    \* whether nvs_open, nvs_set_blob or nvs_commit may fail
  MaxBoots        \* bound: boots in a behaviour; no counter gets to 2^32

ASSUME LifecycleAssumption ==
  /\ FactoryBoots \in Nat \ {0}
  /\ ReadMayFail \in BOOLEAN
  /\ SaveMayFail \in BOOLEAN
  /\ MaxBoots \in Nat
  /\ Blank \notin [total: Nat, streak: Nat, reason: {"normal", "blank", "factory"}]

Callers == {"task", "app"}    \* who calls agcore_lifecycle_mark_stable

VARIABLES
  flash,      \* external: the record in NVS
  pc,         \* where agcore_lifecycle_init is
  data,       \* g_agcore_lifecycle_data
  reason,     \* g_agcore_boot_reason
  marking,    \* for each caller, where its agcore_lifecycle_mark_stable is
  boots,      \* history: times the power came on
  opens,      \* history: ... since a stable mark last got into flash
  kept,       \* history: boots whose record got into flash since then
  factory,    \* history: what flash held made one of them a factory boot
  defaulted   \* history: one of them found no record, or its read failed

ram == <<data, reason, marking>>
history == <<opens, kept, factory, defaulted>>
vars == <<flash, pc, data, reason, marking, boots, opens, kept, factory, defaulted>>

NoData == [total |-> 0, streak |-> 0]
NoMarking == [c \in Callers |-> "none"]

\* agcore_lifecycle_is_factory_boot
IsFactory == reason \in {"factory", "blank"}

Init ==
  /\ flash = Blank
  /\ pc = "off"
  /\ data = NoData
  /\ reason = "normal"
  /\ marking = NoMarking
  /\ boots = 0
  /\ opens = 0
  /\ kept = 0
  /\ factory = FALSE
  /\ defaulted = FALSE
-----------------------------------------------------------------------------
(* Power. *)

PowerOn ==
  /\ pc = "off"
  /\ boots < MaxBoots
  /\ pc' = "read"
  /\ boots' = boots + 1
  /\ opens' = opens + 1
  /\ UNCHANGED <<flash, ram, kept, factory, defaulted>>

\* Everything but the flash is lost.
PowerOff ==
  /\ pc # "off"
  /\ pc' = "off"
  /\ data' = NoData
  /\ reason' = "normal"
  /\ marking' = NoMarking
  /\ UNCHANGED <<flash, boots, history>>
-----------------------------------------------------------------------------
(* agcore_lifecycle_save *)

\* Mutant of Record: the boot reason is not brought up to date.
RecordOldReason ==
  [total |-> data.total, streak |-> data.streak,
   reason |-> IF flash = Blank THEN "normal" ELSE flash.reason]

\* What is written: the statistics and, with them, the present boot reason.
Record == [total |-> data.total, streak |-> data.streak, reason |-> reason]

\* The record gets into flash.  One without a streak is a stable mark.
Written ==
  /\ flash' = Record
  /\ IF data.streak = 0
     THEN opens' = 0 /\ kept' = 0 /\ factory' = FALSE /\ defaulted' = FALSE
     ELSE kept' = kept + 1 /\ UNCHANGED <<opens, factory, defaulted>>

\* The record may not get there: only when writing may fail.
NotWritten == SaveMayFail /\ UNCHANGED <<flash, history>>
-----------------------------------------------------------------------------
(* agcore_lifecycle_init *)

\* agcore_lifecycle_data_default, and the reason that goes with it.
Default == [total |-> 0, streak |-> 0, reason |-> "blank"]

\* The statistics and the reason a boot begins with: those of flash, or the
\* default.  Any error of the read leaves the buffer zeroed, which is not a
\* valid record, so that it ends in the default too.
Readings ==
  (IF flash = Blank THEN {} ELSE {flash})
    \cup (IF flash = Blank \/ ReadMayFail THEN {Default} ELSE {})

\* Mutant of Decided: one boot too early.
DecidedEarly(r) == IF r.streak + 2 >= FactoryBoots THEN "factory" ELSE r.reason

\* The reason after the boot itself is counted.
Decided(r) == IF r.streak + 1 >= FactoryBoots THEN "factory" ELSE r.reason

Read ==
  /\ pc = "read"
  /\ pc' = "save"
  /\ \E r \in Readings :
       /\ data' = [total |-> r.total + 1, streak |-> r.streak + 1]
       /\ reason' = Decided(r)
       /\ factory' = (factory \/ (IsFactory' /\ flash \in {r, Blank}))
       /\ defaulted' = (defaulted \/ r = Default)
  /\ UNCHANGED <<flash, marking, boots, opens, kept>>

\* agcore_lifecycle_save, and the task is created, unless there is no memory.
SaveOk ==
  /\ pc = "save"
  /\ Written
  /\ pc' = "up"
  /\ \E created \in BOOLEAN :
       marking' = IF created THEN [marking EXCEPT !["task"] = "clear"] ELSE marking
  /\ UNCHANGED <<data, reason, boots>>

\* An error: init returns it and creates no task.
SaveFails ==
  /\ pc = "save"
  /\ SaveMayFail
  /\ Written \/ NotWritten
  /\ pc' = "up"
  /\ UNCHANGED <<ram, boots>>
-----------------------------------------------------------------------------
(* agcore_lifecycle_mark_stable, by the task after its delay and by the    *)
(* application whenever it likes.                                          *)

AppCalls ==
  /\ pc = "up"
  /\ marking["app"] = "none"
  /\ marking' = [marking EXCEPT !["app"] = "clear"]
  /\ UNCHANGED <<flash, pc, data, reason, boots, history>>

\* Mutant of Clear: the streak is counted down, below zero the second time.
ClearCountsDown(c) ==
  /\ marking[c] = "clear"
  /\ data' = [data EXCEPT !.streak = @ - 1]
  /\ reason' = "normal"
  /\ marking' = [marking EXCEPT ![c] = "save"]
  /\ UNCHANGED <<flash, pc, boots, history>>

Clear(c) ==
  /\ marking[c] = "clear"
  /\ data' = [data EXCEPT !.streak = 0]
  /\ reason' = "normal"
  /\ marking' = [marking EXCEPT ![c] = "save"]
  /\ UNCHANGED <<flash, pc, boots, history>>

SaveMark(c) ==
  /\ marking[c] = "save"
  /\ Written \/ NotWritten
  /\ marking' = [marking EXCEPT ![c] = "none"]
  /\ UNCHANGED <<pc, data, reason, boots>>

MarkStable(c) == Clear(c) \/ SaveMark(c)

Next ==
  \/ PowerOn \/ PowerOff
  \/ Read \/ SaveOk \/ SaveFails
  \/ AppCalls \/ \E c \in Callers : MarkStable(c)

Spec == Init /\ [][Next]_vars
-----------------------------------------------------------------------------
(* Properties *)

Reasons == {"normal", "blank", "factory"}

\* Types.
TypeOK ==
  /\ flash = Blank \/ flash \in [total: Nat, streak: Nat, reason: Reasons]
  /\ pc \in {"off", "read", "save", "up"}
  /\ data \in [total: Nat, streak: Nat]
  /\ reason \in Reasons
  /\ marking \in [Callers -> {"none", "clear", "save"}]
  /\ boots \in 0 .. MaxBoots
  /\ opens \in 0 .. MaxBoots
  /\ kept \in Nat
  /\ factory \in BOOLEAN
  /\ defaulted \in BOOLEAN

\* agcore_lifecycle_is_factory_boot is true only after FactoryBoots boots, none
\* of them marked stable in flash, whenever the power is cut and whichever write
\* fails.  The exception is the blank reason, which must come from a boot since
\* the last stable mark that found no record or could not read the one there:
\* a single failed read of a good record makes a factory boot at once
\* (agcore_lifecycle.c:116-118), and so are the boots after it until a stable
\* mark is in flash.
FactoryMeansUnstable ==
  IsFactory => \/ opens >= FactoryBoots
               \/ reason = "blank" /\ defaulted

\* A boot after FactoryBoots - 1 unstable ones whose records got into flash is
\* a factory boot, though reads may have failed in between; and once what flash
\* held made a boot one, every boot is, until a stable mark gets into flash: what
\* the application began to reset is begun again after the power failed.
UnstableMeansFactory ==
  [][Read /\ (kept + 1 >= FactoryBoots \/ factory) => IsFactory']_vars

\* agcore_lifecycle.c:197: the total is cumulative, over all boots.
TotalNeverFalls == [][flash # Blank => flash'.total >= flash.total]_vars
=============================================================================
