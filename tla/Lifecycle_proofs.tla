--------------------------- MODULE Lifecycle_proofs ---------------------------
(***************************************************************************)
(* Proofs about Lifecycle, for every threshold and any number of boots.    *)
(***************************************************************************)
EXTENDS Lifecycle, TLAPS

FactoryReasons == {"factory", "blank"}

\* A call of agcore_lifecycle_mark_stable runs only in a device that is up, and
\* writes only after it cleared the streak.
Markings ==
  /\ pc # "up" => marking = NoMarking
  /\ \A c \in Callers : marking[c] = "save" => data.streak = 0

\* The streaks in memory and in flash never exceed the boots since the last
\* stable mark, the factory reason stands in either only when those are
\* FactoryBoots, and the blank one only when one of them began with the default.
Earned ==
  /\ opens <= boots
  /\ flash # Blank => flash.streak <= opens
  /\ flash # Blank /\ flash.reason = "factory" => opens >= FactoryBoots
  /\ pc = "read" => opens >= 1 /\ (flash # Blank => flash.streak + 1 <= opens)
  /\ data.streak <= opens
  /\ data.streak = 0 => reason = "normal"
  /\ reason = "factory" => opens >= FactoryBoots
  /\ flash # Blank /\ flash.reason = "blank" => defaulted
  /\ reason = "blank" => defaulted

\* The boots whose records got into flash are all in the streak, or the reason
\* in flash has been a factory one since a read failed.
Reached ==
  /\ flash = Blank => kept = 0
  /\ flash # Blank => kept <= flash.streak \/ flash.reason \in FactoryReasons
  /\ pc = "save" => data.streak >= 1 /\ (kept + 1 <= data.streak \/ IsFactory)

\* What flash holds makes the next boot a factory boot when one was.
Begun ==
  /\ factory /\ flash # Blank => Decided(flash) \in FactoryReasons
  /\ pc = "save" /\ factory => IsFactory

LifecycleInv == TypeOK /\ Markings /\ Earned /\ Reached
-----------------------------------------------------------------------------
\* What init may begin with is a record.
LEMMA ReadingsType ==
  ASSUME TypeOK
  PROVE  \A r \in Readings : r \in [total: Nat, streak: Nat, reason: Reasons]
  BY DEF TypeOK, Readings, Default, Reasons

\* The effect of writing the record on everything the invariant says of flash.
LEMMA WrittenRecord ==
  ASSUME LifecycleInv, Written
  PROVE  /\ flash' \in [total: Nat, streak: Nat, reason: Reasons]
         /\ flash'.streak = data.streak /\ flash'.reason = reason
         /\ opens' \in 0 .. MaxBoots /\ kept' \in Nat
         /\ factory' \in BOOLEAN /\ defaulted' \in BOOLEAN
         /\ data.streak = 0 => opens' = 0 /\ kept' = 0 /\ factory' = FALSE
         /\ data.streak # 0 => /\ opens' = opens /\ kept' = kept + 1
                              /\ factory' = factory /\ defaulted' = defaulted
<1>1. flash' = [total |-> data.total, streak |-> data.streak, reason |-> reason]
  BY DEF Written, Record
<1>2. /\ data.total \in Nat /\ data.streak \in Nat /\ reason \in Reasons
      /\ opens \in 0 .. MaxBoots /\ kept \in Nat /\ MaxBoots \in Nat
      /\ factory \in BOOLEAN /\ defaulted \in BOOLEAN
  BY LifecycleAssumption DEF LifecycleInv, TypeOK
<1>3. /\ flash' \in [total: Nat, streak: Nat, reason: Reasons]
      /\ flash'.streak = data.streak /\ flash'.reason = reason
  BY <1>1, <1>2
<1>4. CASE data.streak = 0
  <2>1. opens' = 0 /\ kept' = 0 /\ factory' = FALSE /\ defaulted' = FALSE
    BY <1>4 DEF Written
  <2>2. 0 \in 0 .. MaxBoots
    BY <1>2
  <2> QED
    BY <1>3, <1>4, <2>1, <2>2
<1>5. CASE data.streak # 0
  <2>1. opens' = opens /\ kept' = kept + 1 /\ factory' = factory /\ defaulted' = defaulted
    BY <1>5 DEF Written, history
  <2>2. kept + 1 \in Nat
    BY <1>2
  <2> QED
    BY <1>2, <1>3, <1>5, <2>1, <2>2
<1> QED
  BY <1>4, <1>5

\* The device is delivered without a record.
LEMMA InitInv ==
  Init => LifecycleInv
<1> SUFFICES ASSUME Init PROVE LifecycleInv
  OBVIOUS
<1>1. TypeOK
  <2>1. 0 \in 0 .. MaxBoots /\ 0 \in Nat
    BY LifecycleAssumption
  <2>2. NoMarking \in [Callers -> {"none", "clear", "save"}] /\ NoData \in [total: Nat, streak: Nat]
    BY <2>1 DEF NoMarking, NoData
  <2> QED
    BY <2>1, <2>2 DEF Init, TypeOK, Reasons
<1>2. Markings
  BY DEF Init, Markings, NoMarking, Callers
<1>3. Earned
  BY DEF Init, Earned, NoData
<1>4. Reached
  BY DEF Init, Reached
<1> QED
  BY <1>1, <1>2, <1>3, <1>4 DEF LifecycleInv

\* The power comes on: one more boot since the last stable mark.
LEMMA PowerOnInv ==
  ASSUME LifecycleInv, PowerOn
  PROVE  LifecycleInv'
<1> USE LifecycleAssumption DEF LifecycleInv, PowerOn, ram
<1>1. TypeOK'
  BY DEF TypeOK, Earned
<1>2. Markings'
  BY DEF Markings
<1>3. Earned'
  BY DEF TypeOK, Earned
<1>4. Reached'
  BY DEF Reached
<1> QED
  BY <1>1, <1>2, <1>3, <1>4

\* The power goes off: what is in flash is what counts.
LEMMA PowerOffInv ==
  ASSUME LifecycleInv, PowerOff
  PROVE  LifecycleInv'
<1> USE LifecycleAssumption DEF LifecycleInv, PowerOff, history, NoData
<1>1. TypeOK'
  BY DEF TypeOK, NoMarking, Reasons, Callers
<1>2. Markings'
  BY DEF Markings, NoMarking, Callers
<1>3. Earned'
  BY DEF TypeOK, Earned
<1>4. Reached'
  BY DEF Reached
<1> QED
  BY <1>1, <1>2, <1>3, <1>4

\* A boot counts itself and decides its reason.
LEMMA ReadInv ==
  ASSUME LifecycleInv, Read
  PROVE  LifecycleInv'
<1>1. PICK r \in Readings :
        /\ data' = [total |-> r.total + 1, streak |-> r.streak + 1]
        /\ reason' = Decided(r)
        /\ factory' = (factory \/ (IsFactory' /\ flash \in {r, Blank}))
        /\ defaulted' = (defaulted \/ r = Default)
  BY DEF Read
<1>2. /\ r.total \in Nat /\ r.streak \in Nat /\ r.reason \in Reasons
      /\ (flash # Blank /\ r = flash) \/ (r.streak = 0 /\ r.reason = "blank" /\ defaulted')
  <2>1. r \in [total: Nat, streak: Nat, reason: Reasons]
    BY ReadingsType DEF LifecycleInv
  <2>2. (flash # Blank /\ r = flash) \/ r = Default
    BY DEF Readings
  <2>3. r = Default => r.streak = 0 /\ r.reason = "blank"
    BY DEF Default
  <2>4. r = Default => defaulted'
    BY <1>1
  <2> QED
    BY <2>1, <2>2, <2>3, <2>4
<1>3. /\ pc = "read" /\ pc' = "save"
      /\ UNCHANGED <<flash, marking, boots, opens, kept>>
  BY DEF Read
<1>4. /\ data'.total \in Nat /\ data'.streak = r.streak + 1
      /\ data' \in [total: Nat, streak: Nat] /\ reason' \in Reasons
      /\ reason' = IF r.streak + 1 >= FactoryBoots THEN "factory" ELSE r.reason
  BY <1>1, <1>2 DEF Decided, Reasons
<1>5. factory' \in BOOLEAN /\ defaulted' \in BOOLEAN /\ (defaulted => defaulted')
  BY <1>1 DEF LifecycleInv, TypeOK, IsFactory
<1>6. TypeOK'
  BY <1>3, <1>4, <1>5 DEF LifecycleInv, TypeOK
<1>7. Markings'
  BY <1>3 DEF LifecycleInv, Markings, NoMarking
<1>8. opens \in Nat /\ kept \in Nat /\ FactoryBoots \in Nat
  BY LifecycleAssumption DEF LifecycleInv, TypeOK
<1>9. r.streak + 1 <= opens
  BY <1>2, <1>3, <1>8 DEF LifecycleInv, Earned
<1>10. Earned'
  BY <1>2, <1>3, <1>4, <1>5, <1>8, <1>9 DEF LifecycleInv, Earned
<1>11. Reached'
  <2>1. kept + 1 <= r.streak + 1 \/ reason' \in FactoryReasons
    <3>1. CASE flash # Blank /\ r = flash
      <4>1. kept <= r.streak \/ r.reason \in FactoryReasons
        BY <3>1 DEF LifecycleInv, Reached
      <4> QED
        BY <1>2, <1>4, <1>8, <4>1 DEF FactoryReasons
    <3>2. CASE r.streak = 0 /\ r.reason = "blank" /\ defaulted'
      BY <1>4, <3>2 DEF FactoryReasons
    <3> QED
      BY <1>2, <3>1, <3>2
  <2> QED
    BY <1>2, <1>3, <1>4, <2>1 DEF LifecycleInv, Reached, IsFactory, FactoryReasons
<1> QED
  BY <1>6, <1>7, <1>10, <1>11 DEF LifecycleInv

\* init writes the record, creates the task or not, and is done.
LEMMA SavedInv ==
  ASSUME LifecycleInv, pc = "save", pc' = "up", UNCHANGED <<data, reason, boots>>,
         marking' = marking \/ marking' = [marking EXCEPT !["task"] = "clear"],
         Written \/ UNCHANGED <<flash, history>>
  PROVE  LifecycleInv'
<1>1. marking = NoMarking /\ data.streak >= 1 /\ data.streak \in Nat
  BY DEF LifecycleInv, Markings, Reached, TypeOK
<1>2. marking' \in [Callers -> {"none", "clear", "save"}] /\ \A c \in Callers : marking'[c] # "save"
  BY <1>1 DEF NoMarking, Callers
<1>3. CASE Written
  <2>1. /\ flash' \in [total: Nat, streak: Nat, reason: Reasons]
        /\ flash'.streak = data.streak /\ flash'.reason = reason
        /\ opens' = opens /\ kept' = kept + 1
        /\ factory' = factory /\ defaulted' = defaulted /\ defaulted' \in BOOLEAN
    BY <1>1, <1>3, WrittenRecord
  <2>2. TypeOK'
    BY <1>2, <2>1 DEF LifecycleInv, TypeOK
  <2>3. Markings'
    BY <1>2 DEF Markings
  <2>4. Earned'
    BY <2>1 DEF LifecycleInv, Earned
  <2>5. kept + 1 <= data.streak \/ reason \in FactoryReasons
    BY DEF LifecycleInv, Reached, IsFactory, FactoryReasons
  <2>6. flash' # Blank => kept' <= flash'.streak \/ flash'.reason \in FactoryReasons
    BY <1>1, <2>1, <2>5
  <2>7. Reached'
    <3>1. flash' # Blank
      BY <2>1, LifecycleAssumption DEF Reasons
    <3> QED
      BY <2>6, <3>1 DEF Reached
  <2> QED
    BY <2>2, <2>3, <2>4, <2>7 DEF LifecycleInv
<1>4. CASE UNCHANGED <<flash, history>>
  <2>1. TypeOK'
    BY <1>2, <1>4 DEF LifecycleInv, TypeOK, history
  <2>2. Markings'
    BY <1>2 DEF Markings
  <2>3. Earned' /\ Reached'
    BY <1>4 DEF LifecycleInv, Earned, Reached, history
  <2> QED
    BY <2>1, <2>2, <2>3 DEF LifecycleInv
<1> QED
  BY <1>3, <1>4

\* mark_stable clears the streak and the reason in memory.
LEMMA ClearInv ==
  ASSUME LifecycleInv, NEW c \in Callers, Clear(c)
  PROVE  LifecycleInv'
<1>1. pc = "up"
  BY DEF LifecycleInv, Markings, Clear, NoMarking
<1>2. /\ data' \in [total: Nat, streak: Nat] /\ data'.streak = 0
      /\ reason' = "normal"
      /\ marking' \in [Callers -> {"none", "clear", "save"}]
      /\ UNCHANGED <<flash, pc, boots, opens, kept, factory, defaulted>>
  BY DEF LifecycleInv, TypeOK, Clear, history
<1>3. TypeOK'
  BY <1>2 DEF LifecycleInv, TypeOK, Reasons
<1>4. Markings'
  BY <1>1, <1>2 DEF Markings
<1>5. Earned'
  BY <1>1, <1>2, LifecycleAssumption DEF LifecycleInv, TypeOK, Earned
<1>6. Reached'
  BY <1>1, <1>2 DEF LifecycleInv, Reached
<1> QED
  BY <1>3, <1>4, <1>5, <1>6 DEF LifecycleInv

\* ... and in flash, if the write succeeds.
LEMMA SaveMarkInv ==
  ASSUME LifecycleInv, NEW c \in Callers, SaveMark(c)
  PROVE  LifecycleInv'
<1>1. pc = "up" /\ data.streak = 0 /\ reason = "normal"
  BY DEF LifecycleInv, Markings, Earned, SaveMark, NoMarking
<1>2. /\ marking' \in [Callers -> {"none", "clear", "save"}]
      /\ \A d \in Callers : marking'[d] = "save" => marking[d] = "save"
      /\ UNCHANGED <<pc, data, reason, boots>>
  BY DEF LifecycleInv, TypeOK, SaveMark
<1>3. Markings'
  BY <1>1, <1>2 DEF LifecycleInv, Markings
<1>4. CASE Written
  <2>1. /\ flash' \in [total: Nat, streak: Nat, reason: Reasons]
        /\ flash'.streak = 0 /\ flash'.reason = "normal"
        /\ opens' = 0 /\ kept' = 0 /\ factory' = FALSE /\ opens' \in 0 .. MaxBoots
        /\ defaulted' \in BOOLEAN
    BY <1>1, <1>4, WrittenRecord
  <2>2. TypeOK'
    BY <1>2, <2>1 DEF LifecycleInv, TypeOK
  <2>3. Earned'
    BY <1>1, <1>2, <2>1 DEF LifecycleInv, TypeOK, Earned
  <2>4. Reached'
    BY <1>1, <1>2, <2>1 DEF Reached
  <2> QED
    BY <1>3, <2>2, <2>3, <2>4 DEF LifecycleInv
<1>5. CASE NotWritten
  <2>1. UNCHANGED <<flash, opens, kept, factory, defaulted>>
    BY <1>5 DEF NotWritten, history
  <2>2. TypeOK'
    BY <1>2, <2>1 DEF LifecycleInv, TypeOK
  <2>3. Earned' /\ Reached'
    BY <1>1, <1>2, <2>1 DEF LifecycleInv, Earned, Reached
  <2> QED
    BY <1>3, <2>2, <2>3 DEF LifecycleInv
<1> QED
  BY <1>4, <1>5 DEF SaveMark

\* Every step keeps the invariant ...
LEMMA LifecycleStep ==
  LifecycleInv /\ [Next]_vars => LifecycleInv'
<1> SUFFICES ASSUME LifecycleInv, [Next]_vars PROVE LifecycleInv'
  OBVIOUS
<1>1. CASE PowerOn
  BY <1>1, PowerOnInv
<1>2. CASE PowerOff
  BY <1>2, PowerOffInv
<1>3. CASE Read
  BY <1>3, ReadInv
<1>4. CASE SaveOk
  <2>1. marking' = marking \/ marking' = [marking EXCEPT !["task"] = "clear"]
    BY <1>4 DEF SaveOk
  <2> QED
    BY <1>4, <2>1, SavedInv DEF SaveOk
<1>5. CASE SaveFails
  BY <1>5, SavedInv DEF SaveFails, NotWritten, ram
<1>6. CASE AppCalls
  <2>1. /\ pc = "up"
        /\ marking' = [marking EXCEPT !["app"] = "clear"]
        /\ UNCHANGED <<flash, pc, data, reason, boots, opens, kept, factory, defaulted>>
    BY <1>6 DEF AppCalls, history
  <2>2. TypeOK'
    BY <2>1 DEF LifecycleInv, TypeOK
  <2>3. Markings'
    BY <2>1 DEF LifecycleInv, TypeOK, Markings
  <2>4. Earned' /\ Reached'
    BY <2>1 DEF LifecycleInv, Earned, Reached
  <2> QED
    BY <2>2, <2>3, <2>4 DEF LifecycleInv
<1>7. ASSUME NEW c \in Callers, MarkStable(c) PROVE LifecycleInv'
  BY <1>7, ClearInv, SaveMarkInv DEF MarkStable
<1>8. CASE UNCHANGED vars
  BY <1>8 DEF vars, LifecycleInv, TypeOK, Markings, Earned, Reached, IsFactory
<1> QED
  BY <1>1, <1>2, <1>3, <1>4, <1>5, <1>6, <1>7, <1>8 DEF Next

\* ... and so it holds in every reachable state.
LEMMA LifecycleInvariant ==
  Spec => []LifecycleInv
<1> QED
  BY InitInv, LifecycleStep, PTL DEF Spec

\* Every step keeps the next boot a factory boot.
LEMMA BegunStep ==
  ASSUME LifecycleInv, Begun, [Next]_vars
  PROVE  Begun'
<1>1. ASSUME UNCHANGED <<flash, factory>>, pc' # "save" PROVE Begun'
  BY <1>1 DEF Begun
<1>2. CASE PowerOn \/ PowerOff \/ AppCalls
  BY <1>1, <1>2 DEF PowerOn, PowerOff, AppCalls, history
<1>3. CASE Read
  <2>1. PICK r \in Readings :
          /\ reason' = Decided(r)
          /\ factory' = (factory \/ (IsFactory' /\ flash \in {r, Blank}))
    BY <1>3 DEF Read
  <2>2. (flash # Blank /\ r = flash) \/ r.reason = "blank"
    BY DEF Readings, Default
  <2>3. flash' = flash
    BY <1>3 DEF Read
  <2>4. r.reason = "blank" => IsFactory'
    BY <2>1 DEF Decided, IsFactory
  <2>5. flash # Blank /\ r = flash => (IsFactory' <=> Decided(flash) \in FactoryReasons)
    BY <2>1 DEF IsFactory, FactoryReasons
  <2>6. flash # Blank /\ factory => Decided(flash) \in FactoryReasons
    BY DEF Begun
  <2>7. factory' => IsFactory'
    BY <2>1, <2>2, <2>4, <2>5, <2>6
  <2>8. factory' /\ flash # Blank => Decided(flash) \in FactoryReasons
    BY <2>1, <2>5, <2>6
  <2>9. Decided(flash)' = Decided(flash)
    BY <2>3 DEF Decided
  <2> QED
    BY <2>3, <2>7, <2>8, <2>9 DEF Begun
<1>4. ASSUME Written, pc' # "save", data.streak # 0 => pc = "save" PROVE Begun'
  <2>1. CASE data.streak = 0
    BY <1>4, <2>1, WrittenRecord DEF Begun
  <2>2. CASE data.streak # 0
    <3>1. flash'.reason = reason /\ factory' = factory
      BY <1>4, <2>2, WrittenRecord
    <3>2. factory => reason \in FactoryReasons
      BY <1>4, <2>2 DEF Begun, IsFactory, FactoryReasons
    <3> QED
      BY <1>4, <3>1, <3>2 DEF Begun, Decided, FactoryReasons
  <2> QED
    BY <2>1, <2>2
<1>5. CASE SaveOk \/ SaveFails
  BY <1>1, <1>4, <1>5 DEF SaveOk, SaveFails, NotWritten, history
<1>6. ASSUME NEW c \in Callers, MarkStable(c) PROVE Begun'
  <2>1. pc = "up" /\ pc' = "up"
    BY <1>6 DEF LifecycleInv, Markings, NoMarking, MarkStable, Clear, SaveMark
  <2>2. CASE Clear(c)
    BY <1>1, <2>1, <2>2 DEF Clear, history
  <2>3. CASE SaveMark(c)
    <3>1. data.streak = 0
      BY <2>3 DEF LifecycleInv, Markings, SaveMark
    <3> QED
      BY <1>1, <1>4, <2>1, <2>3, <3>1 DEF SaveMark, NotWritten, history
  <2> QED
    BY <1>6, <2>2, <2>3 DEF MarkStable
<1>7. CASE UNCHANGED vars
  BY <1>7 DEF vars, Begun, IsFactory, Decided
<1> QED
  BY <1>2, <1>3, <1>5, <1>6, <1>7 DEF Next
-----------------------------------------------------------------------------
(* Theorems *)

\* The record in memory and in flash, the marks in progress and the counters
\* keep their types (agcore_lifecycle.c:8-20), whatever fails.
THEOREM TypeCorrect ==
  Spec => []TypeOK
<1>1. LifecycleInv => TypeOK
  BY DEF LifecycleInv
<1> QED
  BY <1>1, LifecycleInvariant, PTL

\* A boot is a factory boot only after FactoryBoots unstable boots, or because
\* one of them began without a record or could not read it, whatever writes fail
\* and wherever the power goes off.
THEOREM FactoryEarned ==
  Spec => []FactoryMeansUnstable
<1>1. LifecycleInv => FactoryMeansUnstable
  BY DEF LifecycleInv, Earned, FactoryMeansUnstable, IsFactory
<1> QED
  BY <1>1, LifecycleInvariant, PTL

\* FactoryBoots unstable boots that got into flash do end in a factory boot,
\* though a read that failed restarted the count; and a boot that flash made one
\* is followed by others until a stable mark is in flash, whatever fails.
THEOREM FactoryReached ==
  Spec => UnstableMeansFactory
<1>1. ASSUME LifecycleInv, Read, kept + 1 >= FactoryBoots PROVE IsFactory'
  <2>1. PICK r \in Readings : reason' = Decided(r)
    BY <1>1 DEF Read
  <2>2. (flash # Blank /\ r = flash) \/ (r.streak = 0 /\ r.reason = "blank")
    BY DEF Readings, Default
  <2>3. r.streak \in Nat /\ kept \in Nat /\ FactoryBoots \in Nat
    BY <1>1, ReadingsType, LifecycleAssumption DEF LifecycleInv, TypeOK
  <2>4. CASE flash # Blank /\ r = flash
    <3>1. kept <= r.streak \/ r.reason \in FactoryReasons
      BY <1>1, <2>4 DEF LifecycleInv, Reached
    <3> QED
      BY <1>1, <2>1, <2>3, <3>1 DEF Decided, IsFactory, FactoryReasons
  <2>5. CASE r.reason = "blank"
    BY <2>1, <2>5 DEF Decided, IsFactory
  <2> QED
    BY <2>2, <2>4, <2>5
<1>2. Init => Begun
  BY DEF Init, Begun
<1>3. LifecycleInv /\ Begun /\ [Next]_vars => Begun'
  BY BegunStep
<1>4. ASSUME LifecycleInv, Begun, Read, factory PROVE IsFactory'
  <2>1. PICK r \in Readings : reason' = Decided(r)
    BY <1>4 DEF Read
  <2>2. (flash # Blank /\ r = flash) \/ r.reason = "blank"
    BY DEF Readings, Default
  <2> QED
    BY <1>4, <2>1, <2>2 DEF Begun, Decided, IsFactory, FactoryReasons
<1>5. LifecycleInv /\ Begun /\ [Next]_vars
        => [Read /\ (kept + 1 >= FactoryBoots \/ factory) => IsFactory']_vars
  BY <1>1, <1>4
<1> QED
  BY <1>2, <1>3, <1>5, LifecycleInvariant, PTL DEF Spec, UnstableMeansFactory
=============================================================================
