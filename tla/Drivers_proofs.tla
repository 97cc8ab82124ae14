---------------------------- MODULE Drivers_proofs ----------------------------
(***************************************************************************)
(* Proofs about Drivers, for a panel and a strip of any size, for any      *)
(* regions and rotations.                                                  *)
(***************************************************************************)
EXTENDS Drivers, SequenceTheorems, TLAPS

\* Concatenation.
Join(s, t) == s \o t

(* What is left of a call, by the step it is at: t and u follow it. *)
AtLight(t) == Join(<<"light">>, t)
AtHeight(u) == Join(<<"height">>, u)
AtWidth(u) == Join(<<"width">>, AtHeight(u))
AtRotation(u) == Join(<<"rotation">>, AtWidth(u))
AtMadctl(u) == Join(<<"madctl">>, AtRotation(u))
AfterInitialized(t) == IF chip = "ST7735" THEN AtMadctl(AtLight(t)) ELSE AtLight(t)
AtInitialized(t) == Join(<<"initialized">>, AfterInitialized(t))
AtCommand(k, t) == Join(SubSeq(PanelInit, k + 1, Len(PanelInit)), AtInitialized(t))
AtReset(t) == Join(<<"reset">>, AtCommand(0, t))
AtIo(t) == Join(<<"io">>, AtReset(t))
AtBus(t) == Join(<<"bus">>, AtIo(t))
AtDark(t) == Join(<<"dark">>, AtBus(t))

\* An initialisation may be followed by the test's steps, a rotation by the
\* rest of the initialisation.
Tails == {<<>>, TestSteps}
Ends == {<<>>} \cup {AtLight(t) : t \in Tails}

\* What the driver believes of a panel that got all its commands.
Connected == bus /\ ioDone = runtime.flushDone
Turned ==
  /\ panel.scan = runtime.rotation
  /\ <<runtime.width, runtime.height>> = Size(runtime.rotation)
\* g_runtime becomes what MADCTL made of the panel.
Turning == panel.scan = to

\* The initialisation is on its way.
Starting(t) ==
  /\ ~ runtime.initialized
  /\ \/ todo = AtDark(t)
     \/ todo = AtBus(t)
     \/ todo = AtIo(t) /\ bus
     \/ todo = AtReset(t) /\ Connected
     \/ \E k \in 0 .. Len(PanelInit) :
          /\ todo = AtCommand(k, t)
          /\ Connected
          /\ panel.sent = SubSeq(PanelInit, 1, k)
          /\ panel.scan = 0

\* A panel that got its commands is turned.
Rotating(u) ==
  \/ todo = AtMadctl(u) /\ Turned
  \/ todo = AtRotation(u) /\ Turning
  \/ todo = AtWidth(u) /\ Turning /\ runtime.rotation = to
  \/ todo = AtHeight(u) /\ Turning /\ runtime.rotation = to /\ runtime.width = Size(to)[1]

Started ==
  /\ runtime.initialized
  /\ Connected
  /\ panel.sent = PanelInit
  /\ \/ \E u \in Ends : Rotating(u)
     \/ (todo \in Ends \/ todo = TestSteps \/ todo = <<"task">>) /\ Turned

\* Every call goes through its steps in order, or has broken off.
StageInv ==
  \/ ~ runtime.initialized /\ todo = <<>>
  \/ \E t \in Tails : Starting(t)
  \/ Started

\* A flush that nothing overlaps.
AloneOK(t) ==
  /\ todo = <<>>
  /\ runtime.initialized
  /\ \A q \in Painters : q # t => paint[q].at = "idle"
  /\ paint[t].at # "idle"
  /\ Valid(paint[t].region)
  /\ paint[t].at # "offset" =>
       paint[t].offset = IF chip = "ST7735" THEN Offset7735 ELSE Offset7789
  /\ paint[t].at \in {"raset", "ramwr"} =>
       panel.columns = Shifted(paint[t].region.x, paint[t].offset[1])
  /\ paint[t].at = "ramwr" =>
       panel.rows = Shifted(paint[t].region.y, paint[t].offset[2])

AloneInv == \A t \in Painters : alone[t] => AloneOK(t)

\* The records have their fields.
ShapeInv ==
  /\ DisplayTypeOK
  /\ panel = [sent |-> panel.sent, scan |-> panel.scan, columns |-> panel.columns, rows |-> panel.rows]
  /\ paint \in [Painters -> [at : {"idle", "offset", "caset", "raset", "ramwr"},
                             region : Regions \cup {NoRegion}, offset : Nat \X Nat]]

DisplayInv == ShapeInv /\ StageInv /\ AloneInv

\* What is copied is no longer than the strip.
PixelInv ==
  /\ PixelTypeOK
  /\ copy \in [from : [Leds -> Colours], len : 0 .. LedMax, done : Nat] \cup {NoCopy}

DriversInv == DisplayInv /\ PixelInv
-----------------------------------------------------------------------------
(* The steps of a call. *)

\* The steps that are the driver's own, and no commands of a panel.
Own == {"dark", "bus", "io", "reset", "initialized", "madctl", "rotation", "width", "height",
        "light", "buffer", "task"}

\* What follows the reset of a panel.
Later ==
  {"SLPOUT", "B1", "B2", "B3", "B4", "B7", "BB", "C0", "C1", "C2", "C3", "C4", "C5", "C6", "D0",
   "MADCTL", "COLMOD", "RAMCTRL", "E0", "E1", "INVON", "INVOFF", "NORON", "DISPON"}

StepNames == Own \cup Later \cup {"SWRESET"}

\* Both panels begin with a reset and a wake-up, and go on with other commands.
LEMMA LaterCommands ==
  /\ Commands7735 \in Seq(Later)
  /\ Commands7789 \in Seq(Later)
  /\ \E s \in Seq(Later) : PanelInit = <<"SWRESET", "SLPOUT">> \o s
<1>1. Commands7735 \in Seq(Later)
  <2>1. /\ <<"B1", "B2", "B3">> \in Seq(Later) /\ <<"B4">> \in Seq(Later) /\ <<>> \in Seq(Later)
        /\ <<"C0", "C1", "C2", "C3", "C4", "C5", "MADCTL", "COLMOD">> \in Seq(Later)
    BY DEF Later
  <2>2. (IF InvertColor THEN <<"B4">> ELSE <<>>) \in Seq(Later)
    BY <2>1
  <2> QED
    BY <2>1, <2>2, ConcatProperties DEF Commands7735
<1>2. Commands7789 \in Seq(Later)
  BY DEF Commands7789, Later
<1>3. ASSUME NEW c \in Seq(Later), NEW e \in Later
      PROVE  \E s \in Seq(Later) :
               <<"SWRESET", "SLPOUT">> \o c \o <<e, "NORON", "DISPON">> = <<"SWRESET", "SLPOUT">> \o s
  <2>1. <<e, "NORON", "DISPON">> \in Seq(Later)
    BY DEF Later
  <2>2. c \o <<e, "NORON", "DISPON">> \in Seq(Later)
    BY <2>1, ConcatProperties
  <2>3. /\ c \in Seq(StepNames) /\ <<e, "NORON", "DISPON">> \in Seq(StepNames)
        /\ <<"SWRESET", "SLPOUT">> \in Seq(StepNames)
    <3>1. Later \subseteq StepNames
      BY DEF StepNames
    <3>2. <<"SWRESET", "SLPOUT">> \in Seq(StepNames)
      BY DEF StepNames, Later
    <3> QED
      BY <2>1, <3>1, <3>2, SeqMonotonic
  <2>4. <<"SWRESET", "SLPOUT">> \o c \o <<e, "NORON", "DISPON">>
          = <<"SWRESET", "SLPOUT">> \o (c \o <<e, "NORON", "DISPON">>)
    BY <2>3, ConcatAssociative
  <2> QED
    BY <2>2, <2>4
<1>4. CASE chip = "ST7735"
  <2>1. (IF InvertColor THEN "INVON" ELSE "INVOFF") \in Later
    BY DEF Later
  <2> QED
    BY <1>1, <1>2, <1>3, <1>4, <2>1 DEF PanelInit, PanelInit7735
<1>5. CASE chip # "ST7735"
  <2>1. "INVON" \in Later
    BY DEF Later
  <2> QED
    BY <1>1, <1>2, <1>3, <1>5, <2>1 DEF PanelInit, PanelInit7789
<1> QED
  BY <1>1, <1>2, <1>4, <1>5

\* Every panel is reset by its first command, and by no later one.
LEMMA Commands ==
  /\ PanelInit \in Seq(StepNames)
  /\ Len(PanelInit) \in Nat \ {0}
  /\ PanelInit[1] = "SWRESET"
  /\ \A i \in 2 .. Len(PanelInit) : PanelInit[i] # "SWRESET"
  /\ \A i \in 1 .. Len(PanelInit) : PanelInit[i] \notin Own
<1>1. /\ Later \subseteq StepNames /\ "SWRESET" \in StepNames /\ "SLPOUT" \in Later
      /\ "SWRESET" \notin Later \cup Own /\ Later \cap Own = {}
  BY DEF Later, Own, StepNames
<1>2. PICK s \in Seq(Later) : PanelInit = <<"SWRESET", "SLPOUT">> \o s
  BY LaterCommands
<1>3. s \in Seq(StepNames) /\ Len(s) \in Nat /\ \A i \in 1 .. Len(s) : s[i] \in Later
  BY <1>1, SeqMonotonic
<1>4. /\ <<"SWRESET", "SLPOUT">> \in Seq(StepNames) /\ Len(<<"SWRESET", "SLPOUT">>) = 2
      /\ <<"SWRESET", "SLPOUT">>[1] = "SWRESET" /\ <<"SWRESET", "SLPOUT">>[2] = "SLPOUT"
  BY <1>1
<1>5. /\ PanelInit \in Seq(StepNames)
      /\ Len(PanelInit) = 2 + Len(s)
      /\ \A i \in 1 .. 2 + Len(s) :
           PanelInit[i] = IF i <= 2 THEN <<"SWRESET", "SLPOUT">>[i] ELSE s[i - 2]
  BY <1>2, <1>3, <1>4, ConcatProperties
<1>6. PanelInit[1] = "SWRESET"
  BY <1>3, <1>4, <1>5
<1>7. ASSUME NEW i \in 2 .. 2 + Len(s) PROVE PanelInit[i] \in Later
  <2>1. CASE i = 2
    BY <1>1, <1>3, <1>4, <1>5, <2>1
  <2>2. CASE i > 2
    <3>1. i - 2 \in 1 .. Len(s) /\ i \in 1 .. 2 + Len(s) /\ ~ (i <= 2)
      BY <1>3, <2>2
    <3> QED
      BY <1>3, <1>5, <3>1
  <2> QED
    BY <1>3, <2>1, <2>2
<1>8. \A i \in 1 .. 2 + Len(s) : i = 1 \/ i \in 2 .. 2 + Len(s)
  BY <1>3
<1> QED
  BY <1>1, <1>3, <1>5, <1>6, <1>7, <1>8

\* The first element of a sequence and the others.
LEMMA FirstAndRest ==
  ASSUME NEW S, NEW e \in S, NEW s \in Seq(S)
  PROVE  /\ <<e>> \o s \in Seq(S) /\ <<e>> \o s # <<>>
         /\ Head(<<e>> \o s) = e /\ Tail(<<e>> \o s) = s
<1>1. <<e>> \in Seq(S) /\ Len(<<e>>) = 1 /\ <<e>>[1] = e
  OBVIOUS
<1>2. PICK t \in Seq(S) : t = <<e>> \o s
  BY <1>1, ConcatProperties
<1>3. Len(t) = 1 + Len(s) /\ t[1] = e /\ Len(s) \in Nat
  BY <1>1, <1>2, ConcatProperties
<1>4. \A i \in 1 .. Len(s) : t[i + 1] = s[i]
  BY <1>1, <1>2, <1>3, ConcatProperties
<1>5. t # <<>>
  BY <1>3
<1>6. Head(t) = e
  BY <1>3, <1>5
<1>7. Tail(t) \in Seq(S) /\ Len(Tail(t)) = Len(s) /\ \A i \in 1 .. Len(s) : Tail(t)[i] = s[i]
  BY <1>3, <1>4, <1>5, HeadTailProperties
<1>8. Tail(t) = s
  BY <1>7, SeqEqual
<1> QED
  BY <1>2, <1>5, <1>6, <1>8

\* Sequence s begins with e and goes on with r.
Begins(s, e, r) == s # <<>> /\ Head(s) = e /\ Tail(s) = r

\* A step of the driver's own in front of others.
LEMMA OwnFirst ==
  ASSUME NEW e \in Own, NEW s \in Seq(StepNames)
  PROVE  Join(<<e>>, s) \in Seq(StepNames) /\ Begins(Join(<<e>>, s), e, s)
<1>1. e \in StepNames
  BY DEF StepNames
<1> QED
  BY <1>1, FirstAndRest DEF Begins, Join

\* A rotation, step by step.
LEMMA RotationOrder ==
  ASSUME NEW u \in Seq(StepNames)
  PROVE  /\ {AtLight(u), AtHeight(u), AtWidth(u), AtRotation(u), AtMadctl(u)} \subseteq Seq(StepNames)
         /\ Begins(AtLight(u), "light", u)
         /\ Begins(AtHeight(u), "height", u)
         /\ Begins(AtWidth(u), "width", AtHeight(u))
         /\ Begins(AtRotation(u), "rotation", AtWidth(u))
         /\ Begins(AtMadctl(u), "madctl", AtRotation(u))
<1>1. {"light", "height", "width", "rotation", "madctl"} \subseteq Own
  BY DEF Own
<1>2. AtLight(u) \in Seq(StepNames) /\ Begins(AtLight(u), "light", u)
  BY <1>1, OwnFirst DEF AtLight
<1>3. AtHeight(u) \in Seq(StepNames) /\ Begins(AtHeight(u), "height", u)
  BY <1>1, OwnFirst DEF AtHeight
<1>4. AtWidth(u) \in Seq(StepNames) /\ Begins(AtWidth(u), "width", AtHeight(u))
  BY <1>1, <1>3, OwnFirst DEF AtWidth
<1>5. AtRotation(u) \in Seq(StepNames) /\ Begins(AtRotation(u), "rotation", AtWidth(u))
  BY <1>1, <1>4, OwnFirst DEF AtRotation
<1>6. AtMadctl(u) \in Seq(StepNames) /\ Begins(AtMadctl(u), "madctl", AtRotation(u))
  BY <1>1, <1>5, OwnFirst DEF AtMadctl
<1> QED
  BY <1>2, <1>3, <1>4, <1>5, <1>6

\* The commands of a panel, one by one, and what comes after the last.
LEMMA CommandOrder ==
  ASSUME NEW t \in Seq(StepNames), NEW k \in 0 .. Len(PanelInit)
  PROVE  /\ AtInitialized(t) \in Seq(StepNames)
         /\ Begins(AtInitialized(t), "initialized", AfterInitialized(t))
         /\ AtCommand(k, t) \in Seq(StepNames)
         /\ k = Len(PanelInit) => AtCommand(k, t) = AtInitialized(t)
         /\ k < Len(PanelInit) => Begins(AtCommand(k, t), PanelInit[k + 1], AtCommand(k + 1, t))
<1>1. PICK p \in Seq(StepNames) : p = PanelInit
  BY Commands
<1>2. Len(p) \in Nat /\ \A i \in 1 .. Len(p) : p[i] \in StepNames
  OBVIOUS
<1>3. AfterInitialized(t) \in Seq(StepNames)
  BY RotationOrder DEF AfterInitialized
<1>4. AtInitialized(t) \in Seq(StepNames) /\ Begins(AtInitialized(t), "initialized", AfterInitialized(t))
  <2>1. "initialized" \in Own
    BY DEF Own
  <2> QED
    BY <1>3, <2>1, OwnFirst DEF AtInitialized
<1>5. PICK a \in Seq(StepNames) : a = AtInitialized(t)
  BY <1>4
<1>6. SubSeq(p, k + 1, Len(p)) \in Seq(StepNames) /\ SubSeq(p, k + 2, Len(p)) \in Seq(StepNames)
  BY <1>1, <1>2, SubSeqProperties
<1>7. AtCommand(k, t) \in Seq(StepNames)
  BY <1>1, <1>5, <1>6, ConcatProperties DEF AtCommand, Join
<1>8. ASSUME k = Len(PanelInit) PROVE AtCommand(k, t) = AtInitialized(t)
  <2>1. SubSeq(p, k + 1, Len(p)) = <<>>
    BY <1>1, <1>2, <1>8, SubSeqEmpty
  <2> QED
    BY <1>1, <1>5, <2>1, ConcatEmptySeq DEF AtCommand, Join
<1>9. ASSUME k < Len(PanelInit)
      PROVE  Begins(AtCommand(k, t), PanelInit[k + 1], AtCommand(k + 1, t))
  <2>1. k + 1 \in 1 .. Len(p) /\ k + 1 + 1 = k + 2 /\ Len(p) \in k + 1 .. Len(p)
    BY <1>1, <1>2, <1>9
  <2>2. SubSeq(p, k + 1, Len(p)) = <<p[k + 1]>> \o SubSeq(p, k + 2, Len(p))
    BY <2>1, SubSeqRecursiveFirst
  <2>3. p[k + 1] \in StepNames /\ <<p[k + 1]>> \in Seq(StepNames)
    BY <1>2, <2>1
  <2>4. SubSeq(p, k + 1, Len(p)) \o a = <<p[k + 1]>> \o (SubSeq(p, k + 2, Len(p)) \o a)
    <3>1. PICK r \in Seq(StepNames) : r = SubSeq(p, k + 2, Len(p))
      BY <1>6
    <3>2. PICK e : <<e>> \in Seq(StepNames) /\ e = p[k + 1]
      BY <2>3
    <3>3. (<<e>> \o r) \o a = <<e>> \o (r \o a)
      BY <3>2, ConcatAssociative
    <3> QED
      BY <2>2, <3>1, <3>2, <3>3
  <2>5. SubSeq(p, k + 2, Len(p)) \o a \in Seq(StepNames)
    BY <1>6, ConcatProperties
  <2>6. AtCommand(k + 1, t) = SubSeq(p, k + 2, Len(p)) \o a
    BY <1>1, <1>5, <2>1 DEF AtCommand, Join
  <2>7. AtCommand(k, t) = <<p[k + 1]>> \o AtCommand(k + 1, t)
    BY <1>1, <1>5, <2>4, <2>6 DEF AtCommand, Join
  <2> QED
    BY <1>1, <2>3, <2>5, <2>6, <2>7, FirstAndRest DEF Begins
<1> QED
  BY <1>4, <1>7, <1>8, <1>9

\* What comes before the commands.
LEMMA StartOrder ==
  ASSUME NEW t \in Seq(StepNames)
  PROVE  /\ AtDark(t) \in Seq(StepNames)
         /\ Begins(AtReset(t), "reset", AtCommand(0, t))
         /\ Begins(AtIo(t), "io", AtReset(t))
         /\ Begins(AtBus(t), "bus", AtIo(t))
         /\ Begins(AtDark(t), "dark", AtBus(t))
<1>1. {"dark", "bus", "io", "reset"} \subseteq Own
  BY DEF Own
<1>2. AtCommand(0, t) \in Seq(StepNames)
  <2>1. 0 \in 0 .. Len(PanelInit)
    BY Commands
  <2> QED
    BY <2>1, CommandOrder
<1>3. AtReset(t) \in Seq(StepNames) /\ Begins(AtReset(t), "reset", AtCommand(0, t))
  BY <1>1, <1>2, OwnFirst DEF AtReset
<1>4. AtIo(t) \in Seq(StepNames) /\ Begins(AtIo(t), "io", AtReset(t))
  BY <1>1, <1>3, OwnFirst DEF AtIo
<1>5. AtBus(t) \in Seq(StepNames) /\ Begins(AtBus(t), "bus", AtIo(t))
  BY <1>1, <1>4, OwnFirst DEF AtBus
<1>6. AtDark(t) \in Seq(StepNames) /\ Begins(AtDark(t), "dark", AtBus(t))
  BY <1>1, <1>5, OwnFirst DEF AtDark
<1> QED
  BY <1>3, <1>4, <1>5, <1>6

\* The test's two steps, and what may follow an initialisation or a rotation.
LEMMA TestOrder ==
  /\ Begins(TestSteps, "buffer", <<"task">>)
  /\ Begins(<<"task">>, "task", <<>>)
  /\ Tails \subseteq Seq(StepNames)
  /\ Ends \subseteq Seq(StepNames)
<1>1. {"buffer", "task"} \subseteq StepNames
  BY DEF StepNames, Own
<1>2. TestSteps \in Seq(StepNames) /\ <<>> \in Seq(StepNames)
  BY <1>1 DEF TestSteps
<1>3. Tails \subseteq Seq(StepNames)
  BY <1>2 DEF Tails
<1>4. Ends \subseteq Seq(StepNames)
  BY <1>2, <1>3, RotationOrder DEF Ends
<1>5. Begins(TestSteps, "buffer", <<"task">>) /\ Begins(<<"task">>, "task", <<>>)
  BY DEF TestSteps, Begins
<1> QED
  BY <1>3, <1>4, <1>5

\* A concatenation is a sequence of steps and does not depend on parentheses.
LEMMA Joined ==
  /\ \A x, y \in Seq(StepNames) : Join(x, y) \in Seq(StepNames)
  /\ \A x, y, z \in Seq(StepNames) : Join(Join(x, y), z) = Join(x, Join(y, z))
<1>1. ASSUME NEW x \in Seq(StepNames), NEW y \in Seq(StepNames) PROVE Join(x, y) \in Seq(StepNames)
  BY ConcatProperties DEF Join
<1>2. ASSUME NEW x \in Seq(StepNames), NEW y \in Seq(StepNames), NEW z \in Seq(StepNames)
      PROVE  Join(Join(x, y), z) = Join(x, Join(y, z))
  BY DEF Join
<1> QED BY <1>1, <1>2

\* Steps, one by one.
LEMMA Pair ==
  ASSUME NEW a \in StepNames, NEW b \in StepNames PROVE <<a, b>> = Join(<<a>>, <<b>>)
<1>1. <<a>> \in Seq(StepNames) /\ <<b>> \in Seq(StepNames)
  OBVIOUS
<1> QED
  <2>1. PICK t \in Seq(StepNames) : t = <<a>> \o <<b>>
    BY <1>1, ConcatProperties
  <2>2. Len(t) = 2 /\ t[1] = a /\ t[2] = b
    BY <1>1, <2>1, ConcatProperties
  <2>3. \A i \in 1 .. 2 : t[i] = <<a, b>>[i]
    BY <2>2
  <2>4. <<a, b>> \in Seq(StepNames) /\ Len(<<a, b>>) = 2
    OBVIOUS
  <2> QED
    BY <2>1, <2>2, <2>3, <2>4, SeqEqual DEF Join

\* A list of four steps.
LEMMA Four ==
  ASSUME NEW a \in StepNames, NEW b \in StepNames, NEW c \in StepNames, NEW d \in StepNames
  PROVE  <<a, b, c, d>> = Join(<<a>>, Join(<<b>>, Join(<<c>>, <<d>>)))
<1>1. /\ <<a>> \in Seq(StepNames) /\ <<b>> \in Seq(StepNames)
      /\ <<a, b>> \in Seq(StepNames) /\ <<c, d>> \in Seq(StepNames)
      /\ <<c>> \in Seq(StepNames) /\ <<d>> \in Seq(StepNames)
  OBVIOUS
<1>3. PICK f \in Seq(StepNames), g \in Seq(StepNames) : f = <<a, b>> /\ g = <<c, d>>
  BY <1>1
<1>4. Join(f, g) = <<a, b, c, d>>
  <2>1. /\ Len(f \o g) = Len(f) + Len(g)
        /\ \A i \in 1 .. Len(f) + Len(g) :
             (f \o g)[i] = IF i <= Len(f) THEN f[i] ELSE g[i - Len(f)]
    BY ConcatProperties
  <2>2. PICK t \in Seq(StepNames) : t = f \o g
    BY ConcatProperties
  <2>3. Len(t) = 4 /\ t[1] = a /\ t[2] = b /\ t[3] = c /\ t[4] = d
    BY <1>3, <2>1, <2>2
  <2>4. \A i \in 1 .. 4 : t[i] = <<a, b, c, d>>[i]
    BY <2>3
  <2>5. <<a, b, c, d>> \in Seq(StepNames) /\ Len(<<a, b, c, d>>) = 4
    OBVIOUS
  <2>6. t = <<a, b, c, d>>
    BY <2>3, <2>4, <2>5, SeqEqual
  <2> QED
    BY <2>2, <2>6 DEF Join
<1>5. <<a, b>> = Join(<<a>>, <<b>>) /\ <<c, d>> = Join(<<c>>, <<d>>)
  BY Pair
<1>6. Join(Join(<<a>>, <<b>>), g) = Join(<<a>>, Join(<<b>>, g))
  BY <1>1, Joined
<1> QED
  BY <1>3, <1>4, <1>5, <1>6

\* Four steps and what follows them.
LEMMA FourThen ==
  ASSUME NEW a \in StepNames, NEW b \in StepNames, NEW c \in StepNames, NEW d \in StepNames,
         NEW s \in Seq(StepNames)
  PROVE  Join(<<a, b, c, d>>, s) = Join(<<a>>, Join(<<b>>, Join(<<c>>, Join(<<d>>, s))))
<1>1. /\ <<a>> \in Seq(StepNames) /\ <<b>> \in Seq(StepNames)
      /\ <<c>> \in Seq(StepNames) /\ <<d>> \in Seq(StepNames)
  OBVIOUS
<1>2. <<a, b, c, d>> = Join(<<a>>, Join(<<b>>, Join(<<c>>, <<d>>)))
  BY Four
<1>3. Join(<<c>>, <<d>>) \in Seq(StepNames) /\ Join(<<b>>, Join(<<c>>, <<d>>)) \in Seq(StepNames)
  BY <1>1, Joined
<1>4. Join(Join(<<a>>, Join(<<b>>, Join(<<c>>, <<d>>))), s)
        = Join(<<a>>, Join(Join(<<b>>, Join(<<c>>, <<d>>)), s))
  <2>1. PICK f \in Seq(StepNames), g \in Seq(StepNames) :
          f = <<a>> /\ g = Join(<<b>>, Join(<<c>>, <<d>>))
    BY <1>1, <1>3
  <2>2. Join(Join(f, g), s) = Join(f, Join(g, s))
    BY Joined
  <2> QED
    BY <2>1, <2>2
<1>5. Join(Join(<<b>>, Join(<<c>>, <<d>>)), s) = Join(<<b>>, Join(Join(<<c>>, <<d>>), s))
  <2>1. PICK f \in Seq(StepNames), g \in Seq(StepNames) : f = <<b>> /\ g = Join(<<c>>, <<d>>)
    BY <1>1, <1>3
  <2>2. Join(Join(f, g), s) = Join(f, Join(g, s))
    BY Joined
  <2> QED
    BY <2>1, <2>2
<1>6. Join(Join(<<c>>, <<d>>), s) = Join(<<c>>, Join(<<d>>, s))
  BY <1>1, Joined
<1> QED
  BY <1>2, <1>4, <1>5, <1>6

\* Five sequences, from the left and from the right.
LEMMA Five ==
  ASSUME NEW a \in Seq(StepNames), NEW b \in Seq(StepNames), NEW c \in Seq(StepNames),
         NEW d \in Seq(StepNames), NEW e \in Seq(StepNames)
  PROVE  /\ Join(Join(Join(a, b), c), d) = Join(a, Join(b, Join(c, d)))
         /\ Join(Join(Join(Join(a, b), c), d), e) = Join(a, Join(b, Join(c, Join(d, e))))
<1>1. Join(Join(Join(a, b), c), d) = Join(a, Join(b, Join(c, d)))
  <2>1. Join(a, b) \in Seq(StepNames) /\ Join(c, d) \in Seq(StepNames)
    BY Joined
  <2>2. Join(Join(Join(a, b), c), d) = Join(Join(a, b), Join(c, d))
    BY <2>1, Joined
  <2>3. Join(Join(a, b), Join(c, d)) = Join(a, Join(b, Join(c, d)))
    BY <2>1, Joined
  <2> QED
    BY <2>2, <2>3
<1>2. Join(Join(Join(Join(a, b), c), d), e) = Join(a, Join(b, Join(c, Join(d, e))))
  <2>1. /\ Join(a, b) \in Seq(StepNames) /\ Join(d, e) \in Seq(StepNames)
    BY Joined
  <2>2. Join(Join(a, b), c) \in Seq(StepNames) /\ Join(c, Join(d, e)) \in Seq(StepNames)
    BY <2>1, Joined
  <2>3. Join(Join(Join(Join(a, b), c), d), e) = Join(Join(Join(a, b), c), Join(d, e))
    BY <2>2, Joined
  <2>4. Join(Join(Join(a, b), c), Join(d, e)) = Join(Join(a, b), Join(c, Join(d, e)))
    BY <2>1, Joined
  <2>5. Join(Join(a, b), Join(c, Join(d, e))) = Join(a, Join(b, Join(c, Join(d, e))))
    BY <2>2, Joined
  <2> QED
    BY <2>3, <2>4, <2>5
<1> QED
  BY <1>1, <1>2

\* The steps of the initialisation are those of the code, in its order.
LEMMA InitOrder ==
  /\ InitSteps = AtDark(<<>>)
  /\ InitSteps \o TestSteps = AtDark(TestSteps)
  /\ RotationSteps = AtMadctl(<<>>)
<1> DEFINE D == <<"dark", "bus", "io", "reset">>
<1>1. /\ <<>> \in Seq(StepNames) /\ TestSteps \in Seq(StepNames)
      /\ D \in Seq(StepNames)
      /\ <<"initialized">> \in Seq(StepNames)
      /\ <<"light">> \in Seq(StepNames)
      /\ <<"initialized", "light">> = Join(<<"initialized">>, <<"light">>)
      /\ RotationSteps \in Seq(StepNames)
  <2>1. "initialized" \in StepNames /\ "light" \in StepNames
    BY DEF StepNames, Own
  <2> QED
    BY <2>1, Pair DEF Own, StepNames, RotationSteps, TestSteps
<1>2. PICK p \in Seq(StepNames) : p = PanelInit /\ SubSeq(p, 1, Len(p)) = p
  BY Commands, SubSeqFull
<1>3. ASSUME NEW u \in Seq(StepNames) PROVE Join(RotationSteps, u) = AtMadctl(u)
  <2>1. /\ "madctl" \in StepNames /\ "rotation" \in StepNames /\ "width" \in StepNames
        /\ "height" \in StepNames
    BY DEF StepNames, Own
  <2>2. Join(RotationSteps, u) =
          Join(<<"madctl">>, Join(<<"rotation">>, Join(<<"width">>, Join(<<"height">>, u))))
    BY <2>1, FourThen DEF RotationSteps
  <2> QED
    BY <2>2, Zenon DEF AtMadctl, AtRotation, AtWidth, AtHeight
<1>4. ASSUME NEW t \in Seq(StepNames)
      PROVE  AtInitialized(t) \in Seq(StepNames) /\ AtDark(t) = Join(D, Join(p, AtInitialized(t)))
  <2>1. AtInitialized(t) \in Seq(StepNames)
    <3>1. 0 \in 0 .. Len(PanelInit)
      BY Commands
    <3> QED
      BY <3>1, CommandOrder
  <2>2. PICK s \in Seq(StepNames) : s = Join(p, AtInitialized(t))
    BY <2>1, Joined
  <2>3. AtCommand(0, t) = s
    <3>1. 0 + 1 = 1
      OBVIOUS
    <3> QED
      BY <1>2, <2>2, <3>1 DEF AtCommand
  <2>4. "dark" \in StepNames /\ "bus" \in StepNames /\ "io" \in StepNames /\ "reset" \in StepNames
    BY DEF StepNames, Own
  <2>5. Join(D, s) = Join(<<"dark">>, Join(<<"bus">>, Join(<<"io">>, Join(<<"reset">>, s))))
    BY <2>4, FourThen
  <2> QED
    BY <2>1, <2>2, <2>3, <2>5, Zenon DEF AtDark, AtBus, AtIo, AtReset
<1> HIDE DEF D
<1>5. ASSUME NEW t \in Seq(StepNames)
      PROVE  InitSteps \in Seq(StepNames) /\ Join(InitSteps, t) = AtDark(t)
  <2>1. Join(<<"light">>, t) = AtLight(t)
    BY DEF AtLight
  <2>2. CASE chip = "ST7735"
    <3>1. InitSteps = Join(Join(Join(Join(D, p), <<"initialized">>), RotationSteps), <<"light">>)
      BY <1>2, <2>2 DEF InitSteps, InitSteps7735, PanelInit, D, Join
    <3>2. AtInitialized(t) = Join(<<"initialized">>, Join(RotationSteps, Join(<<"light">>, t)))
      <4>1. AtLight(t) \in Seq(StepNames)
        BY RotationOrder
      <4> QED
        BY <1>3, <2>1, <2>2, <4>1 DEF AtInitialized, AfterInitialized
    <3>3. PICK l \in Seq(StepNames), i \in Seq(StepNames), r \in Seq(StepNames) :
            l = <<"light">> /\ i = <<"initialized">> /\ r = RotationSteps
      BY <1>1
    <3>4. PICK m \in Seq(StepNames) : m = Join(D, p)
      BY <1>1, Joined
    <3>5. Join(m, i) \in Seq(StepNames) /\ Join(Join(m, i), r) \in Seq(StepNames)
      BY Joined
    <3>6. InitSteps \in Seq(StepNames)
      BY <3>1, <3>3, <3>4, <3>5, Joined
    <3>7. Join(Join(Join(Join(m, i), r), l), t) = Join(m, Join(i, Join(r, Join(l, t))))
      BY Five
    <3>8. Join(m, AtInitialized(t)) = Join(D, Join(p, AtInitialized(t)))
      BY <1>1, <1>4, <3>4, Joined
    <3> QED
      BY <1>4, <3>1, <3>2, <3>3, <3>4, <3>6, <3>7, <3>8
  <2>3. CASE chip # "ST7735"
    <3>1. InitSteps = Join(Join(D, p), Join(<<"initialized">>, <<"light">>))
      BY <1>1, <1>2, <2>3 DEF InitSteps, InitSteps7789, PanelInit, D, Join
    <3>2. AtInitialized(t) = Join(<<"initialized">>, Join(<<"light">>, t))
      BY <2>1, <2>3 DEF AtInitialized, AfterInitialized
    <3>3. PICK l \in Seq(StepNames), i \in Seq(StepNames) : l = <<"light">> /\ i = <<"initialized">>
      BY <1>1
    <3>4. PICK il \in Seq(StepNames) : il = Join(i, l)
      BY Joined
    <3>5. Join(il, t) = Join(i, Join(l, t))
      BY <3>4, Joined
    <3>6. Join(Join(Join(D, p), il), t) = Join(D, Join(p, Join(il, t)))
      BY <1>1, Five
    <3>7. Join(D, p) \in Seq(StepNames)
      BY <1>1, Joined
    <3>8. InitSteps \in Seq(StepNames)
      BY <3>1, <3>3, <3>4, <3>7, Joined
    <3> QED
      BY <1>4, <3>1, <3>2, <3>3, <3>4, <3>5, <3>6, <3>8
  <2> QED
    BY <2>2, <2>3
<1>6. ASSUME NEW s \in Seq(StepNames) PROVE Join(s, <<>>) = s
  BY ConcatEmptySeq DEF Join
<1>7. InitSteps = AtDark(<<>>)
  BY <1>1, <1>5, <1>6
<1>8. RotationSteps = AtMadctl(<<>>)
  BY <1>1, <1>3, <1>6
<1>9. InitSteps \o TestSteps = AtDark(TestSteps)
  BY <1>1, <1>5 DEF Join
<1> QED
  BY <1>7, <1>8, <1>9
-----------------------------------------------------------------------------
(* The steps of the application's task. *)

\* The sequences of steps do not change, as the panel does not.
LEMMA SameSteps ==
  ASSUME chip' = chip
  PROVE  /\ PanelInit' = PanelInit
         /\ \A t : /\ AtReset(t)' = AtReset(t) /\ AtIo(t)' = AtIo(t) /\ AtBus(t)' = AtBus(t)
                   /\ AtDark(t)' = AtDark(t)
         /\ \A k, t : AtCommand(k, t)' = AtCommand(k, t)
<1>1. PanelInit' = PanelInit
  BY DEF PanelInit
<1>2. \A k, t : AtCommand(k, t)' = AtCommand(k, t)
  BY <1>1 DEF AtCommand, AtInitialized, AfterInitialized
<1>3. \A t : AtReset(t)' = AtReset(t)
  BY <1>2 DEF AtReset
<1>4. \A t : AtIo(t)' = AtIo(t)
  BY <1>3 DEF AtIo
<1>5. \A t : AtBus(t)' = AtBus(t)
  BY <1>4 DEF AtBus
<1>6. \A t : AtDark(t)' = AtDark(t)
  BY <1>5 DEF AtDark
<1> QED
  BY <1>1, <1>2, <1>3, <1>4, <1>5, <1>6

\* What one of the driver's own steps does.
OwnEffect(s) ==
  /\ s = "dark" => UNCHANGED <<runtime, bus, ioDone, panel>>
  /\ s = "bus" => bus' = TRUE /\ UNCHANGED <<runtime, panel>>
  /\ s = "io" => ioDone' = runtime.flushDone /\ UNCHANGED <<runtime, bus, panel>>
  /\ s = "reset" => panel' = PoweredOn /\ UNCHANGED <<runtime, bus, ioDone>>
  /\ s = "initialized" =>
       /\ runtime' = [runtime EXCEPT !.initialized = TRUE, !.width = Width, !.height = Height,
                                     !.rotation = 0]
       /\ UNCHANGED <<bus, ioDone, panel>>
  /\ s = "madctl" => panel' = [panel EXCEPT !.scan = to] /\ UNCHANGED <<runtime, bus, ioDone>>
  /\ s = "rotation" => runtime' = [runtime EXCEPT !.rotation = to] /\ UNCHANGED <<bus, ioDone, panel>>
  /\ s = "width" =>
       runtime' = [runtime EXCEPT !.width = Size(to)[1]] /\ UNCHANGED <<bus, ioDone, panel>>
  /\ s = "height" =>
       runtime' = [runtime EXCEPT !.height = Size(to)[2]] /\ UNCHANGED <<bus, ioDone, panel>>
  /\ s \in {"light", "buffer"} => UNCHANGED <<runtime, bus, ioDone, panel>>
  /\ s = "task" => runtime' = [runtime EXCEPT !.test = TRUE] /\ UNCHANGED <<bus, ioDone, panel>>

\* A step of the driver's own is taken, or ends the call.
LEMMA OwnStep ==
  ASSUME Steps, NEW s \in Own, NEW r, Begins(todo, s, r)
  PROVE  /\ chip' = chip
         /\ \/ todo' = <<>> /\ s \in Fallible /\ UNCHANGED <<runtime, bus, ioDone, panel>>
            \/ todo' = r /\ to' = (IF r = <<>> THEN 0 ELSE to) /\ OwnEffect(s)
<1>1. todo # <<>> /\ Head(todo) = s /\ Tail(todo) = r
  BY DEF Begins
<1>2. ~ IsCommand(s)
  BY Commands DEF IsCommand
<1>3. CASE StepFails
  BY <1>1, <1>2, <1>3 DEF StepFails, resources
<1>4. ~ Command
  <2>1. \A i \in DOMAIN PanelInit : PanelInit[i] \notin Own
    BY Commands
  <2> QED
    BY <1>1, <2>1 DEF Command, Do
<1>5. ASSUME NEW e, Do(e) PROVE s = e /\ chip' = chip /\ todo' = r /\ to' = IF r = <<>> THEN 0 ELSE to
  BY <1>1, <1>5 DEF Do
<1>6. CASE Dark \/ BusInit \/ NewPanelIo \/ Reset
  <2>1. CASE Dark
    BY <1>5, <2>1 DEF Dark, OwnEffect
  <2>2. CASE BusInit
    <3>1. s = "bus" /\ bus' = TRUE /\ UNCHANGED <<runtime, panel>>
      BY <1>5, <2>2 DEF BusInit
    <3>2. OwnEffect("bus")
      BY <3>1, Zenon DEF OwnEffect
    <3> QED
      BY <1>5, <2>2, <3>1, <3>2 DEF BusInit
  <2>3. CASE NewPanelIo
    BY <1>5, <2>3 DEF NewPanelIo, OwnEffect
  <2>4. CASE Reset
    BY <1>5, <2>4 DEF Reset, OwnEffect, resources
  <2> QED
    BY <1>6, <2>1, <2>2, <2>3, <2>4
<1>7. CASE SetInitialized \/ Madctl \/ SetRotation \/ SetWidth \/ SetHeight
  <2>1. CASE SetInitialized
    BY <1>5, <2>1 DEF SetInitialized, OwnEffect, resources
  <2>2. CASE Madctl
    BY <1>5, <2>2 DEF Madctl, OwnEffect, resources
  <2>3. CASE SetRotation
    BY <1>5, <2>3 DEF SetRotation, OwnEffect, resources
  <2>4. CASE SetWidth
    BY <1>5, <2>4 DEF SetWidth, OwnEffect, resources
  <2>5. CASE SetHeight
    BY <1>5, <2>5 DEF SetHeight, OwnEffect, resources
  <2> QED
    BY <1>7, <2>1, <2>2, <2>3, <2>4, <2>5
<1>8. CASE LightOn \/ NewBuffer \/ CreateTestTask
  <2>1. CASE LightOn
    BY <1>5, <2>1 DEF LightOn, OwnEffect
  <2>2. CASE NewBuffer
    BY <1>5, <2>2 DEF NewBuffer, OwnEffect, resources
  <2>3. CASE CreateTestTask
    BY <1>5, <2>3 DEF CreateTestTask, OwnEffect, resources
  <2> QED
    BY <1>8, <2>1, <2>2, <2>3
<1> QED
  BY <1>3, <1>4, <1>6, <1>7, <1>8 DEF Steps

\* A command is sent, or ends the call.
LEMMA CommandStep ==
  ASSUME Steps, NEW k \in 0 .. Len(PanelInit) - 1, NEW r, Begins(todo, PanelInit[k + 1], r)
  PROVE  /\ chip' = chip
         /\ UNCHANGED <<runtime, bus, ioDone>>
         /\ \/ todo' = <<>>
            \/ /\ todo' = r
               /\ panel' = IF k = 0 THEN [PoweredOn EXCEPT !.sent = <<PanelInit[1]>>]
                           ELSE [panel EXCEPT !.sent = Append(@, PanelInit[k + 1]),
                                              !.scan = IF PanelInit[k + 1] = "MADCTL" THEN 0 ELSE @]
<1>1. todo # <<>> /\ Head(todo) = PanelInit[k + 1] /\ Tail(todo) = r
  BY DEF Begins
<1>2. PanelInit[k + 1] \notin Own /\ (PanelInit[k + 1] = "SWRESET" <=> k = 0) /\ PanelInit[1] = "SWRESET"
  BY Commands
<1>3. CASE StepFails
  BY <1>1, <1>3 DEF StepFails, resources
<1>4. CASE Command
  BY <1>1, <1>2, <1>4 DEF Command, Do, resources
<1>5. ASSUME NEW e \in Own PROVE ~ Do(e)
  BY <1>1, <1>2, <1>5 DEF Do
<1>6. ~ (Dark \/ BusInit \/ NewPanelIo \/ Reset)
  BY <1>5 DEF Dark, BusInit, NewPanelIo, Reset, Own
<1>7. ~ (SetInitialized \/ Madctl \/ SetRotation \/ SetWidth \/ SetHeight)
  BY <1>5 DEF SetInitialized, Madctl, SetRotation, SetWidth, SetHeight, Own
<1>8. ~ (LightOn \/ NewBuffer \/ CreateTestTask)
  BY <1>5 DEF LightOn, NewBuffer, CreateTestTask, Own
<1> QED
  BY <1>3, <1>4, <1>6, <1>7, <1>8 DEF Steps

\* A call that broke off before the panel counted as initialised.
LEMMA Broken ==
  ASSUME ~ runtime'.initialized, todo' = <<>>
  PROVE  StageInv'
  BY DEF StageInv

\* A sequence's beginning, one element longer.
LEMMA OneMore ==
  ASSUME NEW p \in Seq(StepNames), NEW k \in 0 .. Len(p) - 1
  PROVE  /\ SubSeq(p, 1, k + 1) = Append(SubSeq(p, 1, k), p[k + 1])
         /\ SubSeq(p, 1, 1) = <<p[1]>>
<1>1. Len(p) \in Nat \ {0} /\ k \in Nat /\ k < Len(p) /\ \A i \in 1 .. Len(p) : p[i] \in StepNames
  OBVIOUS
<1>2. ASSUME NEW n \in 0 .. Len(p)
      PROVE  SubSeq(p, 1, n) \in Seq(StepNames) /\ Len(SubSeq(p, 1, n)) = n
             /\ \A i \in 1 .. n : SubSeq(p, 1, n)[i] = p[i]
  <2>1. \A i \in 1 .. n : p[i] \in StepNames
    BY <1>1
  <2>2. /\ SubSeq(p, 1, n) \in Seq(StepNames)
        /\ Len(SubSeq(p, 1, n)) = IF 1 <= n THEN n - 1 + 1 ELSE 0
        /\ \A i \in 1 .. n - 1 + 1 : SubSeq(p, 1, n)[i] = p[1 + i - 1]
    BY <2>1, SubSeqProperties
  <2> QED
    BY <2>2
<1>0. k \in 0 .. Len(p) /\ k + 1 \in 0 .. Len(p) /\ 1 \in 0 .. Len(p) /\ k + 1 \in 1 .. Len(p)
  BY <1>1
<1>3. PICK a \in Seq(StepNames) : a = SubSeq(p, 1, k) /\ Len(a) = k /\ \A i \in 1 .. k : a[i] = p[i]
  <2>1. SubSeq(p, 1, k) \in Seq(StepNames) /\ Len(SubSeq(p, 1, k)) = k
        /\ \A i \in 1 .. k : SubSeq(p, 1, k)[i] = p[i]
    BY <1>0, <1>2
  <2> QED
    BY <2>1
<1>4. PICK b \in Seq(StepNames) :
        b = SubSeq(p, 1, k + 1) /\ Len(b) = k + 1 /\ \A i \in 1 .. k + 1 : b[i] = p[i]
  <2>1. SubSeq(p, 1, k + 1) \in Seq(StepNames) /\ Len(SubSeq(p, 1, k + 1)) = k + 1
        /\ \A i \in 1 .. k + 1 : SubSeq(p, 1, k + 1)[i] = p[i]
    BY <1>0, <1>2
  <2> QED
    BY <2>1
<1>5. PICK c \in Seq(StepNames) :
        c = Append(a, p[k + 1]) /\ Len(c) = k + 1 /\ c[k + 1] = p[k + 1] /\ \A i \in 1 .. k : c[i] = a[i]
  <2>1. p[k + 1] \in StepNames
    BY <1>0, <1>1
  <2>2. PICK e \in StepNames : e = p[k + 1]
    BY <2>1
  <2>3. /\ Append(a, e) \in Seq(StepNames) /\ Len(Append(a, e)) = Len(a) + 1
        /\ \A i \in 1 .. Len(a) : Append(a, e)[i] = a[i]
        /\ Append(a, e)[Len(a) + 1] = e
    BY AppendProperties
  <2> QED
    BY <1>3, <2>2, <2>3
<1>6. b = c
  <2>1. \A i \in 1 .. Len(b) : b[i] = c[i]
    BY <1>1, <1>3, <1>4, <1>5
  <2> QED
    BY <1>4, <1>5, <2>1, SeqEqual
<1>7. SubSeq(p, 1, 1) = <<p[1]>>
  <2>1. PICK d \in Seq(StepNames) : d = SubSeq(p, 1, 1) /\ Len(d) = 1 /\ d[1] = p[1]
    <3>1. SubSeq(p, 1, 1) \in Seq(StepNames) /\ Len(SubSeq(p, 1, 1)) = 1
          /\ \A i \in 1 .. 1 : SubSeq(p, 1, 1)[i] = p[i]
      BY <1>0, <1>2
    <3>2. 1 \in 1 .. 1
      OBVIOUS
    <3> QED
      BY <3>1, <3>2
  <2>2. <<p[1]>> \in Seq(StepNames) /\ Len(<<p[1]>>) = 1 /\ <<p[1]>>[1] = p[1]
    BY <1>1
  <2>3. \A i \in 1 .. Len(d) : d[i] = <<p[1]>>[i]
    BY <2>1, <2>2
  <2>4. d = <<p[1]>>
    BY <2>1, <2>2, <2>3, SeqEqual
  <2> QED
    BY <2>1, <2>4
<1> QED
  BY <1>3, <1>4, <1>5, <1>6, <1>7

\* The initialisation goes on, or breaks off.
LEMMA StartingStep ==
  ASSUME ShapeInv, Steps, NEW t \in Tails, Starting(t)
  PROVE  StageInv'
<1>1. t \in Seq(StepNames)
  BY TestOrder
<1>2. runtime = [initialized |-> FALSE, rotation |-> runtime.rotation, width |-> runtime.width,
                 height |-> runtime.height, flushDone |-> runtime.flushDone, test |-> runtime.test]
  BY DEF ShapeInv, DisplayTypeOK, Starting
<1>3. ASSUME Starting(t)' PROVE StageInv'
  BY <1>3 DEF StageInv
<1>4. ~ runtime.initialized
  BY DEF Starting
<1>5. CASE todo = AtDark(t)
  <2>1. Begins(todo, "dark", AtBus(t)) /\ "dark" \in Own
    BY <1>1, <1>5, StartOrder DEF Own
  <2>2. chip' = chip /\ runtime' = runtime /\ (todo' = <<>> \/ todo' = AtBus(t))
    BY <2>1, OwnStep DEF OwnEffect
  <2>3. AtBus(t)' = AtBus(t)
    BY <2>2, SameSteps
  <2>4. todo' = AtBus(t) => Starting(t)'
    BY <1>4, <2>2, <2>3 DEF Starting
  <2> QED
    BY <1>3, <1>4, <2>2, <2>4, Broken
<1>6. CASE todo = AtBus(t)
  <2>1. Begins(todo, "bus", AtIo(t)) /\ "bus" \in Own
    BY <1>1, <1>6, StartOrder DEF Own
  <2>2. chip' = chip /\ runtime' = runtime /\ (todo' = <<>> \/ (todo' = AtIo(t) /\ bus'))
    BY <2>1, OwnStep DEF OwnEffect
  <2>3. AtIo(t)' = AtIo(t)
    BY <2>2, SameSteps
  <2>4. todo' = AtIo(t) /\ bus' => Starting(t)'
    BY <1>4, <2>2, <2>3 DEF Starting
  <2> QED
    BY <1>3, <1>4, <2>2, <2>4, Broken
<1>7. CASE todo = AtIo(t) /\ bus
  <2>1. Begins(todo, "io", AtReset(t)) /\ "io" \in Own
    BY <1>1, <1>7, StartOrder DEF Own
  <2>2. /\ chip' = chip /\ runtime' = runtime /\ bus' = bus
        /\ todo' = <<>> \/ (todo' = AtReset(t) /\ ioDone' = runtime.flushDone)
    BY <2>1, OwnStep DEF OwnEffect
  <2>3. AtReset(t)' = AtReset(t)
    BY <2>2, SameSteps
  <2>4. todo' = AtReset(t) /\ ioDone' = runtime.flushDone => Starting(t)'
    BY <1>4, <1>7, <2>2, <2>3 DEF Starting, Connected
  <2> QED
    BY <1>3, <1>4, <2>2, <2>4, Broken
<1>8. CASE todo = AtReset(t) /\ Connected
  <2>1. Begins(todo, "reset", AtCommand(0, t)) /\ "reset" \in Own
    BY <1>1, <1>8, StartOrder DEF Own
  <2>2. /\ chip' = chip /\ runtime' = runtime /\ bus' = bus /\ ioDone' = ioDone
        /\ todo' = <<>> \/ (todo' = AtCommand(0, t) /\ panel' = PoweredOn)
    BY <2>1, OwnStep DEF OwnEffect
  <2>3. AtCommand(0, t)' = AtCommand(0, t) /\ PanelInit' = PanelInit
    BY <2>2, SameSteps
  <2>4. 0 \in 0 .. Len(PanelInit) /\ SubSeq(PanelInit, 1, 0) = <<>>
    BY Commands, SubSeqEmpty
  <2>5. ASSUME todo' = AtCommand(0, t), panel' = PoweredOn PROVE Starting(t)'
    <3>1. panel'.sent = SubSeq(PanelInit, 1, 0) /\ panel'.scan = 0
      BY <2>4, <2>5 DEF PoweredOn
    <3>2. Connected'
      BY <1>8, <2>2 DEF Connected
    <3> QED
      BY <1>4, <2>2, <2>3, <2>4, <2>5, <3>1, <3>2 DEF Starting
  <2> QED
    BY <1>3, <1>4, <2>2, <2>5, Broken
<1>9. ASSUME NEW k \in 0 .. Len(PanelInit), todo = AtCommand(k, t), Connected,
             panel.sent = SubSeq(PanelInit, 1, k), panel.scan = 0
      PROVE  StageInv'
  <2>1. PICK p \in Seq(StepNames) : p = PanelInit
    BY Commands
  <2>2. CASE k < Len(PanelInit)
    <3>1. k \in 0 .. Len(PanelInit) - 1 /\ k + 1 \in 1 .. Len(p) /\ k + 1 \in 0 .. Len(PanelInit)
      BY <2>1, <2>2, Commands
    <3>2. Begins(todo, PanelInit[k + 1], AtCommand(k + 1, t))
      BY <1>1, <1>9, <2>2, CommandOrder
    <3>3. /\ chip' = chip /\ UNCHANGED <<runtime, bus, ioDone>>
          /\ \/ todo' = <<>>
             \/ /\ todo' = AtCommand(k + 1, t)
                /\ panel' = IF k = 0 THEN [PoweredOn EXCEPT !.sent = <<PanelInit[1]>>]
                            ELSE [panel EXCEPT !.sent = Append(@, PanelInit[k + 1]),
                                               !.scan = IF PanelInit[k + 1] = "MADCTL" THEN 0 ELSE @]
      BY <3>1, <3>2, CommandStep
    <3>4. AtCommand(k + 1, t)' = AtCommand(k + 1, t) /\ PanelInit' = PanelInit /\ Connected'
      BY <1>9, <3>3, SameSteps DEF Connected
    <3>5. ASSUME todo' = AtCommand(k + 1, t), todo' # <<>> PROVE Starting(t)'
      <4>1. panel'.sent = SubSeq(PanelInit, 1, k + 1) /\ panel'.scan = 0
        <5>1. CASE k = 0
          <6>1. panel'.sent = <<PanelInit[1]>> /\ panel'.scan = 0
            BY <3>3, <3>5, <5>1 DEF PoweredOn
          <6>2. SubSeq(p, 1, 1) = <<p[1]>>
            BY <2>1, <3>1, OneMore
          <6> QED
            BY <2>1, <5>1, <6>1, <6>2
        <5>2. CASE k # 0
          <6>1. panel'.sent = Append(panel.sent, PanelInit[k + 1]) /\ panel'.scan = 0
            BY <1>9, <3>3, <3>5, <5>2 DEF ShapeInv
          <6>2. SubSeq(p, 1, k + 1) = Append(SubSeq(p, 1, k), p[k + 1])
            BY <2>1, <3>1, OneMore
          <6> QED
            BY <1>9, <2>1, <6>1, <6>2
        <5> QED
          BY <5>1, <5>2
      <4> QED
        BY <1>4, <3>1, <3>3, <3>4, <3>5, <4>1 DEF Starting
    <3> QED
      BY <1>3, <1>4, <3>3, <3>5, Broken
  <2>3. CASE k = Len(PanelInit)
    <3>1. Begins(todo, "initialized", AfterInitialized(t)) /\ "initialized" \in Own
      BY <1>1, <1>9, <2>3, CommandOrder DEF Own
    <3>2. /\ chip' = chip /\ todo' = AfterInitialized(t)
          /\ UNCHANGED <<bus, ioDone, panel>>
          /\ runtime' = [runtime EXCEPT !.initialized = TRUE, !.width = Width, !.height = Height,
                                        !.rotation = 0]
      BY <3>1, OwnStep DEF OwnEffect, Fallible
    <3>3. /\ runtime'.initialized /\ runtime'.rotation = 0 /\ runtime'.width = Width
          /\ runtime'.height = Height /\ runtime'.flushDone = runtime.flushDone
      BY <1>2, <3>2
    <3>4. SubSeq(p, 1, Len(p)) = p
      BY SubSeqFull
    <3>5. panel'.sent = PanelInit' /\ PanelInit' = PanelInit
      BY <1>9, <2>1, <2>3, <3>2, <3>4, SameSteps
    <3>6. Connected'
      BY <1>9, <3>2, <3>3 DEF Connected
    <3>7. Turned'
      BY <1>9, <3>2, <3>3 DEF Turned, Size, Sideways
    <3>8. AtLight(t) \in Ends
      BY DEF Ends
    <3>9. todo' = AtLight(t) \/ Rotating(AtLight(t))'
      BY <3>2, <3>7 DEF AfterInitialized, Rotating
    <3>10. Started'
      BY <3>3, <3>5, <3>6, <3>7, <3>8, <3>9 DEF Started
    <3> QED
      BY <3>10 DEF StageInv
  <2> QED
    BY <2>1, <2>2, <2>3, Commands
<1> QED
  BY <1>5, <1>6, <1>7, <1>8, <1>9 DEF Starting
\* A call that takes a step has one left.
LEMMA StepLeft ==
  ASSUME Steps
  PROVE  todo # <<>>
<1>1. \A s : Do(s) => todo # <<>>
  BY DEF Do
<1> QED
  BY <1>1 DEF Steps, Dark, BusInit, NewPanelIo, Reset, Command, SetInitialized, Madctl,
              SetRotation, SetWidth, SetHeight, LightOn, NewBuffer, CreateTestTask, StepFails

\* A rotation, the back light and the test's steps leave a panel connected that
\* is, and turned one that was.
LEMMA StartedStep ==
  ASSUME ShapeInv, Steps, Started
  PROVE  StageInv'
<1>1. /\ runtime = [initialized |-> TRUE, rotation |-> runtime.rotation, width |-> runtime.width,
                    height |-> runtime.height, flushDone |-> runtime.flushDone, test |-> runtime.test]
      /\ panel = [sent |-> panel.sent, scan |-> panel.scan, columns |-> panel.columns,
                  rows |-> panel.rows]
      /\ bus \in BOOLEAN
  BY DEF ShapeInv, DisplayTypeOK, Started
<1>2. todo # <<>>
  BY StepLeft
<1>3. ASSUME NEW s \in {"madctl", "rotation", "width", "height", "light", "buffer", "task"},
             NEW r, Begins(todo, s, r)
      PROVE  /\ runtime'.initialized /\ Connected' /\ panel'.sent = PanelInit'
             /\ \/ todo' = <<>> /\ s \in Fallible /\ UNCHANGED <<runtime, panel>>
                \/ todo' = r /\ to' = (IF r = <<>> THEN 0 ELSE to) /\ OwnEffect(s)
  <2>1. s \in Own
    BY DEF Own
  <2>2. /\ chip' = chip
        /\ \/ todo' = <<>> /\ s \in Fallible /\ UNCHANGED <<runtime, bus, ioDone, panel>>
           \/ todo' = r /\ to' = (IF r = <<>> THEN 0 ELSE to) /\ OwnEffect(s)
    BY <1>3, <2>1, OwnStep
  <2>3. OwnEffect(s) => /\ runtime'.initialized /\ runtime'.flushDone = runtime.flushDone
                        /\ UNCHANGED <<bus, ioDone>> /\ panel'.sent = panel.sent
    <3>1. CASE s = "madctl"
      BY <1>1, <3>1 DEF OwnEffect
    <3>2. CASE s \in {"rotation", "width"}
      BY <1>1, <3>2 DEF OwnEffect
    <3>3. CASE s \in {"height", "task"}
      BY <1>1, <3>3 DEF OwnEffect
    <3>4. CASE s \in {"light", "buffer"}
      BY <1>1, <3>4 DEF OwnEffect
    <3> QED
      BY <3>1, <3>2, <3>3, <3>4
  <2>4. /\ runtime'.initialized /\ runtime'.flushDone = runtime.flushDone
        /\ UNCHANGED <<bus, ioDone>> /\ panel'.sent = panel.sent
    BY <1>1, <2>2, <2>3
  <2>5. PanelInit' = PanelInit
    BY <2>2, SameSteps
  <2>6. Connected'
    BY <2>4 DEF Connected, Started
  <2> QED
    BY <2>2, <2>4, <2>5, <2>6 DEF Started
<1>4. ASSUME runtime'.initialized, Connected', panel'.sent = PanelInit',
             \/ \E u \in Ends : Rotating(u)'
             \/ (todo' \in Ends \/ todo' = TestSteps \/ todo' = <<"task">>) /\ Turned'
      PROVE  StageInv'
  BY <1>4 DEF StageInv, Started
<1>5. <<>> \in Ends
  BY DEF Ends
<1>6. ASSUME NEW u \in Ends, Rotating(u) PROVE StageInv'
  <2>1. u \in Seq(StepNames)
    BY TestOrder
  <2>2. CASE todo = AtMadctl(u) /\ Turned
    <3>1. Begins(todo, "madctl", AtRotation(u)) /\ AtRotation(u) # <<>>
      BY <2>1, <2>2, RotationOrder DEF Begins
    <3>2. /\ runtime'.initialized /\ Connected' /\ panel'.sent = PanelInit'
          /\ \/ todo' = <<>> /\ UNCHANGED <<runtime, panel>>
             \/ todo' = AtRotation(u) /\ to' = to /\ panel' = [panel EXCEPT !.scan = to]
      BY <1>3, <3>1 DEF OwnEffect
    <3>3. CASE UNCHANGED <<runtime, panel>> /\ todo' = <<>>
      <4>1. Turned'
        BY <2>2, <3>3 DEF Turned
      <4> QED
        BY <1>4, <1>5, <3>2, <3>3, <4>1
    <3>4. CASE todo' = AtRotation(u) /\ to' = to /\ panel' = [panel EXCEPT !.scan = to]
      <4>1. Turning'
        BY <1>1, <3>4 DEF Turning
      <4> QED
        BY <1>4, <3>2, <3>4, <4>1 DEF Rotating
    <3> QED
      BY <3>2, <3>3, <3>4
  <2>3. CASE todo = AtRotation(u) /\ Turning
    <3>1. Begins(todo, "rotation", AtWidth(u)) /\ AtWidth(u) # <<>>
      BY <2>1, <2>3, RotationOrder DEF Begins
    <3>2. /\ runtime'.initialized /\ Connected' /\ panel'.sent = PanelInit'
          /\ todo' = AtWidth(u) /\ to' = to /\ panel' = panel
          /\ runtime' = [runtime EXCEPT !.rotation = to]
      BY <1>3, <3>1 DEF OwnEffect, Fallible
    <3>3. Turning' /\ runtime'.rotation = to'
      BY <1>1, <2>3, <3>2 DEF Turning
    <3> QED
      BY <1>4, <3>2, <3>3 DEF Rotating
  <2>4. CASE todo = AtWidth(u) /\ Turning /\ runtime.rotation = to
    <3>1. Begins(todo, "width", AtHeight(u)) /\ AtHeight(u) # <<>>
      BY <2>1, <2>4, RotationOrder DEF Begins
    <3>2. /\ runtime'.initialized /\ Connected' /\ panel'.sent = PanelInit'
          /\ todo' = AtHeight(u) /\ to' = to /\ panel' = panel
          /\ runtime' = [runtime EXCEPT !.width = Size(to)[1]]
      BY <1>3, <3>1 DEF OwnEffect, Fallible
    <3>3. Turning' /\ runtime'.rotation = to' /\ runtime'.width = Size(to)[1]
      BY <1>1, <2>4, <3>2 DEF Turning
    <3>4. runtime'.width = Size(to')[1]
      BY <3>2, <3>3
    <3> QED
      BY <1>4, <3>2, <3>3, <3>4 DEF Rotating
  <2>5. CASE todo = AtHeight(u) /\ Turning /\ runtime.rotation = to /\ runtime.width = Size(to)[1]
    <3>1. Begins(todo, "height", u)
      BY <2>1, <2>5, RotationOrder
    <3>2. /\ runtime'.initialized /\ Connected' /\ panel'.sent = PanelInit'
          /\ todo' = u /\ panel' = panel
          /\ runtime' = [runtime EXCEPT !.height = Size(to)[2]]
      BY <1>3, <3>1 DEF OwnEffect, Fallible
    <3>3. /\ panel'.scan = to /\ runtime'.rotation = to
          /\ runtime'.width = Size(to)[1] /\ runtime'.height = Size(to)[2]
      BY <1>1, <2>5, <3>2 DEF Turning
    <3>4. <<runtime'.width, runtime'.height>> = Size(to)
      BY <3>3 DEF Size
    <3>5. Turned'
      BY <3>3, <3>4 DEF Turned
    <3> QED
      BY <1>4, <3>2, <3>5
  <2> QED
    BY <1>6, <2>2, <2>3, <2>4, <2>5 DEF Rotating
<1>7. CASE todo \in Ends /\ Turned
  <2>1. PICK t \in Tails : todo = AtLight(t)
    BY <1>2, <1>7 DEF Ends
  <2>2. Begins(todo, "light", t)
    BY <2>1, TestOrder, RotationOrder
  <2>3. /\ runtime'.initialized /\ Connected' /\ panel'.sent = PanelInit'
        /\ todo' = t /\ UNCHANGED <<runtime, panel>>
    BY <1>3, <2>2 DEF OwnEffect, Fallible
  <2>4. Turned'
    BY <1>7, <2>3 DEF Turned
  <2> QED
    BY <1>4, <1>5, <2>3, <2>4 DEF Tails
<1>8. CASE todo = TestSteps /\ Turned
  <2>1. Begins(todo, "buffer", <<"task">>)
    BY <1>8, TestOrder
  <2>2. /\ runtime'.initialized /\ Connected' /\ panel'.sent = PanelInit'
        /\ todo' \in {<<"task">>, <<>>} /\ UNCHANGED <<runtime, panel>>
    BY <1>3, <2>1 DEF OwnEffect
  <2>3. Turned'
    BY <1>8, <2>2 DEF Turned
  <2> QED
    BY <1>4, <1>5, <2>2, <2>3
<1>9. CASE todo = <<"task">> /\ Turned
  <2>1. Begins(todo, "task", <<>>)
    BY <1>9, TestOrder
  <2>2. /\ runtime'.initialized /\ Connected' /\ panel'.sent = PanelInit'
        /\ todo' = <<>> /\ panel' = panel
        /\ runtime' = runtime \/ runtime' = [runtime EXCEPT !.test = TRUE]
    BY <1>3, <2>1 DEF OwnEffect
  <2>3. Turned'
    BY <1>1, <1>9, <2>2 DEF Turned
  <2> QED
    BY <1>4, <1>5, <2>2, <2>3
<1> QED
  BY <1>6, <1>7, <1>8, <1>9 DEF Started

\* Every step of a call keeps the order of the steps.
LEMMA StageStep ==
  ASSUME ShapeInv, StageInv, Steps
  PROVE  StageInv'
<1>1. todo # <<>>
  BY StepLeft
<1> QED
  BY <1>1, StartingStep, StartedStep DEF StageInv

\* Between two calls an initialised panel is connected and turned.
LEMMA Settled ==
  ASSUME StageInv, todo = <<>>, runtime.initialized
  PROVE  Started /\ Turned
<1>1. ASSUME NEW t \in Tails PROVE ~ Starting(t)
  BY DEF Starting
<1>2. Started
  BY <1>1 DEF StageInv
<1>3. ASSUME NEW u \in Ends PROVE ~ Rotating(u)
  <2>1. u \in Seq(StepNames)
    BY TestOrder
  <2>2. AtMadctl(u) # <<>> /\ AtRotation(u) # <<>> /\ AtWidth(u) # <<>> /\ AtHeight(u) # <<>>
    BY <2>1, RotationOrder DEF Begins
  <2> QED
    BY <2>2 DEF Rotating
<1> QED
  BY <1>2, <1>3 DEF Started

\* What does not touch the panel's commands and the driver's state.
LEMMA StageKept ==
  ASSUME StageInv, UNCHANGED <<chip, runtime, todo, to, bus, ioDone>>,
         panel'.sent = panel.sent, panel'.scan = panel.scan
  PROVE  StageInv'
<1>1. PanelInit' = PanelInit
  BY SameSteps
<1>2. Connected' <=> Connected
  BY DEF Connected
<1>3. (Turned' <=> Turned) /\ (Turning' <=> Turning)
  BY DEF Turned, Turning
<1>4. ASSUME NEW t \in Tails, Starting(t) PROVE Starting(t)'
  <2>1. /\ AtReset(t)' = AtReset(t) /\ AtIo(t)' = AtIo(t) /\ AtBus(t)' = AtBus(t)
        /\ AtDark(t)' = AtDark(t) /\ \A k : AtCommand(k, t)' = AtCommand(k, t)
    BY SameSteps
  <2> QED
    BY <1>1, <1>2, <1>4, <2>1 DEF Starting
<1>5. ASSUME NEW u \in Ends, Rotating(u) PROVE Rotating(u)'
  BY <1>3, <1>5 DEF Rotating
<1>6. Started => Started'
  BY <1>1, <1>2, <1>3, <1>5 DEF Started
<1> QED
  BY <1>4, <1>6 DEF StageInv

\* A call begins with its first step.
LEMMA CallsStage ==
  ASSUME ShapeInv, StageInv, Calls
  PROVE  StageInv'
<1>1. runtime = [initialized |-> runtime.initialized, rotation |-> runtime.rotation,
                 width |-> runtime.width, height |-> runtime.height,
                 flushDone |-> runtime.flushDone, test |-> runtime.test]
  BY DEF ShapeInv, DisplayTypeOK
<1>2. ASSUME NEW t \in Tails, ~ runtime'.initialized, chip' = chip, todo' = AtDark(t)
      PROVE  StageInv'
  <2>1. AtDark(t)' = AtDark(t)
    BY <1>2, SameSteps
  <2>2. Starting(t)'
    BY <1>2, <2>1 DEF Starting
  <2> QED
    BY <2>2 DEF StageInv
<1>3. ASSUME todo = <<>>, runtime.initialized, UNCHANGED <<chip, runtime, bus, ioDone, panel>>,
             todo' = RotationSteps \/ todo' = TestSteps
      PROVE  StageInv'
  <2>1. Started /\ Turned
    BY <1>3, Settled
  <2>2. PanelInit' = PanelInit
    BY <1>3, SameSteps
  <2>3. Connected' /\ Turned'
    BY <1>3, <2>1 DEF Started, Connected, Turned
  <2>4. RotationSteps = AtMadctl(<<>>) /\ <<>> \in Ends
    BY InitOrder DEF Ends
  <2>5. todo' = RotationSteps => Rotating(<<>>)'
    BY <2>3, <2>4 DEF Rotating
  <2>6. Started'
    BY <1>3, <2>1, <2>2, <2>3, <2>4, <2>5 DEF Started
  <2> QED
    BY <2>6 DEF StageInv
<1>4. ASSUME NEW flushDone \in BOOLEAN, InitDisplay(flushDone) PROVE StageInv'
  <2>1. ~ runtime'.initialized /\ chip' = chip /\ todo' = InitSteps
    BY <1>1, <1>4 DEF InitDisplay, Begin
  <2> QED
    BY <1>2, <2>1, InitOrder DEF Tails
<1>5. ASSUME NEW rotation \in Rotations, Rotate7735(rotation) \/ Rotate7789(rotation) PROVE StageInv'
  BY <1>3, <1>5 DEF Rotate7735, Rotate7789, Begin, resources
<1>6. CASE StartTest
  <2>1. CASE runtime.initialized
    BY <1>3, <1>6, <2>1 DEF StartTest, Begin, resources
  <2>2. CASE ~ runtime.initialized
    <3>1. ~ runtime'.initialized /\ chip' = chip /\ todo' = InitSteps \o TestSteps
      BY <1>1, <1>6, <2>2 DEF StartTest, Begin
    <3> QED
      BY <1>2, <3>1, InitOrder DEF Tails
  <2> QED
    BY <2>1, <2>2
<1>7. ASSUME NEW on \in BOOLEAN, SetBacklight(on) PROVE StageInv'
  BY <1>7, StageKept DEF SetBacklight
<1> QED
  BY <1>4, <1>5, <1>6, <1>7 DEF Calls
-----------------------------------------------------------------------------
(* The records keep their fields. *)

\* The parts of a display's type that a call of the application changes.
RuntimeOK ==
  runtime \in [initialized : BOOLEAN, rotation : Rotations, width : {Width, Height},
               height : {Width, Height}, flushDone : BOOLEAN, test : BOOLEAN]
ResourcesOK == light \in BOOLEAN /\ bus \in BOOLEAN /\ ioDone \in BOOLEAN /\ ios \in 0 .. MaxIos
PanelOK ==
  /\ panel = [sent |-> panel.sent, scan |-> panel.scan, columns |-> panel.columns, rows |-> panel.rows]
  /\ panel.scan \in Rotations
Places == {"idle", "offset", "caset", "raset", "ramwr"}
PaintOK ==
  paint \in [Painters -> [at : Places, region : Regions \cup {NoRegion}, offset : Nat \X Nat]]

Fields ==
  /\ chip \in Chips /\ RuntimeOK /\ to \in Rotations /\ ResourcesOK
  /\ PanelOK /\ PaintOK /\ alone \in [Painters -> BOOLEAN]

\* ShapeInv, part by part.
LEMMA Shape ==
  ShapeInv <=> Fields
<1>1. PaintOK => \A t \in Painters : /\ paint[t].at \in Places
                                    /\ paint[t].region \in Regions \cup {NoRegion}
  BY DEF PaintOK
<1>2. ({light, bus, ioDone} \subseteq BOOLEAN)
        <=> (light \in BOOLEAN /\ bus \in BOOLEAN /\ ioDone \in BOOLEAN)
  BY Zenon
<1> QED
  BY <1>1, <1>2, Zenon DEF ShapeInv, DisplayTypeOK, RuntimeOK, ResourcesOK, PanelOK, PaintOK, Places,
                      Fields

\* The same of the next state.
LEMMA ShapeNext ==
  ShapeInv' <=> Fields'
<1>1. ShapeInv <=> Fields
  BY Shape
<1> QED
  BY <1>1, PTL

\* The calls, and the steps of a call.
LEMMA ShapeCalls ==
  ASSUME ShapeInv, Calls
  PROVE  ShapeInv'
<1>1. /\ chip \in Chips /\ RuntimeOK /\ to \in Rotations /\ ResourcesOK
      /\ PanelOK /\ PaintOK /\ alone \in [Painters -> BOOLEAN]
  BY Shape DEF Fields
<1>2. 0 \in Rotations /\ 180 \in Rotations
  BY DisplayAssumption
<1>3. ASSUME NEW steps, NEW rotation \in Rotations, Begin(steps, rotation),
             runtime' = runtime \/ \E done \in BOOLEAN : runtime' = [runtime EXCEPT !.flushDone = done]
      PROVE  ShapeInv'
  <2>1. RuntimeOK'
    BY <1>1, <1>3 DEF RuntimeOK
  <2>2. /\ chip' = chip /\ to' \in Rotations /\ paint' = paint /\ panel' = panel
        /\ UNCHANGED <<light, bus, ios, ioDone>> /\ alone' \in [Painters -> BOOLEAN]
    BY <1>3 DEF Begin, resources
  <2>3. ResourcesOK' /\ PanelOK' /\ PaintOK'
    BY <1>1, <2>2 DEF ResourcesOK, PanelOK, PaintOK
  <2> QED
    BY <1>1, <2>1, <2>2, <2>3, ShapeNext DEF Fields
<1>4. ASSUME NEW flushDone \in BOOLEAN, InitDisplay(flushDone) PROVE ShapeInv'
  BY <1>2, <1>3, <1>4 DEF InitDisplay
<1>5. ASSUME NEW rotation \in Rotations, Rotate7735(rotation) \/ Rotate7789(rotation) PROVE ShapeInv'
  BY <1>3, <1>5 DEF Rotate7735, Rotate7789
<1>6. CASE StartTest
  BY <1>2, <1>3, <1>6 DEF StartTest
<1>7. ASSUME NEW on \in BOOLEAN, SetBacklight(on) PROVE ShapeInv'
  <2>1. /\ RuntimeOK' /\ ResourcesOK' /\ PanelOK' /\ PaintOK' /\ chip' = chip /\ to' = to
        /\ alone' = alone
    BY <1>1, <1>7 DEF SetBacklight, RuntimeOK, ResourcesOK, PanelOK, PaintOK
  <2> QED
    BY <1>1, <2>1, ShapeNext DEF Fields
<1> QED
  BY <1>4, <1>5, <1>6, <1>7 DEF Calls

\* A step of a call sets a field to a value of its type.
LEMMA ShapeSteps ==
  ASSUME ShapeInv, Steps
  PROVE  ShapeInv'
<1>1. /\ chip \in Chips /\ RuntimeOK /\ to \in Rotations /\ ResourcesOK
      /\ PanelOK /\ PaintOK /\ alone \in [Painters -> BOOLEAN]
  BY Shape DEF Fields
<1>2. 0 \in Rotations /\ Size(to)[1] \in {Width, Height} /\ Size(to)[2] \in {Width, Height}
  BY DisplayAssumption DEF Size
<1>3. PanelOK /\ panel' = panel => PanelOK'
  BY DEF PanelOK
<1>4. RuntimeOK /\ runtime' = runtime => RuntimeOK'
  BY DEF RuntimeOK
<1>5. ASSUME UNCHANGED <<chip, paint, alone>>, to' \in {0, to}, RuntimeOK', ResourcesOK', PanelOK'
      PROVE  ShapeInv'
  <2>1. PaintOK'
    BY <1>1, <1>5 DEF PaintOK
  <2> QED
    BY <1>1, <1>2, <1>5, <2>1, ShapeNext DEF Fields
<1>6. ASSUME NEW s, Do(s), RuntimeOK', ResourcesOK', PanelOK' PROVE ShapeInv'
  BY <1>5, <1>6 DEF Do
<1>7. UNCHANGED resources => ResourcesOK'
  BY <1>1 DEF resources, ResourcesOK
<1>8. CASE Dark \/ BusInit \/ NewPanelIo
  <2>1. ResourcesOK'
    <3>1. CASE Dark
      BY <1>1, <3>1 DEF Dark, ResourcesOK
    <3>2. CASE BusInit
      BY <1>1, <3>2 DEF BusInit, ResourcesOK
    <3>3. CASE NewPanelIo
      <4>1. runtime.flushDone \in BOOLEAN
        BY <1>1 DEF RuntimeOK
      <4>2. ios' \in 0 .. MaxIos
        BY <1>1, <3>3, DisplayAssumption DEF NewPanelIo, ResourcesOK
      <4>3. light' = light /\ bus' = bus /\ ioDone' = runtime.flushDone
        BY <3>3 DEF NewPanelIo
      <4> QED
        BY <1>1, <4>1, <4>2, <4>3 DEF ResourcesOK
    <3> QED
      BY <1>8, <3>1, <3>2, <3>3
  <2> QED
    BY <1>1, <1>3, <1>4, <1>6, <1>8, <2>1 DEF Dark, BusInit, NewPanelIo
<1>9. CASE Reset \/ Command \/ Madctl
  <2>1. PanelOK'
    <3>1. CASE Reset
      BY <1>2, <3>1 DEF Reset, PanelOK, PoweredOn
    <3>2. CASE Command
      BY <1>1, <1>2, <3>2 DEF Command, PanelOK, PoweredOn
    <3>3. CASE Madctl
      BY <1>1, <3>3 DEF Madctl, PanelOK
    <3> QED
      BY <1>9, <3>1, <3>2, <3>3
  <2>2. UNCHANGED <<runtime, resources>> /\ \E s : Do(s)
    BY <1>9 DEF Reset, Command, Madctl
  <2> QED
    BY <1>1, <1>4, <1>6, <1>7, <2>1, <2>2
<1>10. CASE SetInitialized \/ SetRotation \/ SetWidth \/ SetHeight \/ CreateTestTask \/ NewBuffer
  <2>1. RuntimeOK'
    <3>1. CASE SetInitialized
      BY <1>1, <1>2, <3>1 DEF SetInitialized, RuntimeOK
    <3>2. CASE SetRotation
      BY <1>1, <3>2 DEF SetRotation, RuntimeOK
    <3>3. CASE SetWidth
      BY <1>1, <1>2, <3>3 DEF SetWidth, RuntimeOK
    <3>4. CASE SetHeight
      BY <1>1, <1>2, <3>4 DEF SetHeight, RuntimeOK
    <3>5. CASE CreateTestTask
      BY <1>1, <3>5 DEF CreateTestTask, RuntimeOK
    <3>6. CASE NewBuffer
      BY <1>1, <3>6 DEF NewBuffer, RuntimeOK
    <3> QED
      BY <1>10, <3>1, <3>2, <3>3, <3>4, <3>5, <3>6
  <2>2. UNCHANGED <<panel, resources>> /\ \E s : Do(s)
    BY <1>10 DEF SetInitialized, SetRotation, SetWidth, SetHeight, CreateTestTask, NewBuffer
  <2> QED
    BY <1>1, <1>3, <1>6, <1>7, <2>1, <2>2
<1>11. CASE LightOn
  <2>1. ResourcesOK'
    BY <1>1, <1>11 DEF LightOn, ResourcesOK
  <2> QED
    BY <1>1, <1>3, <1>4, <1>6, <1>11, <2>1 DEF LightOn
<1>12. CASE StepFails
  BY <1>1, <1>3, <1>4, <1>5, <1>7, <1>12 DEF StepFails
<1> QED
  BY <1>8, <1>9, <1>10, <1>11, <1>12 DEF Steps

\* The flushes.
LEMMA ShapeFlush ==
  ASSUME ShapeInv, NEW t \in Painters,
         (\E region \in Regions : BeginFlush(t, region)) \/ FlushSteps(t)
  PROVE  ShapeInv'
<1>1. /\ chip \in Chips /\ RuntimeOK /\ to \in Rotations /\ ResourcesOK
      /\ PanelOK /\ PaintOK /\ alone \in [Painters -> BOOLEAN]
  BY Shape DEF Fields
<1>2. UNCHANGED <<chip, runtime, to, resources>>
  BY DEF BeginFlush, FlushSteps, LoadOffset, Caset, Raset, Ramwr, TransferFails, GoOn, EndFlush
<1>3. RuntimeOK' /\ ResourcesOK'
  BY <1>1, <1>2 DEF RuntimeOK, ResourcesOK, resources
<1>4. PaintOK' /\ PanelOK' /\ alone' \in [Painters -> BOOLEAN]
  <2>1. ASSUME NEW region \in Regions, BeginFlush(t, region)
        PROVE  PaintOK' /\ PanelOK' /\ alone' \in [Painters -> BOOLEAN]
    <3>1. PaintOK'
      BY <1>1, <2>1 DEF BeginFlush, PaintOK, Places
    <3> QED
      BY <1>1, <2>1, <3>1 DEF BeginFlush, PanelOK
  <2>2. CASE LoadOffset(t)
    <3>1. <<XOffset, YOffset>> \in Nat \X Nat /\ <<YOffset, XOffset>> \in Nat \X Nat
      BY DisplayAssumption
    <3>2. PICK o \in Nat \X Nat : paint' = [paint EXCEPT ![t].at = "caset", ![t].offset = o]
      BY <2>2, <3>1 DEF LoadOffset, Offset7735, Offset7789
    <3>3. PaintOK'
      BY <1>1, <3>2 DEF PaintOK, Places
    <3> QED
      BY <1>1, <2>2, <3>3 DEF LoadOffset, PanelOK
  <2>3. CASE Caset(t) \/ Raset(t)
    <3>1. PaintOK'
      BY <1>1, <2>3 DEF Caset, Raset, GoOn, PaintOK, Places
    <3>2. PanelOK'
      BY <1>1, <2>3 DEF Caset, Raset, GoOn, PanelOK
    <3> QED
      BY <1>1, <2>3, <3>1, <3>2 DEF Caset, Raset, GoOn
  <2>4. CASE Ramwr(t) \/ TransferFails(t)
    <3>1. EndFlush(t)
      BY <2>4 DEF Ramwr, TransferFails
    <3>2. NoFlush \in [at : Places, region : Regions \cup {NoRegion}, offset : Nat \X Nat]
      BY DEF NoFlush, Places
    <3>3. PaintOK'
      BY <1>1, <3>1, <3>2 DEF EndFlush, PaintOK
    <3>4. alone' \in [Painters -> BOOLEAN]
      BY <1>1, <3>1 DEF EndFlush
    <3> QED
      BY <1>1, <3>1, <3>3, <3>4 DEF EndFlush, PanelOK
  <2> QED
    BY <2>1, <2>2, <2>3, <2>4 DEF FlushSteps
<1> QED
  BY <1>1, <1>2, <1>3, <1>4, ShapeNext DEF Fields
-----------------------------------------------------------------------------
(* A flush that nothing overlaps. *)

\* A call and its steps overlap every flush; the back light none.
LEMMA AloneCalls ==
  ASSUME ShapeInv, AloneInv, Calls \/ Steps
  PROVE  AloneInv'
<1>1. ASSUME \A t \in Painters : ~ alone'[t] PROVE AloneInv'
  BY <1>1 DEF AloneInv
<1>2. ASSUME NEW steps, NEW rotation, Begin(steps, rotation) PROVE AloneInv'
  BY <1>1, <1>2 DEF Begin
<1>3. CASE Steps
  <2>1. todo # <<>>
    BY <1>3, StepLeft
  <2>2. \A t \in Painters : ~ alone[t]
    BY <2>1 DEF AloneInv, AloneOK
  <2>3. alone' = alone
    BY <1>3 DEF Steps, Dark, BusInit, NewPanelIo, Reset, Command, SetInitialized, Madctl,
                SetRotation, SetWidth, SetHeight, LightOn, NewBuffer, CreateTestTask, StepFails, Do
  <2> QED
    BY <1>1, <2>2, <2>3
<1>4. ASSUME NEW on \in BOOLEAN, SetBacklight(on) PROVE AloneInv'
  BY <1>4 DEF SetBacklight, AloneInv, AloneOK, Valid, Offset7735, Offset7789
<1> QED
  BY <1>2, <1>3, <1>4 DEF Calls, InitDisplay, Rotate7735, Rotate7789, StartTest

\* A painter that flushes alone goes on alone, and another begins.
LEMMA AloneFlush ==
  ASSUME ShapeInv, AloneInv, NEW p \in Painters, chip \in {"ST7735", "ST7789"},
         (\E region \in Regions : BeginFlush(p, region)) \/ FlushSteps(p)
  PROVE  AloneInv'
<1>1. /\ PanelOK /\ PaintOK /\ alone \in [Painters -> BOOLEAN]
  BY Shape DEF Fields
<1>2. UNCHANGED <<chip, runtime, todo>>
  BY DEF BeginFlush, FlushSteps, LoadOffset, Caset, Raset, Ramwr, TransferFails, GoOn, EndFlush
<1>3. /\ (IF chip = "ST7735" THEN Offset7735 ELSE Offset7789)'
           = IF chip = "ST7735" THEN Offset7735 ELSE Offset7789
      /\ \A region : Valid(region)' <=> Valid(region)
  BY <1>2 DEF Offset7735, Offset7789, Valid
<1>4. ASSUME NEW t \in Painters, alone'[t] PROVE AloneOK(t)'
  <2>1. ASSUME NEW region \in Regions, BeginFlush(p, region) PROVE AloneOK(t)'
    <3>1. t = p /\ todo = <<>> /\ \A q \in Painters : paint[q].at = "idle"
      BY <1>4, <2>1 DEF BeginFlush
    <3>2. paint' = [paint EXCEPT ![p] = [at |-> "offset", region |-> region, offset |-> <<0, 0>>]]
      BY <2>1 DEF BeginFlush
    <3>3. /\ paint'[p].at = "offset" /\ paint'[p].region = region
          /\ \A q \in Painters : q # p => paint'[q].at = "idle"
      BY <1>1, <3>1, <3>2 DEF PaintOK
    <3>4. runtime'.initialized /\ Valid(region)' /\ todo' = <<>>
      BY <1>2, <1>3, <2>1, <3>1 DEF BeginFlush
    <3> QED
      BY <3>1, <3>3, <3>4 DEF AloneOK
  <2>2. ASSUME paint[p].at # "idle", alone[t] PROVE t = p /\ AloneOK(p)
    <3>1. AloneOK(t)
      BY <2>2 DEF AloneInv, AloneOK
    <3> QED
      BY <2>2, <3>1 DEF AloneOK
  <2>3. ASSUME t = p, AloneOK(p), NEW next \in Places \ {"idle"},
               paint'[p].at = next, paint'[p].region = paint[p].region,
               \A q \in Painters : q # p => paint'[q] = paint[q],
               next # "offset" => paint'[p].offset = IF chip = "ST7735" THEN Offset7735 ELSE Offset7789,
               next \in {"raset", "ramwr"} =>
                 panel'.columns = Shifted(paint'[p].region.x, paint'[p].offset[1]),
               next = "ramwr" => panel'.rows = Shifted(paint'[p].region.y, paint'[p].offset[2])
        PROVE  AloneOK(t)'
    BY <1>2, <1>3, <2>3 DEF AloneOK
  <2>4. CASE LoadOffset(p)
    <3>1. t = p /\ AloneOK(p)
      BY <1>4, <2>2, <2>4 DEF LoadOffset
    <3>2. PICK o : /\ paint' = [paint EXCEPT ![p].at = "caset", ![p].offset = o]
                   /\ o = IF chip = "ST7735" THEN Offset7735 ELSE Offset7789
      BY <2>4 DEF LoadOffset
    <3>3. /\ paint'[p].at = "caset" /\ paint'[p].region = paint[p].region /\ paint'[p].offset = o
          /\ \A q \in Painters : q # p => paint'[q] = paint[q]
      BY <1>1, <3>2 DEF PaintOK
    <3> QED
      BY <2>3, <3>1, <3>2, <3>3 DEF Places
  <2>5. CASE Caset(p)
    <3>1. t = p /\ AloneOK(p) /\ paint[p].at = "caset"
      BY <1>4, <2>2, <2>5 DEF Caset, GoOn
    <3>2. /\ paint' = [paint EXCEPT ![p].at = "raset"]
          /\ panel' = [panel EXCEPT !.columns = Shifted(paint[p].region.x, paint[p].offset[1])]
      BY <2>5 DEF Caset, GoOn
    <3>3. /\ paint'[p].at = "raset" /\ paint'[p].region = paint[p].region
          /\ paint'[p].offset = paint[p].offset
          /\ \A q \in Painters : q # p => paint'[q] = paint[q]
      BY <1>1, <3>2 DEF PaintOK
    <3>4. panel'.columns = Shifted(paint'[p].region.x, paint'[p].offset[1])
      BY <1>1, <3>2, <3>3 DEF PanelOK
    <3>5. paint'[p].offset = IF chip = "ST7735" THEN Offset7735 ELSE Offset7789
      BY <3>1, <3>3 DEF AloneOK
    <3> QED
      BY <2>3, <3>1, <3>3, <3>4, <3>5 DEF Places
  <2>6. CASE Raset(p)
    <3>1. t = p /\ AloneOK(p) /\ paint[p].at = "raset"
      BY <1>4, <2>2, <2>6 DEF Raset, GoOn
    <3>2. /\ paint' = [paint EXCEPT ![p].at = "ramwr"]
          /\ panel' = [panel EXCEPT !.rows = Shifted(paint[p].region.y, paint[p].offset[2])]
      BY <2>6 DEF Raset, GoOn
    <3>3. /\ paint'[p].at = "ramwr" /\ paint'[p].region = paint[p].region
          /\ paint'[p].offset = paint[p].offset
          /\ \A q \in Painters : q # p => paint'[q] = paint[q]
      BY <1>1, <3>2 DEF PaintOK
    <3>4. /\ panel'.rows = Shifted(paint'[p].region.y, paint'[p].offset[2])
          /\ panel'.columns = panel.columns
      BY <1>1, <3>2, <3>3 DEF PanelOK
    <3>5. /\ paint'[p].offset = IF chip = "ST7735" THEN Offset7735 ELSE Offset7789
          /\ panel.columns = Shifted(paint[p].region.x, paint[p].offset[1])
      BY <3>1, <3>3 DEF AloneOK
    <3> QED
      BY <2>3, <3>1, <3>3, <3>4, <3>5 DEF Places
  <2>7. CASE Ramwr(p) \/ TransferFails(p)
    <3>1. paint[p].at # "idle" /\ alone' = [alone EXCEPT ![p] = FALSE]
      BY <2>7 DEF Ramwr, TransferFails, EndFlush
    <3>2. t # p /\ alone[t]
      BY <1>1, <1>4, <3>1
    <3> QED
      BY <2>2, <3>1, <3>2
  <2> QED
    BY <2>1, <2>4, <2>5, <2>6, <2>7 DEF FlushSteps
<1> QED
  BY <1>4 DEF AloneInv, AloneOK
-----------------------------------------------------------------------------
(* The strip. *)

\* The strip's driver at its start.
LEMMA PixelStarts ==
  ASSUME PixelInit
  PROVE  PixelInv
<1>1. 0 \in 0 .. 0 /\ 1 \in 1 .. LedMax + 1 /\ 0 \in 0 .. LedMax /\ LedDefault \in Leds
  BY PixelAssumption DEF Leds
<1>2. copy = NoCopy /\ copy.done = 0 /\ copy.len = 0
  BY DEF PixelInit, NoCopy
<1>3. rgb \in [Leds -> Colours \cup {Black}]
  BY DEF PixelInit
<1> QED
  BY <1>1, <1>2, <1>3 DEF PixelInit, PixelInv, PixelTypeOK

\* The strip's driver: whatever the length becomes, no step leaves the strip.
LEMMA PixelStep ==
  ASSUME PixelInv, PixelNext
  PROVE  PixelInv'
<1>1. /\ PixelTypeOK
      /\ copy \in [from : [Leds -> Colours], len : 0 .. LedMax, done : Nat] \cup {NoCopy}
      /\ LedMax \in Nat /\ LedDefault \in Leds
  BY PixelAssumption DEF PixelInv, Leds
<1>2. ASSUME UNCHANGED application, at' \in {"wait", "convert", "send", "encode"},
             pos' \in 1 .. LedMax + 1, length' \in 0 .. LedMax, starting' = starting
      PROVE  PixelInv'
  BY <1>1, <1>2 DEF application, PixelInv, PixelTypeOK
<1>3. CASE StartSpi \/ SpiBusInit \/ SpiCreateTask \/ SpiStartFails
  <2>1. UNCHANGED <<application, task>> /\ starting' \in {"no", "bus", "device", "task"}
    BY <1>1, <1>3 DEF StartSpi, SpiBusInit, SpiCreateTask, SpiStartFails, Goes, PixelTypeOK
  <2> QED
    BY <1>1, <2>1 DEF application, task, PixelInv, PixelTypeOK
<1>4. CASE AddDevice
  <2>1. rgb' \in [Leds -> Colours \cup {Black}] /\ starting' = "task"
        /\ UNCHANGED <<ledNum, copy, at, pos, length>>
    BY <1>4 DEF AddDevice, Goes
  <2> QED
    BY <1>1, <2>1 DEF PixelInv, PixelTypeOK
<1>5. CASE StartRmt
  <2>1. rgb' \in [Leds -> Colours \cup {Black}] /\ UNCHANGED <<starting, ledNum, copy, at, pos, length>>
    BY <1>5 DEF StartRmt, task
  <2> QED
    BY <1>1, <2>1 DEF PixelInv, PixelTypeOK
<1>6. ASSUME NEW len \in 0 .. LedMax + 1, SetLedLen(len) PROVE PixelInv'
  BY <1>1, <1>6 DEF SetLedLen, pixelStart, task, PixelInv, PixelTypeOK
<1>7. ASSUME NEW data \in [Leds -> Colours], NEW len \in Leds, SendData(data, len) PROVE PixelInv'
  <2>1. PICK n \in 0 .. LedMax : copy' = [from |-> data, len |-> n, done |-> 0]
    BY <1>1, <1>7 DEF SendData, PixelTypeOK, Leds
  <2>2. copy' \in [from : [Leds -> Colours], len : 0 .. LedMax, done : Nat] /\ copy'.done \in 0 .. copy'.len
    BY <1>1, <2>1
  <2> QED
    BY <1>1, <1>7, <2>2 DEF SendData, pixelStart, task, PixelInv, PixelTypeOK
<1>8. CASE CopyLed
  <2>1. UNCHANGED <<starting, ledNum, at, pos, length>>
    BY <1>8 DEF CopyLed, pixelStart, task
  <2>2. copy \in [from : [Leds -> Colours], len : 0 .. LedMax, done : Nat]
    BY <1>1, <1>8 DEF CopyLed
  <2>3. CASE copy.done = copy.len
    <3>1. copy' = NoCopy /\ rgb' = rgb /\ copy'.done \in 0 .. copy'.len
      BY <1>8, <2>3 DEF CopyLed, NoCopy
    <3> QED
      BY <1>1, <2>1, <3>1 DEF PixelInv, PixelTypeOK
  <2>4. CASE copy.done # copy.len
    <3>1. copy' = [copy EXCEPT !.done = @ + 1]
          /\ rgb' = [rgb EXCEPT ![copy.done + 1] = copy.from[copy.done + 1]]
      BY <1>8, <2>4 DEF CopyLed
    <3>2. copy.done + 1 \in 0 .. copy.len /\ copy.done + 1 \in Leds
      BY <1>1, <2>2, <2>4 DEF PixelTypeOK, Leds
    <3>3. copy' \in [from : [Leds -> Colours], len : 0 .. LedMax, done : Nat] /\ copy'.done \in 0 .. copy'.len
      BY <2>2, <3>1, <3>2
    <3>4. rgb' \in [Leds -> Colours \cup {Black}]
      BY <1>1, <2>2, <3>1, <3>2 DEF PixelTypeOK
    <3> QED
      BY <1>1, <2>1, <3>3, <3>4 DEF PixelInv, PixelTypeOK
  <2> QED
    BY <2>3, <2>4
<1>9. CASE PixelTask
  <2>1. UNCHANGED <<pixelStart, application>>
    BY <1>9 DEF PixelTask, SpiBegin, ConvertLed, SpiLength, SpiTransfer, Transmit, EncodeLed, TxDone
  <2>2. at' \in {"wait", "convert", "send", "encode"}
    BY <1>1, <1>9 DEF PixelTask, SpiBegin, ConvertLed, SpiLength, SpiTransfer, Transmit, EncodeLed,
                      TxDone, TaskGoes, PixelTypeOK
  <2>3. pos' \in 1 .. LedMax + 1
    BY <1>1, <1>9 DEF PixelTask, SpiBegin, ConvertLed, SpiLength, SpiTransfer, Transmit, EncodeLed,
                      TxDone, PixelTypeOK, Leds
  <2>4. length' \in 0 .. LedMax
    BY <1>1, <1>9 DEF PixelTask, SpiBegin, ConvertLed, SpiLength, SpiTransfer, Transmit, EncodeLed,
                      TxDone, PixelTypeOK, Leds
  <2> QED
    BY <1>2, <2>1, <2>2, <2>3, <2>4 DEF pixelStart
<1> QED
  BY <1>3, <1>4, <1>6, <1>7, <1>8, <1>9, <1>5 DEF PixelNext
-----------------------------------------------------------------------------
(* The drivers. *)

\* The display's driver at its start.
LEMMA DisplayStarts ==
  ASSUME DisplayInit
  PROVE  DisplayInv
<1>1. 0 \in Rotations /\ 0 \in 0 .. MaxIos
  BY DisplayAssumption
<1>2. PaintOK
  <2>1. NoFlush \in [at : Places, region : Regions \cup {NoRegion}, offset : Nat \X Nat]
    BY DEF NoFlush, Places
  <2> QED
    BY <2>1 DEF DisplayInit, PaintOK
<1>3. PanelOK /\ RuntimeOK
  BY <1>1 DEF DisplayInit, PanelOK, RuntimeOK, PoweredOn
<1>4. ResourcesOK
  BY <1>1 DEF DisplayInit, ResourcesOK
<1>5. ShapeInv
  BY <1>1, <1>2, <1>3, <1>4, Shape DEF DisplayInit, Fields
<1>6. StageInv /\ AloneInv
  BY DEF DisplayInit, StageInv, AloneInv
<1> QED
  BY <1>5, <1>6 DEF DisplayInv

\* The display's driver keeps its invariant.
LEMMA DisplayStep ==
  ASSUME DisplayInv, DisplayNext
  PROVE  DisplayInv'
<1>1. ShapeInv /\ StageInv /\ AloneInv
  BY DEF DisplayInv
<1>2. CASE Calls
  BY <1>1, <1>2, ShapeCalls, CallsStage, AloneCalls DEF DisplayInv
<1>3. CASE Steps
  BY <1>1, <1>3, ShapeSteps, StageStep, AloneCalls DEF DisplayInv
<1>4. ASSUME NEW t \in Painters, Flush7735(t) \/ Flush7789(t) PROVE DisplayInv'
  <2>1. /\ chip \in {"ST7735", "ST7789"}
        /\ (\E region \in Regions : BeginFlush(t, region)) \/ FlushSteps(t)
    BY <1>4 DEF Flush7735, Flush7789
  <2>2. UNCHANGED <<chip, runtime, todo, to, resources>>
    BY <2>1 DEF BeginFlush, FlushSteps, LoadOffset, Caset, Raset, Ramwr, TransferFails, GoOn, EndFlush
  <2>3. PanelOK
    BY <1>1, Shape DEF Fields
  <2>4. panel'.sent = panel.sent /\ panel'.scan = panel.scan
    BY <2>1, <2>3 DEF BeginFlush, FlushSteps, LoadOffset, Caset, Raset, Ramwr, TransferFails, EndFlush,
                      PanelOK
  <2>5. StageInv'
    BY <1>1, <2>2, <2>4, StageKept DEF resources
  <2>6. ShapeInv' /\ AloneInv'
    BY <1>1, <2>1, ShapeFlush, AloneFlush
  <2> QED
    BY <2>5, <2>6 DEF DisplayInv
<1> QED
  BY <1>2, <1>3, <1>4 DEF DisplayNext

\* The strip's steps leave the display alone.
LEMMA DisplayKept ==
  ASSUME DisplayInv, UNCHANGED displayVars
  PROVE  DisplayInv'
<1>1. UNCHANGED <<chip, runtime, todo, to, paint, light, bus, ios, ioDone, panel, alone>>
  BY DEF displayVars, resources
<1>2. StageInv'
  BY <1>1, StageKept DEF DisplayInv
<1>3. ShapeInv' /\ AloneInv'
  BY <1>1 DEF DisplayInv, ShapeInv, DisplayTypeOK, AloneInv, AloneOK, Valid, Offset7735, Offset7789
<1> QED
  BY <1>2, <1>3 DEF DisplayInv

\* The display's steps leave the strip alone.
LEMMA PixelKept ==
  ASSUME PixelInv, UNCHANGED pixelVars
  PROVE  PixelInv'
  BY DEF pixelVars, pixelStart, application, task, PixelInv, PixelTypeOK

\* Both drivers at their start.
LEMMA DriversInit ==
  Init => DriversInv
  BY DisplayStarts, PixelStarts DEF Init, DriversInv

\* Each step is one driver's and keeps what is said of both.
LEMMA DriversStep ==
  DriversInv /\ [Next]_vars => DriversInv'
<1> SUFFICES ASSUME DriversInv, [Next]_vars PROVE DriversInv'
  OBVIOUS
<1>1. CASE DisplayNext /\ UNCHANGED pixelVars
  BY <1>1, DisplayStep, PixelKept DEF DriversInv
<1>2. CASE PixelNext /\ UNCHANGED displayVars
  BY <1>2, DisplayKept, PixelStep DEF DriversInv
<1>3. CASE UNCHANGED vars
  BY <1>3, DisplayKept, PixelKept DEF vars, DriversInv
<1> QED
  BY <1>1, <1>2, <1>3 DEF Next

\* The inductive invariant of the drivers.
THEOREM DriversInvariant == Spec => []DriversInv
  BY DriversInit, DriversStep, PTL DEF Spec

\* Every variable of both drivers has its type: no LED beyond the strip is
\* copied, converted or sent, whatever length the application sets when.
THEOREM TypeCorrect == Spec => []TypeOK
<1>1. DriversInv => TypeOK
  BY DEF DriversInv, DisplayInv, ShapeInv, PixelInv, TypeOK
<1> QED
  BY <1>1, DriversInvariant, PTL

\* A panel that counts as initialised has got all its commands, scans the way
\* the driver believes and reports finished colours when there is a callback
\* (display_st7735_init, display_st7789_init and the rotations), whatever step
\* of whatever earlier call failed.
THEOREM PanelReady == Spec => []Ready
<1>1. DriversInv => Ready
  BY Settled, Zenon DEF DriversInv, DisplayInv, Ready, Started, Turned, Connected
<1> QED
  BY <1>1, DriversInvariant, PTL

\* The colours of a flush that no other call overlaps go to its region of the
\* glass (display_st7735_flush, display_st7789_flush), for any size, memory,
\* regions and rotations, and any offsets that serve the rotation.
THEOREM RegionsDrawn == Spec => []RegionDrawn
<1>1. ASSUME DriversInv, NEW t \in Painters, paint[t].at = "ramwr", alone[t],
             OffsetsServe(panel.scan)
      PROVE  /\ panel.columns = Shifted(paint[t].region.x, Glass(panel.scan)[1])
             /\ panel.rows = Shifted(paint[t].region.y, Glass(panel.scan)[2])
             /\ paint[t].region.x[2] <= Size(panel.scan)[1]
             /\ paint[t].region.y[2] <= Size(panel.scan)[2]
  <2>1. AloneOK(t) /\ StageInv
    BY <1>1 DEF DriversInv, DisplayInv, AloneInv
  <2>2. Turned
    BY <2>1, Settled DEF AloneOK
  <2>3. GlassColumn(panel.scan) = XOffset /\ GlassRow(panel.scan) = YOffset
    BY <1>1, DisplayAssumption DEF OffsetsServe, GlassColumn, GlassRow
  <2>4. paint[t].offset = Glass(panel.scan)
    BY <1>1, <2>1, <2>2, <2>3 DEF AloneOK, Turned, Glass, OffsetsServe, Offset7735, Offset7789
  <2>5. runtime.width = Size(panel.scan)[1] /\ runtime.height = Size(panel.scan)[2]
    BY <2>2 DEF Turned, Size
  <2> QED
    BY <1>1, <2>1, <2>4, <2>5 DEF AloneOK, Valid
<1>2. DriversInv => RegionDrawn
  BY <1>1 DEF RegionDrawn
<1> QED
  BY <1>2, DriversInvariant, PTL
=============================================================================
