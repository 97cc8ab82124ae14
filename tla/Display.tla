------------------------------ MODULE Display ------------------------------
(***************************************************************************)
(* The display driver with an ST7735 or an ST7789 panel (display_driver.c, *)
(* display_st7735.c, display_st7789.c): an initialisation of many steps    *)
(* each of which may fail, the rotation, and the flushes of tasks that     *)
(* share a panel without a lock.                                           *)
(*                                                                         *)
(* One task initialises, rotates and starts the test; it and others flush. *)
(* The pins for the back light and the reset are configured.  A transfer   *)
(* that fails leaves the panel as it was.                                  *)
(***************************************************************************)
EXTENDS Integers, Sequences

CONSTANTS
  Width, Height,     \* CONFIG_DISPLAY_..._WIDTH, _HEIGHT
  XOffset, YOffset,  \* where the glass begins in the controller's memory
  RamWidth, RamHeight,  \* external: the size of that memory
  Regions,           \* what is flushed
  Rotations,         \* of display_driver_rotation, in degrees
  Gui, Test,         \* the application's painter, and the test task
  InvertColor,
  MaxIos             \* how many devices the SPI bus has room for

ASSUME DisplayAssumption ==
  /\ {Width, Height} \subseteq Nat \ {0}
  /\ {XOffset, YOffset, RamWidth, RamHeight} \subseteq Nat
  /\ XOffset + Width <= RamWidth /\ YOffset + Height <= RamHeight
  /\ {0, 180} \subseteq Rotations /\ Rotations \subseteq {0, 90, 180, 270}
  /\ InvertColor \in BOOLEAN
  /\ MaxIos \in Nat

VARIABLES
  chip,     \* CONFIG_DISPLAY_IC_..., "none" without CONFIG_DISPLAY_DRIVER_ENABLE
  runtime,  \* g_runtime
  todo,     \* what is left of the call of the application's task
  to,       \* the rotation it sets
  paint,    \* where each flush is
  light,    \* external: the back light
  bus,      \* external: the SPI bus is initialised
  ios,      \* external: panel IOs created so far
  ioDone,   \* external: the last of them reports finished colours
  panel,    \* external: the controller of the panel
  alone     \* history: no other call has overlapped the flush of a painter

resources == <<light, bus, ios, ioDone>>
displayVars == <<chip, runtime, todo, to, paint, resources, panel, alone>>

Chips == {"ST7735", "ST7789", "none"}
Painters == {Gui, Test}
Sideways(r) == r \in {90, 270}
Size(r) == IF Sideways(r) THEN <<Height, Width>> ELSE <<Width, Height>>

NoRegion == [x |-> <<0, 0>>, y |-> <<0, 0>>]
NoFlush == [at |-> "idle", region |-> NoRegion, offset |-> <<0, 0>>]
PoweredOn == [sent |-> <<>>, scan |-> 0, columns |-> <<0, 0>>, rows |-> <<0, 0>>]

DisplayInit ==
  /\ chip \in Chips
  /\ runtime = [initialized |-> FALSE, rotation |-> 0, width |-> Width, height |-> Height,
                flushDone |-> FALSE, test |-> FALSE]
  /\ todo = <<>>
  /\ to = 0
  /\ paint = [t \in Painters |-> NoFlush]
  /\ light = FALSE
  /\ bus \in BOOLEAN
  /\ ios = 0
  /\ ioDone = FALSE
  /\ panel = PoweredOn
  /\ alone = [t \in Painters |-> FALSE]
-----------------------------------------------------------------------------
(* The steps of the calls, in the order of the code. *)

\* st7735_commands_init, st7735_panel_init
Commands7735 ==
  <<"B1", "B2", "B3">> \o (IF InvertColor THEN <<"B4">> ELSE <<>>)
    \o <<"C0", "C1", "C2", "C3", "C4", "C5", "MADCTL", "COLMOD">>

PanelInit7735 ==
  <<"SWRESET", "SLPOUT">> \o Commands7735
    \o <<IF InvertColor THEN "INVON" ELSE "INVOFF", "NORON", "DISPON">>

\* st7789_commands_init, st7789_panel_init
Commands7789 ==
  <<"B2", "B7", "BB", "C0", "C2", "C3", "C4", "C6", "D0", "MADCTL", "COLMOD", "RAMCTRL",
    "E0", "E1">>

PanelInit7789 == <<"SWRESET", "SLPOUT">> \o Commands7789 \o <<"INVON", "NORON", "DISPON">>

PanelInit == IF chip = "ST7735" THEN PanelInit7735 ELSE PanelInit7789

RotationSteps == <<"madctl", "rotation", "width", "height">>

InitSteps7735 ==
  <<"dark", "bus", "io", "reset">> \o PanelInit7735 \o <<"initialized">> \o RotationSteps
    \o <<"light">>

InitSteps7789 ==
  <<"dark", "bus", "io", "reset">> \o PanelInit7789 \o <<"initialized", "light">>

\* display_driver_init
InitSteps == IF chip = "ST7735" THEN InitSteps7735 ELSE InitSteps7789
TestSteps == <<"buffer", "task">>
-----------------------------------------------------------------------------
(* The calls of the application's task. *)

\* A call overlaps every flush that is going on.
Begin(steps, rotation) ==
  /\ todo = <<>>
  /\ todo' = steps
  /\ to' = rotation
  /\ alone' = [t \in Painters |-> FALSE]
  /\ UNCHANGED <<chip, paint, resources, panel>>

\* display_st7735_init and display_st7789_init; the first sets the rotation to 180.
InitDisplay(flushDone) ==
  /\ chip # "none"
  /\ ~runtime.initialized
  /\ runtime' = [runtime EXCEPT !.flushDone = flushDone]
  /\ Begin(InitSteps, 180)

Rotate7735(rotation) ==
  /\ chip = "ST7735"
  /\ runtime.initialized
  /\ Begin(RotationSteps, rotation)
  /\ UNCHANGED runtime

Rotate7789(rotation) ==
  /\ chip = "ST7789"
  /\ runtime.initialized
  /\ Begin(RotationSteps, rotation)
  /\ UNCHANGED runtime

\* display_st7735_test and display_st7789_test: a panel that is not initialised
\* is, and gets no callback.
StartTest ==
  /\ chip # "none"
  /\ ~runtime.test
  /\ IF runtime.initialized
     THEN Begin(TestSteps, 0) /\ UNCHANGED runtime
     ELSE /\ Begin(InitSteps \o TestSteps, 180)
          /\ runtime' = [runtime EXCEPT !.flushDone = FALSE]

SetBacklight(on) ==
  /\ chip # "none"
  /\ todo = <<>>
  /\ light' = on
  /\ UNCHANGED <<chip, runtime, todo, to, paint, bus, ios, ioDone, panel, alone>>
-----------------------------------------------------------------------------
(* Their steps.  A step that fails ends the call. *)

Fallible == {"dark", "bus", "io", "reset", "madctl", "buffer", "task"}

IsCommand(s) == \E i \in DOMAIN PanelInit : PanelInit[i] = s

\* Mutant of StepFails: an error of a panel's command is not looked at.
StepFailsUnseen ==
  /\ todo # <<>>
  /\ Head(todo) \in Fallible \/ IsCommand(Head(todo))
  /\ todo' = IF IsCommand(Head(todo)) THEN Tail(todo) ELSE <<>>
  /\ to' = to
  /\ UNCHANGED <<chip, runtime, paint, resources, panel, alone>>

StepFails ==
  /\ todo # <<>>
  /\ Head(todo) \in Fallible \/ IsCommand(Head(todo))
  /\ todo' = <<>>
  /\ to' = 0
  /\ UNCHANGED <<chip, runtime, paint, resources, panel, alone>>

Do(s) ==
  /\ todo # <<>>
  /\ Head(todo) = s
  /\ todo' = Tail(todo)
  /\ to' = IF Tail(todo) = <<>> THEN 0 ELSE to
  /\ UNCHANGED <<chip, paint, alone>>

Dark == Do("dark") /\ light' = FALSE /\ UNCHANGED <<runtime, bus, ios, ioDone, panel>>

\* A bus that another driver initialised is used as it is.
BusInit == Do("bus") /\ bus' = TRUE /\ UNCHANGED <<runtime, light, ios, ioDone, panel>>

\* What an earlier attempt created stays with the bus.
NewPanelIo ==
  /\ Do("io")
  /\ ios < MaxIos
  /\ ios' = ios + 1
  /\ ioDone' = runtime.flushDone
  /\ UNCHANGED <<runtime, light, bus, panel>>

Reset == Do("reset") /\ panel' = PoweredOn /\ UNCHANGED <<runtime, resources>>

Command ==
  \E s \in {PanelInit[i] : i \in DOMAIN PanelInit} :
    /\ Do(s)
    /\ panel' = IF s = "SWRESET" THEN [PoweredOn EXCEPT !.sent = <<s>>]
                ELSE [panel EXCEPT !.sent = Append(@, s),
                                   !.scan = IF s = "MADCTL" THEN 0 ELSE @]
    /\ UNCHANGED <<runtime, resources>>

SetInitialized ==
  /\ Do("initialized")
  /\ runtime' = [runtime EXCEPT !.initialized = TRUE, !.width = Width, !.height = Height,
                                !.rotation = 0]
  /\ UNCHANGED <<resources, panel>>

Madctl == Do("madctl") /\ panel' = [panel EXCEPT !.scan = to] /\ UNCHANGED <<runtime, resources>>

\* g_runtime after MADCTL, field by field.
SetRotation ==
  /\ Do("rotation") /\ runtime' = [runtime EXCEPT !.rotation = to]
  /\ UNCHANGED <<resources, panel>>

SetWidth ==
  /\ Do("width") /\ runtime' = [runtime EXCEPT !.width = Size(to)[1]]
  /\ UNCHANGED <<resources, panel>>

SetHeight ==
  /\ Do("height") /\ runtime' = [runtime EXCEPT !.height = Size(to)[2]]
  /\ UNCHANGED <<resources, panel>>

LightOn == Do("light") /\ light' = TRUE /\ UNCHANGED <<runtime, bus, ios, ioDone, panel>>

NewBuffer == Do("buffer") /\ UNCHANGED <<runtime, resources, panel>>

CreateTestTask ==
  /\ Do("task") /\ runtime' = [runtime EXCEPT !.test = TRUE]
  /\ UNCHANGED <<resources, panel>>
-----------------------------------------------------------------------------
(* A flush, with the same steps in both drivers. *)

Valid(region) ==
  /\ region.x[1] < region.x[2] /\ region.x[2] <= runtime.width
  /\ region.y[1] < region.y[2] /\ region.y[2] <= runtime.height

\* The test task flushes the whole panel, as it is without rotation.
BeginFlush(t, region) ==
  /\ paint[t].at = "idle"
  /\ t = Test => runtime.test /\ region = [x |-> <<0, Width>>, y |-> <<0, Height>>]
  /\ runtime.initialized
  /\ Valid(region)
  /\ paint' = [paint EXCEPT ![t] = [at |-> "offset", region |-> region, offset |-> <<0, 0>>]]
  /\ alone' = [p \in Painters |->
                 p = t /\ todo = <<>> /\ \A q \in Painters : paint[q].at = "idle"]
  /\ UNCHANGED <<chip, runtime, todo, to, resources, panel>>

GoOn(t, from, next) ==
  /\ paint[t].at = from
  /\ paint' = [paint EXCEPT ![t].at = next]
  /\ UNCHANGED <<chip, runtime, todo, to, resources, alone>>

Offset7735 == <<XOffset, YOffset>>

\* Mutant of Offset7789: as if the panel were not turned.
Offset7789Fixed == <<XOffset, YOffset>>

Offset7789 == IF Sideways(runtime.rotation) THEN <<YOffset, XOffset>> ELSE <<XOffset, YOffset>>

LoadOffset(t) ==
  /\ paint[t].at = "offset"
  /\ paint' = [paint EXCEPT ![t].at = "caset",
                            ![t].offset = IF chip = "ST7735" THEN Offset7735 ELSE Offset7789]
  /\ UNCHANGED <<chip, runtime, todo, to, resources, panel, alone>>

Shifted(span, offset) == <<span[1] + offset, span[2] - 1 + offset>>

Caset(t) ==
  /\ GoOn(t, "caset", "raset")
  /\ panel' = [panel EXCEPT !.columns = Shifted(paint[t].region.x, paint[t].offset[1])]

Raset(t) ==
  /\ GoOn(t, "raset", "ramwr")
  /\ panel' = [panel EXCEPT !.rows = Shifted(paint[t].region.y, paint[t].offset[2])]

EndFlush(t) ==
  /\ paint' = [paint EXCEPT ![t] = NoFlush]
  /\ alone' = [alone EXCEPT ![t] = FALSE]
  /\ UNCHANGED <<chip, runtime, todo, to, resources, panel>>

\* The colours go to the window that was set last.
Ramwr(t) == paint[t].at = "ramwr" /\ EndFlush(t)

TransferFails(t) == paint[t].at \in {"caset", "raset", "ramwr"} /\ EndFlush(t)

FlushSteps(t) == LoadOffset(t) \/ Caset(t) \/ Raset(t) \/ Ramwr(t) \/ TransferFails(t)

Flush7735(t) ==
  /\ chip = "ST7735"
  /\ (\E region \in Regions : BeginFlush(t, region)) \/ FlushSteps(t)

Flush7789(t) ==
  /\ chip = "ST7789"
  /\ (\E region \in Regions : BeginFlush(t, region)) \/ FlushSteps(t)
-----------------------------------------------------------------------------
Calls ==
  \/ \E flushDone \in BOOLEAN : InitDisplay(flushDone)
  \/ \E rotation \in Rotations : Rotate7735(rotation) \/ Rotate7789(rotation)
  \/ StartTest
  \/ \E on \in BOOLEAN : SetBacklight(on)

Steps ==
  \/ Dark \/ BusInit \/ NewPanelIo \/ Reset \/ Command \/ SetInitialized \/ Madctl
  \/ SetRotation \/ SetWidth \/ SetHeight \/ LightOn \/ NewBuffer \/ CreateTestTask
  \/ StepFails

DisplayNext == Calls \/ Steps \/ \E t \in Painters : Flush7735(t) \/ Flush7789(t)
-----------------------------------------------------------------------------
(* Properties *)

\* Types.
DisplayTypeOK ==
  /\ chip \in Chips
  /\ runtime \in [initialized : BOOLEAN, rotation : Rotations, width : {Width, Height},
                  height : {Width, Height}, flushDone : BOOLEAN, test : BOOLEAN]
  /\ to \in Rotations
  /\ \A t \in Painters :
       /\ paint[t].at \in {"idle", "offset", "caset", "raset", "ramwr"}
       /\ paint[t].region \in Regions \cup {NoRegion}
  /\ {light, bus, ioDone} \subseteq BOOLEAN
  /\ ios \in 0 .. MaxIos
  /\ panel.scan \in Rotations
  /\ alone \in [Painters -> BOOLEAN]

\* Whatever failed before, and however often the initialisation was called
\* again: a panel that counts as initialised has got every command since its
\* last reset, scans the way the driver believes, and reports finished colours
\* just when the driver has a callback for them.
Ready ==
  runtime.initialized /\ todo = <<>> =>
    /\ panel.sent = PanelInit
    /\ panel.scan = runtime.rotation
    /\ <<runtime.width, runtime.height>> = Size(runtime.rotation)
    /\ ioDone = runtime.flushDone
    /\ bus

\* The bits of MADCTL that a rotation sets: MX has the controller count the
\* columns of its memory from the other end, MY the rows, and MV (Sideways)
\* makes of the rows what the commands call columns.
MX(scan) == scan \in {90, 180}
MY(scan) == scan \in {180, 270}

\* Where the glass begins as a panel that scans that way counts.
GlassColumn(scan) == IF MX(scan) THEN RamWidth - (XOffset + Width) ELSE XOffset
GlassRow(scan) == IF MY(scan) THEN RamHeight - (YOffset + Height) ELSE YOffset
Glass(scan) ==
  IF Sideways(scan) THEN <<GlassRow(scan), GlassColumn(scan)>>
                    ELSE <<GlassColumn(scan), GlassRow(scan)>>

\* The drivers know one pair of offsets and count from it whichever way an
\* axis runs, which is right for a glass that lies in the middle of that axis.
\* The ST7735's does not exchange them when the panel lies on its side.
OffsetsServe(scan) ==
  /\ MX(scan) => 2 * XOffset + Width = RamWidth
  /\ MY(scan) => 2 * YOffset + Height = RamHeight
  /\ chip = "ST7735" /\ Sideways(scan) => XOffset = YOffset

\* The colours of a flush that no other call overlaps go to its region of the
\* glass, whatever flush or rotation broke off before, in every rotation that
\* the offsets serve.
RegionDrawn ==
  \A t \in Painters :
    paint[t].at = "ramwr" /\ alone[t] /\ OffsetsServe(panel.scan) =>
      /\ panel.columns = Shifted(paint[t].region.x, Glass(panel.scan)[1])
      /\ panel.rows = Shifted(paint[t].region.y, Glass(panel.scan)[2])
      /\ paint[t].region.x[2] <= Size(panel.scan)[1]
      /\ paint[t].region.y[2] <= Size(panel.scan)[2]
=============================================================================
