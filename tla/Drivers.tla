------------------------------- MODULE Drivers -------------------------------
(***************************************************************************)
(* The drivers of a firmware: the display's, the strip's, or both, as      *)
(* configured.  They have nothing in common but, perhaps, the SPI bus,     *)
(* whose state each finds as the other left it; so each is checked by      *)
(* itself, with a bus that may be initialised beforehand.                  *)
(***************************************************************************)
EXTENDS Display, Pixel

CONSTANT Builds  \* pairs of a panel and a type of strip

vars == <<displayVars, pixelVars>>

Init == DisplayInit /\ PixelInit /\ <<chip, type>> \in Builds

Next ==
  \/ DisplayNext /\ UNCHANGED pixelVars
  \/ PixelNext /\ UNCHANGED displayVars

Spec == Init /\ [][Next]_vars

\* The strip's task, which only waits for its own transfers, gets to run.
FairSpec == Spec /\ WF_vars(PixelTask /\ UNCHANGED displayVars)
-----------------------------------------------------------------------------
\* Types.
TypeOK == DisplayTypeOK /\ PixelTypeOK
=============================================================================
