----------------------------- MODULE MCDrivers -----------------------------
(* Instances of Drivers for TLC. *)
EXTENDS Drivers

\* A panel of one by two: the whole of it upright, and lying on its side.
Region(w, h) == [x |-> <<0, w>>, y |-> <<0, h>>]
MCRegions == {Region(1, 2), Region(2, 1)}

\* Two colours whose bytes, and the halves of each, differ.
MCColours == {<<18, 52, 86>>, <<171, 205, 239>>}

MCBuilds ==
  {<<"ST7735", "none">>, <<"ST7789", "none">>, <<"none", "rmt">>, <<"none", "spi">>}
=============================================================================
