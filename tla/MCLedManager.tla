--------------------------- MODULE MCLedManager ---------------------------
(* A strip of two LEDs; a frame may also name one past its end, and one of a    *)
(* strip that does not exist.                                                   *)
EXTENDS LedManager

OneStrip == <<2>>
SomeIds == {<<0, 0>>, <<0, 1>>, <<0, 2>>, <<1, 0>>}
=============================================================================
