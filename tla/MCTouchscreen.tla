--------------------------- MODULE MCTouchscreen ---------------------------
(* Of the touches of the locked screen, against a timeout of four, the one *)
(* at four is still in time for one at zero and the one at five is not,    *)
(* and may be for one at four.                                             *)
EXTENDS Touchscreen

MCTimes == {0, 4, 5}
=============================================================================
