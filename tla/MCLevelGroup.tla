---------------------------- MODULE MCLevelGroup ----------------------------
(***************************************************************************)
(* Two faders of one coarse range, one of a finer range below zero, and    *)
(* one whose range is finer than the canonical scale, so that positions    *)
(* collide.  Positions sit on, just beside and far from rounding points.   *)
(***************************************************************************)
EXTENDS LevelGroup, TLC

MCMembers == {"left", "right", "wide", "huge"}
MCLo == ("left" :> 0) @@ ("right" :> 0) @@ ("wide" :> -3) @@ ("huge" :> 0)
MCHi == ("left" :> 4) @@ ("right" :> 4) @@ ("wide" :> 4) @@ ("huge" :> 2500)
MCStartLevels == [left : 0..4, right : 0..4, wide : -3..4, huge : {1251}]
MCTargets == {0, 143, 333, 499, 501, 1000}
=============================================================================
