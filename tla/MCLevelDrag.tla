----------------------------- MODULE MCLevelDrag -----------------------------
(* A drag in small increments where the anchor is much finer than the other. *)
EXTENDS LevelDrag

MCMembers == {"fine", "coarse"}
MCLo == [m \in MCMembers |-> 0]
MCHi == [m \in MCMembers |-> IF m = "fine" THEN 100 ELSE 4]
MCStartLevels == [fine : {0, 50}, coarse : 0..4]
MCTargets == { 100 * k : k \in 0..10 }
=============================================================================
