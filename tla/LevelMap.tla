------------------------------ MODULE LevelMap ------------------------------
(***************************************************************************)
(* The integer arithmetic of virtual level groups (groups.rs).  A member's *)
(* native level lies in its declared range lo..hi; the group works on a    *)
(* canonical position in 0..Scale.  All quotients below are of             *)
(* non-negative numerators, where Rust's truncating division and TLA+'s    *)
(* \div agree.                                                             *)
(***************************************************************************)
EXTENDS Integers, FiniteSets

Scale == 1000

Position == 0..Scale

(* Mutant of MapLevel: the level is truncated instead of rounded. *)
MapLevelTruncates(position, lo, hi) ==
    lo + (((hi - lo) * position) \div Scale)

(* map_level: the native level nearest to a canonical position. *)
MapLevel(position, lo, hi) ==
    lo + (((hi - lo) * position + 500) \div Scale)

(* unmap_level: the canonical position nearest to a native level. *)
UnmapLevel(value, lo, hi) ==
    LET span == hi - lo
    IN  ((value - lo) * Scale + span \div 2) \div span

(* The conditions under which unmap_level answers rather than rejects. *)
Mappable(value, lo, hi) ==
    /\ lo < hi
    /\ lo <= value
    /\ value <= hi

(* Mutants of Clamp: none at all, and one made after the cast to u16. *)
ClampForgotten(n) == n
ClampAfterCast(n) == IF n % 65536 > Scale THEN Scale ELSE n % 65536

Clamp(n) == IF n < 0 THEN 0 ELSE IF n > Scale THEN Scale ELSE n

(* Where a member at `value` goes when the group's anchor moves by `delta`. *)
ShiftLevel(value, lo, hi, delta) ==
    MapLevel(Clamp(UnmapLevel(value, lo, hi) + delta), lo, hi)
=============================================================================
