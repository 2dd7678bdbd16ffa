----------------------------- MODULE LevelGroup -----------------------------
(***************************************************************************)
(* A virtual level group dragged on the dashboard: command_level_group     *)
(* applied again and again while every member write is confirmed and       *)
(* nothing else touches the members.  It isolates what the group does to   *)
(* the levels; Service.tla models the same handler one write at a time,    *)
(* with failures and an interface that changes underneath.                 *)
(***************************************************************************)
EXTENDS LevelMap

CONSTANTS
    Members,      \* the controls of the group
    Anchor,       \* the member whose position a group command targets
    Lo, Hi,       \* declared minimum and maximum of each member
    StartLevels,  \* the level vectors a drag may begin from
    Targets       \* the positions a client asks for

Levels == { f \in [Members -> UNION { Lo[m]..Hi[m] : m \in Members }] :
              \A m \in Members : f[m] \in Lo[m]..Hi[m] }

ASSUME GroupAssumption ==
    /\ Anchor \in Members
    /\ Lo \in [Members -> Int]
    /\ Hi \in [Members -> Int]
    /\ \A m \in Members : Lo[m] < Hi[m]
    /\ StartLevels \subseteq Levels
    /\ Targets \subseteq Position

VARIABLE level    \* native level of each member

PositionOf(f, m) == UnmapLevel(f[m], Lo[m], Hi[m])

Init == level \in StartLevels

(* Mutant of Delta: the anchor's native level is taken for its position. *)
DeltaFromNative(position) == position - level[Anchor]

(* How far a command to `position` moves the group, in canonical units. *)
Delta(position) == position - PositionOf(level, Anchor)

(***************************************************************************)
(* One accepted group command: every member is read once, the anchor's     *)
(* delta is added to each canonical position, the sum is clamped and       *)
(* mapped back into the member's own range.                                *)
(***************************************************************************)
Drag(position) ==
    level' = [m \in Members |-> ShiftLevel(level[m], Lo[m], Hi[m], Delta(position))]

Next == \E position \in Targets : Drag(position)

Spec == Init /\ [][Next]_level

-----------------------------------------------------------------------------
(* Every member always holds a level its hardware declares (the casts to   *)
(* i32 and u16 in map_level and unmap_level lose nothing).                 *)
TypeOK ==
    /\ DOMAIN level = Members
    /\ \A m \in Members : level[m] \in Lo[m]..Hi[m]

(* A group command to the position the anchor already shows moves no       *)
(* member of a range no finer than the canonical scale: the map and its    *)
(* inverse round to the same level, so the handler reports the member      *)
(* skipped and a repeated command never creeps.                            *)
SettledGroupStays ==
    \A m \in Members :
      Hi[m] - Lo[m] <= Scale => ShiftLevel(level[m], Lo[m], Hi[m], 0) = level[m]

(* Members of one range never overtake each other in a drag, clamped or    *)
(* not: the louder of two like faders stays at least as loud.              *)
OrderKept ==
    [][\A m, n \in Members :
         (Lo[m] = Lo[n] /\ Hi[m] = Hi[n] /\ level[m] <= level[n])
            => level'[m] <= level'[n]]_level

(* The error of one drag: unless the member was clamped, its new position  *)
(* is within half a native step of its own, half of one of the anchor's    *)
(* and one position of its old position plus the anchor's move.            *)
OneDragRounds ==
    [][\A m \in Members :
         LET moved == PositionOf(level', Anchor) - PositionOf(level, Anchor)
             ideal == PositionOf(level, m) + moved
             step  == Scale \div (Hi[m] - Lo[m]) + Scale \div (Hi[Anchor] - Lo[Anchor])
         IN  ideal \in Position
               => /\ 2 * (PositionOf(level', m) - ideal) <= step + 2
                  /\ 2 * (ideal - PositionOf(level', m)) <= step + 2]_level
=============================================================================
