------------------------------ MODULE LevelDrag ------------------------------
(***************************************************************************)
(* A drag of a level group remembered from its beginning: LevelGroup with  *)
(* two history variables, to say what becomes of the members' balance over *)
(* the many small group commands one finger movement sends.                *)
(***************************************************************************)
EXTENDS LevelGroup

VARIABLES
    start,      \* history: the levels when the drag began
    clipped     \* history: some member has been clamped since then

DragInit ==
    /\ Init
    /\ start = level
    /\ clipped = FALSE

(* The members some part of this command's move cannot follow. *)
Clips(position) ==
    { m \in Members : PositionOf(level, m) + Delta(position) \notin Position }

DragNext ==
    \E position \in Targets :
      /\ Drag(position)
      /\ clipped' = (clipped \/ Clips(position) # {})
      /\ UNCHANGED start

DragSpec == DragInit /\ [][DragNext]_<<level, start, clipped>>

(***************************************************************************)
(* What phase-4c-dashboard-groups.md says of a whole drag: the relative    *)
(* balance is preserved, clipping being the only thing said to change it.  *)
(* Read with full allowance for rounding: while nothing was clipped, the   *)
(* canonical offset of each member from the anchor stays within one native *)
(* step of each of the two from what it was when the drag began.           *)
(***************************************************************************)
BalancePreserved ==
    ~clipped =>
      \A m \in Members :
        LET before == PositionOf(start, m) - PositionOf(start, Anchor)
            after  == PositionOf(level, m) - PositionOf(level, Anchor)
            slack  == Scale \div (Hi[m] - Lo[m]) + Scale \div (Hi[Anchor] - Lo[Anchor]) + 2
        IN  /\ after - before <= slack
            /\ before - after <= slack
=============================================================================
