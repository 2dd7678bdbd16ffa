--------------------------- MODULE VersionedView ---------------------------
(***************************************************************************)
(* What the daemon promises the readers of its state: a view of the        *)
(* interface that carries a version, the version rising by exactly one     *)
(* whenever the view changes and never otherwise.  Two readers holding one *)
(* version therefore hold one view, and a reader who sees the version jump *)
(* by more than one knows that it missed a view.                           *)
(***************************************************************************)
EXTENDS Naturals

CONSTANT Views      \* what can be shown

VARIABLES
    view,           \* what is shown now
    version         \* the number it is shown under

Init ==
    /\ view \in Views
    /\ version = 1

Publish ==
    /\ view' \in Views
    /\ view' # view
    /\ version' = version + 1

Spec == Init /\ [][Publish]_<<view, version>>
=============================================================================
