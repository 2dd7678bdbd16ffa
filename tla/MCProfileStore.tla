--------------------------- MODULE MCProfileStore ---------------------------
(* Two names besides the empty one, and two kinds of writable control.     *)
EXTENDS ProfileStore
=============================================================================
