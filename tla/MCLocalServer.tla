--------------------------- MODULE MCLocalServer ---------------------------
(* A client that reads and makes requests and one that may do neither.     *)
(* Three requests are enough for one to follow a refusal in the same turn. *)
(* Of the states the second is the shortest: what replaces it can overflow *)
(* the queue.                                                              *)
EXTENDS LocalServer

MCStateSize == <<2, 1, 2>>
MCMaxRequests == [reader |-> 3, other |-> 0]

(* One client that makes more requests than fit into a turn.               *)
MCShortStateSize == <<2, 3>>
MCManyRequests == [reader |-> 4]
=============================================================================
