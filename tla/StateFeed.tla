----------------------------- MODULE StateFeed -----------------------------
(***************************************************************************)
(* What the local IPC server (ipc.rs) promises the programs connected to   *)
(* it: each gets the current state first, a message for every request in   *)
(* its order, and word of a newer revision, which takes the place of older *)
(* word of which it has received nothing.  A connection that cannot keep   *)
(* up is ended.  How the one server thread divides itself, how bytes are   *)
(* counted and when sockets are full is left to the LocalServer module,    *)
(* which implements this one.                                              *)
(***************************************************************************)
EXTENDS Naturals, Sequences, SequencesExt

CONSTANTS
    Connections,
    Tags,         \* what a reply may say of the request it answers
    FirstTag,     \* what the unasked first message says
    FeedRevisions \* revisions the state may take

VARIABLES
    revision,     \* of the state that is served
    announced,    \* the revision last compared with, 0 before the first time
    connected,
    outbox,       \* for each connection, messages not yet received in full
    begun,        \* connections of whose first message a part was received
    closing,      \* connections that are ended once they have got everything
    refused       \* of these, those still to be told why

feedVars == <<revision, announced, connected, outbox, begun, closing, refused>>

Word(r) == [event |-> TRUE, revision |-> r, tag |-> FirstTag]

ReplyTo(tag, r) == [event |-> FALSE, revision |-> r, tag |-> tag]

-----------------------------------------------------------------------------
FeedInit ==
    /\ revision = 1
    /\ announced = 0
    /\ connected = {}
    /\ outbox = [c \in Connections |-> << >>]
    /\ begun = {} /\ closing = {} /\ refused = {}

(* The state changes on its own. *)
StateChanges ==
    /\ revision' = revision + 1
    /\ revision' \in FeedRevisions
    /\ UNCHANGED <<announced, connected, outbox, begun, closing, refused>>

Join(c) ==
    /\ c \notin connected
    /\ connected' = connected \cup {c}
    /\ outbox' = [outbox EXCEPT ![c] = <<ReplyTo(FirstTag, revision)>>]
    /\ UNCHANGED <<revision, announced, begun, closing, refused>>

(* Word that has not begun to be received. *)
Replaceable(c) ==
    { i \in DOMAIN outbox[c] : outbox[c][i].event /\ (i = 1 => c \notin begun) }

WithWord(c) ==
    IF Replaceable(c) = {} THEN Append(outbox[c], Word(revision))
    ELSE LET first == CHOOSE i \in Replaceable(c) : \A j \in Replaceable(c) : i <= j
         IN  ReplaceAt(outbox[c], first, Word(revision))

(* The first comparison tells nobody; word that overflows an outbox ends   *)
(* the connection, whether or not it has replaced what was there.          *)
Announce ==
    /\ announced # revision
    /\ announced' = revision
    /\ LET told == IF announced = 0 THEN {} ELSE connected \ closing
       IN  \E cut \in SUBSET told :
             /\ closing' = closing \cup cut
             /\ outbox' = [c \in Connections |->
                             IF c \in told /\ (c \in cut => Replaceable(c) # {})
                             THEN WithWord(c) ELSE outbox[c]]
    /\ UNCHANGED <<revision, connected, begun, refused>>

(* Of a connection that is being ended, requests that came along with the  *)
(* one that ended it may still be taken up, but only before it has been    *)
(* told everything.                                                        *)
Listened(c) == c \in connected /\ (c \in closing => c \in refused \/ outbox[c] # << >>)

(* A request is answered, with the state it has led to or without one; a   *)
(* reply that overflows the outbox is dropped and ends the connection.     *)
Answers(c, tag) ==
    /\ Listened(c)
    /\ announced # 0
    /\ revision' \in FeedRevisions /\ revision' >= revision
    /\ \E carried \in {0, revision'} :
         \/ outbox' = [outbox EXCEPT ![c] = Append(@, ReplyTo(tag, carried))] /\ UNCHANGED closing
         \/ closing' = closing \cup {c} /\ UNCHANGED outbox
    /\ UNCHANGED <<announced, connected, begun, refused>>

(* A line that cannot be served ends the connection. *)
Refuse(c) ==
    /\ Listened(c)
    /\ closing' = closing \cup {c}
    /\ refused' = refused \cup {c}
    /\ UNCHANGED <<revision, announced, connected, outbox, begun>>

TellRefusal(c, tag) ==
    /\ c \in refused
    /\ outbox[c] = << >>
    /\ outbox' = [outbox EXCEPT ![c] = <<ReplyTo(tag, 0)>>]
    /\ refused' = refused \ {c}
    /\ UNCHANGED <<revision, announced, connected, begun, closing>>

(* The peer receives a part of the first message, or the rest of it.       *)
Start(c) ==
    /\ c \in connected /\ outbox[c] # << >>
    /\ begun' = begun \cup {c}
    /\ UNCHANGED <<revision, announced, connected, outbox, closing, refused>>

Deliver(c) ==
    /\ c \in connected /\ outbox[c] # << >>
    /\ outbox' = [outbox EXCEPT ![c] = Tail(@)]
    /\ begun' = begun \ {c}
    /\ UNCHANGED <<revision, announced, connected, closing, refused>>

(* The connection ends, from either side, with all that was kept for it.   *)
Leave(c) ==
    /\ c \in connected
    /\ connected' = connected \ {c}
    /\ outbox' = [outbox EXCEPT ![c] = << >>]
    /\ begun' = begun \ {c} /\ closing' = closing \ {c} /\ refused' = refused \ {c}
    /\ UNCHANGED <<revision, announced>>

FeedNext ==
    \/ StateChanges
    \/ Announce
    \/ \E c \in Connections :
         \/ Join(c) \/ Refuse(c) \/ Start(c) \/ Deliver(c) \/ Leave(c)
         \/ \E tag \in Tags : Answers(c, tag) \/ TellRefusal(c, tag)

FeedSpec == FeedInit /\ [][FeedNext]_feedVars

(* Changes are noticed again and again, and to those that keep reading     *)
(* everything is delivered.                                                *)
FeedFairness(readers) ==
    /\ WF_feedVars(Announce)
    /\ \A c \in readers : SF_feedVars(Deliver(c))
=============================================================================
