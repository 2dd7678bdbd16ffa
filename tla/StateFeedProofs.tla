-------------------------- MODULE StateFeedProofs --------------------------
(***************************************************************************)
(* What follows from the promises of the local IPC server alone, for any   *)
(* connections and revisions: the order in which a client learns of states *)
(* although newer word takes the place of older.                           *)
(***************************************************************************)
EXTENDS StateFeed, TLAPS

Message == [event : BOOLEAN, revision : Nat, tag : Tags \cup {FirstTag}]

FeedTypes ==
    /\ revision \in Nat
    /\ outbox \in [Connections -> Seq(Message)]
    /\ closing \cup refused \subseteq connected
    /\ \A c \in Connections \ connected : outbox[c] = << >>

(* No two messages of word, unless the first of them is being received.    *)
WordIsSingle ==
    \A c \in Connections : \A i, j \in DOMAIN outbox[c] :
      i < j /\ outbox[c][i].event /\ outbox[c][j].event => i = 1 /\ c \in begun

WordFollowsOlder ==
    \A c \in Connections : \A i, j \in DOMAIN outbox[c] :
      i < j /\ outbox[c][j].event => outbox[c][i].revision <= outbox[c][j].revision

NothingIsNewer ==
    \A c \in Connections : \A i \in DOMAIN outbox[c] : outbox[c][i].revision <= revision

FeedInv == FeedTypes /\ WordIsSingle /\ WordFollowsOlder /\ NothingIsNewer

-----------------------------------------------------------------------------
(* The three parts, of one connection's messages.                          *)
Ordered(box, started, newest) ==
    /\ \A i \in DOMAIN box : box[i].revision <= newest
    /\ \A i, j \in DOMAIN box : i < j /\ box[j].event => box[i].revision <= box[j].revision
    /\ \A i, j \in DOMAIN box : i < j /\ box[i].event /\ box[j].event => i = 1 /\ started

LEMMA FeedInvIsOrdered ==
    FeedInv <=> FeedTypes /\ \A c \in Connections : Ordered(outbox[c], c \in begun, revision)
  BY DEF FeedInv, WordIsSingle, WordFollowsOlder, NothingIsNewer, Ordered

LEMMA WordIsMessage ==
    ASSUME NEW r \in Nat PROVE Word(r) \in Message /\ Word(r).event /\ Word(r).revision = r
  BY DEF Word, Message

LEMMA ReplyIsMessage ==
    ASSUME NEW r \in Nat, NEW tag \in Tags \cup {FirstTag}
    PROVE  ReplyTo(tag, r) \in Message /\ ~ReplyTo(tag, r).event /\ ReplyTo(tag, r).revision = r
  BY DEF ReplyTo, Message

(* A reply, which comes last, may be of any revision up to the newest.     *)
LEMMA AppendReply ==
    ASSUME NEW box \in Seq(Message), NEW m \in Message, ~m.event, NEW newest \in Nat,
           m.revision <= newest, NEW started, Ordered(box, started, newest)
    PROVE  Append(box, m) \in Seq(Message) /\ Ordered(Append(box, m), started, newest)
<1> DEFINE new == Append(box, m)
<1>1. new \in Seq(Message) /\ DOMAIN new = 1..(Len(box) + 1) /\ DOMAIN box = 1..Len(box)
      /\ Len(box) \in Nat
  OBVIOUS
<1>2. \A i \in DOMAIN box : new[i] = box[i]
  OBVIOUS
<1>3. new[Len(box) + 1] = m
  OBVIOUS
<1>4. \A i \in DOMAIN new : new[i].event => i \in DOMAIN box
  BY <1>1, <1>3
<1> HIDE DEF new
<1>5. \A i \in DOMAIN new : new[i].revision <= newest
  BY <1>1, <1>2, <1>3 DEF Ordered
<1>6. \A i, j \in DOMAIN new : i < j /\ new[j].event => i \in DOMAIN box /\ j \in DOMAIN box
  BY <1>1, <1>4
<1>7. \A i, j \in DOMAIN new : i < j /\ new[j].event => new[i].revision <= new[j].revision
  BY <1>2, <1>6 DEF Ordered
<1>8. \A i, j \in DOMAIN new : i < j /\ new[i].event /\ new[j].event => i = 1 /\ started
  BY <1>2, <1>6 DEF Ordered
<1> QED
  BY <1>1, <1>5, <1>7, <1>8 DEF Ordered, new

(* What is left when the first message has been received.                  *)
LEMMA TailOrdered ==
    ASSUME NEW box \in Seq(Message), box # << >>, NEW newest \in Nat,
           NEW started, NEW later, Ordered(box, started, newest)
    PROVE  Tail(box) \in Seq(Message) /\ Ordered(Tail(box), later, newest)
<1> DEFINE new == Tail(box)
<1>1. new \in Seq(Message) /\ DOMAIN new = 1..(Len(box) - 1) /\ DOMAIN box = 1..Len(box)
      /\ Len(box) \in Nat
  OBVIOUS
<1>2. \A i \in DOMAIN new : new[i] = box[i + 1] /\ i + 1 \in DOMAIN box
  OBVIOUS
<1> HIDE DEF new
<1>3. \A i \in DOMAIN new : new[i].revision <= newest
  BY <1>2 DEF Ordered
<1>4. \A i, j \in DOMAIN new : i < j => i + 1 < j + 1 /\ i + 1 # 1
  BY <1>1
<1>5. \A i, j \in DOMAIN new : i < j /\ new[j].event => new[i].revision <= new[j].revision
  BY <1>2, <1>4 DEF Ordered
<1>6. \A i, j \in DOMAIN new : i < j => ~(new[i].event /\ new[j].event)
  BY <1>2, <1>4 DEF Ordered
<1> QED
  BY <1>1, <1>3, <1>5, <1>6 DEF Ordered, new

LEMMA RevisionsAreNat ==
    ASSUME NEW box \in Seq(Message), NEW i \in DOMAIN box PROVE box[i].revision \in Nat
<1>1. box[i] \in Message
  OBVIOUS
<1> QED
  BY <1>1 DEF Message

LEMMA StaysOrdered ==
    ASSUME NEW box \in Seq(Message), NEW newest \in Nat, NEW newer \in Nat, newest <= newer,
           NEW started, NEW later, started => later,
           Ordered(box, started, newest)
    PROVE  Ordered(box, later, newer)
<1>1. \A i \in DOMAIN box : box[i].revision \in Nat
  BY RevisionsAreNat
<1>2. \A i \in DOMAIN box : box[i].revision <= newer
  BY <1>1 DEF Ordered
<1> QED
  BY <1>2 DEF Ordered

(* Of word that may give way there is at most one message, and the newest  *)
(* word is in order wherever it takes its place.                           *)
LEMMA WordOrdered ==
    ASSUME FeedTypes, NEW c \in Connections, Ordered(outbox[c], c \in begun, revision)
    PROVE  /\ WithWord(c) \in Seq(Message)
           /\ Ordered(WithWord(c), c \in begun, revision)
           /\ \A i \in DOMAIN outbox[c] : i \notin Replaceable(c) =>
                i \in DOMAIN WithWord(c) /\ WithWord(c)[i] = outbox[c][i]
<1> DEFINE box == outbox[c]
           new == WithWord(c)
           started == c \in begun
<1>1. box \in Seq(Message) /\ revision \in Nat /\ DOMAIN box = 1..Len(box) /\ Len(box) \in Nat
  BY DEF FeedTypes
<1>2. \A i \in DOMAIN box : box[i].revision \in Nat
  BY <1>1, RevisionsAreNat
<1>3. Word(revision) \in Message /\ Word(revision).event /\ Word(revision).revision = revision
  BY <1>1, WordIsMessage
<1>4. \A i \in DOMAIN box : i \in Replaceable(c) <=> box[i].event /\ (i = 1 => ~started)
  BY DEF Replaceable
<1>5. CASE Replaceable(c) = {}
  <2>1. new = Append(box, Word(revision))
    BY <1>5 DEF WithWord
  <2>2. new \in Seq(Message) /\ DOMAIN new = 1..(Len(box) + 1)
    BY <1>1, <1>3, <2>1
  <2>3. \A i \in DOMAIN box : new[i] = box[i]
    BY <1>1, <1>3, <2>1
  <2>4. new[Len(box) + 1] = Word(revision)
    BY <1>1, <1>3, <2>1
  <2>5. \A i \in DOMAIN box : box[i].event => i = 1 /\ started
    BY <1>4, <1>5
  <2> HIDE DEF new, box, started
  <2>6. \A i \in DOMAIN new : new[i].revision <= revision
    BY <1>1, <1>3, <2>2, <2>3, <2>4 DEF Ordered, box, started
  <2>7. \A i, j \in DOMAIN new : i < j => i \in DOMAIN box /\ (j \in DOMAIN box \/ j = Len(box) + 1)
    BY <1>1, <2>2
  <2>8. \A i, j \in DOMAIN new : i < j /\ new[j].event => new[i].revision <= new[j].revision
    BY <1>1, <1>3, <2>2, <2>3, <2>4, <2>6, <2>7 DEF Ordered, box, started
  <2>9. \A i, j \in DOMAIN new : i < j /\ new[i].event /\ new[j].event => i = 1 /\ started
    BY <2>3, <2>5, <2>7
  <2>10. DOMAIN box \subseteq DOMAIN new
    BY <1>1, <2>2
  <2>11. Ordered(new, started, revision)
    BY <2>6, <2>8, <2>9 DEF Ordered
  <2> QED
    BY <2>2, <2>3, <2>10, <2>11 DEF new, box, started
<1>6. CASE Replaceable(c) # {}
  <2>1. PICK first \in Replaceable(c) : TRUE
    BY <1>6
  <2>2. first \in DOMAIN box /\ box[first].event /\ (first = 1 => ~started)
    BY <2>1 DEF Replaceable
  <2>3. \A j \in Replaceable(c) : j \in DOMAIN box /\ box[j].event /\ (j = 1 => ~started)
    BY DEF Replaceable
  <2>4. \A j \in DOMAIN box : box[j].event /\ j # first => j = 1 /\ started
    BY <1>1, <2>2 DEF Ordered
  <2>5. \A j \in Replaceable(c) : j = first
    BY <2>3, <2>4
  <2>6. first = CHOOSE i \in Replaceable(c) : \A j \in Replaceable(c) : i <= j
    BY <1>1, <2>1, <2>2, <2>5
  <2>7. new = [i \in DOMAIN box |-> IF i = first THEN Word(revision) ELSE box[i]]
    BY <1>6, <2>6 DEF WithWord, ReplaceAt
  <2>8. new \in Seq(Message) /\ DOMAIN new = DOMAIN box
    BY <1>1, <1>3, <2>7
  <2>9. new[first] = Word(revision) /\ \A i \in DOMAIN box : i # first => new[i] = box[i]
    BY <2>2, <2>7
  <2> HIDE DEF new, box, started
  <2>10. \A i \in DOMAIN new : new[i].revision <= revision
    BY <1>1, <1>3, <2>8, <2>9 DEF Ordered, box, started
  <2>11. \A i \in DOMAIN new : new[i].event <=> box[i].event
    <3>1. new[first].event /\ box[first].event
      BY <1>3, <2>2, <2>9
    <3> QED
      BY <2>8, <2>9, <3>1, Zenon
  <2>12. \A i, j \in DOMAIN new : i < j /\ new[i].event /\ new[j].event => i = 1 /\ started
    BY <2>8, <2>11 DEF Ordered, box, started
  <2>13. \A i, j \in DOMAIN new : i < j /\ new[j].event => i # first
    BY <2>8, <2>2, <2>12, <2>11
  <2>14. \A i, j \in DOMAIN new : i < j /\ new[j].event => new[i].revision <= new[j].revision
    BY <1>3, <2>8, <2>9, <2>10, <2>13 DEF Ordered, box, started
  <2>15. Ordered(new, started, revision)
    BY <2>10, <2>12, <2>14 DEF Ordered
  <2> QED
    BY <2>1, <2>8, <2>9, <2>15 DEF new, box, started
<1> QED
  BY <1>5, <1>6

-----------------------------------------------------------------------------
LEMMA InitIsOrdered == FeedInit => FeedInv
<1> SUFFICES ASSUME FeedInit PROVE FeedInv
  OBVIOUS
<1>1. revision = 1 /\ connected = {} /\ closing = {} /\ refused = {}
  BY DEF FeedInit
<1>2. \A c \in Connections : outbox[c] = << >>
  BY DEF FeedInit
<1>3. outbox \in [Connections -> Seq(Message)]
  BY DEF FeedInit
<1>4. \A c \in Connections : Ordered(outbox[c], c \in begun, revision)
  BY <1>2 DEF Ordered
<1> QED
  BY <1>1, <1>2, <1>3, <1>4, FeedInvIsOrdered DEF FeedTypes

(* What keeps the invariant: the messages of one connection change, and    *)
(* are again in order.                                                     *)
Fits(c, box) ==
    /\ outbox' = [outbox EXCEPT ![c] = box]
    /\ begun \ {c} \subseteq begun'
    /\ revision' \in Nat /\ revision <= revision'
    /\ (closing \cup refused)' \subseteq connected'
    /\ connected \ {c} \subseteq connected'
    /\ c \notin connected' => box = << >>

LEMMA OneChanges ==
    ASSUME FeedInv, NEW c \in Connections, NEW box \in Seq(Message),
           Fits(c, box), Ordered(box, c \in begun', revision')
    PROVE  FeedInv'
<1> USE DEF Fits
<1>1. FeedTypes /\ \A d \in Connections : Ordered(outbox[d], d \in begun, revision)
  BY FeedInvIsOrdered
<1>2. outbox' \in [Connections -> Seq(Message)] /\ outbox'[c] = box
      /\ \A d \in Connections : d # c => outbox'[d] = outbox[d]
  BY <1>1 DEF FeedTypes
<1>3. ASSUME NEW d \in Connections, d # c PROVE Ordered(outbox'[d], d \in begun', revision')
  <2>1. outbox[d] \in Seq(Message) /\ revision \in Nat
    BY <1>1 DEF FeedTypes
  <2>2. d \in begun => d \in begun'
    BY <1>3
  <2>3. Ordered(outbox[d], d \in begun, revision)
    BY <1>1
  <2>4. Ordered(outbox[d], d \in begun', revision')
    BY <2>1, <2>2, <2>3, StaysOrdered
  <2> QED
    BY <1>2, <1>3, <2>4
<1>4. \A d \in Connections : Ordered(outbox'[d], d \in begun', revision')
  BY <1>2, <1>3
<1>5. \A d \in Connections \ connected' : outbox'[d] = << >>
  BY <1>1, <1>2 DEF FeedTypes
<1>6. FeedTypes'
  BY <1>1, <1>2, <1>5 DEF FeedTypes
<1> QED
  BY <1>4, <1>6 DEF FeedInv, WordIsSingle, WordFollowsOlder, NothingIsNewer, Ordered

LEMMA NoneChanges ==
    ASSUME FeedInv, UNCHANGED outbox, begun \subseteq begun',
           revision' \in Nat, revision <= revision',
           (closing \cup refused)' \subseteq connected', connected \subseteq connected'
    PROVE  FeedInv'
<1>1. FeedTypes /\ \A d \in Connections : Ordered(outbox[d], d \in begun, revision)
  BY FeedInvIsOrdered
<1>2. ASSUME NEW d \in Connections PROVE Ordered(outbox'[d], d \in begun', revision')
  <2>1. outbox[d] \in Seq(Message) /\ revision \in Nat
    BY <1>1 DEF FeedTypes
  <2>2. d \in begun => d \in begun'
    OBVIOUS
  <2>3. Ordered(outbox[d], d \in begun, revision)
    BY <1>1
  <2>4. Ordered(outbox[d], d \in begun', revision')
    BY <2>1, <2>2, <2>3, StaysOrdered
  <2> QED
    BY <2>4
<1>3. FeedTypes'
  BY <1>1 DEF FeedTypes
<1> QED
  BY <1>2, <1>3 DEF FeedInv, WordIsSingle, WordFollowsOlder, NothingIsNewer, Ordered

LEMMA AnnounceKeepsOrder ==
    ASSUME FeedInv, Announce PROVE FeedInv'
<1>1. FeedTypes /\ \A d \in Connections : Ordered(outbox[d], d \in begun, revision)
  BY FeedInvIsOrdered
<1> DEFINE told == IF announced = 0 THEN {} ELSE connected \ closing
<1>2. PICK cut \in SUBSET told :
        /\ closing' = closing \cup cut
        /\ outbox' = [c \in Connections |->
                        IF c \in told /\ (c \in cut => Replaceable(c) # {})
                        THEN WithWord(c) ELSE outbox[c]]
  BY DEF Announce
<1>3. UNCHANGED <<revision, connected, begun, refused>>
  BY DEF Announce
<1>4. ASSUME NEW c \in Connections
      PROVE  outbox'[c] \in Seq(Message) /\ Ordered(outbox'[c], c \in begun, revision)
  <2>1. outbox'[c] = WithWord(c) \/ outbox'[c] = outbox[c]
    BY <1>2
  <2>2. outbox[c] \in Seq(Message) /\ Ordered(outbox[c], c \in begun, revision)
    BY <1>1 DEF FeedTypes
  <2>3. WithWord(c) \in Seq(Message) /\ Ordered(WithWord(c), c \in begun, revision)
    BY <1>1, <2>2, WordOrdered
  <2> QED
    BY <2>1, <2>2, <2>3
<1>5. \A c \in Connections \ connected' : outbox'[c] = << >>
  BY <1>1, <1>2, <1>3 DEF FeedTypes
<1>6. outbox' \in [Connections -> Seq(Message)]
  BY <1>2, <1>4
<1>7. FeedTypes'
  BY <1>1, <1>2, <1>3, <1>5, <1>6 DEF FeedTypes
<1> QED
  BY <1>3, <1>4, <1>7 DEF FeedInv, WordIsSingle, WordFollowsOlder, NothingIsNewer, Ordered

LEMMA StepKeepsOrder ==
    ASSUME FeedRevisions \subseteq Nat, FeedInv, [FeedNext]_feedVars PROVE FeedInv'
<1>1. FeedTypes /\ \A d \in Connections : Ordered(outbox[d], d \in begun, revision)
  BY FeedInvIsOrdered
<1>2. revision \in Nat /\ closing \cup refused \subseteq connected
  BY <1>1 DEF FeedTypes
<1>3. \A c \in Connections : outbox[c] \in Seq(Message)
  BY <1>1 DEF FeedTypes
<1>4. << >> \in Seq(Message) /\ \A m \in Message : <<m>> = Append(<< >>, m)
  OBVIOUS
<1>5. ASSUME NEW m \in Message, ~m.event, NEW newest \in Nat, m.revision <= newest, NEW started
      PROVE  <<m>> \in Seq(Message) /\ Ordered(<<m>>, started, newest)
  <2>1. Ordered(<< >>, started, newest)
    BY DEF Ordered
  <2> QED
    <3>1. Append(<< >>, m) \in Seq(Message) /\ Ordered(Append(<< >>, m), started, newest)
      BY <1>4, <1>5, <2>1, AppendReply, Zenon
    <3> QED
      BY <1>4, <3>1, Zenon
<1>6. CASE StateChanges
  BY <1>2, <1>6, NoneChanges DEF StateChanges
<1>7. CASE Announce
  BY <1>7, AnnounceKeepsOrder
<1>8. ASSUME NEW c \in Connections, Join(c) PROVE FeedInv'
  <2>1. ReplyTo(FirstTag, revision) \in Message /\ ~ReplyTo(FirstTag, revision).event
        /\ ReplyTo(FirstTag, revision).revision = revision
    BY <1>2, ReplyIsMessage
  <2>2. <<ReplyTo(FirstTag, revision)>> \in Seq(Message)
        /\ Ordered(<<ReplyTo(FirstTag, revision)>>, c \in begun, revision)
    BY <1>2, <1>5, <2>1
  <2> QED
    <3>1. Fits(c, <<ReplyTo(FirstTag, revision)>>) /\ UNCHANGED <<revision, begun>>
      BY <1>2, <1>8 DEF Join, Fits
    <3> QED
      BY <2>2, <3>1, OneChanges
<1>9. ASSUME NEW c \in Connections, Refuse(c) PROVE FeedInv'
  BY <1>2, <1>9, NoneChanges DEF Refuse, Listened
<1>10. ASSUME NEW c \in Connections, Start(c) PROVE FeedInv'
  BY <1>2, <1>10, NoneChanges DEF Start
<1>11. ASSUME NEW c \in Connections, Deliver(c) PROVE FeedInv'
  <2>1. outbox[c] # << >> /\ Ordered(outbox[c], c \in begun, revision)
    BY <1>1, <1>11 DEF Deliver
  <2>2. Tail(outbox[c]) \in Seq(Message) /\ Ordered(Tail(outbox[c]), c \in begun', revision)
    BY <1>2, <1>3, <2>1, TailOrdered
  <2>3. Fits(c, Tail(outbox[c])) /\ UNCHANGED revision
    BY <1>2, <1>11 DEF Deliver, Fits
  <2> QED
    BY <2>2, <2>3, OneChanges
<1>12. ASSUME NEW c \in Connections, Leave(c) PROVE FeedInv'
  <2>1. PICK box \in Seq(Message) : box = << >>
    BY <1>4
  <2>2. Ordered(box, c \in begun', revision')
    BY <2>1 DEF Ordered
  <2>3. Fits(c, box)
    BY <1>2, <1>12, <2>1 DEF Leave, Fits
  <2> QED
    BY <2>2, <2>3, OneChanges
<1>13. ASSUME NEW c \in Connections, NEW tag \in Tags, Answers(c, tag) PROVE FeedInv'
  <2>1. revision' \in Nat /\ revision <= revision'
    BY <1>13 DEF Answers
  <2>2. PICK carried \in {0, revision'} :
          \/ /\ outbox' = [outbox EXCEPT ![c] = Append(@, ReplyTo(tag, carried))]
             /\ UNCHANGED closing
          \/ closing' = closing \cup {c} /\ UNCHANGED outbox
    BY <1>13 DEF Answers
  <2>3. ReplyTo(tag, carried) \in Message /\ ~ReplyTo(tag, carried).event
        /\ ReplyTo(tag, carried).revision <= revision'
    BY <2>1, ReplyIsMessage
  <2>4. Ordered(outbox[c], c \in begun, revision')
    BY <1>1, <1>2, <1>3, <2>1, StaysOrdered
  <2>5. Append(outbox[c], ReplyTo(tag, carried)) \in Seq(Message)
        /\ Ordered(Append(outbox[c], ReplyTo(tag, carried)), c \in begun, revision')
    BY <1>3, <2>1, <2>3, <2>4, AppendReply
  <2>6. CASE UNCHANGED closing /\ outbox' = [outbox EXCEPT ![c] = Append(@, ReplyTo(tag, carried))]
    <3>1. Fits(c, Append(outbox[c], ReplyTo(tag, carried))) /\ UNCHANGED begun
      BY <1>2, <1>13, <2>1, <2>6 DEF Answers, Listened, Fits
    <3> QED
      BY <2>5, <3>1, OneChanges
  <2>7. CASE closing' = closing \cup {c} /\ UNCHANGED outbox
    BY <1>2, <1>13, <2>1, <2>7, NoneChanges DEF Answers, Listened
  <2> QED
    BY <2>2, <2>6, <2>7
<1>14. ASSUME NEW c \in Connections, NEW tag \in Tags, TellRefusal(c, tag) PROVE FeedInv'
  <2>1. ReplyTo(tag, 0) \in Message /\ ~ReplyTo(tag, 0).event /\ ReplyTo(tag, 0).revision = 0
    BY ReplyIsMessage
  <2>2. <<ReplyTo(tag, 0)>> \in Seq(Message)
        /\ Ordered(<<ReplyTo(tag, 0)>>, c \in begun, revision)
    BY <1>2, <1>5, <2>1
  <2> QED
    <3>1. Fits(c, <<ReplyTo(tag, 0)>>) /\ UNCHANGED <<revision, begun>>
      BY <1>2, <1>14 DEF TellRefusal, Fits
    <3> QED
      BY <2>2, <3>1, OneChanges
<1>15. CASE UNCHANGED feedVars
  BY <1>2, <1>15, NoneChanges DEF feedVars
<1> QED
  BY <1>6, <1>7, <1>8, <1>9, <1>10, <1>11, <1>12, <1>13, <1>14, <1>15 DEF FeedNext

(* However word overtakes word and replies, nothing that waits before word *)
(* is newer than it, and of word that the peer has no part of one message  *)
(* waits at most (Client::queue, ipc.rs).  Replies carry no such promise:  *)
(* one may follow word of a newer revision.                                *)
THEOREM WordIsNewest ==
    ASSUME FeedRevisions \subseteq Nat PROVE FeedSpec => [](WordFollowsOlder /\ WordIsSingle)
<1>1. FeedInit => FeedInv
  BY InitIsOrdered
<1>2. FeedInv /\ [FeedNext]_feedVars => FeedInv'
  BY StepKeepsOrder
<1>3. FeedInv => WordFollowsOlder /\ WordIsSingle
  BY DEF FeedInv
<1> QED
  BY <1>1, <1>2, <1>3, PTL DEF FeedSpec

-----------------------------------------------------------------------------
(* A message that is a reply, or of which a part was received, keeps its   *)
(* place and its content until one is delivered or the connection ends.    *)
KeepsReplies ==
    \A c \in Connections : c \in connected' =>
      \/ outbox'[c] = Tail(outbox[c])
      \/ \A i \in DOMAIN outbox[c] \ Replaceable(c) :
           i \in DOMAIN outbox'[c] /\ outbox'[c][i] = outbox[c][i]

(* Whatever is announced, no reply is lost, moved or altered, and neither  *)
(* is a message of which the peer has a part: only word that nobody has    *)
(* seen gives way.                                                         *)
THEOREM RepliesStay ==
    ASSUME FeedRevisions \subseteq Nat PROVE FeedSpec => [][KeepsReplies]_feedVars
<1>1. FeedInit => FeedInv
  BY InitIsOrdered
<1>2. FeedInv /\ [FeedNext]_feedVars => FeedInv'
  BY StepKeepsOrder
<1>3. ASSUME FeedInv, FeedNext, NEW c \in Connections, c \in connected',
             outbox'[c] # Tail(outbox[c]), NEW i \in DOMAIN outbox[c] \ Replaceable(c)
      PROVE  i \in DOMAIN outbox'[c] /\ outbox'[c][i] = outbox[c][i]
  <2>1. FeedTypes /\ \A d \in Connections : Ordered(outbox[d], d \in begun, revision)
    BY <1>3, FeedInvIsOrdered
  <2>2. outbox \in [Connections -> Seq(Message)] /\ outbox[c] \in Seq(Message) /\ i \in DOMAIN outbox[c]
    BY <2>1 DEF FeedTypes
  <2>3. outbox[c] # << >> /\ c \in connected
    BY <2>1, <2>2 DEF FeedTypes
  <2>4. \A m : i \in DOMAIN Append(outbox[c], m) /\ Append(outbox[c], m)[i] = outbox[c][i]
    BY <2>2
  <2>5. CASE UNCHANGED outbox
    BY <2>2, <2>5
  <2>6. CASE Announce
    <3>1. outbox'[c] = WithWord(c) \/ outbox'[c] = outbox[c]
      BY <2>6 DEF Announce
    <3>2. i \in DOMAIN WithWord(c) /\ WithWord(c)[i] = outbox[c][i]
      BY <2>1, <2>2, WordOrdered
    <3> QED
      BY <2>2, <3>1, <3>2
  <2>7. CASE \E d \in Connections : Join(d) \/ Deliver(d) \/ Leave(d)
    BY <1>3, <2>2, <2>3, <2>7 DEF Join, Deliver, Leave
  <2>8. CASE \E d \in Connections, tag \in Tags : Answers(d, tag)
    BY <2>2, <2>4, <2>8 DEF Answers
  <2>9. CASE \E d \in Connections, tag \in Tags : TellRefusal(d, tag)
    BY <2>2, <2>3, <2>9 DEF TellRefusal
  <2> QED
    BY <1>3, <2>5, <2>6, <2>7, <2>8, <2>9 DEF FeedNext, StateChanges, Refuse, Start
<1>4. FeedInv /\ [FeedNext]_feedVars => [KeepsReplies]_feedVars
  BY <1>3 DEF KeepsReplies
<1> QED
  BY <1>1, <1>2, <1>4, PTL DEF FeedSpec
=============================================================================
