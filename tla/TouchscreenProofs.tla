------------------------- MODULE TouchscreenProofs -------------------------
(***************************************************************************)
(* The touchscreen against daemons that end and start again, for any       *)
(* number of daemons, connections, revisions, touches and mishaps: what    *)
(* its screen shows, owes and sends; and its lock, for any row of touches. *)
(***************************************************************************)
EXTENDS Touchscreen, SequenceTheorems, WellFoundedInduction, TLAPS

Message == [event : BOOLEAN, revision : 0..MaxRevision, tag : Kinds]

(* Of the daemon and its server, as the connection made last sees them.    *)
ServerOK ==
    /\ daemon \in 0..MaxDaemons /\ (running => daemon # 0)
    /\ revision \in 1..MaxRevision /\ announced \in 0..revision
    /\ outbox \in [Links -> Seq(Message)]
    /\ connected \subseteq (IF linked THEN {link} ELSE {})
    /\ begun \subseteq connected /\ closing \subseteq connected /\ refused = {}
    /\ \A c \in begun : outbox[c] # << >>

FeedOK == ServerOK /\ obeyed \in [Targets -> 0..touched]

LinkOK ==
    /\ reader \in {"connect", "talk"}
    /\ link \in 0..MaxLinks /\ peer \in 0..daemon
    /\ linked => link # 0 /\ reader = "talk" /\ running /\ peer = daemon
    /\ torn /\ linked => link \in begun
    /\ inbox \in Seq(Request) /\ channel \in Seq(Request)
    /\ events \in Seq(Event) /\ Len(events) <= MaxEvents

AppOK ==
    /\ connection \in {"connecting", "connected", "offline", "protocol_error"}
    /\ shown \in {Nothing} \cup [daemon : 1..daemon, revision : 1..MaxRevision]
    /\ focus \in 0..daemon
    /\ pending \in [Targets -> 0..touched]
    /\ touched \in 0..MaxTouches /\ dropped \in [Targets -> SUBSET (1..touched)]
    /\ happened \in 0..MaxHappened

Flags == {running, linked, fragment, torn, locked, overtaken, forgot} \subseteq BOOLEAN

(* A response that carries a state, and whose. *)
Carrying(event) == event.kind = "response" /\ event.state.revision # 0

StatesOK ==
    \A k \in DOMAIN events :
      Carrying(events[k]) => events[k].state.daemon \in 1..daemon

TouchesHappened ==
    /\ \A i \in DOMAIN inbox : inbox[i].touch <= touched
    /\ \A i \in DOMAIN channel : channel[i].touch <= touched

Types == FeedOK /\ LinkOK /\ AppOK /\ Flags /\ StatesOK /\ TouchesHappened

-----------------------------------------------------------------------------
(* Locks: what one has found waiting is neither under way, nor does it     *)
(* wait, nor has it been carried out.                                      *)
Spared(requests) ==
    \A t \in Targets : \A i \in DOMAIN requests :
      requests[i].kind = t => requests[i].touch \notin dropped[t]

NothingDropped ==
    /\ \A t \in Targets : pending[t] \notin dropped[t] /\ obeyed[t] \notin dropped[t]
    /\ Spared(inbox) /\ Spared(channel)

(* The focus. *)
FocusIsShown == focus # 0 /\ ~forgot => shown # Nothing /\ focus = shown.daemon

(* What is owed. *)
RepliesCarry ==
    \A c \in Links : \A i \in DOMAIN outbox[c] :
      outbox[c][i].tag = "snapshot" => outbox[c][i].revision # 0

Underway ==
    \/ ~linked
    \/ link \notin connected \/ link \in closing
    \/ CarriesState(outbox[link]) \/ Asked(inbox) \/ Asked(channel)

(* The screen shows nothing once the event at k is taken (0: shows nothing now). *)
BlankAfter(k) ==
    IF k = 0 THEN shown = Nothing /\ connection # "protocol_error"
    ELSE events[k] \in {Connected, Disconnected}

Owed ==
    ~torn /\ ~fragment =>
      \A k \in 0..Len(events) :
        BlankAfter(k) /\ (\A m \in DOMAIN events : m > k => events[m] # Malformed) =>
          \/ Underway
          \/ \E m \in DOMAIN events : m > k /\ Carrying(events[m])

(* What is shown last. *)
WordsAnnounced ==
    \A c \in Links : \A i \in DOMAIN outbox[c] :
      outbox[c][i].event => outbox[c][i].revision <= announced

FirstIsAsked == linked /\ announced = 0 => Asked(inbox)

Settled == link \in connected \ closing /\ ~overtaken /\ ~Asked(inbox)

Latest(state) == state.daemon = daemon /\ (announced = revision => state.revision = revision)

Changing(event) == Carrying(event) \/ event \in {Malformed, Disconnected}

LastIsLatest ==
    Settled =>
      /\ \A i \in DOMAIN outbox[link] :
           /\ outbox[link][i].revision # 0
           /\ \A j \in DOMAIN outbox[link] : i < j => outbox[link][j].revision = 0
           /\ announced = revision
           => outbox[link][i].revision = revision
      /\ ~CarriesState(outbox[link]) /\ ~torn =>
           /\ \A k \in DOMAIN events :
                Carrying(events[k]) /\ (\A m \in DOMAIN events : k < m => ~Changing(events[m]))
                  => Latest(events[k].state)
           /\ (\A k \in DOMAIN events : ~Changing(events[k])) /\ shown # Nothing => Latest(shown)

-----------------------------------------------------------------------------
(* Sequences and messages. *)

LEMMA Appended ==
    ASSUME NEW S, NEW s \in Seq(S), NEW e \in S
    PROVE  /\ Append(s, e) \in Seq(S) /\ Len(Append(s, e)) = Len(s) + 1
           /\ DOMAIN Append(s, e) = 1..(Len(s) + 1) /\ DOMAIN s = 1..Len(s) /\ Len(s) \in Nat
           /\ \A i \in DOMAIN s : Append(s, e)[i] = s[i]
           /\ Append(s, e)[Len(s) + 1] = e
  OBVIOUS

LEMMA Tailed ==
    ASSUME NEW S, NEW s \in Seq(S), s # << >>
    PROVE  /\ Tail(s) \in Seq(S) /\ Len(Tail(s)) = Len(s) - 1
           /\ DOMAIN Tail(s) = 1..(Len(s) - 1) /\ DOMAIN s = 1..Len(s) /\ Len(s) \in Nat \ {0}
           /\ \A i \in DOMAIN Tail(s) : Tail(s)[i] = s[i + 1] /\ i + 1 \in DOMAIN s
           /\ Head(s) = s[1] /\ Head(s) \in S /\ 1 \in DOMAIN s
  OBVIOUS

LEMMA Joined ==
    ASSUME NEW S, NEW s \in Seq(S), NEW t \in Seq(S)
    PROVE  /\ s \o t \in Seq(S) /\ Len(s \o t) = Len(s) + Len(t)
           /\ DOMAIN (s \o t) = 1..(Len(s) + Len(t))
           /\ DOMAIN s = 1..Len(s) /\ Len(s) \in Nat
           /\ DOMAIN t = 1..Len(t) /\ Len(t) \in Nat
           /\ \A i \in DOMAIN s : (s \o t)[i] = s[i]
           /\ \A i \in DOMAIN t : (s \o t)[Len(s) + i] = t[i]
  OBVIOUS

(* The least number of a set. *)
LEMMA Least ==
    ASSUME NEW S \in SUBSET Nat, S # {}
    PROVE  \E i \in S : \A j \in S : i <= j
<1>1. PICK m \in S : \A y \in S : ~(<<y, m>> \in OpToRel(<, Nat))
  BY NatLessThanWellFounded, WFMin
<1>2. \A y \in S : ~(y < m)
  BY <1>1 DEF OpToRel
<1> QED
  BY <1>2

LEMMA MessageTypes ==
    ASSUME NEW r \in 0..MaxRevision, NEW tag \in Kinds
    PROVE  /\ Feed!ReplyTo(tag, r) \in Message /\ Feed!Word(r) \in Message
           /\ ~Feed!ReplyTo(tag, r).event /\ Feed!Word(r).event
           /\ Feed!ReplyTo(tag, r).revision = r /\ Feed!Word(r).revision = r
           /\ Feed!ReplyTo(tag, r).tag = tag
  BY DEF Feed!ReplyTo, Feed!Word, Message, Kinds, Targets

(* Word is put in the place of older word, or behind everything. *)
LEMMA WordPlaces ==
    ASSUME NEW c \in Links, outbox[c] \in Seq(Message), revision \in 0..MaxRevision
    PROVE  /\ Feed!WithWord(c) \in Seq(Message)
           /\ \/ Feed!WithWord(c) = Append(outbox[c], Feed!Word(revision))
              \/ \E i \in DOMAIN outbox[c] :
                   /\ outbox[c][i].event /\ (i = 1 => c \notin begun)
                   /\ DOMAIN Feed!WithWord(c) = DOMAIN outbox[c]
                   /\ Len(Feed!WithWord(c)) = Len(outbox[c])
                   /\ Feed!WithWord(c)[i] = Feed!Word(revision)
                   /\ \A j \in DOMAIN outbox[c] \ {i} : Feed!WithWord(c)[j] = outbox[c][j]
<1>1. Feed!Word(revision) \in Message
  BY MessageTypes DEF Kinds
<1>2. CASE Feed!Replaceable(c) = {}
  <2>1. Feed!WithWord(c) = Append(outbox[c], Feed!Word(revision))
    BY <1>2 DEF Feed!WithWord
  <2> QED
    BY <1>1, <2>1, Appended
<1>3. CASE Feed!Replaceable(c) # {}
  <2> DEFINE first == CHOOSE i \in Feed!Replaceable(c) : \A j \in Feed!Replaceable(c) : i <= j
  <2>1. Feed!Replaceable(c) \in SUBSET Nat
    BY DEF Feed!Replaceable
  <2>2. first \in Feed!Replaceable(c)
    BY <1>3, <2>1, Least, Zenon
  <2>3. first \in DOMAIN outbox[c] /\ outbox[c][first].event /\ (first = 1 => c \notin begun)
    BY <2>2 DEF Feed!Replaceable
  <2>4. Feed!WithWord(c) = Feed!ReplaceAt(outbox[c], first, Feed!Word(revision))
    BY <1>3 DEF Feed!WithWord
  <2> HIDE DEF first
  <2>5. Feed!WithWord(c)
          = [i \in DOMAIN outbox[c] |-> IF i = first THEN Feed!Word(revision) ELSE outbox[c][i]]
    BY <2>4 DEF Feed!ReplaceAt
  <2>6. Feed!WithWord(c) \in Seq(Message) /\ DOMAIN Feed!WithWord(c) = DOMAIN outbox[c]
        /\ Len(Feed!WithWord(c)) = Len(outbox[c])
    BY <1>1, <2>5
  <2>7. Feed!WithWord(c)[first] = Feed!Word(revision)
        /\ \A j \in DOMAIN outbox[c] \ {first} : Feed!WithWord(c)[j] = outbox[c][j]
    BY <2>3, <2>5
  <2> QED
    BY <2>3, <2>6, <2>7
<1> QED
  BY <1>2, <1>3

-----------------------------------------------------------------------------
(* Type correctness. *)

LEMMA Bounds ==
    /\ MaxDaemons \in Nat \ {0} /\ MaxLinks \in Nat \ {0} /\ MaxRevision \in Nat \ {0}
    /\ MaxEvents \in Nat \ {0} /\ MaxTouches \in Nat /\ MaxHappened \in Nat
    /\ OfflineAt \subseteq 1..MaxRevision
  BY TouchscreenAssumption

LEMMA LinkIsLink == ASSUME LinkOK, linked PROVE link \in Links
  BY Bounds DEF LinkOK, Links

(* What Announce does to a connection that is told. *)
LEMMA Announced ==
    ASSUME FeedOK, Feed!Announce
    PROVE  /\ announced' = revision /\ announced # revision
           /\ UNCHANGED <<revision, connected, begun, refused>>
           /\ closing \subseteq closing' /\ closing' \subseteq connected
           /\ outbox' \in [Links -> Seq(Message)]
           /\ \A c \in Links : outbox'[c] \in {outbox[c], Feed!WithWord(c)}
           /\ \A c \in Links \cap (connected \ closing') :
                announced # 0 => outbox'[c] = Feed!WithWord(c)
<1> DEFINE told == IF announced = 0 THEN {} ELSE connected \ closing
<1>1. PICK cut \in SUBSET told :
        /\ closing' = closing \cup cut
        /\ outbox' = [c \in Links |->
                        IF c \in told /\ (c \in cut => Feed!Replaceable(c) # {})
                        THEN Feed!WithWord(c) ELSE outbox[c]]
  BY DEF Feed!Announce
<1>2. announced' = revision /\ announced # revision
      /\ UNCHANGED <<revision, connected, begun, refused>>
  BY DEF Feed!Announce
<1>3. revision \in 0..MaxRevision /\ \A c \in Links : outbox[c] \in Seq(Message)
  BY Bounds DEF FeedOK, ServerOK
<1>4. \A c \in Links : Feed!WithWord(c) \in Seq(Message)
  BY <1>3, WordPlaces
<1>5. \A c \in Links : outbox'[c] \in {outbox[c], Feed!WithWord(c)}
  BY <1>1
<1>6. outbox' \in [Links -> Seq(Message)]
  BY <1>1, <1>3, <1>4
<1>7. closing \subseteq closing' /\ closing' \subseteq connected
  BY <1>1 DEF FeedOK, ServerOK
<1>8. \A c \in Links \cap (connected \ closing') :
        announced # 0 => outbox'[c] = Feed!WithWord(c)
  BY <1>1
<1> QED
  BY <1>2, <1>5, <1>6, <1>7, <1>8

(* What serving the first request does: a reply, or the connection is to   *)
(* be ended.                                                               *)
LEMMA Served ==
    ASSUME FeedOK, LinkOK, Serve
    PROVE  /\ inbox # << >> /\ inbox' = Tail(inbox) /\ Head(inbox) \in Request
           /\ linked /\ link \in Links /\ link \in connected
           /\ announced # 0
           /\ UNCHANGED <<announced, connected, begun, refused>>
           /\ revision' \in 1..MaxRevision /\ revision <= revision'
           /\ Head(inbox).kind = "snapshot" => revision' = revision
           /\ \/ UNCHANGED outbox /\ closing' = closing \cup {link}
              \/ \E carried \in {0, revision'} :
                   /\ UNCHANGED closing
                   /\ outbox' = [outbox EXCEPT ![link] =
                                   Append(@, Feed!ReplyTo(Head(inbox).kind, carried))]
<1>1. inbox # << >> /\ inbox' = Tail(inbox) /\ Head(inbox) \in Request
  BY Tailed DEF Serve, LinkOK
<1>2. Feed!Answers(link, Head(inbox).kind)
  BY DEF Serve
<1>3. link \in connected /\ linked /\ link \in Links
  BY <1>2, LinkIsLink DEF Feed!Answers, Feed!Listened, FeedOK, ServerOK
<1>4. revision' \in 1..MaxRevision /\ revision <= revision' /\ revision \in Nat
  BY <1>2, Bounds DEF Feed!Answers, FeedOK, ServerOK
<1>5. Head(inbox).kind = "snapshot" => revision' = revision
  <2>1. revision' - revision \in Changes(Head(inbox).kind)
    BY DEF Serve
  <2>2. Changes("snapshot") = {0}
    BY DEF Changes
  <2> QED
    BY <1>4, <2>1, <2>2
<1> QED
  BY <1>1, <1>2, <1>3, <1>4, <1>5 DEF Feed!Answers

(* A step may only add daemons and touches. *)
LEMMA Grows ==
    ASSUME Types, [Next]_vars
    PROVE  /\ daemon' \in daemon..MaxDaemons
           /\ touched' \in touched..MaxTouches
           /\ happened' \in 0..MaxHappened
<1>1. daemon \in 0..MaxDaemons /\ touched \in 0..MaxTouches /\ happened \in 0..MaxHappened
  BY DEF Types, FeedOK, ServerOK, AppOK
<1>2. daemon' = daemon \/ (daemon < MaxDaemons /\ daemon' = daemon + 1)
  BY DEF Next, Daemon, Server, Reader, User, StartDaemon, EndDaemon, StateChanges, Accept, Announce,
     Serve, SendPart, Drop, Connect, CannotConnect, WriteRequest, ReadLine, ReadTimesOut, ReadEnds,
     TakeEvent, Frame, TouchTarget, SendPending, TouchLabel, TouchProfiles, Lock, Unlock,
     vars, daemonVars
<1>3. touched' = touched \/ (touched < MaxTouches /\ touched' = touched + 1)
  BY DEF Next, Daemon, Server, Reader, User, StartDaemon, EndDaemon, StateChanges, Accept, Announce,
     Serve, SendPart, Drop, Connect, CannotConnect, WriteRequest, ReadLine, ReadTimesOut, ReadEnds,
     TakeEvent, Frame, TouchTarget, SendPending, TouchLabel, TouchProfiles, Lock, Unlock, vars
<1>4. happened' = happened \/ Happens
  BY DEF Next, Daemon, Server, Reader, User, StartDaemon, EndDaemon, StateChanges, Accept, Announce,
     Serve, SendPart, Drop, Connect, CannotConnect, WriteRequest, ReadLine, ReadTimesOut, ReadEnds,
     TakeEvent, Frame, TouchTarget, SendPending, TouchLabel, TouchProfiles, Lock, Unlock, vars
<1> QED
  BY <1>1, <1>2, <1>3, <1>4, Bounds DEF Happens

LEMMA FeedTyped ==
    ASSUME Types, [Next]_vars
    PROVE  FeedOK'
<1>1. FeedOK /\ ServerOK /\ LinkOK /\ AppOK /\ TouchesHappened
  BY DEF Types, FeedOK
<1>2. daemon' \in daemon..MaxDaemons /\ touched' \in touched..MaxTouches
      /\ daemon \in Nat /\ touched \in Nat
  BY <1>1, Grows DEF ServerOK, AppOK
<1>3. obeyed' \in [Targets -> 0..touched']
  <2>1. CASE Serve
    <3>1. Head(inbox).touch <= touched /\ Head(inbox) \in Request
      BY <1>1, <2>1, Served, Tailed DEF TouchesHappened, LinkOK
    <3>2. obeyed' = IF Head(inbox).kind \in Targets
                    THEN [obeyed EXCEPT ![Head(inbox).kind] = Head(inbox).touch] ELSE obeyed
      BY <2>1 DEF Serve
    <3>3. Head(inbox).touch \in 0..touched'
      BY <1>2, <3>1, Bounds DEF Request
    <3> QED
      BY <1>1, <1>2, <3>2, <3>3 DEF FeedOK
  <2>2. CASE UNCHANGED obeyed
    BY <1>1, <1>2, <2>2 DEF FeedOK
  <2> QED
    BY <2>1, <2>2
       DEF Next, Daemon, Server, Reader, User, StartDaemon, EndDaemon, StateChanges, Accept, Announce,
           SendPart, Drop, Connect, CannotConnect, WriteRequest, ReadLine, ReadTimesOut, ReadEnds,
           TakeEvent, Frame, TouchTarget, SendPending, TouchLabel, TouchProfiles, Lock, Unlock,
           vars, daemonVars
<1> SUFFICES ServerOK'
  BY <1>3 DEF FeedOK
<1>4. ASSUME UNCHANGED <<daemon, running, revision, announced, outbox, connected, begun, closing,
                         refused, link, linked>>
      PROVE  ServerOK'
  BY <1>1, <1>4 DEF ServerOK
<1>5. CASE StartDaemon
  BY <1>1, <1>5, <1>2 DEF StartDaemon, ServerOK, feedVars, linkVars
<1>6. CASE EndDaemon
  <2>1. << >> \in Seq(Message)
    OBVIOUS
  <2> QED
    BY <1>1, <1>2, <1>6, <2>1, Bounds DEF EndDaemon, ServerOK
<1>7. CASE StateChanges
  BY <1>1, <1>7, Bounds DEF StateChanges, Feed!StateChanges, ServerOK, daemonVars, linkVars
<1>8. CASE Accept
  <2>1. link \in Links /\ revision \in 0..MaxRevision
    BY <1>1, <1>8, LinkIsLink, Bounds DEF Accept, ServerOK
  <2>2. Feed!ReplyTo("snapshot", revision) \in Message
    BY <2>1, MessageTypes DEF Kinds
  <2>3. <<Feed!ReplyTo("snapshot", revision)>> \in Seq(Message)
        /\ <<Feed!ReplyTo("snapshot", revision)>> # << >>
    BY <2>2
  <2> QED
    BY <1>1, <1>8, <2>1, <2>3 DEF Accept, Feed!Join, ServerOK, daemonVars, linkVars
<1>9. CASE Announce
  <2>1. UNCHANGED <<daemon, running, link, linked>> /\ Feed!Announce
    BY <1>9 DEF Announce, daemonVars, linkVars
  <2>2. ASSUME NEW c \in begun PROVE outbox'[c] # << >>
    <3>1. c \in Links /\ outbox[c] # << >> /\ outbox[c] \in Seq(Message)
          /\ outbox'[c] \in {outbox[c], Feed!WithWord(c)}
      BY <1>1, <2>1, <2>2, Announced, LinkIsLink DEF ServerOK
    <3>2. \A m : Append(outbox[c], m) # << >>
      BY <3>1
    <3>3. DOMAIN outbox[c] # {} /\ DOMAIN << >> = {}
      BY <3>1, Tailed
    <3>4. Feed!WithWord(c) # << >>
      BY <1>1, <3>1, <3>2, <3>3, WordPlaces, Bounds DEF ServerOK
    <3> QED
      BY <3>1, <3>4
  <2> QED
    BY <1>1, <2>1, <2>2, Announced, Bounds DEF ServerOK
<1>10. CASE Serve
  <2>1. UNCHANGED <<daemon, running, link, linked>>
    BY <1>10 DEF Serve, linkVars
  <2>2. CASE UNCHANGED outbox /\ closing' = closing \cup {link}
    BY <1>1, <1>10, <2>1, <2>2, Served, Bounds DEF ServerOK
  <2>3. ASSUME NEW carried \in {0, revision'}, UNCHANGED closing,
               outbox' = [outbox EXCEPT ![link] =
                            Append(@, Feed!ReplyTo(Head(inbox).kind, carried))]
        PROVE  ServerOK'
    <3>1. Feed!ReplyTo(Head(inbox).kind, carried) \in Message
      BY <1>1, <1>10, Served, MessageTypes, Bounds DEF Request
    <3>2. outbox[link] \in Seq(Message) /\ link \in Links
      BY <1>1, <1>10, Served DEF ServerOK
    <3>3. Append(outbox[link], Feed!ReplyTo(Head(inbox).kind, carried)) \in Seq(Message)
          /\ Append(outbox[link], Feed!ReplyTo(Head(inbox).kind, carried)) # << >>
      BY <3>1, <3>2
    <3> QED
      BY <1>1, <1>10, <2>1, <2>3, <3>2, <3>3, Served, Bounds DEF ServerOK
  <2> QED
    BY <1>1, <1>10, <2>2, <2>3, Served
<1>11. CASE SendPart
  BY <1>1, <1>11 DEF SendPart, Feed!Start, ServerOK, daemonVars, linkVars
<1>12. CASE Drop
  <2>1. << >> \in Seq(Message)
    OBVIOUS
  <2> QED
    BY <1>1, <1>12, <2>1 DEF Drop, Feed!Leave, ServerOK, daemonVars, linkVars
<1>13. CASE ReadLine
  <2>1. link \in Links /\ outbox[link] \in Seq(Message) /\ outbox[link] # << >>
    BY <1>1, <1>13, LinkIsLink DEF ReadLine, Feed!Deliver, ServerOK
  <2>2. Tail(outbox[link]) \in Seq(Message)
    BY <2>1
  <2> QED
    BY <1>1, <1>13, <2>1, <2>2 DEF ReadLine, Feed!Deliver, ServerOK, daemonVars, linkVars
<1>14. CASE Connect
  <2>1. connected = {}
    BY <1>1, <1>14 DEF Connect, ServerOK, LinkOK
  <2> QED
    BY <1>1, <1>14, <2>1 DEF Connect, ServerOK, daemonVars, feedVars
<1>15. CASE ~(\/ StartDaemon \/ EndDaemon \/ StateChanges \/ Server \/ ReadLine \/ Connect)
  BY <1>4, <1>15 DEF Next, Daemon, Reader, User, CannotConnect, WriteRequest, ReadTimesOut, ReadEnds,
           TakeEvent, Frame, TouchTarget, SendPending, TouchLabel, TouchProfiles, Lock, Unlock,
           vars, daemonVars, feedVars, linkVars
<1> QED
  BY <1>5, <1>6, <1>7, <1>8, <1>9, <1>10, <1>11, <1>12, <1>13, <1>14, <1>15 DEF Server

-----------------------------------------------------------------------------
(* The app. *)

LEMMA EventKinds ==
    ASSUME NEW e \in Event
    PROVE  /\ e.kind \in {"connected", "disconnected", "malformed", "response"}
           /\ e.kind = "connected" <=> e = Connected
           /\ e.kind = "disconnected" <=> e = Disconnected
           /\ e.kind = "malformed" <=> e = Malformed
           /\ e.kind = "response" => e.tag \in Kinds /\ e.state \in State
  BY DEF Event, Connected, Disconnected, Malformed

(* What becomes of the event taken: the six ways receive and apply go.     *)
Taken(event) ==
    \/ /\ event = Connected
       /\ connection' = "connected" /\ UNCHANGED <<shown, focus, channel>>
    \/ /\ event = Disconnected
       /\ connection' = "offline" /\ shown' = Nothing /\ focus' = 0 /\ UNCHANGED channel
    \/ /\ event = Malformed
       /\ connection' = "protocol_error" /\ shown' = Nothing /\ UNCHANGED <<focus, channel>>
    \/ /\ event.kind = "response" /\ ~Carrying(event)
       /\ UNCHANGED <<channel, connection, shown, focus>>
    \/ /\ Carrying(event)
       /\ shown' = Nothing /\ focus' = 0 /\ channel' = Append(channel, Snapshot)
       /\ UNCHANGED connection
    \/ /\ Carrying(event) /\ (shown = Nothing \/ shown.daemon = event.state.daemon)
       /\ shown' = event.state /\ connection' = "connected" /\ UNCHANGED <<focus, channel>>

LEMMA EventTaken ==
    ASSUME LinkOK, TakeEvent
    PROVE  events # << >> /\ events' = Tail(events) /\ Head(events) \in Event /\ Taken(Head(events))
<1> DEFINE event == Head(events)
<1>1. events # << >> /\ events' = Tail(events) /\ event \in Event
  BY Tailed DEF TakeEvent, LinkOK
<1>2. \/ event.kind = "connected" /\ connection' = "connected" /\ UNCHANGED <<shown, focus, channel>>
      \/ /\ event.kind = "disconnected" /\ connection' = "offline"
         /\ Show(Nothing) /\ ForgetFocus /\ UNCHANGED channel
      \/ /\ event.kind = "malformed" /\ connection' = "protocol_error"
         /\ ForgetShown /\ UNCHANGED <<focus, channel>>
      \/ event.kind = "response" /\ Apply(event.tag, event.state)
  BY DEF TakeEvent
<1> SUFFICES Taken(event)
  BY <1>1
<1> HIDE DEF event
<1>3. CASE event.kind = "response" /\ Apply(event.tag, event.state)
  <2>1. CASE ~Carries(event.state)
    BY <1>3, <2>1 DEF Apply, Carries, Carrying, Taken
  <2>2. CASE Carries(event.state) /\ Gap(event.tag, event.state)
    BY <1>3, <2>2 DEF Apply, Carries, Carrying, Taken, Show, ForgetFocus, AsksAgain
  <2>3. CASE Carries(event.state) /\ ~Gap(event.tag, event.state)
    BY <1>3, <2>3 DEF Apply, Carries, Carrying, Taken, Show, Gap
  <2> QED
    BY <2>1, <2>2, <2>3
<1>4. CASE event.kind # "response"
  BY <1>1, <1>2, <1>4, EventKinds DEF Taken, Show, ForgetFocus, ForgetShown
<1> QED
  BY <1>1, <1>2, <1>3, <1>4

(* What a flush appends: of every target that is due, its one command.     *)
Flushed(waiting, due) ==
    /\ \E more \in Seq(Request) :
         /\ channel' = channel \o more
         /\ \A i \in DOMAIN more : more[i].kind \in due /\ more[i].touch = waiting[more[i].kind]
         /\ \A i, j \in DOMAIN more : more[i].kind = more[j].kind => i = j
    /\ pending' = [t \in Targets |-> IF t \in due THEN 0 ELSE waiting[t]]

LEMMA FlushAppends ==
    ASSUME channel \in Seq(Request), NEW most \in 0..MaxTouches, NEW waiting \in [Targets -> 0..most],
           NEW due \in SUBSET Targets, Flush(waiting, due)
    PROVE  Flushed(waiting, due)
<1> DEFINE One(t) == IF t \in due THEN <<CommandFor(waiting, t)>> ELSE << >>
           more == One("level") \o One("group")
<1>1. \A t \in Targets : CommandFor(waiting, t) \in Request /\ CommandFor(waiting, t).kind = t
                         /\ CommandFor(waiting, t).touch = waiting[t]
  BY Bounds DEF CommandFor, Request, Kinds
<1>2. \A t \in Targets : One(t) \in Seq(Request) /\ Len(One(t)) = (IF t \in due THEN 1 ELSE 0)
                         /\ (t \in due => One(t)[1] = CommandFor(waiting, t))
  BY <1>1
<1>3. "level" \in Targets /\ "group" \in Targets
  BY DEF Targets
<1>4. channel' = channel \o One("level") \o One("group") /\ pending' = Remaining(waiting, due)
  BY <1>3 DEF Flush
<1> HIDE DEF One
<1>5. channel' = channel \o more
  <2>1. One("level") \in Seq(Request) /\ One("group") \in Seq(Request)
    BY <1>2, <1>3
  <2>2. (channel \o One("level")) \o One("group") = channel \o (One("level") \o One("group"))
    BY <2>1, ConcatAssociative
  <2> QED
    BY <1>4, <2>2
<1>6. more \in Seq(Request) /\ DOMAIN more = 1..(Len(One("level")) + Len(One("group")))
      /\ (\A i \in 1..Len(One("level")) : more[i] = One("level")[i])
      /\ (\A i \in 1..Len(One("group")) : more[Len(One("level")) + i] = One("group")[i])
  BY <1>2, <1>3, Joined
<1>7. ASSUME NEW i \in DOMAIN more
      PROVE  \/ "level" \in due /\ i = 1 /\ more[i] = CommandFor(waiting, "level")
             \/ /\ "group" \in due /\ i = 1 + Len(One("level"))
                /\ more[i] = CommandFor(waiting, "group")
  <2> DEFINE m == Len(One("level"))
             n == Len(One("group"))
  <2>1. m = (IF "level" \in due THEN 1 ELSE 0) /\ n = (IF "group" \in due THEN 1 ELSE 0)
    BY <1>2, <1>3
  <2>2. i \in 1..(m + n) /\ (i \in 1..m => more[i] = One("level")[i])
        /\ (\A k \in 1..n : more[m + k] = One("group")[k])
    BY <1>6
  <2> HIDE DEF m, n, more
  <2>3. CASE i \in 1..m
    <3>1. "level" \in due /\ i = 1
      BY <2>1, <2>3
    <3> QED
      BY <1>2, <1>3, <2>2, <2>3, <3>1
  <2>4. CASE i \notin 1..m
    <3>1. "group" \in due /\ n = 1 /\ i = m + 1
      BY <2>1, <2>2, <2>4
    <3>2. more[m + 1] = One("group")[1]
      BY <2>2, <3>1
    <3>3. i = 1 + Len(One("level"))
      BY <3>1, <2>1 DEF m
    <3> QED
      BY <1>2, <1>3, <3>1, <3>2, <3>3
  <2> QED
    BY <2>3, <2>4
<1> HIDE DEF more
<1>8. \A i \in DOMAIN more : more[i].kind \in due /\ more[i].touch = waiting[more[i].kind]
  BY <1>1, <1>3, <1>7
<1>9. \A i, j \in DOMAIN more : more[i].kind = more[j].kind => i = j
  BY <1>1, <1>3, <1>7
<1> QED
  BY <1>4, <1>5, <1>6, <1>8, <1>9 DEF Flushed, Remaining

(* A touch, and a frame in which commands are sent, are flushes.           *)
LEMMA TouchFlushes ==
    ASSUME Types, TouchTarget
    PROVE  /\ touched' = touched + 1 /\ touched' \in 0..MaxTouches
           /\ \E t \in Targets, due \in SUBSET Targets :
                LET waiting == [pending EXCEPT ![t] = touched']
                IN  /\ waiting \in [Targets -> 0..touched']
                    /\ \A u \in due : waiting[u] # 0
                    /\ Flushed(waiting, due)
<1>1. touched' = touched + 1 /\ touched' \in 0..MaxTouches /\ touched \in Nat
  BY Bounds DEF Types, AppOK, TouchTarget
<1>2. PICK t \in Targets : FlushCommands([pending EXCEPT ![t] = touched'])
  BY DEF TouchTarget
<1> DEFINE waiting == [pending EXCEPT ![t] = touched']
<1>3. waiting \in [Targets -> 0..touched']
  BY <1>1 DEF Types, AppOK
<1>4. channel \in Seq(Request)
  BY DEF Types, LinkOK
<1>5. FlushCommands(waiting)
  BY <1>2
<1> HIDE DEF waiting
<1>6. \E due \in SUBSET Targets : (\A u \in due : waiting[u] # 0) /\ Flushed(waiting, due)
  <2>1. CASE connection = "connected"
    <3>1. PICK due \in SUBSET Waiting(waiting) : Flush(waiting, due)
      BY <1>5, <2>1 DEF FlushCommands
    <3>2. due \in SUBSET Targets /\ \A u \in due : waiting[u] # 0
      BY DEF Waiting
    <3> QED
      BY <1>1, <1>3, <1>4, <3>1, <3>2, FlushAppends
  <2>2. CASE connection # "connected"
    <3>1. pending' = waiting /\ channel' = channel
      BY <1>5, <2>2 DEF FlushCommands
    <3> DEFINE more == << >>
    <3>2. more \in Seq(Request)
      OBVIOUS
    <3>3. channel' = channel \o more
      BY <1>4, <3>1, <3>2, ConcatEmptySeq
    <3>4. DOMAIN more = {}
      OBVIOUS
    <3> HIDE DEF more
    <3>5. pending' = [u \in Targets |-> IF u \in {} THEN 0 ELSE waiting[u]]
      BY <1>3, <3>1
    <3>6. Flushed(waiting, {})
      BY <3>2, <3>3, <3>4, <3>5 DEF Flushed
    <3> QED
      BY <3>6
  <2> QED
    BY <2>1, <2>2
<1> QED
  BY <1>1, <1>3, <1>6 DEF waiting

LEMMA PendingFlushes ==
    ASSUME Types, SendPending
    PROVE  /\ pending \in [Targets -> 0..touched]
           /\ \E due \in SUBSET Targets : (\A u \in due : pending[u] # 0) /\ Flushed(pending, due)
<1>1. touched \in 0..MaxTouches /\ pending \in [Targets -> 0..touched] /\ channel \in Seq(Request)
  BY DEF Types, AppOK, LinkOK
<1>2. PICK due \in SUBSET Waiting(pending) : Flush(pending, due)
  BY DEF SendPending
<1>3. due \in SUBSET Targets /\ \A u \in due : pending[u] # 0
  BY DEF Waiting
<1> QED
  BY <1>1, <1>2, <1>3, FlushAppends

LEMMA FlushedTyped ==
    ASSUME channel \in Seq(Request), NEW most \in Nat, NEW waiting \in [Targets -> 0..most],
           NEW due \in SUBSET Targets, Flushed(waiting, due),
           \A i \in DOMAIN channel : channel[i].touch <= most
    PROVE  /\ channel' \in Seq(Request) /\ pending' \in [Targets -> 0..most]
           /\ \A i \in DOMAIN channel' : channel'[i].touch <= most
<1>1. PICK more \in Seq(Request) :
        /\ channel' = channel \o more
        /\ \A i \in DOMAIN more : more[i].kind \in due /\ more[i].touch = waiting[more[i].kind]
  BY DEF Flushed
<1>2. pending' \in [Targets -> 0..most]
  BY DEF Flushed
<1>3. \A i \in DOMAIN more : more[i].touch <= most
  BY <1>1
<1>4. /\ channel' \in Seq(Request) /\ DOMAIN channel' = 1..(Len(channel) + Len(more))
      /\ DOMAIN channel = 1..Len(channel) /\ Len(channel) \in Nat
      /\ DOMAIN more = 1..Len(more) /\ Len(more) \in Nat
      /\ \A i \in DOMAIN channel : channel'[i] = channel[i]
      /\ \A i \in DOMAIN more : channel'[Len(channel) + i] = more[i]
  BY <1>1, Joined
<1>5. ASSUME NEW i \in DOMAIN channel' PROVE channel'[i].touch <= most
  <2>1. CASE i \in DOMAIN channel
    BY <1>4, <2>1
  <2>2. CASE i \notin DOMAIN channel
    <3>1. i - Len(channel) \in DOMAIN more /\ Len(channel) + (i - Len(channel)) = i
      BY <1>4, <2>2
    <3> QED
      BY <1>3, <1>4, <3>1
  <2> QED
    BY <2>1, <2>2
<1> QED
  BY <1>2, <1>4, <1>5

(* The queues between the app, the reader and the daemon.                  *)
LEMMA SnapshotTyped == Snapshot \in Request /\ Snapshot.touch = 0 /\ Snapshot.kind = "snapshot"
  BY Bounds DEF Snapshot, Request, Kinds

LEMMA ChannelTyped ==
    ASSUME Types, [Next]_vars
    PROVE  channel' \in Seq(Request) /\ \A i \in DOMAIN channel' : channel'[i].touch <= touched'
<1>1. channel \in Seq(Request) /\ (\A i \in DOMAIN channel : channel[i].touch <= touched)
      /\ \A i \in DOMAIN channel : channel[i].touch \in Nat
  <2>1. channel \in Seq(Request) /\ \A i \in DOMAIN channel : channel[i] \in Request
    BY DEF Types, LinkOK
  <2> QED
    BY <2>1 DEF Types, TouchesHappened, Request
<1>2. touched \in Nat /\ touched' \in Nat /\ touched <= touched'
  BY Grows DEF Types, AppOK
<1>3. ASSUME NEW r \in Request, r.touch <= touched', channel' = Append(channel, r)
      PROVE  channel' \in Seq(Request) /\ \A i \in DOMAIN channel' : channel'[i].touch <= touched'
  <2>1. /\ channel' \in Seq(Request) /\ DOMAIN channel' = 1..(Len(channel) + 1)
        /\ DOMAIN channel = 1..Len(channel) /\ Len(channel) \in Nat
        /\ (\A i \in DOMAIN channel : channel'[i] = channel[i]) /\ channel'[Len(channel) + 1] = r
    BY <1>1, <1>3, Appended
  <2>2. \A i \in DOMAIN channel' : i \in DOMAIN channel \/ i = Len(channel) + 1
    BY <2>1
  <2> QED
    BY <1>1, <1>2, <1>3, <2>1, <2>2
<1>4. CASE UNCHANGED channel
  BY <1>1, <1>2, <1>4
<1>5. CASE TakeEvent
  <2>1. UNCHANGED channel \/ channel' = Append(channel, Snapshot)
    BY <1>5, EventTaken DEF Types, Taken
  <2> QED
    BY <1>2, <1>3, <1>4, <2>1, SnapshotTyped
<1>6. CASE WriteRequest
  <2>1. channel # << >> /\ channel' = Tail(channel)
    BY <1>6 DEF WriteRequest
  <2>2. channel' \in Seq(Request) /\ \A i \in DOMAIN channel' : channel'[i] = channel[i + 1]
                                                               /\ i + 1 \in DOMAIN channel
    BY <1>1, <2>1, Tailed
  <2> QED
    BY <1>1, <1>2, <2>2
<1>7. CASE TouchTarget
  <2>1. PICK t \in Targets, due \in SUBSET Targets :
          LET waiting == [pending EXCEPT ![t] = touched']
          IN  waiting \in [Targets -> 0..touched'] /\ Flushed(waiting, due)
    BY <1>7, TouchFlushes
  <2>2. \A i \in DOMAIN channel : channel[i].touch <= touched'
    BY <1>1, <1>2
  <2> QED
    BY <1>1, <1>2, <2>1, <2>2, FlushedTyped
<1>8. CASE SendPending
  <2>1. PICK due \in SUBSET Targets : pending \in [Targets -> 0..touched] /\ Flushed(pending, due)
    BY <1>8, PendingFlushes
  <2>2. UNCHANGED touched
    BY <1>8 DEF SendPending
  <2> QED
    BY <1>1, <1>2, <2>1, <2>2, FlushedTyped
<1>9. CASE TouchProfiles
  <2> DEFINE request == [kind |-> "profile", touch |-> touched']
  <2>1. touched' \in 0..MaxTouches /\ channel' = Append(channel, request)
    BY <1>2, <1>9, Bounds DEF TouchProfiles, Types, AppOK
  <2>2. request \in Request /\ request.touch <= touched'
    BY <1>2, <2>1 DEF Request, Kinds
  <2> QED
    BY <1>3, <2>1, <2>2
<1>10. UNCHANGED channel \/ TakeEvent \/ WriteRequest \/ TouchTarget \/ SendPending \/ TouchProfiles
  BY DEF Next, Daemon, Server, Reader, User, StartDaemon, EndDaemon, StateChanges, Accept, Announce,
     Serve, SendPart, Drop, Connect, CannotConnect, ReadLine, ReadTimesOut, ReadEnds,
     TouchLabel, Lock, Unlock, vars
<1> QED
  BY <1>4, <1>5, <1>6, <1>7, <1>8, <1>9, <1>10

LEMMA InboxTyped ==
    ASSUME Types, [Next]_vars
    PROVE  inbox' \in Seq(Request) /\ \A i \in DOMAIN inbox' : inbox'[i].touch <= touched'
<1>1. inbox \in Seq(Request) /\ (\A i \in DOMAIN inbox : inbox[i].touch <= touched)
      /\ \A i \in DOMAIN inbox : inbox[i].touch \in Nat
  <2>1. inbox \in Seq(Request) /\ \A i \in DOMAIN inbox : inbox[i] \in Request
    BY DEF Types, LinkOK
  <2> QED
    BY <2>1 DEF Types, TouchesHappened, Request
<1>2. touched \in Nat /\ touched' \in Nat /\ touched <= touched'
  BY Grows DEF Types, AppOK
<1>3. CASE UNCHANGED inbox
  BY <1>1, <1>2, <1>3
<1>4. CASE inbox' = << >>
  <2>1. << >> \in Seq(Request) /\ DOMAIN << >> = {}
    OBVIOUS
  <2> QED
    BY <1>4, <2>1
<1>5. CASE Connect
  <2>1. inbox' = <<Snapshot>>
    BY <1>5 DEF Connect, FirstRequests
  <2>2. inbox' \in Seq(Request) /\ \A i \in DOMAIN inbox' : inbox'[i] = Snapshot
    BY <2>1, SnapshotTyped
  <2> QED
    BY <1>2, <2>2, SnapshotTyped
<1>6. CASE Serve
  <2>1. inbox # << >> /\ inbox' = Tail(inbox)
    BY <1>6 DEF Serve
  <2>2. inbox' \in Seq(Request)
        /\ \A i \in DOMAIN inbox' : inbox'[i] = inbox[i + 1] /\ i + 1 \in DOMAIN inbox
    BY <1>1, <2>1, Tailed
  <2> QED
    BY <1>1, <1>2, <2>2
<1>7. CASE WriteRequest /\ linked
  <2>1. inbox' = Append(inbox, Head(channel)) /\ channel # << >> /\ channel \in Seq(Request)
    BY <1>7 DEF WriteRequest, Types, LinkOK
  <2>2. Head(channel) \in Request /\ Head(channel).touch <= touched
    BY <2>1, Tailed DEF Types, TouchesHappened
  <2>3. /\ inbox' \in Seq(Request) /\ DOMAIN inbox' = 1..(Len(inbox) + 1)
        /\ DOMAIN inbox = 1..Len(inbox) /\ Len(inbox) \in Nat
        /\ (\A i \in DOMAIN inbox : inbox'[i] = inbox[i])
        /\ inbox'[Len(inbox) + 1] = Head(channel)
    BY <1>1, <2>1, <2>2, Appended
  <2>4. \A i \in DOMAIN inbox' : i \in DOMAIN inbox \/ i = Len(inbox) + 1
    BY <2>3
  <2>5. Head(channel).touch \in Nat
    BY <2>2 DEF Request
  <2> QED
    BY <1>1, <1>2, <2>2, <2>3, <2>4, <2>5
<1>8. UNCHANGED inbox \/ inbox' = << >> \/ Connect \/ Serve \/ (WriteRequest /\ linked)
  BY DEF Next, Daemon, Server, Reader, User, StartDaemon, EndDaemon, StateChanges, Accept, Announce,
     SendPart, Drop, WriteRequest, CannotConnect, ReadLine, ReadTimesOut, ReadEnds, TakeEvent,
     Frame, TouchTarget, SendPending, TouchLabel, TouchProfiles, Lock, Unlock, vars
<1> QED
  BY <1>3, <1>4, <1>5, <1>6, <1>7, <1>8

LEMMA EventsTyped ==
    ASSUME Types, [Next]_vars
    PROVE  events' \in Seq(Event) /\ Len(events') <= MaxEvents /\ StatesOK'
<1>1. events \in Seq(Event) /\ Len(events) <= MaxEvents /\ StatesOK
  BY DEF Types, LinkOK
<1>2. daemon' \in daemon..MaxDaemons /\ daemon \in Nat
  BY Grows DEF Types, FeedOK, ServerOK
<1>3. \A k \in DOMAIN events : Carrying(events[k]) => events[k].state.daemon \in 1..daemon'
  <2>1. \A d \in 1..daemon : d \in 1..daemon'
    BY <1>2
  <2> QED
    BY <1>1, <2>1 DEF StatesOK
<1>4. ASSUME NEW e \in Event, Tell(e), Room, Carrying(e) => e.state.daemon \in 1..daemon'
      PROVE  events' \in Seq(Event) /\ Len(events') <= MaxEvents /\ StatesOK'
  <2>1. /\ events' \in Seq(Event) /\ Len(events') = Len(events) + 1 /\ Len(events) \in Nat
        /\ DOMAIN events' = 1..(Len(events) + 1) /\ DOMAIN events = 1..Len(events)
        /\ (\A i \in DOMAIN events : events'[i] = events[i]) /\ events'[Len(events) + 1] = e
    BY <1>1, <1>4, Appended DEF Tell
  <2>2. \A i \in DOMAIN events' : i \in DOMAIN events \/ i = Len(events) + 1
    BY <2>1
  <2>3. StatesOK'
    BY <1>3, <1>4, <2>1, <2>2 DEF StatesOK
  <2>4. Len(events') <= MaxEvents
    BY <1>4, <2>1, Bounds DEF Room
  <2> QED
    BY <2>1, <2>3, <2>4
<1>5. Connected \in Event /\ Disconnected \in Event /\ Malformed \in Event
      /\ ~Carrying(Connected) /\ ~Carrying(Disconnected) /\ ~Carrying(Malformed)
  BY DEF Event, Connected, Disconnected, Malformed, Carrying
<1>6. CASE UNCHANGED events
  BY <1>1, <1>3, <1>6 DEF StatesOK
<1>7. CASE Connect \/ CannotConnect
  BY <1>4, <1>5, <1>7 DEF Connect, CannotConnect
<1>8. CASE ReadLine
  <2>1. link \in connected /\ outbox[link] # << >> /\ Room
        /\ Tell(IF torn THEN Malformed ELSE Response(Head(outbox[link])))
    BY <1>8 DEF ReadLine, Feed!Deliver
  <2>2. linked /\ link \in Links /\ peer = daemon /\ daemon \in 1..MaxDaemons /\ daemon' \in Nat
    <3>1. linked /\ LinkOK /\ running /\ peer = daemon
      BY <2>1 DEF Types, FeedOK, ServerOK, LinkOK
    <3> QED
      BY <1>2, <3>1, LinkIsLink, Bounds DEF Types, FeedOK, ServerOK
  <2>3. Head(outbox[link]) \in Message
    BY <2>1, <2>2, Tailed DEF Types, FeedOK, ServerOK
  <2>4. Response(Head(outbox[link])) \in Event
        /\ Response(Head(outbox[link])).state.daemon = daemon
    BY <2>2, <2>3, Bounds DEF Response, Event, State, Message
  <2>5. daemon \in 1..daemon'
    BY <1>2, <2>2
  <2>6. CASE torn
    BY <1>4, <1>5, <2>1, <2>6
  <2>7. CASE ~torn
    BY <1>4, <2>1, <2>4, <2>5, <2>7
  <2> QED
    BY <2>6, <2>7
<1>9. CASE ReadEnds
  BY <1>4, <1>5, <1>6, <1>9 DEF ReadEnds
<1>10. CASE TakeEvent
  <2>1. events # << >> /\ events' = Tail(events)
    BY <1>10 DEF TakeEvent
  <2>2. events' \in Seq(Event) /\ Len(events') = Len(events) - 1 /\ Len(events) \in Nat
        /\ \A i \in DOMAIN events' : events'[i] = events[i + 1] /\ i + 1 \in DOMAIN events
    BY <1>1, <2>1, Tailed
  <2>3. StatesOK'
    BY <1>3, <2>2 DEF StatesOK
  <2>4. Len(events') <= MaxEvents
    BY <1>1, <2>2, Bounds
  <2> QED
    BY <2>2, <2>3, <2>4
<1>11. \/ UNCHANGED events
       \/ Connect \/ CannotConnect \/ ReadLine \/ ReadEnds \/ TakeEvent
  BY DEF Next, Daemon, Server, Reader, User, StartDaemon, EndDaemon, StateChanges, Accept, Announce,
     Serve, SendPart, Drop, WriteRequest, ReadTimesOut,
     Frame, TouchTarget, SendPending, TouchLabel, TouchProfiles, Lock, Unlock, vars
<1> QED
  BY <1>6, <1>7, <1>8, <1>9, <1>10, <1>11

(* The reader and its connection.                                          *)
LinkHolds ==
    /\ reader \in {"connect", "talk"}
    /\ link \in 0..MaxLinks /\ peer \in 0..daemon
    /\ linked => link # 0 /\ reader = "talk" /\ running /\ peer = daemon
    /\ torn /\ linked => link \in begun

LEMMA LinkTyped ==
    ASSUME Types, [Next]_vars
    PROVE  LinkHolds'
<1>1. LinkHolds /\ FeedOK /\ ServerOK /\ LinkOK
  BY DEF Types, LinkOK, LinkHolds, FeedOK
<1>2. daemon' \in daemon..MaxDaemons /\ daemon \in Nat
  BY <1>1, Grows DEF ServerOK
<1>3. CASE UNCHANGED <<reader, link, peer, daemon, running, linked, torn, begun>>
  BY <1>1, <1>3 DEF LinkHolds
<1>4. CASE StartDaemon
  BY <1>1, <1>2, <1>4 DEF StartDaemon, LinkHolds, linkVars, feedVars
<1>5. CASE EndDaemon
  BY <1>1, <1>5 DEF EndDaemon, LinkHolds
<1>6. CASE Accept
  BY <1>1, <1>6 DEF Accept, LinkHolds, daemonVars, linkVars, Feed!Join
<1>7. CASE SendPart
  BY <1>1, <1>7 DEF SendPart, LinkHolds, daemonVars, linkVars, Feed!Start
<1>8. CASE Drop
  BY <1>1, <1>8 DEF Drop, LinkHolds, daemonVars
<1>9. CASE Connect
  BY <1>1, <1>2, <1>9, Bounds DEF Connect, LinkHolds, daemonVars, feedVars
<1>10. CASE WriteRequest
  BY <1>1, <1>10 DEF WriteRequest, LinkHolds, daemonVars, linkVars, feedVars
<1>11. CASE ReadLine
  BY <1>1, <1>11 DEF ReadLine, LinkHolds, daemonVars, linkVars
<1>12. CASE ReadTimesOut
  BY <1>1, <1>12 DEF ReadTimesOut, LinkHolds, daemonVars, linkVars, feedVars
<1>13. CASE ReadEnds
  BY <1>1, <1>13 DEF ReadEnds, LinkHolds, daemonVars, feedVars
<1>14. CASE Serve
  BY <1>1, <1>14, Served DEF Serve, LinkHolds, linkVars
<1>15. CASE Announce
  BY <1>1, <1>15, Announced DEF Announce, LinkHolds, linkVars, daemonVars
<1>16. CASE StateChanges
  BY <1>1, <1>16 DEF StateChanges, LinkHolds, linkVars, daemonVars, Feed!StateChanges
<1>17. UNCHANGED <<reader, link, peer, daemon, running, linked, torn, begun>>
       \/ Daemon \/ Server \/ Connect \/ WriteRequest \/ ReadLine \/ ReadTimesOut \/ ReadEnds
  BY DEF Next, Reader, User, CannotConnect, TakeEvent,
     Frame, TouchTarget, SendPending, TouchLabel, TouchProfiles, Lock, Unlock, vars,
     daemonVars, feedVars, linkVars
<1> QED
  BY <1>3, <1>4, <1>5, <1>6, <1>7, <1>8, <1>9, <1>10, <1>11, <1>12, <1>13, <1>14, <1>15, <1>16, <1>17
     DEF Daemon, Server

(* The app.                                                                *)
LEMMA AppTyped ==
    ASSUME Types, [Next]_vars
    PROVE  AppOK'
<1>1. AppOK /\ LinkOK /\ FeedOK /\ ServerOK /\ StatesOK
  BY DEF Types, FeedOK
<1>2. daemon' \in daemon..MaxDaemons /\ daemon \in Nat
      /\ touched' \in touched..MaxTouches /\ touched' \in 0..MaxTouches /\ touched \in Nat
      /\ happened' \in 0..MaxHappened
  BY <1>1, Grows DEF ServerOK, AppOK
<1>3. dropped' \in [Targets -> SUBSET (1..touched')] /\ pending' \in [Targets -> 0..touched']
  <2> DEFINE Dropped(n) == [Targets -> SUBSET (1..n)]
  <2> SUFFICES dropped' \in Dropped(touched') /\ pending' \in [Targets -> 0..touched']
    OBVIOUS
  <2>6. dropped \in Dropped(touched')
    <3>1. \A n \in 1..touched : n \in 1..touched'
      BY <1>2
    <3>2. dropped \in [Targets -> SUBSET (1..touched)]
      BY <1>1 DEF AppOK
    <3> QED
      BY <3>1, <3>2
  <2>1. CASE UNCHANGED <<dropped, pending>>
    BY <1>1, <1>2, <2>1, <2>6 DEF AppOK
  <2>2. CASE TouchTarget
    <3>1. dropped' \in Dropped(touched')
      BY <2>2, <2>6 DEF TouchTarget, lockVars
    <3>2. PICK t \in Targets, due \in SUBSET Targets :
            LET waiting == [pending EXCEPT ![t] = touched']
            IN  waiting \in [Targets -> 0..touched'] /\ Flushed(waiting, due)
      BY <2>2, TouchFlushes
    <3>3. pending' \in [Targets -> 0..touched']
      BY <1>2, <3>2 DEF Flushed
    <3> QED
      BY <3>1, <3>3
  <2>3. CASE SendPending
    <3>1. PICK due \in SUBSET Targets :
            pending \in [Targets -> 0..touched] /\ Flushed(pending, due)
      BY <2>3, PendingFlushes
    <3>2. UNCHANGED <<dropped, touched>>
      BY <2>3 DEF SendPending, lockVars
    <3>3. pending' \in [Targets -> 0..touched']
      BY <1>2, <3>1, <3>2 DEF Flushed
    <3> QED
      BY <2>6, <3>2, <3>3
  <2>4. CASE Lock
    <3>1. /\ touched' = touched /\ pending' = ClearedByLock
          /\ dropped' = [t \in Targets |-> dropped[t] \cup ({pending[t]} \ {0})]
      BY <2>4 DEF Lock
    <3>2. \A t \in Targets : {pending[t]} \ {0} \in SUBSET (1..touched')
      BY <1>1, <1>2, <3>1 DEF AppOK
    <3>3. \A t \in Targets : dropped[t] \cup ({pending[t]} \ {0}) \in SUBSET (1..touched')
      BY <2>6, <3>2
    <3>4. dropped' \in Dropped(touched')
      BY <3>1, <3>3
    <3>5. pending' \in [Targets -> 0..touched']
      BY <1>2, <3>1 DEF ClearedByLock
    <3> QED
      BY <3>4, <3>5
  <2>5. UNCHANGED <<dropped, pending>> \/ TouchTarget \/ SendPending \/ Lock
    BY DEF Next, Daemon, Server, Reader, User, StartDaemon, EndDaemon, StateChanges, Accept, Announce,
       Serve, SendPart, Drop, Connect, CannotConnect, WriteRequest, ReadLine, ReadTimesOut, ReadEnds,
       TakeEvent, TouchLabel, TouchProfiles, Unlock, vars, lockVars
  <2> QED
    BY <2>1, <2>2, <2>3, <2>4, <2>5
<1>4. /\ connection' \in {"connecting", "connected", "offline", "protocol_error"}
      /\ shown' \in {Nothing} \cup [daemon : 1..daemon', revision : 1..MaxRevision]
      /\ focus' \in 0..daemon'
  <2>1. ASSUME UNCHANGED shown
        PROVE  shown' \in {Nothing} \cup [daemon : 1..daemon', revision : 1..MaxRevision]
    <3>1. \A d \in 1..daemon : d \in 1..daemon'
      BY <1>2
    <3> QED
      BY <1>1, <2>1, <3>1 DEF AppOK
  <2>2. ASSUME UNCHANGED focus PROVE focus' \in 0..daemon'
    BY <1>1, <1>2, <2>2 DEF AppOK
  <2>3. CASE UNCHANGED <<connection, shown, focus>>
    BY <1>1, <2>1, <2>2, <2>3 DEF AppOK
  <2>4. CASE TakeEvent
    <3> DEFINE event == Head(events)
    <3>1. event \in Event /\ Taken(event) /\ events # << >>
      BY <1>1, <2>4, EventTaken
    <3>2. Carrying(event) => event.state \in [daemon : 1..daemon', revision : 1..MaxRevision]
      <4>1. event = events[1] /\ 1 \in DOMAIN events
        BY <1>1, <3>1, Tailed DEF LinkOK
      <4> HIDE DEF event
      <4>2. ASSUME Carrying(event) PROVE event.state \in State /\ event.state.revision # 0
                                         /\ event.state.daemon \in 1..daemon
        BY <1>1, <3>1, <4>1, <4>2, EventKinds DEF Carrying, StatesOK
      <4>3. \A d \in 1..daemon : d \in 1..daemon'
        BY <1>2
      <4> QED
        BY <4>2, <4>3, Bounds DEF State
    <3> HIDE DEF event
    <3>3. /\ connection' \in {"connecting", "connected", "offline", "protocol_error"}
          /\ UNCHANGED focus \/ focus' = 0
          /\ UNCHANGED shown \/ shown' = Nothing \/ (Carrying(event) /\ shown' = event.state)
      BY <1>1, <3>1 DEF Taken, AppOK
    <3> QED
      BY <1>2, <2>1, <2>2, <3>2, <3>3
  <2>5. CASE TouchLabel
    <3>1. UNCHANGED <<connection, shown>> /\ shown # Nothing /\ focus' \in {0, shown.daemon}
      BY <2>5 DEF TouchLabel, Frame, Drawn
    <3> QED
      BY <1>1, <1>2, <2>1, <3>1 DEF AppOK
  <2>6. CASE Lock
    BY <1>1, <1>2, <2>1, <2>6 DEF Lock, Frame, AppOK
  <2>7. UNCHANGED <<connection, shown, focus>> \/ TakeEvent \/ TouchLabel \/ Lock
    BY DEF Next, Daemon, Server, Reader, User, StartDaemon, EndDaemon, StateChanges, Accept, Announce,
       Serve, SendPart, Drop, Connect, CannotConnect, WriteRequest, ReadLine, ReadTimesOut, ReadEnds,
       Frame, TouchTarget, SendPending, TouchProfiles, Unlock, vars, viewVars
  <2> QED
    BY <2>3, <2>4, <2>5, <2>6, <2>7
<1> QED
  BY <1>2, <1>3, <1>4 DEF AppOK

(* What is true or false stays so. *)
LEMMA EitherWay == \A x, y, z : (x /\ y) \in BOOLEAN /\ (x \/ (y /\ z)) \in BOOLEAN
  OBVIOUS

LEMMA OvertakesEitherWay == Overtakes \in BOOLEAN
  BY DEF Overtakes

LEMMA FlagsTyped ==
    ASSUME Flags, [Next]_vars
    PROVE  Flags'
<1>1. running \in BOOLEAN /\ linked \in BOOLEAN /\ fragment \in BOOLEAN /\ torn \in BOOLEAN
      /\ locked \in BOOLEAN /\ overtaken \in BOOLEAN /\ forgot \in BOOLEAN
  BY Zenon DEF Flags
<1>2. TRUE \in BOOLEAN /\ FALSE \in BOOLEAN
  OBVIOUS
<1>3. running' \in BOOLEAN
  <2>1. UNCHANGED running \/ running' = TRUE \/ running' = FALSE
    BY DEF Next, Daemon, Server, Reader, User, StartDaemon, EndDaemon, StateChanges, Accept, Announce,
       Serve, SendPart, Drop, Connect, CannotConnect, WriteRequest, ReadLine, ReadTimesOut, ReadEnds,
       TakeEvent, Frame, TouchTarget, SendPending, TouchLabel, TouchProfiles, Lock, Unlock,
       vars, daemonVars
  <2> QED
    BY <1>1, <1>2, <2>1, Zenon
<1>4. linked' \in BOOLEAN
  <2>1. UNCHANGED linked \/ linked' = TRUE \/ linked' = FALSE
    BY DEF Next, Daemon, Server, Reader, User, StartDaemon, EndDaemon, StateChanges, Accept, Announce,
       Serve, SendPart, Drop, Connect, CannotConnect, WriteRequest, ReadLine, ReadTimesOut, ReadEnds,
       TakeEvent, Frame, TouchTarget, SendPending, TouchLabel, TouchProfiles, Lock, Unlock,
       vars, linkVars
  <2> QED
    BY <1>1, <1>2, <2>1, Zenon
<1>5. torn' \in BOOLEAN
  <2>1. UNCHANGED torn \/ torn' = TRUE \/ torn' = FALSE
    BY DEF Next, Daemon, Server, Reader, User, StartDaemon, EndDaemon, StateChanges, Accept, Announce,
       Serve, SendPart, Drop, Connect, CannotConnect, WriteRequest, ReadLine, ReadTimesOut, ReadEnds,
       TakeEvent, Frame, TouchTarget, SendPending, TouchLabel, TouchProfiles, Lock, Unlock, vars
  <2> QED
    BY <1>1, <1>2, <2>1, Zenon
<1>6. locked' \in BOOLEAN
  <2>1. UNCHANGED locked \/ locked' = TRUE \/ locked' = FALSE
    BY DEF Next, Daemon, Server, Reader, User, StartDaemon, EndDaemon, StateChanges, Accept, Announce,
       Serve, SendPart, Drop, Connect, CannotConnect, WriteRequest, ReadLine, ReadTimesOut, ReadEnds,
       TakeEvent, Frame, TouchTarget, SendPending, TouchLabel, TouchProfiles, Lock, Unlock,
       vars, lockVars
  <2> QED
    BY <1>1, <1>2, <2>1, Zenon
<1>7. fragment' \in BOOLEAN
  <2>1. CASE EndDaemon
    <3>1. fragment' = (fragment \/ (link \in begun /\ ~torn))
      BY <2>1, Zenon DEF EndDaemon
    <3> QED
      BY <3>1, EitherWay, Zenon
  <2>2. CASE ~EndDaemon
    <3>1. UNCHANGED fragment \/ fragment' = FALSE
      BY <2>2 DEF Next, Daemon, Server, Reader, User, StartDaemon, StateChanges, Accept, Announce,
         Serve, SendPart, Drop, Connect, CannotConnect, WriteRequest, ReadLine, ReadTimesOut, ReadEnds,
         TakeEvent, Frame, TouchTarget, SendPending, TouchLabel, TouchProfiles, Lock, Unlock,
         vars, linkVars
    <3> QED
      BY <1>1, <1>2, <3>1, Zenon
  <2> QED
    BY <2>1, <2>2, Zenon
<1>8. overtaken' \in BOOLEAN
  <2>1. CASE Announce
    <3>1. overtaken' = IF outbox' = outbox THEN overtaken ELSE Overtakes
      BY <2>1, Zenon DEF Announce
    <3> QED
      BY <1>1, <3>1, OvertakesEitherWay, Zenon
  <2>2. CASE Serve
    <3>1. overtaken' = (overtaken /\ (outbox' = outbox \/ Last(outbox'[link]).revision = 0))
      BY <2>2, Zenon DEF Serve
    <3> QED
      BY <3>1, EitherWay, Zenon
  <2>3. CASE ~(Announce \/ Serve)
    <3>1. UNCHANGED overtaken \/ overtaken' = FALSE
      BY <2>3 DEF Next, Daemon, Server, Reader, User, StartDaemon, EndDaemon, StateChanges, Accept,
         SendPart, Drop, Connect, CannotConnect, WriteRequest, ReadLine, ReadTimesOut, ReadEnds,
         TakeEvent, Frame, TouchTarget, SendPending, TouchLabel, TouchProfiles, Lock, Unlock, vars
    <3> QED
      BY <1>1, <1>2, <3>1, Zenon
  <2> QED
    BY <2>1, <2>2, <2>3, Zenon
<1>9. forgot' \in BOOLEAN
  <2>1. CASE TakeEvent
    <3>1. forgot' = (focus' # 0 /\ (forgot \/ Head(events) = Malformed))
      BY <2>1, Zenon DEF TakeEvent
    <3> QED
      BY <3>1, EitherWay, Zenon
  <2>2. CASE ~TakeEvent
    <3>1. UNCHANGED forgot \/ forgot' = FALSE
      BY <2>2 DEF Next, Daemon, Server, Reader, User, StartDaemon, EndDaemon, StateChanges, Accept,
         Announce, Serve,
         SendPart, Drop, Connect, CannotConnect, WriteRequest, ReadLine, ReadTimesOut, ReadEnds,
         Frame, TouchTarget, SendPending, TouchLabel, TouchProfiles, Lock, Unlock, vars, viewVars
    <3> QED
      BY <1>1, <1>2, <3>1, Zenon
  <2> QED
    BY <2>1, <2>2, Zenon
<1> QED
  BY <1>3, <1>4, <1>5, <1>6, <1>7, <1>8, <1>9, Zenon DEF Flags

LEMMA InitTypes == Init => Types
<1> SUFFICES ASSUME Init PROVE Types
  OBVIOUS
<1>1. << >> \in Seq(Message) /\ << >> \in Seq(Request) /\ << >> \in Seq(Event)
      /\ DOMAIN << >> = {} /\ Len(<< >>) = 0
  OBVIOUS
<1>2. FeedOK
  BY <1>1, Bounds DEF Init, Feed!FeedInit, FeedOK, ServerOK
<1>3. LinkOK
  BY <1>1, Bounds DEF Init, LinkOK
<1>4. AppOK
  BY Bounds DEF Init, AppOK
<1>5. Flags
  <2>1. running = FALSE /\ linked = FALSE /\ fragment = FALSE /\ torn = FALSE /\ locked = FALSE
        /\ overtaken = FALSE /\ forgot = FALSE
    BY Zenon DEF Init
  <2>2. FALSE \in BOOLEAN
    OBVIOUS
  <2> QED
    BY <2>1, <2>2, Zenon DEF Flags
<1>6. StatesOK /\ TouchesHappened
  BY <1>1 DEF Init, StatesOK, TouchesHappened
<1> QED
  BY <1>2, <1>3, <1>4, <1>5, <1>6 DEF Types

LEMMA StepTypes == Types /\ [Next]_vars => Types'
<1> SUFFICES ASSUME Types, [Next]_vars PROVE Types'
  OBVIOUS
<1>1. FeedOK' /\ LinkHolds' /\ AppOK'
  BY FeedTyped, LinkTyped, AppTyped
<1>2. Flags'
  BY FlagsTyped, Zenon DEF Types
<1>3. /\ inbox' \in Seq(Request) /\ channel' \in Seq(Request)
      /\ events' \in Seq(Event) /\ Len(events') <= MaxEvents /\ StatesOK'
  BY InboxTyped, ChannelTyped, EventsTyped
<1>4. TouchesHappened'
  BY InboxTyped, ChannelTyped DEF TouchesHappened
<1>5. LinkOK'
  BY <1>1, <1>3 DEF LinkOK, LinkHolds
<1> QED
  BY <1>1, <1>2, <1>3, <1>4, <1>5, Zenon DEF Types

LEMMA AlwaysTypes == Spec => []Types
  BY InitTypes, StepTypes, PTL DEF Spec

LEMMA TypesMeanTypes == Types => TypeOK
<1> SUFFICES ASSUME Types PROVE TypeOK
  OBVIOUS
<1>1. FeedOK /\ ServerOK /\ LinkOK /\ AppOK
  BY DEF Types, FeedOK
<1>2. {running, linked, fragment, torn, locked, overtaken, forgot} \subseteq BOOLEAN
  BY Zenon DEF Types, Flags
<1>3. \A c \in Links : outbox[c] \in Seq([event : BOOLEAN, revision : 0..MaxRevision, tag : Kinds])
  BY <1>1 DEF ServerOK, Message
<1>4. /\ daemon \in 0..MaxDaemons /\ peer \in 0..daemon
      /\ revision \in 1..MaxRevision /\ announced \in 0..MaxRevision
      /\ link \in 0..MaxLinks
      /\ connected \subseteq (IF linked THEN {link} ELSE {})
      /\ linked => running /\ peer = daemon
      /\ begun \subseteq connected /\ closing \subseteq connected /\ refused = {}
      /\ reader \in {"connect", "talk"}
      /\ inbox \in Seq(Request) /\ channel \in Seq(Request)
      /\ events \in Seq(Event) /\ Len(events) <= MaxEvents
  BY <1>1, Bounds DEF ServerOK, LinkOK
<1>5. /\ connection \in {"connecting", "connected", "offline", "protocol_error"}
      /\ shown \in {Nothing} \cup [daemon : 1..daemon, revision : 1..MaxRevision]
      /\ focus \in 0..daemon
      /\ pending \in [Targets -> 0..touched] /\ obeyed \in [Targets -> 0..touched]
      /\ touched \in 0..MaxTouches /\ dropped \in [Targets -> SUBSET (1..touched)]
      /\ happened \in 0..MaxHappened
  BY <1>1 DEF FeedOK, AppOK
<1> QED
  BY <1>2, <1>3, <1>4, <1>5, Zenon DEF TypeOK

(* Every variable of the touchscreen, its reader and the daemon holds a    *)
(* value of its kind, whatever ends, is lost or starts again.              *)
THEOREM TypeCorrect == Spec => []TypeOK
  BY AlwaysTypes, TypesMeanTypes, PTL

-----------------------------------------------------------------------------
(* The focus. *)

LEMMA StepFocus == Types /\ FocusIsShown /\ [Next]_vars => FocusIsShown'
<1> SUFFICES ASSUME Types, FocusIsShown, [Next]_vars PROVE FocusIsShown'
  OBVIOUS
<1>1. CASE UNCHANGED <<shown, focus, forgot>>
  BY <1>1 DEF FocusIsShown
<1>2. CASE TakeEvent
  <2> DEFINE event == Head(events)
  <2>1. Taken(event) /\ event \in Event
    BY <1>2, EventTaken DEF Types
  <2>2. forgot' = (focus' # 0 /\ (forgot \/ event = Malformed))
    BY <1>2, Zenon DEF TakeEvent
  <2> HIDE DEF event
  <2> SUFFICES ASSUME focus' # 0, ~forgot' PROVE shown' # Nothing /\ focus' = shown'.daemon
    BY DEF FocusIsShown
  <2>3. ~forgot /\ event # Malformed
    BY <2>2, Zenon
  <2>4. focus' = focus
    BY <2>1, <2>3 DEF Taken
  <2>5. shown # Nothing /\ focus = shown.daemon
    BY <2>3, <2>4 DEF FocusIsShown
  <2>6. CASE UNCHANGED shown
    BY <2>4, <2>5, <2>6
  <2>7. CASE Carrying(event) /\ shown' = event.state /\ shown.daemon = event.state.daemon
    BY <2>4, <2>5, <2>7 DEF Carrying, Nothing
  <2> QED
    BY <2>1, <2>3, <2>5, <2>6, <2>7 DEF Taken
<1>3. CASE TouchLabel \/ Lock
  BY <1>3 DEF TouchLabel, Lock, Frame, Drawn, FocusIsShown
<1>4. UNCHANGED <<shown, focus, forgot>> \/ TakeEvent \/ TouchLabel \/ Lock
  BY DEF Next, Daemon, Server, Reader, User, StartDaemon, EndDaemon, StateChanges, Accept, Announce,
     Serve, SendPart, Drop, Connect, CannotConnect, WriteRequest, ReadLine, ReadTimesOut, ReadEnds,
     Frame, TouchTarget, SendPending, TouchProfiles, Unlock, vars, viewVars
<1> QED
  BY <1>1, <1>2, <1>3, <1>4

(* The focused level is on the dashboard shown, as the app asserts when it *)
(* draws its panel, unless a malformed line has taken the state away.      *)
THEOREM FocusStaysOnDashboard == Spec => []FocusIsOnDashboard
<1>1. Init => FocusIsShown
  BY DEF Init, FocusIsShown
<1>2. FocusIsShown => FocusIsOnDashboard
  BY DEF FocusIsShown, FocusIsOnDashboard
<1> QED
  BY <1>1, <1>2, AlwaysTypes, StepFocus, PTL DEF Spec

-----------------------------------------------------------------------------
(* The order of touches. *)

Commands(sent, t) == { i \in DOMAIN sent : sent[i].kind = t }

(* TouchesInOrder, of what is under way, was obeyed and waits. *)
Ordered(sent, done, waiting) ==
    \A t \in Targets :
      /\ \A i \in Commands(sent, t) : sent[i].touch > done[t]
      /\ \A i, j \in Commands(sent, t) : i < j => sent[i].touch < sent[j].touch
      /\ waiting[t] # 0 =>
           done[t] < waiting[t] /\ \A i \in Commands(sent, t) : sent[i].touch < waiting[t]

LEMMA OrderedIsInOrder == TouchesInOrder <=> Ordered(inbox \o channel, obeyed, pending)
  BY DEF TouchesInOrder, Ordered, Commands

(* What is left of a sequence in order, with other requests between it.    *)
LEMMA OrderedPart ==
    ASSUME NEW sent, NEW rest, NEW done, NEW waiting, Ordered(sent, done, waiting),
           NEW place,
           \A t \in Targets : \A i \in Commands(rest, t) :
             place[i] \in DOMAIN sent /\ sent[place[i]] = rest[i],
           \A t \in Targets : \A i, j \in Commands(rest, t) : i < j => place[i] < place[j]
    PROVE  Ordered(rest, done, waiting)
<1> SUFFICES ASSUME NEW t \in Targets
             PROVE  /\ \A i \in Commands(rest, t) : rest[i].touch > done[t]
                    /\ \A i, j \in Commands(rest, t) : i < j => rest[i].touch < rest[j].touch
                    /\ waiting[t] # 0 =>
                         /\ done[t] < waiting[t]
                         /\ \A i \in Commands(rest, t) : rest[i].touch < waiting[t]
  BY DEF Ordered
<1>1. \A i \in Commands(rest, t) : place[i] \in Commands(sent, t) /\ sent[place[i]] = rest[i]
  BY DEF Commands
<1>2. \A i, j \in Commands(rest, t) : i < j => place[i] < place[j]
  OBVIOUS
<1>3. /\ \A i \in Commands(sent, t) : sent[i].touch > done[t]
      /\ \A i, j \in Commands(sent, t) : i < j => sent[i].touch < sent[j].touch
      /\ waiting[t] # 0 =>
           done[t] < waiting[t] /\ \A i \in Commands(sent, t) : sent[i].touch < waiting[t]
  BY DEF Ordered
<1>4. \A i, j \in Commands(rest, t) : i < j => rest[i].touch < rest[j].touch
  BY <1>1, <1>2, <1>3, Zenon
<1> QED
  BY <1>1, <1>3, <1>4

(* A flush puts what waited behind everything. *)
LEMMA OrderedFlush ==
    ASSUME NEW sent \in Seq(Request), NEW more \in Seq(Request), NEW done, NEW waiting,
           NEW due \in SUBSET Targets, Ordered(sent, done, waiting),
           \A u \in due : waiting[u] # 0,
           \A i \in DOMAIN more : more[i].kind \in due /\ more[i].touch = waiting[more[i].kind],
           \A i, j \in DOMAIN more : more[i].kind = more[j].kind => i = j
    PROVE  Ordered(sent \o more, done, Remaining(waiting, due))
<1> DEFINE all == sent \o more
           left == [u \in Targets |-> IF u \in due THEN 0 ELSE waiting[u]]
<1>1. /\ DOMAIN all = 1..(Len(sent) + Len(more))
      /\ DOMAIN sent = 1..Len(sent) /\ Len(sent) \in Nat
      /\ DOMAIN more = 1..Len(more) /\ Len(more) \in Nat
      /\ \A i \in DOMAIN sent : all[i] = sent[i]
      /\ \A i \in DOMAIN more : all[Len(sent) + i] = more[i]
  BY Joined
<1> HIDE DEF all
<1>2. ASSUME NEW t \in Targets
      PROVE  /\ \A i \in Commands(all, t) : all[i].touch > done[t]
             /\ \A i, j \in Commands(all, t) : i < j => all[i].touch < all[j].touch
             /\ left[t] # 0 => /\ done[t] < left[t]
                               /\ \A i \in Commands(all, t) : all[i].touch < left[t]
  <2>1. ASSUME NEW i \in Commands(all, t)
        PROVE  \/ i \in Commands(sent, t) /\ all[i] = sent[i]
               \/ /\ i \notin DOMAIN sent /\ i - Len(sent) \in DOMAIN more
                  /\ more[i - Len(sent)].kind = t
                  /\ t \in due /\ waiting[t] # 0 /\ all[i].touch = waiting[t]
    <3>1. CASE i \in DOMAIN sent
      BY <1>1, <3>1 DEF Commands
    <3>2. CASE i \notin DOMAIN sent
      <4>1. i \in DOMAIN all /\ all[i].kind = t
        BY DEF Commands
      <4>2. i - Len(sent) \in DOMAIN more /\ Len(sent) + (i - Len(sent)) = i
        BY <1>1, <3>2, <4>1
      <4>3. all[i] = more[i - Len(sent)]
        BY <1>1, <4>2
      <4> QED
        BY <3>2, <4>1, <4>2, <4>3
    <3> QED
      BY <3>1, <3>2
  <2>2. /\ \A i \in Commands(sent, t) : sent[i].touch > done[t]
        /\ \A i, j \in Commands(sent, t) : i < j => sent[i].touch < sent[j].touch
        /\ waiting[t] # 0 =>
             done[t] < waiting[t] /\ \A i \in Commands(sent, t) : sent[i].touch < waiting[t]
    BY DEF Ordered
  <2>3. \A i \in Commands(all, t) : all[i].touch > done[t]
    BY <2>1, <2>2
  <2>4. ASSUME NEW i \in Commands(all, t), NEW j \in Commands(all, t), i < j
        PROVE  all[i].touch < all[j].touch
    <3>1. i \in Nat /\ j \in Nat
      BY <1>1 DEF Commands
    <3>2. CASE i \in Commands(sent, t) /\ j \in Commands(sent, t)
      BY <1>1, <2>2, <2>4, <3>2 DEF Commands
    <3>3. CASE i \in Commands(sent, t) /\ j \notin Commands(sent, t)
      <4>1. waiting[t] # 0 /\ all[j].touch = waiting[t] /\ all[i] = sent[i]
        BY <1>1, <2>1, <3>3 DEF Commands
      <4> QED
        BY <2>2, <3>3, <4>1
    <3>4. CASE i \notin Commands(sent, t) /\ j \in Commands(sent, t)
      <4>1. i \notin DOMAIN sent /\ j \in DOMAIN sent
        BY <2>1, <3>4 DEF Commands
      <4>2. FALSE
        BY <1>1, <2>4, <3>1, <4>1 DEF Commands
      <4> QED
        BY <4>2
    <3>5. CASE i \notin Commands(sent, t) /\ j \notin Commands(sent, t)
      <4>1. /\ i - Len(sent) \in DOMAIN more /\ more[i - Len(sent)].kind = t
            /\ j - Len(sent) \in DOMAIN more /\ more[j - Len(sent)].kind = t
        BY <2>1, <3>5
      <4>2. i - Len(sent) = j - Len(sent)
        BY <4>1
      <4>3. FALSE
        BY <1>1, <2>4, <3>1, <4>2
      <4> QED
        BY <4>3
    <3> QED
      BY <3>2, <3>3, <3>4, <3>5
  <2>5. ASSUME left[t] # 0
        PROVE  done[t] < left[t] /\ \A i \in Commands(all, t) : all[i].touch < left[t]
    <3>1. t \notin due /\ left[t] = waiting[t]
      BY <2>5
    <3>2. \A i \in Commands(all, t) : i \in Commands(sent, t) /\ all[i] = sent[i]
      BY <2>1, <3>1
    <3> QED
      BY <2>2, <2>5, <3>1, <3>2
  <2> QED
    BY <2>3, <2>4, <2>5
<1> HIDE DEF left
<1>3. Ordered(all, done, left)
  BY <1>2 DEF Ordered
<1> QED
  BY <1>3 DEF all, left, Remaining

LEMMA StepOrdered == Types /\ TouchesInOrder /\ [Next]_vars => TouchesInOrder'
<1> SUFFICES ASSUME Types, TouchesInOrder, [Next]_vars PROVE TouchesInOrder'
  OBVIOUS
<1> DEFINE sent == inbox \o channel
<1>1. inbox \in Seq(Request) /\ channel \in Seq(Request)
      /\ inbox' \in Seq(Request) /\ channel' \in Seq(Request)
  BY StepTypes DEF Types, LinkOK
<1>2. Ordered(sent, obeyed, pending)
  BY OrderedIsInOrder
<1>3. /\ sent \in Seq(Request) /\ DOMAIN sent = 1..(Len(inbox) + Len(channel))
      /\ DOMAIN inbox = 1..Len(inbox) /\ Len(inbox) \in Nat
      /\ DOMAIN channel = 1..Len(channel) /\ Len(channel) \in Nat
      /\ \A i \in DOMAIN inbox : sent[i] = inbox[i]
      /\ \A i \in DOMAIN channel : sent[Len(inbox) + i] = channel[i]
  BY <1>1, Joined
<1>4. /\ DOMAIN sent' = 1..(Len(inbox') + Len(channel'))
      /\ DOMAIN inbox' = 1..Len(inbox') /\ Len(inbox') \in Nat
      /\ DOMAIN channel' = 1..Len(channel') /\ Len(channel') \in Nat
      /\ \A i \in DOMAIN inbox' : sent'[i] = inbox'[i]
      /\ \A i \in DOMAIN channel' : sent'[Len(inbox') + i] = channel'[i]
  BY <1>1, Joined
<1>5. ASSUME NEW i \in DOMAIN sent', i \notin DOMAIN inbox'
      PROVE  i - Len(inbox') \in DOMAIN channel' /\ sent'[i] = channel'[i - Len(inbox')]
  <2>1. i - Len(inbox') \in DOMAIN channel' /\ Len(inbox') + (i - Len(inbox')) = i
    BY <1>4, <1>5
  <2> QED
    BY <1>4, <2>1
<1> HIDE DEF sent
<1> SUFFICES Ordered(sent', obeyed', pending')
  <2>1. TouchesInOrder' <=> Ordered(inbox' \o channel', obeyed', pending')
    BY DEF TouchesInOrder, Ordered, Commands
  <2> QED
    BY <2>1 DEF sent
<1>6. \A i \in DOMAIN sent : sent[i].touch \in 0..touched
  <2>0. (\A i \in DOMAIN inbox : inbox[i] \in Request)
        /\ \A i \in DOMAIN channel : channel[i] \in Request
    BY <1>1
  <2>1. \A i \in DOMAIN inbox : inbox[i].touch <= touched /\ inbox[i].touch \in Nat
    BY <2>0 DEF Types, TouchesHappened, Request
  <2>2. \A i \in DOMAIN channel : channel[i].touch <= touched /\ channel[i].touch \in Nat
    BY <2>0 DEF Types, TouchesHappened, Request
  <2>3. ASSUME NEW i \in DOMAIN sent PROVE sent[i].touch \in 0..touched
    <3>1. CASE i \in DOMAIN inbox
      BY <1>3, <2>1, <3>1 DEF Types, AppOK
    <3>2. CASE i \notin DOMAIN inbox
      <4>1. i - Len(inbox) \in DOMAIN channel /\ Len(inbox) + (i - Len(inbox)) = i
        BY <1>3, <3>2
      <4>2. sent[i] = channel[i - Len(inbox)]
        BY <1>3, <4>1
      <4> QED
        BY <2>2, <4>1, <4>2 DEF Types, AppOK
    <3> QED
      BY <3>1, <3>2
  <2> QED
    BY <2>3
<1>7. CASE UNCHANGED <<inbox, channel, obeyed, pending>>
  BY <1>2, <1>7 DEF sent
<1>8. CASE inbox' = << >> /\ UNCHANGED <<channel, obeyed, pending>>
  <2> DEFINE place == [i \in DOMAIN sent' |-> i + Len(inbox)]
  <2>1. Len(inbox') = 0
    BY <1>8
  <2>2. \A i \in DOMAIN sent' : i \in DOMAIN channel /\ sent'[i] = channel[i] /\ i \in Nat
                                /\ place[i] = Len(inbox) + i
    BY <1>3, <1>4, <1>8, <2>1
  <2> HIDE DEF place
  <2>3. \A i \in DOMAIN sent' : place[i] \in DOMAIN sent /\ sent[place[i]] = sent'[i]
    BY <1>3, <2>2
  <2>4. \A i, j \in DOMAIN sent' : i < j => place[i] < place[j]
    BY <1>3, <2>2
  <2>5. Ordered(sent', obeyed, pending)
    BY <1>2, <2>3, <2>4, OrderedPart DEF Commands
  <2> QED
    BY <1>8, <2>5
<1>9. CASE Connect
  <2> DEFINE place == [i \in DOMAIN sent' |-> i + Len(inbox) - 1]
  <2>1. inbox' = <<Snapshot>> /\ UNCHANGED <<channel, obeyed, pending>>
    BY <1>9 DEF Connect, FirstRequests, daemonVars
  <2>2. Len(inbox') = 1 /\ inbox'[1] = Snapshot
    BY <2>1
  <2>3. ASSUME NEW t \in Targets, NEW i \in Commands(sent', t)
        PROVE  i \in Nat /\ place[i] = i + Len(inbox) - 1
               /\ place[i] \in DOMAIN sent /\ sent[place[i]] = sent'[i]
    <3>1. i \in DOMAIN sent' /\ sent'[i].kind = t /\ t # "snapshot"
      BY DEF Commands, Targets
    <3>2. i # 1
      BY <1>4, <2>2, <3>1, SnapshotTyped
    <3>3. i \notin DOMAIN inbox' /\ i \in Nat
      BY <1>4, <2>2, <3>1, <3>2
    <3>4. i - 1 \in DOMAIN channel /\ sent'[i] = channel[i - 1]
      BY <1>5, <2>1, <2>2, <3>1, <3>3
    <3>5. Len(inbox) + (i - 1) = i + Len(inbox) - 1 /\ place[i] = i + Len(inbox) - 1
      BY <1>3, <3>1, <3>3
    <3>6. Len(inbox) + (i - 1) \in DOMAIN sent
      BY <1>3, <3>3, <3>4
    <3> QED
      BY <1>3, <3>3, <3>4, <3>5, <3>6
  <2> HIDE DEF place
  <2>4. \A t \in Targets : \A i, j \in Commands(sent', t) : i < j => place[i] < place[j]
    BY <1>3, <2>3
  <2>5. Ordered(sent', obeyed, pending)
    BY <1>2, <2>3, <2>4, OrderedPart
  <2> QED
    BY <2>1, <2>5
<1>10. CASE WriteRequest
  <2>1. channel # << >> /\ channel' = Tail(channel) /\ UNCHANGED <<obeyed, pending>>
    BY <1>10 DEF WriteRequest, daemonVars
  <2>2. /\ Len(channel') = Len(channel) - 1
        /\ \A i \in DOMAIN channel' : channel'[i] = channel[i + 1] /\ i + 1 \in DOMAIN channel
        /\ Head(channel) = channel[1] /\ 1 \in DOMAIN channel /\ Head(channel) \in Request
    BY <1>1, <2>1, Tailed
  <2>3. CASE linked
    <3>1. inbox' = Append(inbox, Head(channel))
      BY <1>10, <2>3 DEF WriteRequest
    <3>2. Len(inbox') = Len(inbox) + 1 /\ (\A i \in DOMAIN inbox : inbox'[i] = inbox[i])
          /\ inbox'[Len(inbox) + 1] = channel[1]
      BY <1>1, <2>2, <3>1, Appended
    <3>3. ASSUME NEW i \in DOMAIN sent' PROVE i \in DOMAIN sent /\ sent[i] = sent'[i]
      <4>0. i \in DOMAIN sent
        BY <1>3, <1>4, <2>2, <3>2
      <4>1. CASE i \in DOMAIN inbox
        BY <1>3, <1>4, <3>2, <4>0, <4>1
      <4>2. CASE i = Len(inbox) + 1
        BY <1>3, <1>4, <2>2, <3>2, <4>0, <4>2
      <4>3. CASE i \notin DOMAIN inbox /\ i # Len(inbox) + 1
        <5>1. i \notin DOMAIN inbox'
          BY <1>3, <1>4, <3>2, <4>3
        <5>2. i - Len(inbox') \in DOMAIN channel' /\ sent'[i] = channel'[i - Len(inbox')]
          BY <1>5, <5>1
        <5>3. sent'[i] = channel[(i - Len(inbox')) + 1] /\ (i - Len(inbox')) + 1 \in DOMAIN channel
          BY <2>2, <5>2
        <5>4. Len(inbox) + ((i - Len(inbox')) + 1) = i
          BY <1>3, <3>2, <4>0
        <5> QED
          BY <1>3, <4>0, <5>3, <5>4
      <4> QED
        BY <4>1, <4>2, <4>3
    <3> DEFINE place == [i \in DOMAIN sent' |-> i]
    <3>4. \A i \in DOMAIN sent' : place[i] = i
      OBVIOUS
    <3> HIDE DEF place
    <3>5. Ordered(sent', obeyed, pending)
      BY <1>2, <3>3, <3>4, OrderedPart DEF Commands
    <3> QED
      BY <2>1, <3>5
  <2>4. CASE ~linked
    <3>1. inbox' = inbox
      BY <1>10, <2>4 DEF WriteRequest
    <3> DEFINE place == [i \in DOMAIN sent' |-> IF i \in DOMAIN inbox THEN i ELSE i + 1]
    <3>2. \A i \in DOMAIN sent' : place[i] = (IF i \in DOMAIN inbox THEN i ELSE i + 1) /\ i \in Nat
      BY <1>4
    <3> HIDE DEF place
    <3>3. ASSUME NEW i \in DOMAIN sent' PROVE place[i] \in DOMAIN sent /\ sent[place[i]] = sent'[i]
      <4>1. CASE i \in DOMAIN inbox
        BY <1>3, <1>4, <3>1, <3>2, <4>1
      <4>2. CASE i \notin DOMAIN inbox
        <5>1. i - Len(inbox) \in DOMAIN channel' /\ sent'[i] = channel'[i - Len(inbox)]
          BY <1>5, <3>1, <4>2
        <5>2. sent'[i] = channel[(i - Len(inbox)) + 1] /\ (i - Len(inbox)) + 1 \in DOMAIN channel
          BY <2>2, <5>1
        <5>3. Len(inbox) + ((i - Len(inbox)) + 1) = i + 1 /\ place[i] = i + 1
          BY <1>3, <3>2, <4>2
        <5>4. i + 1 \in DOMAIN sent
          BY <1>3, <5>2, <5>3
        <5> QED
          BY <1>3, <5>2, <5>3, <5>4
      <4> QED
        BY <4>1, <4>2
    <3>4. \A i, j \in DOMAIN sent' : i < j => place[i] < place[j]
      BY <1>3, <1>4, <3>2
    <3>5. Ordered(sent', obeyed, pending)
      BY <1>2, <3>3, <3>4, OrderedPart DEF Commands
    <3> QED
      BY <2>1, <3>5
  <2> QED
    BY <2>3, <2>4
<1>11. ASSUME NEW r, r.kind \notin Targets, r \in Request,
              channel' = Append(channel, r), UNCHANGED <<inbox, obeyed, pending>>
       PROVE  Ordered(sent', obeyed', pending')
  <2>1. Len(channel') = Len(channel) + 1 /\ channel'[Len(channel) + 1] = r
        /\ \A i \in DOMAIN channel : channel'[i] = channel[i]
    BY <1>1, <1>11, Appended
  <2>2. ASSUME NEW t \in Targets, NEW i \in Commands(sent', t)
        PROVE  i \in DOMAIN sent /\ sent[i] = sent'[i]
    <3>1. i \in DOMAIN sent' /\ sent'[i].kind = t
      BY DEF Commands
    <3>2. CASE i \in DOMAIN inbox
      BY <1>3, <1>4, <1>11, <3>1, <3>2
    <3>3. CASE i \notin DOMAIN inbox
      <4>1. i - Len(inbox) \in DOMAIN channel' /\ sent'[i] = channel'[i - Len(inbox)]
        BY <1>5, <1>11, <3>1, <3>3
      <4>2. i - Len(inbox) # Len(channel) + 1
        BY <1>11, <2>1, <3>1, <4>1
      <4>3. i - Len(inbox) \in DOMAIN channel
        BY <1>3, <1>4, <2>1, <4>1, <4>2
      <4>4. Len(inbox) + (i - Len(inbox)) = i /\ i \in DOMAIN sent
        BY <1>3, <1>4, <3>1, <4>3
      <4> QED
        BY <1>3, <2>1, <4>1, <4>3, <4>4
    <3> QED
      BY <3>2, <3>3
  <2> DEFINE place == [i \in DOMAIN sent' |-> i]
  <2>3. \A i \in DOMAIN sent' : place[i] = i
    OBVIOUS
  <2> HIDE DEF place
  <2>4. Ordered(sent', obeyed, pending)
    BY <1>2, <2>2, <2>3, OrderedPart DEF Commands
  <2> QED
    BY <1>11, <2>4
<1>12. CASE TakeEvent
  <2>1. UNCHANGED channel \/ channel' = Append(channel, Snapshot)
    BY <1>12, EventTaken DEF Types, Taken
  <2>2. UNCHANGED <<inbox, obeyed, pending>>
    BY <1>12 DEF TakeEvent, daemonVars
  <2>3. Snapshot.kind \notin Targets /\ Snapshot \in Request
    BY SnapshotTyped DEF Targets
  <2> QED
    BY <1>7, <1>11, <2>1, <2>2, <2>3
<1>13. CASE TouchProfiles
  <2> DEFINE request == [kind |-> "profile", touch |-> touched']
  <2>1. touched' \in 0..MaxTouches /\ channel' = Append(channel, request)
        /\ UNCHANGED <<inbox, obeyed, pending>>
    BY <1>13, Grows DEF TouchProfiles, Frame, daemonVars, Types, AppOK
  <2>2. request \in Request /\ request.kind \notin Targets
    BY <2>1 DEF Request, Kinds, Targets
  <2> QED
    BY <1>11, <2>1, <2>2
<1>14. CASE Serve
  <2>1. inbox # << >> /\ inbox' = Tail(inbox) /\ UNCHANGED <<channel, pending>>
        /\ obeyed' = IF Head(inbox).kind \in Targets
                     THEN [obeyed EXCEPT ![Head(inbox).kind] = Head(inbox).touch] ELSE obeyed
    BY <1>14 DEF Serve
  <2>2. /\ Len(inbox') = Len(inbox) - 1
        /\ \A i \in DOMAIN inbox' : inbox'[i] = inbox[i + 1] /\ i + 1 \in DOMAIN inbox
        /\ Head(inbox) = inbox[1] /\ 1 \in DOMAIN inbox
    BY <1>1, <2>1, Tailed
  <2>3. sent[1] = Head(inbox) /\ 1 \in DOMAIN sent
    BY <1>3, <2>2
  <2>4. ASSUME NEW i \in DOMAIN sent'
        PROVE  i + 1 \in DOMAIN sent /\ sent[i + 1] = sent'[i] /\ i \in Nat /\ 1 < i + 1
    <3>0. i + 1 \in DOMAIN sent /\ i \in Nat /\ 1 < i + 1
      BY <1>3, <1>4, <2>1, <2>2
    <3>1. CASE i \in DOMAIN inbox'
      BY <1>3, <1>4, <2>2, <3>0, <3>1
    <3>2. CASE i \notin DOMAIN inbox'
      <4>1. i - Len(inbox') \in DOMAIN channel /\ sent'[i] = channel[i - Len(inbox')]
        BY <1>5, <2>1, <3>2
      <4>2. Len(inbox) + (i - Len(inbox')) = i + 1
        BY <1>3, <2>2, <3>0
      <4> QED
        BY <1>3, <3>0, <4>1, <4>2
    <3> QED
      BY <3>1, <3>2
  <2> DEFINE place == [i \in DOMAIN sent' |-> i + 1]
  <2>5. \A i \in DOMAIN sent' : place[i] = i + 1
    OBVIOUS
  <2> HIDE DEF place
  <2>6. Ordered(sent', obeyed, pending)
    <3>1. \A i, j \in DOMAIN sent' : i < j => place[i] < place[j]
      BY <2>4, <2>5
    <3>2. \A i \in DOMAIN sent' : place[i] \in DOMAIN sent /\ sent[place[i]] = sent'[i]
      BY <2>4, <2>5
    <3> QED
      BY <1>2, <3>1, <3>2, OrderedPart DEF Commands
  <2>7. ASSUME NEW t \in Targets
        PROVE  /\ \A i \in Commands(sent', t) : sent'[i].touch > obeyed'[t]
               /\ pending[t] # 0 => obeyed'[t] < pending[t]
    <3>1. CASE Head(inbox).kind = t
      <4>1. obeyed'[t] = sent[1].touch /\ 1 \in Commands(sent, t)
        BY <2>1, <2>3, <3>1 DEF Types, FeedOK, Commands
      <4>2. \A i \in Commands(sent', t) : i + 1 \in Commands(sent, t) /\ sent[i + 1] = sent'[i]
                                          /\ 1 < i + 1
        BY <2>4 DEF Commands
      <4>3. \A i \in Commands(sent, t) : sent[i].touch \in Nat
        BY <1>6 DEF Commands
      <4>4. \A j \in Commands(sent, t) : 1 < j => sent[1].touch < sent[j].touch
        BY <1>2, <4>1 DEF Ordered
      <4>5. pending[t] # 0 => sent[1].touch < pending[t]
        BY <1>2, <4>1 DEF Ordered
      <4> QED
        BY <4>1, <4>2, <4>3, <4>4, <4>5
    <3>2. CASE Head(inbox).kind # t
      <4>1. obeyed'[t] = obeyed[t]
        BY <2>1, <3>2 DEF Types, FeedOK
      <4> QED
        BY <2>6, <4>1 DEF Ordered
    <3> QED
      BY <3>1, <3>2
  <2> QED
    BY <2>1, <2>6, <2>7 DEF Ordered
<1>15. ASSUME NEW waiting, NEW due \in SUBSET Targets, Ordered(sent, obeyed, waiting),
              \A u \in due : waiting[u] # 0, Flushed(waiting, due), UNCHANGED <<inbox, obeyed>>
       PROVE  Ordered(sent', obeyed', pending')
  <2>1. PICK more \in Seq(Request) :
          /\ channel' = channel \o more
          /\ \A i \in DOMAIN more : more[i].kind \in due /\ more[i].touch = waiting[more[i].kind]
          /\ \A i, j \in DOMAIN more : more[i].kind = more[j].kind => i = j
    BY <1>15 DEF Flushed
  <2>2. pending' = [u \in Targets |-> IF u \in due THEN 0 ELSE waiting[u]]
    BY <1>15 DEF Flushed
  <2>3. sent' = sent \o more
    <3>1. inbox \o (channel \o more) = (inbox \o channel) \o more
      <4>1. inbox \in Seq(Request) /\ channel \in Seq(Request) /\ more \in Seq(Request)
        BY <1>1, <2>1
      <4> QED
        BY <4>1, ConcatAssociative
    <3> QED
      BY <1>15, <2>1, <3>1 DEF sent
  <2>4. sent \in Seq(Request)
    BY <1>3
  <2>5. Ordered(sent \o more, obeyed, Remaining(waiting, due))
    <3>1. Ordered(sent, obeyed, waiting) /\ \A u \in due : waiting[u] # 0
      BY <1>15
    <3>2. /\ \A i \in DOMAIN more : more[i].kind \in due /\ more[i].touch = waiting[more[i].kind]
          /\ \A i, j \in DOMAIN more : more[i].kind = more[j].kind => i = j
      BY <2>1
    <3> QED
      BY <2>1, <2>4, <3>1, <3>2, OrderedFlush
  <2> QED
    BY <1>15, <2>2, <2>3, <2>5 DEF Remaining
<1>16. CASE SendPending
  <2>1. PICK due \in SUBSET Targets : (\A u \in due : pending[u] # 0) /\ Flushed(pending, due)
    BY <1>16, PendingFlushes
  <2>2. UNCHANGED <<inbox, obeyed>>
    BY <1>16 DEF SendPending, Frame, daemonVars
  <2> QED
    BY <1>2, <1>15, <2>1, <2>2
<1>17. CASE TouchTarget
  <2>1. PICK t \in Targets, due \in SUBSET Targets :
          /\ \A u \in due : [pending EXCEPT ![t] = touched'][u] # 0
          /\ Flushed([pending EXCEPT ![t] = touched'], due)
    BY <1>17, TouchFlushes
  <2> DEFINE waiting == [pending EXCEPT ![t] = touched']
  <2>2. touched' = touched + 1 /\ touched \in Nat /\ pending \in [Targets -> 0..touched]
        /\ obeyed \in [Targets -> 0..touched] /\ UNCHANGED <<inbox, obeyed>>
    BY <1>17, TouchFlushes, Bounds DEF Types, AppOK, FeedOK, TouchTarget, Frame, daemonVars
  <2>3. \A u \in Targets : waiting[u] = pending[u] \/ waiting[u] = touched + 1
    BY <2>2
  <2>4. (\A u \in due : waiting[u] # 0) /\ Flushed(waiting, due)
    BY <2>1
  <2> HIDE DEF waiting
  <2>5. ASSUME NEW u \in Targets
        PROVE  /\ \A i \in Commands(sent, u) : sent[i].touch > obeyed[u]
               /\ \A i, j \in Commands(sent, u) : i < j => sent[i].touch < sent[j].touch
               /\ waiting[u] # 0 => /\ obeyed[u] < waiting[u]
                                    /\ \A i \in Commands(sent, u) : sent[i].touch < waiting[u]
    <3>1. obeyed[u] < touched + 1 /\ \A i \in Commands(sent, u) : sent[i].touch < touched + 1
      BY <1>6, <2>2 DEF Commands
    <3> QED
      BY <1>2, <2>3, <3>1 DEF Ordered
  <2>6. Ordered(sent, obeyed, waiting)
    BY <2>5 DEF Ordered
  <2> QED
    BY <1>15, <2>2, <2>4, <2>6
<1>18. CASE Lock
  <2>1. UNCHANGED <<inbox, channel, obeyed>> /\ \A t \in Targets : pending'[t] = 0
    BY <1>18 DEF Lock, Frame, ClearedByLock, daemonVars
  <2>2. Ordered(sent, obeyed, pending')
    BY <1>2, <2>1 DEF Ordered
  <2> QED
    BY <2>1, <2>2 DEF sent
<1>19. \/ UNCHANGED <<inbox, channel, obeyed, pending>>
       \/ inbox' = << >> /\ UNCHANGED <<channel, obeyed, pending>>
       \/ Connect \/ WriteRequest \/ TakeEvent \/ TouchProfiles \/ Serve \/ SendPending
       \/ TouchTarget \/ Lock
  BY DEF Next, Daemon, Server, Reader, User, StartDaemon, EndDaemon, StateChanges, Accept, Announce,
     SendPart, Drop, CannotConnect, ReadLine, ReadTimesOut, ReadEnds,
     Frame, TouchLabel, Unlock, vars, daemonVars
<1> QED
  BY <1>7, <1>8, <1>9, <1>10, <1>12, <1>13, <1>14, <1>16, <1>17, <1>18, <1>19

(* The daemon carries out the touches of a level, and those of a group, in *)
(* their order and none of them twice, however often the connection is     *)
(* lost and commands wait, are merged or throttled.                        *)
THEOREM TouchesStayInOrder == Spec => []TouchesInOrder
<1>1. Init => TouchesInOrder
  <2> SUFFICES ASSUME Init PROVE TouchesInOrder
    OBVIOUS
  <2>1. inbox = << >> /\ channel = << >> /\ \A t \in Targets : pending[t] = 0
    BY DEF Init
  <2>2. << >> \o << >> = << >> /\ DOMAIN << >> = {}
    OBVIOUS
  <2>3. DOMAIN (inbox \o channel) = {}
    BY <2>1, <2>2
  <2> QED
    BY <2>1, <2>3 DEF TouchesInOrder
<1> QED
  BY <1>1, AlwaysTypes, StepOrdered, PTL DEF Spec

-----------------------------------------------------------------------------
(* Locks. *)

LEMMA DroppedTyped ==
    ASSUME Types
    PROVE  /\ touched \in Nat /\ pending \in [Targets -> 0..touched]
           /\ obeyed \in [Targets -> 0..touched]
           /\ \A t \in Targets : dropped[t] \in SUBSET (1..touched)
           /\ inbox \in Seq(Request) /\ channel \in Seq(Request)
  BY Bounds DEF Types, FeedOK, AppOK, LinkOK

LEMMA SnapshotSpared == Snapshot.kind \notin Targets
  BY SnapshotTyped DEF Targets

(* A lock drops what is newer than all that is under way or was obeyed. *)
LEMMA LockSpares ==
    ASSUME Types, TouchesInOrder, NothingDropped, Lock
    PROVE  NothingDropped'
<1>1. /\ UNCHANGED <<inbox, channel, obeyed>>
      /\ \A t \in Targets : pending'[t] = 0
      /\ \A t \in Targets : dropped'[t] = dropped[t] \cup ({pending[t]} \ {0})
  BY DEF Lock, Frame, ClearedByLock, daemonVars
<1>2. Ordered(inbox \o channel, obeyed, pending)
  BY OrderedIsInOrder
<1>3. /\ DOMAIN inbox = 1..Len(inbox) /\ Len(inbox) \in Nat
      /\ DOMAIN channel = 1..Len(channel) /\ Len(channel) \in Nat
      /\ DOMAIN (inbox \o channel) = 1..(Len(inbox) + Len(channel))
      /\ \A i \in DOMAIN inbox : (inbox \o channel)[i] = inbox[i]
      /\ \A i \in DOMAIN channel : (inbox \o channel)[Len(inbox) + i] = channel[i]
  BY DroppedTyped, Joined
<1> DEFINE sent == inbox \o channel
<1>4. \A i \in DOMAIN sent : sent[i].kind \in Targets /\ pending[sent[i].kind] # 0
                               => sent[i].touch < pending[sent[i].kind]
  BY <1>2 DEF Ordered, Commands
<1>5. \A i \in DOMAIN inbox : i \in DOMAIN sent /\ sent[i] = inbox[i]
  BY <1>3
<1>6. \A i \in DOMAIN channel : Len(inbox) + i \in DOMAIN sent
                                /\ sent[Len(inbox) + i] = channel[i]
  BY <1>3
<1>7. \A t \in Targets : pending[t] \in Nat /\ (pending[t] # 0 => obeyed[t] < pending[t])
                         /\ obeyed[t] \in Nat
  BY <1>2, DroppedTyped DEF Ordered
<1> HIDE DEF sent
<1>8. ASSUME NEW t \in Targets
      PROVE  pending'[t] \notin dropped'[t] /\ obeyed'[t] \notin dropped'[t]
  <2>1. 0 \notin dropped[t] /\ obeyed[t] \notin dropped[t]
    BY DroppedTyped DEF NothingDropped
  <2>2. obeyed'[t] = obeyed[t]
    BY <1>1
  <2> QED
    BY <1>1, <1>7, <2>1, <2>2
<1>9. Spared(inbox)'
  <2> SUFFICES ASSUME NEW t \in Targets, NEW i \in DOMAIN inbox, inbox[i].kind = t
               PROVE  inbox[i].touch \notin dropped'[t]
    BY <1>1 DEF Spared
  <2>1. inbox[i].touch \notin dropped[t]
    BY DEF NothingDropped, Spared
  <2>2. pending[t] # 0 => inbox[i].touch < pending[t]
    BY <1>4, <1>5
  <2> QED
    BY <1>1, <1>7, <2>1, <2>2
<1>10. Spared(channel)'
  <2> SUFFICES ASSUME NEW t \in Targets, NEW i \in DOMAIN channel, channel[i].kind = t
               PROVE  channel[i].touch \notin dropped'[t]
    BY <1>1 DEF Spared
  <2>1. channel[i].touch \notin dropped[t]
    BY DEF NothingDropped, Spared
  <2>2. pending[t] # 0 => channel[i].touch < pending[t]
    BY <1>4, <1>6
  <2> QED
    BY <1>1, <1>7, <2>1, <2>2
<1> QED
  BY <1>8, <1>9, <1>10 DEF NothingDropped

(* Without a lock, a flush hands over what was not dropped. *)
LEMMA FlushSpares ==
    ASSUME Types, Spared(channel), UNCHANGED dropped, NEW waiting, NEW due \in SUBSET Targets,
           Flushed(waiting, due), \A t \in Targets : waiting[t] \notin dropped[t]
    PROVE  Spared(channel)' /\ \A t \in Targets : pending'[t] \notin dropped'[t]
<1>1. PICK more \in Seq(Request) :
        /\ channel' = channel \o more
        /\ \A i \in DOMAIN more : more[i].kind \in due /\ more[i].touch = waiting[more[i].kind]
  BY DEF Flushed
<1>2. /\ DOMAIN channel' = 1..(Len(channel) + Len(more))
      /\ DOMAIN channel = 1..Len(channel) /\ Len(channel) \in Nat
      /\ DOMAIN more = 1..Len(more) /\ Len(more) \in Nat
      /\ \A i \in DOMAIN channel : channel'[i] = channel[i]
      /\ \A i \in DOMAIN more : channel'[Len(channel) + i] = more[i]
  BY <1>1, DroppedTyped, Joined
<1>3. ASSUME NEW t \in Targets, NEW i \in DOMAIN channel', channel'[i].kind = t
      PROVE  channel'[i].touch \notin dropped[t]
  <2>1. CASE i \in DOMAIN channel
    BY <1>2, <1>3, <2>1 DEF Spared
  <2>2. CASE i \notin DOMAIN channel
    <3>1. i - Len(channel) \in DOMAIN more /\ Len(channel) + (i - Len(channel)) = i
      BY <1>2, <2>2
    <3>2. channel'[i].touch = waiting[t]
      BY <1>1, <1>2, <1>3, <3>1
    <3> QED
      BY <3>2
  <2> QED
    BY <2>1, <2>2
<1>4. Spared(channel)'
  BY <1>3 DEF Spared
<1>5. ASSUME NEW t \in Targets PROVE pending'[t] \notin dropped'[t]
  <2>1. pending'[t] = 0 \/ pending'[t] = waiting[t]
    BY DEF Flushed
  <2> QED
    BY <2>1, DroppedTyped
<1> QED
  BY <1>4, <1>5

LEMMA StepDropped ==
    Types /\ TouchesInOrder /\ NothingDropped /\ [Next]_vars => NothingDropped'
<1> SUFFICES ASSUME Types, TouchesInOrder, NothingDropped, [Next]_vars PROVE NothingDropped'
  OBVIOUS
<1>1. CASE Lock
  BY <1>1, LockSpares
<1>2. CASE ~Lock
  <2>1. UNCHANGED dropped
    BY <1>2 DEF Next, Daemon, Server, Reader, User, StartDaemon, EndDaemon, StateChanges, Accept,
       Announce, Serve, SendPart, Drop, Connect, CannotConnect, WriteRequest, ReadLine, ReadTimesOut,
       ReadEnds, TakeEvent, TouchTarget, SendPending, TouchLabel, TouchProfiles, Unlock,
       vars, lockVars
  <2>2. /\ \A t \in Targets : pending[t] \notin dropped[t] /\ obeyed[t] \notin dropped[t]
        /\ Spared(inbox) /\ Spared(channel)
    BY DEF NothingDropped
  <2>3. ASSUME NEW s \in Seq(Request), Spared(s), NEW r \in Request, NEW next,
               next = Append(s, r), r.kind \in Targets => r.touch \notin dropped[r.kind]
        PROVE  Spared(next)
    <3>1. DOMAIN next = 1..(Len(s) + 1) /\ DOMAIN s = 1..Len(s) /\ Len(s) \in Nat
          /\ (\A i \in DOMAIN s : next[i] = s[i]) /\ next[Len(s) + 1] = r
      BY <2>3, Appended
    <3>2. \A i \in DOMAIN next : i \in DOMAIN s \/ i = Len(s) + 1
      BY <3>1
    <3> QED
      BY <2>3, <3>1, <3>2 DEF Spared
  <2>4. ASSUME NEW s \in Seq(Request), Spared(s), s # << >> PROVE Spared(Tail(s))
    <3>1. \A i \in DOMAIN Tail(s) : Tail(s)[i] = s[i + 1] /\ i + 1 \in DOMAIN s
      BY <2>4, Tailed
    <3> QED
      BY <2>4, <3>1 DEF Spared
  <2>5. ASSUME NEW s \in Seq(Request), Spared(s), s # << >>
        PROVE  /\ Head(s) \in Request
               /\ Head(s).kind \in Targets => Head(s).touch \notin dropped[Head(s).kind]
    <3>1. Head(s) = s[1] /\ Head(s) \in Request /\ 1 \in DOMAIN s
      BY <2>5, Tailed
    <3> QED
      BY <2>5, <3>1 DEF Spared
  <2>6. inbox \in Seq(Request) /\ channel \in Seq(Request)
    BY DroppedTyped
  <2>8. Spared(channel)' /\ \A t \in Targets : pending'[t] \notin dropped'[t]
    <3>1. CASE UNCHANGED <<channel, pending>>
      BY <2>1, <2>2, <3>1 DEF Spared
    <3>2. CASE TakeEvent
      <4>1. UNCHANGED pending /\ (UNCHANGED channel \/ channel' = Append(channel, Snapshot))
        BY <3>2, EventTaken DEF TakeEvent, Types, Taken
      <4>2. CASE channel' = Append(channel, Snapshot)
        <5>1. Snapshot \in Request /\ Snapshot.kind \notin Targets
          BY SnapshotTyped, SnapshotSpared
        <5>2. \A s : s = Append(channel, Snapshot) => Spared(s)
          BY <2>2, <2>3, <2>6, <5>1
        <5> QED
          BY <2>1, <2>2, <4>1, <4>2, <5>2 DEF Spared
      <4> QED
        BY <3>1, <4>1, <4>2
    <3>3. CASE WriteRequest
      <4>1. UNCHANGED pending /\ channel # << >> /\ channel' = Tail(channel)
        BY <3>3 DEF WriteRequest
      <4>2. Spared(Tail(channel))
        BY <2>2, <2>4, <2>6, <4>1
      <4> QED
        BY <2>1, <2>2, <4>1, <4>2 DEF Spared
    <3>4. CASE TouchProfiles
      <4> DEFINE request == [kind |-> "profile", touch |-> touched']
      <4>1. touched' \in 0..MaxTouches /\ UNCHANGED pending /\ channel' = Append(channel, request)
        BY <3>4, Grows, Bounds DEF TouchProfiles, Types, AppOK
      <4>2. request \in Request /\ request.kind \notin Targets
        BY <4>1 DEF Request, Kinds, Targets
      <4> HIDE DEF request
      <4>3. \A s : s = Append(channel, request) => Spared(s)
        BY <2>2, <2>3, <2>6, <4>2
      <4> QED
        BY <2>1, <2>2, <4>1, <4>3 DEF Spared
    <3>5. CASE TouchTarget
      <4>1. PICK t \in Targets, due \in SUBSET Targets :
              Flushed([pending EXCEPT ![t] = touched'], due)
        BY <3>5, TouchFlushes
      <4> DEFINE waiting == [pending EXCEPT ![t] = touched']
      <4>2. touched' = touched + 1 /\ \A u \in Targets : waiting[u] \in {pending[u], touched + 1}
        BY <3>5, TouchFlushes, DroppedTyped
      <4>3. \A u \in Targets : touched + 1 \notin dropped[u]
        BY DroppedTyped
      <4>4. Flushed(waiting, due)
        BY <4>1
      <4> HIDE DEF waiting
      <4>5. \A u \in Targets : waiting[u] \notin dropped[u]
        BY <2>2, <4>2, <4>3
      <4> QED
        BY <2>1, <2>2, <4>4, <4>5, FlushSpares
    <3>6. CASE SendPending
      <4>1. PICK due \in SUBSET Targets : Flushed(pending, due)
        BY <3>6, PendingFlushes
      <4> QED
        BY <2>1, <2>2, <4>1, FlushSpares
    <3>7. \/ UNCHANGED <<channel, pending>> \/ TakeEvent \/ WriteRequest \/ TouchProfiles
          \/ TouchTarget \/ SendPending
      BY <1>2 DEF Next, Daemon, Server, Reader, User, StartDaemon, EndDaemon, StateChanges, Accept,
         Announce, Serve, SendPart, Drop, Connect, CannotConnect, ReadLine, ReadTimesOut, ReadEnds,
         TouchLabel, Unlock, vars
    <3> QED
      BY <3>1, <3>2, <3>3, <3>4, <3>5, <3>6, <3>7
  <2>9. Spared(inbox)' /\ \A t \in Targets : obeyed'[t] \notin dropped'[t]
    <3>1. CASE UNCHANGED <<inbox, obeyed>>
      BY <2>1, <2>2, <3>1 DEF Spared
    <3>2. CASE inbox' = << >> /\ UNCHANGED obeyed
      <4>1. DOMAIN << >> = {}
        OBVIOUS
      <4> QED
        BY <2>1, <2>2, <3>2, <4>1 DEF Spared
    <3>3. CASE Connect
      <4>1. inbox' = <<Snapshot>> /\ UNCHANGED obeyed
        BY <3>3 DEF Connect, FirstRequests, daemonVars
      <4>2. \A i \in DOMAIN inbox' : inbox'[i] = Snapshot
        BY <4>1
      <4> QED
        BY <2>1, <2>2, <4>1, <4>2, SnapshotSpared DEF Spared
    <3>4. CASE Serve
      <4> DEFINE request == Head(inbox)
      <4>1. /\ inbox # << >> /\ inbox' = Tail(inbox)
            /\ obeyed' = IF request.kind \in Targets
                         THEN [obeyed EXCEPT ![request.kind] = request.touch] ELSE obeyed
        BY <3>4 DEF Serve
      <4>2. Spared(Tail(inbox)) /\ (request.kind \in Targets => request.touch \notin dropped[request.kind])
        BY <2>2, <2>4, <2>5, <2>6, <4>1
      <4>3. obeyed \in [Targets -> 0..touched]
        BY DroppedTyped
      <4> HIDE DEF request
      <4>4. \A t \in Targets : obeyed'[t] = obeyed[t] \/ (t = request.kind /\ obeyed'[t] = request.touch)
        BY <4>1, <4>3
      <4>5. \A t \in Targets : obeyed'[t] \notin dropped[t]
        BY <2>2, <4>2, <4>4
      <4> QED
        BY <2>1, <4>1, <4>2, <4>5 DEF Spared
    <3>5. CASE WriteRequest /\ linked
      <4>1. inbox' = Append(inbox, Head(channel)) /\ channel # << >> /\ UNCHANGED obeyed
        BY <3>5 DEF WriteRequest, daemonVars
      <4>2. /\ Head(channel) \in Request
            /\ Head(channel).kind \in Targets => Head(channel).touch \notin dropped[Head(channel).kind]
        BY <2>2, <2>5, <2>6, <4>1
      <4>3. \A s : s = Append(inbox, Head(channel)) => Spared(s)
        BY <2>2, <2>3, <2>6, <4>2
      <4> QED
        BY <2>1, <2>2, <4>1, <4>3 DEF Spared
    <3>6. \/ UNCHANGED <<inbox, obeyed>> \/ (inbox' = << >> /\ UNCHANGED obeyed)
          \/ Connect \/ Serve \/ (WriteRequest /\ linked)
      BY <1>2 DEF Next, Daemon, Server, Reader, User, StartDaemon, EndDaemon, StateChanges, Accept,
         Announce, SendPart, Drop, WriteRequest, CannotConnect, ReadLine, ReadTimesOut, ReadEnds,
         TakeEvent, Frame, TouchTarget, SendPending, TouchLabel, TouchProfiles, Unlock,
         vars, daemonVars
    <3> QED
      BY <3>1, <3>2, <3>3, <3>4, <3>5, <3>6
  <2> QED
    BY <2>8, <2>9 DEF NothingDropped
<1> QED
  BY <1>1, <1>2

(* What a lock finds waiting in the app is carried out by no daemon, over  *)
(* no connection, at no time: it is not sent by a later frame, and nothing *)
(* that was handed over before could be taken for it.                      *)
THEOREM LockEndsCommands == Spec => []LockEndsWaiting
<1>1. Init => NothingDropped
  <2> SUFFICES ASSUME Init PROVE NothingDropped
    OBVIOUS
  <2>1. inbox = << >> /\ channel = << >> /\ \A t \in Targets : dropped[t] = {}
    BY DEF Init
  <2>2. DOMAIN << >> = {}
    OBVIOUS
  <2> QED
    BY <2>1, <2>2 DEF NothingDropped, Spared
<1>2. NothingDropped => LockEndsWaiting
  BY DEF NothingDropped, LockEndsWaiting
<1> QED
  BY <1>1, <1>2, AlwaysTypes, TouchesStayInOrder, StepDropped, PTL DEF Spec

-----------------------------------------------------------------------------
(* What is asked for, and what carries a state. *)

LEMMA AskedAt == \A s : Asked(s) <=> \E i \in DOMAIN s : s[i] = Snapshot
  BY DEF Asked, Range

LEMMA CarriesAt == \A s : CarriesState(s) <=> \E i \in DOMAIN s : s[i].revision # 0
  BY DEF CarriesState, Range

LEMMA AskedAppend ==
    ASSUME NEW s \in Seq(Request), NEW r \in Request
    PROVE  Asked(Append(s, r)) <=> Asked(s) \/ r = Snapshot
<1>1. /\ DOMAIN Append(s, r) = 1..(Len(s) + 1) /\ DOMAIN s = 1..Len(s) /\ Len(s) \in Nat
      /\ (\A i \in DOMAIN s : Append(s, r)[i] = s[i]) /\ Append(s, r)[Len(s) + 1] = r
  BY Appended
<1>2. /\ \A i \in DOMAIN s : i \in DOMAIN Append(s, r)
      /\ Len(s) + 1 \in DOMAIN Append(s, r)
      /\ \A i \in DOMAIN Append(s, r) : i \in DOMAIN s \/ i = Len(s) + 1
  BY <1>1
<1> QED
  BY <1>1, <1>2, AskedAt

LEMMA AskedTail ==
    ASSUME NEW s \in Seq(Request), s # << >>
    PROVE  Asked(s) <=> Head(s) = Snapshot \/ Asked(Tail(s))
<1>1. /\ DOMAIN Tail(s) = 1..(Len(s) - 1) /\ DOMAIN s = 1..Len(s) /\ Len(s) \in Nat \ {0}
      /\ \A i \in DOMAIN Tail(s) : Tail(s)[i] = s[i + 1] /\ i + 1 \in DOMAIN s
      /\ Head(s) = s[1] /\ 1 \in DOMAIN s
  BY Tailed
<1>2. \A i \in DOMAIN s : i = 1 \/ (i - 1 \in DOMAIN Tail(s) /\ (i - 1) + 1 = i)
  BY <1>1
<1>3. \A i \in DOMAIN s : i = 1 \/ (i - 1 \in DOMAIN Tail(s) /\ Tail(s)[i - 1] = s[i])
  BY <1>1, <1>2
<1> QED
  BY <1>1, <1>3, AskedAt

LEMMA AskedJoined ==
    ASSUME NEW s \in Seq(Request), NEW t \in Seq(Request), Asked(s)
    PROVE  Asked(s \o t)
<1>1. (\A i \in DOMAIN s : (s \o t)[i] = s[i]) /\ \A i \in DOMAIN s : i \in DOMAIN (s \o t)
  BY Joined
<1> QED
  BY <1>1, AskedAt

LEMMA CarriesAppend ==
    ASSUME NEW s \in Seq(Message), NEW m \in Message
    PROVE  CarriesState(Append(s, m)) <=> CarriesState(s) \/ m.revision # 0
<1>1. /\ DOMAIN Append(s, m) = 1..(Len(s) + 1) /\ DOMAIN s = 1..Len(s) /\ Len(s) \in Nat
      /\ (\A i \in DOMAIN s : Append(s, m)[i] = s[i]) /\ Append(s, m)[Len(s) + 1] = m
  BY Appended
<1>2. /\ \A i \in DOMAIN s : i \in DOMAIN Append(s, m)
      /\ Len(s) + 1 \in DOMAIN Append(s, m)
      /\ \A i \in DOMAIN Append(s, m) : i \in DOMAIN s \/ i = Len(s) + 1
  BY <1>1
<1> QED
  BY <1>1, <1>2, CarriesAt

LEMMA CarriesTail ==
    ASSUME NEW s \in Seq(Message), s # << >>
    PROVE  CarriesState(s) <=> Head(s).revision # 0 \/ CarriesState(Tail(s))
<1>1. /\ DOMAIN Tail(s) = 1..(Len(s) - 1) /\ DOMAIN s = 1..Len(s) /\ Len(s) \in Nat \ {0}
      /\ \A i \in DOMAIN Tail(s) : Tail(s)[i] = s[i + 1] /\ i + 1 \in DOMAIN s
      /\ Head(s) = s[1] /\ 1 \in DOMAIN s
  BY Tailed
<1>2. \A i \in DOMAIN s : i = 1 \/ (i - 1 \in DOMAIN Tail(s) /\ (i - 1) + 1 = i)
  BY <1>1
<1>3. \A i \in DOMAIN s : i = 1 \/ (i - 1 \in DOMAIN Tail(s) /\ Tail(s)[i - 1] = s[i])
  BY <1>1, <1>2
<1> QED
  BY <1>1, <1>3, CarriesAt

(* Serving ends the connection, or puts a reply behind all others, which   *)
(* carries a state when that is what was asked for.                        *)
LEMMA Replied ==
    ASSUME Types, RepliesCarry, Serve, link \notin closing' \/ outbox' # outbox
    PROVE  \E carried \in {0, revision'} :
             /\ closing' = closing
             /\ Feed!ReplyTo(Head(inbox).kind, carried) \in Message
             /\ outbox' = [outbox EXCEPT ![link] =
                             Append(@, Feed!ReplyTo(Head(inbox).kind, carried))]
             /\ outbox'[link] = Append(outbox[link], Feed!ReplyTo(Head(inbox).kind, carried))
             /\ Head(inbox).kind = "snapshot" => carried # 0
<1>1. FeedOK /\ LinkOK /\ link \in Links /\ outbox[link] \in Seq(Message)
      /\ outbox \in [Links -> Seq(Message)]
  BY Served DEF Types, FeedOK, ServerOK
<1>2. PICK carried \in {0, revision'} :
        /\ UNCHANGED closing
        /\ outbox' = [outbox EXCEPT ![link] = Append(@, Feed!ReplyTo(Head(inbox).kind, carried))]
  BY <1>1, Served
<1> DEFINE reply == Feed!ReplyTo(Head(inbox).kind, carried)
<1>3. reply \in Message /\ reply.revision = carried /\ reply.tag = Head(inbox).kind
  <2>1. Head(inbox).kind \in Kinds /\ revision' \in 1..MaxRevision
    BY <1>1, Served DEF Request
  <2>2. carried \in 0..MaxRevision
    BY <1>2, <2>1, Bounds
  <2> QED
    BY <2>1, <2>2, MessageTypes
<1>4. outbox' = [outbox EXCEPT ![link] = Append(@, reply)]
  BY <1>2
<1> HIDE DEF reply
<1>5. outbox'[link] = Append(outbox[link], reply)
  BY <1>1, <1>4
<1>6. ASSUME Head(inbox).kind = "snapshot" PROVE carried # 0
  <2>1. \A m \in Range(outbox'[link]) \ Range(outbox[link]) : m.revision # 0
    BY <1>6 DEF Serve
  <2>2. reply \in Range(outbox'[link])
    <3>1. Append(outbox[link], reply)[Len(outbox[link]) + 1] = reply
          /\ Len(outbox[link]) + 1 \in DOMAIN Append(outbox[link], reply)
      BY <1>1, <1>3, Appended
    <3> QED
      BY <1>5, <3>1 DEF Range
  <2>3. CASE reply \in Range(outbox[link])
    BY <1>1, <1>3, <1>6, <2>3 DEF Range, RepliesCarry
  <2>4. CASE reply \notin Range(outbox[link])
    BY <1>3, <2>1, <2>2, <2>4
  <2> QED
    BY <2>3, <2>4
<1> QED
  BY <1>2, <1>3, <1>5, <1>6 DEF reply

(* Every message was there before, or is word, a first message or a reply. *)
NewMessage(m) ==
    \/ Announce /\ m = Feed!Word(revision)
    \/ m = Feed!ReplyTo("snapshot", revision)
    \/ /\ Serve
       /\ \E carried \in {0, revision'} :
            m = Feed!ReplyTo(Head(inbox).kind, carried) /\ (Head(inbox).kind = "snapshot" => carried # 0)

LEMMA MessagesFrom ==
    ASSUME Types, RepliesCarry, [Next]_vars, NEW c \in Links, NEW i \in DOMAIN outbox'[c]
    PROVE  \/ \E j \in DOMAIN outbox[c] : outbox'[c][i] = outbox[c][j]
           \/ NewMessage(outbox'[c][i])
<1>1. FeedOK /\ ServerOK /\ LinkOK /\ outbox[c] \in Seq(Message) /\ outbox \in [Links -> Seq(Message)]
  BY DEF Types, FeedOK, ServerOK
<1>2. CASE UNCHANGED outbox
  BY <1>2
<1>3. CASE outbox'[c] = << >>
  BY <1>3
<1>4. CASE Accept
  <2>1. outbox' = [outbox EXCEPT ![link] = <<Feed!ReplyTo("snapshot", revision)>>]
    BY <1>4 DEF Accept, Feed!Join
  <2>2. CASE c = link
    <3>1. outbox'[c] = <<Feed!ReplyTo("snapshot", revision)>>
      BY <1>1, <2>1, <2>2
    <3>2. outbox'[c][i] = Feed!ReplyTo("snapshot", revision)
      BY <3>1
    <3> QED
      BY <3>2 DEF NewMessage
  <2>3. CASE c # link
    BY <1>1, <2>1, <2>3
  <2> QED
    BY <2>2, <2>3
<1>5. CASE Announce
  <2>1. outbox'[c] \in {outbox[c], Feed!WithWord(c)}
    BY <1>1, <1>5, Announced DEF Announce
  <2>2. CASE outbox'[c] = outbox[c]
    BY <2>2
  <2>3. CASE outbox'[c] = Append(outbox[c], Feed!Word(revision))
    <3>1. Feed!Word(revision) \in Message
      <4>1. revision \in 0..MaxRevision /\ "snapshot" \in Kinds
        BY <1>1, Bounds DEF ServerOK, Kinds
      <4> QED
        BY <4>1, MessageTypes
    <3>2. i \in DOMAIN outbox[c] \/ i = Len(outbox[c]) + 1
      BY <1>1, <2>3, <3>1, Appended
    <3> QED
      BY <1>1, <1>5, <2>3, <3>1, <3>2, Appended DEF NewMessage
  <2>4. ASSUME NEW p \in DOMAIN outbox[c], DOMAIN outbox'[c] = DOMAIN outbox[c],
               outbox'[c][p] = Feed!Word(revision),
               \A j \in DOMAIN outbox[c] \ {p} : outbox'[c][j] = outbox[c][j]
        PROVE  \/ \E j \in DOMAIN outbox[c] : outbox'[c][i] = outbox[c][j]
               \/ NewMessage(outbox'[c][i])
    BY <1>5, <2>4 DEF NewMessage
  <2>5. revision \in 0..MaxRevision
    BY <1>1, Bounds DEF ServerOK
  <2> QED
    BY <1>1, <2>1, <2>2, <2>3, <2>4, <2>5, WordPlaces
<1>6. CASE Serve
  <2>1. CASE UNCHANGED outbox
    BY <2>1
  <2>2. CASE ~UNCHANGED outbox
    <3>1. outbox' # outbox
      BY <2>2
    <3>2. PICK carried \in {0, revision'} :
            /\ Feed!ReplyTo(Head(inbox).kind, carried) \in Message
            /\ outbox' = [outbox EXCEPT ![link] =
                            Append(@, Feed!ReplyTo(Head(inbox).kind, carried))]
            /\ outbox'[link] = Append(outbox[link], Feed!ReplyTo(Head(inbox).kind, carried))
            /\ Head(inbox).kind = "snapshot" => carried # 0
      BY <1>6, <3>1, Replied
    <3>3. CASE c # link
      BY <1>1, <3>2, <3>3
    <3>4. CASE c = link
      <4>1. i \in DOMAIN outbox[c] \/ i = Len(outbox[c]) + 1
        BY <1>1, <3>2, <3>4, Appended
      <4>2. CASE i \in DOMAIN outbox[c]
        BY <1>1, <3>2, <3>4, <4>2, Appended
      <4>3. CASE i = Len(outbox[c]) + 1
        <5>1. outbox'[c][i] = Feed!ReplyTo(Head(inbox).kind, carried)
          BY <1>1, <3>2, <3>4, <4>3, Appended
        <5> QED
          BY <1>6, <3>2, <5>1 DEF NewMessage
      <4> QED
        BY <4>1, <4>2, <4>3
    <3> QED
      BY <3>3, <3>4
  <2> QED
    BY <2>1, <2>2
<1>7. CASE ReadLine
  <2>1. outbox' = [outbox EXCEPT ![link] = Tail(@)] /\ outbox[link] # << >>
    BY <1>7 DEF ReadLine, Feed!Deliver
  <2>2. CASE c # link
    BY <1>1, <2>1, <2>2
  <2>3. CASE c = link
    <3>1. outbox'[c] = Tail(outbox[c]) /\ outbox[c] # << >>
      BY <1>1, <2>1, <2>3
    <3> QED
      BY <1>1, <3>1, Tailed
  <2> QED
    BY <2>2, <2>3
<1>8. CASE EndDaemon
  BY <1>3, <1>8 DEF EndDaemon
<1>9. CASE Drop
  <2>1. outbox' = [outbox EXCEPT ![link] = << >>]
    BY <1>9 DEF Drop, Feed!Leave
  <2> QED
    BY <1>1, <1>3, <2>1
<1>10. CASE StateChanges \/ SendPart
  BY <1>2, <1>10 DEF StateChanges, SendPart, Feed!StateChanges, Feed!Start
<1>11. UNCHANGED outbox \/ StateChanges \/ EndDaemon \/ Server \/ ReadLine
  BY DEF Next, Daemon, Reader, User, StartDaemon, Connect, CannotConnect, WriteRequest,
     ReadTimesOut, ReadEnds, TakeEvent, Frame, TouchTarget, SendPending, TouchLabel, TouchProfiles,
     Lock, Unlock, vars, feedVars
<1> QED
  BY <1>2, <1>4, <1>5, <1>6, <1>7, <1>8, <1>9, <1>10, <1>11 DEF Server

LEMMA StepReplies == Types /\ RepliesCarry /\ [Next]_vars => RepliesCarry'
<1> SUFFICES ASSUME Types, RepliesCarry, [Next]_vars,
                    NEW c \in Links, NEW i \in DOMAIN outbox'[c], outbox'[c][i].tag = "snapshot"
             PROVE  outbox'[c][i].revision # 0
  BY DEF RepliesCarry
<1>1. revision \in 1..MaxRevision
  BY DEF Types, FeedOK, ServerOK
<1>2. \A tag, r : Feed!ReplyTo(tag, r).revision = r /\ Feed!ReplyTo(tag, r).tag = tag
                  /\ Feed!Word(r).revision = r
  BY DEF Feed!ReplyTo, Feed!Word
<1>3. CASE \E j \in DOMAIN outbox[c] : outbox'[c][i] = outbox[c][j]
  BY <1>3 DEF RepliesCarry
<1>4. CASE NewMessage(outbox'[c][i])
  BY <1>1, <1>2, <1>4 DEF NewMessage
<1> QED
  BY <1>3, <1>4, MessagesFrom

-----------------------------------------------------------------------------
(* What is owed to a screen that shows nothing. *)

LEMMA UnderwayStays ==
    ASSUME Types, RepliesCarry, [Next]_vars, Underway, ~ReadLine
    PROVE  Underway'
<1>1. FeedOK /\ ServerOK /\ LinkOK /\ inbox \in Seq(Request) /\ channel \in Seq(Request)
      /\ outbox \in [Links -> Seq(Message)] /\ revision \in 1..MaxRevision
  BY DEF Types, FeedOK, ServerOK, LinkOK
<1>2. CASE UNCHANGED <<linked, link, connected, closing, outbox, inbox, channel>>
  BY <1>2 DEF Underway, Asked, CarriesState
<1>3. CASE ~linked'
  BY <1>3 DEF Underway
<1>4. CASE Accept
  <2>1. link \in Links /\ outbox'[link] = <<Feed!ReplyTo("snapshot", revision)>> /\ link' = link
    BY <1>1, <1>4, LinkIsLink DEF Accept, Feed!Join, linkVars
  <2>2. 1 \in DOMAIN outbox'[link] /\ outbox'[link][1].revision # 0
    BY <1>1, <2>1 DEF Feed!ReplyTo
  <2>3. CarriesState(outbox'[link])
    BY <2>2, CarriesAt
  <2> QED
    BY <2>1, <2>3 DEF Underway, CarriesState
<1>5. CASE Announce
  <2>1. UNCHANGED <<link, linked, connected, inbox, channel>> /\ closing \subseteq closing'
    BY <1>1, <1>5, Announced DEF Announce, linkVars
  <2>2. ASSUME CarriesState(outbox[link]), linked PROVE CarriesState(outbox'[link])
    <3>1. link \in Links /\ outbox[link] \in Seq(Message)
          /\ outbox'[link] \in {outbox[link], Feed!WithWord(link)}
      BY <1>1, <1>5, <2>2, Announced, LinkIsLink DEF Announce
    <3>2. CASE outbox'[link] = outbox[link]
      BY <2>2, <3>2
    <3>3. Feed!Word(revision) \in Message /\ Feed!Word(revision).revision = revision
      <4>1. revision \in 0..MaxRevision /\ "snapshot" \in Kinds
        BY <1>1, Bounds DEF Kinds
      <4> QED
        BY <4>1, MessageTypes
    <3>4. CASE outbox'[link] = Append(outbox[link], Feed!Word(revision))
      BY <2>2, <3>1, <3>3, <3>4, CarriesAppend
    <3>5. ASSUME NEW p \in DOMAIN outbox[link], DOMAIN outbox'[link] = DOMAIN outbox[link],
                 outbox'[link][p] = Feed!Word(revision)
          PROVE  CarriesState(outbox'[link])
      <4>1. p \in DOMAIN outbox'[link] /\ outbox'[link][p].revision # 0
        BY <1>1, <3>3, <3>5
      <4> QED
        BY <4>1, CarriesAt
    <3>6. revision \in 0..MaxRevision
      BY <1>1, Bounds
    <3> QED
      BY <3>1, <3>2, <3>4, <3>5, <3>6, WordPlaces
  <2> QED
    BY <2>1, <2>2 DEF Underway, Asked, CarriesState
<1>6. CASE Serve
  <2>1. UNCHANGED <<link, linked, connected, channel>> /\ inbox' = Tail(inbox) /\ inbox # << >>
        /\ linked /\ link \in connected
    BY <1>1, <1>6, Served DEF Serve, linkVars
  <2>2. CASE link \in closing'
    BY <2>1, <2>2 DEF Underway
  <2>3. CASE link \notin closing'
    <3>1. PICK carried \in {0, revision'} :
            /\ closing' = closing
            /\ Feed!ReplyTo(Head(inbox).kind, carried) \in Message
            /\ outbox'[link] = Append(outbox[link], Feed!ReplyTo(Head(inbox).kind, carried))
            /\ Head(inbox).kind = "snapshot" => carried # 0
      BY <1>6, <2>3, Replied
    <3>2. outbox[link] \in Seq(Message)
      BY <1>1, <2>1, LinkIsLink
    <3>3. Feed!ReplyTo(Head(inbox).kind, carried).revision = carried
      BY DEF Feed!ReplyTo
    <3>4. CarriesState(outbox'[link]) <=> CarriesState(outbox[link]) \/ carried # 0
      BY <3>1, <3>2, <3>3, CarriesAppend
    <3>5. Asked(inbox) <=> Head(inbox) = Snapshot \/ Asked(inbox')
      BY <1>1, <2>1, AskedTail
    <3>6. Head(inbox) = Snapshot => carried # 0
      BY <3>1, SnapshotTyped
    <3>7. CarriesState(outbox[link]) \/ Asked(inbox) \/ Asked(channel)
      BY <2>1, <2>3, <3>1 DEF Underway
    <3>8. CarriesState(outbox'[link]) \/ Asked(inbox') \/ Asked(channel)
      BY <3>4, <3>5, <3>6, <3>7
    <3>9. CarriesState(outbox'[link']) \/ Asked(inbox') \/ Asked(channel')
      BY <2>1, <3>8
    <3> QED
      BY <3>9 DEF Underway, Asked, CarriesState
  <2> QED
    BY <2>2, <2>3
<1>7. CASE WriteRequest /\ linked
  <2>1. UNCHANGED <<link, linked, connected, closing, outbox>> /\ channel # << >>
        /\ channel' = Tail(channel) /\ inbox' = Append(inbox, Head(channel))
    BY <1>7 DEF WriteRequest, linkVars, feedVars
  <2>2. Head(channel) \in Request
    BY <1>1, <2>1, Tailed
  <2>3. Asked(inbox) \/ Asked(channel) => Asked(inbox') \/ Asked(channel')
    BY <1>1, <2>1, <2>2, AskedAppend, AskedTail
  <2> QED
    BY <2>1, <2>3 DEF Underway, Asked, CarriesState
<1>8. ASSUME UNCHANGED <<linked, link, connected, closing, outbox, inbox>>,
             Asked(channel) => Asked(channel')
      PROVE  Underway'
  BY <1>8 DEF Underway, Asked, CarriesState
<1>9. ASSUME NEW r \in Request, channel' = Append(channel, r) PROVE Asked(channel) => Asked(channel')
  BY <1>1, <1>9, AskedAppend
<1>10. CASE TakeEvent
  <2>1. UNCHANGED channel \/ channel' = Append(channel, Snapshot)
    BY <1>10, EventTaken DEF Types, Taken
  <2>2. UNCHANGED <<linked, link, connected, closing, outbox, inbox>>
    BY <1>10 DEF TakeEvent, linkVars, feedVars
  <2>3. Asked(channel) => Asked(channel')
    BY <1>9, <2>1, SnapshotTyped DEF Asked
  <2> QED
    BY <1>8, <2>2, <2>3
<1>11. CASE TouchProfiles
  <2> DEFINE request == [kind |-> "profile", touch |-> touched']
  <2>1. touched' \in 0..MaxTouches /\ channel' = Append(channel, request)
        /\ UNCHANGED <<linked, link, connected, closing, outbox, inbox>>
    BY <1>11, Grows DEF TouchProfiles, Frame, linkVars, feedVars, Types, AppOK
  <2>2. request \in Request
    BY <2>1 DEF Request, Kinds, Targets
  <2> HIDE DEF request
  <2>3. Asked(channel) => Asked(channel')
    BY <1>9, <2>1, <2>2
  <2> QED
    BY <1>8, <2>1, <2>3
<1>12. ASSUME NEW waiting, NEW due, Flushed(waiting, due) PROVE Asked(channel) => Asked(channel')
  <2>1. PICK more \in Seq(Request) : channel' = channel \o more
    BY <1>12 DEF Flushed
  <2> QED
    BY <1>1, <2>1, AskedJoined
<1>13. CASE TouchTarget \/ SendPending
  <2>1. UNCHANGED <<linked, link, connected, closing, outbox, inbox>>
    BY <1>13 DEF TouchTarget, SendPending, Frame, linkVars, feedVars
  <2>2. \E waiting, due : Flushed(waiting, due)
    BY <1>13, TouchFlushes, PendingFlushes
  <2>3. Asked(channel) => Asked(channel')
    BY <1>12, <2>2
  <2> QED
    BY <1>8, <2>1, <2>3
<1>14. CASE EndDaemon \/ Drop
  BY <1>3, <1>14 DEF EndDaemon, Drop
<1>15. CASE Connect
  <2>1. inbox' = <<Snapshot>>
    BY <1>15 DEF Connect, FirstRequests
  <2>2. 1 \in DOMAIN inbox' /\ inbox'[1] = Snapshot
    BY <2>1
  <2>3. Asked(inbox')
    BY <2>2, AskedAt
  <2> QED
    BY <2>3 DEF Underway, Asked
<1>16. CASE StateChanges \/ SendPart
  <2>1. UNCHANGED <<linked, link, connected, closing, outbox, inbox, channel>>
    BY <1>16 DEF StateChanges, SendPart, Feed!StateChanges, Feed!Start, linkVars
  <2> QED
    BY <1>2, <2>1
<1>17. CASE WriteRequest /\ ~linked
  BY <1>3, <1>17 DEF WriteRequest, linkVars
<1>18. \/ UNCHANGED <<linked, link, connected, closing, outbox, inbox, channel>>
       \/ StateChanges \/ EndDaemon \/ Server \/ Connect \/ WriteRequest \/ TakeEvent
       \/ TouchProfiles \/ TouchTarget \/ SendPending
  BY DEF Next, Daemon, Reader, User, StartDaemon, CannotConnect,
     ReadTimesOut, ReadEnds, Frame, TouchLabel, Lock, Unlock, vars, feedVars, linkVars
<1> QED
  BY <1>2, <1>4, <1>5, <1>6, <1>7, <1>10, <1>11, <1>13, <1>14, <1>15, <1>16, <1>17, <1>18 DEF Server

(* What is to come if the screen is blank once the event at k is taken.    *)
NothingMalformed(k) == \A m \in DOMAIN events : m > k => events[m] # Malformed
StateComes(k) == \E m \in DOMAIN events : m > k /\ Carrying(events[m])

LEMMA OwedMeans ==
    Owed <=> (~torn /\ ~fragment =>
                \A k \in 0..Len(events) :
                  BlankAfter(k) /\ NothingMalformed(k) => Underway \/ StateComes(k))
  BY Zenon DEF Owed, NothingMalformed, StateComes

LEMMA StepOwed == Types /\ RepliesCarry /\ Owed /\ [Next]_vars => Owed'
<1> SUFFICES ASSUME Types, RepliesCarry, Owed, [Next]_vars,
                    ~torn', ~fragment', NEW k \in 0..Len(events'),
                    BlankAfter(k)', NothingMalformed(k)', ~Underway'
             PROVE  StateComes(k)'
  BY Zenon DEF Owed, NothingMalformed, StateComes
<1>1. events \in Seq(Event) /\ LinkOK /\ FeedOK /\ ServerOK /\ k \in Nat
      /\ DOMAIN events = 1..Len(events) /\ Len(events) \in Nat
      /\ events' \in Seq(Event) /\ DOMAIN events' = 1..Len(events') /\ Len(events') \in Nat
  BY EventsTyped DEF Types, FeedOK, LinkOK
<1>2. CASE UNCHANGED <<events, shown, connection, torn, fragment>> /\ ~ReadLine
  <2>1. BlankAfter(k) /\ NothingMalformed(k) /\ ~Underway /\ k \in 0..Len(events)
    BY <1>2, UnderwayStays DEF BlankAfter, NothingMalformed
  <2>2. StateComes(k)
    BY <1>2, <2>1, OwedMeans
  <2> QED
    BY <1>2, <2>2 DEF StateComes
<1>3. CASE ~linked'
  BY <1>3 DEF Underway
<1>4. CASE TakeEvent
  <2> DEFINE event == Head(events)
  <2>1. events # << >> /\ events' = Tail(events) /\ Taken(event) /\ event \in Event
    BY <1>1, <1>4, EventTaken
  <2>2. /\ Len(events') = Len(events) - 1 /\ 1 \in DOMAIN events /\ event = events[1]
        /\ \A i \in DOMAIN events' : events'[i] = events[i + 1] /\ i + 1 \in DOMAIN events
    BY <1>1, <2>1, Tailed
  <2>3. ~Underway /\ ~torn /\ ~fragment
    <3>0. Len(events') = Len(events) - 1 /\ Len(events) \in Nat
      BY <1>1, <2>2
    <3>1. \A e : Len(Append(events, e)) = Len(events) + 1
      BY <1>1
    <3>2. ~ReadLine
      <4>1. ReadLine => \E e : events' = Append(events, e)
        BY DEF ReadLine, Tell
      <4>2. Len(events') # Len(events) + 1
        BY <3>0
      <4> QED
        BY <3>1, <4>1, <4>2, Zenon
    <3> QED
      BY <1>4, <3>2, UnderwayStays DEF TakeEvent, linkVars
  <2> HIDE DEF event
  <2>4. ASSUME NEW m \in DOMAIN events, m > 1
        PROVE  m - 1 \in DOMAIN events' /\ events'[m - 1] = events[m]
    <3>1. m - 1 \in DOMAIN events' /\ (m - 1) + 1 = m
      BY <1>1, <2>2, <2>4
    <3> QED
      BY <2>2, <3>1
  <2>5. ASSUME BlankAfter(k + 1) PROVE StateComes(k)'
    <3>1. NothingMalformed(k + 1)
      BY <1>1, <2>4 DEF NothingMalformed
    <3>2. k + 1 \in 0..Len(events)
      BY <1>1, <2>2
    <3>3. StateComes(k + 1)
      BY <2>3, <2>5, <3>1, <3>2, OwedMeans
    <3> QED
      BY <1>1, <2>4, <3>3 DEF StateComes
  <2>6. CASE k # 0
    <3>1. k \in DOMAIN events' /\ k + 1 # 0
      BY <1>1, <2>6
    <3> QED
      BY <2>2, <2>5, <2>6, <3>1 DEF BlankAfter
  <2>7. CASE k = 0
    <3>1. shown' = Nothing /\ connection' # "protocol_error"
      BY <2>7 DEF BlankAfter
    <3>2. CASE event \in {Connected, Disconnected}
      BY <2>2, <2>5, <2>7, <3>2 DEF BlankAfter
    <3>3. CASE event = Malformed
      BY <2>1, <3>1, <3>3, EventKinds DEF Taken, Carrying, Malformed, Connected, Disconnected
    <3>4. CASE event.kind = "response" /\ ~Carrying(event) /\ UNCHANGED <<connection, shown>>
      <4>1. event # Malformed
        BY <3>4 DEF Malformed
      <4>2. BlankAfter(0)
        BY <3>1, <3>4 DEF BlankAfter
      <4>3. NothingMalformed(0)
        <5>1. \A m \in DOMAIN events : m = 1 \/ m > 1
          BY <1>1
        <5>2. \A m \in DOMAIN events : m > 1 => m - 1 > 0
          BY <1>1
        <5> QED
          BY <2>2, <2>4, <2>7, <4>1, <5>1, <5>2 DEF NothingMalformed
      <4>4. StateComes(0)
        BY <1>1, <2>3, <4>2, <4>3, OwedMeans
      <4>5. PICK m \in DOMAIN events : m > 0 /\ Carrying(events[m])
        BY <4>4 DEF StateComes
      <4>6. m > 1 /\ m - 1 > 0
        BY <1>1, <2>2, <3>4, <4>5
      <4> QED
        BY <2>4, <2>7, <4>5, <4>6 DEF StateComes
    <3>5. CASE channel' = Append(channel, Snapshot)
      <4>1. Asked(channel')
        BY <1>1, <3>5, AskedAppend, SnapshotTyped DEF LinkOK
      <4> QED
        BY <4>1 DEF Underway, Asked
    <3>6. CASE Carrying(event) /\ shown' = event.state
      BY <3>1, <3>6 DEF Carrying, Nothing
    <3> QED
      BY <2>1, <3>2, <3>3, <3>4, <3>5, <3>6 DEF Taken
  <2> QED
    BY <2>6, <2>7
<1>5. CASE ReadLine
  <2>1. /\ link \in connected /\ outbox[link] # << >> /\ outbox' = [outbox EXCEPT ![link] = Tail(@)]
        /\ Tell(IF torn THEN Malformed ELSE Response(Head(outbox[link])))
        /\ UNCHANGED <<link, linked, connected, closing, inbox, channel, fragment, shown, connection>>
    BY <1>5 DEF ReadLine, Feed!Deliver, linkVars, viewVars
  <2>2. linked /\ link \in Links /\ outbox[link] \in Seq(Message) /\ outbox \in [Links -> Seq(Message)]
    BY <1>1, <2>1, LinkIsLink DEF ServerOK
  <2> DEFINE e == IF torn THEN Malformed ELSE Response(Head(outbox[link]))
  <2>3. e.kind \in {"malformed", "response"} /\ events' = Append(events, e)
    BY <2>1 DEF Malformed, Response, Tell
  <2>4. Len(events') = Len(events) + 1 /\ events'[Len(events) + 1] = e
        /\ \A i \in DOMAIN events : events'[i] = events[i]
    BY <1>1, <2>3
  <2>5. Len(events) + 1 \in DOMAIN events'
    BY <1>1, <2>4
  <2>6. ~torn => e = Response(Head(outbox[link]))
    OBVIOUS
  <2>7. torn => e = Malformed
    OBVIOUS
  <2> HIDE DEF e
  <2>8. k \in 0..Len(events)
    <3>1. ASSUME k = Len(events) + 1 PROVE FALSE
      <4>1. k # 0 /\ events'[k] = e
        BY <1>1, <2>4, <3>1
      <4>2. e \in {Connected, Disconnected}
        BY <4>1 DEF BlankAfter
      <4> QED
        BY <2>3, <4>2 DEF Connected, Disconnected
    <3> QED
      BY <1>1, <2>4, <3>1
  <2>9. ~torn
    <3>1. torn => FALSE
      BY <1>1, <2>4, <2>5, <2>7, <2>8 DEF NothingMalformed
    <3> QED
      BY <3>1
  <2>10. BlankAfter(k)
    <3>1. k # 0 => k \in DOMAIN events
      BY <1>1, <2>8
    <3> QED
      BY <2>1, <2>4, <3>1 DEF BlankAfter
  <2>11. \A m \in DOMAIN events : m \in DOMAIN events'
    BY <1>1, <2>4
  <2>12. NothingMalformed(k)
    BY <2>4, <2>11 DEF NothingMalformed
  <2>13. ~fragment
    BY <2>1
  <2>14. Underway \/ StateComes(k)
    BY <2>8, <2>9, <2>10, <2>12, <2>13, OwedMeans
  <2>15. CASE StateComes(k)
    BY <2>4, <2>11, <2>15 DEF StateComes
  <2>16. CASE Underway
    <3>1. outbox'[link] = Tail(outbox[link])
      BY <2>1, <2>2
    <3>2. ~CarriesState(outbox'[link]) /\ ~Asked(inbox) /\ ~Asked(channel) /\ link \notin closing
      BY <2>1, <2>2 DEF Underway, Asked, CarriesState
    <3>3. CarriesState(outbox[link])
      BY <2>1, <2>2, <2>16, <3>2 DEF Underway
    <3>4. Head(outbox[link]).revision # 0
      BY <2>1, <2>2, <3>1, <3>2, <3>3, CarriesTail
    <3>5. Carrying(e)
      BY <2>6, <2>9, <3>4 DEF Response, Carrying
    <3>6. Len(events) + 1 > k
      BY <1>1, <2>8
    <3> QED
      BY <2>4, <2>5, <3>5, <3>6 DEF StateComes
  <2> QED
    BY <2>14, <2>15, <2>16
<1>6. CASE Connect
  <2>1. inbox' = <<Snapshot>>
    BY <1>6 DEF Connect, FirstRequests
  <2>2. 1 \in DOMAIN inbox' /\ inbox'[1] = Snapshot
    BY <2>1
  <2>3. Asked(inbox')
    BY <2>2, AskedAt
  <2> QED
    BY <2>3 DEF Underway, Asked
<1>7. CASE EndDaemon \/ CannotConnect \/ ReadEnds
  <2>1. ~linked'
    BY <1>1, <1>7 DEF EndDaemon, CannotConnect, ReadEnds, LinkOK, linkVars
  <2> QED
    BY <1>3, <2>1
<1>8. CASE ReadTimesOut
  BY <1>8 DEF ReadTimesOut
<1>9. CASE ~(TakeEvent \/ ReadLine \/ Connect \/ CannotConnect \/ EndDaemon \/ ReadEnds \/ ReadTimesOut)
  <2>1. UNCHANGED <<events, shown, connection, torn, fragment>>
    BY <1>9 DEF Next, Daemon, Server, Reader, User, StartDaemon, StateChanges, Accept, Announce,
       Serve, SendPart, Drop, WriteRequest, Frame, TouchTarget, SendPending, TouchLabel, TouchProfiles,
       Lock, Unlock, vars, viewVars, linkVars
  <2> QED
    BY <1>2, <1>9, <2>1
<1> QED
  BY <1>4, <1>5, <1>6, <1>7, <1>8, <1>9

LEMMA OwedMeansOwed == Types /\ Owed => BlankIsOwed
<1> SUFFICES ASSUME Types, Owed, shown = Nothing, ~Spoiled, ~Underway
             PROVE  \E event \in Range(events) : event.kind = "response" /\ event.state.revision # 0
  BY DEF BlankIsOwed, Underway
<1>1. connection # "protocol_error" /\ ~torn /\ ~fragment /\ Malformed \notin Range(events)
  BY DEF Spoiled
<1>2. BlankAfter(0) /\ NothingMalformed(0) /\ 0 \in 0..Len(events)
  BY <1>1 DEF BlankAfter, NothingMalformed, Range, Types, LinkOK
<1>3. StateComes(0)
  BY <1>1, <1>2, OwedMeans
<1> QED
  BY <1>3 DEF StateComes, Carrying, Range

LEMMA AlwaysReplies == Spec => []RepliesCarry
<1>1. Init => RepliesCarry
  BY DEF Init, Feed!FeedInit, RepliesCarry
<1> QED
  BY <1>1, AlwaysTypes, StepReplies, PTL DEF Spec

(* A screen that shows nothing is never forgotten: a state is on its way,  *)
(* or has been asked for, or the reader will find its connection ended,    *)
(* unless a malformed line has spoiled it.                                 *)
THEOREM BlankScreenIsOwed == Spec => []BlankIsOwed
<1>1. Init => Owed
  BY DEF Init, Owed, Underway
<1> QED
  BY <1>1, AlwaysTypes, AlwaysReplies, StepOwed, OwedMeansOwed, PTL DEF Spec

-----------------------------------------------------------------------------
(* What is shown last. *)

LEMMA StepWords == Types /\ RepliesCarry /\ WordsAnnounced /\ [Next]_vars => WordsAnnounced'
<1> SUFFICES ASSUME Types, RepliesCarry, WordsAnnounced, [Next]_vars,
                    NEW c \in Links, NEW i \in DOMAIN outbox'[c], outbox'[c][i].event
             PROVE  outbox'[c][i].revision <= announced'
  BY DEF WordsAnnounced
<1>1. FeedOK /\ LinkOK /\ revision \in 1..MaxRevision /\ announced \in 0..revision /\ announced \in Nat
      /\ outbox \in [Links -> Seq(Message)]
  BY Bounds DEF Types, FeedOK, ServerOK
<1>2. ~EndDaemon
  BY DEF EndDaemon
<1>3. announced' = announced \/ (Announce /\ announced' = revision)
  <2>1. CASE Announce
    BY <1>1, <2>1, Announced DEF Announce
  <2>2. CASE ~Announce
    BY <1>2, <2>2 DEF Next, Daemon, Server, Reader, User, StartDaemon, StateChanges, Accept,
     Serve, SendPart, Drop, Connect, CannotConnect, WriteRequest, ReadLine, ReadTimesOut, ReadEnds,
     TakeEvent, Frame, TouchTarget, SendPending, TouchLabel, TouchProfiles, Lock, Unlock,
     vars, feedVars, Feed!StateChanges, Feed!Join, Feed!Start, Feed!Leave, Feed!Deliver, Feed!Answers
  <2> QED
    BY <2>1, <2>2
<1>4. CASE \E j \in DOMAIN outbox[c] : outbox'[c][i] = outbox[c][j]
  <2>1. PICK j \in DOMAIN outbox[c] : outbox'[c][i] = outbox[c][j]
    BY <1>4
  <2>2. outbox[c][j] \in Message
    BY <1>1
  <2>3. outbox[c][j].revision <= announced /\ outbox[c][j].revision \in Nat
    BY <2>1, <2>2, Bounds DEF WordsAnnounced, Message
  <2> QED
    BY <1>1, <1>3, <2>1, <2>3
<1>5. CASE NewMessage(outbox'[c][i])
  <2>1. \A tag, r : ~Feed!ReplyTo(tag, r).event
    BY DEF Feed!ReplyTo
  <2>2. Announce /\ outbox'[c][i] = Feed!Word(revision)
    BY <1>5, <2>1 DEF NewMessage
  <2>3. announced' = revision
    BY <1>1, <2>2, Announced DEF Announce
  <2> QED
    BY <1>1, <2>2, <2>3 DEF Feed!Word
<1> QED
  BY <1>4, <1>5, MessagesFrom

LEMMA StepFirst == Types /\ FirstIsAsked /\ [Next]_vars => FirstIsAsked'
<1> SUFFICES ASSUME Types, FirstIsAsked, [Next]_vars, linked', announced' = 0
             PROVE  Asked(inbox')
  BY DEF FirstIsAsked, Asked
<1>1. FeedOK /\ LinkOK /\ revision \in 1..MaxRevision /\ inbox \in Seq(Request)
      /\ channel \in Seq(Request)
  BY DEF Types, FeedOK, ServerOK, LinkOK
<1>2. CASE UNCHANGED <<linked, announced, inbox>>
  BY <1>2 DEF FirstIsAsked, Asked
<1>3. CASE Connect
  <2>1. inbox' = <<Snapshot>>
    BY <1>3 DEF Connect, FirstRequests
  <2>2. 1 \in DOMAIN inbox' /\ inbox'[1] = Snapshot
    BY <2>1
  <2> QED
    BY <2>2, AskedAt
<1>4. CASE Announce
  BY <1>1, <1>4, Announced DEF Announce
<1>5. CASE Serve
  BY <1>1, <1>5, Served
<1>6. CASE WriteRequest
  <2>1. linked /\ UNCHANGED announced /\ inbox' = Append(inbox, Head(channel)) /\ channel # << >>
    BY <1>6 DEF WriteRequest, linkVars, feedVars
  <2>2. Head(channel) \in Request
    BY <1>1, <2>1, Tailed
  <2> QED
    BY <1>1, <2>1, <2>2, AskedAppend DEF FirstIsAsked
<1>7. CASE EndDaemon \/ Drop
  BY <1>7 DEF EndDaemon, Drop
<1>8. UNCHANGED <<linked, announced, inbox>> \/ Connect \/ Announce \/ Serve \/ WriteRequest
      \/ EndDaemon \/ Drop
  BY DEF Next, Daemon, Server, Reader, User, StartDaemon, StateChanges, Accept,
     SendPart, CannotConnect, ReadLine, ReadTimesOut, ReadEnds,
     TakeEvent, Frame, TouchTarget, SendPending, TouchLabel, TouchProfiles, Lock, Unlock,
     vars, feedVars, linkVars, Feed!StateChanges, Feed!Join, Feed!Start, Feed!Deliver
<1> QED
  BY <1>2, <1>3, <1>4, <1>5, <1>6, <1>7, <1>8

(* The last message with a state carries the one that was announced.       *)
LastOnItsWay ==
    \A i \in DOMAIN outbox[link] :
      /\ outbox[link][i].revision # 0
      /\ \A j \in DOMAIN outbox[link] : i < j => outbox[link][j].revision = 0
      /\ announced = revision
      => outbox[link][i].revision = revision

(* And when none is on its way, so does the last event, or the screen.     *)
LastEvent ==
    \A k \in DOMAIN events :
      Carrying(events[k]) /\ (\A m \in DOMAIN events : k < m => ~Changing(events[m]))
        => Latest(events[k].state)

LastShown == (\A k \in DOMAIN events : ~Changing(events[k])) /\ shown # Nothing => Latest(shown)

LastTaken == ~CarriesState(outbox[link]) /\ ~torn => LastEvent /\ LastShown

(* Latest, once the step is taken. *)
LatestThen(state) == state.daemon = daemon' /\ (announced' = revision' => state.revision = revision')

LEMMA LastMeans == LastIsLatest <=> (Settled => LastOnItsWay /\ LastTaken)
  BY Zenon DEF LastIsLatest, LastOnItsWay, LastTaken, LastEvent, LastShown

LEMMA StepLastOnItsWay ==
    ASSUME Types, RepliesCarry, WordsAnnounced, FirstIsAsked, LastIsLatest, [Next]_vars,
           Server \/ ReadLine, Settled'
    PROVE  LastOnItsWay'
<1>1. FeedOK /\ ServerOK /\ LinkOK /\ outbox \in [Links -> Seq(Message)]
      /\ revision \in 1..MaxRevision /\ announced \in 0..revision /\ revision \in Nat /\ announced \in Nat
  BY Bounds DEF Types, FeedOK, ServerOK
<1>2. link' = link /\ linked' = linked
  <2>1. CASE Drop
    BY <2>1 DEF Drop, Feed!Leave, Settled
  <2> QED
    BY <2>1 DEF Server, Accept, Announce, Serve, SendPart, ReadLine, linkVars
<1>3. linked /\ link \in Links /\ outbox[link] \in Seq(Message)
  <2>1. link \in connected'
    BY <1>2 DEF Settled
  <2>2. connected' \subseteq (IF linked' THEN {link'} ELSE {})
    BY FeedTyped DEF FeedOK, ServerOK
  <2> QED
    BY <1>1, <1>2, <2>1, <2>2, LinkIsLink
<1>4. CASE Accept
  <2>1. outbox'[link] = <<Feed!ReplyTo("snapshot", revision)>> /\ revision' = revision
    BY <1>1, <1>3, <1>4 DEF Accept, Feed!Join
  <2>2. \A i \in DOMAIN outbox'[link] : outbox'[link][i].revision = revision
    BY <2>1 DEF Feed!ReplyTo
  <2> QED
    BY <1>2, <2>1, <2>2 DEF LastOnItsWay
<1>5. CASE Announce
  <2>1. /\ announced' = revision /\ announced # revision
        /\ UNCHANGED <<revision, connected, inbox>>
        /\ closing \subseteq closing'
    BY <1>1, <1>5, Announced DEF Announce
  <2>2. announced # 0
    BY <1>2, <1>3, <2>1 DEF FirstIsAsked, Settled, Asked
  <2>3. outbox'[link] = Feed!WithWord(link)
    <3>1. link \in Links \cap (connected \ closing')
      BY <1>2, <1>3, <2>1 DEF Settled
    <3> QED
      BY <1>1, <1>5, <2>2, <3>1, Announced DEF Announce
  <2>4. Feed!Word(revision).revision = revision /\ Feed!Word(revision) \in Message
    <3>1. revision \in 0..MaxRevision /\ "snapshot" \in Kinds
      BY <1>1, Bounds DEF Kinds
    <3> QED
      BY <3>1, MessageTypes
  <2>5. CASE outbox'[link] = Append(outbox[link], Feed!Word(revision))
    <3>1. /\ DOMAIN outbox'[link] = 1..(Len(outbox[link]) + 1) /\ Len(outbox[link]) \in Nat
          /\ outbox'[link][Len(outbox[link]) + 1] = Feed!Word(revision)
      BY <1>3, <2>4, <2>5, Appended
    <3>2. ASSUME NEW i \in DOMAIN outbox'[link],
                 \A j \in DOMAIN outbox'[link] : i < j => outbox'[link][j].revision = 0
          PROVE  outbox'[link][i].revision = revision
      <4>1. Len(outbox[link]) + 1 \in DOMAIN outbox'[link]
        BY <3>1
      <4>2. ~(i < Len(outbox[link]) + 1)
        BY <1>1, <2>4, <3>1, <3>2, <4>1
      <4>3. i = Len(outbox[link]) + 1
        BY <3>1, <4>2
      <4> QED
        BY <2>4, <3>1, <4>3
    <3> QED
      BY <1>2, <2>1, <3>2 DEF LastOnItsWay
  <2>6. ASSUME NEW p \in DOMAIN outbox[link], outbox[link][p].event,
               DOMAIN outbox'[link] = DOMAIN outbox[link], Len(outbox'[link]) = Len(outbox[link]),
               outbox'[link][p] = Feed!Word(revision),
               \A j \in DOMAIN outbox[link] \ {p} : outbox'[link][j] = outbox[link][j]
        PROVE  LastOnItsWay'
    <3>1. outbox[link][p].revision <= announced
      BY <1>3, <2>6 DEF WordsAnnounced
    <3>2. outbox'[link][p] # outbox[link][p]
      BY <1>1, <2>1, <2>4, <2>6, <3>1
    <3>3. ~Overtakes
      <4>1. outbox' # outbox
        BY <3>2
      <4>2. overtaken' = IF outbox' = outbox THEN overtaken ELSE Overtakes
        BY <1>5, Zenon DEF Announce
      <4>3. ~overtaken'
        BY DEF Settled
      <4> QED
        BY <4>1, <4>2, <4>3, Zenon
    <3>4. \A j \in DOMAIN outbox[link] : p < j => outbox[link][j].revision = 0
      <4>1. link \in DOMAIN outbox
        BY <1>1, <1>3
      <4> QED
        BY <2>6, <3>2, <3>3, <4>1 DEF Overtakes
    <3>5. ASSUME NEW i \in DOMAIN outbox'[link], outbox'[link][i].revision # 0,
                 \A j \in DOMAIN outbox'[link] : i < j => outbox'[link][j].revision = 0
          PROVE  outbox'[link][i].revision = revision
      <4>1. i \in Nat /\ p \in Nat
        BY <1>3, <2>6
      <4>2. ~(i < p)
        BY <1>1, <2>4, <2>6, <3>5
      <4>3. ~(p < i)
        BY <2>6, <3>4, <3>5, <4>1
      <4>4. i = p
        BY <4>1, <4>2, <4>3
      <4> QED
        BY <2>4, <2>6, <4>4
    <3> QED
      BY <1>2, <2>1, <3>5 DEF LastOnItsWay
  <2>7. revision \in 0..MaxRevision
    BY <1>1, Bounds
  <2> QED
    BY <1>3, <2>3, <2>5, <2>6, <2>7, WordPlaces
<1>6. CASE Serve
  <2>1. link \notin closing'
    BY <1>2 DEF Settled
  <2>2. PICK carried \in {0, revision'} :
          /\ closing' = closing
          /\ Feed!ReplyTo(Head(inbox).kind, carried) \in Message
          /\ outbox'[link] = Append(outbox[link], Feed!ReplyTo(Head(inbox).kind, carried))
          /\ Head(inbox).kind = "snapshot" => carried # 0
    BY <1>6, <2>1, Replied
  <2> DEFINE reply == Feed!ReplyTo(Head(inbox).kind, carried)
  <2>3. reply.revision = carried
    BY DEF Feed!ReplyTo
  <2>4. reply \in Message /\ outbox'[link] = Append(outbox[link], reply)
    BY <2>2
  <2> HIDE DEF reply
  <2>5. /\ DOMAIN outbox'[link] = 1..(Len(outbox[link]) + 1) /\ Len(outbox[link]) \in Nat
        /\ DOMAIN outbox[link] = 1..Len(outbox[link])
        /\ (\A i \in DOMAIN outbox[link] : outbox'[link][i] = outbox[link][i])
        /\ outbox'[link][Len(outbox[link]) + 1] = reply
    BY <1>3, <2>4, Appended
  <2>6. /\ inbox # << >> /\ inbox' = Tail(inbox) /\ announced' = announced /\ connected' = connected
        /\ revision' \in 1..MaxRevision /\ revision <= revision' /\ revision' \in Nat
    BY <1>1, <1>6, Served, Bounds
  <2>7. Len(outbox[link]) + 1 \in DOMAIN outbox'[link]
    BY <2>5
  <2>8. CASE carried # 0
    <3>1. reply.revision = revision' /\ reply.revision # 0
      BY <2>2, <2>3, <2>8
    <3>2. ASSUME NEW i \in DOMAIN outbox'[link],
                 \A j \in DOMAIN outbox'[link] : i < j => outbox'[link][j].revision = 0
          PROVE  outbox'[link][i].revision = revision'
      <4>1. ~(i < Len(outbox[link]) + 1)
        BY <2>5, <2>7, <3>1, <3>2
      <4>2. i = Len(outbox[link]) + 1
        BY <2>5, <4>1
      <4> QED
        BY <2>5, <3>1, <4>2
    <3> QED
      BY <1>2, <3>2 DEF LastOnItsWay
  <2>9. CASE carried = 0
    <3>1. Settled
      <4>1. Head(inbox) # Snapshot
        BY <2>2, <2>9, SnapshotTyped
      <4>2. ~Asked(inbox)
        BY <1>1, <2>6, <4>1, AskedTail DEF Settled, Asked, LinkOK
      <4>3. ~overtaken
        <5>1. outbox' # outbox
          <6>1. Len(outbox[link]) + 1 \notin DOMAIN outbox[link]
            BY <2>5
          <6> QED
            BY <2>7, <6>1
        <5>2. Last(outbox'[link]).revision = 0
          <6>1. Len(outbox'[link]) = Len(outbox[link]) + 1
            BY <1>3, <2>4
          <6> QED
            BY <2>3, <2>5, <2>9, <6>1 DEF Last
        <5>3. overtaken' = (overtaken /\ (outbox' = outbox \/ Last(outbox'[link]).revision = 0))
          BY <1>6, Zenon DEF Serve
        <5>4. ~overtaken'
          BY DEF Settled
        <5> QED
          BY <5>2, <5>3, <5>4, Zenon
      <4> QED
        BY <1>2, <2>2, <2>6, <4>2, <4>3 DEF Settled
    <3>2. LastOnItsWay
      BY <3>1, LastMeans
    <3>3. ASSUME NEW i \in DOMAIN outbox'[link], outbox'[link][i].revision # 0,
                 \A j \in DOMAIN outbox'[link] : i < j => outbox'[link][j].revision = 0,
                 announced' = revision'
          PROVE  outbox'[link][i].revision = revision'
      <4>1. i \in DOMAIN outbox[link]
        BY <2>3, <2>5, <2>9, <3>3
      <4>2. \A j \in DOMAIN outbox[link] : j \in DOMAIN outbox'[link]
        BY <2>5
      <4>3. \A j \in DOMAIN outbox[link] : i < j => outbox[link][j].revision = 0
        BY <2>5, <3>3, <4>2
      <4>4. announced = revision /\ revision' = revision
        BY <1>1, <2>6, <3>3
      <4>5. outbox[link][i].revision # 0
        BY <2>5, <3>3, <4>1
      <4>6. outbox[link][i].revision = revision
        BY <3>2, <4>1, <4>3, <4>4, <4>5 DEF LastOnItsWay
      <4> QED
        BY <2>5, <4>1, <4>4, <4>6
    <3> QED
      BY <1>2, <3>3 DEF LastOnItsWay
  <2> QED
    BY <2>8, <2>9
<1>7. CASE SendPart
  <2>1. UNCHANGED <<link, connected, closing, overtaken, inbox, outbox, announced, revision>>
    BY <1>7 DEF SendPart, Feed!Start, linkVars
  <2>2. Settled
    BY <2>1 DEF Settled, Asked
  <2>3. LastOnItsWay
    BY <2>2, LastMeans
  <2> QED
    BY <2>1, <2>3 DEF LastOnItsWay
<1>8. CASE Drop
  BY <1>8, <1>2 DEF Drop, Feed!Leave, Settled
<1>9. CASE ReadLine
  <2>1. outbox' = [outbox EXCEPT ![link] = Tail(@)] /\ outbox[link] # << >>
        /\ UNCHANGED <<connected, closing, overtaken, inbox, announced, revision>>
    BY <1>9 DEF ReadLine, Feed!Deliver
  <2>2. outbox'[link] = Tail(outbox[link])
    BY <1>1, <1>3, <2>1
  <2>3. /\ DOMAIN outbox'[link] = 1..(Len(outbox[link]) - 1) /\ Len(outbox[link]) \in Nat
        /\ DOMAIN outbox[link] = 1..Len(outbox[link])
        /\ \A i \in DOMAIN outbox'[link] :
             outbox'[link][i] = outbox[link][i + 1] /\ i + 1 \in DOMAIN outbox[link]
    BY <1>3, <2>1, <2>2, Tailed
  <2>4. Settled
    BY <1>2, <2>1 DEF Settled, Asked
  <2>5. LastOnItsWay
    BY <2>4, LastMeans
  <2>6. ASSUME NEW i \in DOMAIN outbox'[link], outbox'[link][i].revision # 0,
               \A j \in DOMAIN outbox'[link] : i < j => outbox'[link][j].revision = 0,
               announced = revision
        PROVE  outbox'[link][i].revision = revision
    <3>1. ASSUME NEW j \in DOMAIN outbox[link], i + 1 < j PROVE outbox[link][j].revision = 0
      <4>1. j - 1 \in DOMAIN outbox'[link] /\ i < j - 1 /\ (j - 1) + 1 = j
        BY <2>3, <3>1
      <4> QED
        BY <2>3, <2>6, <4>1
    <3>2. outbox'[link][i] = outbox[link][i + 1] /\ i + 1 \in DOMAIN outbox[link]
      BY <2>3
    <3> QED
      BY <2>5, <2>6, <3>1, <3>2 DEF LastOnItsWay
  <2> QED
    BY <1>2, <2>1, <2>6 DEF LastOnItsWay
<1> QED
  BY <1>4, <1>5, <1>6, <1>7, <1>8, <1>9 DEF Server

LEMMA StepLastTaken ==
    ASSUME Types, RepliesCarry, WordsAnnounced, FirstIsAsked, LastIsLatest, [Next]_vars,
           Server \/ ReadLine, Settled'
    PROVE  LastTaken'
<1> SUFFICES ASSUME ~CarriesState(outbox'[link']), ~torn'
             PROVE  LastEvent' /\ LastShown'
  BY DEF LastTaken, CarriesState
<1>1. FeedOK /\ ServerOK /\ LinkOK /\ outbox \in [Links -> Seq(Message)]
      /\ revision \in 1..MaxRevision /\ announced \in 0..revision /\ revision \in Nat /\ announced \in Nat
      /\ events \in Seq(Event)
  BY Bounds DEF Types, FeedOK, ServerOK, LinkOK
<1>2. link' = link /\ linked' = linked
  <2>1. CASE Drop
    BY <2>1 DEF Drop, Feed!Leave, Settled
  <2> QED
    BY <2>1 DEF Server, Accept, Announce, Serve, SendPart, ReadLine, linkVars
<1>3. linked /\ link \in Links /\ outbox[link] \in Seq(Message)
  <2>1. link \in connected'
    BY <1>2 DEF Settled
  <2>2. connected' \subseteq (IF linked' THEN {link'} ELSE {})
    BY FeedTyped DEF FeedOK, ServerOK
  <2> QED
    BY <1>1, <1>2, <2>1, <2>2, LinkIsLink
<1>4. ASSUME Settled, LastTaken, ~CarriesState(outbox[link]), ~torn,
             UNCHANGED <<events, shown, daemon>>, announced' = revision' => announced = revision /\ revision' = revision
      PROVE  LastEvent' /\ LastShown'
  <2>1. LastEvent /\ LastShown
    BY <1>4 DEF LastTaken
  <2>2. \A state : Latest(state) => LatestThen(state)
    BY <1>4 DEF Latest, LatestThen
  <2>3. LastEvent'
    BY <1>4, <2>1, <2>2 DEF LastEvent, Latest, LatestThen, Carrying, Changing
  <2>4. LastShown'
    BY <1>4, <2>1, <2>2 DEF LastShown, Latest, LatestThen, Carrying, Changing
  <2> QED
    BY <2>3, <2>4
<1>5. CASE Accept
  <2>1. outbox'[link] = <<Feed!ReplyTo("snapshot", revision)>>
    BY <1>1, <1>3, <1>5 DEF Accept, Feed!Join
  <2>2. 1 \in DOMAIN outbox'[link] /\ outbox'[link][1].revision # 0
    BY <1>1, <2>1 DEF Feed!ReplyTo
  <2> QED
    BY <1>2, <2>2, CarriesAt
<1>6. CASE Announce
  <2>1. /\ announced' = revision /\ announced # revision
        /\ UNCHANGED <<revision, connected, inbox>>
    BY <1>1, <1>6, Announced DEF Announce
  <2>2. announced # 0
    BY <1>2, <1>3, <2>1 DEF FirstIsAsked, Settled, Asked
  <2>3. outbox'[link] = Feed!WithWord(link)
    <3>1. link \in Links \cap (connected \ closing')
      BY <1>2, <1>3, <2>1 DEF Settled
    <3> QED
      BY <1>1, <1>6, <2>2, <3>1, Announced DEF Announce
  <2>4. revision \in 0..MaxRevision /\ "snapshot" \in Kinds
    BY <1>1, Bounds DEF Kinds
  <2>5. Feed!Word(revision).revision # 0 /\ Feed!Word(revision) \in Message
    BY <1>1, <2>4, MessageTypes
  <2>6. \E i \in DOMAIN outbox'[link] : outbox'[link][i] = Feed!Word(revision)
    <3>1. CASE outbox'[link] = Append(outbox[link], Feed!Word(revision))
      <4>1. Append(outbox[link], Feed!Word(revision))[Len(outbox[link]) + 1] = Feed!Word(revision)
            /\ Len(outbox[link]) + 1 \in DOMAIN Append(outbox[link], Feed!Word(revision))
        BY <1>3, <2>5, Appended
      <4> QED
        BY <3>1, <4>1
    <3> QED
      BY <1>3, <2>3, <2>4, <3>1, WordPlaces
  <2> QED
    BY <1>2, <2>5, <2>6, CarriesAt
<1>7. CASE Serve
  <2>1. link \notin closing'
    BY <1>2 DEF Settled
  <2>2. PICK carried \in {0, revision'} :
          /\ closing' = closing
          /\ Feed!ReplyTo(Head(inbox).kind, carried) \in Message
          /\ outbox'[link] = Append(outbox[link], Feed!ReplyTo(Head(inbox).kind, carried))
          /\ Head(inbox).kind = "snapshot" => carried # 0
    BY <1>7, <2>1, Replied
  <2> DEFINE reply == Feed!ReplyTo(Head(inbox).kind, carried)
  <2>3. reply.revision = carried /\ reply \in Message /\ outbox'[link] = Append(outbox[link], reply)
    BY <2>2 DEF Feed!ReplyTo
  <2> HIDE DEF reply
  <2>4. carried = 0 /\ ~CarriesState(outbox[link])
    BY <1>2, <1>3, <2>3, CarriesAppend
  <2>5. /\ inbox # << >> /\ inbox' = Tail(inbox) /\ announced' = announced /\ connected' = connected
        /\ revision' \in 1..MaxRevision /\ revision <= revision' /\ revision' \in Nat
    BY <1>1, <1>7, Served, Bounds
  <2>6. Settled
    <3>1. Head(inbox) # Snapshot
      BY <2>2, <2>4, SnapshotTyped
    <3>2. ~Asked(inbox)
      BY <1>1, <2>5, <3>1, AskedTail DEF Settled, Asked, LinkOK
    <3>3. ~overtaken
      <4>1. DOMAIN outbox'[link] = 1..(Len(outbox[link]) + 1) /\ DOMAIN outbox[link] = 1..Len(outbox[link])
            /\ Len(outbox[link]) \in Nat /\ outbox'[link][Len(outbox[link]) + 1] = reply
            /\ Len(outbox'[link]) = Len(outbox[link]) + 1
        BY <1>3, <2>3, Appended
      <4>2. outbox' # outbox
        BY <4>1
      <4>3. Last(outbox'[link]).revision = 0
        BY <2>3, <2>4, <4>1 DEF Last
      <4>4. overtaken' = (overtaken /\ (outbox' = outbox \/ Last(outbox'[link]).revision = 0))
        BY <1>7, Zenon DEF Serve
      <4>5. ~overtaken'
        BY DEF Settled
      <4> QED
        BY <4>3, <4>4, <4>5, Zenon
    <3> QED
      BY <1>2, <2>2, <2>5, <3>2, <3>3 DEF Settled
  <2>7. LastTaken
    BY <2>6, LastMeans
  <2>8. UNCHANGED <<events, shown, daemon, torn>>
    BY <1>7 DEF Serve, viewVars
  <2>9. announced' = revision' => announced = revision /\ revision' = revision
    BY <1>1, <2>5
  <2> QED
    BY <1>4, <2>4, <2>6, <2>7, <2>8, <2>9
<1>8. CASE SendPart
  <2>1. UNCHANGED <<link, connected, closing, overtaken, inbox, outbox, announced, revision,
                    events, shown, daemon, torn>>
    BY <1>8 DEF SendPart, Feed!Start, linkVars, viewVars, daemonVars
  <2>2. Settled
    BY <2>1 DEF Settled, Asked
  <2>3. LastTaken
    BY <2>2, LastMeans
  <2>4. ~CarriesState(outbox[link]) /\ ~torn
    BY <2>1 DEF CarriesState
  <2> QED
    BY <1>4, <2>1, <2>2, <2>3, <2>4
<1>9. CASE Drop
  BY <1>9, <1>2 DEF Drop, Feed!Leave, Settled
<1>10. CASE ReadLine
  <2> DEFINE e == IF torn THEN Malformed ELSE Response(Head(outbox[link]))
  <2>1. outbox' = [outbox EXCEPT ![link] = Tail(@)] /\ outbox[link] # << >> /\ Tell(e)
        /\ UNCHANGED <<connected, closing, overtaken, inbox, announced, revision, shown, daemon>>
    BY <1>10 DEF ReadLine, Feed!Deliver, daemonVars, viewVars
  <2>2. outbox'[link] = Tail(outbox[link])
    BY <1>1, <1>3, <2>1
  <2>3. /\ DOMAIN outbox'[link] = 1..(Len(outbox[link]) - 1) /\ Len(outbox[link]) \in Nat
        /\ DOMAIN outbox[link] = 1..Len(outbox[link])
        /\ \A i \in DOMAIN outbox'[link] :
             outbox'[link][i] = outbox[link][i + 1] /\ i + 1 \in DOMAIN outbox[link]
        /\ 1 \in DOMAIN outbox[link] /\ Head(outbox[link]) = outbox[link][1]
    BY <1>3, <2>1, <2>2, Tailed
  <2>4. Settled
    BY <1>2, <2>1 DEF Settled, Asked
  <2>5. LastOnItsWay /\ LastTaken
    BY <2>4, LastMeans
  <2>6. DOMAIN events' = 1..(Len(events) + 1) /\ DOMAIN events = 1..Len(events) /\ Len(events) \in Nat
        /\ (\A i \in DOMAIN events : events'[i] = events[i]) /\ events'[Len(events) + 1] = e
    BY <1>1, <2>1 DEF Tell
  <2>7. torn => e = Malformed
    OBVIOUS
  <2>8. ~torn => e = Response(Head(outbox[link]))
    OBVIOUS
  <2> HIDE DEF e
  <2>9. Len(events) + 1 \in DOMAIN events' /\ (\A i \in DOMAIN events : i \in DOMAIN events' /\ i < Len(events) + 1)
        /\ \A i \in DOMAIN events' : i \in DOMAIN events \/ i = Len(events) + 1
    BY <2>6
  <2>10. ASSUME Changing(e), Carrying(e) => Latest(e.state)
         PROVE  LastEvent' /\ LastShown'
    <3>1. LastShown'
      BY <2>6, <2>9, <2>10 DEF LastShown, Changing, Carrying
    <3>2. ASSUME NEW k \in DOMAIN events', Carrying(events'[k]),
                 \A m \in DOMAIN events' : k < m => ~Changing(events'[m])
          PROVE  LatestThen(events'[k].state)
      <4>1. k = Len(events) + 1
        BY <2>6, <2>9, <2>10, <3>2
      <4> QED
        BY <2>1, <2>6, <2>10, <3>2, <4>1 DEF Latest, LatestThen
    <3> QED
      BY <3>1, <3>2 DEF LastEvent, Changing, Carrying, Latest, LatestThen
  <2>11. CASE torn
    BY <2>7, <2>10, <2>11 DEF Changing, Carrying, Malformed
  <2>12. CASE ~torn /\ Head(outbox[link]).revision # 0
    <3>1. e.kind = "response" /\ e.state.daemon = peer /\ e.state.revision = Head(outbox[link]).revision
      BY <2>8, <2>12 DEF Response
    <3>2. peer = daemon
      BY <1>1, <1>3 DEF LinkOK
    <3>3. ASSUME announced = revision PROVE outbox[link][1].revision = revision
      <4>1. ASSUME NEW j \in DOMAIN outbox[link], 1 < j PROVE outbox[link][j].revision = 0
        <5>1. j - 1 \in DOMAIN outbox'[link] /\ (j - 1) + 1 = j
          BY <2>3, <4>1
        <5>2. outbox'[link][j - 1].revision = 0
          BY <1>2, <5>1, CarriesAt
        <5> QED
          BY <2>3, <5>1, <5>2
      <4> QED
        BY <2>3, <2>5, <2>12, <3>3, <4>1 DEF LastOnItsWay
    <3>4. Carrying(e) /\ Latest(e.state)
      BY <2>3, <2>12, <3>1, <3>2, <3>3 DEF Carrying, Latest
    <3> QED
      BY <2>10, <3>4 DEF Changing
  <2>13. CASE ~torn /\ Head(outbox[link]).revision = 0
    <3>1. ~CarriesState(outbox[link])
      BY <1>2, <1>3, <2>1, <2>2, <2>13, CarriesTail
    <3>2. LastEvent /\ LastShown
      BY <2>5, <2>13, <3>1 DEF LastTaken
    <3>3. ~Changing(e) /\ ~Carrying(e)
      BY <2>8, <2>13 DEF Response, Changing, Carrying, Malformed, Disconnected
    <3>4. \A state : Latest(state) => LatestThen(state)
      BY <2>1 DEF Latest, LatestThen
    <3>5. ASSUME NEW k \in DOMAIN events', Carrying(events'[k]),
                 \A m \in DOMAIN events' : k < m => ~Changing(events'[m])
          PROVE  LatestThen(events'[k].state)
      <4>1. k \in DOMAIN events /\ events'[k] = events[k]
        BY <2>6, <2>9, <3>3, <3>5
      <4>2. \A m \in DOMAIN events : k < m => ~Changing(events[m])
        BY <2>6, <2>9, <3>5
      <4>3. Latest(events[k].state)
        BY <3>2, <3>5, <4>1, <4>2 DEF LastEvent
      <4> QED
        BY <3>4, <4>1, <4>3
    <3>6. ASSUME \A k \in DOMAIN events' : ~Changing(events'[k]), shown' # Nothing
          PROVE  LatestThen(shown')
      <4>1. \A k \in DOMAIN events : ~Changing(events[k])
        BY <2>6, <2>9, <3>6
      <4>2. Latest(shown)
        BY <2>1, <3>2, <3>6, <4>1 DEF LastShown
      <4> QED
        BY <2>1, <3>4, <4>2
    <3> QED
      BY <3>5, <3>6 DEF LastEvent, LastShown, Changing, Carrying, Latest, LatestThen
  <2> QED
    BY <2>11, <2>12, <2>13
<1> QED
  BY <1>5, <1>6, <1>7, <1>8, <1>9, <1>10 DEF Server

LEMMA StepLast ==
    Types /\ RepliesCarry /\ WordsAnnounced /\ FirstIsAsked /\ LastIsLatest /\ [Next]_vars
      => LastIsLatest'
<1> SUFFICES ASSUME Types, RepliesCarry, WordsAnnounced, FirstIsAsked, LastIsLatest, [Next]_vars,
                    Settled'
             PROVE  LastOnItsWay' /\ LastTaken'
  BY Zenon DEF LastIsLatest, LastOnItsWay, LastTaken, LastEvent, LastShown
<1>1. FeedOK /\ ServerOK /\ LinkOK /\ inbox \in Seq(Request) /\ channel \in Seq(Request)
      /\ revision \in Nat /\ announced \in Nat /\ announced <= revision /\ events \in Seq(Event)
  BY Bounds DEF Types, FeedOK, ServerOK, LinkOK
<1>2. CASE Server \/ ReadLine
  BY <1>2, StepLastOnItsWay, StepLastTaken
<1>3. linked'
  BY FeedTyped DEF FeedOK, ServerOK, Settled
<1>4. CASE UNCHANGED <<link, connected, closing, overtaken, inbox, outbox, announced, revision,
                       events, shown, daemon, torn>>
  BY <1>4, LastMeans
     DEF Settled, Asked, LastOnItsWay, LastTaken, LastEvent, LastShown, CarriesState, Latest, Changing, Carrying
<1>5. CASE StateChanges
  <2>1. UNCHANGED <<link, connected, closing, overtaken, inbox, outbox, announced,
                    events, shown, daemon, torn>> /\ revision' = revision + 1
    BY <1>5 DEF StateChanges, Feed!StateChanges, linkVars, viewVars, daemonVars
  <2>2. announced' # revision'
    BY <1>1, <2>1
  <2>3. Settled
    BY <2>1 DEF Settled, Asked
  <2>4. LastOnItsWay' /\ LastTaken
    BY <2>2, <2>3, LastMeans DEF LastOnItsWay
  <2>5. \A state : Latest(state) => state.daemon = daemon'
    BY <2>1 DEF Latest
  <2> QED
    BY <2>1, <2>2, <2>4, <2>5
       DEF LastTaken, LastEvent, LastShown, CarriesState, Latest, Changing, Carrying
<1>6. CASE StartDaemon \/ EndDaemon \/ CannotConnect \/ ReadEnds
  BY <1>1, <1>3, <1>6 DEF StartDaemon, EndDaemon, CannotConnect, ReadEnds, LinkOK, linkVars
<1>7. CASE Connect
  <2>1. ~linked /\ UNCHANGED connected
    BY <1>1, <1>7 DEF Connect, LinkOK, feedVars
  <2> QED
    BY <1>1, <2>1 DEF ServerOK, Settled
<1>8. CASE WriteRequest
  <2>1. linked
    BY <1>3, <1>8 DEF WriteRequest, linkVars
  <2>2. inbox' = Append(inbox, Head(channel)) /\ channel # << >>
        /\ UNCHANGED <<link, connected, closing, overtaken, outbox, announced, revision,
                       events, shown, daemon, torn>>
    BY <1>8, <2>1 DEF WriteRequest, linkVars, viewVars, daemonVars, feedVars
  <2>3. Head(channel) \in Request
    BY <1>1, <2>2, Tailed
  <2>4. Settled
    BY <1>1, <2>2, <2>3, AskedAppend DEF Settled, Asked
  <2> QED
    BY <2>2, <2>4, LastMeans
       DEF LastOnItsWay, LastTaken, LastEvent, LastShown, CarriesState, Latest, Changing, Carrying
<1>9. CASE ReadTimesOut
  <2>1. torn' = TRUE
        /\ UNCHANGED <<link, connected, closing, overtaken, inbox, outbox, announced, revision>>
    BY <1>9 DEF ReadTimesOut, linkVars, feedVars
  <2>2. Settled
    BY <2>1 DEF Settled, Asked
  <2> QED
    BY <2>1, <2>2, LastMeans DEF LastOnItsWay, LastTaken
<1>10. CASE TakeEvent
  <2> DEFINE event == Head(events)
  <2>1. events # << >> /\ events' = Tail(events) /\ Taken(event) /\ event \in Event
    BY <1>1, <1>10, EventTaken
  <2>2. /\ Len(events') = Len(events) - 1 /\ 1 \in DOMAIN events /\ event = events[1]
        /\ (\A i \in DOMAIN events' : events'[i] = events[i + 1] /\ i + 1 \in DOMAIN events)
        /\ DOMAIN events = 1..Len(events) /\ Len(events) \in Nat
        /\ DOMAIN events' = 1..(Len(events) - 1)
    BY <1>1, <2>1, Tailed
  <2>3. UNCHANGED <<link, connected, closing, overtaken, inbox, outbox, announced, revision, daemon, torn>>
    BY <1>10 DEF TakeEvent, linkVars, feedVars, daemonVars
  <2> HIDE DEF event
  <2>4. ASSUME NEW m \in DOMAIN events, m > 1
        PROVE  m - 1 \in DOMAIN events' /\ events'[m - 1] = events[m]
    <3>1. m - 1 \in DOMAIN events' /\ (m - 1) + 1 = m
      BY <2>2, <2>4
    <3> QED
      BY <2>2, <3>1
  <2>5. Settled
    BY <2>3 DEF Settled, Asked
  <2>6. LastOnItsWay /\ LastTaken
    BY <2>5, LastMeans
  <2>7. LastOnItsWay'
    BY <2>3, <2>6 DEF LastOnItsWay
  <2> SUFFICES ASSUME ~CarriesState(outbox'[link']), ~torn' PROVE LastEvent' /\ LastShown'
    BY <2>7 DEF LastTaken, CarriesState
  <2>8. LastEvent /\ LastShown
    BY <2>3, <2>6 DEF LastTaken, CarriesState
  <2>9. \A state : Latest(state) => LatestThen(state)
    BY <2>3 DEF Latest, LatestThen
  <2>10. ASSUME NEW k \in DOMAIN events', Carrying(events'[k]),
                \A m \in DOMAIN events' : k < m => ~Changing(events'[m])
         PROVE  LatestThen(events'[k].state)
    <3>1. k + 1 \in DOMAIN events /\ events'[k] = events[k + 1]
      BY <2>2
    <3>2. ASSUME NEW m \in DOMAIN events, k + 1 < m PROVE ~Changing(events[m])
      <4>1. m > 1 /\ k < m - 1
        BY <2>2, <3>2
      <4> QED
        BY <2>4, <2>10, <4>1
    <3>3. Latest(events[k + 1].state)
      BY <2>8, <2>10, <3>1, <3>2 DEF LastEvent
    <3> QED
      BY <2>9, <3>1, <3>3
  <2>11. ASSUME \A k \in DOMAIN events' : ~Changing(events'[k]), shown' # Nothing
         PROVE  LatestThen(shown')
    <3>1. ASSUME NEW m \in DOMAIN events, m > 1 PROVE ~Changing(events[m])
      BY <2>4, <2>11, <3>1
    <3>2. CASE ~Changing(event) /\ UNCHANGED shown
      <4>1. \A m \in DOMAIN events : m = 1 \/ m > 1
        BY <2>2
      <4>2. Latest(shown)
        BY <2>2, <2>8, <2>11, <3>1, <3>2, <4>1 DEF LastShown
      <4> QED
        BY <2>9, <3>2, <4>2
    <3>3. CASE Carrying(event) /\ shown' = event.state
      <4>1. Latest(event.state)
        BY <2>2, <2>8, <3>1, <3>3 DEF LastEvent
      <4> QED
        BY <2>9, <3>3, <4>1
    <3>4. event = Connected => ~Changing(event)
      BY DEF Connected, Changing, Carrying, Malformed, Disconnected
    <3>5. event.kind = "response" /\ ~Carrying(event) => ~Changing(event)
      BY DEF Changing, Malformed, Disconnected
    <3> QED
      BY <2>1, <2>11, <3>2, <3>3, <3>4, <3>5 DEF Taken
  <2> QED
    BY <2>10, <2>11 DEF LastEvent, LastShown, Changing, Carrying, Latest, LatestThen
<1>11. \/ UNCHANGED <<link, connected, closing, overtaken, inbox, outbox, announced, revision,
                      events, shown, daemon, torn>>
       \/ Daemon \/ Server \/ Connect \/ CannotConnect \/ WriteRequest
       \/ ReadLine \/ ReadTimesOut \/ ReadEnds \/ TakeEvent
  BY DEF Next, Reader, User, Frame, TouchTarget, SendPending, TouchLabel, TouchProfiles,
     Lock, Unlock, vars, linkVars, feedVars, daemonVars, viewVars
<1> QED
  BY <1>2, <1>4, <1>5, <1>6, <1>7, <1>8, <1>9, <1>10, <1>11 DEF Daemon

LEMMA LastMeansCurrent == Types /\ LastIsLatest => QuietIsCurrent
<1> SUFFICES ASSUME Types, LastIsLatest, Quiet, ~overtaken, shown # Nothing
             PROVE  shown = [daemon |-> daemon, revision |-> revision]
  BY DEF QuietIsCurrent
<1>1. FeedOK /\ ServerOK /\ LinkOK /\ AppOK
  BY DEF Types, FeedOK
<1>2. \A s : s = << >> => DOMAIN s = {}
  OBVIOUS
<1>3. ~Asked(inbox) /\ ~CarriesState(outbox[link]) /\ DOMAIN events = {}
  BY <1>2, AskedAt, CarriesAt DEF Quiet
<1>4. Settled
  BY <1>3 DEF Quiet, Settled
<1>5. ~torn
  BY <1>1 DEF Quiet, ServerOK, LinkOK
<1>6. LastTaken
  BY <1>4, LastMeans
<1>7. LastShown
  BY <1>3, <1>5, <1>6 DEF LastTaken
<1>8. Latest(shown)
  BY <1>3, <1>7 DEF LastShown
<1>9. shown.daemon = daemon /\ shown.revision = revision
  BY <1>8 DEF Latest, Quiet
<1> QED
  BY <1>1, <1>9 DEF AppOK

(* When nothing is under way, the screen shows the state of the daemon it  *)
(* is connected to, or nothing: whatever was lost, torn or skipped leaves  *)
(* no older state, and no other daemon's, on it.  The exception is word    *)
(* put in front of a reply with an older state.                            *)
THEOREM QuietScreenIsCurrent == Spec => []QuietIsCurrent
<1>1. Init => WordsAnnounced /\ FirstIsAsked /\ LastIsLatest
  BY DEF Init, Feed!FeedInit, WordsAnnounced, FirstIsAsked, LastIsLatest, Settled
<1>2. Spec => []WordsAnnounced
  BY <1>1, AlwaysTypes, AlwaysReplies, StepWords, PTL DEF Spec
<1>3. Spec => []FirstIsAsked
  BY <1>1, AlwaysTypes, StepFirst, PTL DEF Spec
<1> QED
  BY <1>1, <1>2, <1>3, AlwaysTypes, AlwaysReplies, StepLast, LastMeansCurrent, PTL DEF Spec

-----------------------------------------------------------------------------
(* The lock screen.  AfterTouches is a recursive function: that there is   *)
(* one, and what it says after each touch, is shown by a least             *)
(* counterexample.                                                         *)
Tap == [corner : {0} \cup Corners, at : Nat]

(* The locks after each of the first n touches. *)
LocksAfter(f, taps, timeout, n) ==
    f = [i \in 0..n |-> IF i = 0 THEN Locked ELSE AfterTouch(f[i - 1], taps[i], timeout)]

LEMMA LocksExist ==
    ASSUME NEW taps, NEW timeout, NEW m \in Nat
    PROVE  \E f : LocksAfter(f, taps, timeout, m)
<1> DEFINE T == { n \in Nat : ~\E f : LocksAfter(f, taps, timeout, n) }
<1>1. ASSUME T # {} PROVE FALSE
  <2>1. T \in SUBSET Nat
    OBVIOUS
  <2> HIDE DEF T
  <2>2. PICK n \in T : \A k \in T : n <= k
    BY <1>1, <2>1, Least
  <2> USE DEF T
  <2>3. CASE n = 0
    <3>1. LocksAfter([i \in 0..0 |-> Locked], taps, timeout, 0)
      BY DEF LocksAfter
    <3> QED
      BY <2>2, <2>3, <3>1
  <2>4. CASE n # 0
    <3>1. n - 1 \in Nat /\ n - 1 \notin T
      BY <2>2, <2>4
    <3>2. PICK f : LocksAfter(f, taps, timeout, n - 1)
      BY <3>1
    <3> DEFINE g == [i \in 0..n |-> IF i = n THEN AfterTouch(f[n - 1], taps[n], timeout) ELSE f[i]]
    <3>3. f[0] = Locked /\ \A i \in 1..(n - 1) : f[i] = AfterTouch(f[i - 1], taps[i], timeout)
      BY <3>1, <3>2 DEF LocksAfter
    <3>4. ASSUME NEW i \in 0..n
          PROVE  g[i] = IF i = 0 THEN Locked ELSE AfterTouch(g[i - 1], taps[i], timeout)
      <4>1. CASE i = 0
        BY <2>4, <3>3, <4>1
      <4>2. CASE i = n
        BY <2>4, <3>1, <4>2
      <4>3. CASE i \in 1..(n - 1)
        BY <3>1, <3>3, <4>3
      <4> QED
        BY <2>2, <4>1, <4>2, <4>3
    <3>5. g = [i \in 0..n |-> g[i]]
      OBVIOUS
    <3> HIDE DEF g
    <3>6. LocksAfter(g, taps, timeout, n)
      BY <3>4, <3>5 DEF LocksAfter
    <3> QED
      BY <2>2, <3>6
  <2> QED
    BY <2>3, <2>4
<1> QED
  BY <1>1

(* The last s of the first i touches are the first s corners. *)
Attempt(taps, i, s) ==
    s <= i /\ \A k \in 1..s : taps[(i - s) + k].corner = k

UnlocksBy(taps, timeout, i) ==
    \E j \in 1..i - 3 :
      /\ \A k \in Corners : taps[j + k - 1].corner = k
      /\ taps[j + 3].at - taps[j].at <= timeout

(* What the lock knows of the touches before: the step and the time of the *)
(* only attempt that may still open it.                                    *)
Knows(lock, taps, timeout, i) ==
    /\ lock.locked \in BOOLEAN
    /\ lock.locked <=> ~UnlocksBy(taps, timeout, i)
    /\ lock.locked =>
         /\ lock.step \in 0..3 /\ lock.started \in Nat
         /\ lock.step # 0 => Attempt(taps, i, lock.step)
                             /\ lock.started = taps[(i - lock.step) + 1].at
         /\ \A s \in 1..3 :
              Attempt(taps, i, s) /\ taps[i].at - taps[(i - s) + 1].at <= timeout
                => lock.step = s

LEMMA AttemptNext ==
    ASSUME NEW taps, NEW i \in Nat, NEW s \in 1..4
    PROVE  Attempt(taps, i + 1, s) <=>
             taps[i + 1].corner = s /\ Attempt(taps, i, s - 1)
<1> DEFINE c(j) == taps[j].corner
<1>1. Attempt(taps, i + 1, s) <=> s <= i + 1 /\ \A k \in 1..s : c(((i + 1) - s) + k) = k
  BY DEF Attempt
<1>2. Attempt(taps, i, s - 1) <=> s - 1 <= i /\ \A k \in 1..(s - 1) : c((i - (s - 1)) + k) = k
  BY DEF Attempt
<1> HIDE DEF c
<1>3. ((i + 1) - s) + s = i + 1 /\ s \in 1..s
  OBVIOUS
<1>4. \A k \in 1..s : k \in 1..(s - 1) \/ k = s
  OBVIOUS
<1>5. \A k \in 1..(s - 1) : k \in 1..s /\ ((i + 1) - s) + k = (i - (s - 1)) + k
  OBVIOUS
<1>6. Attempt(taps, i + 1, s) <=> c(i + 1) = s /\ Attempt(taps, i, s - 1)
  <2>1. s <= i + 1 <=> s - 1 <= i
    OBVIOUS
  <2>2. (\A k \in 1..s : c(((i + 1) - s) + k) = k) <=>
          c(i + 1) = s /\ \A k \in 1..(s - 1) : c((i - (s - 1)) + k) = k
    BY <1>3, <1>4, <1>5
  <2> QED
    BY <1>1, <1>2, <2>1, <2>2, Zenon
<1> QED
  BY <1>6 DEF c

LEMMA UnlocksNext ==
    ASSUME NEW taps, NEW timeout \in Nat, NEW i \in Nat
    PROVE  UnlocksBy(taps, timeout, i + 1) <=>
             \/ UnlocksBy(taps, timeout, i)
             \/ Attempt(taps, i + 1, 4) /\ taps[i + 1].at - taps[i - 2].at <= timeout
<1> DEFINE Opens(j) == /\ \A k \in Corners : taps[j + k - 1].corner = k
                       /\ taps[j + 3].at - taps[j].at <= timeout
<1>1. UnlocksBy(taps, timeout, i + 1) <=> \E j \in 1..(i + 1) - 3 : Opens(j)
  BY DEF UnlocksBy
<1>2. UnlocksBy(taps, timeout, i) <=> \E j \in 1..i - 3 : Opens(j)
  BY DEF UnlocksBy
<1>3. i >= 3 => (Opens(i - 2) <=> Attempt(taps, i + 1, 4) /\ taps[i + 1].at - taps[i - 2].at <= timeout)
  <2> SUFFICES ASSUME i >= 3
               PROVE  Opens(i - 2) <=> Attempt(taps, i + 1, 4) /\ taps[i + 1].at - taps[i - 2].at <= timeout
    OBVIOUS
  <2>1. \A k \in 1..4 : (i - 2) + k - 1 = ((i + 1) - 4) + k
    OBVIOUS
  <2>2. (i - 2) + 3 = i + 1
    OBVIOUS
  <2>3. (\A k \in Corners : taps[(i - 2) + k - 1].corner = k) <=> Attempt(taps, i + 1, 4)
    BY <2>1 DEF Attempt, Corners
  <2> QED
    BY <2>2, <2>3
<1>4. Attempt(taps, i + 1, 4) => i >= 3
  BY DEF Attempt
<1> HIDE DEF Opens
<1>5. \A j \in 1..(i + 1) - 3 : j \in 1..i - 3 \/ (j = i - 2 /\ i >= 3)
  OBVIOUS
<1>6. \A j \in 1..i - 3 : j \in 1..(i + 1) - 3
  OBVIOUS
<1>7. i >= 3 => i - 2 \in 1..(i + 1) - 3
  OBVIOUS
<1> QED
  BY <1>1, <1>2, <1>3, <1>4, <1>5, <1>6, <1>7

(* What a touch of the locked screen makes of the step. *)
LEMMA StepNext ==
    ASSUME NEW e \in 0..3, NEW touch \in {0} \cup Corners
    PROVE  /\ AdvanceUnlock(e, touch) \in 0..4
           /\ touch = e + 1 => AdvanceUnlock(e, touch) = e + 1
           /\ touch # e + 1 /\ touch = 1 => AdvanceUnlock(e, touch) = 1
           /\ touch # e + 1 /\ touch # 1 => AdvanceUnlock(e, touch) = 0
  BY DEF AdvanceUnlock, Corners

LEMMA TouchIsKnown ==
    ASSUME NEW taps \in Seq(Tap), \A a, b \in DOMAIN taps : a <= b => taps[a].at <= taps[b].at,
           NEW timeout \in Nat, NEW i \in Nat, i + 1 \in DOMAIN taps,
           NEW lock, Knows(lock, taps, timeout, i)
    PROVE  Knows(AfterTouch(lock, taps[i + 1], timeout), taps, timeout, i + 1)
<1> DEFINE tap == taps[i + 1]
           next == AfterTouch(lock, tap, timeout)
<1>1. tap.corner \in {0} \cup Corners /\ tap.at \in Nat
      /\ \A a \in 1..(i + 1) : a \in DOMAIN taps /\ taps[a].at \in Nat /\ taps[a].at <= tap.at
  <2>1. \A a \in 1..(i + 1) : a \in DOMAIN taps
    OBVIOUS
  <2>2. \A a \in DOMAIN taps : taps[a] \in Tap
    OBVIOUS
  <2> QED
    BY <2>1, <2>2 DEF Tap
<1>2. CASE ~lock.locked
  <2>1. next = lock
    BY <1>2 DEF AfterTouch
  <2>2. UnlocksBy(taps, timeout, i) /\ UnlocksBy(taps, timeout, i + 1)
    BY <1>2, UnlocksNext DEF Knows
  <2> QED
    BY <1>2, <2>1, <2>2 DEF Knows
<1>3. CASE lock.locked
  <2> DEFINE expired == lock.step > 0 /\ tap.at > lock.started + timeout
             e == IF expired THEN 0 ELSE lock.step
             s == AdvanceUnlock(e, tap.corner)
  <2>1. /\ lock.step \in 0..3 /\ lock.started \in Nat
        /\ lock.step # 0 => Attempt(taps, i, lock.step)
                            /\ lock.started = taps[(i - lock.step) + 1].at
        /\ \A n \in 1..3 :
             Attempt(taps, i, n) /\ taps[i].at - taps[(i - n) + 1].at <= timeout => lock.step = n
        /\ ~UnlocksBy(taps, timeout, i)
    BY <1>3 DEF Knows
  <2>2. next = IF s = 4 THEN [step |-> 0, started |-> 0, locked |-> FALSE]
               ELSE [step |-> s, locked |-> TRUE,
                     started |-> IF s = 1 THEN tap.at ELSE IF s = 0 THEN 0 ELSE lock.started]
    BY <1>3 DEF AfterTouch, TouchLocked, UnlockExpired, Begins
  <2>3. e \in 0..3
    BY <2>1
  <2>4. /\ s \in 0..4
        /\ tap.corner = e + 1 => s = e + 1
        /\ tap.corner # e + 1 /\ tap.corner = 1 => s = 1
        /\ tap.corner # e + 1 /\ tap.corner # 1 => s = 0
    BY <1>1, <2>3, StepNext
  <2>5. e # 0 => /\ e = lock.step /\ Attempt(taps, i, e) /\ lock.started = taps[(i - e) + 1].at
                 /\ tap.at <= lock.started + timeout
    BY <1>1, <2>1
  (* An attempt still in time continues the one that is known. *)
  <2>6. ASSUME NEW n \in 1..4, Attempt(taps, i + 1, n), tap.at - taps[(i - n) + 2].at <= timeout
        PROVE  s = n
    <3>1. tap.corner = n /\ Attempt(taps, i, n - 1)
      BY <2>6, AttemptNext
    <3>2. CASE n = 1
      BY <2>3, <2>4, <3>1, <3>2
    <3>3. CASE n # 1
      <4>1. n - 1 \in 1..3 /\ n - 1 <= i /\ (i - (n - 1)) + 1 = (i - n) + 2
        BY <3>1, <3>3 DEF Attempt
      <4>2. (i - n) + 2 \in 1..(i + 1) /\ i \in 1..(i + 1)
        BY <4>1
      <4>3. taps[i].at <= tap.at /\ taps[i].at \in Nat /\ taps[(i - n) + 2].at \in Nat
        BY <1>1, <4>2
      <4>4. taps[i].at - taps[(i - n) + 2].at <= timeout
        BY <1>1, <2>6, <4>3
      <4>5. lock.step = n - 1
        BY <2>1, <3>1, <4>1, <4>4
      <4>6. lock.started = taps[(i - n) + 2].at
        BY <2>1, <4>1, <4>5
      <4>7. ~expired
        BY <1>1, <2>1, <2>6, <4>3, <4>6
      <4>8. e = n - 1
        BY <4>5, <4>7
      <4> QED
        BY <2>4, <3>1, <4>8
    <3> QED
      BY <3>2, <3>3
  (* The step is an attempt, and its time that of its first corner. *)
  <2>7. ASSUME s # 0
        PROVE  /\ Attempt(taps, i + 1, s)
               /\ s = 1 => tap.at = taps[((i + 1) - s) + 1].at
               /\ s # 1 => lock.started = taps[((i + 1) - s) + 1].at /\ tap.at <= lock.started + timeout
    <3>1. tap.corner = s /\ (s = 1 \/ s = e + 1)
      BY <2>3, <2>4, <2>7
    <3>2. CASE s = 1
      <4>1. Attempt(taps, i, 0)
        BY DEF Attempt
      <4>2. Attempt(taps, i + 1, 1)
        BY <3>1, <3>2, <4>1, AttemptNext
      <4>3. ((i + 1) - 1) + 1 = i + 1
        OBVIOUS
      <4> QED
        BY <3>2, <4>2, <4>3
    <3>3. CASE s # 1
      <4>1. s = e + 1 /\ e # 0 /\ s \in 1..4 /\ s - 1 = e
        BY <2>3, <2>4, <3>1, <3>3
      <4>2. Attempt(taps, i + 1, s)
        BY <2>5, <3>1, <4>1, AttemptNext
      <4>3. ((i + 1) - s) + 1 = (i - e) + 1
        BY <4>1
      <4> QED
        BY <2>5, <3>3, <4>1, <4>2, <4>3
    <3> QED
      BY <3>2, <3>3
  <2> HIDE DEF s, e, next
  <2>8. UnlocksBy(taps, timeout, i + 1) <=> s = 4
    <3>1. UnlocksBy(taps, timeout, i + 1) <=>
            Attempt(taps, i + 1, 4) /\ tap.at - taps[i - 2].at <= timeout
      BY <2>1, UnlocksNext
    <3>2. (i - 4) + 2 = i - 2 /\ ((i + 1) - 4) + 1 = i - 2
      OBVIOUS
    <3>3. Attempt(taps, i + 1, 4) /\ tap.at - taps[i - 2].at <= timeout => s = 4
      BY <2>6, <3>2
    <3>4. ASSUME s = 4 PROVE Attempt(taps, i + 1, 4) /\ tap.at - taps[i - 2].at <= timeout
      <4>1. Attempt(taps, i + 1, 4) /\ lock.started = taps[i - 2].at /\ tap.at <= lock.started + timeout
        BY <2>7, <3>2, <3>4
      <4> QED
        BY <1>1, <2>1, <4>1
    <3> QED
      BY <3>1, <3>3, <3>4
  <2>9. CASE s = 4
    <3>1. next.locked = FALSE
      BY <2>2, <2>9
    <3>2. next.locked \in BOOLEAN /\ ~next.locked
      BY <3>1
    <3> QED
      BY <2>8, <2>9, <3>2 DEF Knows, next
  <2>10. CASE s # 4
    <3>1. next = [step |-> s, locked |-> TRUE,
                  started |-> IF s = 1 THEN tap.at ELSE IF s = 0 THEN 0 ELSE lock.started]
      BY <2>2, <2>10
    <3>2. next.locked = TRUE /\ next.step = s
          /\ next.started = IF s = 1 THEN tap.at ELSE IF s = 0 THEN 0 ELSE lock.started
      BY <3>1
    <3>3. next.locked \in BOOLEAN /\ next.locked
      BY <3>2
    <3>4. next.step \in 0..3 /\ next.started \in Nat
      BY <1>1, <2>1, <2>4, <2>10, <3>2
    <3>5. next.step # 0 => Attempt(taps, i + 1, next.step)
                           /\ next.started = taps[((i + 1) - next.step) + 1].at
      BY <2>7, <3>2
    <3>6. ASSUME NEW n \in 1..3, Attempt(taps, i + 1, n),
                 taps[i + 1].at - taps[((i + 1) - n) + 1].at <= timeout
          PROVE  next.step = n
      <4>1. ((i + 1) - n) + 1 = (i - n) + 2
        OBVIOUS
      <4> QED
        BY <2>6, <3>2, <3>6, <4>1
    <3> QED
      BY <2>8, <2>10, <3>3, <3>4, <3>5, <3>6 DEF Knows, next
  <2> QED
    BY <2>9, <2>10
<1> QED
  BY <1>2, <1>3 DEF Knows

(* The lock keeps no more than a step and a time, and yet it opens exactly  *)
(* for the four corners clockwise and in time, wherever in a row of touches *)
(* they come and whatever was begun and given up before them                *)
(* (advance_unlock, unlock_expired, locked_ui).                             *)
THEOREM LockOpensForCorners ==
    ASSUME NEW taps \in Seq(Tap), \A a, b \in DOMAIN taps : a <= b => taps[a].at <= taps[b].at,
           NEW timeout \in Nat
    PROVE  AfterTouches(taps, timeout).locked = ~Unlocks(taps, timeout)
<1> DEFINE f == CHOOSE f : LocksAfter(f, taps, timeout, Len(taps))
           T == { i \in 0..Len(taps) : ~Knows(f[i], taps, timeout, i) }
<1>1. Len(taps) \in Nat /\ DOMAIN taps = 1..Len(taps)
  OBVIOUS
<1>2. AfterTouches(taps, timeout) = f[Len(taps)]
  BY DEF AfterTouches, LocksAfter
<1>3. LocksAfter(f, taps, timeout, Len(taps))
  BY <1>1, LocksExist
<1> HIDE DEF f
<1>4. f[0] = Locked /\ \A i \in 1..Len(taps) : f[i] = AfterTouch(f[i - 1], taps[i], timeout)
  BY <1>1, <1>3 DEF LocksAfter
<1>5. Knows(f[0], taps, timeout, 0)
  <2>1. f[0].locked = TRUE /\ f[0].step = 0 /\ f[0].started = 0
    BY <1>4 DEF Locked
  <2>2. f[0].locked \in BOOLEAN /\ f[0].locked
    BY <2>1
  <2>3. ~UnlocksBy(taps, timeout, 0)
    BY DEF UnlocksBy
  <2>4. \A s \in 1..3 : ~Attempt(taps, 0, s)
    BY DEF Attempt
  <2> QED
    BY <2>1, <2>2, <2>3, <2>4 DEF Knows
<1>6. ASSUME T # {} PROVE FALSE
  <2>1. T \in SUBSET Nat
    OBVIOUS
  <2> HIDE DEF T
  <2>2. PICK n \in T : \A k \in T : n <= k
    BY <1>6, <2>1, Least
  <2> USE DEF T
  <2>3. n \in 0..Len(taps) /\ ~Knows(f[n], taps, timeout, n)
    BY <2>2
  <2>4. n # 0 /\ n - 1 \in Nat /\ n - 1 \in 0..Len(taps) /\ (n - 1) + 1 = n /\ n \in 1..Len(taps)
    BY <1>1, <1>5, <2>3
  <2>5. Knows(f[n - 1], taps, timeout, n - 1)
    BY <2>2, <2>4
  <2>6. Knows(AfterTouch(f[n - 1], taps[(n - 1) + 1], timeout), taps, timeout, (n - 1) + 1)
    BY <1>1, <2>4, <2>5, TouchIsKnown
  <2>7. f[n] = AfterTouch(f[n - 1], taps[n], timeout)
    BY <1>4, <2>4
  <2> QED
    BY <2>3, <2>4, <2>6, <2>7
<1>7. Knows(f[Len(taps)], taps, timeout, Len(taps))
  BY <1>1, <1>6
<1>8. UnlocksBy(taps, timeout, Len(taps)) <=> Unlocks(taps, timeout)
  BY DEF UnlocksBy, Unlocks
<1> QED
  BY <1>2, <1>7, <1>8 DEF Knows

LEMMA RowsAreTouches ==
    ASSUME NEW n \in Nat, NEW taps \in Rows(n)
    PROVE  taps \in Seq(Tap) /\ \A i, j \in DOMAIN taps : i <= j => taps[i].at <= taps[j].at
<1>1. PICK corner \in [1..n -> {0} \cup Corners], at \in [1..n -> Times] :
        /\ \A i, j \in 1..n : i <= j => at[i] <= at[j]
        /\ taps = [i \in 1..n |-> [corner |-> corner[i], at |-> at[i]]]
  BY DEF Rows
<1>2. taps \in [1..n -> Tap] /\ DOMAIN taps = 1..n /\ \A i \in 1..n : taps[i].at = at[i]
  BY <1>1, LockAssumption DEF Tap
<1> QED
  BY <1>1, <1>2

(* The lock screen opens for the four corners clockwise and in time and    *)
(* for nothing else (locked_ui), whatever the bounds of the rows that      *)
(* UnlockIsClockwise looks at.                                             *)
THEOREM OpensForCornersOnly == Spec => []UnlockIsClockwise
<1>1. ASSUME NEW n \in 0..MaxTaps, NEW taps \in Rows(n)
      PROVE  AfterTouches(taps, Timeout).locked = ~Unlocks(taps, Timeout)
  <2>1. n \in Nat /\ Timeout \in Nat
    BY LockAssumption
  <2> QED
    BY <2>1, RowsAreTouches, LockOpensForCorners
<1>2. UnlockIsClockwise
  BY <1>1 DEF UnlockIsClockwise, OpensClockwise
<1> QED
  BY <1>2, PTL
=============================================================================
