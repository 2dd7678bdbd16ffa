---------------------------- MODULE Touchscreen ----------------------------
(***************************************************************************)
(* The touchscreen client (focusrite-ui, main.rs) against the daemon it    *)
(* shows: a reader thread keeps a connection to the socket, writes what    *)
(* the app asks for and passes on what it reads; the app, one frame after  *)
(* another, takes in what the reader has passed on, then lets the user     *)
(* touch levels, groups and profiles.  The daemon is the StateFeed its     *)
(* server implements, and may end and be started again at any time.        *)
(*                                                                         *)
(* What a state holds is named by the daemon and the revision it comes     *)
(* from; a touch by its number.  One level and one group stand for all.    *)
(***************************************************************************)
EXTENDS ScreenLock, SequencesExt

CONSTANTS
    MaxDaemons,   \* bound: how often a daemon starts
    MaxLinks,     \* bound: connections made
    MaxRevision,  \* bound: revisions of each daemon's state
    MaxTouches,   \* bound: touches of a level or a group, profile requests
    MaxHappened,  \* bound: touches, changes, ends and mishaps together
    MaxEvents,    \* bound: what the app may leave unread
    OfflineAt     \* revisions at which the interface is away

ASSUME TouchscreenAssumption ==
    /\ {MaxDaemons, MaxLinks, MaxRevision, MaxEvents} \subseteq Nat \ {0}
    /\ {MaxTouches, MaxHappened} \subseteq Nat
    /\ OfflineAt \subseteq 1..MaxRevision

Links == 1..MaxLinks
Targets == {"level", "group"}
Kinds == Targets \cup {"snapshot", "profile"}

(* ReaderRequest; the touch numbers the ones the user has made.            *)
Request == [kind : Kinds, touch : 0..MaxTouches]
Snapshot == [kind |-> "snapshot", touch |-> 0]

VARIABLES
    (* The daemon and its server. *)
    daemon,       \* how many have started
    running,      \* whether the last of them runs
    revision, announced, connected, outbox, begun, closing, refused,
    obeyed,       \* the last touch of each target it has carried out
    (* The reader thread and its connection. *)
    reader,       \* "connect", or "talk" to write and read by turns
    link,         \* the connection made last
    peer,         \* the daemon it was made to
    linked,       \* whether the daemon still holds its end
    inbox,        \* requests written and not yet served
    fragment,     \* its input ends with a part of a message
    torn,         \* a part of the message it receives has been thrown away
    channel,      \* requests for the reader
    events,       \* what it has told the app
    (* The app. *)
    connection,
    shown,        \* state
    focus,        \* the daemon whose dashboard the focused level was on, or 0
    locked,
    pending,      \* pending_commands and pending_groups
    (* History. *)
    touched,      \* touches so far
    dropped,      \* touches of each target that a lock has found waiting
    forgot,       \* a malformed line has taken the state away under a focus
    overtaken,    \* word has been put in front of an older state
    happened      \* touches, changes, ends and mishaps so far

daemonVars == <<daemon, running, obeyed>>
feedVars == <<revision, announced, connected, outbox, begun, closing, refused>>
linkVars == <<link, peer, linked, fragment>>
lockVars == <<locked, dropped>>
viewVars == <<connection, shown, focus, forgot>>
vars == <<daemonVars, feedVars, overtaken, reader, linkVars, inbox, torn, channel, events,
          viewVars, lockVars, pending, touched, happened>>

Feed == INSTANCE StateFeed WITH
    Connections <- Links, Tags <- Kinds, FirstTag <- "snapshot", FeedRevisions <- 1..MaxRevision

-----------------------------------------------------------------------------
(* What happens to the system from outside is counted, by one bound.       *)
Happens ==
    /\ happened < MaxHappened
    /\ happened' = happened + 1

(* The daemon. *)

StartDaemon ==
    /\ ~running
    /\ daemon < MaxDaemons
    /\ daemon' = daemon + 1
    /\ running' = TRUE
    /\ UNCHANGED <<feedVars, overtaken, obeyed, reader, linkVars, inbox, torn, channel, events,
                   viewVars, lockVars, pending, touched, happened>>

(* What was written to the socket may still be read, what was queued for   *)
(* it or not yet served is lost.                                           *)
EndDaemon ==
    /\ Happens
    /\ running
    /\ running' = FALSE
    /\ linked' = FALSE
    /\ inbox' = << >>
    /\ fragment' = (fragment \/ (link \in begun /\ ~torn))
    /\ revision' = 1 /\ announced' = 0 /\ connected' = {}
    /\ outbox' = [c \in Links |-> << >>]
    /\ begun' = {} /\ closing' = {} /\ refused' = {}
    /\ overtaken' = FALSE
    /\ UNCHANGED <<daemon, obeyed, reader, link, peer, torn, channel, events, viewVars,
                   lockVars, pending, touched>>

StateChanges ==
    /\ Happens
    /\ running
    /\ Feed!StateChanges
    /\ UNCHANGED <<daemonVars, overtaken, reader, linkVars, inbox, torn, channel, events,
                   viewVars, lockVars, pending, touched>>

Accept ==
    /\ linked
    /\ Feed!Join(link)
    /\ overtaken' = FALSE
    /\ UNCHANGED <<daemonVars, reader, linkVars, inbox, torn, channel, events, viewVars,
                   lockVars, pending, touched, happened>>

(* Word of a revision that takes the place of older word in front of a     *)
(* reply with an older state.                                              *)
Overtakes ==
    /\ link \in DOMAIN outbox
    /\ Len(outbox'[link]) = Len(outbox[link])
    /\ \E i, j \in DOMAIN outbox[link] :
         /\ i < j
         /\ outbox'[link][i] # outbox[link][i]
         /\ outbox[link][j].revision # 0

Announce ==
    /\ running
    /\ Feed!Announce
    /\ overtaken' = IF outbox' = outbox THEN overtaken ELSE Overtakes
    /\ IF closing' = closing THEN UNCHANGED happened ELSE Happens
    /\ UNCHANGED <<daemonVars, reader, linkVars, inbox, torn, channel, events, viewVars,
                   lockVars, pending, touched>>

(* By how much a request may change the revision: a command by one, a      *)
(* group command by one for every member, a profile by one for every value.*)
Changes(kind) ==
    CASE kind \in {"group", "profile"} -> 0..2
      [] kind = "level" -> 0..1
      [] kind = "snapshot" -> {0}

Serve ==
    /\ inbox # << >>
    /\ LET request == Head(inbox)
       IN  /\ Feed!Answers(link, request.kind)
           /\ revision' - revision \in Changes(request.kind)
           /\ request.kind = "snapshot" =>
                \A m \in Range(outbox'[link]) \ Range(outbox[link]) : m.revision # 0
           /\ overtaken' = (overtaken /\ (outbox' = outbox \/ Last(outbox'[link]).revision = 0))
           /\ obeyed' = IF request.kind \in Targets
                        THEN [obeyed EXCEPT ![request.kind] = request.touch] ELSE obeyed
    /\ inbox' = Tail(inbox)
    /\ IF closing' = closing THEN UNCHANGED happened ELSE Happens
    /\ UNCHANGED <<daemon, running, reader, linkVars, torn, channel, events, viewVars,
                   lockVars, pending, touched>>

(* The socket takes a part of a message. *)
SendPart ==
    /\ Happens
    /\ link \notin begun
    /\ Feed!Start(link)
    /\ UNCHANGED <<daemonVars, overtaken, reader, linkVars, inbox, torn, channel, events,
                   viewVars, lockVars, pending, touched>>

(* A connection that has fallen behind is ended. *)
Drop ==
    /\ link \in closing
    /\ outbox[link] = << >>
    /\ Feed!Leave(link)
    /\ linked' = FALSE
    /\ inbox' = << >>
    /\ overtaken' = FALSE
    /\ UNCHANGED <<daemonVars, reader, link, peer, fragment, torn, channel, events, viewVars,
                   lockVars, pending, touched, happened>>

-----------------------------------------------------------------------------
(* spawn_socket_reader. *)

Room == Len(events) < MaxEvents

Tell(event) == events' = Append(events, event)

Connected == [kind |-> "connected"]
Disconnected == [kind |-> "disconnected"]
Malformed == [kind |-> "malformed"]
Response(message) ==
    [kind |-> "response", tag |-> message.tag,
     state |-> [daemon |-> peer, revision |-> message.revision]]

(* Mutant of FirstRequests: nothing is asked for. *)
FirstRequestsNone == << >>

FirstRequests == <<Snapshot>>

Connect ==
    /\ reader = "connect" /\ Room
    /\ running
    /\ link < MaxLinks
    /\ link' = link + 1 /\ peer' = daemon /\ linked' = TRUE
    /\ fragment' = FALSE /\ torn' = FALSE
    /\ Tell(Connected)
    /\ inbox' = FirstRequests
    /\ reader' = "talk"
    /\ UNCHANGED <<daemonVars, feedVars, overtaken, channel, viewVars, lockVars, pending,
                   touched, happened>>

(* Told every second; a second time in a row it changes nothing.           *)
CannotConnect ==
    /\ reader = "connect" /\ Room
    /\ ~running
    /\ events # << >> => Last(events) # Disconnected
    /\ Tell(Disconnected)
    /\ UNCHANGED <<daemonVars, feedVars, overtaken, reader, linkVars, inbox, torn, channel,
                   viewVars, lockVars, pending, touched, happened>>

(* A request that cannot be written is gone, and the app is not told.      *)
WriteRequest ==
    /\ reader = "talk"
    /\ channel # << >>
    /\ channel' = Tail(channel)
    /\ IF linked THEN inbox' = Append(inbox, Head(channel)) /\ UNCHANGED reader
                 ELSE reader' = "connect" /\ UNCHANGED inbox
    /\ UNCHANGED <<daemonVars, feedVars, overtaken, linkVars, torn, events, viewVars, lockVars,
                   pending, touched, happened>>

ReadLine ==
    /\ reader = "talk" /\ Room
    /\ Feed!Deliver(link)
    /\ Tell(IF torn THEN Malformed ELSE Response(Head(outbox[link])))
    /\ torn' = FALSE
    /\ UNCHANGED <<daemonVars, overtaken, reader, linkVars, inbox, channel, viewVars, lockVars, pending,
                   touched, happened>>

(* The read times out after a part of a message, which is thrown away.     *)
ReadTimesOut ==
    /\ reader = "talk"
    /\ link \in begun /\ ~torn
    /\ torn' = TRUE
    /\ UNCHANGED <<daemonVars, feedVars, overtaken, reader, linkVars, inbox, channel, events,
                   viewVars, lockVars, pending, touched, happened>>

(* The end of the input, after what is left of a message.                  *)
ReadEnds ==
    /\ reader = "talk" /\ Room
    /\ ~linked
    /\ IF fragment
       THEN Tell(Malformed) /\ fragment' = FALSE /\ UNCHANGED reader
       ELSE reader' = "connect" /\ UNCHANGED <<events, fragment>>
    /\ UNCHANGED <<daemonVars, feedVars, overtaken, link, peer, linked, inbox, torn, channel,
                   viewVars, lockVars, pending, touched, happened>>

-----------------------------------------------------------------------------
(* TouchscreenApp::receive and apply: one event. *)

Nothing == [daemon |-> 0, revision |-> 0]

Show(state) == shown' = state

(* Mutant of AsksAgain: nothing is asked for. *)
AsksAgainNever == UNCHANGED channel

AsksAgain == channel' = Append(channel, Snapshot)

ForgetFocus == focus' = 0

(* Mutant of Carries: a response without a state is taken for one. *)
CarriesAlways(state) == TRUE

Carries(state) == state.revision # 0

(* Mutant of Gap: state of another daemon is taken by its number. *)
GapByRevision(tag, state) ==
    shown # Nothing /\ tag # "group" /\ state.revision > shown.revision + 1

Gap(tag, state) ==
    /\ shown # Nothing
    /\ \/ state.daemon # shown.daemon
       \/ tag # "group" /\ state.revision > shown.revision + 1

Apply(tag, state) ==
    CASE ~Carries(state) -> UNCHANGED <<channel, connection, shown, focus>>
      [] Carries(state) /\ Gap(tag, state) ->
           /\ Show(Nothing)
           /\ ForgetFocus
           /\ AsksAgain
           /\ UNCHANGED connection
      [] Carries(state) /\ ~Gap(tag, state) ->
           /\ Show(state)
           /\ connection' = "connected"
           /\ UNCHANGED <<focus, channel>>

(* Mutant of ForgetShown: what is shown stays. *)
KeepShown == UNCHANGED shown

ForgetShown == Show(Nothing)

TakeEvent ==
    /\ events # << >>
    /\ events' = Tail(events)
    /\ LET event == Head(events)
       IN  \/ /\ event.kind = "connected"
              /\ connection' = "connected"
              /\ UNCHANGED <<shown, focus, channel>>
           \/ /\ event.kind = "disconnected"
              /\ connection' = "offline"
              /\ Show(Nothing)
              /\ ForgetFocus
              /\ UNCHANGED channel
           \/ /\ event.kind = "malformed"
              /\ connection' = "protocol_error"
              /\ ForgetShown
              /\ UNCHANGED <<focus, channel>>
           \/ /\ event.kind = "response"
              /\ Apply(event.tag, event.state)
    /\ forgot' = (focus' # 0 /\ (forgot \/ Head(events) = Malformed))
    /\ UNCHANGED <<daemonVars, feedVars, overtaken, reader, linkVars, inbox, torn, lockVars,
                   pending, touched, happened>>

-----------------------------------------------------------------------------
(* The rest of a frame, once everything has been received. *)

Frame ==
    /\ events = << >>
    /\ UNCHANGED <<daemonVars, feedVars, overtaken, reader, linkVars, inbox, torn, events,
                   connection, shown>>

(* Levels and groups are drawn, and commands sent. *)
Drawn == ~locked /\ shown # Nothing /\ shown.revision \notin OfflineAt

Waiting(waiting) == { t \in Targets : waiting[t] # 0 }

CommandFor(waiting, t) == [kind |-> t, touch |-> waiting[t]]

(* Mutant of Remaining: what was sent stays pending. *)
RemainingAll(waiting, due) == waiting

Remaining(waiting, due) == [t \in Targets |-> IF t \in due THEN 0 ELSE waiting[t]]

(* flush_commands: of what is pending, that of targets whose last command  *)
(* is not too recent, levels before groups.                                *)
Flush(waiting, due) ==
    LET sent == [t \in Targets |->
                   IF t \in due THEN <<CommandFor(waiting, t)>> ELSE << >>]
    IN  /\ channel' = channel \o sent["level"] \o sent["group"]
        /\ pending' = Remaining(waiting, due)

FlushCommands(waiting) ==
    IF connection = "connected"
    THEN \E due \in SUBSET Waiting(waiting) : Flush(waiting, due)
    ELSE pending' = waiting /\ UNCHANGED channel

(* A touch of a level or a group replaces what was pending for it.         *)
TouchTarget ==
    /\ Happens
    /\ Frame
    /\ Drawn
    /\ touched < MaxTouches
    /\ touched' = touched + 1
    /\ \E t \in Targets : FlushCommands([pending EXCEPT ![t] = touched'])
    /\ UNCHANGED <<focus, forgot, lockVars>>

(* A frame that is repainted because commands are pending.                 *)
SendPending ==
    /\ Frame
    /\ Drawn
    /\ connection = "connected"
    /\ \E due \in (SUBSET Waiting(pending)) \ {{}} : Flush(pending, due)
    /\ UNCHANGED <<focus, forgot, lockVars, touched, happened>>

TouchLabel ==
    /\ Happens
    /\ Frame
    /\ Drawn
    /\ focus' \in {0, shown.daemon}
    /\ focus' # focus /\ forgot' = FALSE
    /\ UNCHANGED <<channel, pending, lockVars, touched>>

(* The profile panel is there whatever is shown. *)
TouchProfiles ==
    /\ Happens
    /\ Frame
    /\ ~locked
    /\ touched < MaxTouches
    /\ touched' = touched + 1
    /\ channel' = Append(channel, [kind |-> "profile", touch |-> touched'])
    /\ UNCHANGED <<focus, forgot, pending, lockVars>>

(* Mutant of ClearedByLock: what is pending stays. *)
ClearedByLockNothing == pending

ClearedByLock == [t \in Targets |-> 0]

(* By its button, or after auto_lock_after without a touch.                *)
Lock ==
    /\ Happens
    /\ Frame
    /\ ~locked
    /\ locked' = TRUE
    /\ focus' = 0 /\ forgot' = FALSE
    /\ pending' = ClearedByLock
    /\ dropped' = [t \in Targets |-> dropped[t] \cup ({pending[t]} \ {0})]
    /\ UNCHANGED <<channel, touched>>

(* Touches of which ScreenLock!Unlocks holds; nothing else is drawn while  *)
(* the screen is locked.                                                   *)
Unlock ==
    /\ Frame
    /\ locked
    /\ locked' = FALSE
    /\ UNCHANGED <<channel, focus, forgot, pending, dropped, touched, happened>>

-----------------------------------------------------------------------------
Init ==
    /\ daemon = 0 /\ running = FALSE
    /\ Feed!FeedInit
    /\ obeyed = [t \in Targets |-> 0]
    /\ reader = "connect"
    /\ link = 0 /\ peer = 0 /\ linked = FALSE
    /\ inbox = << >> /\ fragment = FALSE /\ torn = FALSE
    /\ channel = << >> /\ events = << >>
    /\ connection = "connecting" /\ shown = Nothing
    /\ focus = 0 /\ forgot = FALSE
    /\ locked = FALSE
    /\ pending = [t \in Targets |-> 0]
    /\ touched = 0 /\ dropped = [t \in Targets |-> {}]
    /\ overtaken = FALSE /\ happened = 0

Daemon == StartDaemon \/ EndDaemon \/ StateChanges

Server == Accept \/ Announce \/ Serve \/ SendPart \/ Drop

Reader ==
    \/ Connect \/ CannotConnect
    \/ WriteRequest
    \/ ReadLine \/ ReadTimesOut \/ ReadEnds

User == TouchTarget \/ TouchLabel \/ TouchProfiles \/ Lock \/ Unlock

Next == Daemon \/ Server \/ Reader \/ TakeEvent \/ SendPending \/ User

Spec == Init /\ [][Next]_vars

(* The server keeps its promises, both threads run, and what is pending    *)
(* brings about another frame.                                             *)
Fairness ==
    /\ WF_vars(Accept) /\ WF_vars(Announce) /\ WF_vars(Serve) /\ WF_vars(Drop)
    /\ WF_vars(Connect \/ CannotConnect)
    /\ WF_vars(WriteRequest)
    /\ SF_vars(ReadLine) /\ WF_vars(ReadEnds)
    /\ WF_vars(TakeEvent)
    /\ SF_vars(SendPending)

FairSpec == Spec /\ Fairness

-----------------------------------------------------------------------------
State == [daemon : 0..MaxDaemons, revision : 0..MaxRevision]

Event ==
    {Connected, Disconnected, Malformed}
      \cup [kind : {"response"}, tag : Kinds, state : State]

(* Every variable holds a value of its kind, and only the connection made  *)
(* last is known to a daemon that runs.                                    *)
TypeOK ==
    /\ daemon \in 0..MaxDaemons /\ peer \in 0..daemon
    /\ {running, linked, fragment, torn, locked, overtaken, forgot} \subseteq BOOLEAN
    /\ revision \in 1..MaxRevision /\ announced \in 0..MaxRevision
    /\ link \in 0..MaxLinks
    /\ connected \subseteq (IF linked THEN {link} ELSE {})
    /\ linked => running /\ peer = daemon
    /\ begun \subseteq connected /\ closing \subseteq connected /\ refused = {}
    /\ \A c \in Links : outbox[c] \in Seq([event : BOOLEAN, revision : 0..MaxRevision, tag : Kinds])
    /\ reader \in {"connect", "talk"}
    /\ inbox \in Seq(Request) /\ channel \in Seq(Request)
    /\ events \in Seq(Event) /\ Len(events) <= MaxEvents
    /\ connection \in {"connecting", "connected", "offline", "protocol_error"}
    /\ shown \in {Nothing} \cup [daemon : 1..daemon, revision : 1..MaxRevision]
    /\ focus \in 0..daemon
    /\ pending \in [Targets -> 0..touched] /\ obeyed \in [Targets -> 0..touched]
    /\ touched \in 0..MaxTouches /\ dropped \in [Targets -> SUBSET (1..touched)]
    /\ happened \in 0..MaxHappened

CarriesState(messages) == \E m \in Range(messages) : m.revision # 0

Asked(requests) == Snapshot \in Range(requests)

(* After a malformed line the app waits for whatever comes next. *)
Spoiled ==
    connection = "protocol_error" \/ torn \/ fragment \/ Malformed \in Range(events)

(* A screen that shows nothing is never forgotten: a state is on its way,  *)
(* or has been asked for, or the reader will find its connection ended.    *)
(* Only a malformed line leaves it waiting for the next change.            *)
BlankIsOwed ==
    shown = Nothing /\ ~Spoiled =>
      \/ ~linked
      \/ link \notin connected \/ link \in closing
      \/ CarriesState(outbox[link]) \/ Asked(inbox) \/ Asked(channel)
      \/ \E event \in Range(events) : event.kind = "response" /\ event.state.revision # 0

Quiet ==
    /\ link \in connected \ closing
    /\ announced = revision
    /\ outbox[link] = << >> /\ inbox = << >> /\ channel = << >> /\ events = << >>

(* When nothing is under way, the screen shows the state of the daemon it  *)
(* is connected to, or nothing: whatever was lost, torn or skipped never   *)
(* leaves an older state, or another daemon's, on it.  The one exception   *)
(* is word that has taken the place of older word in front of a reply with *)
(* an older state, which is then shown last.                               *)
QuietIsCurrent ==
    Quiet /\ ~overtaken => shown \in {Nothing, [daemon |-> daemon, revision |-> revision]}

(* However often the connection is lost and commands wait, are merged or   *)
(* throttled, the daemon carries out the touches of a level in their       *)
(* order, none of them twice: what is under way is newer than the last it  *)
(* has learned of, comes in the order of the touches, and is older than    *)
(* what still waits to be sent.                                            *)
TouchesInOrder ==
    \A t \in Targets :
      LET sent     == inbox \o channel
          commands == { i \in DOMAIN sent : sent[i].kind = t }
      IN  /\ \A i \in commands : sent[i].touch > obeyed[t]
          /\ \A i, j \in commands : i < j => sent[i].touch < sent[j].touch
          /\ pending[t] # 0 =>
               \A touch \in {obeyed[t]} \cup { sent[i].touch : i \in commands } :
                 touch < pending[t]

(* A touch that a lock has found waiting for its turn is never carried     *)
(* out, by whatever daemon, over whatever connection and whoever unlocks   *)
(* the screen, although nothing but its number tells it from a later one.  *)
(* This says nothing of commands handed to the reader before the lock:     *)
(* those are written and carried out when there is a connection again.     *)
LockEndsWaiting == \A t \in Targets : obeyed[t] \notin dropped[t]

(* The focused level is on the dashboard shown, as the app asserts when it *)
(* draws its panel.  Only a malformed line may leave a focus behind that   *)
(* the dashboard of the next daemon does not have.                         *)
FocusIsOnDashboard ==
    focus # 0 /\ shown # Nothing => focus = shown.daemon \/ forgot

(* The lock, which keeps no more than a step and a time, opens exactly for *)
(* the four corners clockwise and in time, wherever in a row of touches    *)
(* they come, whatever was begun and given up before them.                 *)
UnlockIsClockwise == locked => OpensClockwise

(* As long as a daemon runs that can be connected to, the screen comes to  *)
(* show its state, through all gaps, losses and restarts.                  *)
Stuck == connection = "protocol_error" \/ overtaken \/ (link = MaxLinks /\ ~linked)

ScreenCatchesUp ==
    []<>(~running \/ Stuck \/ shown = [daemon |-> daemon, revision |-> revision])
=============================================================================
