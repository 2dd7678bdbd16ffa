------------------------------ MODULE Service ------------------------------
(***************************************************************************)
(* The device policy of focusrited (crates/focusrited/src/lib.rs): one     *)
(* Service owns the audio interface, keeps a cached snapshot of it under a *)
(* revision number, and serves commands, level groups and profiles, each   *)
(* of them a series of write-then-resnapshot steps.  The interface is not  *)
(* a part of the program: its front panel moves, its USB cable is pulled,  *)
(* another unit is plugged in under the same card name, calls fail.  All   *)
(* of that may happen between any two calls the service makes.             *)
(*                                                                         *)
(* One action is the code between two calls into the device, so a command  *)
(* is Write then Confirm.  A request the code refuses before its first     *)
(* device call changes nothing and is a stuttering step.                   *)
(***************************************************************************)
EXTENDS Integers, Sequences, FiniteSets, LevelMap

CONSTANTS
    NumControls,     \* control IDs stand for their rank in the order of the IDs
    Units,           \* interfaces that can be plugged in; a unit fixes its
                     \*   identity, capability schema and capabilities
    NoUnit,          \* nothing is plugged in
    Absent,          \* what a table holds for a key it does not have
    Home,            \* the unit present at startup, which the dashboard is for
    DeviceId,        \* identity of each unit
    Schema,          \* capability schema of each unit
    Capability,      \* what each unit declares of each control it has
    Numbers,         \* the numbers clients and fingers choose
    InitialSettings, \* what the units may be set to when the daemon starts
    Names,           \* valid profile names
    StoredProfiles,  \* the profile tables the daemon may load at startup
    GroupMembers,    \* the configured level group, in configured order
    GroupAnchor,     \* and its anchor
    Targets,         \* positions of group commands
    MaxDisturbances, \* bound: front-panel moves, plug events and faults
    MaxRequests,     \* bound: requests served
    MaxEvents        \* bound: requests and disturbances together

Controls == 1..NumControls

Domains == {"boolean", "integer"}

Value == [domain : Domains, n : Int]

Cap == [domain : Domains, writable : BOOLEAN, available : BOOLEAN,
        relative : BOOLEAN, lo : Int, hi : Int]

Reading == Value \cup {Absent}

Settings == [Units -> [Controls -> Value]]

Profile == [device : { DeviceId[u] : u \in Units },
            schema : { Schema[u] : u \in Units },
            values : [Controls -> Reading]]

ProfileTable == [Names -> Profile \cup {Absent}]

ASSUME ServiceAssumption ==
    /\ NumControls \in Nat
    /\ NoUnit \notin Units
    /\ Absent \notin Value \cup Cap \cup Profile
    /\ Home \in Units
    /\ Capability \in [Units -> [Controls -> Cap \cup {Absent}]]
    /\ Numbers \subseteq Int
    /\ InitialSettings \subseteq Settings
    /\ StoredProfiles \subseteq ProfileTable
    /\ GroupMembers \in Seq(Controls)
    /\ GroupAnchor \in Controls
    /\ Targets \subseteq Nat
    /\ MaxDisturbances \in Nat
    /\ MaxRequests \in Nat
    /\ MaxEvents \in Nat

VARIABLES
    (* The interface and its event subscription, outside the program. *)
    attached,       \* the unit behind the card name, or NoUnit
    settings,       \* what each unit is really set to
    subscription,   \* event_control: "none", "live", or "dead" after an unplug
    pending,        \* an event waits to be read from a live subscription
    (* Service. *)
    snapshot,       \* the cached snapshot: a unit's capabilities and its values
    online,
    revision,
    profiles,
    (* The request being served. *)
    serving,        \* its kind, for an apply the review it came with, and
                    \*   the view it began from (history)
    plan,           \* the control writes it is to make, in order
    at,             \* the index of the next one; beyond the plan when done
    confirming,     \* the write at `at` was made and is to be read back
    report,         \* what became of each control
    (* Clients and history. *)
    reviews,        \* the review handles clients hold
    wrote,          \* the Device::write calls of this request
    disturbances,
    requests

interfaceVars == <<attached, settings, subscription, pending>>
cacheVars     == <<snapshot, online, revision>>
requestVars   == <<serving, plan, at, confirming, report, wrote>>
vars == <<interfaceVars, cacheVars, profiles, requestVars, reviews, disturbances, requests>>

View == [snapshot |-> snapshot, online |-> online]

Snapshots == [unit : Units, values : [Controls -> Reading]]

Views == [snapshot : Snapshots, online : BOOLEAN]

(* A review handle, with the view it was computed from as history.  The    *)
(* fingerprint hashes the profile's name and content; the model keeps both *)
(* and leaves collisions of the 64-bit hash out.                           *)
Review == [revision : Nat, name : Names, profile : Profile, seen : Views]

NoReview == [revision |-> 0]

Serving == [kind   : {"none", "command", "group", "apply"},
            review : Review \cup {NoReview},
            began  : Views]

(* A planned write; "absent" stands for no entry at all.                   *)
PlannedWrite == [control : Controls, value : Value,
                 status  : {"ready", "skipped", "absent"}]

Outcomes == {"none", "applied", "skipped", "failed"}

Idle == at > Len(plan)

-----------------------------------------------------------------------------
(* Capabilities and values. *)

Integer(n) == [domain |-> "integer", n |-> n]

(* matches_domain and the bounds.  A bound the adapter leaves out is one    *)
(* no number reaches.                                                      *)
Accepts(cap, v) ==
    /\ v.domain = cap.domain
    /\ v.domain = "integer" => cap.lo <= v.n /\ v.n <= cap.hi

(* What a write of v to control c would run into, judged on one snapshot.  *)
Writable(s, c, v) ==
    LET cap == Capability[s.unit][c]
    IN  /\ cap # Absent
        /\ cap.available
        /\ cap.writable
        /\ Accepts(cap, v)

Shows(s, c, v) == s.values[c] = v

(* What Device::snapshot returns: the capabilities of the unit and the     *)
(* value of every control that can be read.                                *)
HardwareSnapshot ==
    [unit   |-> attached,
     values |-> [c \in Controls |->
                   IF Capability[attached][c] # Absent /\ Capability[attached][c].available
                   THEN settings[attached][c] ELSE Absent]]

Bound(profile, s) ==
    /\ profile.device = DeviceId[s.unit]
    /\ profile.schema = Schema[s.unit]

-----------------------------------------------------------------------------
(* Refresh: resnapshot, compare with the cache, number what is new. *)

AnotherEvent == requests + disturbances < MaxEvents

Disturb ==
    /\ disturbances < MaxDisturbances /\ AnotherEvent
    /\ disturbances' = disturbances + 1

(* Mutant of NextRevision: coming back online unchanged is not numbered. *)
NextRevisionByValue(s) == IF s # snapshot THEN revision + 1 ELSE revision

NextRevision(s) == IF s # snapshot \/ ~online THEN revision + 1 ELSE revision

RefreshSucceeds ==
    /\ attached # NoUnit
    /\ snapshot' = HardwareSnapshot
    /\ online' = TRUE
    /\ revision' = NextRevision(HardwareSnapshot)

(* Mutants of MarkOffline: every failure is numbered, also when already     *)
(* offline; the values shown are dropped with the connection.              *)
MarkOfflineAgain ==
    /\ online' = FALSE
    /\ revision' = revision + 1
    /\ UNCHANGED snapshot

MarkOfflineClears ==
    /\ online' = FALSE
    /\ revision' = IF online THEN revision + 1 ELSE revision
    /\ snapshot' = [snapshot EXCEPT !.values = [c \in Controls |-> Absent]]

MarkOffline ==
    /\ online' = FALSE
    /\ revision' = IF online THEN revision + 1 ELSE revision
    /\ UNCHANGED snapshot

(* The snapshot call fails because nothing is there, or because it fails.  *)
RefreshFails ==
    /\ MarkOffline
    /\ IF attached = NoUnit THEN UNCHANGED disturbances ELSE Disturb

Refresh == (RefreshSucceeds /\ UNCHANGED disturbances) \/ RefreshFails

(* Mutant of HealthCheck: only made while online. *)
HealthCheckOnline ==
    /\ Idle /\ online
    /\ Refresh
    /\ UNCHANGED <<interfaceVars, profiles, requestVars, reviews, requests>>

(* The worker's three-second health check and a client's refresh request.  *)
HealthCheck ==
    /\ Idle
    /\ Refresh
    /\ UNCHANGED <<interfaceVars, profiles, requestVars, reviews, requests>>

-----------------------------------------------------------------------------
(* wait_for_change, called by the worker while online. *)

Subscribe ==
    /\ Idle /\ online /\ subscription = "none" /\ attached # NoUnit
    /\ subscription' = "live"
    /\ pending' = FALSE
    /\ UNCHANGED <<attached, settings, cacheVars, profiles, requestVars, reviews,
                   disturbances, requests>>

SubscribeFails ==
    /\ Idle /\ online /\ subscription = "none"
    /\ MarkOffline
    /\ IF attached = NoUnit THEN UNCHANGED disturbances ELSE Disturb
    /\ UNCHANGED <<interfaceVars, profiles, requestVars, reviews, requests>>

(* One event is read and the whole interface resnapshot. *)
EventArrives ==
    /\ Idle /\ online /\ subscription = "live" /\ pending
    /\ pending' = FALSE
    /\ Refresh
    /\ UNCHANGED <<attached, settings, subscription, profiles, requestVars, reviews, requests>>

(* Reading from the subscription fails, which drops it. *)
EventReadFails ==
    /\ Idle /\ online
    /\ \/ subscription = "dead" /\ UNCHANGED disturbances
       \/ subscription = "live" /\ pending /\ Disturb
    /\ subscription' = "none"
    /\ pending' = FALSE
    /\ MarkOffline
    /\ UNCHANGED <<attached, settings, profiles, requestVars, reviews, requests>>

(* The poll itself fails and returns early, which keeps the subscription.  *)
PollFails ==
    /\ Idle /\ online /\ subscription \in {"live", "dead"}
    /\ MarkOffline
    /\ Disturb
    /\ UNCHANGED <<interfaceVars, profiles, requestVars, reviews, requests>>

WaitForChange ==
    Subscribe \/ SubscribeFails \/ EventArrives \/ EventReadFails \/ PollFails

-----------------------------------------------------------------------------
(* Requests: what each handler computes before its first device call. *)

Begin(request, steps) ==
    /\ Idle
    /\ requests < MaxRequests /\ AnotherEvent
    /\ requests' = requests + 1
    /\ serving' = request
    /\ plan' = steps
    /\ at' = 1
    /\ confirming' = FALSE
    /\ report' = [c \in Controls |-> "none"]
    /\ wrote' = {}
    /\ UNCHANGED <<interfaceVars, cacheVars, profiles, reviews, disturbances>>

Request(kind) == [kind |-> kind, review |-> NoReview, began |-> View]

Command ==
    \E c \in Controls, d \in Domains, n \in Numbers :
      LET v == [domain |-> d, n |-> n]
      IN  /\ Writable(snapshot, c, v)
          /\ Begin(Request("command"), <<[control |-> c, value |-> v, status |-> "ready"]>>)

CapOf(c) == Capability[snapshot.unit][c]

(***************************************************************************)
(* LevelGroup::validate: at least two members, none twice, each a          *)
(* discovered, available, writable integer control that the adapter has    *)
(* declared a relative level with a proper range, the anchor among them.   *)
(* Which of the reasons a refusal names is left out.                       *)
(***************************************************************************)
Eligible(c) ==
    /\ CapOf(c) # Absent
    /\ CapOf(c).available
    /\ CapOf(c).writable
    /\ CapOf(c).domain = "integer"
    /\ CapOf(c).relative
    /\ CapOf(c).lo < CapOf(c).hi

ValidGroup ==
    /\ Len(GroupMembers) >= 2
    /\ \A i, j \in DOMAIN GroupMembers : GroupMembers[i] = GroupMembers[j] => i = j
    /\ \A i \in DOMAIN GroupMembers : Eligible(GroupMembers[i])
    /\ \E i \in DOMAIN GroupMembers : GroupMembers[i] = GroupAnchor

(* The dashboard's binding and its group, checked against the snapshot. *)
DashboardValid ==
    /\ DeviceId[snapshot.unit] = DeviceId[Home]
    /\ Schema[snapshot.unit] = Schema[Home]
    /\ ValidGroup

GroupReadable ==
    \A i \in DOMAIN GroupMembers :
      LET c == GroupMembers[i]
      IN  /\ snapshot.values[c] # Absent
          /\ snapshot.values[c].domain = "integer"
          /\ Mappable(snapshot.values[c].n, CapOf(c).lo, CapOf(c).hi)

(* command_level_group reads every member once and fixes all its targets.  *)
LevelGroup ==
    \E position \in Targets :
      LET PositionAt(c) == UnmapLevel(snapshot.values[c].n, CapOf(c).lo, CapOf(c).hi)
          delta         == position - PositionAt(GroupAnchor)
          Target(c)     == ShiftLevel(snapshot.values[c].n, CapOf(c).lo, CapOf(c).hi, delta)
      IN  /\ position \in Position
          /\ DashboardValid
          /\ GroupReadable
          /\ Begin(Request("group"),
                   [i \in DOMAIN GroupMembers |->
                      [control |-> GroupMembers[i],
                       value   |-> Integer(Target(GroupMembers[i])),
                       status  |-> "ready"]])

(* A profile holds what can be written and shows a value. *)
Capture ==
    [device |-> DeviceId[snapshot.unit],
     schema |-> Schema[snapshot.unit],
     values |-> [c \in Controls |->
                   IF CapOf(c) # Absent /\ CapOf(c).available /\ CapOf(c).writable
                   THEN snapshot.values[c] ELSE Absent]]

SaveProfile ==
    \E name \in Names :
      /\ Idle
      /\ requests < MaxRequests /\ AnotherEvent
      /\ requests' = requests + 1
      /\ profiles' = [profiles EXCEPT ![name] = Capture]
      /\ UNCHANGED <<interfaceVars, cacheVars, requestVars, reviews, disturbances>>

(* profile_preview_status: writing this entry is both allowed and needed.  *)
Ready(s, c, v) == Writable(s, c, v) /\ ~Shows(s, c, v)

CurrentReview(name) ==
    [revision |-> revision, name |-> name, profile |-> profiles[name], seen |-> View]

ReviewProfile ==
    \E name \in Names :
      /\ Idle
      /\ requests < MaxRequests /\ AnotherEvent
      /\ profiles[name] # Absent
      /\ Bound(profiles[name], snapshot)
      /\ reviews' = reviews \cup {CurrentReview(name)}
      /\ requests' = requests + 1
      /\ UNCHANGED <<interfaceVars, cacheVars, profiles, requestVars, disturbances>>

(* Mutants of ReviewMatches: one half of the handle is not compared. *)
ReviewMatchesContent(review, name) ==
    /\ review.name = name
    /\ review.profile = profiles[name]

ReviewMatchesRevision(review, name) == review.revision = revision

(* The handle compares by revision and fingerprint. *)
ReviewMatches(review, name) ==
    /\ review.revision = revision
    /\ review.name = name
    /\ review.profile = profiles[name]

(* The entries, in the order of the IDs, each with a status computed once  *)
(* before the first write.  An ID the profile does not hold is "absent".   *)
ProfilePlan(profile) ==
    [c \in Controls |->
       IF profile.values[c] = Absent
       THEN [control |-> c, value |-> Integer(0), status |-> "absent"]
       ELSE [control |-> c,
             value   |-> profile.values[c],
             status  |-> IF Ready(snapshot, c, profile.values[c]) THEN "ready" ELSE "skipped"]]

ApplyReviewedProfile ==
    \E name \in Names, review \in reviews :
      /\ profiles[name] # Absent
      /\ Bound(profiles[name], snapshot)
      /\ ReviewMatches(review, name)
      /\ Begin([kind |-> "apply", review |-> review, began |-> View], ProfilePlan(profiles[name]))

-----------------------------------------------------------------------------
(* Requests: the writes, one at a time.  Service::command is Write followed *)
(* by Confirm; the other two kinds call it in a loop.                       *)

Entry == plan[at]

(* Mutants of Finish: the read-back is not reset; a group goes on after a  *)
(* failure; a group that stops loses the member it failed at.              *)
FinishStillConfirming(outcome) ==
    /\ report' = [report EXCEPT ![Entry.control] = outcome]
    /\ UNCHANGED confirming
    /\ at' = IF serving.kind = "group" /\ outcome = "failed" THEN Len(plan) + 1 ELSE at + 1

FinishGoesOn(outcome) ==
    /\ report' = [report EXCEPT ![Entry.control] = outcome]
    /\ confirming' = FALSE
    /\ at' = at + 1

FinishLosesFailure(outcome) ==
    /\ confirming' = FALSE
    /\ IF serving.kind = "group" /\ outcome = "failed"
       THEN at' = Len(plan) + 1 /\ UNCHANGED report
       ELSE at' = at + 1 /\ report' = [report EXCEPT ![Entry.control] = outcome]

Finish(outcome) ==
    /\ report' = [report EXCEPT ![Entry.control] = outcome]
    /\ confirming' = FALSE
    /\ at' = IF serving.kind = "group" /\ outcome = "failed" THEN Len(plan) + 1 ELSE at + 1

(* A group passes over a member that already shows its target. *)
PassedOver ==
    \/ Entry.status # "ready"
    \/ serving.kind = "group" /\ Shows(snapshot, Entry.control, Entry.value)

Skip ==
    /\ ~Idle /\ ~confirming
    /\ PassedOver
    /\ Finish(IF Entry.status = "absent" THEN "none" ELSE "skipped")
    /\ UNCHANGED <<interfaceVars, cacheVars, profiles, serving, plan, wrote, reviews,
                   disturbances, requests>>

(* The cache has changed since the plan was made: command refuses. *)
Reject ==
    /\ ~Idle /\ ~confirming
    /\ ~PassedOver
    /\ ~Writable(snapshot, Entry.control, Entry.value)
    /\ Finish("failed")
    /\ UNCHANGED <<interfaceVars, cacheVars, profiles, serving, plan, wrote, reviews,
                   disturbances, requests>>

(* Device::write is called, the service believing `snapshot.unit` is there. *)
Attempt ==
    /\ ~Idle /\ ~confirming
    /\ ~PassedOver
    /\ Writable(snapshot, Entry.control, Entry.value)
    /\ wrote' = wrote \cup {[control |-> Entry.control, value |-> Entry.value,
                            believed |-> snapshot.unit]}
    /\ UNCHANGED <<attached, subscription, cacheVars, profiles, serving, plan, reviews, requests>>

InterfaceTakes ==
    /\ attached # NoUnit
    /\ Writable(HardwareSnapshot, Entry.control, Entry.value)

ValueLands ==
    /\ settings' = [settings EXCEPT ![attached][Entry.control] = Entry.value]
    /\ pending' = (pending \/ subscription = "live")

WriteLands ==
    /\ Attempt
    /\ InterfaceTakes
    /\ ValueLands
    /\ confirming' = TRUE
    /\ UNCHANGED <<at, report, disturbances>>

WriteIsIgnored ==
    /\ Attempt
    /\ InterfaceTakes
    /\ Disturb
    /\ confirming' = TRUE
    /\ UNCHANGED <<settings, pending, at, report>>

(* An error is answered without a resnapshot, whether or not it landed. *)
WriteFails ==
    /\ Attempt
    /\ \/ ~InterfaceTakes /\ UNCHANGED <<settings, pending, disturbances>>
       \/ InterfaceTakes /\ Disturb /\ UNCHANGED <<settings, pending>>
       \/ InterfaceTakes /\ Disturb /\ ValueLands
    /\ Finish("failed")

Confirm ==
    /\ ~Idle /\ confirming
    /\ \/ /\ RefreshSucceeds
          /\ Finish(IF Shows(HardwareSnapshot, Entry.control, Entry.value)
                    THEN "applied" ELSE "failed")
          /\ UNCHANGED disturbances
       \/ RefreshFails /\ Finish("failed")
    /\ UNCHANGED <<interfaceVars, profiles, serving, plan, wrote, reviews, requests>>

Serve == Skip \/ Reject \/ WriteLands \/ WriteIsIgnored \/ WriteFails \/ Confirm

-----------------------------------------------------------------------------
(* The interface, outside the program. *)

FrontPanel ==
    \E c \in Controls, n \in Numbers :
      /\ attached # NoUnit
      /\ Capability[attached][c] # Absent
      /\ LET v == [domain |-> Capability[attached][c].domain, n |-> n]
         IN  /\ Accepts(Capability[attached][c], v)
             /\ v # settings[attached][c]
             /\ settings' = [settings EXCEPT ![attached][c] = v]
      /\ pending' = (pending \/ subscription = "live")
      /\ Disturb
      /\ UNCHANGED <<attached, subscription, cacheVars, profiles, requestVars, reviews, requests>>

Unplug ==
    /\ attached # NoUnit
    /\ attached' = NoUnit
    /\ subscription' = IF subscription = "live" THEN "dead" ELSE subscription
    /\ pending' = FALSE
    /\ Disturb
    /\ UNCHANGED <<settings, cacheVars, profiles, requestVars, reviews, requests>>

Plug ==
    \E u \in Units :
      /\ attached = NoUnit
      /\ attached' = u
      /\ UNCHANGED <<settings, subscription, pending, cacheVars, profiles, requestVars, reviews,
                     disturbances, requests>>

Interface == FrontPanel \/ Unplug \/ Plug

-----------------------------------------------------------------------------
(* Service::connect with the stored profiles: nothing is written. *)
Init ==
    /\ attached = Home
    /\ settings \in InitialSettings
    /\ subscription = "none"
    /\ pending = FALSE
    /\ snapshot = HardwareSnapshot
    /\ online = TRUE
    /\ revision = 1
    /\ profiles \in StoredProfiles
    /\ serving = Request("none")
    /\ plan = << >>
    /\ at = 1
    /\ confirming = FALSE
    /\ report = [c \in Controls |-> "none"]
    /\ reviews = {}
    /\ wrote = {}
    /\ disturbances = 0
    /\ requests = 0

Next ==
    \/ Command \/ LevelGroup \/ SaveProfile \/ ReviewProfile \/ ApplyReviewedProfile
    \/ Skip \/ Reject \/ WriteLands \/ WriteIsIgnored \/ WriteFails \/ Confirm
    \/ HealthCheck
    \/ Subscribe \/ SubscribeFails \/ EventArrives \/ EventReadFails \/ PollFails
    \/ FrontPanel \/ Unplug \/ Plug

(* The worker thread never stops serving, waiting and checking; nothing is *)
(* assumed of clients, fingers and cables.                                 *)
Fairness ==
    /\ WF_vars(Serve)
    /\ WF_vars(WaitForChange)
    /\ WF_vars(HealthCheck)

Spec == Init /\ [][Next]_vars

FairSpec == Spec /\ Fairness

-----------------------------------------------------------------------------
(* Every variable holds a value of its kind. *)
TypeOK ==
    /\ attached \in Units \cup {NoUnit}
    /\ settings \in Settings
    /\ subscription \in {"none", "live", "dead"}
    /\ pending \in BOOLEAN
    /\ snapshot \in Snapshots
    /\ online \in BOOLEAN
    /\ revision \in Nat
    /\ profiles \in ProfileTable
    /\ serving \in Serving
    /\ plan \in Seq(PlannedWrite)
    /\ at \in 1..(Len(plan) + 1)
    /\ confirming \in BOOLEAN
    /\ confirming => ~Idle
    /\ report \in [Controls -> Outcomes]
    /\ reviews \subseteq Review
    /\ wrote \subseteq [control : Controls, value : Value, believed : Units]
    /\ disturbances \in Nat
    /\ requests \in Nat

(* The revision identifies the view: a review handle carrying the current  *)
(* revision was computed from the current view, whatever happened between. *)
RevisionNamesView ==
    \A r \in reviews : /\ r.revision <= revision
                       /\ r.revision = revision => r.seen = View

(* apply_reviewed_profile begins only while the interface, as far as the   *)
(* daemon knows, is exactly as the client saw it when it reviewed.         *)
ReviewIsCurrent ==
    serving.kind = "apply" => serving.review.seen = serving.began

(* A profile apply hands the device nothing but entries the reviewing      *)
(* client was shown as ready, with the values it was shown, however the    *)
(* interface, the cache and the profile table change meanwhile.            *)
AppliedAsReviewed ==
    serving.kind = "apply" =>
      \A w \in wrote :
        LET reviewed == serving.review.profile.values
        IN  /\ w.value = reviewed[w.control]
            /\ Ready(serving.review.seen.snapshot, w.control, w.value)

(* The report accounts for the writes: a control handed to the device is   *)
(* reported applied or failed as soon as it is not being confirmed, never  *)
(* skipped or left out, and nothing is reported applied that was not.      *)
ReportAccountsForWrites ==
    \A c \in Controls :
      LET written == \E w \in wrote : w.control = c
      IN  /\ report[c] = "applied" => written
          /\ (written /\ ~(confirming /\ Entry.control = c))
                => report[c] \in {"applied", "failed"}

(* command_level_group stops at the first member that fails: no member     *)
(* after it is written or reported.                                        *)
GroupStopsAtFailure ==
    serving.kind = "group" =>
      \A i, j \in DOMAIN GroupMembers :
        (i < j /\ report[GroupMembers[i]] = "failed") =>
          /\ report[GroupMembers[j]] = "none"
          /\ \A w \in wrote : w.control # GroupMembers[j]

(* State is never advanced optimistically: the cache changes only to what  *)
(* the interface holds at that moment, never to what was asked of it.      *)
StateComesFromHardware ==
    [][snapshot' # snapshot => attached # NoUnit /\ snapshot' = HardwareSnapshot]_vars

(* The cached view and its revision are a versioned view: the revision     *)
(* rises by one exactly when the snapshot or the online flag changes.      *)
Shown == INSTANCE VersionedView WITH view <- View, version <- revision
ShowsVersionedView == Shown!Spec

(* Once the interface is left alone the cache catches up with it, whatever *)
(* events were missed: the snapshot agrees with the unit plugged in, or    *)
(* nothing is plugged in and the daemon shows offline.                     *)
InSync ==
    IF attached = NoUnit THEN ~online ELSE online /\ snapshot = HardwareSnapshot
Reconciles == <>[]InSync

(* DeviceSnapshot.device_id (lib.rs): "Profiles never cross this boundary". *)
(* A profile's values are handed only to the device it was saved from, as   *)
(* far as the daemon itself knows which device is there.                    *)
ProfileStaysOnItsDevice ==
    serving.kind = "apply" =>
      \A w \in wrote : DeviceId[w.believed] = serving.review.profile.device
=============================================================================
