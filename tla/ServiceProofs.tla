--------------------------- MODULE ServiceProofs ---------------------------
(***************************************************************************)
(* The device policy of Service.tla, proved for every number of controls,  *)
(* every set of units, profiles and clients' choices, and without bound on *)
(* requests or disturbances other than that they are counted; last, through *)
(* any number of restarts (DaemonRestart.tla).                             *)
(***************************************************************************)
EXTENDS DaemonRestart, TLAPS

-----------------------------------------------------------------------------
(* Type correctness. *)

(* What the code supplies as constants, a fact at a time.                  *)
LEMMA ConstantTypes ==
    /\ NumControls \in Nat
    /\ NoUnit \notin Units
    /\ Absent \notin Value /\ Absent \notin Cap /\ Absent \notin Profile
    /\ Home \in Units
    /\ \A u \in Units, c \in Controls : Capability[u][c] \in Cap \cup {Absent}
    /\ Numbers \subseteq Int
    /\ InitialSettings \subseteq Settings
    /\ StoredProfiles \subseteq ProfileTable
    /\ GroupMembers \in Seq(Controls)
    /\ GroupAnchor \in Controls
    /\ Targets \subseteq Nat
    /\ MaxDisturbances \in Nat
    /\ MaxRequests \in Nat
  BY ServiceAssumption

(* A resnapshot of a unit that is there is a snapshot.                     *)
LEMMA HardwareSnapshotTyped ==
    ASSUME TypeOK, attached # NoUnit
    PROVE  /\ attached \in Units
           /\ HardwareSnapshot \in Snapshots
<1>1. attached \in Units /\ settings \in Settings
  BY DEF TypeOK
<1>2. ASSUME NEW c \in Controls PROVE settings[attached][c] \in Value
  BY <1>1 DEF Settings
<1> QED
  BY <1>1, <1>2 DEF HardwareSnapshot, Snapshots, Reading

(* A view is its two parts.                                                *)
LEMMA ViewTyped ==
    ASSUME TypeOK
    PROVE  /\ View \in Views
           /\ View' = View <=> (snapshot' = snapshot /\ online' = online)
  BY DEF TypeOK, View, Views

(* mark_offline leaves a view and a revision.                              *)
LEMMA MarkOfflineTyped ==
    ASSUME TypeOK, MarkOffline
    PROVE  /\ snapshot' \in Snapshots
           /\ online' \in BOOLEAN
           /\ revision' \in Nat
<1>1. revision' = revision \/ revision' = revision + 1
  BY Zenon DEF MarkOffline
<1>2. online' \in BOOLEAN
  BY Zenon DEF MarkOffline
<1> QED
  BY <1>1, <1>2 DEF TypeOK, MarkOffline

(* So does refresh, whether the snapshot call succeeds or fails.           *)
LEMMA RefreshTyped ==
    ASSUME TypeOK, Refresh
    PROVE  /\ snapshot' \in Snapshots
           /\ online' \in BOOLEAN
           /\ revision' \in Nat
           /\ disturbances' \in Nat
<1>1. CASE RefreshSucceeds /\ UNCHANGED disturbances
  BY <1>1, HardwareSnapshotTyped DEF TypeOK, RefreshSucceeds, NextRevision
<1>2. CASE RefreshFails
  <2>1. MarkOffline
    BY <1>2 DEF RefreshFails
  <2>2. disturbances' \in Nat
    BY <1>2 DEF TypeOK, RefreshFails, Disturb
  <2> QED
    BY <2>1, <2>2, MarkOfflineTyped
<1> QED
  BY <1>1, <1>2 DEF Refresh

(* A request begins with nothing written, confirmed or reported.           *)
LEMMA BeginTyped ==
    ASSUME TypeOK, NEW request \in Serving, NEW steps \in Seq(PlannedWrite),
           Begin(request, steps)
    PROVE  TypeOK'
<1>1. /\ serving' = request /\ plan' = steps /\ at' = 1 /\ confirming' = FALSE
      /\ report' = [c \in Controls |-> "none"] /\ wrote' = {}
      /\ requests' = requests + 1
      /\ UNCHANGED <<interfaceVars, cacheVars, profiles, reviews, disturbances>>
  BY DEF Begin
<1>2. report' \in [Controls -> Outcomes]
  BY <1>1 DEF Outcomes
<1>3. at' \in 1..(Len(plan') + 1)
  BY <1>1
<1>4. /\ UNCHANGED <<attached, settings, subscription, pending>>
      /\ UNCHANGED <<snapshot, online, revision, profiles, reviews, disturbances>>
  BY <1>1 DEF interfaceVars, cacheVars
<1>5. requests' \in Nat
  BY <1>1 DEF TypeOK
<1>6. confirming' \in BOOLEAN /\ (confirming' => ~Idle')
  BY <1>1
<1> QED
  BY <1>1, <1>2, <1>3, <1>4, <1>5, <1>6 DEF TypeOK

(* A request that carries no review is a request.                          *)
LEMMA RequestTyped ==
    ASSUME TypeOK, NEW kind \in {"none", "command", "group"}
    PROVE  Request(kind) \in Serving
  BY ViewTyped DEF Request, Serving

(* While a request is served there is a planned write to make.             *)
LEMMA EntryTyped ==
    ASSUME TypeOK, ~Idle
    PROVE  /\ at \in 1..Len(plan)
           /\ Entry \in PlannedWrite
<1>1. at \in 1..Len(plan)
  BY DEF TypeOK, Idle
<1> QED
  BY <1>1 DEF TypeOK, Entry

(* The outcome of a write is reported and the next one is due.             *)
LEMMA FinishTyped ==
    ASSUME TypeOK, ~Idle, NEW outcome \in Outcomes, Finish(outcome), plan' = plan
    PROVE  /\ report' \in [Controls -> Outcomes]
           /\ at' \in 1..(Len(plan') + 1)
           /\ confirming' = FALSE
<1>1. at \in 1..Len(plan) /\ Entry.control \in Controls /\ Len(plan) \in Nat
  BY EntryTyped DEF PlannedWrite, TypeOK
<1>2. /\ report' = [report EXCEPT ![Entry.control] = outcome]
      /\ confirming' = FALSE
      /\ at' = Len(plan) + 1 \/ at' = at + 1
  BY DEF Finish
<1>3. report' \in [Controls -> Outcomes]
  BY <1>1, <1>2 DEF TypeOK
<1> QED
  BY <1>1, <1>2, <1>3

(* An accepted command plans one write.                                    *)
LEMMA CommandTyped ==
    ASSUME TypeOK, Command
    PROVE  TypeOK'
<1>1. PICK c \in Controls, d \in Domains, n \in Numbers :
        Begin(Request("command"),
              <<[control |-> c, value |-> [domain |-> d, n |-> n], status |-> "ready"]>>)
  BY DEF Command
<1>2. [control |-> c, value |-> [domain |-> d, n |-> n], status |-> "ready"] \in PlannedWrite
  BY ConstantTypes DEF PlannedWrite, Value
<1>3. Request("command") \in Serving
  BY RequestTyped
<1> DEFINE steps == <<[control |-> c, value |-> [domain |-> d, n |-> n], status |-> "ready"]>>
<1>4. steps \in Seq(PlannedWrite)
  BY <1>2
<1>5. Begin(Request("command"), steps)
  BY <1>1
<1> HIDE DEF steps
<1> QED
  BY <1>3, <1>4, <1>5, BeginTyped

(* The level arithmetic answers integers (LevelGroupProofs says which).    *)
LEMMA QuotientIsInteger ==
    ASSUME NEW a \in Int, NEW b \in Int, b > 0
    PROVE  a \div b \in Int
  OBVIOUS

LEMMA UnmapIsInteger ==
    ASSUME NEW lo \in Int, NEW hi \in Int, lo < hi, NEW v \in Int
    PROVE  UnmapLevel(v, lo, hi) \in Int
<1> DEFINE span == hi - lo
           a    == (v - lo) * Scale + span \div 2
<1>1. span \in Int /\ span > 0 /\ a \in Int
  BY QuotientIsInteger DEF Scale
<1> HIDE DEF span, a
<1>2. a \div span \in Int
  BY <1>1, QuotientIsInteger
<1> QED
  BY <1>2 DEF UnmapLevel, a, span

LEMMA ShiftIsInteger ==
    ASSUME NEW lo \in Int, NEW hi \in Int, lo < hi, NEW v \in Int, NEW delta \in Int
    PROVE  ShiftLevel(v, lo, hi, delta) \in Int
<1> DEFINE p == Clamp(UnmapLevel(v, lo, hi) + delta)
           a == (hi - lo) * p + 500
<1>1. p \in Int
  BY UnmapIsInteger DEF Clamp, Scale
<1> HIDE DEF p
<1>2. a \in Int
  BY <1>1
<1> HIDE DEF a
<1>3. a \div Scale \in Int
  BY <1>2, QuotientIsInteger DEF Scale
<1> QED
  BY <1>3 DEF ShiftLevel, MapLevel, p, a

(* Every member of a readable group has a declared range and a position.   *)
LEMMA MemberTyped ==
    ASSUME TypeOK, DashboardValid, GroupReadable, NEW i \in DOMAIN GroupMembers
    PROVE  LET c == GroupMembers[i]
           IN  /\ c \in Controls
               /\ CapOf(c) \in Cap
               /\ CapOf(c).domain = "integer"
               /\ CapOf(c).lo < CapOf(c).hi
               /\ snapshot.values[c].n \in CapOf(c).lo..CapOf(c).hi
               /\ UnmapLevel(snapshot.values[c].n, CapOf(c).lo, CapOf(c).hi) \in Int
<1> DEFINE c == GroupMembers[i]
           v == snapshot.values[c].n
<1>1. c \in Controls /\ snapshot.unit \in Units
  BY ConstantTypes DEF TypeOK, Snapshots
<1>2. /\ CapOf(c) # Absent /\ CapOf(c).domain = "integer"
      /\ CapOf(c).lo < CapOf(c).hi
  BY DEF DashboardValid, ValidGroup, Eligible
<1>3. CapOf(c) \in Cap
  BY <1>1, <1>2, ConstantTypes DEF CapOf
<1>4. CapOf(c).lo \in Int /\ CapOf(c).hi \in Int
  BY <1>3 DEF Cap
<1>5. snapshot.values[c] # Absent /\ Mappable(v, CapOf(c).lo, CapOf(c).hi)
  BY DEF GroupReadable
<1>6. v \in Int
  BY <1>1, <1>5 DEF TypeOK, Snapshots, Reading, Value
<1>7. v \in CapOf(c).lo..CapOf(c).hi
  BY <1>4, <1>5, <1>6 DEF Mappable
<1>8. UnmapLevel(v, CapOf(c).lo, CapOf(c).hi) \in Int
  BY <1>2, <1>4, <1>6, UnmapIsInteger
<1> QED
  BY <1>1, <1>2, <1>3, <1>7, <1>8

(* The targets of a group are integers.                                    *)
LEMMA TargetTyped ==
    ASSUME TypeOK, DashboardValid, GroupReadable,
           NEW i \in DOMAIN GroupMembers, NEW delta \in Int
    PROVE  LET c == GroupMembers[i]
           IN  ShiftLevel(snapshot.values[c].n, CapOf(c).lo, CapOf(c).hi, delta) \in Int
<1> DEFINE c == GroupMembers[i]
<1>1. /\ CapOf(c).lo \in Int /\ CapOf(c).hi \in Int /\ CapOf(c).lo < CapOf(c).hi
      /\ snapshot.values[c].n \in CapOf(c).lo..CapOf(c).hi
  BY MemberTyped DEF Cap
<1> QED
  BY <1>1, ShiftIsInteger

(* What an accepted group command begins: one integer write per member, in *)
(* the configured order.                                                   *)
LEMMA LevelGroupBegins ==
    ASSUME TypeOK, LevelGroup
    PROVE  \E steps \in Seq(PlannedWrite) :
              /\ Begin(Request("group"), steps)
              /\ ValidGroup
              /\ Len(steps) = Len(GroupMembers)
              /\ \A i \in DOMAIN GroupMembers : steps[i].control = GroupMembers[i]
<1> DEFINE PositionAt(c) == UnmapLevel(snapshot.values[c].n, CapOf(c).lo, CapOf(c).hi)
           Target(c, p)  == ShiftLevel(snapshot.values[c].n, CapOf(c).lo, CapOf(c).hi,
                                       p - PositionAt(GroupAnchor))
           Steps(p) == [i \in DOMAIN GroupMembers |->
                          [control |-> GroupMembers[i],
                           value   |-> Integer(Target(GroupMembers[i], p)),
                           status  |-> "ready"]]
<1>1. PICK p \in Targets : /\ p \in Position
                           /\ DashboardValid
                           /\ GroupReadable
                           /\ Begin(Request("group"), Steps(p))
  BY DEF LevelGroup
<1>2. PositionAt(GroupAnchor) \in Int
  <2>1. PICK i \in DOMAIN GroupMembers : GroupMembers[i] = GroupAnchor
    BY <1>1 DEF DashboardValid, ValidGroup
  <2> QED
    BY <1>1, <2>1, MemberTyped
<1>3. p - PositionAt(GroupAnchor) \in Int
  BY <1>1, <1>2 DEF Position
<1>4. ASSUME NEW i \in DOMAIN GroupMembers
      PROVE  /\ GroupMembers[i] \in Controls
             /\ Target(GroupMembers[i], p) \in Int
  BY <1>1, <1>3, MemberTyped, TargetTyped
<1> HIDE DEF Target
<1>5. ASSUME NEW i \in DOMAIN GroupMembers PROVE Steps(p)[i] \in PlannedWrite
  BY <1>4 DEF PlannedWrite, Value, Domains, Integer
<1>6. /\ Steps(p) \in Seq(PlannedWrite)
      /\ Len(Steps(p)) = Len(GroupMembers)
      /\ \A i \in DOMAIN GroupMembers : Steps(p)[i].control = GroupMembers[i]
  <2>1. DOMAIN GroupMembers = 1..Len(GroupMembers) /\ Len(GroupMembers) \in Nat
    BY ConstantTypes
  <2>2. Steps(p) = [i \in 1..Len(GroupMembers) |-> Steps(p)[i]]
    BY <2>1
  <2> QED
    BY <1>5, <2>1, <2>2
<1> HIDE DEF Steps
<1> QED
  BY <1>1, <1>6 DEF DashboardValid

(* An accepted group command plans one write per member.                   *)
LEMMA LevelGroupTyped ==
    ASSUME TypeOK, LevelGroup
    PROVE  TypeOK'
  BY LevelGroupBegins, RequestTyped, BeginTyped

(* What save_profile captures is a profile.                                *)
LEMMA CaptureTyped ==
    ASSUME TypeOK
    PROVE  Capture \in Profile
<1>1. snapshot.unit \in Units /\ snapshot.values \in [Controls -> Reading]
  BY DEF TypeOK, Snapshots
<1>2. Absent \in Reading
  BY DEF Reading
<1> QED
  BY <1>1, <1>2 DEF Capture, Profile

(* Saving replaces one entry of the profile table.                         *)
LEMMA SaveProfileTyped ==
    ASSUME TypeOK, SaveProfile
    PROVE  TypeOK'
<1>1. PICK name \in Names :
        /\ requests' = requests + 1
        /\ profiles' = [profiles EXCEPT ![name] = Capture]
        /\ UNCHANGED <<interfaceVars, cacheVars, requestVars, reviews, disturbances>>
  BY DEF SaveProfile
<1>2. profiles' \in ProfileTable
  BY <1>1, CaptureTyped DEF TypeOK, ProfileTable
<1>3. requests' \in Nat
  BY <1>1 DEF TypeOK
<1>4. UNCHANGED <<interfaceVars, cacheVars, requestVars, reviews, disturbances>>
  BY <1>1
<1> QED
  BY <1>2, <1>3, <1>4 DEF TypeOK, Idle, interfaceVars, cacheVars, requestVars

(* The handle review_profile returns is a review.                          *)
LEMMA CurrentReviewTyped ==
    ASSUME TypeOK, NEW name \in Names, profiles[name] # Absent
    PROVE  CurrentReview(name) \in Review
<1>1. profiles[name] \in Profile /\ revision \in Nat /\ View \in Views
  BY ViewTyped DEF TypeOK, ProfileTable
<1> QED
  BY <1>1 DEF CurrentReview, Review

(* Reviewing hands one more handle to the clients.                         *)
LEMMA ReviewProfileTyped ==
    ASSUME TypeOK, ReviewProfile
    PROVE  TypeOK'
<1>1. PICK name \in Names :
        /\ profiles[name] # Absent
        /\ reviews' = reviews \cup {CurrentReview(name)}
        /\ requests' = requests + 1
        /\ UNCHANGED <<interfaceVars, cacheVars, profiles, requestVars, disturbances>>
  BY DEF ReviewProfile
<1>2. reviews' \subseteq Review
  BY <1>1, CurrentReviewTyped DEF TypeOK
<1>3. requests' \in Nat
  BY <1>1 DEF TypeOK
<1>4. UNCHANGED <<interfaceVars, cacheVars, profiles, requestVars, disturbances>>
  BY <1>1
<1> QED
  BY <1>2, <1>3, <1>4 DEF TypeOK, Idle, interfaceVars, cacheVars, requestVars

(* The plan of a profile is one planned write for each control.            *)
LEMMA ProfilePlanTyped ==
    ASSUME NEW profile \in Profile
    PROVE  /\ ProfilePlan(profile) \in Seq(PlannedWrite)
           /\ Len(ProfilePlan(profile)) = NumControls
<1>1. NumControls \in Nat
  BY ConstantTypes
<1>2. ASSUME NEW c \in Controls PROVE ProfilePlan(profile)[c] \in PlannedWrite
  <2>1. CASE profile.values[c] = Absent
    BY <2>1 DEF ProfilePlan, PlannedWrite, Integer, Value, Domains
  <2>2. CASE profile.values[c] # Absent
    <3>1. profile.values[c] \in Value
      BY <2>2 DEF Profile, Reading
    <3> QED
      BY <2>2, <3>1 DEF ProfilePlan, PlannedWrite
  <2> QED
    BY <2>1, <2>2
<1>3. ProfilePlan(profile) = [c \in 1..NumControls |-> ProfilePlan(profile)[c]]
  BY DEF ProfilePlan, Controls
<1> QED
  BY <1>1, <1>2, <1>3 DEF Controls

(* What an accepted apply begins: a review of the table's present profile, *)
(* carrying the present revision, and the plan of that profile.            *)
LEMMA ApplyBegins ==
    ASSUME TypeOK, ApplyReviewedProfile
    PROVE  \E review \in reviews :
              /\ review \in Review
              /\ review.revision = revision
              /\ Begin([kind |-> "apply", review |-> review, began |-> View],
                       ProfilePlan(review.profile))
<1>1. PICK name \in Names, review \in reviews :
        /\ profiles[name] # Absent
        /\ ReviewMatches(review, name)
        /\ Begin([kind |-> "apply", review |-> review, began |-> View],
                 ProfilePlan(profiles[name]))
  BY DEF ApplyReviewedProfile
<1>2. review \in Review
  BY DEF TypeOK
<1>3. review.revision = revision /\ review.profile = profiles[name]
  BY <1>1 DEF ReviewMatches
<1>4. Begin([kind |-> "apply", review |-> review, began |-> View], ProfilePlan(review.profile))
  BY <1>1, <1>3
<1> QED
  BY <1>2, <1>3, <1>4

(* An accepted apply plans what its profile asks for.                      *)
LEMMA ApplyTyped ==
    ASSUME TypeOK, ApplyReviewedProfile
    PROVE  TypeOK'
<1>1. PICK review \in reviews :
        /\ review \in Review
        /\ Begin([kind |-> "apply", review |-> review, began |-> View],
                 ProfilePlan(review.profile))
  BY ApplyBegins
<1>2. [kind |-> "apply", review |-> review, began |-> View] \in Serving
  BY <1>1, ViewTyped DEF Serving
<1>3. ProfilePlan(review.profile) \in Seq(PlannedWrite)
  BY <1>1, ProfilePlanTyped DEF Review
<1> QED
  BY <1>1, <1>2, <1>3, BeginTyped

-----------------------------------------------------------------------------
(* Finishing a write keeps the types if what else the step did does.       *)
LEMMA FinishKeepsTypes ==
    ASSUME TypeOK, ~Idle, NEW outcome \in Outcomes, Finish(outcome),
           settings' \in Settings, pending' \in BOOLEAN,
           snapshot' \in Snapshots, online' \in BOOLEAN, revision' \in Nat,
           wrote' \subseteq [control : Controls, value : Value, believed : Units],
           disturbances' \in Nat,
           UNCHANGED <<attached, subscription, profiles, serving, plan, reviews, requests>>
    PROVE  TypeOK'
<1>1. plan' = plan
  OBVIOUS
<1>2. /\ report' \in [Controls -> Outcomes]
      /\ at' \in 1..(Len(plan') + 1)
      /\ confirming' = FALSE
  BY <1>1, FinishTyped
<1> QED
  BY <1>2 DEF TypeOK

(* An entry that is skipped or rejected makes no device call.              *)
LEMMA SkipTyped ==
    ASSUME TypeOK, Skip \/ Reject
    PROVE  TypeOK'
<1>1. PICK outcome \in Outcomes : Finish(outcome)
  BY DEF Skip, Reject, Outcomes
<1> QED
  BY <1>1, FinishKeepsTypes DEF Skip, Reject, TypeOK, interfaceVars, cacheVars

(* A write that passes the checks is recorded as made.                     *)
LEMMA AttemptTyped ==
    ASSUME TypeOK, Attempt
    PROVE  /\ wrote' \subseteq [control : Controls, value : Value, believed : Units]
           /\ Entry.control \in Controls
           /\ Entry.value \in Value
<1>1. Entry.control \in Controls /\ Entry.value \in Value
  BY EntryTyped DEF Attempt, PlannedWrite
<1>2. snapshot.unit \in Units
  BY DEF TypeOK, Snapshots
<1> QED
  BY <1>1, <1>2 DEF Attempt, TypeOK

(* A value that lands changes one setting of the unit plugged in.          *)
LEMMA ValueLandsTyped ==
    ASSUME TypeOK, attached # NoUnit, Entry.control \in Controls, Entry.value \in Value,
           ValueLands
    PROVE  settings' \in Settings /\ pending' \in BOOLEAN
<1>1. settings' \in Settings
  BY DEF TypeOK, ValueLands, Settings
<1>2. pending' \in BOOLEAN
  BY Zenon DEF ValueLands
<1> QED
  BY <1>1, <1>2

(* A write the interface acknowledges waits for its confirmation.          *)
LEMMA WriteMadeTyped ==
    ASSUME TypeOK, WriteLands \/ WriteIsIgnored
    PROVE  TypeOK'
<1>1. /\ Attempt /\ InterfaceTakes /\ ~Idle
      /\ confirming' = TRUE
      /\ UNCHANGED <<attached, subscription, snapshot, online, revision, profiles,
                     serving, plan, reviews, requests, at, report>>
  BY DEF WriteLands, WriteIsIgnored, Attempt, cacheVars
<1>2. wrote' \subseteq [control : Controls, value : Value, believed : Units]
  BY <1>1, AttemptTyped
<1>3. settings' \in Settings /\ pending' \in BOOLEAN /\ disturbances' \in Nat
  <2>1. CASE WriteLands
    <3>1. ValueLands /\ UNCHANGED disturbances
      BY <2>1 DEF WriteLands
    <3> QED
      BY <1>1, <3>1, AttemptTyped, ValueLandsTyped DEF InterfaceTakes, TypeOK
  <2>2. CASE WriteIsIgnored
    BY <2>2 DEF WriteIsIgnored, Disturb, TypeOK
  <2> QED
    BY <2>1, <2>2
<1>4. confirming' \in BOOLEAN /\ ~Idle'
  BY <1>1 DEF Idle
<1> QED
  BY <1>1, <1>2, <1>3, <1>4 DEF TypeOK

(* A write that fails marks the daemon offline and finishes.               *)
LEMMA WriteFailsTyped ==
    ASSUME TypeOK, WriteFails
    PROVE  TypeOK'
<1>1. /\ Attempt /\ ~Idle /\ Finish("failed")
      /\ UNCHANGED <<attached, subscription, snapshot, online, revision, profiles,
                     serving, plan, reviews, requests>>
  BY DEF WriteFails, Attempt, cacheVars
<1>2. wrote' \subseteq [control : Controls, value : Value, believed : Units]
  BY <1>1, AttemptTyped
<1>3. settings' \in Settings /\ pending' \in BOOLEAN /\ disturbances' \in Nat
  <2>1. CASE InterfaceTakes /\ Disturb /\ ValueLands
    BY <1>1, <2>1, AttemptTyped, ValueLandsTyped DEF InterfaceTakes, Disturb, TypeOK
  <2>2. CASE UNCHANGED <<settings, pending>> /\ (Disturb \/ UNCHANGED disturbances)
    BY <2>2 DEF Disturb, TypeOK
  <2> QED
    BY <2>1, <2>2 DEF WriteFails
<1>4. "failed" \in Outcomes
  BY DEF Outcomes
<1> QED
  BY <1>1, <1>2, <1>3, <1>4, FinishKeepsTypes DEF TypeOK

(* The resnapshot after a write is a refresh and finishes it.              *)
LEMMA ConfirmTyped ==
    ASSUME TypeOK, Confirm
    PROVE  TypeOK'
<1>1. /\ ~Idle /\ Refresh
      /\ UNCHANGED <<attached, settings, subscription, pending, profiles, serving, plan,
                     wrote, reviews, requests>>
  BY DEF Confirm, Refresh, interfaceVars
<1>2. PICK outcome \in Outcomes : Finish(outcome)
  BY DEF Confirm, Outcomes
<1> QED
  BY <1>1, <1>2, RefreshTyped, FinishKeepsTypes DEF TypeOK

(* The steps that touch neither a request nor the interface's settings.    *)
LEMMA ListeningTyped ==
    ASSUME TypeOK, HealthCheck \/ WaitForChange
    PROVE  TypeOK'
<1>1. /\ snapshot' \in Snapshots /\ online' \in BOOLEAN /\ revision' \in Nat
      /\ disturbances' \in Nat
  <2>1. CASE Refresh
    BY <2>1, RefreshTyped
  <2>2. CASE MarkOffline /\ (Disturb \/ UNCHANGED disturbances)
    BY <2>2, MarkOfflineTyped DEF Disturb, TypeOK
  <2>3. CASE UNCHANGED cacheVars /\ UNCHANGED disturbances
    BY <2>3 DEF cacheVars, TypeOK
  <2> QED
    BY <2>1, <2>2, <2>3 DEF HealthCheck, WaitForChange, Subscribe, SubscribeFails,
       EventArrives, EventReadFails, PollFails, cacheVars
<1>2. /\ subscription' \in {"none", "live", "dead"}
      /\ pending' \in BOOLEAN
      /\ UNCHANGED <<attached, settings, profiles, requestVars, reviews, requests>>
  BY DEF HealthCheck, WaitForChange, Subscribe, SubscribeFails, EventArrives,
     EventReadFails, PollFails, interfaceVars, TypeOK
<1> QED
  BY <1>1, <1>2 DEF TypeOK, Idle, requestVars

(* The interface changes settings, cable and subscription only.            *)
LEMMA InterfaceTyped ==
    ASSUME TypeOK, Interface
    PROVE  TypeOK'
<1>1. CASE FrontPanel
  <2>1. PICK c \in Controls, n \in Numbers :
          LET v == [domain |-> Capability[attached][c].domain, n |-> n]
          IN  /\ Capability[attached][c] # Absent
              /\ settings' = [settings EXCEPT ![attached][c] = v]
    BY <1>1 DEF FrontPanel
  <2>2. attached \in Units
    BY <1>1 DEF FrontPanel, TypeOK
  <2>3. [domain |-> Capability[attached][c].domain, n |-> n] \in Value
    BY <2>1, <2>2, ConstantTypes DEF Value, Cap
  <2>4. settings' \in Settings
    BY <2>1, <2>2, <2>3 DEF TypeOK, Settings
  <2>5. pending' \in BOOLEAN
    BY <1>1, Zenon DEF FrontPanel
  <2> QED
    BY <1>1, <2>4, <2>5
       DEF FrontPanel, Disturb, TypeOK, Idle, cacheVars, requestVars
<1>2. CASE Unplug
  <2>1. subscription' \in {"none", "live", "dead"} /\ pending' \in BOOLEAN
    BY <1>2 DEF Unplug, TypeOK
  <2>2. attached' \in Units \cup {NoUnit} /\ disturbances' \in Nat
    BY <1>2 DEF Unplug, Disturb, TypeOK
  <2>3. UNCHANGED <<settings, snapshot, online, revision, profiles, serving, plan, at,
                    confirming, report, wrote, reviews, requests>>
    BY <1>2 DEF Unplug, cacheVars, requestVars
  <2> QED
    BY <2>1, <2>2, <2>3 DEF TypeOK, Idle
<1>3. CASE Plug
  BY <1>3 DEF Plug, TypeOK, Idle, cacheVars, requestVars
<1> QED
  BY <1>1, <1>2, <1>3 DEF Interface

(* The state after Service::connect is typed.                              *)
LEMMA InitTyped ==
    ASSUME Init
    PROVE  TypeOK
<1>1. /\ attached \in Units /\ attached # NoUnit /\ settings \in Settings
      /\ profiles \in ProfileTable
  BY ConstantTypes DEF Init
<1>2. HardwareSnapshot \in Snapshots
  <2>1. ASSUME NEW c \in Controls PROVE settings[attached][c] \in Value
    BY <1>1 DEF Settings
  <2> QED
    BY <1>1, <2>1 DEF HardwareSnapshot, Snapshots, Reading
<1>3. serving \in Serving
  <2>1. View \in Views
    BY <1>2 DEF Init, View, Views
  <2> QED
    BY <2>1 DEF Init, Request, Serving
<1>4. plan \in Seq(PlannedWrite) /\ at \in 1..(Len(plan) + 1)
  BY DEF Init
<1>5. report \in [Controls -> Outcomes]
  BY DEF Init, Outcomes
<1> QED
  BY <1>1, <1>2, <1>3, <1>4, <1>5 DEF Init, TypeOK

LEMMA StepTyped ==
    ASSUME TypeOK, [Next]_vars
    PROVE  TypeOK'
<1>1. CASE UNCHANGED vars
  BY <1>1 DEF vars, interfaceVars, cacheVars, requestVars, TypeOK, Idle
<1>2. CASE Next
  BY <1>2, CommandTyped, LevelGroupTyped, SaveProfileTyped, ReviewProfileTyped,
     ApplyTyped, SkipTyped, WriteMadeTyped, WriteFailsTyped, ConfirmTyped,
     ListeningTyped, InterfaceTyped DEF Next, WaitForChange, Interface
<1> QED
  BY <1>1, <1>2

(* Every reachable state of the device policy is well typed.               *)
THEOREM TypesHold == Spec => []TypeOK
<1>1. Init => TypeOK
  BY InitTyped
<1> QED
  BY <1>1, StepTyped, PTL DEF Spec

-----------------------------------------------------------------------------
(* The view and its revision. *)

Numbered == \/ View' = View /\ revision' = revision
            \/ View' # View /\ revision' = revision + 1

(* A step that leaves the cache alone leaves the view alone.               *)
LEMMA SameView ==
    ASSUME UNCHANGED cacheVars
    PROVE  View' = View /\ revision' = revision
  BY DEF cacheVars, View

(* mark_offline numbers the change from online to offline, once.           *)
LEMMA MarkOfflineNumbered ==
    ASSUME TypeOK, MarkOffline
    PROVE  Numbered
<1>1. snapshot' = snapshot /\ online' = FALSE /\ online \in BOOLEAN
  BY DEF MarkOffline, TypeOK
<1>2. CASE online
  <2>1. revision' = revision + 1
    BY <1>2 DEF MarkOffline
  <2>2. View' # View
    BY <1>1, <1>2 DEF View
  <2> QED
    BY <2>1, <2>2 DEF Numbered
<1>3. CASE ~online
  <2>1. revision' = revision
    BY <1>3 DEF MarkOffline
  <2>2. online' = online
    BY <1>1, <1>3, Zenon
  <2> QED
    BY <1>1, <2>1, <2>2 DEF Numbered, View
<1> QED
  BY <1>2, <1>3

(* refresh numbers a new snapshot and a return from offline, nothing else. *)
LEMMA RefreshNumbered ==
    ASSUME TypeOK, Refresh
    PROVE  Numbered
<1>1. CASE RefreshSucceeds
  <2>1. /\ snapshot' = HardwareSnapshot /\ online' = TRUE
        /\ revision' = IF HardwareSnapshot # snapshot \/ ~online THEN revision + 1 ELSE revision
        /\ online \in BOOLEAN
    BY <1>1 DEF RefreshSucceeds, NextRevision, TypeOK
  <2>2. CASE HardwareSnapshot # snapshot
    <3>1. revision' = revision + 1 /\ snapshot' # snapshot
      BY <2>1, <2>2
    <3> QED
      BY <3>1 DEF Numbered, View
  <2>3. CASE ~online
    <3>1. revision' = revision + 1
      BY <2>1, <2>3
    <3>2. View' # View
      BY <2>1, <2>3 DEF View
    <3> QED
      BY <3>1, <3>2 DEF Numbered
  <2>4. CASE HardwareSnapshot = snapshot /\ online
    <3>1. revision' = revision /\ snapshot' = snapshot
      BY <2>1, <2>4
    <3>2. online' = online
      BY <2>1, <2>4, Zenon
    <3> QED
      BY <3>1, <3>2 DEF Numbered, View
  <2> QED
    BY <2>1, <2>2, <2>3, <2>4
<1>2. CASE MarkOffline
  BY <1>2, MarkOfflineNumbered
<1> QED
  BY <1>1, <1>2 DEF Refresh, RefreshFails

(* Every step of the system numbers the view it leaves.                    *)
LEMMA StepsAreNumbered ==
    ASSUME TypeOK, [Next]_vars
    PROVE  Numbered
<1>1. CASE Refresh
  BY <1>1, RefreshNumbered
<1>2. CASE MarkOffline
  BY <1>2, MarkOfflineNumbered
<1>3. CASE UNCHANGED cacheVars
  BY <1>3, SameView DEF Numbered
<1>4. Next => Refresh \/ MarkOffline \/ UNCHANGED cacheVars
  BY DEF Next, Command, LevelGroup, SaveProfile, ReviewProfile, ApplyReviewedProfile, Begin,
     Skip, Reject, WriteLands, WriteIsIgnored, WriteFails, Attempt, Confirm, Refresh,
     HealthCheck, Subscribe, SubscribeFails, EventArrives, EventReadFails, PollFails,
     FrontPanel, Unplug, Plug
<1> QED
  BY <1>1, <1>2, <1>3, <1>4 DEF vars

(* A revision is never used for two views, so a review that carries the    *)
(* present revision was computed from the present view.                    *)
THEOREM RevisionsNameViews == Spec => []RevisionNamesView
<1>1. Init => RevisionNamesView
  BY DEF Init, RevisionNamesView
<1>2. ASSUME TypeOK, RevisionNamesView, [Next]_vars PROVE RevisionNamesView'
  <2>1. Numbered /\ revision \in Nat
    BY <1>2, StepsAreNumbered DEF TypeOK
  <2>2. \/ reviews' = reviews
        \/ /\ \E name \in Names : reviews' = reviews \cup {CurrentReview(name)}
           /\ UNCHANGED cacheVars
    BY <1>2 DEF Next, vars, Command, LevelGroup, SaveProfile, ReviewProfile,
       ApplyReviewedProfile, Begin, Skip, Reject, WriteLands, WriteIsIgnored, WriteFails,
       Attempt, Confirm, HealthCheck, Subscribe, SubscribeFails, EventArrives,
       EventReadFails, PollFails, FrontPanel, Unplug, Plug
  <2>3. ASSUME NEW r \in reviews'
        PROVE  r.revision <= revision' /\ (r.revision = revision' => r.seen = View')
    <3>1. CASE r \in reviews
      <4>1. /\ r.revision \in Nat /\ r.revision <= revision
            /\ r.revision = revision => r.seen = View
        BY <1>2, <3>1 DEF TypeOK, Review, RevisionNamesView
      <4> QED
        BY <2>1, <4>1 DEF Numbered
    <3>2. CASE r \notin reviews
      <4>1. PICK name \in Names : r = CurrentReview(name)
        BY <2>2, <2>3, <3>2
      <4>2. r.revision = revision /\ r.seen = View
        BY <4>1 DEF CurrentReview
      <4>3. View' = View /\ revision' = revision
        BY <2>2, <2>3, <3>2, SameView
      <4> QED
        BY <2>1, <4>2, <4>3
    <3> QED
      BY <3>1, <3>2
  <2> QED
    BY <2>3 DEF RevisionNamesView
<1> QED
  BY <1>1, <1>2, TypesHold, PTL DEF Spec

(* The cached view and its revision implement VersionedView.               *)
THEOREM ServiceShowsVersionedView == Spec => ShowsVersionedView
<1>1. ASSUME Init PROVE Shown!Init
  <2>1. TypeOK
    BY <1>1, InitTyped
  <2> QED
    BY <1>1, <2>1, ViewTyped DEF Init, Shown!Init
<1>2. ASSUME TypeOK, TypeOK', [Next]_vars PROVE [Shown!Publish]_<<View, revision>>
  <2>1. Numbered
    BY <1>2, StepsAreNumbered
  <2>2. View' \in Views
    BY <1>2 DEF TypeOK, View, Views
  <2> QED
    BY <2>1, <2>2 DEF Numbered, Shown!Publish
<1> QED
  BY <1>1, <1>2, TypesHold, PTL DEF Spec, ShowsVersionedView, Shown!Spec

(* The cache changes only to what the interface holds at that moment.      *)
THEOREM StateIsNeverOptimistic == Spec => StateComesFromHardware
<1>1. [Next]_vars => [snapshot' # snapshot => attached # NoUnit /\ snapshot' = HardwareSnapshot]_vars
  BY DEF Next, Command, LevelGroup, SaveProfile, ReviewProfile, ApplyReviewedProfile, Begin,
     Skip, Reject, WriteLands, WriteIsIgnored, WriteFails, Attempt, Confirm, Refresh,
     RefreshSucceeds, RefreshFails, MarkOffline,
     HealthCheck, Subscribe, SubscribeFails, EventArrives, EventReadFails, PollFails,
     FrontPanel, Unplug, Plug, cacheVars
<1> QED
  BY <1>1, PTL DEF Spec, StateComesFromHardware

-----------------------------------------------------------------------------
(* Profiles.  The inductive invariant says of an apply in progress that it *)
(* began from the view its review was computed from, that every planned    *)
(* write is an entry that review showed as ready, and that what was handed *)
(* to the device so far was planned.                                       *)

Reviewed(c, v) ==
    /\ v = serving.review.profile.values[c]
    /\ Ready(serving.review.seen.snapshot, c, v)

PlanIsReviewed ==
    serving.kind = "apply" =>
      /\ serving.review.seen = serving.began
      /\ \A i \in DOMAIN plan :
            plan[i].status = "ready" => Reviewed(plan[i].control, plan[i].value)
      /\ \A w \in wrote : Reviewed(w.control, w.value)

(* An accepted apply plans to write only what its review showed as ready.  *)
LEMMA ApplyPlanReviewed ==
    ASSUME TypeOK, RevisionNamesView, ApplyReviewedProfile
    PROVE  PlanIsReviewed'
<1>1. PICK review \in reviews :
        /\ review \in Review
        /\ review.revision = revision
        /\ Begin([kind |-> "apply", review |-> review, began |-> View],
                 ProfilePlan(review.profile))
  BY ApplyBegins
<1>2. /\ serving'.review = review /\ serving'.began = View
      /\ plan' = ProfilePlan(review.profile) /\ wrote' = {}
  BY <1>1 DEF Begin
<1>3. review.seen = View /\ review.seen.snapshot = snapshot
  BY <1>1 DEF RevisionNamesView, View
<1>4. ASSUME NEW c \in Controls, ProfilePlan(review.profile)[c].status = "ready"
      PROVE  LET e == ProfilePlan(review.profile)[c]
             IN  /\ e.control = c
                 /\ e.value = review.profile.values[c]
                 /\ Ready(snapshot, c, e.value)
  <2>1. review.profile.values[c] # Absent
    BY <1>4 DEF ProfilePlan
  <2>2. Ready(snapshot, c, review.profile.values[c])
    BY <1>4, <2>1 DEF ProfilePlan
  <2> QED
    BY <2>1, <2>2 DEF ProfilePlan
<1>5. DOMAIN plan' = Controls
  BY <1>2 DEF ProfilePlan
<1>6. ASSUME NEW i \in DOMAIN plan', plan'[i].status = "ready"
      PROVE  Reviewed(plan[i].control, plan[i].value)'
  BY <1>2, <1>3, <1>4, <1>5, <1>6 DEF Reviewed, Ready, Writable, Shows
<1> QED
  BY <1>2, <1>3, <1>6 DEF PlanIsReviewed

(* Every write handed to the device is the planned one at `at`.            *)
LEMMA WroteGrows ==
    ASSUME Serve
    PROVE  /\ serving' = serving /\ plan' = plan /\ ~Idle
           /\ \/ wrote' = wrote
              \/ /\ Entry.status = "ready" /\ Attempt
                 /\ wrote' = wrote \cup {[control |-> Entry.control, value |-> Entry.value,
                                          believed |-> snapshot.unit]}
  BY DEF Serve, Skip, Reject, WriteLands, WriteIsIgnored, WriteFails, Attempt, Confirm, PassedOver

(* A step that neither begins nor serves a request leaves its record be.   *)
LEMMA OtherSteps ==
    ASSUME [Next]_vars
    PROVE  \/ Serve
           \/ Command \/ LevelGroup \/ ApplyReviewedProfile
           \/ UNCHANGED requestVars
  BY DEF Next, Serve, SaveProfile, ReviewProfile, HealthCheck, Subscribe, SubscribeFails,
     EventArrives, EventReadFails, PollFails, FrontPanel, Unplug, Plug, vars

(* No step plans a write the reviewing client was not shown as ready.      *)
LEMMA PlansStayReviewed ==
    ASSUME TypeOK, RevisionNamesView, PlanIsReviewed, [Next]_vars
    PROVE  PlanIsReviewed'
<1>1. CASE ApplyReviewedProfile
  BY <1>1, ApplyPlanReviewed
<1>2. CASE Command \/ LevelGroup
  <2>1. serving' = Request("command") \/ serving' = Request("group")
    BY <1>2, LevelGroupBegins DEF Command, Begin
  <2>2. serving'.kind # "apply"
    BY <2>1 DEF Request
  <2> QED
    BY <2>2 DEF PlanIsReviewed
<1>3. CASE Serve
  <2>1. serving' = serving /\ plan' = plan /\ ~Idle
    BY <1>3, WroteGrows
  <2>2. \A c, v : Reviewed(c, v)' = Reviewed(c, v)
    BY <2>1 DEF Reviewed, Ready, Writable, Shows
  <2>3. at \in DOMAIN plan
    BY <2>1, EntryTyped DEF TypeOK
  <2>4. ASSUME serving.kind = "apply", NEW w \in wrote' PROVE Reviewed(w.control, w.value)
    BY <1>3, <2>3, <2>4, WroteGrows DEF PlanIsReviewed, Entry
  <2> QED
    BY <2>1, <2>2, <2>4 DEF PlanIsReviewed
<1>4. CASE UNCHANGED requestVars
  BY <1>4 DEF requestVars, PlanIsReviewed, Reviewed, Ready, Writable, Shows
<1> QED
  BY <1>1, <1>2, <1>3, <1>4, OtherSteps

(* The plan of an apply is what its review showed, in every state.         *)
THEOREM ReviewedPlans == Spec => []PlanIsReviewed
<1>1. Init => PlanIsReviewed
  BY DEF Init, Request, PlanIsReviewed
<1> QED
  BY <1>1, TypesHold, RevisionsNameViews, PlansStayReviewed, PTL DEF Spec

(* An apply begins only from the very view its review was computed from.   *)
THEOREM ReviewsAreCurrent == Spec => []ReviewIsCurrent
<1>1. PlanIsReviewed => ReviewIsCurrent
  BY DEF PlanIsReviewed, ReviewIsCurrent
<1> QED
  BY <1>1, ReviewedPlans, PTL

(* An apply hands the device only what the client was shown as ready.      *)
THEOREM AppliesAreReviewed == Spec => []AppliedAsReviewed
<1>1. PlanIsReviewed => AppliedAsReviewed
  BY DEF PlanIsReviewed, AppliedAsReviewed, Reviewed
<1> QED
  BY <1>1, ReviewedPlans, PTL

-----------------------------------------------------------------------------
(* Reports.  The inductive invariant: no control is planned twice; nothing *)
(* from `at` on has been reported, and nothing beyond it written; what was *)
(* written is reported unless it is being confirmed; and a group that has  *)
(* failed at a member is over.                                             *)

WrittenIn(writes, c) == \E w \in writes : w.control = c

BeingConfirmed(c) == confirming /\ Entry.control = c

PlannedOnce == \A i, j \in DOMAIN plan : plan[i].control = plan[j].control => i = j

NothingAhead ==
    \A i \in DOMAIN plan :
      /\ i >= at => report[plan[i].control] = "none"
      /\ WrittenIn(wrote, plan[i].control) => i < at \/ (i = at /\ confirming)

Accounted ==
    /\ confirming => WrittenIn(wrote, Entry.control)
    /\ \A c \in Controls :
         /\ report[c] = "applied" => WrittenIn(wrote, c)
         /\ (WrittenIn(wrote, c) /\ ~BeingConfirmed(c)) => report[c] \in {"applied", "failed"}

GroupOrder ==
    serving.kind = "group" =>
      /\ Len(plan) = Len(GroupMembers)
      /\ \A i \in DOMAIN plan : plan[i].control = GroupMembers[i]
      /\ \A i, j \in DOMAIN plan :
           (i < j /\ report[plan[i].control] = "failed") =>
             /\ Idle
             /\ report[plan[j].control] = "none"
             /\ ~WrittenIn(wrote, plan[j].control)

Progress == PlannedOnce /\ NothingAhead /\ Accounted /\ GroupOrder

(* The write that is due has not been made before.                         *)
LEMMA NothingWrittenYet ==
    ASSUME TypeOK, Progress, ~Idle, ~confirming
    PROVE  ~WrittenIn(wrote, Entry.control)
<1>1. at \in DOMAIN plan /\ ~(at < at)
  BY EntryTyped DEF TypeOK
<1> QED
  BY <1>1 DEF Progress, NothingAhead, Entry

(* A request begins with nothing written and nothing reported.             *)
LEMMA BeginProgress ==
    ASSUME TypeOK, NEW request \in Serving, NEW steps \in Seq(PlannedWrite),
           Begin(request, steps),
           \A i, j \in DOMAIN steps : steps[i].control = steps[j].control => i = j,
           request.kind = "group" =>
             /\ Len(steps) = Len(GroupMembers)
             /\ \A i \in DOMAIN steps : steps[i].control = GroupMembers[i]
    PROVE  Progress'
<1>1. /\ serving' = request /\ plan' = steps /\ at' = 1 /\ confirming' = FALSE
      /\ wrote' = {} /\ report' = [c \in Controls |-> "none"]
  BY DEF Begin
<1>2. ASSUME NEW i \in DOMAIN steps
      PROVE  steps[i].control \in Controls /\ report'[steps[i].control] = "none"
  <2>1. steps[i] \in PlannedWrite
    OBVIOUS
  <2> QED
    BY <1>1, <2>1 DEF PlannedWrite
<1>3. \A c : ~WrittenIn(wrote', c)
  BY <1>1 DEF WrittenIn
<1>4. PlannedOnce' /\ NothingAhead'
  BY <1>1, <1>2, <1>3 DEF PlannedOnce, NothingAhead
<1>5. Accounted'
  <2>1. \A c \in Controls : report'[c] # "applied"
    BY <1>1
  <2> QED
    BY <1>1, <1>3, <2>1 DEF Accounted
<1>6. GroupOrder'
  <2>1. \A i \in DOMAIN plan' : report'[plan'[i].control] # "failed"
    BY <1>1, <1>2
  <2> QED
    BY <1>1, <2>1 DEF GroupOrder
<1> QED
  BY <1>4, <1>5, <1>6 DEF Progress

(* Each kind of request plans no control twice.                            *)
LEMMA RequestsProgress ==
    ASSUME TypeOK, Command \/ LevelGroup \/ ApplyReviewedProfile
    PROVE  Progress'
<1>1. CASE Command
  <2>1. PICK c \in Controls, d \in Domains, n \in Numbers :
          Begin(Request("command"),
                <<[control |-> c, value |-> [domain |-> d, n |-> n], status |-> "ready"]>>)
    BY <1>1 DEF Command
  <2> DEFINE e     == [control |-> c, value |-> [domain |-> d, n |-> n], status |-> "ready"]
             steps == <<e>>
  <2>2. e \in PlannedWrite
    BY ConstantTypes DEF PlannedWrite, Value
  <2> HIDE DEF e
  <2>3. steps \in Seq(PlannedWrite) /\ DOMAIN steps = {1}
    BY <2>2
  <2>4. Request("command") \in Serving /\ Request("command").kind # "group"
    BY RequestTyped DEF Request
  <2>5. Begin(Request("command"), steps)
    BY <2>1 DEF e
  <2>6. \A i, j \in DOMAIN steps : steps[i].control = steps[j].control => i = j
    BY <2>3
  <2> HIDE DEF steps
  <2> QED
    BY <2>3, <2>4, <2>5, <2>6, BeginProgress
<1>2. CASE LevelGroup
  <2>1. PICK steps \in Seq(PlannedWrite) :
          /\ Begin(Request("group"), steps)
          /\ ValidGroup
          /\ Len(steps) = Len(GroupMembers)
          /\ \A i \in DOMAIN GroupMembers : steps[i].control = GroupMembers[i]
    BY <1>2, LevelGroupBegins
  <2>2. DOMAIN steps = DOMAIN GroupMembers
    BY <2>1, ConstantTypes
  <2>3. Request("group") \in Serving
    BY RequestTyped
  <2>4. \A i, j \in DOMAIN steps : steps[i].control = steps[j].control => i = j
    BY <2>1, <2>2 DEF ValidGroup
  <2> QED
    BY <2>1, <2>2, <2>3, <2>4, BeginProgress
<1>3. CASE ApplyReviewedProfile
  <2>1. PICK review \in reviews :
          /\ review \in Review
          /\ Begin([kind |-> "apply", review |-> review, began |-> View],
                   ProfilePlan(review.profile))
    BY <1>3, ApplyBegins
  <2> DEFINE request == [kind |-> "apply", review |-> review, began |-> View]
             steps   == ProfilePlan(review.profile)
  <2>2. request \in Serving /\ request.kind # "group"
    BY <2>1, ViewTyped DEF Serving
  <2>3. steps \in Seq(PlannedWrite)
    BY <2>1, ProfilePlanTyped DEF Review
  <2>4. DOMAIN steps = Controls /\ \A c \in Controls : steps[c].control = c
    BY DEF ProfilePlan
  <2>5. \A i, j \in DOMAIN steps : steps[i].control = steps[j].control => i = j
    BY <2>4
  <2> HIDE DEF request, steps
  <2>6. Begin(request, steps)
    BY <2>1 DEF request, steps
  <2> QED
    BY <2>2, <2>3, <2>5, <2>6, BeginProgress
<1> QED
  BY <1>1, <1>2, <1>3

(* What the writes handed to the device can become in one step.            *)
WroteAtMost(c) ==
    \/ wrote' = wrote
    \/ \E w : w.control = c /\ wrote' = wrote \cup {w}

(* Reporting a made write, or one that needs none, keeps the account.      *)
LEMMA FinishProgress ==
    ASSUME TypeOK, Progress, ~Idle, NEW outcome \in Outcomes, Finish(outcome),
           UNCHANGED <<serving, plan>>,
           WroteAtMost(Entry.control),
           outcome = "applied" => WrittenIn(wrote', Entry.control),
           WrittenIn(wrote', Entry.control) => outcome \in {"applied", "failed"}
    PROVE  Progress'
<1> DEFINE e == Entry.control
<1>1. /\ at \in 1..Len(plan) /\ Len(plan) \in Nat /\ DOMAIN plan = 1..Len(plan)
      /\ e \in Controls /\ e = plan[at].control
      /\ \A i \in DOMAIN plan : plan[i].control \in Controls
  <2>1. at \in 1..Len(plan) /\ e \in Controls
    BY EntryTyped DEF PlannedWrite
  <2>2. \A i \in DOMAIN plan : plan[i] \in PlannedWrite
    BY DEF TypeOK
  <2> QED
    BY <2>1, <2>2 DEF TypeOK, Entry, PlannedWrite
<1>2. /\ confirming' = FALSE
      /\ at' \in Nat /\ at' > at
      /\ serving.kind = "group" /\ outcome = "failed" => at' = Len(plan) + 1
      /\ \A c \in Controls : report'[c] = IF c = e THEN outcome ELSE report[c]
  BY <1>1 DEF Finish, TypeOK
<1>3. \A c : c # e => (WrittenIn(wrote', c) <=> WrittenIn(wrote, c))
  BY DEF WroteAtMost, WrittenIn
<1>4. \A i \in DOMAIN plan : i # at => plan[i].control # e
  BY <1>1 DEF Progress, PlannedOnce
<1>5. WrittenIn(wrote', e) => outcome \in {"applied", "failed"}
  OBVIOUS
<1>6. outcome = "applied" => WrittenIn(wrote', e)
  OBVIOUS
<1>7. serving' = serving /\ plan' = plan
  OBVIOUS
<1> HIDE DEF e
<1>8. PlannedOnce'
  BY <1>7 DEF Progress, PlannedOnce
<1>9. ASSUME NEW i \in DOMAIN plan
      PROVE  /\ i >= at' => report'[plan[i].control] = "none"
             /\ WrittenIn(wrote', plan[i].control) => i < at'
  <2>1. CASE i = at
    BY <1>1, <1>2, <2>1
  <2>2. CASE i # at
    <3>1. /\ i >= at => report[plan[i].control] = "none"
          /\ WrittenIn(wrote, plan[i].control) => i <= at
      BY <1>1 DEF Progress, NothingAhead
    <3> QED
      BY <1>1, <1>2, <1>3, <1>4, <2>2, <3>1
  <2> QED
    BY <2>1, <2>2
<1>10. NothingAhead'
  BY <1>7, <1>9 DEF NothingAhead
<1>11. ASSUME NEW c \in Controls
       PROVE  /\ report'[c] = "applied" => WrittenIn(wrote', c)
              /\ WrittenIn(wrote', c) => report'[c] \in {"applied", "failed"}
  <2>1. CASE c = e
    BY <1>2, <1>5, <1>6, <2>1
  <2>2. CASE c # e
    <3>1. ~BeingConfirmed(c)
      BY <2>2 DEF BeingConfirmed, e
    <3> QED
      BY <1>2, <1>3, <2>2, <3>1 DEF Progress, Accounted
  <2> QED
    BY <2>1, <2>2
<1>12. Accounted'
  BY <1>2, <1>11 DEF Accounted
<1>13. ASSUME serving.kind = "group", NEW i \in DOMAIN plan, NEW j \in DOMAIN plan,
              i < j, report'[plan[i].control] = "failed"
       PROVE  /\ at' = Len(plan) + 1
              /\ report'[plan[j].control] = "none"
              /\ ~WrittenIn(wrote', plan[j].control)
  <2>1. i = at
    <3>1. SUFFICES ASSUME i # at PROVE FALSE
      OBVIOUS
    <3>2. report[plan[i].control] = "failed"
      BY <1>1, <1>2, <1>4, <1>13, <3>1
    <3> QED
      BY <1>13, <3>2 DEF Progress, GroupOrder
  <2>2. j # at /\ j > at
    BY <1>1, <1>13, <2>1
  <2>3. report[plan[j].control] = "none" /\ ~WrittenIn(wrote, plan[j].control)
    BY <1>1, <2>2 DEF Progress, NothingAhead
  <2>4. outcome = "failed"
    BY <1>1, <1>2, <1>13, <2>1
  <2> QED
    BY <1>1, <1>2, <1>3, <1>4, <1>13, <2>2, <2>3, <2>4
<1>14. GroupOrder'
  <2>1. at' = Len(plan) + 1 => Idle'
    BY <1>1, <1>7 DEF Idle
  <2> QED
    BY <1>7, <1>13, <2>1 DEF Progress, GroupOrder
<1> QED
  BY <1>8, <1>10, <1>12, <1>14 DEF Progress

(* A write the interface acknowledges is the one being confirmed.          *)
LEMMA WriteMadeProgress ==
    ASSUME TypeOK, Progress, WriteLands \/ WriteIsIgnored
    PROVE  Progress'
<1> DEFINE e == Entry.control
           w == [control |-> e, value |-> Entry.value, believed |-> snapshot.unit]
<1>1. /\ ~Idle /\ ~confirming /\ confirming' = TRUE
      /\ serving' = serving /\ plan' = plan /\ at' = at /\ report' = report
      /\ wrote' = wrote \cup {w} /\ w.control = e
  BY DEF WriteLands, WriteIsIgnored, Attempt
<1>2. /\ at \in 1..Len(plan) /\ Len(plan) \in Nat /\ DOMAIN plan = 1..Len(plan)
      /\ e = plan[at].control
  BY <1>1, EntryTyped DEF TypeOK, Entry
<1> HIDE DEF w
<1>3. WrittenIn(wrote', e) /\ \A c : c # e => (WrittenIn(wrote', c) <=> WrittenIn(wrote, c))
  BY <1>1 DEF WrittenIn
<1>4. \A i \in DOMAIN plan : i # at => plan[i].control # e
  BY <1>2 DEF Progress, PlannedOnce
<1>5. Entry' = Entry /\ Idle' = Idle
  BY <1>1 DEF Entry, Idle
<1>6. Entry'.control = e
  BY <1>5
<1> HIDE DEF e
<1>7. PlannedOnce'
  BY <1>1 DEF Progress, PlannedOnce
<1>8. NothingAhead'
  BY <1>1, <1>2, <1>3, <1>4 DEF Progress, NothingAhead
<1>9. Accounted'
  <2>1. ASSUME NEW c \in Controls
        PROVE  /\ report'[c] = "applied" => WrittenIn(wrote', c)
               /\ (WrittenIn(wrote', c) /\ c # e) => report'[c] \in {"applied", "failed"}
    BY <1>1, <1>3 DEF Progress, Accounted, BeingConfirmed
  <2>2. confirming' /\ Entry'.control = e /\ WrittenIn(wrote', Entry'.control)
    BY <1>1, <1>3, <1>6
  <2> QED
    BY <2>1, <2>2 DEF Accounted, BeingConfirmed
<1>10. GroupOrder'
  BY <1>1, <1>5 DEF Progress, GroupOrder
<1> QED
  BY <1>7, <1>8, <1>9, <1>10 DEF Progress

(* Every step of serving a request keeps the account of its writes.        *)
LEMMA ServeProgress ==
    ASSUME TypeOK, Progress, Serve
    PROVE  Progress'
<1> DEFINE e == Entry.control
<1>1. CASE Skip \/ Reject
  <2>1. PICK outcome \in {"none", "skipped", "failed"} : Finish(outcome)
    BY <1>1 DEF Skip, Reject
  <2>2. ~Idle /\ ~confirming /\ UNCHANGED <<serving, plan, wrote>>
    BY <1>1 DEF Skip, Reject
  <2>3. ~WrittenIn(wrote', e) /\ outcome \in Outcomes /\ outcome # "applied" /\ WroteAtMost(e)
    BY <2>2, NothingWrittenYet DEF Outcomes, WroteAtMost
  <2> QED
    BY <2>1, <2>2, <2>3, FinishProgress
<1>2. CASE WriteFails
  <2>1. /\ ~Idle /\ Finish("failed") /\ UNCHANGED <<serving, plan>>
        /\ wrote' = wrote \cup {[control |-> e, value |-> Entry.value,
                                 believed |-> snapshot.unit]}
    BY <1>2 DEF WriteFails, Attempt
  <2>2. WroteAtMost(e)
    BY <2>1 DEF WroteAtMost
  <2>3. "failed" \in Outcomes /\ "failed" \in {"applied", "failed"} /\ "failed" # "applied"
    BY DEF Outcomes
  <2> QED
    BY <2>1, <2>2, <2>3, FinishProgress
<1>3. CASE Confirm
  <2>1. ~Idle /\ confirming /\ UNCHANGED <<serving, plan, wrote>>
    BY <1>3 DEF Confirm
  <2>2. PICK outcome \in {"applied", "failed"} : Finish(outcome)
    BY <1>3 DEF Confirm
  <2>3. WrittenIn(wrote', e) /\ outcome \in Outcomes /\ WroteAtMost(e)
    BY <2>1 DEF Progress, Accounted, Outcomes, WroteAtMost
  <2> QED
    BY <2>1, <2>2, <2>3, FinishProgress
<1>4. CASE WriteLands \/ WriteIsIgnored
  BY <1>4, WriteMadeProgress
<1> QED
  BY <1>1, <1>2, <1>3, <1>4 DEF Serve

(* Writes are made in the planned order, each once, and accounted for.     *)
THEOREM RequestsMakeProgress == Spec => []Progress
<1>1. ASSUME Init PROVE Progress
  <2>1. /\ plan = << >> /\ at = 1 /\ confirming = FALSE /\ wrote = {}
        /\ report = [c \in Controls |-> "none"] /\ serving.kind = "none"
    BY <1>1 DEF Init, Request
  <2>2. PlannedOnce /\ NothingAhead /\ GroupOrder
    BY <2>1 DEF PlannedOnce, NothingAhead, GroupOrder
  <2>3. Accounted
    BY <2>1 DEF Accounted, WrittenIn
  <2> QED
    BY <2>2, <2>3 DEF Progress
<1>2. ASSUME TypeOK, Progress, [Next]_vars PROVE Progress'
  <2>1. CASE Serve
    BY <1>2, <2>1, ServeProgress
  <2>2. CASE Command \/ LevelGroup \/ ApplyReviewedProfile
    BY <1>2, <2>2, RequestsProgress
  <2>3. CASE UNCHANGED requestVars
    BY <1>2, <2>3 DEF requestVars, Progress, PlannedOnce, NothingAhead, Accounted, GroupOrder,
       WrittenIn, BeingConfirmed, Entry, Idle
  <2> QED
    BY <1>2, <2>1, <2>2, <2>3, OtherSteps
<1> QED
  BY <1>1, <1>2, TypesHold, PTL DEF Spec

(* A control that was written is reported applied or failed, and nothing   *)
(* else is reported applied.                                               *)
THEOREM ReportsAccountForWrites == Spec => []ReportAccountsForWrites
<1>1. Progress => ReportAccountsForWrites
  BY DEF Progress, Accounted, WrittenIn, BeingConfirmed, ReportAccountsForWrites
<1> QED
  BY <1>1, RequestsMakeProgress, PTL

(* Nothing after the first failed member of a group is written.            *)
THEOREM GroupsStopAtFailure == Spec => []GroupStopsAtFailure
<1>1. ASSUME TypeOK, Progress PROVE GroupStopsAtFailure
  <2> SUFFICES ASSUME serving.kind = "group",
                      NEW i \in DOMAIN GroupMembers, NEW j \in DOMAIN GroupMembers,
                      i < j, report[GroupMembers[i]] = "failed"
               PROVE  /\ report[GroupMembers[j]] = "none"
                      /\ \A w \in wrote : w.control # GroupMembers[j]
    BY DEF GroupStopsAtFailure
  <2>1. Len(plan) = Len(GroupMembers) /\ DOMAIN plan = DOMAIN GroupMembers
    BY <1>1, ConstantTypes DEF Progress, GroupOrder, TypeOK
  <2>2. plan[i].control = GroupMembers[i] /\ plan[j].control = GroupMembers[j]
    BY <1>1, <2>1 DEF Progress, GroupOrder
  <2>3. report[plan[j].control] = "none" /\ ~WrittenIn(wrote, plan[j].control)
    BY <1>1, <2>1, <2>2 DEF Progress, GroupOrder
  <2> QED
    BY <2>2, <2>3 DEF WrittenIn
<1> QED
  BY <1>1, TypesHold, RequestsMakeProgress, PTL

-----------------------------------------------------------------------------
(* Restarts: what apply_reviewed_profile guarantees to clients that keep   *)
(* reviews while the daemon is started again, for any number of restarts,  *)
(* units and profiles.                                                     *)
restartVars == <<vars, restarts, foreign>>

(* RevisionNamesView, of the reviews this process has made.                *)
OwnRevisionNamesView ==
    \A r \in reviews \ foreign : /\ r.revision <= revision
                                 /\ r.revision = revision => r.seen = View

(* What is planned, and what was written, are values of the profile the    *)
(* handle was made of.                                                     *)
Held(c, v) == v = serving.review.profile.values[c]

PlanIsOfReview ==
    serving.kind = "apply" =>
      /\ Bound(serving.review.profile, serving.began.snapshot)
      /\ \A i \in DOMAIN plan :
           plan[i].status = "ready" => Held(plan[i].control, plan[i].value)
      /\ \A w \in wrote : Held(w.control, w.value)

RestartInv ==
    /\ TypeOK
    /\ OwnRevisionNamesView
    /\ OwnReviewIsCurrent
    /\ PlanIsOfReview

-----------------------------------------------------------------------------
LEMMA RestartTyped ==
    ASSUME TypeOK, Restart
    PROVE  TypeOK'
<1>1. attached # NoUnit /\ snapshot' = HardwareSnapshot /\ online' = TRUE
  BY DEF Restart
<1>2. HardwareSnapshot \in Snapshots
  BY <1>1, HardwareSnapshotTyped
<1>3. View' \in Views
  BY <1>1, <1>2 DEF View, Views
<1>4. serving' \in Serving
  BY <1>3 DEF Restart, Serving
<1>5. report' \in [Controls -> Outcomes]
  BY DEF Restart, Outcomes
<1>6. plan' = << >> /\ at' = 1 /\ wrote' = {} /\ revision' = 1
      /\ subscription' = "none" /\ pending' = FALSE /\ confirming' = FALSE
      /\ UNCHANGED <<attached, settings, profiles, reviews, disturbances, requests>>
  BY DEF Restart
<1>7. plan' \in Seq(PlannedWrite) /\ at' \in 1..(Len(plan') + 1)
  BY <1>6
<1> QED
  BY <1>1, <1>2, <1>4, <1>5, <1>6, <1>7 DEF TypeOK

(* A new process has made no review, and serves no request.                *)
LEMMA RestartKeepsInv ==
    ASSUME RestartInv, Restart
    PROVE  RestartInv'
<1>1. TypeOK'
  BY RestartTyped DEF RestartInv
<1>2. reviews' \ foreign' = {} /\ serving'.kind = "none"
  BY DEF Restart
<1> QED
  BY <1>1, <1>2 DEF RestartInv, OwnRevisionNamesView, OwnReviewIsCurrent, PlanIsOfReview

(* The revision numbers the views of this process; a review it makes       *)
(* carries both.                                                           *)
LEMMA OwnRevisionsStay ==
    ASSUME RestartInv, [Next]_vars, UNCHANGED foreign
    PROVE  OwnRevisionNamesView'
<1>1. Numbered /\ revision \in Nat
  BY StepsAreNumbered DEF RestartInv, TypeOK
<1>2. \/ reviews' = reviews
      \/ /\ \E name \in Names : reviews' = reviews \cup {CurrentReview(name)}
         /\ UNCHANGED cacheVars
  BY DEF Next, vars, Command, LevelGroup, SaveProfile, ReviewProfile,
     ApplyReviewedProfile, Begin, Skip, Reject, WriteLands, WriteIsIgnored, WriteFails,
     Attempt, Confirm, HealthCheck, Subscribe, SubscribeFails, EventArrives,
     EventReadFails, PollFails, FrontPanel, Unplug, Plug
<1>3. ASSUME NEW r \in reviews' \ foreign
      PROVE  r.revision <= revision' /\ (r.revision = revision' => r.seen = View')
  <2>1. CASE r \in reviews
    <3>1. /\ r.revision \in Nat /\ r.revision <= revision
          /\ r.revision = revision => r.seen = View
      BY <1>3, <2>1 DEF RestartInv, TypeOK, Review, OwnRevisionNamesView
    <3> QED
      BY <1>1, <3>1 DEF Numbered
  <2>2. CASE r \notin reviews
    <3>1. PICK name \in Names : r = CurrentReview(name)
      BY <1>2, <1>3, <2>2
    <3>2. r.revision = revision /\ r.seen = View
      BY <3>1 DEF CurrentReview
    <3>3. View' = View /\ revision' = revision
      BY <1>2, <1>3, <2>2, SameView
    <3> QED
      BY <1>1, <3>2, <3>3
  <2> QED
    BY <2>1, <2>2
<1> QED
  BY <1>3 DEF OwnRevisionNamesView

(* An accepted apply is of the profile its review was made of, on a unit   *)
(* that profile is bound to; of a review of this process, from its view.   *)
LEMMA ApplyKeepsInv ==
    ASSUME RestartInv, ApplyReviewedProfile, UNCHANGED foreign
    PROVE  OwnReviewIsCurrent' /\ PlanIsOfReview'
<1>1. PICK name \in Names, review \in reviews :
        /\ Bound(profiles[name], snapshot)
        /\ ReviewMatches(review, name)
        /\ Begin([kind |-> "apply", review |-> review, began |-> View],
                 ProfilePlan(profiles[name]))
  BY DEF ApplyReviewedProfile
<1>2. review.profile = profiles[name] /\ review.revision = revision
  BY <1>1 DEF ReviewMatches
<1>3. /\ serving' = [kind |-> "apply", review |-> review, began |-> View]
      /\ plan' = ProfilePlan(review.profile) /\ wrote' = {}
  BY <1>1, <1>2 DEF Begin
<1>4. review \notin foreign => review.seen = View
  BY <1>2 DEF RestartInv, OwnRevisionNamesView
<1>5. OwnReviewIsCurrent'
  BY <1>3, <1>4 DEF OwnReviewIsCurrent
<1>6. Bound(review.profile, serving'.began.snapshot)
  BY <1>1, <1>2, <1>3 DEF View
<1>7. ASSUME NEW c \in Controls, ProfilePlan(review.profile)[c].status = "ready"
      PROVE  LET e == ProfilePlan(review.profile)[c]
             IN  e.control = c /\ e.value = review.profile.values[c]
  BY <1>7 DEF ProfilePlan
<1>8. DOMAIN plan' = Controls
  BY <1>3 DEF ProfilePlan
<1>9. ASSUME NEW i \in DOMAIN plan', plan'[i].status = "ready"
      PROVE  Held(plan[i].control, plan[i].value)'
  BY <1>3, <1>7, <1>8, <1>9 DEF Held
<1> QED
  BY <1>3, <1>5, <1>6, <1>9 DEF PlanIsOfReview, Bound

LEMMA ServiceKeepsInv ==
    ASSUME RestartInv, [Next]_vars, UNCHANGED foreign
    PROVE  RestartInv'
<1>1. TypeOK /\ TypeOK'
  BY StepTyped DEF RestartInv
<1>2. OwnRevisionNamesView'
  BY OwnRevisionsStay
<1>3. CASE ApplyReviewedProfile
  BY <1>1, <1>2, <1>3, ApplyKeepsInv DEF RestartInv
<1>4. CASE Command \/ LevelGroup
  <2>1. serving' = Request("command") \/ serving' = Request("group")
    BY <1>1, <1>4, LevelGroupBegins DEF Command, Begin
  <2>2. serving'.kind # "apply"
    BY <2>1 DEF Request
  <2> QED
    BY <1>1, <1>2, <2>2 DEF RestartInv, OwnReviewIsCurrent, PlanIsOfReview
<1>5. CASE Serve
  <2>1. serving' = serving /\ plan' = plan /\ ~Idle
    BY <1>5, WroteGrows
  <2>2. at \in DOMAIN plan
    BY <1>1, <2>1, EntryTyped DEF TypeOK
  <2>3. \A c, v : Held(c, v)' = Held(c, v)
    BY <2>1 DEF Held
  <2>4. ASSUME serving.kind = "apply", NEW w \in wrote' PROVE Held(w.control, w.value)
    BY <1>5, <2>2, <2>4, WroteGrows DEF RestartInv, PlanIsOfReview, Entry
  <2>5. PlanIsOfReview'
    BY <2>1, <2>3, <2>4 DEF RestartInv, PlanIsOfReview, Bound
  <2> QED
    BY <1>1, <1>2, <2>1, <2>5 DEF RestartInv, OwnReviewIsCurrent
<1>6. CASE UNCHANGED requestVars
  BY <1>1, <1>2, <1>6 DEF RestartInv, OwnReviewIsCurrent, PlanIsOfReview, Held, Bound, requestVars
<1> QED
  BY <1>3, <1>4, <1>5, <1>6, OtherSteps

(* Through any number of restarts, a process applies its own reviews only  *)
(* from the view they were computed from; and a review another process     *)
(* made, which the revision alone may let through, only with the values of *)
(* the profile it was made of, on a unit that profile is bound to          *)
(* (apply_reviewed_profile, lib.rs).                                       *)
THEOREM ReviewsHoldAcrossRestarts == RestartSpec => []ReviewsAcrossRestarts
<1>1. RestartInit => RestartInv
  <2> SUFFICES ASSUME RestartInit PROVE RestartInv
    OBVIOUS
  <2>1. TypeOK
    BY InitTyped DEF RestartInit
  <2>2. reviews = {} /\ serving.kind = "none"
    BY DEF RestartInit, Init, Request
  <2> QED
    BY <2>1, <2>2 DEF RestartInv, OwnRevisionNamesView, OwnReviewIsCurrent, PlanIsOfReview
<1>2. RestartInv /\ [RestartNext]_restartVars => RestartInv'
  <2> SUFFICES ASSUME RestartInv, [RestartNext]_restartVars PROVE RestartInv'
    OBVIOUS
  <2>1. CASE Restart
    BY <2>1, RestartKeepsInv
  <2>2. CASE [Next]_vars /\ UNCHANGED foreign
    BY <2>2, ServiceKeepsInv
  <2> QED
    BY <2>1, <2>2 DEF RestartNext, restartVars
<1>3. RestartInv => ReviewsAcrossRestarts
  BY DEF RestartInv, PlanIsOfReview, Held, ReviewsAcrossRestarts, ReviewedValuesOnly
<1> QED
  BY <1>1, <1>2, <1>3, PTL DEF RestartSpec, restartVars
=============================================================================
