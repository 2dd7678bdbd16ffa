--------------------------- MODULE DaemonRestart ---------------------------
(***************************************************************************)
(* The Service of a daemon that may stop or crash between any two steps    *)
(* and be started again (focusrited/src/main.rs, worker.rs).  What the     *)
(* process kept in memory starts over, the revision with it; the profile   *)
(* table comes back from its file, and clients keep what they were told:   *)
(* the touchscreen drops its snapshot when it is disconnected but not the  *)
(* review it shows (focusrite-ui/src/main.rs, receive).                    *)
(***************************************************************************)
EXTENDS Service

CONSTANT MaxRestarts     \* bound

ASSUME RestartAssumption == MaxRestarts \in Nat

VARIABLES
    restarts,
    foreign     \* history: the reviews clients held when the daemon restarted

(* Service::connect in a new process: it needs the interface, and the      *)
(* dashboard must be valid for what it finds, or the daemon does not serve. *)
Restart ==
    /\ restarts < MaxRestarts
    /\ restarts' = restarts + 1
    /\ foreign' = reviews
    /\ attached # NoUnit
    /\ snapshot' = HardwareSnapshot
    /\ online' = TRUE
    /\ DashboardValid'
    /\ revision' = 1
    /\ subscription' = "none"
    /\ pending' = FALSE
    /\ serving' = [kind |-> "none", review |-> NoReview, began |-> View']
    /\ plan' = << >>
    /\ at' = 1
    /\ confirming' = FALSE
    /\ report' = [c \in Controls |-> "none"]
    /\ wrote' = {}
    /\ UNCHANGED <<attached, settings, profiles, reviews, disturbances, requests>>

RestartInit == Init /\ restarts = 0 /\ foreign = {}

RestartNext == Restart \/ (Next /\ UNCHANGED <<restarts, foreign>>)

RestartSpec == RestartInit /\ [][RestartNext]_<<vars, restarts, foreign>>

-----------------------------------------------------------------------------
(* What a restart does not take away: a review made by the process that    *)
(* applies it is current, whatever reviews of an earlier process are       *)
(* applied in between.                                                     *)
OwnReviewIsCurrent ==
    (serving.kind = "apply" /\ serving.review \notin foreign) =>
      serving.review.seen = serving.began

(* Nor, thanks to the fingerprint, the values: even a review of an earlier *)
(* process lets through only the values of the profile it was made of,     *)
(* on a unit of the identity and schema that profile is bound to.          *)
ReviewedValuesOnly ==
    serving.kind = "apply" =>
      /\ Bound(serving.review.profile, serving.began.snapshot)
      /\ \A w \in wrote : w.value = serving.review.profile.values[w.control]

(* Both: what apply_reviewed_profile still guarantees to clients that kept *)
(* their reviews while the daemon was started again.                       *)
ReviewsAcrossRestarts == OwnReviewIsCurrent /\ ReviewedValuesOnly
=============================================================================
