----------------------------- MODULE ScreenLock -----------------------------
(***************************************************************************)
(* Unlocking the touchscreen (focusrite-ui, main.rs): four corners touched *)
(* clockwise from the top left, the last of them at most UNLOCK_TIMEOUT    *)
(* after the first.  Where a touch fell is all that matters of it: one of  *)
(* the four targets, or elsewhere (0).                                     *)
(***************************************************************************)
EXTENDS Naturals, Sequences

CONSTANTS
    Timeout,      \* UNLOCK_TIMEOUT
    MaxTaps,      \* bound: touches of the locked screen in a row
    Times         \* bound: when they may be

ASSUME LockAssumption ==
    /\ {Timeout, MaxTaps} \subseteq Nat
    /\ Times \subseteq Nat

Corners == 1..4

(* Mutant of AdvanceUnlock: a wrong touch never begins a new attempt. *)
AdvanceUnlockOnly(step, touch) == IF touch = step + 1 THEN step + 1 ELSE 0

AdvanceUnlock(step, touch) ==
    CASE touch = step + 1 -> step + 1
      [] touch # step + 1 /\ touch = 1 -> 1
      [] OTHER -> 0

(* A touch of the locked screen: an attempt that has expired is forgotten  *)
(* before the touch counts.                                                *)
TouchLocked(step, expired, touch) ==
    AdvanceUnlock(IF expired THEN 0 ELSE step, touch)

(* The attempt the step belongs to begins with the first corner. *)
Begins(step) == step = 1

-----------------------------------------------------------------------------
(* The same over whole sequences of touches with their times. *)

UnlockExpired(started, now, timeout) == now > started + timeout

Locked == [step |-> 0, started |-> 0, locked |-> TRUE]

AfterTouch(lock, tap, timeout) ==
    LET expired == lock.step > 0 /\ UnlockExpired(lock.started, tap.at, timeout)
        step    == TouchLocked(lock.step, expired, tap.corner)
    IN  CASE ~lock.locked -> lock
          [] lock.locked /\ step = 4 -> [step |-> 0, started |-> 0, locked |-> FALSE]
          [] OTHER -> [step |-> step, locked |-> TRUE,
                       started |-> IF Begins(step) THEN tap.at
                                   ELSE IF step = 0 THEN 0 ELSE lock.started]

AfterTouches(taps, timeout) ==
    LET lock[i \in 0..Len(taps)] ==
          IF i = 0 THEN Locked ELSE AfterTouch(lock[i - 1], taps[i], timeout)
    IN  lock[Len(taps)]

(* What unlocks: the four corners in their order and nothing between, in   *)
(* time.                                                                   *)
Unlocks(taps, timeout) ==
    \E i \in 1..Len(taps) - 3 :
      /\ \A k \in Corners : taps[i + k - 1].corner = k
      /\ taps[i + 3].at - taps[i].at <= timeout

(* Rows of n touches, each at a corner or elsewhere, in the order of their *)
(* times.                                                                  *)
Rows(n) ==
    LET times == { at \in [1..n -> Times] : \A i, j \in 1..n : i <= j => at[i] <= at[j] }
    IN  { [i \in 1..n |-> [corner |-> corner[i], at |-> at[i]]] :
            corner \in [1..n -> {0} \cup Corners], at \in times }

OpensClockwise ==
    \A n \in 0..MaxTaps : \A taps \in Rows(n) :
      AfterTouches(taps, Timeout).locked = ~Unlocks(taps, Timeout)
=============================================================================
