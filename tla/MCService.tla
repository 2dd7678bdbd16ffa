----------------------------- MODULE MCService -----------------------------
(***************************************************************************)
(* Two units under one card name: the desk unit the dashboard belongs to,  *)
(* with two faders of unequal range, and a spare of another identity and   *)
(* the same schema, whose second fader is read-only.                       *)
(***************************************************************************)
EXTENDS Service

Fader(lo, hi, writable) ==
    [domain |-> "integer", writable |-> writable, available |-> TRUE,
     relative |-> TRUE, lo |-> lo, hi |-> hi]

MCUnits == {"desk", "spare"}
MCDeviceId == [u \in MCUnits |-> u]
MCSchema == [u \in MCUnits |-> "v1"]
MCCapability ==
    [u \in MCUnits |-> <<Fader(0, 1, TRUE), Fader(0, 2, u = "desk")>>]

(* The same pair with nothing read-only on the spare. *)
MCTwinCapability ==
    [u \in MCUnits |-> <<Fader(0, 1, TRUE), Fader(0, 2, TRUE)>>]

Flat(n) == [c \in 1..2 |-> Integer(n)]
MCInitialSettings == { [u \in MCUnits |-> Flat(0)] }

Stored(device, n) == [device |-> device, schema |-> "v1", values |-> Flat(n)]
MCStoredProfiles == { [m \in {"night"} |-> Stored("desk", 1)] }

(* A second stored profile, whose entries do not fit the first. *)
MCTwoProfiles ==
    { [m \in {"day", "night"} |->
         IF m = "night" THEN Stored("desk", 1)
         ELSE [Stored("desk", 0) EXCEPT !.values[2] = Integer(2)]] }

MCGroupMembers == <<2, 1>>
=============================================================================
