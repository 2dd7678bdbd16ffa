-------------------------- MODULE MCDaemonRestart --------------------------
(* One unit with two faders, and a stored profile that raises both. *)
EXTENDS DaemonRestart

Fader(lo, hi) ==
    [domain |-> "integer", writable |-> TRUE, available |-> TRUE,
     relative |-> TRUE, lo |-> lo, hi |-> hi]

MCUnits == {"desk"}
MCDeviceId == [u \in MCUnits |-> u]
MCSchema == [u \in MCUnits |-> "v1"]
MCCapability == [u \in MCUnits |-> <<Fader(0, 1), Fader(0, 2)>>]

Flat(n) == [c \in 1..2 |-> Integer(n)]
MCInitialSettings == { [u \in MCUnits |-> Flat(0)] }
MCStoredProfiles ==
    { [m \in {"night"} |-> [device |-> "desk", schema |-> "v1", values |-> Flat(1)]] }

MCGroupMembers == <<2, 1>>
=============================================================================
