---------------------------- MODULE ProfileStore ----------------------------
(***************************************************************************)
(* The profile table and its file: the worker saves a profile into its     *)
(* memory, writes the whole table to a temporary file beside the store,    *)
(* syncs and renames it (worker.rs, ProfileSave; profile_store.rs), and    *)
(* puts the old table back when any of that fails.  The daemon reads the   *)
(* file once, when it starts, and does not start if it cannot parse it.    *)
(* Between any two file operations the process may be killed, or the power *)
(* be lost: then content that was never synced may be torn, and directory  *)
(* entries that were never flushed may be the old ones.                    *)
(***************************************************************************)
EXTENDS Naturals

CONSTANTS
    Names,          \* what clients call profiles; "" is the empty text
    WritableKinds,  \* kinds of value of the controls the adapter lets write
    Absent,         \* what a table holds for a name it does not have
    MaxSaves,       \* bound: requests to save
    MaxCrashes      \* bound: kills and power losses

Kinds == {"boolean", "integer", "integer64", "array"}

(* A profile is told apart by the kinds of value it holds. *)
Profile == [kinds : SUBSET Kinds]

Table == [Names -> Profile \cup {Absent}]

Empty == [name \in Names |-> Absent]

(* Arrays are not writable in the adapters there are: the comment of       *)
(* encode_value, and value_domain of scarlett2_alsa.rs.                    *)
ASSUME StoreAssumption ==
    /\ Absent \notin Profile
    /\ WritableKinds \subseteq Kinds \ {"array"}
    /\ MaxSaves \in Nat
    /\ MaxCrashes \in Nat

(* What a file is: missing, cut short, or a whole encoded table.           *)
NoFile == [is |-> "missing"]
Torn == [is |-> "torn"]
Whole(table) == [is |-> "whole", table |-> table]
File == {NoFile, Torn} \cup { Whole(table) : table \in Table }

VARIABLES
    (* Files. *)
    path,        \* the store
    tmp,         \* the temporary file beside it
    synced,      \* what was written to the temporary file is on the disk
    recoverable, \* what the store may be after a power loss
    (* The daemon. *)
    at,          \* "down", "ready", or the next step of a save
    memory,      \* Service.profiles
    before,      \* the table a failing save puts back
    (* History. *)
    answered,    \* the table as clients were last told, or as it was loaded
    powerLost,   \* the power was lost since the daemon last ran
    saves,
    crashes

fileVars == <<path, tmp, synced, recoverable>>
countVars == <<saves, crashes>>
vars == <<fileVars, at, memory, before, answered, powerLost, countVars>>

Saving == {"create", "write", "sync", "rename", "answer"}

-----------------------------------------------------------------------------
(* Encoding: a table whose parser refuses what its encoder wrote. *)

(* An array is encoded as a bare A, and an empty name as no field at all.  *)
Encodable(table) ==
    \A name \in Names :
      table[name] # Absent => name # "" /\ "array" \notin table[name].kinds

Loads(file) ==
    \/ file = NoFile
    \/ file.is = "whole" /\ Encodable(file.table)

Loaded(file) == IF file.is = "whole" THEN file.table ELSE Empty

-----------------------------------------------------------------------------
(* A save, one file operation at a time. *)

ValidName(name) == name # ""

(* Mutant of Captured: read-only controls are saved as well. *)
CapturedAll(held) == [kinds |-> held]

Captured(held) == [kinds |-> held \cap WritableKinds]

(* A refused name leaves everything as it was. *)
Save ==
    \E name \in Names, held \in SUBSET Kinds :
      /\ at = "ready"
      /\ saves < MaxSaves
      /\ ValidName(name)
      /\ saves' = saves + 1
      /\ before' = memory
      /\ memory' = [memory EXCEPT ![name] = Captured(held)]
      /\ at' = "create"
      /\ UNCHANGED <<fileVars, answered, powerLost, crashes>>

(* Mutant of Create: the store itself is opened for writing. *)
CreateInPlace ==
    /\ at = "create"
    /\ path' = Torn
    /\ recoverable' = recoverable \cup {Torn}
    /\ synced' = FALSE
    /\ at' = "write"
    /\ UNCHANGED <<tmp, memory, before, answered, powerLost, countVars>>

Create ==
    /\ at = "create"
    /\ tmp' = Torn
    /\ synced' = FALSE
    /\ at' = "write"
    /\ UNCHANGED <<path, recoverable, memory, before, answered, powerLost, countVars>>

Write ==
    /\ at = "write"
    /\ tmp' = Whole(memory)
    /\ at' = "sync"
    /\ UNCHANGED <<path, synced, recoverable, memory, before, answered, powerLost, countVars>>

(* Mutant of Sync: the file is only handed to the kernel. *)
SyncFlushes ==
    /\ at = "sync"
    /\ at' = "rename"
    /\ UNCHANGED <<fileVars, memory, before, answered, powerLost, countVars>>

Sync ==
    /\ at = "sync"
    /\ synced' = TRUE
    /\ at' = "rename"
    /\ UNCHANGED <<path, tmp, recoverable, memory, before, answered, powerLost, countVars>>

(* Until the directory is flushed a power loss may bring back the old file. *)
Rename ==
    /\ at = "rename"
    /\ path' = tmp
    /\ tmp' = NoFile
    /\ recoverable' = recoverable \cup (IF synced THEN {tmp} ELSE {tmp, Torn})
    /\ at' = "answer"
    /\ UNCHANGED <<synced, memory, before, answered, powerLost, countVars>>

Answer ==
    /\ at = "answer"
    /\ answered' = memory
    /\ at' = "ready"
    /\ UNCHANGED <<fileVars, memory, before, powerLost, countVars>>

(* Mutant of Fails: memory keeps the profile that was not stored. *)
FailsForward ==
    /\ at \in Saving \ {"answer"}
    /\ answered' = before
    /\ at' = "ready"
    /\ UNCHANGED <<fileVars, memory, before, powerLost, countVars>>

(* Any of the operations may fail, each leaving what was done before it.   *)
Fails ==
    /\ at \in Saving \ {"answer"}
    /\ memory' = before
    /\ answered' = before
    /\ at' = "ready"
    /\ UNCHANGED <<fileVars, before, powerLost, countVars>>

-----------------------------------------------------------------------------
(* The daemon starts: main loads the profiles or gives up.  What else a    *)
(* start needs, an interface, a dashboard and a socket, is DaemonStart's.  *)

Start ==
    /\ at = "down"
    /\ Loads(path)
    /\ memory' = Loaded(path)
    /\ answered' = Loaded(path)
    /\ powerLost' = FALSE
    /\ at' = "ready"
    /\ UNCHANGED <<fileVars, before, countVars>>

Stop ==
    /\ at = "ready"
    /\ at' = "down"
    /\ UNCHANGED <<fileVars, memory, before, answered, powerLost, countVars>>

(* The process is killed in the middle of a save, and the kernel still has *)
(* the files.  Killed at another time it ends as if it were stopped.       *)
Kill ==
    /\ at \in Saving
    /\ crashes < MaxCrashes
    /\ crashes' = crashes + 1
    /\ at' = "down"
    /\ UNCHANGED <<fileVars, memory, before, answered, powerLost, saves>>

PowerLoss ==
    /\ crashes < MaxCrashes
    /\ crashes' = crashes + 1
    /\ path' \in recoverable
    /\ recoverable' = {path'}
    /\ tmp' \in {NoFile, Torn, tmp}
    /\ powerLost' = TRUE
    /\ at' = "down"
    /\ UNCHANGED <<synced, memory, before, answered, saves>>

(* The kernel writes the directory back, and what its entries name. *)
Flush ==
    /\ recoverable # {path}
    /\ recoverable' = {path}
    /\ UNCHANGED <<path, tmp, synced, at, memory, before, answered, powerLost, countVars>>

-----------------------------------------------------------------------------
Init ==
    /\ path = NoFile
    /\ tmp = NoFile
    /\ synced = FALSE
    /\ recoverable = {NoFile}
    /\ at = "ready"
    /\ memory = Empty
    /\ before = Empty
    /\ answered = Empty
    /\ powerLost = FALSE
    /\ saves = 0
    /\ crashes = 0

Next ==
    \/ Save \/ Create \/ Write \/ Sync \/ Rename \/ Answer \/ Fails
    \/ Start \/ Stop \/ Kill \/ PowerLoss \/ Flush

Spec == Init /\ [][Next]_vars

-----------------------------------------------------------------------------
(* Every variable holds a value of its kind, and only a synced file is     *)
(* about to be renamed.                                                    *)
TypeOK ==
    /\ path \in File
    /\ tmp \in File
    /\ synced \in BOOLEAN
    /\ at = "rename" => synced
    /\ recoverable \subseteq File
    /\ at \in Saving \cup {"down", "ready"}
    /\ memory \in Table
    /\ before \in Table
    /\ answered \in Table
    /\ powerLost \in BOOLEAN
    /\ saves \in Nat
    /\ crashes \in Nat

(* The store can be read, now and after a power loss at this moment: no    *)
(* kill, failure or power loss leaves a file the daemon refuses to start   *)
(* with, and no accepted profile is one the parser rejects.                *)
StoreAlwaysLoads == \A file \in recoverable \cup {path} : Loads(file)

(* What clients were told is what a restart brings back: the store holds   *)
(* the table last answered, or the one a save was interrupted with, unless *)
(* the power was lost in between.                                          *)
AnsweredSavesAreStored ==
    powerLost \/ Loaded(path) = answered \/ (at \in {"answer", "down"} /\ Loaded(path) = memory)

(* Between requests memory and store agree: a save that failed part-way is *)
(* undone in both, also when it replaced a profile.                        *)
MemoryIsStored == at = "ready" => memory = Loaded(path)
=============================================================================
