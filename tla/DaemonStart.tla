---------------------------- MODULE DaemonStart ----------------------------
(***************************************************************************)
(* The files the processes of focusrited meet at: the socket path, which a *)
(* daemon takes when it starts and gives back when it ends (main.rs,       *)
(* LocalServer's start, stop and Drop in ipc.rs), and the stored dashboard *)
(* (dashboard_store.rs), which a daemon reads when it starts and the       *)
(* command line's import replaces through a temporary file.  A process may *)
(* be killed between any two of its steps, and any number of them may run. *)
(*                                                                         *)
(* A dashboard is named by the unit it is for; the profile store is in the *)
(* ProfileStore module.                                                    *)
(***************************************************************************)
EXTENDS Naturals, FiniteSets

CONSTANTS
    Processes,
    Units,        \* the interfaces that may be plugged in
    MaxHappened   \* bound: processes begun, stopped, killed, units exchanged

None == "none"

ASSUME DaemonStartAssumption ==
    /\ IsFiniteSet(Processes)
    /\ {None, "stale"} \cap Processes = {}
    /\ ({None, "empty", "torn", "clash"} \cup Processes) \cap Units = {}
    /\ MaxHappened \in Nat

(* One that each process writes to, and the stored file's.                 *)
Inodes == 1..Cardinality(Processes) + 1

VARIABLES
    at,           \* what each process does next
    path,         \* whose socket the path names: nobody's, or a "stale" one
    unit,         \* plugged in, or None
    config,       \* the dashboard a process has read, None for the defaults
    handle,       \* the inode an import writes to
    stored, temporary,   \* inodes of the two files, 0 when they do not exist
    content,      \* of each inode: "empty", "torn", an import or a unit
    (* History. *)
    overlap,      \* two daemons have been starting or ending at once
    clashed,      \* imports that have run beside another
    imported,     \* unit of the last import done, or "clash"
    happened

fileVars == <<handle, stored, temporary, content>>
vars == <<at, path, unit, config, fileVars, overlap, clashed, imported, happened>>

Starting == {"load", "discover", "look", "connect", "remove", "bind", "listen", "chmod"}
Settling == {"look", "connect", "remove", "bind", "listen", "chmod", "closed", "unlink"}
Listening == {"chmod", "serve"}
Importing == {"create", "begin", "write", "rename"}

-----------------------------------------------------------------------------
Alive(steps) == \E p \in Processes : steps[p] \in Settling \cup Listening

Overlap(steps) ==
    \E p, q \in Processes : p # q /\ steps[p] \in Settling /\ steps[q] \in Settling

(* Every step of a process: where it goes, and what history says of it.    *)
Goes(p, next) ==
    /\ at' = [at EXCEPT ![p] = next]
    /\ overlap' = (Alive(at') /\ (overlap \/ Overlap(at')))
    /\ clashed' =
         { q \in Processes :
             /\ at'[q] \in Importing
             /\ q \in clashed \/ \E r \in Processes \ {q} : at'[r] \in Importing }

(* A socket that nobody listens on any more is stale. *)
Ends(p) ==
    /\ Goes(p, "off")
    /\ path' = IF path = p THEN "stale" ELSE path

Happens ==
    /\ happened < MaxHappened
    /\ happened' = happened + 1

(* The rest of a step that touches no file. *)
SameFiles == UNCHANGED <<unit, fileVars, imported>>

Fail(p) ==
    /\ Ends(p)
    /\ UNCHANGED <<config, happened>>
    /\ SameFiles

Continue(p, next) ==
    /\ Goes(p, next)
    /\ UNCHANGED <<path, config, happened>>
    /\ SameFiles

-----------------------------------------------------------------------------
(* The daemon: main. *)

StartDaemon(p) ==
    /\ at[p] = "off"
    /\ Happens
    /\ Goes(p, "load")
    /\ UNCHANGED <<path, config>>
    /\ SameFiles

Stored == IF stored = 0 THEN None ELSE content[stored]

(* load_dashboard; a file that cannot be parsed ends the start.            *)
Load(p) ==
    /\ at[p] = "load"
    /\ \/ /\ Stored \in Units \cup {None}
          /\ Goes(p, "discover")
          /\ config' = [config EXCEPT ![p] = Stored]
          /\ UNCHANGED <<path, happened>>
          /\ SameFiles
       \/ Stored \notin Units \cup {None} /\ Fail(p)

(* The worker connects to the interface and holds the dashboard against    *)
(* it.                                                                     *)
Discover(p) ==
    /\ at[p] = "discover"
    /\ IF unit # None /\ config[p] \in {None, unit} THEN Continue(p, "look") ELSE Fail(p)

(* remove_stale_socket. *)
Look(p) ==
    /\ at[p] = "look"
    /\ Continue(p, IF path = None THEN "bind" ELSE "connect")

(* Mutant of Probe: whatever is found is taken for stale. *)
ProbeAnything(p) == Continue(p, "remove")

(* A path that has disappeared since is an error like a socket in use.     *)
Probe(p) ==
    IF path \in Processes => at[path] \notin Listening
    THEN (IF path = None THEN Fail(p) ELSE Continue(p, "remove"))
    ELSE Fail(p)

ConnectToPath(p) ==
    /\ at[p] = "connect"
    /\ Probe(p)

(* Mutant of RemoveStale: the stale socket stays. *)
RemoveStaleNot(p) == UNCHANGED path

RemoveStale(p) == path' = None

Remove(p) ==
    /\ at[p] = "remove"
    /\ IF path = None THEN Fail(p)
       ELSE /\ RemoveStale(p)
            /\ Goes(p, "bind")
            /\ UNCHANGED <<config, happened>>
            /\ SameFiles

(* UnixListener::bind makes the path, then listens. *)
Bind(p) ==
    /\ at[p] = "bind"
    /\ IF path # None THEN Fail(p)
       ELSE /\ path' = p
            /\ Goes(p, "listen")
            /\ UNCHANGED <<config, happened>>
            /\ SameFiles

Listen(p) ==
    /\ at[p] = "listen"
    /\ Continue(p, "chmod")

(* The permissions are those of whatever the path names. *)
SetPermissions(p) ==
    /\ at[p] = "chmod"
    /\ IF path = None THEN Fail(p) ELSE Continue(p, "serve")

(* SIGTERM or SIGINT: the loop ends and with it the listener. *)
Stop(p) ==
    /\ at[p] = "serve"
    /\ Happens
    /\ Goes(p, "closed")
    /\ path' = IF path = p THEN "stale" ELSE path
    /\ UNCHANGED config
    /\ SameFiles

(* The thread removes the path, whosever it is, and stop's Drop removes it *)
(* once more.                                                              *)
Unlink(p) ==
    /\ at[p] = "closed"
    /\ path' = None
    /\ Goes(p, "unlink")
    /\ UNCHANGED <<config, happened>>
    /\ SameFiles

UnlinkAgain(p) ==
    /\ at[p] = "unlink"
    /\ path' = None
    /\ Goes(p, "off")
    /\ UNCHANGED <<config, happened>>
    /\ SameFiles

-----------------------------------------------------------------------------
(* dashboard_action: an import of a dashboard that is valid for the unit   *)
(* plugged in.  One that is not changes nothing.                           *)

StartImport(p) ==
    /\ at[p] = "off"
    /\ unit # None
    /\ Happens
    /\ Goes(p, "create")
    /\ config' = [config EXCEPT ![p] = unit]
    /\ UNCHANGED path
    /\ SameFiles

Unused ==
    CHOOSE i \in Inodes :
      i \notin {stored, temporary} \cup { handle[p] : p \in Processes }

(* Mutant of Target: written in place. *)
TargetInPlace == stored

(* The temporary file of all imports has one name. *)
Target == temporary

Create(p) ==
    /\ at[p] = "create"
    /\ LET inode == IF Target = 0 THEN Unused ELSE Target
       IN  /\ temporary' = inode
           /\ handle' = [handle EXCEPT ![p] = inode]
           /\ content' = [content EXCEPT ![inode] = "empty"]
    /\ Goes(p, "begin")
    /\ UNCHANGED <<path, unit, config, stored, imported, happened>>

WriteTo(p, what) == content' = [content EXCEPT ![handle[p]] = what]

(* A first part, then the rest: whole only if nobody else wrote meanwhile. *)
BeginWriting(p) ==
    /\ at[p] = "begin"
    /\ WriteTo(p, IF content[handle[p]] = "empty" THEN p ELSE "torn")
    /\ Goes(p, "write")
    /\ UNCHANGED <<path, unit, config, handle, stored, temporary, imported, happened>>

FinishWriting(p) ==
    /\ at[p] = "write"
    /\ WriteTo(p, IF content[handle[p]] = p THEN config[p] ELSE "torn")
    /\ Goes(p, "rename")
    /\ UNCHANGED <<path, unit, config, handle, stored, temporary, imported, happened>>

WriteFails(p) ==
    /\ at[p] \in {"begin", "write", "rename"}
    /\ Ends(p)
    /\ handle' = [handle EXCEPT ![p] = 0]
    /\ UNCHANGED <<unit, config, stored, temporary, content, imported, happened>>

(* The handle is closed before the name changes. *)
Rename(p) ==
    /\ at[p] = "rename"
    /\ IF temporary = 0 THEN UNCHANGED <<stored, temporary, imported>>
       ELSE /\ stored' = temporary
            /\ temporary' = 0
            /\ imported' = IF p \in clashed THEN "clash" ELSE config[p]
    /\ handle' = [handle EXCEPT ![p] = 0]
    /\ Ends(p)
    /\ UNCHANGED <<unit, config, content, happened>>

-----------------------------------------------------------------------------
Kill(p) ==
    /\ at[p] # "off"
    /\ Happens
    /\ Ends(p)
    /\ handle' = [handle EXCEPT ![p] = 0]
    /\ UNCHANGED <<unit, config, stored, temporary, content, imported>>

(* Another unit is plugged in, or none. *)
Exchange ==
    /\ Happens
    /\ unit' \in (Units \cup {None}) \ {unit}
    /\ UNCHANGED <<at, path, config, fileVars, overlap, clashed, imported>>

Init ==
    /\ at = [p \in Processes |-> "off"]
    /\ path = None
    /\ unit \in Units
    /\ config = [p \in Processes |-> None]
    /\ handle = [p \in Processes |-> 0]
    /\ stored = 0 /\ temporary = 0
    /\ content = [i \in Inodes |-> "empty"]
    /\ overlap = FALSE /\ clashed = {} /\ imported = None
    /\ happened = 0

Daemon(p) ==
    \/ StartDaemon(p) \/ Load(p) \/ Discover(p)
    \/ Look(p) \/ ConnectToPath(p) \/ Remove(p)
    \/ Bind(p) \/ Listen(p) \/ SetPermissions(p)
    \/ Stop(p) \/ Unlink(p) \/ UnlinkAgain(p)

Import(p) ==
    \/ StartImport(p) \/ Create(p)
    \/ BeginWriting(p) \/ FinishWriting(p) \/ WriteFails(p) \/ Rename(p)

Next == Exchange \/ \E p \in Processes : Daemon(p) \/ Import(p) \/ Kill(p)

Spec == Init /\ [][Next]_vars

-----------------------------------------------------------------------------
(* A daemon that accepts connections can be reached: neither a start that  *)
(* finds it running, nor a kill, nor a stale socket, takes its path away.  *)
(* That holds until two daemons start or end at the same time: one that    *)
(* has found the path stale, or one that ends, removes whatever is there.  *)
LiveSocketIsKept ==
    ~overlap => \A p \in Processes : at[p] \in Listening => path = p

(* A start that fails has a reason that is still there: the interface is   *)
(* missing or not the dashboard's, or a daemon runs.  What killed daemons  *)
(* and interrupted imports leave behind never keeps a daemon from starting.*)
FailsForCause(p) ==
    \/ unit = None \/ config[p] \notin {None, unit}
    \/ imported = "clash" \/ overlap
    \/ \E q \in Processes \ {p} : at[q] \in Listening

StartsUnlessPrevented ==
    [][\A p \in Processes :
         at[p] \in Starting /\ at'[p] = "off" /\ happened' = happened => FailsForCause(p)]_vars

(* The dashboard the next daemon reads is that of the last import that was *)
(* finished, whole, however many were interrupted since, as long as no two *)
(* of them ran at once: they share one temporary file, and one may write   *)
(* on in what the other has already put in place.                          *)
LastImportIsStored == imported # "clash" => Stored = imported
=============================================================================
