-------------------------- MODULE DaemonStartProofs --------------------------
(***************************************************************************)
(* The socket path of a running daemon is kept, and the stored dashboard   *)
(* is the last one imported, for any number of processes, starts, kills    *)
(* and stops: each proved from an invariant that says what a process       *)
(* relies on between two of its steps.                                     *)
(***************************************************************************)
EXTENDS DaemonStart, FiniteSetTheorems, TLAPS

(* While no two daemons start or end at once:                              *)
Relies ==
    /\ \A p, q \in Processes : at[p] \in Settling /\ at[q] \in Settling => p = q
    /\ \A p \in Processes : at[p] \in Listening \cup {"listen"} => path = p
    /\ \A p, q \in Processes :
         at[p] \in {"remove", "bind", "closed", "unlink"} => at[q] \notin Listening

SocketInv ==
    /\ at = [q \in Processes |-> at[q]]
    /\ ~overlap => Relies

(* What a step does to the history of overlaps: where it says there was    *)
(* none, at most one process is settling, and there was none before or     *)
(* nobody is left to whom it mattered.                                     *)
LEMMA GoesAlone ==
    ASSUME NEW p \in Processes, NEW next, at = [q \in Processes |-> at[q]], Goes(p, next)
    PROVE  /\ at' = [q \in Processes |-> at'[q]]
           /\ at'[p] = next
           /\ \A q \in Processes \ {p} : at'[q] = at[q]
           /\ ~overlap' => \A q, r \in Processes :
                             at'[q] \in Settling /\ at'[r] \in Settling => q = r
           /\ ~overlap' => \/ ~overlap
                           \/ \A q \in Processes : at'[q] \notin Settling \cup Listening
  <1>1. at' = [at EXCEPT ![p] = next]
    BY DEF Goes
  <1>2. at' = [q \in Processes |-> at'[q]] /\ at'[p] = next /\ \A q \in Processes \ {p} : at'[q] = at[q]
    BY <1>1
  <1>3. ~overlap' => ~Overlap(at') \/ ~Alive(at')
    BY Zenon DEF Goes
  <1>4. ~overlap' => ~overlap \/ ~Alive(at')
    BY Zenon DEF Goes
  <1>5. ASSUME ~Overlap(at') \/ ~Alive(at'), NEW q \in Processes, NEW r \in Processes,
               at'[q] \in Settling, at'[r] \in Settling
        PROVE  q = r
    BY <1>5 DEF Overlap, Alive
  <1>6. ~Alive(at') => \A q \in Processes : at'[q] \notin Settling \cup Listening
    BY DEF Alive
  <1> QED
    BY <1>2, <1>3, <1>4, <1>5, <1>6

LEMMA SocketInvInit == Init => SocketInv
  <1> SUFFICES ASSUME Init PROVE SocketInv
    OBVIOUS
  <1>1. \A p \in Processes : at[p] = "off"
    BY DEF Init
  <1>2. at = [q \in Processes |-> at[q]]
    BY DEF Init
  <1>3. Relies
    BY <1>1 DEF Relies, Settling, Listening
  <1> QED
    BY <1>2, <1>3 DEF SocketInv

(* What a step of p to next must see to.                                   *)
Removing == {"remove", "bind", "closed", "unlink"}

Keeps(p, next) ==
    /\ next \in Listening \cup {"listen"} => path' = p
    /\ \A q \in Processes \ {p} : at[q] \in Listening \cup {"listen"} => path' = q
    /\ next \in Removing => \A q \in Processes \ {p} : at[q] \notin Listening
    /\ next \in Listening => \A q \in Processes \ {p} : at[q] \notin Removing

LEMMA StepKeepsReliance ==
    ASSUME SocketInv, NEW p \in Processes, NEW next, Goes(p, next),
           Relies => Keeps(p, next)
    PROVE  SocketInv'
  <1>1. at = [q \in Processes |-> at[q]] /\ (~overlap => Relies)
    BY DEF SocketInv
  <1>2. /\ at' = [q \in Processes |-> at'[q]]
        /\ at'[p] = next
        /\ \A q \in Processes \ {p} : at'[q] = at[q]
        /\ ~overlap' => \A q, r \in Processes :
                          at'[q] \in Settling /\ at'[r] \in Settling => q = r
        /\ ~overlap' => \/ ~overlap
                        \/ \A q \in Processes : at'[q] \notin Settling \cup Listening
    BY <1>1, GoesAlone
  <1>3. ASSUME ~overlap' PROVE Relies'
    <2>1. CASE \A q \in Processes : at'[q] \notin Settling \cup Listening
      BY <2>1 DEF Relies, Settling, Listening
    <2>2. CASE ~overlap
      <3>1. Relies /\ Keeps(p, next)
        BY <1>1, <2>2
      <3>2. \A q, r \in Processes : at'[q] \in Settling /\ at'[r] \in Settling => q = r
        BY <1>2, <1>3
      <3>3. \A q \in Processes : at'[q] \in Listening \cup {"listen"} => path' = q
        BY <1>2, <3>1 DEF Keeps
      <3>4. \A q, r \in Processes :
              at'[q] \in {"remove", "bind", "closed", "unlink"} => at'[r] \notin Listening
        BY <1>2, <3>1 DEF Keeps, Relies, Listening, Removing
      <3> QED
        BY <3>2, <3>3, <3>4 DEF Relies
    <2> QED
      BY <1>2, <1>3, <2>1, <2>2
  <1> QED
    BY <1>2, <1>3 DEF SocketInv

LEMMA ActionsKeepReliance ==
    ASSUME SocketInv, NEW p \in Processes, Daemon(p) \/ Import(p) \/ Kill(p)
    PROVE  SocketInv'
  <1>1. ASSUME Ends(p) PROVE SocketInv'
    <2>1. Relies => Keeps(p, "off")
      BY <1>1 DEF Ends, Relies, Keeps, Listening, Removing
    <2> QED
      BY <1>1, <2>1, StepKeepsReliance DEF Ends
  <1>2. ASSUME Fail(p) PROVE SocketInv'
    BY <1>1, <1>2 DEF Fail
  <1>3. ASSUME NEW next, next \notin Settling \cup Listening, Goes(p, next),
               UNCHANGED path
        PROVE  SocketInv'
    <2>1. Relies => Keeps(p, next)
      BY <1>3 DEF Relies, Keeps, Settling, Listening, Removing
    <2> QED
      BY <1>3, <2>1, StepKeepsReliance
  <1>4. CASE StartDaemon(p)
    BY <1>3, <1>4 DEF StartDaemon, Settling, Listening
  <1>5. CASE Load(p)
    BY <1>2, <1>3, <1>5 DEF Load, Settling, Listening
  <1>6. CASE Discover(p)
    <2>1. CASE unit # None /\ config[p] \in {None, unit}
      <3>1. Goes(p, "look")
        BY <1>6, <2>1 DEF Discover, Continue
      <3>2. Relies => Keeps(p, "look")
        BY <1>6, <2>1, DaemonStartAssumption DEF Discover, Continue, Relies, Keeps, Settling, Listening, Removing
      <3> QED
        BY <3>1, <3>2, StepKeepsReliance
    <2>2. CASE ~(unit # None /\ config[p] \in {None, unit})
      BY <1>2, <1>6, <2>2 DEF Discover, Continue
    <2> QED
      BY <2>1, <2>2
  <1>7. CASE Look(p)
    <2>1. CASE path = None
      <3>1. Goes(p, "bind")
        BY <1>7, <2>1 DEF Look, Continue
      <3>2. Relies => Keeps(p, "bind")
        BY <1>7, <2>1, DaemonStartAssumption DEF Look, Continue, Relies, Keeps, Settling, Listening, Removing
      <3> QED
        BY <3>1, <3>2, StepKeepsReliance
    <2>2. CASE path # None
      <3>1. Goes(p, "connect")
        BY <1>7, <2>2 DEF Look, Continue
      <3>2. Relies => Keeps(p, "connect")
        BY <1>7, <2>2, DaemonStartAssumption DEF Look, Continue, Relies, Keeps, Settling, Listening, Removing
      <3> QED
        BY <3>1, <3>2, StepKeepsReliance
    <2> QED
      BY <2>1, <2>2
  <1>8. CASE ConnectToPath(p)
    <2>1. CASE path # None /\ (path \in Processes => at[path] \notin Listening)
      <3>1. Goes(p, "remove")
        BY <1>8, <2>1 DEF ConnectToPath, Probe, Continue
      <3>2. Relies => Keeps(p, "remove")
        BY <1>8, <2>1, DaemonStartAssumption DEF ConnectToPath, Probe, Continue, Relies, Keeps, Settling, Listening, Removing
      <3> QED
        BY <3>1, <3>2, StepKeepsReliance
    <2>2. CASE ~(path # None /\ (path \in Processes => at[path] \notin Listening))
      BY <1>2, <1>8, <2>2 DEF ConnectToPath, Probe, Continue
    <2> QED
      BY <2>1, <2>2
  <1>9. CASE Remove(p)
    <2>1. CASE path # None
      <3>1. Goes(p, "bind")
        BY <1>9, <2>1 DEF Remove, RemoveStale
      <3>2. Relies => Keeps(p, "bind")
        BY <1>9, <2>1, DaemonStartAssumption DEF Remove, RemoveStale, Relies, Keeps, Settling, Listening, Removing
      <3> QED
        BY <3>1, <3>2, StepKeepsReliance
    <2>2. CASE ~(path # None)
      BY <1>2, <1>9, <2>2 DEF Remove, RemoveStale
    <2> QED
      BY <2>1, <2>2
  <1>10. CASE Bind(p)
    <2>1. CASE path = None
      <3>1. Goes(p, "listen")
        BY <1>10, <2>1 DEF Bind
      <3>2. Relies => Keeps(p, "listen")
        BY <1>10, <2>1, DaemonStartAssumption DEF Bind, Relies, Keeps, Settling, Listening, Removing
      <3> QED
        BY <3>1, <3>2, StepKeepsReliance
    <2>2. CASE ~(path = None)
      BY <1>2, <1>10, <2>2 DEF Bind
    <2> QED
      BY <2>1, <2>2
  <1>11. CASE Listen(p)
    <2>1. Goes(p, "chmod")
      BY <1>11 DEF Listen, Continue
    <2>2. Relies => Keeps(p, "chmod")
      BY <1>11 DEF Listen, Continue, Relies, Keeps, Settling, Listening, Removing
    <2> QED
      BY <2>1, <2>2, StepKeepsReliance
  <1>12. CASE SetPermissions(p)
    <2>1. CASE path # None
      <3>1. Goes(p, "serve")
        BY <1>12, <2>1 DEF SetPermissions, Continue
      <3>2. Relies => Keeps(p, "serve")
        BY <1>12, <2>1, DaemonStartAssumption DEF SetPermissions, Continue, Relies, Keeps, Settling, Listening, Removing
      <3> QED
        BY <3>1, <3>2, StepKeepsReliance
    <2>2. CASE ~(path # None)
      BY <1>2, <1>12, <2>2 DEF SetPermissions, Continue
    <2> QED
      BY <2>1, <2>2
  <1>13. CASE Stop(p)
    <2>1. Goes(p, "closed")
      BY <1>13 DEF Stop
    <2>2. Relies => Keeps(p, "closed")
      BY <1>13 DEF Stop, Relies, Keeps, Settling, Listening, Removing
    <2> QED
      BY <2>1, <2>2, StepKeepsReliance
  <1>14. CASE Unlink(p)
    <2>1. Goes(p, "unlink")
      BY <1>14 DEF Unlink
    <2>2. Relies => Keeps(p, "unlink")
      BY <1>14 DEF Unlink, Relies, Keeps, Settling, Listening, Removing
    <2> QED
      BY <2>1, <2>2, StepKeepsReliance
  <1>15. CASE UnlinkAgain(p)
    <2>1. Goes(p, "off")
      BY <1>15 DEF UnlinkAgain
    <2>2. Relies => Keeps(p, "off")
      BY <1>15 DEF UnlinkAgain, Relies, Keeps, Settling, Listening, Removing
    <2> QED
      BY <2>1, <2>2, StepKeepsReliance
  <1>16. CASE StartImport(p)
    BY <1>3, <1>16 DEF StartImport, Settling, Listening
  <1>17. CASE Create(p) \/ BeginWriting(p) \/ FinishWriting(p)
    BY <1>3, <1>17 DEF Create, BeginWriting, FinishWriting, Settling, Listening
  <1>18. CASE WriteFails(p) \/ Rename(p) \/ Kill(p)
    BY <1>1, <1>18 DEF WriteFails, Rename, Kill
  <1> QED
    BY <1>4, <1>5, <1>6, <1>7, <1>8, <1>9, <1>10, <1>11, <1>12, <1>13, <1>14, <1>15, <1>16, <1>17, <1>18
       DEF Daemon, Import

LEMMA SocketInvNext == SocketInv /\ [Next]_vars => SocketInv'
  <1> SUFFICES ASSUME SocketInv, [Next]_vars PROVE SocketInv'
    OBVIOUS
  <1>1. CASE Exchange
    BY <1>1 DEF Exchange, SocketInv, Relies
  <1>2. CASE UNCHANGED vars
    BY <1>2 DEF vars, SocketInv, Relies
  <1> QED
    BY <1>1, <1>2, ActionsKeepReliance DEF Next

(* The path of every daemon that accepts connections is its own, as long as*)
(* no two daemons have been starting or ending at once: remove_stale_socket*)
(* and the two removals at the end touch no live socket.                   *)
THEOREM LiveSocketsAreKept == Spec => []LiveSocketIsKept
  <1>1. SocketInv => LiveSocketIsKept
    BY DEF SocketInv, Relies, LiveSocketIsKept
  <1> QED
    BY <1>1, SocketInvInit, SocketInvNext, PTL DEF Spec

-----------------------------------------------------------------------------
(* The dashboard.  An import is at its own temporary file as long as no    *)
(* other runs, and none is ever at the file of the last one finished.      *)
Writing == {"begin", "write", "rename"}

FileTypes ==
    /\ unit \in Units \cup {None}
    /\ config = [q \in Processes |-> config[q]]
    /\ handle \in [Processes -> Inodes \cup {0}]
    /\ stored \in Inodes \cup {0} /\ temporary \in Inodes \cup {0}
    /\ content = [i \in Inodes |-> content[i]]

(* What an import's file holds before each of its steps. *)
Progress(p, step) ==
    CASE step = "begin" -> "empty"
      [] step = "write" -> p
      [] step = "rename" -> config[p]

Undisturbed(p, step) == handle[p] = temporary /\ content[handle[p]] = Progress(p, step)

LastImportKept ==
    imported # "clash" =>
      /\ Stored = imported
      /\ \A q \in Processes : handle[q] # 0 => handle[q] # stored

ImportInv ==
    /\ at = [q \in Processes |-> at[q]]
    /\ FileTypes
    /\ stored # 0 => stored # temporary
    /\ \A q \in Processes : handle[q] # 0 <=> at[q] \in Writing
    /\ \A q \in Processes : at[q] \in Importing => config[q] \in Units
    /\ \A q, r \in Processes : q # r /\ at[q] \in Importing /\ at[r] \in Importing => q \in clashed
    /\ \A q \in Processes \ clashed : at[q] \in Writing => Undisturbed(q, at[q])
    /\ LastImportKept

(* What a step of p to next must see to.                                   *)
KeepsFiles(p, next) ==
    /\ FileTypes'
    /\ \A q \in Processes \ {p} : handle'[q] = handle[q] /\ config'[q] = config[q]
    /\ stored' # 0 => stored' # temporary'
    /\ handle'[p] # 0 <=> next \in Writing
    /\ next \in Importing => config'[p] \in Units
    /\ p \notin clashed /\ next \in Writing => Undisturbed(p, next)'
    /\ at[p] \notin Importing /\ next \notin Importing => UNCHANGED fileVars
    /\ LastImportKept'

LEMMA GoesImporting ==
    ASSUME NEW p \in Processes, NEW next, at = [q \in Processes |-> at[q]], Goes(p, next)
    PROVE  /\ at' = [q \in Processes |-> at'[q]]
           /\ at'[p] = next
           /\ \A q \in Processes \ {p} : at'[q] = at[q]
           /\ \A q \in Processes : q \in clashed' <=>
                /\ at'[q] \in Importing
                /\ q \in clashed \/ \E r \in Processes \ {q} : at'[r] \in Importing
  BY DEF Goes

LEMMA StepKeepsImports ==
    ASSUME ImportInv, NEW p \in Processes, NEW next, Goes(p, next), KeepsFiles(p, next)
    PROVE  ImportInv'
  <1>1. at = [q \in Processes |-> at[q]]
    BY DEF ImportInv
  <1>2. /\ at' = [q \in Processes |-> at'[q]]
        /\ at'[p] = next
        /\ \A q \in Processes \ {p} : at'[q] = at[q]
        /\ \A q \in Processes : q \in clashed' <=>
             /\ at'[q] \in Importing
             /\ q \in clashed \/ \E r \in Processes \ {q} : at'[r] \in Importing
    BY <1>1, GoesImporting
  <1>3. \A q \in Processes : handle'[q] # 0 <=> at'[q] \in Writing
    BY <1>2 DEF ImportInv, KeepsFiles
  <1>4. \A q \in Processes : at'[q] \in Importing => config'[q] \in Units
    BY <1>2 DEF ImportInv, KeepsFiles
  <1>5. \A q, r \in Processes :
          q # r /\ at'[q] \in Importing /\ at'[r] \in Importing => q \in clashed'
    BY <1>2
  <1>6. ASSUME NEW q \in Processes \ clashed', at'[q] \in Writing PROVE Undisturbed(q, at[q])' 
    <2>1. at'[q] \in Importing
      BY <1>6 DEF Writing, Importing
    <2>2. q \notin clashed /\ \A r \in Processes \ {q} : at'[r] \notin Importing
      BY <1>2, <1>6, <2>1
    <2>3. CASE q = p
      <3>1. Undisturbed(p, next)'
        BY <1>2, <1>6, <2>2, <2>3 DEF KeepsFiles
      <3> QED
        BY <1>2, <2>3, <3>1 DEF Undisturbed, Progress
    <2>4. CASE q # p
      <3>1. at'[q] = at[q] /\ next \notin Importing
        BY <1>2, <2>2, <2>4
      <3>2. at[p] \notin Importing
        BY <2>1, <2>2, <2>4, <3>1 DEF ImportInv
      <3>3. UNCHANGED fileVars /\ config'[q] = config[q]
        BY <2>4, <3>1, <3>2 DEF KeepsFiles
      <3>4. Undisturbed(q, at[q])
        BY <1>6, <2>2, <3>1 DEF ImportInv
      <3> QED
        BY <3>1, <3>3, <3>4 DEF fileVars, Undisturbed, Progress
    <2> QED
      BY <2>3, <2>4
  <1> QED
    BY <1>2, <1>3, <1>4, <1>5, <1>6 DEF ImportInv, KeepsFiles

(* There is an inode for every new temporary file: one per process, and    *)
(* the stored file's.                                                      *)
LEMMA UnusedExists ==
    ASSUME FileTypes, temporary = 0, NEW p \in Processes, handle[p] = 0
    PROVE  Unused \in Inodes \ {stored} /\ \A q \in Processes : handle[q] # Unused
  <1> DEFINE n == Cardinality(Processes)
             others == Processes \ {p}
             free == Inodes \ {stored}
  <1>1. IsFiniteSet(Processes) /\ n \in Nat
    BY DaemonStartAssumption, FS_CardinalityType
  <1>2. IsFiniteSet(others) /\ Cardinality(others) = n - 1
    BY <1>1, FS_RemoveElement
  <1>3. IsFiniteSet(Inodes) /\ Cardinality(Inodes) = n + 1
    BY <1>1, FS_Interval DEF Inodes
  <1>4. IsFiniteSet(free) /\ Cardinality(free) >= n
    BY <1>1, <1>3, FS_RemoveElement
  <1>5. 0 \notin Inodes
    BY <1>1 DEF Inodes
  <1>6. ASSUME \A i \in free : \E q \in others : handle[q] = i PROVE FALSE
    <2> DEFINE f == [i \in free |-> CHOOSE q \in others : handle[q] = i]
    <2>1. \A i \in free : f[i] \in others /\ handle[f[i]] = i
      BY <1>6
    <2>2. f \in [free -> others]
      BY <2>1
    <2>3. Cardinality(others) < Cardinality(free)
      BY <1>1, <1>2, <1>4, FS_CardinalityType
    <2> HIDE DEF f, free, others
    <2>4. \E i, j \in free : i # j /\ f[i] = f[j]
      BY <1>2, <1>4, <2>2, <2>3, FS_PigeonHole
    <2> QED
      BY <2>1, <2>4
  <1>7. PICK i \in free : \A q \in others : handle[q] # i
    BY <1>6
  <1>8. i \in Inodes /\ i \notin {stored, temporary} \cup { handle[q] : q \in Processes }
    BY <1>5, <1>7
  <1>9. Unused \in Inodes /\ Unused \notin {stored, temporary} \cup { handle[q] : q \in Processes }
    BY <1>8, Zenon DEF Unused
  <1> QED
    BY <1>9

LEMMA QuietStepKeepsImports ==
    ASSUME ImportInv, NEW p \in Processes, NEW next, Goes(p, next), SameFiles,
           at[p] \notin Writing, next \notin Writing,
           config' = [config EXCEPT ![p] = config'[p]],
           next \in Importing => config'[p] \in Units
    PROVE  ImportInv'
  <1>1. FileTypes /\ LastImportKept /\ handle[p] = 0 /\ (stored # 0 => stored # temporary)
    BY DEF ImportInv
  <1>2. UNCHANGED fileVars /\ UNCHANGED <<unit, handle, stored, temporary, content, imported>>
    BY DEF SameFiles, fileVars
  <1>3. FileTypes' /\ \A q \in Processes \ {p} : config'[q] = config[q]
    BY <1>1, <1>2 DEF FileTypes
  <1>4. LastImportKept'
    BY <1>1, <1>2 DEF LastImportKept, Stored
  <1>5. KeepsFiles(p, next)
    BY <1>1, <1>2, <1>3, <1>4 DEF KeepsFiles
  <1> QED
    BY <1>5, StepKeepsImports

LEMMA LeavingKeepsImports ==
    ASSUME ImportInv, NEW p \in Processes, Goes(p, "off"),
           handle' = [handle EXCEPT ![p] = 0],
           UNCHANGED <<unit, config, stored, temporary, content, imported>>
    PROVE  ImportInv'
  <1>1. FileTypes /\ LastImportKept /\ (stored # 0 => stored # temporary)
    BY DEF ImportInv
  <1>2. FileTypes' /\ handle'[p] = 0 /\ \A q \in Processes \ {p} : handle'[q] = handle[q]
    BY <1>1 DEF FileTypes
  <1>3. LastImportKept'
    BY <1>1, <1>2 DEF LastImportKept, Stored
  <1>4. at[p] \notin Importing => handle[p] = 0
    BY DEF ImportInv, Writing, Importing
  <1>5. at[p] \notin Importing => UNCHANGED fileVars
    BY <1>1, <1>4 DEF FileTypes, fileVars
  <1>6. KeepsFiles(p, "off")
    BY <1>1, <1>2, <1>3, <1>5 DEF KeepsFiles, Writing, Importing
  <1> QED
    BY <1>6, StepKeepsImports

LEMMA ImportKeepsImports ==
    ASSUME ImportInv, NEW p \in Processes,
           Create(p) \/ BeginWriting(p) \/ FinishWriting(p) \/ Rename(p)
    PROVE  ImportInv'
  <1>1. FileTypes /\ LastImportKept /\ (stored # 0 => stored # temporary)
    BY DEF ImportInv
  <1>2. 0 \notin Inodes
    BY DEF Inodes
  <1>3. at[p] \in Importing /\ config[p] \in Units
    BY DEF ImportInv, Create, BeginWriting, FinishWriting, Rename, Importing
  <1>4. CASE Create(p)
    <2>1. handle[p] = 0
      BY <1>4 DEF Create, ImportInv, Writing
    <2> DEFINE inode == temporary'
    <2>2. inode = IF temporary = 0 THEN Unused ELSE temporary
      BY <1>4 DEF Create, Target
    <2>3. inode \in Inodes /\ inode # stored
      BY <1>1, <2>1, <2>2, UnusedExists DEF FileTypes
    <2>4. handle' = [handle EXCEPT ![p] = inode] /\ content' = [content EXCEPT ![inode] = "empty"]
      BY <1>4 DEF Create
    <2>5. UNCHANGED <<unit, config, stored, imported>> /\ Goes(p, "begin")
      BY <1>4 DEF Create
    <2> HIDE DEF inode
    <2>6. FileTypes' /\ handle'[p] = inode /\ content'[inode] = "empty"
          /\ \A q \in Processes \ {p} : handle'[q] = handle[q]
      BY <1>1, <2>3, <2>4, <2>5 DEF FileTypes, inode
    <2>7. stored # 0 => content'[stored] = content[stored]
      BY <1>1, <2>3, <2>4 DEF FileTypes
    <2>8. LastImportKept'
      BY <1>1, <2>3, <2>5, <2>6, <2>7 DEF LastImportKept, Stored
    <2>9. KeepsFiles(p, "begin")
      BY <1>2, <1>3, <2>3, <2>5, <2>6, <2>8
         DEF KeepsFiles, Writing, Importing, Undisturbed, Progress, inode
    <2> QED
      BY <2>5, <2>9, StepKeepsImports
  <1>5. ASSUME NEW step, NEW next, NEW what, at[p] = step, Goes(p, next),
               step \in Writing, next \in Writing,
               WriteTo(p, what), UNCHANGED <<unit, config, handle, stored, temporary, imported>>,
               Undisturbed(p, step) => what = Progress(p, next)
        PROVE  ImportInv'
    <2>1. handle[p] # 0 /\ handle[p] \in Inodes
      BY <1>1, <1>5 DEF ImportInv, FileTypes
    <2>2. content' = [content EXCEPT ![handle[p]] = what]
      BY <1>5 DEF WriteTo
    <2>3. FileTypes' /\ content'[handle[p]] = what
          /\ \A i \in Inodes : i # handle[p] => content'[i] = content[i]
      BY <1>1, <1>5, <2>1, <2>2 DEF FileTypes
    <2>4. LastImportKept'
      <3>1. ASSUME imported # "clash" PROVE stored # 0 => content'[stored] = content[stored]
        BY <1>1, <2>1, <2>3, <3>1 DEF LastImportKept, FileTypes
      <3> QED
        BY <1>1, <1>5, <3>1 DEF LastImportKept, Stored
    <2>5. p \notin clashed => Undisturbed(p, next)'
      <3>1. ASSUME p \notin clashed PROVE Undisturbed(p, step)
        BY <1>5, <3>1 DEF ImportInv
      <3> QED
        BY <1>5, <2>3, <3>1 DEF Undisturbed, Progress
    <2>6. KeepsFiles(p, next)
      BY <1>1, <1>3, <1>5, <2>1, <2>3, <2>4, <2>5 DEF KeepsFiles
    <2> QED
      BY <1>5, <2>6, StepKeepsImports
  <1>6. CASE BeginWriting(p)
    <2>1. at[p] = "begin" /\ Goes(p, "write") /\ "begin" \in Writing /\ "write" \in Writing
      BY <1>6 DEF BeginWriting, Writing
    <2> DEFINE what == IF content[handle[p]] = "empty" THEN p ELSE "torn"
    <2>2. WriteTo(p, what) /\ UNCHANGED <<unit, config, handle, stored, temporary, imported>>
      BY <1>6 DEF BeginWriting
    <2>3. Undisturbed(p, "begin") => what = Progress(p, "write")
      BY DEF Undisturbed, Progress
    <2> QED
      BY <1>5, <2>1, <2>2, <2>3
  <1>7. CASE FinishWriting(p)
    <2>1. at[p] = "write" /\ Goes(p, "rename") /\ "write" \in Writing /\ "rename" \in Writing
      BY <1>7 DEF FinishWriting, Writing
    <2> DEFINE what == IF content[handle[p]] = p THEN config[p] ELSE "torn"
    <2>2. WriteTo(p, what) /\ UNCHANGED <<unit, config, handle, stored, temporary, imported>>
      BY <1>7 DEF FinishWriting
    <2>3. Undisturbed(p, "write") => what = Progress(p, "rename")
      BY DEF Undisturbed, Progress
    <2> QED
      BY <1>5, <2>1, <2>2, <2>3
  <1>8. CASE Rename(p) /\ temporary = 0
    <2>1. Goes(p, "off") /\ handle' = [handle EXCEPT ![p] = 0]
          /\ UNCHANGED <<unit, config, stored, temporary, content, imported>>
      BY <1>8 DEF Rename, Ends
    <2> QED
      BY <2>1, LeavingKeepsImports
  <1>9. CASE Rename(p) /\ temporary # 0
    <2>1. Goes(p, "off") /\ handle' = [handle EXCEPT ![p] = 0] /\ at[p] = "rename"
          /\ UNCHANGED <<unit, config, content>> /\ stored' = temporary /\ temporary' = 0
          /\ imported' = IF p \in clashed THEN "clash" ELSE config[p]
      BY <1>9 DEF Rename, Ends
    <2>2. FileTypes' /\ handle'[p] = 0 /\ \A q \in Processes \ {p} : handle'[q] = handle[q]
      BY <1>1, <2>1 DEF FileTypes
    <2>3. LastImportKept'
      <3>1. SUFFICES ASSUME p \notin clashed
                     PROVE  Stored' = config[p] /\ \A q \in Processes : handle'[q] = 0
        BY <2>1 DEF LastImportKept
      <3>2. Undisturbed(p, "rename")
        BY <2>1, <3>1 DEF ImportInv, Writing
      <3>3. content[temporary] = config[p]
        BY <3>2 DEF Undisturbed, Progress
      <3>4. \A q \in Processes \ {p} : at[q] \notin Importing
        BY <1>3, <3>1 DEF ImportInv
      <3>5. \A q \in Processes \ {p} : handle[q] = 0
        BY <3>4 DEF ImportInv, Writing, Importing
      <3> QED
        BY <1>9, <2>1, <2>2, <3>3, <3>5 DEF Stored
    <2>4. KeepsFiles(p, "off")
      BY <1>3, <2>1, <2>2, <2>3 DEF KeepsFiles, Writing, Importing
    <2> QED
      BY <2>1, <2>4, StepKeepsImports
  <1> QED
    BY <1>4, <1>6, <1>7, <1>8, <1>9

LEMMA ImportInvInit == Init => ImportInv
  <1> SUFFICES ASSUME Init PROVE ImportInv
    OBVIOUS
  <1>1. FileTypes /\ LastImportKept
    BY DEF Init, FileTypes, LastImportKept, Stored
  <1>2. \A q \in Processes : at[q] = "off" /\ handle[q] = 0
    BY DEF Init
  <1> QED
    BY <1>1, <1>2 DEF Init, ImportInv, Writing, Importing

LEMMA ImportInvNext == ImportInv /\ [Next]_vars => ImportInv'
  <1> SUFFICES ASSUME ImportInv, [Next]_vars PROVE ImportInv'
    OBVIOUS
  <1>1. config = [q \in Processes |-> config[q]] /\ unit \in Units \cup {None}
    BY DEF ImportInv, FileTypes
  <1>2. ASSUME NEW p \in Processes, NEW next, Goes(p, next), SameFiles, UNCHANGED config,
               at[p] \notin Importing, next \notin Importing
        PROVE  ImportInv'
    <2>1. config' = [config EXCEPT ![p] = config'[p]]
      BY <1>1, <1>2
    <2>2. at[p] \notin Writing /\ next \notin Writing
      BY <1>2 DEF Writing, Importing
    <2> QED
      BY <1>2, <2>1, <2>2, QuietStepKeepsImports
  <1>3. ASSUME NEW p \in Processes, Fail(p), at[p] \notin Importing PROVE ImportInv'
    BY <1>2, <1>3 DEF Fail, Ends, Importing
  <1>4. ASSUME NEW p \in Processes, Load(p) PROVE ImportInv'
    <2>1. CASE Fail(p)
      BY <1>3, <1>4, <2>1 DEF Load, Importing
    <2>2. CASE ~Fail(p)
      <3>1. at[p] \notin Writing /\ "discover" \notin Writing /\ "discover" \notin Importing
        BY <1>4 DEF Load, Writing, Importing
      <3>2. Goes(p, "discover") /\ SameFiles /\ config' = [config EXCEPT ![p] = Stored]
        BY <1>4, <2>2 DEF Load
      <3>3. config' = [config EXCEPT ![p] = config'[p]]
        BY <1>1, <3>2
      <3> QED
        BY <3>1, <3>2, <3>3, QuietStepKeepsImports
    <2> QED
      BY <2>1, <2>2
  <1>5. ASSUME NEW p \in Processes, StartImport(p) PROVE ImportInv'
    <2>1. at[p] \notin Writing /\ "create" \notin Writing
      BY <1>5 DEF StartImport, Writing
    <2>2. Goes(p, "create") /\ SameFiles /\ config' = [config EXCEPT ![p] = unit] /\ unit \in Units
      BY <1>1, <1>5 DEF StartImport
    <2>3. config' = [config EXCEPT ![p] = config'[p]] /\ config'[p] = unit
      BY <1>1, <2>2
    <2> QED
      BY <2>1, <2>2, <2>3, QuietStepKeepsImports
  <1>6. ASSUME NEW p \in Processes, Daemon(p), ~Load(p) PROVE ImportInv'
    <2>1. \/ Fail(p)
          \/ \E next \in Starting \cup Settling \cup {"serve", "off"} :
               Goes(p, next) /\ SameFiles /\ UNCHANGED config
      BY <1>6 DEF Daemon, StartDaemon, Discover, Look, ConnectToPath, Probe, Remove, Bind, Listen,
                  SetPermissions, Stop, Unlink, UnlinkAgain, Continue, Starting, Settling
    <2>2. at[p] \notin Importing
      BY <1>6 DEF Daemon, StartDaemon, Discover, Look, ConnectToPath, Remove, Bind, Listen,
                  SetPermissions, Stop, Unlink, UnlinkAgain, Importing
    <2>3. \A next \in Starting \cup Settling \cup {"serve", "off"} : next \notin Importing
      BY DEF Starting, Settling, Importing
    <2> QED
      BY <1>2, <1>3, <2>1, <2>2, <2>3
  <1>7. ASSUME NEW p \in Processes, WriteFails(p) \/ Kill(p) PROVE ImportInv'
    BY <1>7, LeavingKeepsImports DEF WriteFails, Kill, Ends
  <1>8. CASE Exchange
    <2>1. FileTypes' /\ LastImportKept'
      BY <1>8 DEF Exchange, fileVars, ImportInv, FileTypes, LastImportKept, Stored
    <2> QED
      BY <1>8, <2>1 DEF Exchange, fileVars, ImportInv, Undisturbed, Progress
  <1>9. CASE UNCHANGED vars
    <2>1. FileTypes' /\ LastImportKept'
      BY <1>9 DEF vars, fileVars, ImportInv, FileTypes, LastImportKept, Stored
    <2> QED
      BY <1>9, <2>1 DEF vars, fileVars, ImportInv, Undisturbed, Progress
  <1> QED
    BY <1>4, <1>5, <1>6, <1>7, <1>8, <1>9, ImportKeepsImports DEF Next, Import

(* Whatever interrupts imports (a failed write, a kill, another unit), the *)
(* dashboard that is stored is the last one imported, whole, unless two    *)
(* imports ran at once (dashboard_store.rs, save).                         *)
THEOREM LastImportsAreStored == Spec => []LastImportIsStored
  <1>1. ImportInv => LastImportIsStored
    BY DEF ImportInv, LastImportKept, LastImportIsStored
  <1> QED
    BY <1>1, ImportInvInit, ImportInvNext, PTL DEF Spec

-----------------------------------------------------------------------------
(* Starting.  What a daemon has seen at the path is still there at its next*)
(* step, as long as no other has been starting or ending with it.          *)
AsSeen ==
    \A p \in Processes :
      /\ at[p] \in {"connect", "remove"} => path # None
      /\ at[p] = "bind" => path = None

StartInv ==
    /\ ~overlap => AsSeen
    /\ imported \in Units \cup {None, "clash"}
    /\ happened \in Nat

(* What a step of p to next must see to.                                   *)
KeepsSight(p, next) ==
    /\ next \in {"connect", "remove"} => path' # None
    /\ next = "bind" => path' = None
    /\ at[p] \notin Settling => (path' = None <=> path = None)

LEMMA StepKeepsSight ==
    ASSUME SocketInv, StartInv, NEW p \in Processes, NEW next, Goes(p, next),
           ~overlap => KeepsSight(p, next)
    PROVE  ~overlap' => AsSeen'
  <1>1. at = [q \in Processes |-> at[q]] /\ (~overlap => Relies /\ AsSeen)
    BY DEF SocketInv, StartInv
  <1>2. /\ at'[p] = next
        /\ \A q \in Processes \ {p} : at'[q] = at[q]
        /\ ~overlap' => \/ ~overlap
                        \/ \A q \in Processes : at'[q] \notin Settling \cup Listening
    BY <1>1, GoesAlone
  <1>3. CASE \A q \in Processes : at'[q] \notin Settling \cup Listening
    BY <1>3 DEF AsSeen, Settling
  <1>4. CASE ~overlap
    <2>1. Relies /\ AsSeen /\ KeepsSight(p, next)
      BY <1>1, <1>4
    <2>2. ASSUME NEW q \in Processes, at'[q] \in {"connect", "remove", "bind"}
          PROVE  /\ at'[q] \in {"connect", "remove"} => path' # None
                 /\ at'[q] = "bind" => path' = None
      <3>1. CASE q = p
        BY <1>2, <2>1, <3>1 DEF KeepsSight
      <3>2. CASE q # p
        <4>1. at'[q] = at[q] /\ at[q] \in Settling
          BY <1>2, <2>2, <3>2 DEF Settling
        <4>2. at[p] \notin Settling
          BY <2>1, <3>2, <4>1 DEF Relies
        <4> QED
          BY <2>1, <4>1, <4>2 DEF KeepsSight, AsSeen
      <3> QED
        BY <3>1, <3>2
    <2> QED
      BY <2>2 DEF AsSeen
  <1> QED
    BY <1>2, <1>3, <1>4

LEMMA ActionsKeepSight ==
    ASSUME SocketInv, StartInv, NEW p \in Processes, Daemon(p) \/ Import(p) \/ Kill(p)
    PROVE  ~overlap' => AsSeen'
  <1>1. p # None /\ None # "stale" /\ (~overlap => AsSeen)
    BY DaemonStartAssumption DEF None, StartInv
  <1>2. ASSUME Ends(p) PROVE ~overlap' => AsSeen'
    <2>1. KeepsSight(p, "off")
      BY <1>1, <1>2 DEF Ends, KeepsSight
    <2> QED
      BY <1>2, <2>1, StepKeepsSight DEF Ends
  <1>3. ASSUME NEW next, Goes(p, next), UNCHANGED path, next \notin {"connect", "remove", "bind"}
        PROVE  ~overlap' => AsSeen'
    <2>1. KeepsSight(p, next)
      BY <1>3 DEF KeepsSight
    <2> QED
      BY <1>3, <2>1, StepKeepsSight
  <1>4. CASE StartDaemon(p) \/ Load(p) \/ Discover(p) \/ Listen(p) \/ SetPermissions(p)
    BY <1>2, <1>3, <1>4 DEF StartDaemon, Load, Discover, Listen, SetPermissions, Fail, Continue
  <1>5. CASE Look(p)
    <2> DEFINE next == IF path = None THEN "bind" ELSE "connect"
    <2>1. Goes(p, next) /\ KeepsSight(p, next)
      BY <1>5 DEF Look, Continue, KeepsSight
    <2> QED
      BY <2>1, StepKeepsSight
  <1>6. CASE ConnectToPath(p)
    <2>1. Fail(p) \/ (Goes(p, "remove") /\ KeepsSight(p, "remove"))
      BY <1>6 DEF ConnectToPath, Probe, Continue, KeepsSight
    <2> QED
      BY <1>2, <2>1, StepKeepsSight DEF Fail
  <1>7. CASE Remove(p)
    <2>1. Fail(p) \/ (Goes(p, "bind") /\ KeepsSight(p, "bind"))
      BY <1>7 DEF Remove, RemoveStale, KeepsSight, Settling
    <2> QED
      BY <1>2, <2>1, StepKeepsSight DEF Fail
  <1>8. CASE Bind(p)
    <2>1. Fail(p) \/ (Goes(p, "listen") /\ KeepsSight(p, "listen"))
      BY <1>8 DEF Bind, KeepsSight, Settling
    <2> QED
      BY <1>2, <2>1, StepKeepsSight DEF Fail
  <1>9. CASE Stop(p)
    <2>1. Goes(p, "closed") /\ KeepsSight(p, "closed")
      BY <1>1, <1>9 DEF Stop, KeepsSight
    <2> QED
      BY <2>1, StepKeepsSight
  <1>10. CASE Unlink(p) \/ UnlinkAgain(p)
    <2>1. PICK next \in {"unlink", "off"} : Goes(p, next) /\ KeepsSight(p, next)
      BY <1>10 DEF Unlink, UnlinkAgain, KeepsSight, Settling
    <2> QED
      BY <2>1, StepKeepsSight
  <1>11. CASE Import(p)
    BY <1>2, <1>3, <1>11
       DEF Import, StartImport, Create, BeginWriting, FinishWriting, WriteFails, Rename
  <1>12. CASE Kill(p)
    BY <1>2, <1>12 DEF Kill
  <1> QED
    BY <1>4, <1>5, <1>6, <1>7, <1>8, <1>9, <1>10, <1>11, <1>12 DEF Daemon

LEMMA StartInvInit == Init => StartInv
  BY DEF Init, StartInv, AsSeen

LEMMA StartInvNext == SocketInv /\ ImportInv /\ StartInv /\ [Next]_vars => StartInv'
  <1> SUFFICES ASSUME SocketInv, ImportInv, StartInv, [Next]_vars PROVE StartInv'
    OBVIOUS
  <1>1. happened' \in Nat
    BY DEF StartInv, Next, Daemon, Import, Exchange, Kill, Happens, vars,
           StartDaemon, Load, Discover, Look, ConnectToPath, Probe, Remove, Bind, Listen,
           SetPermissions, Stop, Unlink, UnlinkAgain, Continue, Fail,
           StartImport, Create, BeginWriting, FinishWriting, WriteFails, Rename
  <1>2. imported' \in Units \cup {None, "clash"}
    <2>1. CASE UNCHANGED imported
      BY <2>1 DEF StartInv
    <2>2. ASSUME NEW p \in Processes, Rename(p), imported' # imported
          PROVE  imported' \in Units \cup {None, "clash"}
      <3>1. at[p] \in Importing
        BY <2>2 DEF Rename, Importing
      <3>2. config[p] \in Units
        BY <3>1 DEF ImportInv
      <3> QED
        BY <2>2, <3>2 DEF Rename
    <2> QED
      BY <2>1, <2>2 DEF Next, Daemon, Import, Exchange, Kill, vars, SameFiles,
           StartDaemon, Load, Discover, Look, ConnectToPath, Probe, Remove, Bind, Listen,
           SetPermissions, Stop, Unlink, UnlinkAgain, Continue, Fail,
           StartImport, Create, BeginWriting, FinishWriting, WriteFails
  <1>3. ~overlap' => AsSeen'
    <2>1. CASE Exchange \/ UNCHANGED vars
      BY <2>1 DEF Exchange, vars, StartInv, AsSeen
    <2> QED
      BY <2>1, ActionsKeepSight DEF Next
  <1> QED
    BY <1>1, <1>2, <1>3 DEF StartInv

(* The process that ends by itself while it starts is the one that acts,   *)
(* and found what it could not go on with.                                 *)
LEMMA FailureHasCause ==
    ASSUME SocketInv, ImportInv, StartInv, Next, NEW p \in Processes,
           at[p] \in Starting, at'[p] = "off", happened' = happened
    PROVE  FailsForCause(p)
  <1>1. at = [q \in Processes |-> at[q]] /\ p # None /\ (~overlap => Relies /\ AsSeen)
    BY DaemonStartAssumption DEF SocketInv, StartInv
  <1>2. happened \in Nat /\ imported \in Units \cup {None, "clash"}
    BY DEF StartInv
  <1>3. at[p] # "off" /\ ~Exchange
    BY DEF Starting, Exchange
  <1>4. ASSUME NEW q \in Processes, NEW next, Goes(q, next) PROVE q = p /\ next = "off"
    <2>1. at'[q] = next /\ \A r \in Processes \ {q} : at'[r] = at[r]
      BY <1>1, <1>4, GoesAlone
    <2> QED
      BY <1>3, <2>1
  <1>5. PICK q \in Processes : Daemon(q) \/ Import(q) \/ Kill(q)
    BY <1>3 DEF Next
  <1>6. ~Kill(q)
    BY <1>2 DEF Kill, Happens
  <1>7. ASSUME Import(q) PROVE FALSE
    <2>1. PICK next : Goes(q, next)
      BY <1>7 DEF Import, StartImport, Create, BeginWriting, FinishWriting, WriteFails, Rename, Ends
    <2>2. q = p
      BY <1>4, <2>1
    <2> QED
      BY <1>3, <1>7, <2>2
         DEF Import, StartImport, Create, BeginWriting, FinishWriting, WriteFails, Rename, Starting
  <1>8. Daemon(q)
    BY <1>5, <1>6, <1>7
  <1>9. ASSUME NEW next, Continue(q, next) PROVE q = p /\ next = "off"
    BY <1>4, <1>9 DEF Continue
  <1>10. ASSUME Fail(q) PROVE q = p
    BY <1>4, <1>10 DEF Fail, Ends
  <1>11. CASE StartDaemon(q) \/ Stop(q) \/ Unlink(q) \/ UnlinkAgain(q)
    <2>1. PICK next : Goes(q, next)
      BY <1>11 DEF StartDaemon, Stop, Unlink, UnlinkAgain
    <2>2. q = p
      BY <1>4, <2>1
    <2> QED
      BY <1>3, <1>11, <2>2 DEF StartDaemon, Stop, Unlink, UnlinkAgain, Starting
  <1>12. CASE Load(q)
    <2>1. Fail(q) /\ Stored \notin Units \cup {None}
      BY <1>4, <1>12 DEF Load
    <2>2. imported = "clash"
      BY <1>2, <2>1 DEF ImportInv, LastImportKept
    <2> QED
      BY <2>2 DEF FailsForCause
  <1>13. CASE Discover(q)
    BY <1>9, <1>10, <1>13 DEF Discover, FailsForCause
  <1>14. CASE Look(q)
    BY <1>9, <1>14 DEF Look
  <1>15. CASE ConnectToPath(q)
    <2>1. q = p /\ at[p] = "connect"
          /\ (path = None \/ (path \in Processes /\ at[path] \in Listening))
      BY <1>9, <1>10, <1>15 DEF ConnectToPath, Probe
    <2>2. path = None \/ path # p
      BY <2>1 DEF Listening
    <2>3. CASE path = None
      BY <1>1, <2>1, <2>3 DEF AsSeen, FailsForCause
    <2> QED
      BY <2>1, <2>2, <2>3 DEF FailsForCause
  <1>16. CASE Remove(q)
    <2>1. path = None /\ q = p /\ at[p] = "remove"
      BY <1>4, <1>10, <1>16 DEF Remove
    <2> QED
      BY <1>1, <2>1 DEF AsSeen, FailsForCause
  <1>17. CASE Bind(q)
    <2>1. path # None /\ q = p /\ at[p] = "bind"
      BY <1>4, <1>10, <1>17 DEF Bind
    <2> QED
      BY <1>1, <2>1 DEF AsSeen, FailsForCause
  <1>18. CASE Listen(q)
    BY <1>9, <1>18 DEF Listen
  <1>19. CASE SetPermissions(q)
    <2>1. path = None /\ q = p /\ at[p] = "chmod"
      BY <1>9, <1>10, <1>19 DEF SetPermissions
    <2> QED
      BY <1>1, <2>1 DEF Relies, Listening, FailsForCause
  <1> QED
    BY <1>8, <1>11, <1>12, <1>13, <1>14, <1>15, <1>16, <1>17, <1>18, <1>19 DEF Daemon

(* A daemon that ends while it starts has a reason that is there to be     *)
(* seen: what killed daemons and interrupted imports leave behind, a stale *)
(* socket or half a temporary file, is never one (remove_stale_socket,     *)
(* save, load_dashboard).                                                  *)
THEOREM StartsFailForCause == Spec => StartsUnlessPrevented
  <1>1. Init => SocketInv /\ ImportInv /\ StartInv
    BY SocketInvInit, ImportInvInit, StartInvInit
  <1>2. SocketInv /\ ImportInv /\ StartInv /\ [Next]_vars
          => (SocketInv /\ ImportInv /\ StartInv)'
    BY SocketInvNext, ImportInvNext, StartInvNext
  <1>3. SocketInv /\ ImportInv /\ StartInv /\ [Next]_vars =>
          [\A p \in Processes :
             at[p] \in Starting /\ at'[p] = "off" /\ happened' = happened => FailsForCause(p)]_vars
    BY FailureHasCause
  <1> QED
    BY <1>1, <1>2, <1>3, PTL DEF Spec, StartsUnlessPrevented
=============================================================================
