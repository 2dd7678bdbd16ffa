------------------------- MODULE ProfileStoreProofs -------------------------
(***************************************************************************)
(* The profile store of ProfileStore.tla, proved for any names, any kinds  *)
(* of writable value that are not arrays, and any number of saves, kills   *)
(* and power losses.                                                       *)
(***************************************************************************)
EXTENDS ProfileStore, TLAPS

(* What the constants are, a fact at a time.                               *)
LEMMA ConstantFacts ==
    /\ Absent \notin Profile
    /\ "array" \notin WritableKinds
    /\ WritableKinds \subseteq Kinds
    /\ MaxSaves \in Nat /\ MaxCrashes \in Nat
  BY StoreAssumption

(* A file that holds a whole table gives that table back.                  *)
LEMMA WholeFiles ==
    ASSUME NEW table \in Table
    PROVE  /\ Whole(table) \in File
           /\ Loaded(Whole(table)) = table
           /\ Encodable(table) => Loads(Whole(table))
  BY DEF Whole, File, Loaded, Loads

(* A missing file is a readable file, and gives the empty table.           *)
LEMMA MissingFile ==
    /\ NoFile \in File /\ Torn \in File
    /\ Loads(NoFile)
    /\ Loaded(NoFile) = Empty
    /\ Empty \in Table
    /\ Encodable(Empty)
<1>1. NoFile.is = "missing" /\ "missing" # "whole"
  BY DEF NoFile
<1> QED
  BY <1>1 DEF File, Loads, Loaded, Empty, Table, Encodable

(* What a file gives is a table, and one that can be encoded if it loads.  *)
LEMMA LoadedTyped ==
    ASSUME NEW file \in File
    PROVE  /\ Loaded(file) \in Table
           /\ Loads(file) => Encodable(Loaded(file))
<1>1. CASE file = NoFile
  BY <1>1, MissingFile
<1>2. CASE file = Torn
  <2>1. file.is = "torn" /\ file # NoFile
    BY <1>2 DEF Torn, NoFile
  <2> QED
    BY <2>1, MissingFile DEF Loaded, Loads
<1>3. CASE \E table \in Table : file = Whole(table)
  <2>1. PICK table \in Table : file = Whole(table)
    BY <1>3
  <2>2. file.is = "whole" /\ file.table = table /\ NoFile.is = "missing"
    BY <2>1 DEF Whole, NoFile
  <2>3. file # NoFile
    BY <2>2
  <2> QED
    BY <2>1, <2>2, <2>3 DEF Loaded, Loads
<1> QED
  BY <1>1, <1>2, <1>3 DEF File

(* What a save puts into the table can be encoded.                         *)
LEMMA SavedTableEncodable ==
    ASSUME NEW table \in Table, Encodable(table), NEW name \in Names, ValidName(name),
           NEW held \in SUBSET Kinds
    PROVE  LET new == [table EXCEPT ![name] = Captured(held)]
           IN  new \in Table /\ Encodable(new)
<1>1. Captured(held) \in Profile /\ "array" \notin Captured(held).kinds
  BY ConstantFacts DEF Captured, Profile
<1> QED
  BY <1>1 DEF Table, Encodable, ValidName

-----------------------------------------------------------------------------
(* The inductive invariant: every table there is can be encoded, and where *)
(* the save stands says what the two files hold.                           *)
Readable ==
    /\ Encodable(memory) /\ Encodable(before) /\ Encodable(answered)
    /\ path \in recoverable
    /\ \A file \in recoverable : Loads(file)

InStep ==
    /\ at \in {"sync", "rename"} => tmp = Whole(memory)
    /\ at \in {"create", "write", "sync", "rename"} =>
          Loaded(path) = answered /\ before = answered
    /\ at = "answer" => Loaded(path) = memory
    /\ at = "ready" => Loaded(path) = memory /\ answered = memory
    /\ at = "down" => powerLost \/ Loaded(path) \in {answered, memory}
    /\ at # "down" => ~powerLost

StoreInv == TypeOK /\ Readable /\ InStep

(* A fresh daemon without a store has the invariant.                       *)
LEMMA InitStore ==
    ASSUME Init
    PROVE  StoreInv
<1>1. TypeOK
  BY MissingFile DEF Init, TypeOK
<1>2. Readable
  BY MissingFile DEF Init, Readable
<1>3. InStep
  BY MissingFile DEF Init, InStep
<1> QED
  BY <1>1, <1>2, <1>3 DEF StoreInv

(* Every step of the daemon, the kernel and the machine keeps it.          *)
LEMMA NextStore ==
    ASSUME StoreInv, [Next]_vars
    PROVE  StoreInv'
<1> USE DEF StoreInv
<1>1. CASE Save
  <2>1. PICK name \in Names, held \in SUBSET Kinds :
          /\ ValidName(name)
          /\ memory' = [memory EXCEPT ![name] = Captured(held)]
    BY <1>1 DEF Save
  <2>2. /\ at = "ready" /\ at' = "create" /\ before' = memory /\ saves' = saves + 1
        /\ UNCHANGED <<path, tmp, synced, recoverable, answered, powerLost, crashes>>
    BY <1>1 DEF Save, fileVars
  <2>3. memory' \in Table /\ Encodable(memory')
    BY <2>1, SavedTableEncodable DEF TypeOK, Readable
  <2>4. TypeOK'
    BY <2>2, <2>3 DEF TypeOK, Saving
  <2>5. Readable'
    BY <2>2, <2>3 DEF Readable
  <2>6. InStep'
    BY <2>2 DEF InStep
  <2> QED
    BY <2>4, <2>5, <2>6
<1>2. CASE Create
  <2>1. /\ at = "create" /\ at' = "write" /\ tmp' = Torn /\ synced' = FALSE
        /\ UNCHANGED <<path, recoverable, memory, before, answered, powerLost, saves, crashes>>
    BY <1>2 DEF Create, countVars
  <2>2. TypeOK'
    BY <2>1, MissingFile DEF TypeOK, Saving
  <2> QED
    BY <2>1, <2>2 DEF Readable, InStep
<1>3. CASE Write
  <2>1. /\ at = "write" /\ at' = "sync" /\ tmp' = Whole(memory)
        /\ UNCHANGED <<path, synced, recoverable, memory, before, answered, powerLost,
                       saves, crashes>>
    BY <1>3 DEF Write, countVars
  <2>2. TypeOK'
    BY <2>1, WholeFiles DEF TypeOK, Saving
  <2> QED
    BY <2>1, <2>2 DEF Readable, InStep, Whole
<1>4. CASE Sync
  <2>1. /\ at = "sync" /\ at' = "rename" /\ synced' = TRUE
        /\ UNCHANGED <<path, tmp, recoverable, memory, before, answered, powerLost,
                       saves, crashes>>
    BY <1>4 DEF Sync, countVars
  <2>2. TypeOK'
    BY <2>1 DEF TypeOK, Saving
  <2> QED
    BY <2>1, <2>2 DEF Readable, InStep, Whole
<1>5. CASE Rename
  <2>1. /\ at = "rename" /\ at' = "answer" /\ path' = tmp /\ tmp' = NoFile
        /\ UNCHANGED <<synced, memory, before, answered, powerLost, saves, crashes>>
    BY <1>5 DEF Rename, countVars
  <2>2. synced /\ tmp = Whole(memory) /\ memory \in Table
    BY <2>1 DEF TypeOK, InStep
  <2>3. recoverable' = recoverable \cup {tmp}
    BY <1>5, <2>2 DEF Rename
  <2>4. Loads(tmp) /\ Loaded(tmp) = memory /\ tmp \in File
    BY <2>2, WholeFiles DEF Readable
  <2>5. TypeOK'
    BY <2>1, <2>3, <2>4, MissingFile DEF TypeOK, Saving
  <2>6. Readable'
    BY <2>1, <2>3, <2>4 DEF Readable
  <2>7. InStep'
    BY <2>1, <2>4 DEF InStep
  <2> QED
    BY <2>5, <2>6, <2>7
<1>6. CASE Answer
  <2>1. /\ at = "answer" /\ at' = "ready" /\ answered' = memory
        /\ UNCHANGED <<path, tmp, synced, recoverable, memory, before, powerLost,
                       saves, crashes>>
    BY <1>6 DEF Answer, countVars, fileVars
  <2>2. TypeOK'
    BY <2>1 DEF TypeOK, Saving
  <2> QED
    BY <2>1, <2>2 DEF Readable, InStep
<1>7. CASE Fails
  <2>1. /\ at \in {"create", "write", "sync", "rename"} /\ at' = "ready"
        /\ memory' = before /\ answered' = before
        /\ UNCHANGED <<path, tmp, synced, recoverable, before, powerLost, saves, crashes>>
    BY <1>7 DEF Fails, countVars, fileVars, Saving
  <2>2. TypeOK'
    BY <2>1 DEF TypeOK, Saving
  <2> QED
    BY <2>1, <2>2 DEF Readable, InStep
<1>8. CASE Start
  <2>1. /\ at = "down" /\ at' = "ready" /\ powerLost' = FALSE
        /\ memory' = Loaded(path) /\ answered' = Loaded(path) /\ Loads(path)
        /\ UNCHANGED <<path, tmp, synced, recoverable, before, saves, crashes>>
    BY <1>8 DEF Start, countVars, fileVars
  <2>2. Loaded(path) \in Table /\ Encodable(Loaded(path))
    BY <2>1, LoadedTyped DEF TypeOK
  <2>3. TypeOK'
    BY <2>1, <2>2 DEF TypeOK, Saving
  <2> QED
    BY <2>1, <2>2, <2>3 DEF Readable, InStep
<1>9. CASE Stop \/ Kill
  <2>1. /\ at # "down" /\ at' = "down" /\ crashes' \in Nat
        /\ UNCHANGED <<path, tmp, synced, recoverable, memory, before, answered, powerLost, saves>>
    BY <1>9 DEF Stop, Kill, countVars, fileVars, Saving, TypeOK
  <2>2. TypeOK'
    BY <2>1 DEF TypeOK, Saving
  <2>3. Loaded(path) \in {answered, memory}
    BY <2>1 DEF InStep, TypeOK, Saving
  <2> QED
    BY <2>1, <2>2, <2>3 DEF Readable, InStep
<1>10. CASE PowerLoss
  <2>1. /\ at' = "down" /\ powerLost' = TRUE /\ crashes' \in Nat
        /\ path' \in recoverable /\ recoverable' = {path'} /\ tmp' \in {NoFile, Torn, tmp}
        /\ UNCHANGED <<synced, memory, before, answered, saves>>
    BY <1>10 DEF PowerLoss, TypeOK
  <2>2. TypeOK'
    BY <2>1, MissingFile DEF TypeOK, Saving
  <2> QED
    BY <2>1, <2>2 DEF Readable, InStep
<1>11. CASE Flush
  <2>1. /\ recoverable' = {path}
        /\ UNCHANGED <<path, tmp, synced, at, memory, before, answered, powerLost,
                       saves, crashes>>
    BY <1>11 DEF Flush, countVars
  <2>2. TypeOK'
    BY <2>1 DEF TypeOK
  <2> QED
    BY <2>1, <2>2 DEF Readable, InStep
<1>12. CASE UNCHANGED vars
  <2>1. UNCHANGED <<path, tmp, synced, recoverable, at, memory, before, answered, powerLost,
                    saves, crashes>>
    BY <1>12 DEF vars, fileVars, countVars
  <2>2. TypeOK'
    BY <2>1 DEF TypeOK
  <2> QED
    BY <2>1, <2>2 DEF Readable, InStep
<1> QED
  BY <1>1, <1>2, <1>3, <1>4, <1>5, <1>6, <1>7, <1>8, <1>9, <1>10, <1>11, <1>12 DEF Next

(* The invariant holds in every state.                                     *)
THEOREM StoreIsInStep == Spec => []StoreInv
  BY InitStore, NextStore, PTL DEF Spec

(* The store's variables are well typed.                                   *)
THEOREM StoreTyped == Spec => []TypeOK
  BY StoreIsInStep, PTL DEF StoreInv

(* The store loads, now and after a power loss at this moment.             *)
THEOREM StoreLoads == Spec => []StoreAlwaysLoads
<1>1. StoreInv => StoreAlwaysLoads
  BY DEF StoreInv, Readable, StoreAlwaysLoads
<1> QED
  BY <1>1, StoreIsInStep, PTL

(* A restart brings back what was answered last, or the save it interrupted. *)
THEOREM AnsweredSavesSurvive == Spec => []AnsweredSavesAreStored
<1>1. StoreInv => AnsweredSavesAreStored
  BY DEF StoreInv, InStep, AnsweredSavesAreStored, TypeOK, Saving
<1> QED
  BY <1>1, StoreIsInStep, PTL

(* A save that fails is undone in memory and in the store alike.           *)
THEOREM FailedSavesAreUndone == Spec => []MemoryIsStored
<1>1. StoreInv => MemoryIsStored
  BY DEF StoreInv, InStep, MemoryIsStored
<1> QED
  BY <1>1, StoreIsInStep, PTL
=============================================================================
