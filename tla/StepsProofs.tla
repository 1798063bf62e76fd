----------------------------- MODULE StepsProofs -----------------------------
(***************************************************************************)
(* What holds of gate, apply and rollback as file operations, for every    *)
(* set of changes and files and any number of kills, when commands run one *)
(* after the other.                                                        *)
(*                                                                         *)
(* Commands that overlap each write back the state.json they had read, and *)
(* the later one undoes the earlier: that is why the theorems assume one   *)
(* process.                                                                *)
(***************************************************************************)
EXTENDS ExecutorSteps, WellFoundedInduction, SequenceTheorems, FiniteSetTheorems, TLAPS
-----------------------------------------------------------------------------
\* Positions in a sequence.

\* The last of a set of positions.
LastOf(S) == CHOOSE i \in S : \A j \in S : j <= i

\* A nonempty set of positions has a last one.
LEMMA LastExists ==
    ASSUME NEW n \in Nat, NEW S \in SUBSET (1 .. n), S # {}
    PROVE  LastOf(S) \in S /\ \A j \in S : j <= LastOf(S)
<1> DEFINE T == {n - i : i \in S}
           Less == {ss \in Nat \X Nat : ss[1] < ss[2]}
<1>1. T \subseteq Nat /\ T # {}
    <2>1. \A i \in S : i \in 1 .. n /\ n - i \in Nat
        OBVIOUS
    <2>2. QED BY <2>1
<1>2. PICK m \in T : \A k \in T : <<k, m>> \notin Less
    <2>1. IsWellFoundedOn(Less, Nat)
        BY NatLessThanWellFounded DEF OpToRel
    <2> HIDE DEF Less
    <2>2. QED BY <1>1, <2>1, WFMin
<1>3. ASSUME NEW k \in T PROVE m <= k
    <2>1. k \in Nat /\ m \in Nat /\ <<k, m>> \in Nat \X Nat
        BY <1>1
    <2>2. ~(k < m)
        BY <1>2, <2>1
    <2>3. QED BY <2>1, <2>2
<1>4. PICK i \in S : m = n - i
    OBVIOUS
<1>5. ASSUME NEW j \in S PROVE j <= i
    <2>1. n - j \in T
        OBVIOUS
    <2>2. m <= n - j
        BY <1>3, <2>1
    <2> HIDE DEF T
    <2>3. QED BY <1>4, <2>2
<1>6. QED BY <1>5 DEF LastOf
-----------------------------------------------------------------------------
\* Files and payloads.

\* Writing some files gives files.
LEMMA WrittenType ==
    ASSUME NEW fs \in [Paths -> FileState], NEW changes \in PartialFiles
    PROVE  Written(fs, changes) \in [Paths -> FileState]
BY DEF Written, PartialFiles

LEMMA NoTargetsType == NoTargets \in PartialFiles
<1>1. NoTargets \in [{} -> FileState]
    BY DEF NoTargets
<1>2. QED BY <1>1 DEF PartialFiles

\* A target that some patch has is the target of a last one.
LEMMA LastPatchExists ==
    ASSUME NEW patches \in Seq(FilePatch), NEW t \in PatchTargets(patches)
    PROVE  LastPatchOf(patches, t) \in DOMAIN patches
<1> DEFINE S == {j \in 1 .. Len(patches) : PatchTarget(patches[j]) = t}
<1>1. Len(patches) \in Nat /\ DOMAIN patches = 1 .. Len(patches) /\ S # {}
    BY DEF PatchTargets
<1>2. LastOf(S) \in S /\ \A j \in S : j <= LastOf(S)
    BY <1>1, LastExists
<1>3. QED BY <1>1, <1>2 DEF LastPatchOf

\* What a payload that applies leaves in each target is a file.
LEMMA ResultsType ==
    ASSUME NEW payload \in PayloadRecord, NEW targets \in SUBSET Paths,
           NEW fs \in [Paths -> FileState],
           PayloadApplies(payload, targets, fs)
    PROVE  PayloadResults(payload, targets, fs) \in [targets -> FileState]
<1>1. SUFFICES ASSUME NEW t \in targets
      PROVE  PayloadResults(payload, targets, fs)[t] \in FileState
    BY DEF PayloadResults
<1>2. CASE payload.type = "diff"
    <2> DEFINE patches == payload.patches
               last == LastPatchOf(patches, t)
    <2>1. /\ patches \in Seq(FilePatch)
          /\ PatchTargets(patches) = targets
          /\ \A i \in DOMAIN patches : PatchResult(patches[i], fs) # Mismatch
        BY <1>2 DEF PayloadApplies, DiffApplies, PayloadRecord
    <2>2. last \in DOMAIN patches
        BY <2>1, LastPatchExists
    <2>3. patches[last] \in FilePatch
        BY <2>1, <2>2
    <2>4. PatchResult(patches[last], fs) # Mismatch
        BY <2>1, <2>2
    <2>5. PatchResult(patches[last], fs) \in FileState \cup {Mismatch}
        <3> DEFINE patch == patches[last]
        <3>1. patch \in FilePatch
            BY <2>3
        <3> HIDE DEF patch
        <3>2. fs[PatchSource(patch)] \in FileState
            BY <3>1 DEF FilePatch, FilePatchRecord, PatchSource, PatchTarget
        <3>3. QED BY <3>1, <3>2 DEF FilePatch, FilePatchRecord, PatchResult, patch
    <2>6. PayloadResults(payload, targets, fs)[t] = PatchResult(patches[last], fs)
        BY <1>2 DEF PayloadResults
    <2>7. QED BY <2>4, <2>5, <2>6
<1>3. CASE payload.type # "diff"
    BY <1>3 DEF PayloadResults, PayloadApplies, FolderApplies, PayloadRecord
<1>4. QED BY <1>2, <1>3
-----------------------------------------------------------------------------
\* One process.

\* The one process.
Solo == CHOOSE p \in Processes : TRUE

OneProcess == Processes = {Solo}

me == proc[Solo]

Events == {"gated", "queued", "suggested", "applied", "rejected", "rolled_back"}

Statuses ==
    {"VALIDATED", "GATE_APPROVED", "QUEUED", "SUGGESTED", "APPLIED", "REJECTED", "ROLLED_BACK"}

Saves(c) == [Targets(c) -> FileState]

StateFiles ==
    [status : [ChangeSets -> Statuses], heads : [Paths -> FileState], level : 0 .. 3,
     vouched : Nat]

Entries ==
    [event : Events \cup {"policy_changed"}, cs : ChangeSets \cup {NoChangeSet},
     before : PartialFiles, after : PartialFiles]

Working ==
    [pc : {"snapshot", "write", "restore", "append", "save", "ratchet", "level"},
     cs : ChangeSets, event : Events, db : StateFiles, todo : SUBSET Paths,
     new : PartialFiles, before : PartialFiles, after : PartialFiles]

TypeInv ==
    /\ files \in [Paths -> FileState]
    /\ DOMAIN snapshot = ChangeSets
    /\ \A c \in ChangeSets : snapshot[c] # NoSnapshot => snapshot[c] \in Saves(c)
    /\ journal \in Seq(Entries)
    /\ db \in StateFiles /\ db.level <= InitialLevel
    /\ DOMAIN proc = Processes
    /\ me.pc # "idle" => me \in Working
    /\ crashes \in Nat

\* Before its command has saved state.json, a process has what stands there.
Reading == {"snapshot", "write", "restore", "append", "save"}

\* What the command under way has read and done.
CommandInv ==
    me.pc # "idle" =>
        /\ me.todo \subseteq Targets(me.cs)
        /\ me.before \in Saves(me.cs)
        /\ me.pc \in Reading =>
            /\ me.db = db
            /\ db.status[me.cs] = IF me.event = "rolled_back" THEN "APPLIED"
                                  ELSE IF me.event \in {"applied", "rejected"}
                                  THEN "GATE_APPROVED" ELSE "VALIDATED"
        /\ me.pc = "level" => db.level > 0 /\ me.db = [db EXCEPT !.level = db.level - 1]
        /\ me.pc \in {"snapshot", "write"} => me.event = "applied"
        /\ me.pc = "restore" => me.event \in {"rejected", "rolled_back"}
        /\ me.pc = "snapshot" => me.before = Image(files, Targets(me.cs))
        /\ me.pc = "write" => me.new \in Saves(me.cs)
        /\ me.pc \in {"write", "append", "save"} /\ me.event = "applied" =>
            me.before = snapshot[me.cs]
        /\ me.pc = "restore" => /\ snapshot[me.cs] \in Saves(me.cs)
                                /\ \A t \in Targets(me.cs) \ me.todo :
                                    files[t] = snapshot[me.cs][t]
        /\ me.pc \in {"append", "save"} /\ me.event \in ContentEvents =>
            /\ me.after = Image(files, Targets(me.cs))
            /\ me.event = "rolled_back" => me.after = snapshot[me.cs]

Applied(c) == {i \in DOMAIN journal : journal[i].cs = c /\ journal[i].event = "applied"}

\* The snapshot of an applied change is what its newest application journaled.
SnapshotInv ==
    \A c \in ChangeSets :
        \/ db.status[c] = "APPLIED"
        \/ me.pc = "save" /\ me.event = "applied" /\ me.cs = c
        => /\ Applied(c) # {}
           /\ snapshot[c] \in Saves(c)
           /\ snapshot[c] = journal[Newest(Applied(c))].before

\* A rollback that is journaled and has not lowered the level yet.
Owed ==
    IF \/ me.pc = "save" /\ me.event = "rolled_back"
       \/ me.pc \in {"ratchet", "level"}
    THEN 1 ELSE 0

LevelInv ==
    db.level > 0 =>
        Cardinality(Rollbacks) - (OnRollbacks - 1) <= InitialLevel - db.level + crashes + Owed

\* Until the first kill, the journal tells what is in the files but for the targets of
\* the command under way, and state.json lags behind one entry at most.
Moved == IF me.event \in ContentEvents THEN me.after ELSE NoTargets

StatusesTold ==
    \A c \in ChangeSets : JournalStatus(c) =
        IF me.pc = "save" /\ c = me.cs THEN StatusAfter[me.event] ELSE db.status[c]

StateTold ==
    /\ me.pc \notin {"save", "level"} => db.vouched = Len(journal)
    /\ me.pc = "save" => db.vouched # Len(journal)
    /\ JournalFiles = Written(db.heads, IF me.pc = "save" THEN Moved
                                        ELSE NoTargets)

FilesTold ==
    /\ me.pc \in {"write", "restore", "append"} =>
        /\ me.before = Image(JournalFiles, Targets(me.cs))
        /\ \A t \in Paths \ Targets(me.cs) : files[t] = JournalFiles[t]
    /\ me.pc = "restore" /\ me.event = "rejected" => snapshot[me.cs] = me.before
    /\ me.pc \notin {"write", "restore"} =>
        files = Written(JournalFiles, IF me.pc = "append" THEN Moved
                                      ELSE NoTargets)

AgreeInv == crashes = 0 => StatusesTold /\ StateTold /\ FilesTold

\* Until the first kill, state.json is cut off only while a command writes it.
TornInv == crashes = 0 /\ torn => me.pc \in {"save", "level"}
-----------------------------------------------------------------------------
\* Steps.

LEMMA SoloRuns == ASSUME OneProcess PROVE Solo \in Processes /\ \A p \in Processes : p = Solo
BY DEF OneProcess

\* All that the steps change but for the cut-off state.json.
told == <<files, snapshot, journal, db, proc, crashes>>

\* What the one process can do.
LEMMA SoloSteps ==
    ASSUME OneProcess, [Next]_vars
    PROVE  \/ \E c \in ChangeSets :
                StartGate(Solo, c) \/ StartApply(Solo, c) \/ StartRollback(Solo, c)
           \/ TakeSnapshot(Solo) \/ WriteTarget(Solo) \/ Revert(Solo)
           \/ RestoreTarget(Solo) \/ Settle(Solo) \/ AppendEntry(Solo)
           \/ Save(Solo) \/ Ratchet(Solo) \/ SaveLevel(Solo)
           \/ Crash(Solo)
           \/ UNCHANGED told
<1>1. Truncate(Solo) \/ UNCHANGED vars => UNCHANGED told
    BY DEF Truncate, told, vars
<1>2. QED BY <1>1, SoloRuns DEF Next, Step

\* A command that has read state.json and its targets.
Started(c, pc, event) ==
    [pc |-> pc, cs |-> c, event |-> event, db |-> db, todo |-> Targets(c),
     new |-> NoTargets, before |-> Image(files, Targets(c)), after |-> NoTargets]

\* What each step does to the process, and to the files.
LEMMA BeginProcess ==
    ASSUME OneProcess, DOMAIN proc = Processes, NEW c, NEW pc, NEW event,
           Begin(Solo, c, pc, event)
    PROVE  me.pc = "idle" /\ me' = Started(c, pc, event) /\ DOMAIN proc' = Processes
BY SoloRuns DEF Begin, Started, At, me

LEMMA IdleProcess ==
    ASSUME OneProcess, DOMAIN proc = Processes, Idle(Solo)
    PROVE  me'.pc = "idle" /\ DOMAIN proc' = Processes
BY SoloRuns DEF Idle, me

LEMMA SnapshotProcess ==
    ASSUME OneProcess, DOMAIN proc = Processes, TakeSnapshot(Solo)
    PROVE  /\ me.pc = "snapshot" /\ DOMAIN proc' = Processes
           /\ IF PayloadApplies(Changes[me.cs].payload, Targets(me.cs), files)
              THEN me' = [me EXCEPT !.pc = "write",
                    !.new = PayloadResults(Changes[me.cs].payload, Targets(me.cs), files)]
              ELSE me' = [me EXCEPT !.pc = "restore", !.event = "rejected"]
BY SoloRuns DEF TakeSnapshot, At, me

LEMMA WriteProcess ==
    ASSUME OneProcess, DOMAIN proc = Processes, WriteTarget(Solo)
    PROVE  /\ me.pc = "write" /\ DOMAIN proc' = Processes
           /\ \E t \in me.todo : /\ me' = [me EXCEPT !.todo = me.todo \ {t}]
                                 /\ files' = [files EXCEPT ![t] = me.new[t]]
BY SoloRuns DEF WriteTarget, At, me

LEMMA RevertProcess ==
    ASSUME OneProcess, DOMAIN proc = Processes, Revert(Solo)
    PROVE  /\ me.pc = "write" /\ DOMAIN proc' = Processes
           /\ me' = [me EXCEPT !.pc = "restore", !.event = "rejected", !.todo = Targets(me.cs)]
BY SoloRuns DEF Revert, At, me

LEMMA RestoreProcess ==
    ASSUME OneProcess, DOMAIN proc = Processes, RestoreTarget(Solo)
    PROVE  /\ me.pc = "restore" /\ DOMAIN proc' = Processes
           /\ \E t \in me.todo : /\ me' = [me EXCEPT !.todo = me.todo \ {t}]
                                 /\ files' = [files EXCEPT ![t] = snapshot[me.cs][t]]
BY SoloRuns DEF RestoreTarget, At, me

LEMMA SettleProcess ==
    ASSUME OneProcess, DOMAIN proc = Processes, Settle(Solo)
    PROVE  /\ me.pc \in {"write", "restore"} /\ me.todo = {} /\ DOMAIN proc' = Processes
           /\ me' = [me EXCEPT !.pc = "append", !.after = Image(files, Targets(me.cs))]
BY SoloRuns DEF Settle, At, me

LEMMA AppendProcess ==
    ASSUME OneProcess, DOMAIN proc = Processes, AppendEntry(Solo)
    PROVE  /\ me.pc = "append" /\ DOMAIN proc' = Processes
           /\ me' = [me EXCEPT !.pc = "save"]
BY SoloRuns DEF AppendEntry, At, me

LEMMA SaveProcess ==
    ASSUME OneProcess, DOMAIN proc = Processes, Save(Solo)
    PROVE  /\ me.pc = "save" /\ DOMAIN proc' = Processes
           /\ IF me.event = "rolled_back" THEN me' = [me EXCEPT !.pc = "ratchet"]
              ELSE me'.pc = "idle"
<1>1. me.event = "rolled_back" =>
        me' = [me EXCEPT !.pc = "ratchet"] /\ DOMAIN proc' = Processes
    BY SoloRuns DEF Save, me
<1>2. me.event # "rolled_back" => Idle(Solo)
    BY DEF Save, me
<1>3. QED BY <1>1, <1>2, IdleProcess DEF Save, At, me

LEMMA RatchetProcess ==
    ASSUME OneProcess, DOMAIN proc = Processes, Ratchet(Solo)
    PROVE  /\ me.pc = "ratchet" /\ DOMAIN proc' = Processes
           /\ IF Cardinality(Rollbacks) >= OnRollbacks /\ db.level > 0
              THEN me' = [me EXCEPT !.pc = "level",
                                    !.db = [db EXCEPT !.level = db.level - 1]]
              ELSE me'.pc = "idle"
<1>1. Cardinality(Rollbacks) >= OnRollbacks /\ db.level > 0 =>
        /\ DOMAIN proc' = Processes
        /\ me' = [me EXCEPT !.pc = "level", !.db = [db EXCEPT !.level = db.level - 1]]
    BY SoloRuns DEF Ratchet, me
<1>2. ~(Cardinality(Rollbacks) >= OnRollbacks /\ db.level > 0) => Idle(Solo)
    BY DEF Ratchet
<1>3. QED BY <1>1, <1>2, IdleProcess DEF Ratchet, At, me
-----------------------------------------------------------------------------
\* Types, and the command under way.

LEMMA ChangeFacts ==
    ASSUME NEW c \in ChangeSets
    PROVE  /\ Targets(c) \in SUBSET Paths
           /\ Changes[c].payload \in PayloadRecord
           /\ c # NoChangeSet
           /\ \A saved \in Saves(c) : saved \in PartialFiles /\ saved # NoSnapshot
                                      /\ DOMAIN saved = Targets(c)
           /\ \A fs \in [Paths -> FileState] : Image(fs, Targets(c)) \in Saves(c)
<1>1. Targets(c) \in SUBSET Paths
    BY StepsAssumption DEF Targets
<1>2. \A saved \in Saves(c) : saved \in PartialFiles
    BY <1>1 DEF Saves, PartialFiles
<1>3. \A fs \in [Paths -> FileState] : Image(fs, Targets(c)) \in Saves(c)
    BY <1>1 DEF Saves, Image
<1>4. \A saved \in Saves(c) : DOMAIN saved = Targets(c)
    BY DEF Saves
<1>5. QED BY <1>1, <1>2, <1>3, <1>4, StepsAssumption

\* The fields of a working process.
LEMMA Fields ==
    ASSUME TypeInv, me.pc # "idle"
    PROVE  /\ me \in Working
           /\ me.cs \in ChangeSets /\ me.event \in Events /\ me.db \in StateFiles
           /\ me.todo \in SUBSET Paths
           /\ me.new \in PartialFiles /\ me.before \in PartialFiles
           /\ me.after \in PartialFiles
           /\ me.pc \in {"snapshot", "write", "restore", "append", "save", "ratchet", "level"}
BY DEF TypeInv, Working

\* A command begins.
LEMMA BeginTypes ==
    ASSUME OneProcess, TypeInv, CommandInv, NEW c \in ChangeSets,
           NEW pc \in {"snapshot", "restore", "append"}, NEW event \in Events,
           Begin(Solo, c, pc, event),
           db.status[c] = IF event = "rolled_back" THEN "APPLIED"
                          ELSE IF event = "applied" THEN "GATE_APPROVED" ELSE "VALIDATED",
           pc = "snapshot" <=> event = "applied",
           pc = "restore" <=> event = "rolled_back", event # "rejected",
           pc = "restore" => snapshot[c] # NoSnapshot
    PROVE  TypeInv' /\ CommandInv'
<1>1. /\ UNCHANGED <<files, snapshot, journal, db, crashes>>
      /\ me' = Started(c, pc, event)
      /\ DOMAIN proc' = Processes
    BY BeginProcess DEF Begin, TypeInv
<1>2. /\ me'.pc = pc /\ me'.cs = c /\ me'.event = event /\ me'.db = db
      /\ me'.todo = Targets(c)
      /\ me'.new = NoTargets /\ me'.before = Image(files, Targets(c))
      /\ me'.after = NoTargets
    BY <1>1 DEF Started
<1>3. Image(files, Targets(c)) \in Saves(c) /\ Image(files, Targets(c)) \in PartialFiles
    BY ChangeFacts DEF TypeInv
<1>4. me' \in Working
    <2>1. db \in StateFiles
        BY DEF TypeInv
    <2>2. Started(c, pc, event) \in Working
        BY <1>3, <2>1, ChangeFacts, NoTargetsType DEF Started, Working
    <2>3. QED BY <1>1, <2>2
<1>5. TypeInv'
    BY <1>1, <1>4 DEF TypeInv
<1>6. snapshot[c] # NoSnapshot => snapshot[c] \in Saves(c)
    BY DEF TypeInv
<1>7. QED BY <1>1, <1>2, <1>3, <1>5, <1>6 DEF CommandInv, Reading, Events, ContentEvents

LEMMA StartTypes ==
    ASSUME OneProcess, TypeInv, CommandInv, NEW c \in ChangeSets,
           StartGate(Solo, c) \/ StartApply(Solo, c) \/ StartRollback(Solo, c)
    PROVE  TypeInv' /\ CommandInv'
BY BeginTypes DEF StartGate, StartApply, StartRollback, Events

LEMMA SnapshotTypes ==
    ASSUME OneProcess, TypeInv, CommandInv, TakeSnapshot(Solo)
    PROVE  TypeInv' /\ CommandInv'
<1> DEFINE c == me.cs
           payload == Changes[c].payload
           results == PayloadResults(payload, Targets(c), files)
<1>1. /\ me.pc = "snapshot" /\ snapshot' = [snapshot EXCEPT ![c] = Image(files, Targets(c))]
      /\ UNCHANGED <<files, journal, db, crashes>>
    BY DEF TakeSnapshot, At, me
<1>2. /\ me \in Working /\ c \in ChangeSets /\ me.event \in Events
      /\ me.before \in PartialFiles
    BY <1>1, Fields
<1>3. /\ Targets(c) \in SUBSET Paths /\ payload \in PayloadRecord
      /\ Image(files, Targets(c)) \in Saves(c)
      /\ files \in [Paths -> FileState]
    BY <1>2, ChangeFacts DEF TypeInv
<1>4. DOMAIN snapshot' = ChangeSets /\ snapshot'[c] = Image(files, Targets(c))
      /\ \A d \in ChangeSets \ {c} : snapshot'[d] = snapshot[d]
    BY <1>1, <1>2 DEF TypeInv
<1>5. /\ DOMAIN proc' = Processes
      /\ IF PayloadApplies(payload, Targets(c), files)
         THEN me' = [me EXCEPT !.pc = "write", !.new = results]
         ELSE me' = [me EXCEPT !.pc = "restore", !.event = "rejected"]
    BY SnapshotProcess DEF TypeInv
<1>6. /\ me.todo \subseteq Targets(c) /\ me.before = Image(files, Targets(c))
      /\ me.event = "applied" /\ me.db = db /\ db.status[c] = "GATE_APPROVED"
      /\ me.before \in Saves(c)
    BY <1>1 DEF CommandInv, Reading
<1>7. /\ me' \in Working /\ me'.cs = c /\ me'.db = db /\ me'.todo = me.todo
      /\ me'.before = me.before
      /\ \/ me'.pc = "write" /\ me'.event = "applied" /\ me'.new \in Saves(c)
         \/ me'.pc = "restore" /\ me'.event = "rejected"
    <2>1. CASE PayloadApplies(payload, Targets(c), files)
        <3>1. results \in Saves(c) /\ results \in PartialFiles
            BY <1>2, <1>3, <2>1, ResultsType, ChangeFacts DEF Saves
        <3>2. me' = [me EXCEPT !.pc = "write", !.new = results]
            BY <1>5, <2>1
        <3> HIDE DEF results
        <3>3. QED BY <1>2, <1>6, <3>1, <3>2 DEF Working
    <2>2. CASE ~PayloadApplies(payload, Targets(c), files)
        <3>1. me' = [me EXCEPT !.pc = "restore", !.event = "rejected"]
            BY <1>5, <2>2
        <3>2. QED BY <1>2, <1>6, <3>1 DEF Working, Events
    <2>3. QED BY <2>1, <2>2
<1>8. TypeInv'
    BY <1>1, <1>3, <1>4, <1>5, <1>7 DEF TypeInv
<1>9. \A t \in Targets(c) : files[t] = Image(files, Targets(c))[t]
    BY DEF Image
<1>10. CommandInv'
    BY <1>1, <1>3, <1>4, <1>6, <1>7, <1>9 DEF CommandInv, Reading
<1>11. QED BY <1>8, <1>10

\* What a command has done when it has begun.
LEMMA StartBegins ==
    ASSUME OneProcess, TypeInv, NEW c \in ChangeSets,
           StartGate(Solo, c) \/ StartApply(Solo, c) \/ StartRollback(Solo, c)
    PROVE  /\ me.pc = "idle" /\ UNCHANGED <<files, snapshot, journal, db, crashes>>
           /\ me'.cs = c /\ me'.before = Image(files, Targets(c))
           /\ \/ me'.pc = "append" /\ me'.event \notin ContentEvents
              \/ me'.pc = "snapshot" /\ me'.event = "applied"
              \/ me'.pc = "restore" /\ me'.event = "rolled_back"
<1>1. ASSUME NEW pc, NEW event, Begin(Solo, c, pc, event)
      PROVE  /\ me.pc = "idle" /\ UNCHANGED <<files, snapshot, journal, db, crashes>>
             /\ me'.cs = c /\ me'.before = Image(files, Targets(c))
             /\ me'.pc = pc /\ me'.event = event
    <2>1. me.pc = "idle" /\ me' = Started(c, pc, event)
        BY <1>1, BeginProcess DEF TypeInv
    <2>2. QED BY <1>1, <2>1 DEF Begin, Started
<1>2. QED BY <1>1 DEF StartGate, StartApply, StartRollback, ContentEvents

LEMMA WriteTypes ==
    ASSUME OneProcess, TypeInv, CommandInv, WriteTarget(Solo)
    PROVE  TypeInv' /\ CommandInv'
<1> DEFINE c == me.cs
<1>1. PICK t \in me.todo : /\ me' = [me EXCEPT !.todo = me.todo \ {t}]
                           /\ files' = [files EXCEPT ![t] = me.new[t]]
    BY WriteProcess DEF TypeInv
<1>2. /\ me.pc = "write" /\ DOMAIN proc' = Processes
      /\ UNCHANGED <<snapshot, journal, db, crashes>>
    BY WriteProcess DEF WriteTarget, TypeInv
<1>3. me \in Working /\ c \in ChangeSets /\ me.todo \in SUBSET Paths
    BY <1>2, Fields
<1>4. /\ me.todo \subseteq Targets(c) /\ me.new \in Saves(c)
      /\ me.before \in Saves(c) /\ me.db = db
    BY <1>2 DEF CommandInv, Reading
<1>5. files' \in [Paths -> FileState]
    <2>1. me.new[t] \in FileState
        BY <1>4 DEF Saves
    <2>2. QED BY <1>1, <2>1 DEF TypeInv
<1>6. /\ me' \in Working /\ me'.pc = "write" /\ me'.cs = c /\ me'.event = me.event
      /\ me'.db = me.db /\ me'.todo = me.todo \ {t} /\ me'.new = me.new
      /\ me'.before = me.before
    BY <1>1, <1>2, <1>3 DEF Working
<1>7. TypeInv'
    BY <1>2, <1>5, <1>6 DEF TypeInv
<1>8. CommandInv'
    BY <1>2, <1>4, <1>6 DEF CommandInv, Reading
<1>9. QED BY <1>7, <1>8

LEMMA RevertTypes ==
    ASSUME OneProcess, TypeInv, CommandInv, Revert(Solo)
    PROVE  TypeInv' /\ CommandInv'
<1> DEFINE c == me.cs
<1>1. me' = [me EXCEPT !.pc = "restore", !.event = "rejected", !.todo = Targets(c)]
    BY RevertProcess DEF TypeInv
<1>2. /\ me.pc = "write" /\ DOMAIN proc' = Processes
      /\ UNCHANGED <<files, snapshot, journal, db, crashes>>
    BY RevertProcess DEF Revert, TypeInv
<1>3. me \in Working /\ c \in ChangeSets
    BY <1>2, Fields
<1>4. Targets(c) \in SUBSET Paths
    BY <1>3, ChangeFacts
<1>5. /\ me.before = snapshot[c] /\ me.before \in Saves(c) /\ me.db = db
      /\ db.status[c] = "GATE_APPROVED"
    BY <1>2 DEF CommandInv, Reading
<1>6. /\ me' \in Working /\ me'.pc = "restore" /\ me'.cs = c /\ me'.event = "rejected"
      /\ me'.db = me.db /\ me'.todo = Targets(c) /\ me'.before = me.before
    BY <1>1, <1>3, <1>4 DEF Working, Events
<1>7. TypeInv'
    BY <1>2, <1>6 DEF TypeInv
<1>8. CommandInv'
    BY <1>2, <1>5, <1>6 DEF CommandInv, Reading
<1>9. QED BY <1>7, <1>8

LEMMA RestoreTypes ==
    ASSUME OneProcess, TypeInv, CommandInv, RestoreTarget(Solo)
    PROVE  TypeInv' /\ CommandInv'
<1> DEFINE c == me.cs
<1>1. PICK t \in me.todo : /\ me' = [me EXCEPT !.todo = me.todo \ {t}]
                           /\ files' = [files EXCEPT ![t] = snapshot[c][t]]
    BY RestoreProcess DEF TypeInv
<1>2. /\ me.pc = "restore" /\ DOMAIN proc' = Processes
      /\ UNCHANGED <<snapshot, journal, db, crashes>>
    BY RestoreProcess DEF RestoreTarget, TypeInv
<1>3. me \in Working /\ c \in ChangeSets /\ me.todo \in SUBSET Paths
    BY <1>2, Fields
<1>4. /\ me.todo \subseteq Targets(c) /\ snapshot[c] \in Saves(c)
      /\ me.before \in Saves(c) /\ me.db = db
      /\ \A u \in Targets(c) \ me.todo : files[u] = snapshot[c][u]
    BY <1>2 DEF CommandInv, Reading
<1>5. /\ files' \in [Paths -> FileState]
      /\ \A u \in Targets(c) \ (me.todo \ {t}) : files'[u] = snapshot[c][u]
    <2>1. snapshot[c][t] \in FileState /\ files \in [Paths -> FileState]
        BY <1>4 DEF Saves, TypeInv
    <2>2. Targets(c) \in SUBSET Paths
        BY <1>3, ChangeFacts
    <2>3. QED BY <1>1, <1>4, <2>1, <2>2
<1>6. /\ me' \in Working /\ me'.pc = "restore" /\ me'.cs = c /\ me'.event = me.event
      /\ me'.db = me.db /\ me'.todo = me.todo \ {t} /\ me'.before = me.before
    BY <1>1, <1>2, <1>3 DEF Working
<1>7. TypeInv'
    BY <1>2, <1>5, <1>6 DEF TypeInv
<1>8. CommandInv'
    BY <1>2, <1>4, <1>5, <1>6 DEF CommandInv, Reading
<1>9. QED BY <1>7, <1>8

LEMMA SettleTypes ==
    ASSUME OneProcess, TypeInv, CommandInv, Settle(Solo)
    PROVE  TypeInv' /\ CommandInv'
<1> DEFINE c == me.cs
           after == Image(files, Targets(c))
<1>1. /\ me.pc \in {"write", "restore"} /\ me.todo = {} /\ DOMAIN proc' = Processes
      /\ me' = [me EXCEPT !.pc = "append", !.after = after]
    BY SettleProcess DEF TypeInv
<1>2. UNCHANGED <<files, snapshot, journal, db, crashes>>
    BY DEF Settle
<1>3. me \in Working /\ c \in ChangeSets
    BY <1>1, Fields
<1>4. after \in Saves(c) /\ after \in PartialFiles
    BY <1>3, ChangeFacts DEF TypeInv
<1>5. me.before \in Saves(c) /\ me.db = db
    BY <1>1 DEF CommandInv, Reading
<1>6. me.pc = "restore" => after = snapshot[c]
    <2>1. me.pc = "restore" =>
            snapshot[c] \in Saves(c) /\ \A t \in Targets(c) : files[t] = snapshot[c][t]
        BY <1>1 DEF CommandInv
    <2>2. QED BY <2>1 DEF Image, Saves
<1>7. /\ me' \in Working /\ me'.pc = "append" /\ me'.cs = c /\ me'.event = me.event
      /\ me'.db = me.db /\ me'.todo = {} /\ me'.before = me.before /\ me'.after = after
    <2> HIDE DEF after
    <2>1. QED BY <1>1, <1>3, <1>4 DEF Working
<1>8. TypeInv'
    BY <1>1, <1>2, <1>7 DEF TypeInv
<1>9. me.pc = "write" => me.event = "applied"
    BY DEF CommandInv
<1>10. CommandInv'
    BY <1>1, <1>2, <1>5, <1>6, <1>7, <1>9 DEF CommandInv, Reading
<1>11. QED BY <1>8, <1>10

\* The entry that a command appends.
NewEntry ==
    IF me.event \in ContentEvents THEN Entry(me.event, me.cs, me.before, me.after)
    ELSE Entry(me.event, me.cs, NoTargets, NoTargets)

LEMMA NewEntryType ==
    ASSUME TypeInv, me.pc # "idle"
    PROVE  /\ NewEntry \in Entries /\ NewEntry.event = me.event /\ NewEntry.cs = me.cs
           /\ NewEntry.after = Moved
           /\ me.event \in ContentEvents => NewEntry.before = me.before
BY Fields, NoTargetsType DEF NewEntry, Entry, Entries, Moved

LoweringEntry == Entry("policy_changed", NoChangeSet, NoTargets, NoTargets)

LEMMA LoweringEntryType ==
    /\ LoweringEntry \in Entries /\ LoweringEntry.event = "policy_changed"
    /\ LoweringEntry.cs = NoChangeSet /\ LoweringEntry.after = NoTargets
BY NoTargetsType DEF LoweringEntry, Entry, Entries

LEMMA AppendTypes ==
    ASSUME OneProcess, TypeInv, CommandInv, AppendEntry(Solo)
    PROVE  TypeInv' /\ CommandInv' /\ journal' = Append(journal, NewEntry)
<1> DEFINE c == me.cs
<1>1. /\ me.pc = "append" /\ DOMAIN proc' = Processes /\ me' = [me EXCEPT !.pc = "save"]
    BY AppendProcess DEF TypeInv
<1>2. /\ UNCHANGED <<files, snapshot, db, crashes>>
      /\ journal' = Append(journal, NewEntry)
    BY DEF AppendEntry, NewEntry, me
<1>3. me \in Working /\ c \in ChangeSets
    BY <1>1, Fields
<1>4. journal' \in Seq(Entries)
    BY <1>1, <1>2, NewEntryType DEF TypeInv
<1>5. /\ me' \in Working /\ me'.pc = "save" /\ me'.cs = c /\ me'.event = me.event
      /\ me'.db = me.db /\ me'.todo = me.todo /\ me'.before = me.before
      /\ me'.after = me.after
    BY <1>1, <1>3 DEF Working
<1>6. TypeInv'
    BY <1>1, <1>2, <1>4, <1>5 DEF TypeInv
<1>7. CommandInv'
    BY <1>1, <1>2, <1>5 DEF CommandInv, Reading
<1>8. QED BY <1>2, <1>6, <1>7

LEMMA SaveTypes ==
    ASSUME OneProcess, TypeInv, CommandInv, Save(Solo)
    PROVE  /\ TypeInv' /\ CommandInv'
           /\ db'.status = [db.status EXCEPT ![me.cs] = StatusAfter[me.event]]
           /\ db'.heads = Written(db.heads, Moved)
           /\ db'.level = db.level /\ db'.vouched = Len(journal)
<1> DEFINE c == me.cs
           heads == IF me.event \in ContentEvents THEN Written(db.heads, me.after)
                    ELSE db.heads
           st == StatusAfter[me.event]
<1>1. /\ me.pc = "save" /\ DOMAIN proc' = Processes
      /\ IF me.event = "rolled_back" THEN me' = [me EXCEPT !.pc = "ratchet"]
         ELSE me'.pc = "idle"
    BY SaveProcess DEF TypeInv
<1>2. /\ UNCHANGED <<files, snapshot, journal, crashes>>
      /\ me.db = db /\ me.todo \subseteq Targets(c) /\ me.before \in Saves(c)
    BY <1>1 DEF Save, CommandInv, Reading
<1>3. me \in Working /\ c \in ChangeSets /\ me.event \in Events /\ me.after \in PartialFiles
    BY <1>1, Fields
<1>4. db' = [db EXCEPT !.status[c] = st, !.heads = heads, !.vouched = Len(journal)]
    BY <1>2 DEF Save, me
<1>5. st \in Statuses
    BY <1>3 DEF StatusAfter, Events, Statuses
<1>6. db \in StateFiles /\ db.heads \in [Paths -> FileState] /\ Len(journal) \in Nat
    BY LenProperties DEF TypeInv, StateFiles
<1>7. heads \in [Paths -> FileState] /\ heads = Written(db.heads, Moved)
    <2>1. Written(db.heads, me.after) \in [Paths -> FileState]
        BY <1>3, <1>6, WrittenType
    <2>2. Written(db.heads, NoTargets) = db.heads
        BY <1>6 DEF Written, NoTargets
    <2>3. QED BY <1>6, <2>1, <2>2 DEF Moved
<1> HIDE DEF heads, st
<1>8. /\ db'.status = [db.status EXCEPT ![c] = st]
      /\ db'.heads = heads
      /\ db'.level = db.level /\ db'.vouched = Len(journal)
      /\ db' \in StateFiles
    <2> DEFINE one == [db EXCEPT !.status[c] = st]
    <2>1. one \in StateFiles /\ one.status = [db.status EXCEPT ![c] = st]
          /\ one.level = db.level
        BY <1>3, <1>5, <1>6 DEF StateFiles
    <2>2. db' = [one EXCEPT !.heads = heads, !.vouched = Len(journal)]
        BY <1>4
    <2> HIDE DEF one
    <2>3. QED BY <1>6, <1>7, <2>1, <2>2 DEF StateFiles
<1>9. me'.pc # "idle" =>
        /\ me' \in Working /\ me'.pc = "ratchet" /\ me'.cs = c
        /\ me'.todo = me.todo /\ me'.before = me.before
    BY <1>1, <1>3 DEF Working
<1>10. TypeInv'
    BY <1>1, <1>2, <1>8, <1>9 DEF TypeInv
<1>11. CommandInv'
    BY <1>2, <1>9 DEF CommandInv, Reading
<1>12. QED BY <1>7, <1>8, <1>10, <1>11 DEF st

LEMMA RatchetTypes ==
    ASSUME OneProcess, TypeInv, CommandInv, Ratchet(Solo)
    PROVE  /\ TypeInv' /\ CommandInv'
           /\ \/ /\ me'.pc = "level" /\ db.level > 0
                 /\ journal' = Append(journal, LoweringEntry)
              \/ /\ me'.pc = "idle" /\ UNCHANGED journal
                 /\ ~(Cardinality(Rollbacks) >= OnRollbacks /\ db.level > 0)
<1> DEFINE c == me.cs
           lower == Cardinality(Rollbacks) >= OnRollbacks /\ db.level > 0
           lowered == [db EXCEPT !.level = db.level - 1]
<1>1. /\ me.pc = "ratchet" /\ DOMAIN proc' = Processes
      /\ lower => me' = [me EXCEPT !.pc = "level", !.db = lowered]
      /\ ~lower => me'.pc = "idle"
    BY RatchetProcess DEF TypeInv
<1>2. /\ UNCHANGED <<files, snapshot, db, crashes>>
      /\ lower => journal' = Append(journal, LoweringEntry)
      /\ ~lower => UNCHANGED journal
    BY DEF Ratchet, LoweringEntry
<1>3. me \in Working /\ me.todo \subseteq Targets(c) /\ me.before \in Saves(c)
    BY <1>1, Fields DEF CommandInv
<1>4. lower => lowered \in StateFiles /\ db.level > 0
    BY DEF TypeInv, StateFiles
<1>5. journal' \in Seq(Entries)
    BY <1>2, LoweringEntryType DEF TypeInv
<1> HIDE DEF lower
<1>6. lower =>
        /\ me' \in Working /\ me'.pc = "level" /\ me'.cs = c /\ me'.db = lowered
        /\ me'.todo = me.todo /\ me'.before = me.before
    <2> HIDE DEF lowered
    <2>1. QED BY <1>1, <1>3, <1>4 DEF Working
<1>7. TypeInv'
    BY <1>1, <1>2, <1>5, <1>6 DEF TypeInv
<1>8. CommandInv'
    BY <1>1, <1>2, <1>3, <1>4, <1>6 DEF CommandInv, Reading
<1>9. QED BY <1>1, <1>2, <1>4, <1>6, <1>7, <1>8 DEF lower

LEMMA SaveLevelTypes ==
    ASSUME OneProcess, TypeInv, CommandInv, SaveLevel(Solo)
    PROVE  /\ TypeInv' /\ CommandInv'
           /\ me.pc = "level" /\ me'.pc = "idle" /\ db.level > 0
           /\ db'.status = db.status /\ db'.heads = db.heads
           /\ db'.level = db.level - 1 /\ db'.vouched = Len(journal)
<1>1. me.pc = "level" /\ Idle(Solo) /\ UNCHANGED <<files, snapshot, journal, crashes>>
    BY DEF SaveLevel, At, me
<1>2. me'.pc = "idle" /\ DOMAIN proc' = Processes
    BY <1>1, IdleProcess DEF TypeInv
<1>3. db.level > 0 /\ me.db = [db EXCEPT !.level = db.level - 1]
    BY <1>1 DEF CommandInv
<1>4. db' = [[db EXCEPT !.level = db.level - 1] EXCEPT !.vouched = Len(journal)]
    BY <1>3 DEF SaveLevel, me
<1>5. Len(journal) \in Nat /\ db \in StateFiles /\ db.level <= InitialLevel
    BY LenProperties DEF TypeInv
<1>6. /\ db' \in StateFiles
      /\ db'.status = db.status /\ db'.heads = db.heads
      /\ db'.level = db.level - 1 /\ db'.vouched = Len(journal)
    <2> DEFINE lowered == [db EXCEPT !.level = db.level - 1]
    <2>1. /\ lowered \in StateFiles /\ lowered.level = db.level - 1
          /\ lowered.status = db.status /\ lowered.heads = db.heads
        BY <1>3, <1>5 DEF StateFiles
    <2>2. db' = [lowered EXCEPT !.vouched = Len(journal)]
        BY <1>4
    <2> HIDE DEF lowered
    <2>3. QED BY <1>5, <2>1, <2>2 DEF StateFiles
<1>7. db'.level <= InitialLevel
    BY <1>3, <1>5, <1>6, StepsAssumption DEF StateFiles
<1>8. QED BY <1>1, <1>2, <1>3, <1>6, <1>7 DEF TypeInv, CommandInv

LEMMA CrashTypes ==
    ASSUME OneProcess, TypeInv, CommandInv, Crash(Solo)
    PROVE  /\ TypeInv' /\ CommandInv'
           /\ me'.pc = "idle" /\ crashes' = crashes + 1
           /\ UNCHANGED <<files, snapshot, journal, db>>
BY IdleProcess DEF Crash, TypeInv, CommandInv

LEMMA NextTypes ==
    ASSUME OneProcess, TypeInv, CommandInv, [Next]_vars
    PROVE  TypeInv' /\ CommandInv'
<1>1. CASE UNCHANGED told
    <2>1. me' = me
        BY <1>1 DEF told, me
    <2>2. QED BY <1>1, <2>1 DEF told, TypeInv, CommandInv
<1>2. QED
    BY <1>1, SoloSteps, StartTypes, SnapshotTypes, WriteTypes, RevertTypes, RestoreTypes,
       SettleTypes, AppendTypes, SaveTypes, RatchetTypes, SaveLevelTypes, CrashTypes

LEMMA InitTypes ==
    ASSUME OneProcess, Init
    PROVE  TypeInv /\ CommandInv /\ me.pc = "idle"
<1>1. me.pc = "idle" /\ DOMAIN proc = Processes
    BY SoloRuns DEF Init, me
<1>2. db \in StateFiles /\ db.level <= InitialLevel
    BY StepsAssumption DEF Init, StateFiles, Statuses
<1>3. journal \in Seq(Entries)
    BY DEF Init
<1>4. QED BY <1>1, <1>2, <1>3, StepsAssumption DEF Init, TypeInv, CommandInv

\* Types, and what the command under way has read and done.
THEOREM TypesHold ==
    ASSUME OneProcess
    PROVE  Spec => [](TypeInv /\ CommandInv)
<1>1. Init => TypeInv /\ CommandInv
    BY InitTypes
<1>2. TypeInv /\ CommandInv /\ [Next]_vars => TypeInv' /\ CommandInv'
    BY NextTypes
<1>3. QED BY <1>1, <1>2, PTL DEF Spec
-----------------------------------------------------------------------------
\* Rollbacks.

\* What an append does to the journal.
LEMMA AppendFacts ==
    ASSUME journal \in Seq(Entries), NEW e \in Entries, journal' = Append(journal, e)
    PROVE  /\ Len(journal) \in Nat /\ Len(journal') = Len(journal) + 1
           /\ DOMAIN journal = 1 .. Len(journal)
           /\ DOMAIN journal' = 1 .. Len(journal) + 1
           /\ \A i \in DOMAIN journal : i \in DOMAIN journal' /\ journal'[i] = journal[i]
           /\ DOMAIN journal' = DOMAIN journal \cup {Len(journal) + 1}
           /\ Len(journal) + 1 \notin DOMAIN journal
           /\ journal'[Len(journal) + 1] = e
BY AppendProperties, LenProperties

\* The position after the journal is the newest of any set of positions with it.
LEMMA NewestAppended ==
    ASSUME NEW n \in Nat, NEW S \in SUBSET (1 .. n)
    PROVE  Newest(S \cup {n + 1}) = n + 1
<1> DEFINE T == S \cup {n + 1}
<1>1. n + 1 \in T /\ \A j \in T : j <= n + 1
    OBVIOUS
<1>2. \A i \in T : (\A j \in T : j <= i) => i = n + 1
    OBVIOUS
<1>3. Newest(T) \in T /\ \A j \in T : j <= Newest(T)
    BY <1>1 DEF Newest
<1>4. QED BY <1>2, <1>3

LEMMA NewestExists ==
    ASSUME NEW n \in Nat, NEW S \in SUBSET (1 .. n), S # {}
    PROVE  Newest(S) \in S
BY LastExists DEF Newest, LastOf

\* The applications of a change, and the last of them, move only with an entry that
\* says it was applied.
LEMMA AppliedAppended ==
    ASSUME journal \in Seq(Entries), NEW e \in Entries, journal' = Append(journal, e),
           NEW c \in ChangeSets
    PROVE  /\ e.cs = c /\ e.event = "applied" =>
                Applied(c)' # {} /\ journal'[Newest(Applied(c)')].before = e.before
           /\ ~(e.cs = c /\ e.event = "applied") =>
                /\ Applied(c)' = Applied(c)
                /\ Applied(c) # {} =>
                    journal'[Newest(Applied(c)')].before = journal[Newest(Applied(c))].before
<1> DEFINE n == Len(journal)
<1>1. /\ n \in Nat /\ DOMAIN journal = 1 .. n /\ DOMAIN journal' = DOMAIN journal \cup {n + 1}
      /\ \A i \in DOMAIN journal : journal'[i] = journal[i]
      /\ journal'[n + 1] = e /\ n + 1 \notin DOMAIN journal
    BY AppendFacts
<1> HIDE DEF n
<1>2. Applied(c) \in SUBSET (1 .. n)
    BY <1>1 DEF Applied
<1>3. CASE e.cs = c /\ e.event = "applied"
    <2>1. Applied(c)' = Applied(c) \cup {n + 1}
        BY <1>1, <1>3 DEF Applied
    <2>2. Newest(Applied(c)') = n + 1
        BY <1>1, <1>2, <2>1, NewestAppended
    <2>3. QED BY <1>1, <1>3, <2>1, <2>2
<1>4. CASE ~(e.cs = c /\ e.event = "applied")
    <2>1. Applied(c)' = Applied(c)
        BY <1>1, <1>4 DEF Applied
    <2>2. Applied(c) # {} => Newest(Applied(c)) \in DOMAIN journal
        BY <1>1, <1>2, NewestExists
    <2>3. QED BY <1>1, <1>4, <2>1, <2>2
<1>5. QED BY <1>3, <1>4

\* A change whose snapshot must be what was journaled.
Reversible(c) ==
    \/ db.status[c] = "APPLIED"
    \/ me.pc = "save" /\ me.event = "applied" /\ me.cs = c

LEMMA SnapshotKept ==
    ASSUME SnapshotInv, UNCHANGED journal,
           \A c \in ChangeSets : Reversible(c)' => Reversible(c) /\ snapshot'[c] = snapshot[c]
    PROVE  SnapshotInv'
<1> SUFFICES ASSUME NEW c \in ChangeSets, Reversible(c)'
             PROVE  /\ Applied(c)' # {}
                    /\ snapshot'[c] \in Saves(c)
                    /\ snapshot'[c] = journal'[Newest(Applied(c)')].before
    BY DEF SnapshotInv, Reversible
<1>1. Reversible(c) /\ snapshot'[c] = snapshot[c]
    OBVIOUS
<1>2. /\ Applied(c) # {} /\ snapshot[c] \in Saves(c)
      /\ snapshot[c] = journal[Newest(Applied(c))].before
    BY <1>1 DEF SnapshotInv, Reversible
<1>3. Applied(c)' = Applied(c)
    BY DEF Applied
<1>4. QED BY <1>1, <1>2, <1>3

LEMMA AppendSnapshot ==
    ASSUME OneProcess, TypeInv, CommandInv, SnapshotInv, AppendEntry(Solo)
    PROVE  SnapshotInv'
<1> SUFFICES ASSUME NEW c \in ChangeSets, Reversible(c)'
             PROVE  /\ Applied(c)' # {}
                    /\ snapshot'[c] \in Saves(c)
                    /\ snapshot'[c] = journal'[Newest(Applied(c)')].before
    BY DEF SnapshotInv, Reversible
<1>1. /\ me.pc = "append" /\ me' = [me EXCEPT !.pc = "save"]
      /\ journal' = Append(journal, NewEntry) /\ UNCHANGED <<files, snapshot, db>>
    BY AppendProcess, AppendTypes DEF TypeInv, AppendEntry
<1>2. /\ me \in Working /\ NewEntry \in Entries /\ journal \in Seq(Entries)
      /\ NewEntry.event = me.event /\ NewEntry.cs = me.cs
      /\ me.event = "applied" => NewEntry.before = me.before
    BY <1>1, Fields, NewEntryType DEF TypeInv, ContentEvents
<1>3. me'.event = me.event /\ me'.cs = me.cs
    BY <1>1, <1>2 DEF Working
<1>4. CASE me.cs = c /\ me.event = "applied"
    <2>1. me.before = snapshot[c] /\ me.before \in Saves(c)
        BY <1>1, <1>4 DEF CommandInv
    <2>2. QED BY <1>1, <1>2, <1>4, <2>1, AppliedAppended
<1>5. CASE ~(me.cs = c /\ me.event = "applied")
    <2>1. Reversible(c)
        BY <1>1, <1>3, <1>5 DEF Reversible
    <2>2. /\ Applied(c) # {} /\ snapshot[c] \in Saves(c)
          /\ snapshot[c] = journal[Newest(Applied(c))].before
        BY <2>1 DEF SnapshotInv, Reversible
    <2>3. /\ Applied(c)' = Applied(c)
          /\ journal'[Newest(Applied(c)')].before = journal[Newest(Applied(c))].before
        BY <1>1, <1>2, <1>5, <2>2, AppliedAppended
    <2>4. QED BY <1>1, <2>2, <2>3
<1>6. QED BY <1>4, <1>5

LEMMA RatchetSnapshot ==
    ASSUME OneProcess, TypeInv, CommandInv, SnapshotInv, Ratchet(Solo)
    PROVE  SnapshotInv'
<1>1. /\ me'.pc \in {"level", "idle"} /\ UNCHANGED <<snapshot, db>>
      /\ UNCHANGED journal \/ journal' = Append(journal, LoweringEntry)
    BY RatchetTypes DEF Ratchet
<1>2. CASE UNCHANGED journal
    BY <1>1, <1>2, SnapshotKept DEF Reversible
<1>3. CASE journal' = Append(journal, LoweringEntry)
    <2> SUFFICES ASSUME NEW c \in ChangeSets, Reversible(c)'
                 PROVE  /\ Applied(c)' # {}
                        /\ snapshot'[c] \in Saves(c)
                        /\ snapshot'[c] = journal'[Newest(Applied(c)')].before
        BY DEF SnapshotInv, Reversible
    <2>1. Reversible(c)
        BY <1>1 DEF Reversible
    <2>2. /\ Applied(c) # {} /\ snapshot[c] \in Saves(c)
          /\ snapshot[c] = journal[Newest(Applied(c))].before
        BY <2>1 DEF SnapshotInv, Reversible
    <2>3. /\ Applied(c)' = Applied(c)
          /\ journal'[Newest(Applied(c)')].before = journal[Newest(Applied(c))].before
        BY <1>3, <2>2, AppliedAppended, LoweringEntryType DEF TypeInv
    <2>4. QED BY <1>1, <2>2, <2>3
<1>4. QED BY <1>1, <1>2, <1>3

LEMMA NextSnapshot ==
    ASSUME OneProcess, TypeInv, CommandInv, SnapshotInv, [Next]_vars
    PROVE  SnapshotInv'
<1>1. ASSUME NEW c \in ChangeSets,
             StartGate(Solo, c) \/ StartApply(Solo, c) \/ StartRollback(Solo, c)
      PROVE  SnapshotInv'
    <2>1. UNCHANGED <<snapshot, journal, db>> /\ me'.pc # "save"
        BY <1>1, StartBegins
    <2>2. QED BY <2>1, SnapshotKept DEF Reversible
<1>2. CASE TakeSnapshot(Solo)
    <2>1. /\ me.pc = "snapshot" /\ UNCHANGED <<journal, db>>
          /\ snapshot' = [snapshot EXCEPT ![me.cs] = Image(files, Targets(me.cs))]
        BY <1>2 DEF TakeSnapshot, At, me
    <2>2. me \in Working /\ me'.pc \in {"write", "restore"}
        <3>1. me \in Working
            BY <2>1, Fields
        <3>2. QED BY <1>2, <3>1, SnapshotProcess DEF TypeInv, Working
    <2>3. db.status[me.cs] = "GATE_APPROVED"
        BY <2>1 DEF CommandInv, Reading
    <2>4. \A c \in ChangeSets : c # me.cs => snapshot'[c] = snapshot[c]
        BY <2>1 DEF TypeInv
    <2>5. QED BY <2>1, <2>2, <2>3, <2>4, SnapshotKept DEF Reversible
<1>3. CASE WriteTarget(Solo) \/ Revert(Solo) \/ RestoreTarget(Solo) \/ Settle(Solo)
    <2>1. UNCHANGED <<snapshot, journal, db>>
        BY <1>3 DEF WriteTarget, Revert, RestoreTarget, Settle
    <2>2. me.pc \in {"write", "restore"}
        BY <1>3 DEF WriteTarget, Revert, RestoreTarget, Settle, At, me
    <2>3. me'.pc \in {"write", "restore", "append"}
        <3>1. me \in Working
            BY <2>2, Fields
        <3>2. QED
            BY <1>3, <2>2, <3>1, WriteProcess, RevertProcess, RestoreProcess, SettleProcess
               DEF TypeInv, Working
    <2>4. QED BY <2>1, <2>3, SnapshotKept DEF Reversible
<1>4. CASE Save(Solo)
    <2>1. me.pc = "save" /\ UNCHANGED <<snapshot, journal>> /\ me'.pc # "save"
        <3>1. me.pc = "save" /\ me \in Working
            BY <1>4, Fields DEF Save, At, me
        <3>2. QED BY <1>4, <3>1, SaveProcess DEF Save, TypeInv, Working
    <2>2. db'.status = [db.status EXCEPT ![me.cs] = StatusAfter[me.event]]
        BY <1>4, SaveTypes
    <2>3. me.event \in Events /\ me.cs \in ChangeSets /\ db.status \in [ChangeSets -> Statuses]
        BY <2>1, Fields DEF TypeInv, StateFiles
    <2>4. StatusAfter[me.event] = "APPLIED" => me.event = "applied"
        BY <2>3 DEF StatusAfter, Events
    <2>5. QED BY <2>1, <2>2, <2>3, <2>4, SnapshotKept DEF Reversible
<1>5. CASE SaveLevel(Solo)
    <2>1. me'.pc = "idle" /\ db'.status = db.status /\ UNCHANGED <<snapshot, journal>>
        BY <1>5, SaveLevelTypes DEF SaveLevel
    <2>2. QED BY <2>1, SnapshotKept DEF Reversible
<1>6. CASE Crash(Solo)
    <2>1. me'.pc = "idle" /\ UNCHANGED <<snapshot, journal, db>>
        BY <1>6, CrashTypes
    <2>2. QED BY <2>1, SnapshotKept DEF Reversible
<1>7. CASE UNCHANGED told
    BY <1>7, SnapshotKept DEF told, Reversible, me
<1>8. QED
    BY <1>1, <1>2, <1>3, <1>4, <1>5, <1>6, <1>7, SoloSteps, AppendSnapshot, RatchetSnapshot

LEMMA SnapshotsHold ==
    ASSUME OneProcess
    PROVE  Spec => []SnapshotInv
<1>1. Init => SnapshotInv
    <2> SUFFICES ASSUME Init PROVE SnapshotInv
        OBVIOUS
    <2>1. me.pc = "idle"
        BY InitTypes
    <2>2. \A c \in ChangeSets : db.status[c] = "VALIDATED"
        BY DEF Init
    <2>3. QED BY <2>1, <2>2 DEF SnapshotInv
<1>2. TypeInv /\ CommandInv /\ SnapshotInv /\ [Next]_vars => SnapshotInv'
    BY NextSnapshot
<1>3. QED BY <1>1, <1>2, TypesHold, PTL DEF Spec

\* Killed and repeated any number of times, a rollback that is journaled has given
\* each target what the newest application journaled as "before" (I5, file by file).
THEOREM RollbackIsExact ==
    ASSUME OneProcess
    PROVE  Spec => RollbackRestores
<1> DEFINE Exact ==
        \A i \in DOMAIN journal' \ DOMAIN journal :
            journal'[i].event = "rolled_back" =>
                Image(files', Targets(journal'[i].cs)) =
                    journal[Newest(Applied(journal'[i].cs))].before
<1>1. TypeInv /\ CommandInv /\ SnapshotInv /\ [Next]_vars => Exact \/ UNCHANGED vars
    <2> SUFFICES ASSUME TypeInv, CommandInv, SnapshotInv, [Next]_vars
                 PROVE  Exact
        OBVIOUS
    <2>1. CASE AppendEntry(Solo)
        <3>1. /\ me.pc = "append" /\ journal' = Append(journal, NewEntry)
              /\ UNCHANGED files
            BY <2>1, AppendTypes, AppendProcess DEF AppendEntry, TypeInv
        <3>2. /\ NewEntry \in Entries /\ NewEntry.event = me.event /\ NewEntry.cs = me.cs
              /\ me.cs \in ChangeSets /\ journal \in Seq(Entries)
            BY <3>1, NewEntryType, Fields DEF TypeInv
        <3>3. \A i \in DOMAIN journal' \ DOMAIN journal : journal'[i] = NewEntry
            BY <3>1, <3>2, AppendFacts
        <3>4. me.event = "rolled_back" =>
                Image(files, Targets(me.cs)) = journal[Newest(Applied(me.cs))].before
            BY <3>1, <3>2 DEF CommandInv, SnapshotInv, Reading, ContentEvents
        <3>5. QED BY <3>1, <3>2, <3>3, <3>4
    <2>2. CASE Ratchet(Solo)
        <3>1. UNCHANGED journal \/ journal' = Append(journal, LoweringEntry)
            BY <2>2, RatchetTypes
        <3>2. \A i \in DOMAIN journal' \ DOMAIN journal : journal'[i] = LoweringEntry
            BY <3>1, AppendFacts, LoweringEntryType DEF TypeInv
        <3>3. QED BY <3>2, LoweringEntryType
    <2>3. CASE UNCHANGED journal
        BY <2>3
    <2>4. UNCHANGED journal \/ AppendEntry(Solo) \/ Ratchet(Solo)
        BY SoloSteps DEF StartGate, StartApply, StartRollback, Begin, TakeSnapshot, WriteTarget,
           Revert, RestoreTarget, Settle, Save, SaveLevel, Crash, told
    <2>5. QED BY <2>1, <2>2, <2>3, <2>4
<1>2. Exact \/ UNCHANGED vars =>
        [\A i \in DOMAIN journal' \ DOMAIN journal :
            journal'[i].event = "rolled_back" =>
                LET c == journal'[i].cs
                    applied == {j \in DOMAIN journal :
                                    journal[j].cs = c /\ journal[j].event = "applied"}
                IN Image(files', Targets(c)) = journal[Newest(applied)].before]_vars
    BY DEF Applied
<1> HIDE DEF Exact
<1>3. QED BY <1>1, <1>2, TypesHold, SnapshotsHold, PTL DEF Spec, RollbackRestores
-----------------------------------------------------------------------------
\* The level.

\* Only an entry that says so is one rollback more.
LEMMA RollbacksAppended ==
    ASSUME journal \in Seq(Entries), NEW e \in Entries, journal' = Append(journal, e)
    PROVE  /\ Cardinality(Rollbacks) \in Nat
           /\ Cardinality(Rollbacks') =
                IF e.event = "rolled_back" THEN Cardinality(Rollbacks) + 1
                ELSE Cardinality(Rollbacks)
<1> DEFINE n == Len(journal)
<1>1. /\ n \in Nat /\ DOMAIN journal = 1 .. n /\ DOMAIN journal' = DOMAIN journal \cup {n + 1}
      /\ \A i \in DOMAIN journal : journal'[i] = journal[i]
      /\ journal'[n + 1] = e /\ n + 1 \notin DOMAIN journal
    BY AppendFacts
<1> HIDE DEF n
<1>2. IsFiniteSet(Rollbacks) /\ Cardinality(Rollbacks) \in Nat
    <2>1. IsFiniteSet(1 .. n)
        BY <1>1, FS_Interval
    <2>2. IsFiniteSet(Rollbacks)
        BY <1>1, <2>1, FS_Subset DEF Rollbacks
    <2>3. QED BY <2>2, FS_CardinalityType
<1>3. CASE e.event = "rolled_back"
    <2>1. Rollbacks' = Rollbacks \cup {n + 1} /\ n + 1 \notin Rollbacks
        BY <1>1, <1>3 DEF Rollbacks
    <2>2. QED BY <1>2, <1>3, <2>1, FS_AddElement
<1>4. CASE e.event # "rolled_back"
    <2>1. Rollbacks' = Rollbacks
        BY <1>1, <1>4 DEF Rollbacks
    <2>2. QED BY <1>2, <1>4, <2>1
<1>5. QED BY <1>3, <1>4

LEMMA RollbacksCounted ==
    ASSUME TypeInv
    PROVE  Cardinality(Rollbacks) \in Nat
<1>1. Len(journal) \in Nat /\ DOMAIN journal = 1 .. Len(journal)
    BY LenProperties DEF TypeInv
<1>2. IsFiniteSet(1 .. Len(journal))
    BY <1>1, FS_Interval
<1>3. IsFiniteSet(Rollbacks)
    BY <1>1, <1>2, FS_Subset DEF Rollbacks
<1>4. QED BY <1>3, FS_CardinalityType

\* A step that journals no rollback and lowers nothing.
LEMMA LevelKept ==
    ASSUME LevelInv, Rollbacks' = Rollbacks, db'.level = db.level,
           crashes' = crashes, Owed' = Owed
    PROVE  LevelInv'
BY DEF LevelInv

LEMMA NextLevel ==
    ASSUME OneProcess, TypeInv, CommandInv, LevelInv, [Next]_vars
    PROVE  LevelInv'
<1>1. /\ Cardinality(Rollbacks) \in Nat /\ InitialLevel \in Int /\ db.level \in Int
      /\ crashes \in Nat /\ OnRollbacks \in Nat /\ Owed \in {0, 1}
      /\ db.level >= 0 /\ db.level <= InitialLevel
    BY RollbacksCounted, StepsAssumption DEF TypeInv, StateFiles, Owed
<1>2. ASSUME UNCHANGED <<journal, db, crashes>>, Owed = 0, Owed' = 0
      PROVE  LevelInv'
    BY <1>2, LevelKept DEF Rollbacks
<1>3. ASSUME NEW c \in ChangeSets,
             StartGate(Solo, c) \/ StartApply(Solo, c) \/ StartRollback(Solo, c)
      PROVE  LevelInv'
    BY <1>2, <1>3, StartBegins DEF Owed
<1>4. CASE \/ TakeSnapshot(Solo) \/ WriteTarget(Solo) \/ Revert(Solo)
           \/ RestoreTarget(Solo) \/ Settle(Solo)
    <2>1. UNCHANGED <<journal, db, crashes>> /\ me.pc \in {"snapshot", "write", "restore"}
        BY <1>4 DEF TakeSnapshot, WriteTarget, Revert, RestoreTarget, Settle, At, me
    <2>2. me'.pc \in {"write", "restore", "append"}
        <3>1. me \in Working
            BY <2>1, Fields
        <3>2. QED
            BY <1>4, <2>1, <3>1, SnapshotProcess, WriteProcess, RevertProcess, RestoreProcess,
               SettleProcess DEF TypeInv, Working
    <2>3. QED BY <1>2, <2>1, <2>2 DEF Owed
<1>5. CASE AppendEntry(Solo)
    <2>1. /\ me.pc = "append" /\ journal' = Append(journal, NewEntry)
          /\ UNCHANGED <<db, crashes>> /\ me' = [me EXCEPT !.pc = "save"]
        BY <1>5, AppendTypes, AppendProcess DEF AppendEntry, TypeInv
    <2>2. me'.pc = "save" /\ me'.event = me.event
        BY <2>1, Fields DEF Working
    <2>3. Cardinality(Rollbacks') =
            IF me.event = "rolled_back" THEN Cardinality(Rollbacks) + 1
            ELSE Cardinality(Rollbacks)
        BY <2>1, NewEntryType, RollbacksAppended DEF TypeInv
    <2>4. Owed = 0 /\ Owed' = IF me.event = "rolled_back" THEN 1 ELSE 0
        BY <2>1, <2>2 DEF Owed
    <2>5. Rollbacks' = Rollbacks' /\ db' = db /\ crashes' = crashes
        BY <2>1
    <2>6. QED BY <1>1, <2>3, <2>4, <2>5 DEF LevelInv
<1>6. CASE Save(Solo)
    <2>1. /\ me.pc = "save" /\ UNCHANGED <<journal, crashes>> /\ db'.level = db.level
        BY <1>6, SaveTypes DEF Save, At, me
    <2>2. me'.pc = IF me.event = "rolled_back" THEN "ratchet" ELSE "idle"
        BY <1>6, <2>1, SaveProcess, Fields DEF TypeInv, Working
    <2>3. Owed' = Owed
        BY <2>1, <2>2 DEF Owed
    <2>4. QED BY <2>1, <2>3, LevelKept DEF Rollbacks
<1>7. CASE Ratchet(Solo)
    <2>1. me.pc = "ratchet" /\ Owed = 1 /\ UNCHANGED <<db, crashes>>
        BY <1>7 DEF Ratchet, At, me, Owed
    <2>2. CASE me'.pc = "level" /\ journal' = Append(journal, LoweringEntry)
        <3>1. Cardinality(Rollbacks') = Cardinality(Rollbacks)
            BY <2>2, RollbacksAppended, LoweringEntryType DEF TypeInv
        <3>2. Owed' = 1
            BY <2>2 DEF Owed
        <3>3. QED BY <2>1, <3>1, <3>2 DEF LevelInv
    <2>3. CASE /\ me'.pc = "idle" /\ UNCHANGED journal
               /\ ~(Cardinality(Rollbacks) >= OnRollbacks /\ db.level > 0)
        <3>1. Rollbacks' = Rollbacks /\ Owed' = 0
            BY <2>3 DEF Rollbacks, Owed
        <3>2. QED BY <1>1, <2>1, <2>3, <3>1 DEF LevelInv
    <2>4. QED BY <1>7, <2>2, <2>3, RatchetTypes
<1>8. CASE SaveLevel(Solo)
    <2>1. /\ me.pc = "level" /\ me'.pc = "idle" /\ db'.level = db.level - 1
          /\ UNCHANGED <<journal, crashes>> /\ db.level > 0
        BY <1>8, SaveLevelTypes DEF SaveLevel
    <2>2. Rollbacks' = Rollbacks /\ Owed = 1 /\ Owed' = 0
        BY <2>1 DEF Rollbacks, Owed
    <2>3. QED BY <1>1, <2>1, <2>2 DEF LevelInv
<1>9. CASE Crash(Solo)
    <2>1. me'.pc = "idle" /\ crashes' = crashes + 1 /\ UNCHANGED <<journal, db>>
        BY <1>9, CrashTypes
    <2>2. Rollbacks' = Rollbacks /\ Owed' = 0
        BY <2>1 DEF Rollbacks, Owed
    <2>3. QED BY <1>1, <2>1, <2>2 DEF LevelInv
<1>10. CASE UNCHANGED told
    <2>1. Owed' = Owed
        BY <1>10 DEF told, me, Owed
    <2>2. QED BY <1>10, <2>1, LevelKept DEF told, Rollbacks
<1>11. QED BY <1>3, <1>4, <1>5, <1>6, <1>7, <1>8, <1>9, <1>10, SoloSteps

\* A kill between a rollback and its de-escalation costs that lowering and no other,
\* however many rollbacks and kills there are.
THEOREM KillsCostOneLowering ==
    ASSUME OneProcess
    PROVE  Spec => []KillCostsOneLowering
<1>1. Init => LevelInv
    <2> SUFFICES ASSUME Init PROVE LevelInv
        OBVIOUS
    <2>1. Rollbacks = {}
        BY DEF Init, Rollbacks
    <2>2. Cardinality(Rollbacks) = 0
        BY <2>1, FS_EmptySet
    <2>3. Owed = 0 /\ db.level = InitialLevel /\ crashes = 0
        BY InitTypes DEF Owed, Init
    <2>4. QED BY <2>2, <2>3, StepsAssumption DEF LevelInv
<1>2. TypeInv /\ CommandInv /\ LevelInv /\ [Next]_vars => LevelInv'
    BY NextLevel
<1>3. TypeInv /\ LevelInv => KillCostsOneLowering
    <2> SUFFICES ASSUME TypeInv, LevelInv, AtRest, db.level > 0
                 PROVE  Cardinality(Rollbacks) - (OnRollbacks - 1)
                            <= InitialLevel - db.level + crashes
        BY DEF KillCostsOneLowering
    <2>1. Owed = 0
        BY SoloRuns DEF AtRest, At, me, Owed
    <2>2. InitialLevel \in Int /\ db.level \in Int /\ crashes \in Int
        BY StepsAssumption DEF TypeInv, StateFiles
    <2>3. QED BY <2>1, <2>2 DEF LevelInv
<1>4. QED BY <1>1, <1>2, <1>3, TypesHold, PTL DEF Spec
-----------------------------------------------------------------------------
\* The journal, state.json and the files.

\* The journal after one more entry: the change it names has the status it says, and
\* the targets it covers have the contents it says.
LEMMA JournalAppended ==
    ASSUME journal \in Seq(Entries), NEW e \in Entries, journal' = Append(journal, e)
    PROVE  /\ \A c \in ChangeSets :
                JournalStatus(c)' = IF e.cs = c THEN StatusAfter[e.event] ELSE JournalStatus(c)
           /\ JournalFiles' = Written(JournalFiles, e.after)
<1> DEFINE n == Len(journal)
<1>1. /\ n \in Nat /\ DOMAIN journal = 1 .. n /\ DOMAIN journal' = DOMAIN journal \cup {n + 1}
      /\ \A i \in DOMAIN journal : journal'[i] = journal[i]
      /\ journal'[n + 1] = e /\ n + 1 \notin DOMAIN journal
    BY AppendFacts
<1> HIDE DEF n
<1>2. ASSUME NEW c \in ChangeSets
      PROVE  JournalStatus(c)' = IF e.cs = c THEN StatusAfter[e.event] ELSE JournalStatus(c)
    <2> DEFINE mine == {i \in DOMAIN journal : journal[i].cs = c}
    <2>1. mine \in SUBSET (1 .. n)
        BY <1>1
    <2>2. JournalStatus(c) =
            IF mine = {} THEN "VALIDATED" ELSE StatusAfter[journal[Newest(mine)].event]
        BY DEF JournalStatus
    <2>3. JournalStatus(c)' =
            IF mine' = {} THEN "VALIDATED" ELSE StatusAfter[journal'[Newest(mine')].event]
        BY DEF JournalStatus
    <2>4. mine' = IF e.cs = c THEN mine \cup {n + 1} ELSE mine
        BY <1>1
    <2> HIDE DEF mine
    <2>5. CASE e.cs = c
        <3>1. Newest(mine') = n + 1
            BY <1>1, <2>1, <2>4, <2>5, NewestAppended
        <3>2. mine' # {}
            BY <2>4, <2>5
        <3>3. QED BY <1>1, <2>3, <2>5, <3>1, <3>2
    <2>6. CASE e.cs # c
        <3>1. mine # {} => Newest(mine) \in DOMAIN journal
            BY <1>1, <2>1, NewestExists
        <3>2. QED BY <1>1, <2>2, <2>3, <2>4, <2>6, <3>1
    <2>7. QED BY <2>5, <2>6
<1>3. ASSUME NEW t \in Paths
      PROVE  JournalFiles'[t] = IF t \in DOMAIN e.after THEN e.after[t] ELSE JournalFiles[t]
    <2> DEFINE covering == {i \in DOMAIN journal : t \in DOMAIN journal[i].after}
    <2>1. covering \in SUBSET (1 .. n)
        BY <1>1
    <2>2. JournalFiles[t] =
            IF covering = {} THEN InitialFiles[t] ELSE journal[Newest(covering)].after[t]
        BY DEF JournalFiles
    <2>3. JournalFiles'[t] =
            IF covering' = {} THEN InitialFiles[t] ELSE journal'[Newest(covering')].after[t]
        BY DEF JournalFiles
    <2>4. covering' = IF t \in DOMAIN e.after THEN covering \cup {n + 1} ELSE covering
        BY <1>1
    <2> HIDE DEF covering
    <2>5. CASE t \in DOMAIN e.after
        <3>1. Newest(covering') = n + 1
            BY <1>1, <2>1, <2>4, <2>5, NewestAppended
        <3>2. covering' # {}
            BY <2>4, <2>5
        <3>3. QED BY <1>1, <2>3, <2>5, <3>1, <3>2
    <2>6. CASE t \notin DOMAIN e.after
        <3>1. covering # {} => Newest(covering) \in DOMAIN journal
            BY <1>1, <2>1, NewestExists
        <3>2. QED BY <1>1, <2>2, <2>3, <2>4, <2>6, <3>1
    <2>7. QED BY <2>5, <2>6
<1>4. JournalFiles' = Written(JournalFiles, e.after)
    <2>1. JournalFiles' = [t \in Paths |-> JournalFiles'[t]]
        BY DEF JournalFiles
    <2>2. QED BY <1>3, <2>1 DEF Written
<1>5. QED BY <1>2, <1>4

\* A de-escalation says nothing of any change or file.
LEMMA LoweringAppended ==
    ASSUME TypeInv, journal' = Append(journal, LoweringEntry)
    PROVE  /\ \A c \in ChangeSets : JournalStatus(c)' = JournalStatus(c)
           /\ JournalFiles' = JournalFiles
<1>1. /\ LoweringEntry \in Entries /\ LoweringEntry.cs = NoChangeSet
      /\ LoweringEntry.after = NoTargets /\ journal \in Seq(Entries)
    BY LoweringEntryType DEF TypeInv
<1>2. \A c \in ChangeSets : c # NoChangeSet
    BY ChangeFacts
<1>3. Written(JournalFiles, NoTargets) = JournalFiles
    BY DEF Written, NoTargets, JournalFiles
<1> HIDE DEF LoweringEntry
<1>4. QED BY <1>1, <1>2, <1>3, JournalAppended

LEMMA NothingWritten ==
    ASSUME NEW fs \in [Paths -> FileState]
    PROVE  Written(fs, NoTargets) = fs
BY DEF Written, NoTargets

LEMMA JournalFilesType ==
    ASSUME TypeInv, StateTold
    PROVE  JournalFiles \in [Paths -> FileState]
<1>1. me.pc = "save" => Moved \in PartialFiles
    BY Fields, NoTargetsType DEF Moved
<1>2. QED BY <1>1, NoTargetsType, WrittenType DEF StateTold, TypeInv, StateFiles

\* A step that writes no entry and no state.json.
LEMMA ToldStays ==
    ASSUME StatusesTold, StateTold, UNCHANGED <<journal, db>>,
           me.pc \notin {"save", "level"}, me'.pc \notin {"save", "level"}
    PROVE  StatusesTold' /\ StateTold'
<1>1. /\ \A c \in ChangeSets : JournalStatus(c)' = JournalStatus(c)
      /\ JournalFiles' = JournalFiles
    BY DEF JournalStatus, JournalFiles
<1>2. QED BY <1>1 DEF StatusesTold, StateTold

LEMMA StartAgrees ==
    ASSUME OneProcess, TypeInv, StatusesTold, StateTold, FilesTold, NEW c \in ChangeSets,
           StartGate(Solo, c) \/ StartApply(Solo, c) \/ StartRollback(Solo, c)
    PROVE  StatusesTold' /\ StateTold' /\ FilesTold'
<1>1. /\ me.pc = "idle" /\ UNCHANGED <<files, snapshot, journal, db, crashes>>
      /\ me'.cs = c /\ me'.before = Image(files, Targets(c))
      /\ \/ me'.pc = "append" /\ me'.event \notin ContentEvents
         \/ me'.pc = "snapshot" /\ me'.event = "applied"
         \/ me'.pc = "restore" /\ me'.event = "rolled_back"
    BY StartBegins
<1>2. files = JournalFiles /\ JournalFiles' = JournalFiles
    BY <1>1, NothingWritten, JournalFilesType DEF FilesTold, JournalFiles
<1>3. StatusesTold' /\ StateTold'
    BY <1>1, ToldStays
<1>4. files = Written(JournalFiles, NoTargets)
    BY <1>2, NothingWritten DEF TypeInv
<1>5. FilesTold'
    BY <1>1, <1>2, <1>4 DEF FilesTold, Moved
<1>6. QED BY <1>3, <1>5

LEMMA SnapshotAgrees ==
    ASSUME OneProcess, TypeInv, CommandInv, StatusesTold, StateTold, FilesTold,
           TakeSnapshot(Solo)
    PROVE  StatusesTold' /\ StateTold' /\ FilesTold'
<1>1. /\ me.pc = "snapshot" /\ UNCHANGED <<files, journal, db, crashes>>
      /\ snapshot' = [snapshot EXCEPT ![me.cs] = Image(files, Targets(me.cs))]
    BY DEF TakeSnapshot, At, me
<1>2. /\ me'.pc \in {"write", "restore"} /\ me'.cs = me.cs /\ me'.before = me.before
      /\ me.cs \in ChangeSets
    <2>1. me \in Working /\ me.cs \in ChangeSets
        BY <1>1, Fields
    <2>2. QED BY <2>1, SnapshotProcess DEF TypeInv, Working
<1>3. files = JournalFiles /\ JournalFiles' = JournalFiles
    BY <1>1, NothingWritten, JournalFilesType DEF FilesTold, JournalFiles
<1>4. StatusesTold' /\ StateTold'
    BY <1>1, <1>2, ToldStays
<1>5. me.before = Image(files, Targets(me.cs)) /\ snapshot'[me.cs] = me.before
    BY <1>1, <1>2 DEF CommandInv, TypeInv
<1>6. FilesTold'
    BY <1>1, <1>2, <1>3, <1>5 DEF FilesTold
<1>7. QED BY <1>4, <1>6

\* Targets of the command under way are written.
LEMMA TargetAgrees ==
    ASSUME OneProcess, TypeInv, CommandInv, StatusesTold, StateTold, FilesTold,
           WriteTarget(Solo) \/ RestoreTarget(Solo)
    PROVE  StatusesTold' /\ StateTold' /\ FilesTold'
<1>1. /\ me.pc \in {"write", "restore"} /\ UNCHANGED <<snapshot, journal, db, crashes>>
    BY DEF WriteTarget, RestoreTarget, At, me
<1>2. me \in Working /\ me.todo \subseteq Targets(me.cs)
    BY <1>1, Fields DEF CommandInv
<1>3. \E t \in me.todo : \E x :
        /\ me' = [me EXCEPT !.todo = me.todo \ {t}]
        /\ files' = [files EXCEPT ![t] = x]
    BY WriteProcess, RestoreProcess DEF TypeInv
<1>4. /\ me'.pc = me.pc /\ me'.cs = me.cs /\ me'.before = me.before /\ me'.event = me.event
      /\ \A t \in Paths \ Targets(me.cs) : files'[t] = files[t]
    BY <1>2, <1>3 DEF Working, TypeInv
<1>5. StatusesTold' /\ StateTold' /\ JournalFiles' = JournalFiles
    BY <1>1, <1>4, ToldStays DEF JournalFiles
<1>6. FilesTold'
    BY <1>1, <1>4, <1>5 DEF FilesTold
<1>7. QED BY <1>5, <1>6

LEMMA RevertAgrees ==
    ASSUME OneProcess, TypeInv, CommandInv, StatusesTold, StateTold, FilesTold,
           Revert(Solo)
    PROVE  StatusesTold' /\ StateTold' /\ FilesTold'
<1>1. /\ me.pc = "write" /\ UNCHANGED <<files, snapshot, journal, db, crashes>>
    BY DEF Revert, At, me
<1>2. /\ me'.pc = "restore" /\ me'.cs = me.cs /\ me'.before = me.before
    BY <1>1, RevertProcess, Fields DEF Working, TypeInv
<1>3. StatusesTold' /\ StateTold' /\ JournalFiles' = JournalFiles
    BY <1>1, <1>2, ToldStays DEF JournalFiles
<1>4. me.before = snapshot[me.cs]
    BY <1>1 DEF CommandInv
<1>5. FilesTold'
    BY <1>1, <1>2, <1>3, <1>4 DEF FilesTold
<1>6. QED BY <1>3, <1>5

LEMMA SettleAgrees ==
    ASSUME OneProcess, TypeInv, CommandInv, StatusesTold, StateTold, FilesTold,
           Settle(Solo)
    PROVE  StatusesTold' /\ StateTold' /\ FilesTold'
<1> DEFINE c == me.cs
           after == Image(files, Targets(c))
<1>1. /\ me.pc \in {"write", "restore"} /\ me.todo = {}
      /\ me' = [me EXCEPT !.pc = "append", !.after = after]
      /\ UNCHANGED <<files, snapshot, journal, db, crashes>>
    BY SettleProcess DEF Settle, TypeInv
<1>2. me \in Working /\ c \in ChangeSets /\ Targets(c) \in SUBSET Paths
    BY <1>1, Fields, ChangeFacts
<1>3. /\ me'.pc = "append" /\ me'.cs = c /\ me'.before = me.before /\ me'.event = me.event
      /\ me'.after = after
    <2> HIDE DEF after
    <2>1. QED BY <1>1, <1>2 DEF Working
<1>4. StatusesTold' /\ StateTold' /\ JournalFiles' = JournalFiles
    BY <1>1, <1>3, ToldStays DEF JournalFiles
<1>5. /\ me.before = Image(JournalFiles, Targets(c))
      /\ \A t \in Paths \ Targets(c) : files[t] = JournalFiles[t]
      /\ files \in [Paths -> FileState] /\ JournalFiles \in [Paths -> FileState]
    BY <1>1, JournalFilesType DEF FilesTold, TypeInv
<1>6. files = Written(JournalFiles, Moved')
    <2>1. CASE me.event \in ContentEvents
        <3>1. Moved' = after
            BY <1>3, <2>1 DEF Moved
        <3>2. QED BY <1>2, <1>5, <3>1 DEF Written, Image
    <2>2. CASE me.event \notin ContentEvents
        <3>1. me.pc = "restore" /\ me.event = "rejected"
            BY <1>1, <2>2 DEF CommandInv, ContentEvents
        <3>2. \A t \in Targets(c) : files[t] = snapshot[c][t]
            BY <1>1, <3>1 DEF CommandInv
        <3>3. snapshot[c] = Image(JournalFiles, Targets(c))
            BY <1>5, <3>1 DEF FilesTold
        <3>4. \A t \in Paths : files[t] = JournalFiles[t]
            BY <1>5, <3>2, <3>3 DEF Image
        <3>5. files = JournalFiles
            BY <1>5, <3>4
        <3>6. Moved' = NoTargets
            BY <1>3, <2>2 DEF Moved
        <3>7. QED BY <1>5, <3>5, <3>6, NothingWritten
    <2>3. QED BY <2>1, <2>2
<1>7. FilesTold'
    BY <1>1, <1>3, <1>4, <1>5, <1>6 DEF FilesTold
<1>8. QED BY <1>4, <1>7

LEMMA AppendAgrees ==
    ASSUME OneProcess, TypeInv, CommandInv, StatusesTold, StateTold, FilesTold,
           AppendEntry(Solo)
    PROVE  StatusesTold' /\ StateTold' /\ FilesTold'
<1> DEFINE c == me.cs
           moved == Moved
<1>1. /\ me.pc = "append" /\ me' = [me EXCEPT !.pc = "save"]
      /\ journal' = Append(journal, NewEntry)
      /\ UNCHANGED <<files, snapshot, db, crashes>>
    BY AppendTypes, AppendProcess DEF AppendEntry, TypeInv
<1>2. /\ me \in Working /\ NewEntry \in Entries /\ journal \in Seq(Entries)
      /\ NewEntry.event = me.event /\ NewEntry.cs = c /\ NewEntry.after = moved
    BY <1>1, Fields, NewEntryType DEF TypeInv
<1>3. /\ me'.pc = "save" /\ me'.cs = c /\ me'.event = me.event /\ me'.after = me.after
    BY <1>1, <1>2 DEF Working
<1>4. Moved' = moved
    BY <1>3 DEF Moved
<1>5. /\ \A d \in ChangeSets : JournalStatus(d)' =
            IF c = d THEN StatusAfter[me.event] ELSE JournalStatus(d)
      /\ JournalFiles' = Written(JournalFiles, moved)
    BY <1>1, <1>2, JournalAppended
<1>6. StatusesTold'
    BY <1>1, <1>3, <1>5 DEF StatusesTold
<1>7. JournalFiles = db.heads
    BY <1>1, NothingWritten DEF StateTold, TypeInv, StateFiles
<1>8. db.vouched = Len(journal) /\ Len(journal') = Len(journal) + 1 /\ Len(journal) \in Nat
    BY <1>1, <1>2, AppendFacts DEF StateTold
<1>9. StateTold'
    BY <1>1, <1>3, <1>4, <1>5, <1>7, <1>8 DEF StateTold
<1>10. files = Written(JournalFiles, moved) /\ files \in [Paths -> FileState]
    BY <1>1 DEF FilesTold, TypeInv
<1>11. files' = Written(JournalFiles', NoTargets)
    BY <1>1, <1>5, <1>10, NothingWritten
<1>12. FilesTold'
    BY <1>3, <1>11 DEF FilesTold
<1>13. QED BY <1>6, <1>9, <1>12

LEMMA SaveAgrees ==
    ASSUME OneProcess, TypeInv, CommandInv, StatusesTold, StateTold, FilesTold, Save(Solo)
    PROVE  StatusesTold' /\ StateTold' /\ FilesTold'
<1>1. /\ me.pc = "save" /\ UNCHANGED <<files, snapshot, journal, crashes>>
    BY DEF Save, At, me
<1>2. me \in Working /\ me'.pc \in {"ratchet", "idle"}
    BY <1>1, Fields, SaveProcess DEF TypeInv, Working
<1>3. /\ TypeInv' /\ db'.status = [db.status EXCEPT ![me.cs] = StatusAfter[me.event]]
      /\ db'.heads = Written(db.heads, Moved)
      /\ db'.vouched = Len(journal)
    BY SaveTypes
<1>4. /\ \A c \in ChangeSets : JournalStatus(c)' = JournalStatus(c)
      /\ JournalFiles' = JournalFiles
    BY <1>1 DEF JournalStatus, JournalFiles
<1>5. StatusesTold'
    BY <1>1, <1>2, <1>3, <1>4 DEF StatusesTold, TypeInv, StateFiles
<1>6. JournalFiles = db'.heads /\ db'.heads \in [Paths -> FileState]
    BY <1>1, <1>3 DEF StateTold, TypeInv, StateFiles
<1>7. StateTold'
    BY <1>1, <1>2, <1>3, <1>4, <1>6, NothingWritten DEF StateTold
<1>8. FilesTold'
    BY <1>1, <1>2, <1>4 DEF FilesTold
<1>9. QED BY <1>5, <1>7, <1>8

LEMMA RatchetAgrees ==
    ASSUME OneProcess, TypeInv, CommandInv, StatusesTold, StateTold, FilesTold, Ratchet(Solo)
    PROVE  StatusesTold' /\ StateTold' /\ FilesTold'
<1>1. /\ me.pc = "ratchet" /\ UNCHANGED <<files, snapshot, db, crashes>>
    BY DEF Ratchet, At, me
<1>2. \/ me'.pc = "level" /\ journal' = Append(journal, LoweringEntry)
      \/ me'.pc = "idle" /\ UNCHANGED journal
    BY RatchetTypes
<1>3. /\ \A c \in ChangeSets : JournalStatus(c)' = JournalStatus(c)
      /\ JournalFiles' = JournalFiles
    <2>1. CASE UNCHANGED journal
        BY <2>1 DEF JournalStatus, JournalFiles
    <2>2. QED BY <1>2, <2>1, LoweringAppended
<1>4. StatusesTold' /\ FilesTold'
    BY <1>1, <1>2, <1>3 DEF StatusesTold, FilesTold
<1>5. StateTold'
    BY <1>1, <1>2, <1>3 DEF StateTold
<1>6. QED BY <1>4, <1>5

LEMMA SaveLevelAgrees ==
    ASSUME OneProcess, TypeInv, CommandInv, StatusesTold, StateTold, FilesTold,
           SaveLevel(Solo)
    PROVE  StatusesTold' /\ StateTold' /\ FilesTold'
<1>1. /\ me.pc = "level" /\ me'.pc = "idle" /\ db'.vouched = Len(journal)
      /\ db'.status = db.status /\ db'.heads = db.heads
      /\ UNCHANGED <<files, snapshot, journal, crashes>>
    BY SaveLevelTypes DEF SaveLevel
<1>2. /\ \A c \in ChangeSets : JournalStatus(c)' = JournalStatus(c)
      /\ JournalFiles' = JournalFiles
    BY <1>1 DEF JournalStatus, JournalFiles
<1>3. QED BY <1>1, <1>2 DEF StatusesTold, StateTold, FilesTold

LEMMA NextAgrees ==
    ASSUME OneProcess, TypeInv, CommandInv, AgreeInv, [Next]_vars
    PROVE  AgreeInv'
<1>1. CASE crashes # 0
    <2>1. crashes \in Nat /\ crashes' \in {crashes, crashes + 1}
        BY SoloSteps DEF TypeInv, StartGate, StartApply, StartRollback, Begin, TakeSnapshot,
           WriteTarget, Revert, RestoreTarget, Settle, AppendEntry, Save, Ratchet, SaveLevel,
           Crash, told
    <2>2. QED BY <1>1, <2>1 DEF AgreeInv
<1>2. CASE crashes = 0
    <2>1. StatusesTold /\ StateTold /\ FilesTold
        BY <1>2 DEF AgreeInv
    <2>2. CASE Crash(Solo)
        BY <1>2, <2>2, CrashTypes DEF AgreeInv
    <2>3. CASE UNCHANGED told
        <3>1. /\ me' = me /\ JournalFiles' = JournalFiles
              /\ \A c \in ChangeSets : JournalStatus(c)' = JournalStatus(c)
            BY <2>3 DEF told, me, JournalFiles, JournalStatus
        <3>2. QED
            BY <2>1, <2>3, <3>1 DEF AgreeInv, StatusesTold, StateTold, FilesTold, Moved, told
    <2>4. QED
        BY <2>1, <2>2, <2>3, SoloSteps, StartAgrees, SnapshotAgrees, TargetAgrees, RevertAgrees,
           SettleAgrees, AppendAgrees, SaveAgrees, RatchetAgrees, SaveLevelAgrees DEF AgreeInv
<1>3. QED BY <1>1, <1>2

LEMMA InitAgrees ==
    ASSUME OneProcess, Init
    PROVE  AgreeInv /\ JournalFiles = files /\ \A c \in ChangeSets : JournalStatus(c) = "VALIDATED"
<1>1. TypeInv /\ me.pc = "idle" /\ journal = <<>> /\ files = InitialFiles
    BY InitTypes DEF Init
<1>2. JournalFiles = InitialFiles /\ \A c \in ChangeSets : JournalStatus(c) = "VALIDATED"
    <2>1. DOMAIN journal = {}
        BY <1>1
    <2>2. JournalFiles = [t \in Paths |-> InitialFiles[t]]
        BY <2>1 DEF JournalFiles
    <2>3. QED BY <2>1, <2>2, StepsAssumption DEF JournalStatus
<1>3. Written(InitialFiles, NoTargets) = InitialFiles
    BY NothingWritten, StepsAssumption
<1>4. db.vouched = Len(journal) /\ db.heads = InitialFiles
      /\ \A c \in ChangeSets : db.status[c] = "VALIDATED"
    BY DEF Init
<1>5. QED
    BY <1>1, <1>2, <1>3, <1>4 DEF AgreeInv, StatusesTold, StateTold, FilesTold

LEMMA AgreeAlways ==
    ASSUME OneProcess
    PROVE  Spec => []AgreeInv
<1>1. Init => AgreeInv
    BY InitAgrees
<1>2. TypeInv /\ CommandInv /\ AgreeInv /\ [Next]_vars => AgreeInv'
    BY NextAgrees
<1>3. QED BY <1>1, <1>2, TypesHold, PTL DEF Spec

LEMMA TornAlways ==
    ASSUME OneProcess
    PROVE  Spec => []TornInv
<1>1. Init => TornInv
    BY DEF Init, TornInv
<1>2. TypeInv /\ CommandInv /\ TornInv /\ [Next]_vars => TornInv'
    <2> SUFFICES ASSUME TypeInv, CommandInv, TornInv, [Next]_vars PROVE TornInv'
        OBVIOUS
    <2>1. CASE Crash(Solo)
        BY <2>1 DEF Crash, TornInv, TypeInv
    <2>2. CASE Truncate(Solo)
        BY <2>2 DEF Truncate, TornInv, At, me
    <2>3. CASE Save(Solo) \/ SaveLevel(Solo)
        BY <2>3 DEF Save, SaveLevel, TornInv
    <2>4. CASE UNCHANGED vars
        BY <2>4 DEF vars, TornInv, me
    <2>5. CASE \/ \E c \in ChangeSets :
                    StartGate(Solo, c) \/ StartApply(Solo, c) \/ StartRollback(Solo, c)
               \/ Ratchet(Solo)
        <3>1. \/ ~torn /\ torn' = torn
              \/ me.pc \notin {"save", "level"} /\ UNCHANGED <<torn, crashes>>
            BY <2>5 DEF StartGate, StartApply, StartRollback, Begin, Ratchet, At, me
        <3>2. QED BY <3>1 DEF TornInv
    <2>6. CASE \/ TakeSnapshot(Solo) \/ WriteTarget(Solo) \/ Revert(Solo)
               \/ RestoreTarget(Solo) \/ Settle(Solo) \/ AppendEntry(Solo)
        <3>1. me.pc \notin {"save", "level"} /\ UNCHANGED <<torn, crashes>>
            BY <2>6 DEF TakeSnapshot, WriteTarget, Revert, RestoreTarget, Settle, AppendEntry,
               At, me
        <3>2. QED BY <3>1 DEF TornInv
    <2>7. QED
        BY <2>1, <2>2, <2>3, <2>4, <2>5, <2>6, SoloRuns DEF Next, Step
<1>3. QED BY <1>1, <1>2, TypesHold, PTL DEF Spec

\* Until the first kill, journal, state.json and files agree between commands, verify
\* has nothing to report, and in the commit that a command makes it names nothing but
\* that command's targets.
THEOREM StoriesAgree ==
    ASSUME OneProcess
    PROVE  Spec => []AgreeUntilKilled
<1>1. TypeInv /\ CommandInv /\ AgreeInv /\ TornInv => AgreeUntilKilled
    <2> SUFFICES ASSUME TypeInv, CommandInv, StatusesTold, StateTold, FilesTold, TornInv,
                        crashes = 0
                 PROVE  /\ AtRest => VerifyOK /\ AllAgree
                        /\ \A p \in Processes : Committing(p) =>
                            /\ ~torn
                            /\ db.vouched = Len(journal)
                            /\ {t \in Paths : db.heads[t] \notin {files[t], NoFile}}
                                    \subseteq Targets(proc[p].cs)
        BY DEF AgreeInv, AgreeUntilKilled
    <2>1. /\ JournalFiles \in [Paths -> FileState] /\ db.heads \in [Paths -> FileState]
          /\ Written(JournalFiles, NoTargets) = JournalFiles
          /\ Written(db.heads, NoTargets) = db.heads
        BY JournalFilesType, NothingWritten DEF TypeInv, StateFiles
    <2>2. ASSUME AtRest PROVE VerifyOK /\ AllAgree
        <3>1. me.pc = "idle"
            BY <2>2, SoloRuns DEF AtRest, At, me
        <3>2. files = JournalFiles /\ JournalFiles = db.heads /\ db.vouched = Len(journal)
            BY <2>1, <3>1 DEF StateTold, FilesTold
        <3>3. \A c \in ChangeSets : db.status[c] = JournalStatus(c)
            BY <3>1 DEF StatusesTold
        <3>4. ~torn
            BY <3>1 DEF TornInv
        <3>5. QED BY <3>2, <3>3, <3>4 DEF VerifyOK, AllAgree
    <2>3. ASSUME NEW p \in Processes, Committing(p)
          PROVE  /\ ~torn
                 /\ db.vouched = Len(journal)
                 /\ {t \in Paths : db.heads[t] \notin {files[t], NoFile}}
                        \subseteq Targets(proc[p].cs)
        <3>1. proc[p] = me /\ me.pc \in {"write", "restore"}
            BY <2>3, SoloRuns DEF Committing, At, me
        <3>2. db.vouched = Len(journal) /\ JournalFiles = db.heads
            BY <2>1, <3>1 DEF StateTold
        <3>3. \A t \in Paths \ Targets(me.cs) : files[t] = db.heads[t]
            BY <3>1, <3>2 DEF FilesTold
        <3>4. ~torn
            BY <3>1 DEF TornInv
        <3>5. QED BY <3>1, <3>2, <3>3, <3>4
    <2>4. QED BY <2>2, <2>3
<1>2. QED BY <1>1, AgreeAlways, TornAlways, TypesHold, PTL

\* The first kill is reported by verify, wherever it strikes, or it left journal,
\* state.json and files in agreement but for a file that the command had just created.
THEOREM KillsShow ==
    ASSUME OneProcess
    PROVE  Spec => CrashIsSeen
<1> DEFINE Seen ==
        (\E p \in Processes : Crash(p)) /\ crashes = 0 /\ VerifyOK' =>
            /\ \A c \in ChangeSets : db'.status[c] = JournalStatus(c)'
            /\ \A t \in Paths : JournalFiles'[t] \in {files'[t], NoFile}
<1>1. TypeInv /\ CommandInv /\ AgreeInv => Seen
    <2> SUFFICES ASSUME TypeInv, StatusesTold, StateTold, FilesTold, Crash(Solo), VerifyOK'
                 PROVE  /\ \A c \in ChangeSets : db'.status[c] = JournalStatus(c)'
                        /\ \A t \in Paths : JournalFiles'[t] \in {files'[t], NoFile}
        BY SoloRuns DEF AgreeInv
    <2>1. UNCHANGED <<files, snapshot, journal, db, torn>>
        BY DEF Crash
    <2>2. VerifyOK /\ JournalFiles' = JournalFiles
          /\ \A c \in ChangeSets : JournalStatus(c)' = JournalStatus(c)
        BY <2>1 DEF VerifyOK, JournalFiles, JournalStatus
    <2>3. me.pc # "save"
        BY <2>2 DEF StateTold, VerifyOK
    <2>4. JournalFiles = db.heads
        BY <2>3, NothingWritten DEF StateTold, TypeInv, StateFiles
    <2>5. \A t \in Paths : JournalFiles[t] \in {files[t], NoFile}
        BY <2>2, <2>4 DEF VerifyOK
    <2>6. QED BY <2>1, <2>2, <2>3, <2>5 DEF StatusesTold
<1> HIDE DEF Seen
<1>2. Seen => [Seen]_vars
    OBVIOUS
<1>3. [Seen]_vars =>
        [(\E p \in Processes : Crash(p)) /\ crashes = 0 /\ VerifyOK' =>
            /\ \A c \in ChangeSets : db'.status[c] = JournalStatus(c)'
            /\ \A t \in Paths : JournalFiles'[t] \in {files'[t], NoFile}]_vars
    BY DEF Seen
<1>4. QED BY <1>1, <1>2, <1>3, AgreeAlways, TypesHold, PTL DEF Spec, CrashIsSeen
-----------------------------------------------------------------------------
\* One process implements the governed store until it is killed.

Phases == [c \in ChangeSets |-> Phase(c)]

Saved == [c \in ChangeSets |-> IF Phase(c) = "installed" THEN snapshot[c] ELSE NoSnapshot]

PhaseOf(status) ==
    IF status = "VALIDATED" THEN "open"
    ELSE IF status \in {"QUEUED", "GATE_APPROVED"} THEN "passed"
    ELSE IF status \in {"SUGGESTED", "REJECTED"} THEN "closed"
    ELSE IF status = "APPLIED" THEN "installed" ELSE "undone"

StoreStep == [Store!Next]_Store!storeVars

\* What counts as the contents is what the journal says.
CommittedInv == crashes = 0 => Committed = JournalFiles

LEMMA CommittedIsJournaled ==
    ASSUME OneProcess, TypeInv, StateTold, FilesTold
    PROVE  Committed = JournalFiles
<1>1. JournalFiles \in [Paths -> FileState] /\ JournalFiles = [t \in Paths |-> JournalFiles[t]]
    BY JournalFilesType
<1>2. Committed = [t \in Paths |-> Committed[t]]
    BY DEF Committed
<1>3. ASSUME NEW t \in Paths PROVE Committed[t] = JournalFiles[t]
    <2>1. CASE me.pc \in {"write", "restore", "append"} /\ t \in Targets(me.cs)
        <3>1. (CHOOSE p \in Processes : ~At(p, "idle")) = Solo
            <4>1. ~At(Solo, "idle")
                BY <2>1 DEF At, me
            <4>2. QED BY <4>1, SoloRuns
        <3>2. Committed[t] = me.before[t]
            <4>1. \E p \in Processes : proc[p].pc \in {"write", "restore", "append"}
                                       /\ t \in Targets(proc[p].cs)
                BY <2>1, SoloRuns DEF me
            <4>2. QED BY <3>1, <4>1 DEF Committed, me
        <3>3. me.before = Image(JournalFiles, Targets(me.cs))
            BY <2>1 DEF FilesTold
        <3>4. QED BY <2>1, <3>2, <3>3 DEF Image
    <2>2. CASE ~(me.pc \in {"write", "restore", "append"} /\ t \in Targets(me.cs))
        <3>1. Committed[t] = files[t]
            BY <2>2, SoloRuns DEF Committed, me
        <3>2. files[t] = JournalFiles[t]
            <4>1. CASE me.pc \in {"write", "restore", "append"}
                BY <2>2, <4>1 DEF FilesTold
            <4>2. CASE me.pc \notin {"write", "restore", "append"}
                BY <1>1, <4>2, NothingWritten DEF FilesTold
            <4>3. QED BY <4>1, <4>2
        <3>3. QED BY <3>1, <3>2
    <2>3. QED BY <2>1, <2>2
<1>4. QED BY <1>1, <1>2, <1>3

LEMMA PhasesAre ==
    ASSUME TypeInv, NEW c \in ChangeSets, JournalStatus(c) \in Statuses
    PROVE  Phase(c) = PhaseOf(JournalStatus(c))
BY DEF Phase, PhaseOf, Statuses

\* The steps of the store, with the names of the file operations.
LEMMA StoreActions ==
    ASSUME NEW c \in ChangeSets
    PROVE  /\ (/\ Phases[c] = "open"
               /\ Phases' = [Phases EXCEPT ![c] = "passed"]
               /\ UNCHANGED <<Committed, Saved>>) => Store!PassGates(c)
           /\ (/\ Phases[c] \in {"open", "passed"}
               /\ Phases' = [Phases EXCEPT ![c] = "closed"]
               /\ UNCHANGED <<Committed, Saved>>) => Store!Close(c)
           /\ (/\ Phases[c] = "passed"
               /\ Phases' = [Phases EXCEPT ![c] = "installed"]
               /\ \E touched \in SUBSET Paths :
                    /\ Committed' \in [Paths -> FileState]
                    /\ \A f \in Paths \ touched : Committed'[f] = Committed[f]
                    /\ Saved' = [Saved EXCEPT ![c] = [f \in touched |-> Committed[f]]])
              => Store!Install(c)
           /\ (/\ Phases[c] = "installed"
               /\ Phases' = [Phases EXCEPT ![c] = "undone"]
               /\ Committed' = [f \in Paths |->
                        IF f \in DOMAIN Saved[c] THEN Saved[c][f] ELSE Committed[f]]
               /\ Saved' = [Saved EXCEPT ![c] = NoSnapshot]) => Store!Undo(c)
BY DEF Phases, Saved, Store!PassGates, Store!Close, Store!Install, Store!Undo

\* Steps of which the store sees nothing.
LEMMA StoreStutters ==
    ASSUME Committed' = Committed,
           \A c \in ChangeSets : JournalStatus(c)' = JournalStatus(c),
           \A c \in ChangeSets : Phase(c) = "installed" => snapshot'[c] = snapshot[c]
    PROVE  StoreStep
<1>1. \A c \in ChangeSets : Phase(c)' = Phase(c)
    BY DEF Phase
<1>2. Phases' = Phases /\ Saved' = Saved
    BY <1>1 DEF Phases, Saved
<1>3. QED BY <1>2 DEF StoreStep, Store!storeVars, Phases, Saved

LEMMA AppendStore ==
    ASSUME OneProcess, TypeInv, TypeInv', CommandInv, SnapshotInv,
           StatusesTold, StateTold, FilesTold, StateTold',
           Committed = JournalFiles, Committed' = JournalFiles', AppendEntry(Solo)
    PROVE  StoreStep
<1>0. /\ me.pc = "append" /\ journal' = Append(journal, NewEntry)
      /\ UNCHANGED <<files, snapshot, db, crashes>>
    BY AppendTypes, AppendProcess DEF AppendEntry, TypeInv
<1>1. PICK c \in ChangeSets : c = me.cs
    BY <1>0, Fields
<1>2. /\ me.event \in Events
      /\ NewEntry \in Entries /\ journal \in Seq(Entries)
      /\ NewEntry.event = me.event /\ NewEntry.cs = c /\ NewEntry.after = Moved
    BY <1>0, <1>1, Fields, NewEntryType DEF TypeInv
<1>3. /\ \A d \in ChangeSets :
            JournalStatus(d)' = IF d = c THEN StatusAfter[me.event] ELSE JournalStatus(d)
      /\ JournalFiles' = Written(JournalFiles, Moved)
    BY <1>0, <1>1, <1>2, JournalAppended
<1>4. /\ JournalStatus(c) = db.status[c] /\ StatusAfter[me.event] \in Statuses
      /\ JournalFiles \in [Paths -> FileState]
    BY <1>0, <1>2, JournalFilesType DEF StatusesTold, StatusAfter, Events, Statuses
<1>5. Phase(c) = PhaseOf(db.status[c]) /\ Phase(c)' = PhaseOf(StatusAfter[me.event])
    <2>1. db.status[c] \in Statuses
        BY <1>2 DEF TypeInv, StateFiles
    <2>2. JournalStatus(c)' \in Statuses /\ JournalStatus(c)' = StatusAfter[me.event]
        BY <1>2, <1>3, <1>4
    <2>3. Phase(c)' = PhaseOf(JournalStatus(c)')
        BY <2>2 DEF Phase, PhaseOf, Statuses
    <2>4. QED BY <1>2, <1>4, <2>1, <2>2, <2>3, PhasesAre
<1>6. \A d \in ChangeSets \ {c} : Phase(d)' = Phase(d)
    BY <1>3 DEF Phase
<1>7. /\ Phases' = [Phases EXCEPT ![c] = Phase(c)'] /\ Phases[c] = Phase(c)
      /\ Saved' = [Saved EXCEPT ![c] =
                    IF Phase(c)' = "installed" THEN snapshot[c] ELSE NoSnapshot]
      /\ Saved[c] = IF Phase(c) = "installed" THEN snapshot[c] ELSE NoSnapshot
    BY <1>0, <1>2, <1>6 DEF Phases, Saved
<1>8. db.status[c] = IF me.event = "rolled_back" THEN "APPLIED"
                     ELSE IF me.event \in {"applied", "rejected"} THEN "GATE_APPROVED"
                     ELSE "VALIDATED"
    BY <1>0, <1>1 DEF CommandInv, Reading
<1>9. ASSUME me.event \notin ContentEvents
      PROVE  Committed' = Committed /\ Saved' = Saved
    <2>1. JournalFiles' = JournalFiles
        BY <1>3, <1>4, <1>9, NothingWritten DEF Moved
    <2>2. Phase(c) # "installed" /\ Phase(c)' # "installed"
        BY <1>2, <1>5, <1>8, <1>9 DEF PhaseOf, StatusAfter, ContentEvents, Events
    <2>3. Saved = [d \in ChangeSets |-> Saved[d]]
        BY DEF Saved
    <2>4. QED BY <1>2, <1>7, <2>1, <2>2, <2>3
<1>10. CASE me.event \in {"gated", "queued"}
    <2>1. Phase(c) = "open" /\ Phase(c)' = "passed"
        BY <1>5, <1>8, <1>10 DEF PhaseOf, StatusAfter
    <2>2. Store!PassGates(c)
        BY <1>2, <1>7, <1>9, <1>10, <2>1, StoreActions DEF ContentEvents
    <2>3. QED BY <1>2, <2>2 DEF StoreStep, Store!Next
<1>11. CASE me.event \in {"suggested", "rejected"}
    <2>1. Phase(c) \in {"open", "passed"} /\ Phase(c)' = "closed"
        BY <1>5, <1>8, <1>11 DEF PhaseOf, StatusAfter
    <2>2. Store!Close(c)
        BY <1>2, <1>7, <1>9, <1>11, <2>1, StoreActions DEF ContentEvents
    <2>3. QED BY <1>2, <2>2 DEF StoreStep, Store!Next
<1>12. CASE me.event = "applied"
    <2>1. Phase(c) = "passed" /\ Phase(c)' = "installed"
        BY <1>5, <1>8, <1>12 DEF PhaseOf, StatusAfter
    <2>2. /\ snapshot[c] = Image(JournalFiles, Targets(c))
          /\ Moved \in Saves(c) /\ Targets(c) \in SUBSET Paths
        BY <1>0, <1>1, <1>2, <1>12, ChangeFacts, Fields
           DEF CommandInv, FilesTold, Moved, ContentEvents, TypeInv
    <2>3. Committed' \in [Paths -> FileState]
        BY <1>3, <1>4, <2>2, ChangeFacts, <1>2, WrittenType
    <2>4. \A f \in Paths \ Targets(c) : Committed'[f] = Committed[f]
        BY <1>3, <2>2 DEF Written, Saves
    <2>5. Saved' = [Saved EXCEPT ![c] = [f \in Targets(c) |-> Committed[f]]]
        BY <1>7, <2>1, <2>2 DEF Image
    <2>6. Store!Install(c)
        BY <1>2, <1>7, <2>1, <2>2, <2>3, <2>4, <2>5, StoreActions
    <2>7. QED BY <1>2, <2>6 DEF StoreStep, Store!Next
<1>13. CASE me.event = "rolled_back"
    <2>1. Phase(c) = "installed" /\ Phase(c)' = "undone"
        BY <1>5, <1>8, <1>13 DEF PhaseOf, StatusAfter
    <2>2. Moved = snapshot[c] /\ Saved[c] = snapshot[c]
        BY <1>0, <1>1, <1>7, <1>13, <2>1 DEF CommandInv, Moved, ContentEvents
    <2>3. Committed' = [f \in Paths |->
            IF f \in DOMAIN Saved[c] THEN Saved[c][f] ELSE Committed[f]]
        BY <1>3, <2>2 DEF Written
    <2>4. Saved' = [Saved EXCEPT ![c] = NoSnapshot]
        BY <1>7, <2>1
    <2>5. Store!Undo(c)
        BY <1>2, <1>7, <2>1, <2>3, <2>4, StoreActions
    <2>6. QED BY <1>2, <2>5 DEF StoreStep, Store!Next
<1>14. QED BY <1>2, <1>10, <1>11, <1>12, <1>13 DEF Events

LEMMA NextStore ==
    ASSUME OneProcess, TypeInv, TypeInv', CommandInv, SnapshotInv, AgreeInv, AgreeInv',
           CommittedInv, CommittedInv', [Next]_vars, crashes' = 0
    PROVE  StoreStep
<1>1. crashes = 0 /\ ~Crash(Solo)
    <2>1. crashes \in Nat /\ (crashes' = crashes \/ Crash(Solo))
        BY SoloSteps DEF TypeInv, StartGate, StartApply, StartRollback, Begin, TakeSnapshot,
           WriteTarget, Revert, RestoreTarget, Settle, AppendEntry, Save, Ratchet, SaveLevel,
           told
    <2>2. Crash(Solo) => crashes' = crashes + 1
        BY DEF Crash
    <2>3. QED BY <2>1, <2>2
<1>2. /\ StatusesTold /\ StateTold /\ FilesTold /\ StateTold'
      /\ Committed = JournalFiles /\ Committed' = JournalFiles'
    BY <1>1 DEF AgreeInv, CommittedInv
<1>3. CASE AppendEntry(Solo)
    BY <1>2, <1>3, AppendStore
<1>4. CASE Ratchet(Solo)
    <2>1. /\ UNCHANGED snapshot
          /\ UNCHANGED journal \/ journal' = Append(journal, LoweringEntry)
        BY <1>4, RatchetTypes DEF Ratchet
    <2>2. /\ \A c \in ChangeSets : JournalStatus(c)' = JournalStatus(c)
          /\ JournalFiles' = JournalFiles
        <3>1. CASE UNCHANGED journal
            BY <3>1 DEF JournalStatus, JournalFiles
        <3>2. QED BY <2>1, <3>1, LoweringAppended
    <2>3. QED BY <1>2, <2>1, <2>2, StoreStutters
<1>5. CASE ~AppendEntry(Solo) /\ ~Ratchet(Solo)
    <2>1. UNCHANGED journal
        BY <1>1, <1>5, SoloSteps DEF StartGate, StartApply, StartRollback, Begin, TakeSnapshot,
           WriteTarget, Revert, RestoreTarget, Settle, Save, SaveLevel, told
    <2>2. /\ \A c \in ChangeSets : JournalStatus(c)' = JournalStatus(c)
          /\ JournalFiles' = JournalFiles
        BY <2>1 DEF JournalStatus, JournalFiles
    <2>3. \A c \in ChangeSets : Phase(c) = "installed" => snapshot'[c] = snapshot[c]
        <3>1. CASE UNCHANGED snapshot
            BY <3>1
        <3>2. CASE TakeSnapshot(Solo)
            <4>1. /\ me.pc = "snapshot"
                  /\ snapshot' = [snapshot EXCEPT ![me.cs] = Image(files, Targets(me.cs))]
                BY <3>2 DEF TakeSnapshot, At, me
            <4>2. me.cs \in ChangeSets /\ JournalStatus(me.cs) = "GATE_APPROVED"
                BY <1>2, <4>1, Fields DEF CommandInv, Reading, StatusesTold
            <4>3. Phase(me.cs) = "passed"
                BY <4>2, PhasesAre DEF PhaseOf, Statuses
            <4>4. QED BY <4>1, <4>3 DEF TypeInv
        <3>3. UNCHANGED snapshot \/ TakeSnapshot(Solo)
            BY SoloSteps DEF StartGate, StartApply, StartRollback, Begin, WriteTarget, Revert,
               RestoreTarget, Settle, AppendEntry, Save, Ratchet, SaveLevel, Crash, told
        <3>4. QED BY <3>1, <3>2, <3>3
    <2>4. QED BY <1>2, <2>2, <2>3, StoreStutters
<1>6. QED BY <1>3, <1>4, <1>5

\* The writes, failed attempts and restores of one process look like single steps of
\* the governed store until it is killed: the entry in the journal is where a command
\* takes effect.
THEOREM StepsImplementStore ==
    ASSUME OneProcess
    PROVE  Spec => StoreUntilKilled
<1>1. TypeInv /\ AgreeInv => CommittedInv
    BY CommittedIsJournaled DEF AgreeInv, CommittedInv
<1>2. Init => Store!Init
    <2> SUFFICES ASSUME Init PROVE Store!Init
        OBVIOUS
    <2>1. /\ TypeInv /\ Committed = files /\ files \in [Paths -> FileState]
          /\ \A c \in ChangeSets : JournalStatus(c) = "VALIDATED"
        <3>1. TypeInv /\ AgreeInv /\ crashes = 0
            BY InitTypes, InitAgrees DEF Init
        <3>2. QED BY <1>1, <3>1, InitAgrees DEF CommittedInv, TypeInv
    <2>2. \A c \in ChangeSets : Phase(c) = "open"
        BY <2>1, PhasesAre DEF PhaseOf, Statuses
    <2>3. QED BY <2>1, <2>2 DEF Store!Init
<1>3. /\ TypeInv /\ TypeInv' /\ CommandInv /\ SnapshotInv /\ AgreeInv /\ AgreeInv'
      /\ CommittedInv /\ CommittedInv' /\ [Next]_vars
      => [crashes' = 0 => [Store!Next]_Store!storeVars]_vars
    BY NextStore DEF StoreStep
<1>4. QED
    BY <1>1, <1>2, <1>3, TypesHold, SnapshotsHold, AgreeAlways, PTL
       DEF Spec, StoreUntilKilled
=============================================================================
