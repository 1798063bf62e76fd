--------------------------- MODULE ExecutorProofs ---------------------------
(***************************************************************************)
(* What holds of the lifecycle engine for every set of changes, files,     *)
(* policies and actors, and every disturbance of its environment: types;   *)
(* journal, status and queue; snapshots and rollback; then the journal as  *)
(* a history, where every step writes entries that the lifecycle allows    *)
(* and leaves in state.json what they say.  From that follow what an       *)
(* application must be explained by (gates, approval), that changes take   *)
(* effect once, that heads and levels can be replayed, and that            *)
(* de-escalation engages.                                                  *)
(***************************************************************************)
EXTENDS ExecutorProperties, WellFoundedInduction, SequenceTheorems, TLAPS
-----------------------------------------------------------------------------
\* Positions in a sequence.

\* The last of a set of positions.
LastOf(S) == CHOOSE i \in S : \A j \in S : j <= i

\* A nonempty set of positions has a last one.
LEMMA LastExists ==
    ASSUME NEW n \in Nat, NEW S \in SUBSET (1 .. n), S # {}
    PROVE  LastOf(S) \in S /\ \A j \in S : j <= LastOf(S)
<1> DEFINE T == {n - i : i \in S}
           Less == {ss \in Nat \X Nat : ss[1] < ss[2]}
<1>1. T \subseteq Nat /\ T # {}
    <2>1. \A i \in S : i \in 1 .. n /\ n - i \in Nat
        OBVIOUS
    <2>2. QED BY <2>1
<1>2. PICK m \in T : \A k \in T : <<k, m>> \notin Less
    <2>1. IsWellFoundedOn(Less, Nat)
        BY NatLessThanWellFounded DEF OpToRel
    <2> HIDE DEF Less
    <2>2. QED BY <1>1, <2>1, WFMin
<1>3. ASSUME NEW k \in T PROVE m <= k
    <2>1. k \in Nat /\ m \in Nat /\ <<k, m>> \in Nat \X Nat
        BY <1>1
    <2>2. ~(k < m)
        BY <1>2, <2>1
    <2>3. QED BY <2>1, <2>2
<1>4. PICK i \in S : m = n - i
    OBVIOUS
<1>5. ASSUME NEW j \in S PROVE j <= i
    <2>1. n - j \in T
        OBVIOUS
    <2>2. m <= n - j
        BY <1>3, <2>1
    <2> HIDE DEF T
    <2>3. QED BY <1>4, <2>2
<1>6. QED BY <1>5 DEF LastOf
-----------------------------------------------------------------------------
\* Files and payloads.

\* The state of a target set is a function on exactly that set.
LEMMA ImageType ==
    ASSUME NEW fs \in [Paths -> FileState], NEW targets \in SUBSET Paths
    PROVE  /\ Image(fs, targets) \in [targets -> FileState]
           /\ Image(fs, targets) \in PartialFiles
BY DEF Image, PartialFiles

\* Writing some files gives files.
LEMMA WrittenType ==
    ASSUME NEW fs \in [Paths -> FileState], NEW changes \in PartialFiles
    PROVE  Written(fs, changes) \in [Paths -> FileState]
BY DEF Written, PartialFiles

\* The files of a partial function are files of the workspace.
LEMMA PartialType ==
    ASSUME NEW targets \in SUBSET Paths, NEW changes \in [targets -> FileState]
    PROVE  changes \in PartialFiles
BY DEF PartialFiles

LEMMA NoTargetsType == NoTargets \in PartialFiles
<1>1. NoTargets \in [{} -> FileState]
    BY DEF NoTargets
<1>2. QED BY <1>1, PartialType

\* A target that some patch has is the target of a last one.
LEMMA LastPatchExists ==
    ASSUME NEW patches \in Seq(FilePatch), NEW t \in PatchTargets(patches)
    PROVE  LastPatchOf(patches, t) \in DOMAIN patches
<1> DEFINE S == {j \in 1 .. Len(patches) : PatchTarget(patches[j]) = t}
<1>1. Len(patches) \in Nat /\ DOMAIN patches = 1 .. Len(patches) /\ S # {}
    BY DEF PatchTargets
<1>2. LastOf(S) \in S /\ \A j \in S : j <= LastOf(S)
    BY <1>1, LastExists
<1>3. QED BY <1>1, <1>2 DEF LastPatchOf

\* What a payload that applies leaves in each target is a file.
LEMMA ResultsType ==
    ASSUME NEW payload \in PayloadRecord, NEW targets \in SUBSET Paths,
           NEW fs \in [Paths -> FileState],
           PayloadApplies(payload, targets, fs)
    PROVE  PayloadResults(payload, targets, fs) \in [targets -> FileState]
<1>1. SUFFICES ASSUME NEW t \in targets
      PROVE  PayloadResults(payload, targets, fs)[t] \in FileState
    BY DEF PayloadResults
<1>2. CASE payload.type = "diff"
    <2> DEFINE patches == payload.patches
               last == LastPatchOf(patches, t)
    <2>1. /\ patches \in Seq(FilePatch)
          /\ PatchTargets(patches) = targets
          /\ \A i \in DOMAIN patches : PatchResult(patches[i], fs) # Mismatch
        BY <1>2 DEF PayloadApplies, DiffApplies, PayloadRecord
    <2>2. last \in DOMAIN patches
        BY <2>1, LastPatchExists
    <2>3. patches[last] \in FilePatch
        BY <2>1, <2>2
    <2>4. PatchResult(patches[last], fs) # Mismatch
        BY <2>1, <2>2
    <2>5. PatchResult(patches[last], fs) \in FileState \cup {Mismatch}
        <3> DEFINE patch == patches[last]
        <3>1. patch \in FilePatch
            BY <2>3
        <3> HIDE DEF patch
        <3>2. fs[PatchSource(patch)] \in FileState
            BY <3>1 DEF FilePatch, FilePatchRecord, PatchSource, PatchTarget
        <3>3. QED BY <3>1, <3>2 DEF FilePatch, FilePatchRecord, PatchResult, patch
    <2>6. PayloadResults(payload, targets, fs)[t] = PatchResult(patches[last], fs)
        BY <1>2 DEF PayloadResults
    <2>7. QED BY <2>4, <2>5, <2>6
<1>3. CASE payload.type # "diff"
    BY <1>3 DEF PayloadResults, PayloadApplies, FolderApplies, PayloadRecord
<1>4. QED BY <1>2, <1>3
-----------------------------------------------------------------------------
\* Types.

\* Journal entries are well formed.
LEMMA EntryType ==
    ASSUME NEW event \in Event, NEW c \in ChangeSets \cup {NoChangeSet}
    PROVE  Entry(event, c) \in JournalEntry
BY NoTargetsType, ExecutorAssumption DEF Entry, JournalEntry, Levels

LEMMA GateEntryType ==
    ASSUME NEW e \in JournalEntry, NEW l \in Levels,
           NEW g \in {"validate", "suggest", "gate", "queue", "auto", "human_review",
                      "apply", "de_escalation"}
    PROVE  [e EXCEPT !.gate = g, !.level = l] \in JournalEntry
BY DEF JournalEntry

LEMMA RejectedType ==
    ASSUME NEW c \in ChangeSets,
           NEW g \in {"validate", "gate", "human_review", "apply"}
    PROVE  Rejected(c, g) \in JournalEntry
<1> DEFINE e == Entry("rejected", c)
<1>1. e \in JournalEntry
    BY EntryType DEF Event
<1> HIDE DEF e
<1>2. [e EXCEPT !.gate = g] \in JournalEntry
    BY <1>1 DEF JournalEntry
<1>3. QED BY <1>2 DEF e, Rejected

LEMMA GatedType ==
    ASSUME NEW c \in ChangeSets, NEW l \in Levels,
           NEW g \in {"suggest", "queue", "auto"}
    PROVE  Gated(c, g, l) \in JournalEntry
<1>1. Entry("gated", c) \in JournalEntry
    BY EntryType DEF Event
<1>2. QED BY <1>1, GateEntryType DEF Gated

\* Appending well-formed entries keeps the journal well formed.
LEMMA JournaledType ==
    ASSUME journal \in Seq(JournalEntry), NEW es \in Seq(JournalEntry), Journaled(es)
    PROVE  journal' \in Seq(JournalEntry) /\ journalHead' \in Nat
BY ConcatProperties, LenProperties DEF Journaled

LEMMA DropLevelType ==
    ASSUME NEW l \in Levels, NEW d \in Nat \ {0}
    PROVE  DropLevel(l, d) \in Levels
BY DEF DropLevel, Levels

LEMMA InitTypeInv == Init => TypeInv
<1> SUFFICES ASSUME Init PROVE TypeInv
    OBVIOUS
<1> USE DEF Init
<1>1. policy \in PolicyFile /\ files \in [Paths -> FileState]
    BY ExecutorAssumption
<1>2. levels \in [Layers -> Levels]
    BY <1>1 DEF DeclaredLevels, PolicyFile, ClassPolicy
<1>3. heads \in [Paths -> FileState]
    BY <1>1 DEF BaselineHeads, FileState
<1>4. journal \in Seq(JournalEntry)
    <2> DEFINE e == Entry("genesis", NoChangeSet)
    <2>1. e \in JournalEntry
        BY EntryType DEF Event
    <2> HIDE DEF e
    <2>2. [e EXCEPT !.ext = levels] \in JournalEntry
        BY <1>2, <2>1 DEF JournalEntry
    <2>3. QED BY <2>2 DEF e
<1>5. QED
    BY <1>1, <1>2, <1>3, <1>4, ExecutorAssumption DEF TypeInv, TypeOK, KnownHasFolder, Status

\* A folder found on disk is a ChangeSet folder with targets and a layer.
LEMMA FolderFacts ==
    ASSUME TypeInv, NEW c \in ChangeSets, status[c] # "UNKNOWN"
    PROVE  /\ folder[c] \in ChangeSetFolder
           /\ folder[c].layer \in Layers
           /\ folder[c].targets \in SUBSET Paths
           /\ folder[c].payload \in PayloadRecord
           /\ levels[folder[c].layer] \in Levels
<1>1. folder[c] \in ChangeSetFolder
    BY DEF TypeInv, TypeOK, KnownHasFolder
<1>2. QED BY <1>1 DEF ChangeSetFolder, TypeInv, TypeOK

\* A failed application leaves the files it found, half written and restored.
LEMMA RevertsFromHalf ==
    ASSUME NEW c, NEW st, NEW prior, ApplyReverts(c, st, prior)
    PROVE  \E touched \in SUBSET folder[c].targets : \E partial \in [touched -> FileState] :
                files' = Restore(Written(files, partial), snapshot'[c])
BY DEF ApplyReverts, HalfWritten

\* The four outcomes of apply keep the types, whatever was journaled before them.
LEMMA ApplyTypeInv ==
    ASSUME TypeInv, NEW c \in ChangeSets, status[c] # "UNKNOWN",
           NEW st \in Status, st # "UNKNOWN", NEW prior \in Seq(JournalEntry),
           ApplyAs(c, st, prior), queue' \subseteq ChangeSets
    PROVE  TypeInv'
<1> DEFINE cs == folder[c]
           label == Label(cs, st)
<1>1. /\ cs.targets \in SUBSET Paths
      /\ cs.payload \in PayloadRecord
      /\ label.level \in Levels
      /\ label.gate \in {"auto", "human_review"}
    BY FolderFacts DEF Label, Levels
<1>2. UNCHANGED <<policy, levels, folder, today>>
    BY DEF ApplyAs
<1>3. SUFFICES /\ files' \in [Paths -> FileState]
               /\ heads' \in [Paths -> FileState]
               /\ snapshot' \in [ChangeSets -> PartialFiles \cup {NoSnapshot}]
               /\ journal' \in Seq(JournalEntry)
               /\ journalHead' \in Nat
               /\ status' \in [ChangeSets -> Status]
               /\ \A d \in ChangeSets : status'[d] # "UNKNOWN" => status[d] # "UNKNOWN"
    BY <1>2 DEF TypeInv, TypeOK, KnownHasFolder
<1>4. files \in [Paths -> FileState] /\ heads \in [Paths -> FileState]
    BY DEF TypeInv, TypeOK
<1>5. Image(files, cs.targets) \in PartialFiles
    BY <1>1, <1>4, ImageType
<1>6. TakeSnapshot(c) =>
        /\ snapshot' \in [ChangeSets -> PartialFiles \cup {NoSnapshot}]
        /\ snapshot'[c] = Image(files, cs.targets)
    BY <1>5 DEF TakeSnapshot, TypeInv, TypeOK
<1>7. ASSUME NEW s \in Status, s # "UNKNOWN", status' = [status EXCEPT ![c] = s]
      PROVE  /\ status' \in [ChangeSets -> Status]
             /\ \A d \in ChangeSets : status'[d] # "UNKNOWN" => status[d] # "UNKNOWN"
    BY <1>7 DEF TypeInv, TypeOK
<1>8. ASSUME NEW e \in JournalEntry, Journaled(prior \o <<e>>)
      PROVE  journal' \in Seq(JournalEntry) /\ journalHead' \in Nat
    <2>1. prior \o <<e>> \in Seq(JournalEntry)
        BY ConcatProperties
    <2>2. QED BY <1>8, <2>1, JournaledType DEF TypeInv, TypeOK
<1>9. CASE WeightUpdate(c, st, prior)
    <2> DEFINE e == [Entry("weight_update", c) EXCEPT
                        !.gate = label.gate, !.level = label.level]
    <2>1. e \in JournalEntry
        BY <1>1, EntryType, GateEntryType DEF Event
    <2> HIDE DEF e
    <2>2. Journaled(prior \o <<e>>) /\ status' = [status EXCEPT ![c] = "APPLIED"]
        BY <1>9 DEF WeightUpdate, e
    <2>3. UNCHANGED <<heads, files, snapshot>>
        BY <1>9 DEF WeightUpdate
    <2>4. QED BY <1>4, <1>7, <1>8, <2>1, <2>2, <2>3 DEF TypeInv, TypeOK, Status
<1>10. CASE ApplySucceeds(c, st, prior)
    <2> DEFINE new == PayloadResults(cs.payload, cs.targets, files)
               e == [Entry("applied", c) EXCEPT
                        !.gate = label.gate, !.level = label.level,
                        !.before = Image(files, cs.targets),
                        !.after = Image(files', cs.targets)]
    <2>1. new \in [cs.targets -> FileState]
        BY <1>1, <1>4, <1>10, ResultsType DEF ApplySucceeds
    <2>2. new \in PartialFiles
        BY <1>1, <2>1, PartialType
    <2>3. files' = Written(files, new)
        BY <1>10 DEF ApplySucceeds
    <2>4. files' \in [Paths -> FileState]
        BY <1>4, <2>2, <2>3, WrittenType
    <2>5. Image(files', cs.targets) \in PartialFiles
        BY <1>1, <2>4, ImageType
    <2>6. heads' \in [Paths -> FileState]
        BY <1>4, <1>10, <2>5, WrittenType DEF ApplySucceeds, HeadsRecorded
    <2>7. e \in JournalEntry
        <3> DEFINE f == Entry("applied", c)
        <3>1. f \in JournalEntry
            BY EntryType DEF Event
        <3> HIDE DEF f
        <3>2. [f EXCEPT !.gate = label.gate, !.level = label.level,
                        !.before = Image(files, cs.targets),
                        !.after = Image(files', cs.targets)] \in JournalEntry
            BY <1>1, <1>5, <2>5, <3>1 DEF JournalEntry
        <3>3. QED BY <3>2 DEF f
    <2>8. Journaled(prior \o <<e>>) /\ status' = [status EXCEPT ![c] = "APPLIED"]
        BY <1>10 DEF ApplySucceeds
    <2>9. TakeSnapshot(c)
        BY <1>10 DEF ApplySucceeds
    <2> HIDE DEF e
    <2>10. QED BY <1>6, <1>7, <1>8, <2>4, <2>6, <2>7, <2>8, <2>9 DEF Status
<1>11. CASE ApplyReverts(c, st, prior)
    <2>0. PICK touched \in SUBSET cs.targets :
            \E partial \in [touched -> FileState] :
                files' = Restore(Written(files, partial), snapshot'[c])
        BY <1>11, RevertsFromHalf
    <2>1. PICK partial \in [touched -> FileState] :
            files' = Restore(Written(files, partial), snapshot'[c])
        BY <2>0
    <2>2. TakeSnapshot(c) /\ UNCHANGED heads
        BY <1>11 DEF ApplyReverts
    <2>3. partial \in PartialFiles
        BY <1>1, PartialType
    <2>4. files' \in [Paths -> FileState]
        BY <1>4, <1>5, <1>6, <2>1, <2>2, <2>3, WrittenType DEF Restore
    <2>5. Journaled(prior \o <<Rejected(c, "apply")>>)
          /\ status' = [status EXCEPT ![c] = "REJECTED"]
        BY <1>11 DEF ApplyReverts
    <2>6. Rejected(c, "apply") \in JournalEntry
        BY RejectedType
    <2>7. QED BY <1>4, <1>6, <1>7, <1>8, <2>2, <2>4, <2>5, <2>6 DEF Status
<1>12. CASE ApplyEscapes(c, st, prior)
    <2>1. TakeSnapshot(c) /\ UNCHANGED heads
        BY <1>12 DEF ApplyEscapes
    <2>2. files' \in [Paths -> FileState]
        <3>1. CASE UNCHANGED files
            BY <1>4, <3>1
        <3>2. CASE ~UNCHANGED files
            <4> DEFINE new == PayloadResults(cs.payload, cs.targets, files)
            <4>1. /\ PayloadApplies(cs.payload, cs.targets, files)
                  /\ files' = Written(files, new)
                BY <1>12, <3>2 DEF ApplyEscapes
            <4>2. new \in [cs.targets -> FileState]
                BY <1>1, <1>4, <4>1, ResultsType
            <4>3. new \in PartialFiles
                BY <1>1, <4>2, PartialType
            <4>4. QED BY <1>4, <4>1, <4>3, WrittenType
        <3>3. QED BY <3>1, <3>2
    <2>3. journal' \in Seq(JournalEntry) /\ journalHead' \in Nat
        BY <1>12, JournaledType DEF ApplyEscapes, TypeInv, TypeOK
    <2>4. status' = [status EXCEPT ![c] = st]
        BY <1>12 DEF ApplyEscapes
    <2>5. QED BY <1>4, <1>6, <1>7, <2>1, <2>2, <2>3, <2>4
<1>13. QED BY <1>9, <1>10, <1>11, <1>12 DEF ApplyAs

\* The step of gate common to its four results.
LEMMA GateTypeInv ==
    ASSUME TypeInv, NEW c \in ChangeSets, status[c] # "UNKNOWN",
           NEW e \in JournalEntry, NEW st \in Status,
           GateTo(c, e, st), queue' \subseteq ChangeSets
    PROVE  TypeInv'
<1>1. journal' \in Seq(JournalEntry) /\ journalHead' \in Nat
    <2>1. <<e>> \in Seq(JournalEntry)
        OBVIOUS
    <2>2. QED BY <2>1, JournaledType DEF GateTo, TypeInv, TypeOK
<1>2. QED BY <1>1 DEF GateTo, TypeInv, TypeOK, KnownHasFolder

LEMMA RollbackTypeInv ==
    ASSUME TypeInv, NEW c \in ChangeSets, Rollback(c)
    PROVE  TypeInv'
<1> DEFINE cs == folder[c]
           e == RolledBack(c, snapshot[c])
           lowered == Ratchet(Append(journal, e), cs.layer)
           drop == LevelDrop(cs.layer, lowered)
<1>1. status[c] # "UNKNOWN" /\ snapshot[c] \in PartialFiles
    BY DEF Rollback, CanRollBack, TypeInv, TypeOK
<1>2. /\ cs.layer \in Layers
      /\ cs.targets \in SUBSET Paths
      /\ levels[cs.layer] \in Levels
    BY <1>1, FolderFacts
<1>3. files \in [Paths -> FileState] /\ heads \in [Paths -> FileState]
    BY DEF TypeInv, TypeOK
<1>4. files' \in [Paths -> FileState] /\ heads' \in [Paths -> FileState]
    BY <1>1, <1>3, WrittenType DEF Rollback, Restore, HeadsRecorded
<1>5. lowered \in Levels
    <2>1. policy.deEscalation # NoRule => policy.deEscalation.drop \in Nat \ {0}
        BY DEF TypeInv, TypeOK, PolicyFile, DeEscalationRule
    <2>2. QED BY <1>2, <2>1, DropLevelType DEF Ratchet, DeEscalates
<1>6. e \in JournalEntry
    <2> DEFINE f == Entry("rolled_back", c)
    <2>1. f \in JournalEntry
        BY EntryType DEF Event
    <2>2. Image(files, cs.targets) \in PartialFiles
        BY <1>2, <1>3, ImageType
    <2>3. today \in 0 .. MaxDay
        BY DEF TypeInv, TypeOK
    <2> HIDE DEF f
    <2>4. [f EXCEPT !.before = Image(files, cs.targets), !.after = snapshot[c],
                    !.day = today] \in JournalEntry
        BY <1>1, <2>1, <2>2, <2>3 DEF JournalEntry
    <2>5. QED BY <2>4 DEF f, RolledBack
<1>7. drop \in Seq(JournalEntry)
    <2> DEFINE f == Entry("policy_changed", NoChangeSet)
               x == [layer |-> cs.layer, from |-> levels[cs.layer], to |-> lowered]
    <2>1. f \in JournalEntry
        BY EntryType DEF Event
    <2>2. x \in Effective
        BY <1>2, <1>5 DEF Effective
    <2> HIDE DEF f, x
    <2>3. [f EXCEPT !.gate = "de_escalation", !.ext = x] \in JournalEntry
        BY <2>1, <2>2 DEF JournalEntry
    <2>4. QED BY <2>3 DEF f, x, LevelDrop
<1>8. journal' \in Seq(JournalEntry) /\ journalHead' \in Nat
    <2> HIDE DEF e, drop
    <2>1. <<e>> \o drop \in Seq(JournalEntry)
        BY <1>6, <1>7, ConcatProperties
    <2>2. Journaled(<<e>> \o drop)
        BY DEF Rollback, e, drop
    <2>3. QED BY <2>1, <2>2, JournaledType DEF TypeInv, TypeOK
<1>9. /\ status' = [status EXCEPT ![c] = "ROLLED_BACK"]
      /\ levels' = [levels EXCEPT ![cs.layer] = lowered]
      /\ UNCHANGED <<policy, queue, folder, snapshot, today>>
    BY DEF Rollback
<1> HIDE DEF lowered
<1>10. QED
    BY <1>1, <1>4, <1>5, <1>8, <1>9 DEF TypeInv, TypeOK, KnownHasFolder, Status

\* Whatever is copied over its files, the evidence of a change is a listing.
LEMMA CopiedType ==
    ASSUME NEW listing \in EvidenceListing, NEW new \in Copied(listing)
    PROVE  new \in EvidenceListing
BY DEF Copied

LEMMA AsAttachedType ==
    ASSUME NEW r \in Attachable, NEW attached \in AsAttached(r)
    PROVE  attached \in EvidenceRecord
<1>1. r \in EvidenceRecord
    BY ExecutorAssumption
<1>2. [r EXCEPT !.verifies = FALSE] \in EvidenceRecord
    BY <1>1 DEF EvidenceRecord
<1>3. QED BY <1>1, <1>2 DEF AsAttached

\* What the evidence command leaves, also when it refuses the record.
LEMMA AttachSteps ==
    ASSUME TypeInv, NEW c \in ChangeSets, AttachEvidence(c) \/ AttachRefused(c)
    PROVE  /\ folder[c] # NoFolder
           /\ folder[c] \in ChangeSetFolder
           /\ \E listing \in Copied(folder[c].evidence) :
                \/ folder' = [folder EXCEPT ![c].evidence = listing]
                \/ \E e \in EvidenceIds, r \in Attachable : \E attached \in AsAttached(r) :
                    folder' = [folder EXCEPT ![c].evidence = [listing EXCEPT ![e] = attached]]
<1>1. folder[c] # NoFolder /\ folder[c] \in ChangeSetFolder
    BY DEF AttachEvidence, AttachRefused, TypeInv, TypeOK
<1>2. CASE AttachRefused(c)
    BY <1>1, <1>2 DEF AttachRefused
<1>3. CASE AttachEvidence(c)
    <2>1. PICK listing \in Copied(folder[c].evidence), e \in EvidenceIds, r \in Attachable :
            \E attached \in AsAttached(r) :
                folder' = [folder EXCEPT ![c].evidence = [listing EXCEPT ![e] = attached]]
        BY <1>3 DEF AttachEvidence
    <2>2. QED BY <1>1, <2>1
<1>4. QED BY <1>2, <1>3

\* Every step keeps the type invariant: one step of the proof per action.
LEMMA NextTypeInv == TypeInv /\ [Next]_vars => TypeInv'
<1> SUFFICES ASSUME TypeInv, [Next]_vars PROVE TypeInv'
    OBVIOUS
<1>1. ASSUME NEW c \in ChangeSets, Propose(c)
      PROVE  TypeInv'
    <2>1. PICK cs \in Proposals[c] :
            /\ folder' = [folder EXCEPT ![c] = cs]
            /\ \/ /\ Journaled(<<Entry("proposed", c)>>)
                  /\ status' = [status EXCEPT ![c] = "VALIDATED"]
               \/ /\ Journaled(<<Entry("proposed", c), Rejected(c, "validate")>>)
                  /\ status' = [status EXCEPT ![c] = "REJECTED"]
        BY <1>1 DEF Propose
    <2>2. cs \in ChangeSetFolder /\ cs # NoFolder
        BY ExecutorAssumption
    <2>3. UNCHANGED <<policy, levels, queue, heads, files, snapshot, today>>
        BY <1>1 DEF Propose
    <2>4. journal' \in Seq(JournalEntry) /\ journalHead' \in Nat
        <3>1. Entry("proposed", c) \in JournalEntry
            BY EntryType DEF Event
        <3>2. Rejected(c, "validate") \in JournalEntry
            BY RejectedType
        <3>3. /\ <<Entry("proposed", c)>> \in Seq(JournalEntry)
              /\ <<Entry("proposed", c), Rejected(c, "validate")>> \in Seq(JournalEntry)
            BY <3>1, <3>2
        <3>4. QED BY <2>1, <3>3, JournaledType DEF TypeInv, TypeOK
    <2>5. /\ status' \in [ChangeSets -> Status]
          /\ \A d \in ChangeSets \ {c} : status'[d] = status[d]
        BY <2>1 DEF TypeInv, TypeOK, Status
    <2>6. /\ folder' \in [ChangeSets -> ChangeSetFolder \cup {NoFolder}]
          /\ folder'[c] # NoFolder
          /\ \A d \in ChangeSets \ {c} : folder'[d] = folder[d]
        BY <2>1, <2>2 DEF TypeInv, TypeOK
    <2>7. QED BY <2>3, <2>4, <2>5, <2>6 DEF TypeInv, TypeOK, KnownHasFolder
<1>2. ASSUME NEW c \in ChangeSets, ProposeBadId(c)
      PROVE  TypeInv'
    <2>1. PICK cs \in Proposals[c] : folder' = [folder EXCEPT ![c] = cs]
        BY <1>2 DEF ProposeBadId
    <2>2. cs \in ChangeSetFolder /\ cs # NoFolder
        BY ExecutorAssumption
    <2>3. QED BY <1>2, <2>1, <2>2
              DEF ProposeBadId, stateVars, TypeInv, TypeOK, KnownHasFolder
<1>3. ASSUME NEW c \in ChangeSets, AttachEvidence(c) \/ AttachRefused(c)
      PROVE  TypeInv'
    <2>1. PICK listing \in EvidenceListing :
            folder' = [folder EXCEPT ![c].evidence = listing]
        <3>1. folder[c].evidence \in EvidenceListing
            BY <1>3, AttachSteps DEF ChangeSetFolder
        <3>2. PICK listing \in Copied(folder[c].evidence) :
                \/ folder' = [folder EXCEPT ![c].evidence = listing]
                \/ \E e \in EvidenceIds, r \in Attachable : \E attached \in AsAttached(r) :
                    folder' = [folder EXCEPT ![c].evidence = [listing EXCEPT ![e] = attached]]
            BY <1>3, AttachSteps
        <3>3. listing \in EvidenceListing
            BY <3>1, CopiedType
        <3>4. ASSUME NEW e \in EvidenceIds, NEW attached \in EvidenceRecord
              PROVE  [listing EXCEPT ![e] = attached] \in EvidenceListing
            BY <3>3 DEF EvidenceListing
        <3>5. QED BY <3>2, <3>3, <3>4, AsAttachedType
    <2>2. folder[c] \in ChangeSetFolder
        BY <1>3 DEF AttachEvidence, AttachRefused, TypeInv, TypeOK
    <2>3. [folder[c] EXCEPT !.evidence = listing] \in ChangeSetFolder
        BY <2>2 DEF ChangeSetFolder
    <2>4. folder' = [folder EXCEPT ![c] = [folder[c] EXCEPT !.evidence = listing]]
        BY <2>1
    <2>5. /\ folder' \in [ChangeSets -> ChangeSetFolder \cup {NoFolder}]
          /\ \A d \in ChangeSets : folder[d] # NoFolder => folder'[d] # NoFolder
        BY <2>3, <2>4, ExecutorAssumption DEF TypeInv, TypeOK
    <2>6. QED BY <1>3, <2>5
              DEF AttachEvidence, AttachRefused, stateVars, TypeInv, TypeOK, KnownHasFolder
<1>4. ASSUME NEW c \in ChangeSets, GateSuggest(c)
      PROVE  TypeInv'
    <2>1. Gated(c, "suggest", 0) \in JournalEntry
        BY GatedType DEF Levels
    <2>2. QED BY <1>4, <2>1, GateTypeInv DEF GateSuggest, Status, TypeInv, TypeOK
<1>5. ASSUME NEW c \in ChangeSets, GateReject(c)
      PROVE  TypeInv'
    <2>1. Rejected(c, "gate") \in JournalEntry
        BY RejectedType
    <2>2. QED BY <1>5, <2>1, GateTypeInv DEF GateReject, Status, TypeInv, TypeOK
<1>6. ASSUME NEW c \in ChangeSets, GateQueue(c)
      PROVE  TypeInv'
    <2>1. Gated(c, "queue", levels[folder[c].layer]) \in JournalEntry
        BY <1>6, FolderFacts, GatedType DEF GateQueue
    <2>2. queue' \subseteq ChangeSets
        BY <1>6 DEF GateQueue, TypeInv, TypeOK
    <2>3. QED BY <1>6, <2>1, <2>2, GateTypeInv DEF GateQueue, Status
<1>7. ASSUME NEW c \in ChangeSets, GateAuto(c)
      PROVE  TypeInv'
    <2>1. Gated(c, "auto", levels[folder[c].layer]) \in JournalEntry
        BY <1>7, FolderFacts, GatedType DEF GateAuto
    <2>2. QED BY <1>7, <2>1, GateTypeInv DEF GateAuto, Status, TypeInv, TypeOK
<1>8. ASSUME NEW c \in ChangeSets, Apply(c)
      PROVE  TypeInv'
    <2>1. <<>> \in Seq(JournalEntry)
        OBVIOUS
    <2>2. QED BY <1>8, <2>1, ApplyTypeInv DEF Apply, TypeInv, TypeOK
<1>9. ASSUME NEW c \in ChangeSets, NEW a \in Actors, Approve(c, a)
      PROVE  TypeInv'
    <2> DEFINE e == Entry("approved", c)
    <2>1. e \in JournalEntry
        BY EntryType DEF Event
    <2> HIDE DEF e
    <2>2. [e EXCEPT !.by = a, !.gate = "human_review"] \in JournalEntry
        BY <2>1 DEF JournalEntry
    <2>3. <<[e EXCEPT !.by = a, !.gate = "human_review"]>> \in Seq(JournalEntry)
        BY <2>2
    <2>4. queue' \subseteq ChangeSets
        BY <1>9 DEF Approve, Dequeue, TypeInv, TypeOK
    <2>5. QED BY <1>9, <2>3, <2>4, ApplyTypeInv DEF Approve, Status, e
<1>10. ASSUME NEW c \in ChangeSets, NEW a \in Actors, Reject(c, a)
       PROVE  TypeInv'
    <2> DEFINE e == Rejected(c, "human_review")
    <2>1. e \in JournalEntry
        BY RejectedType
    <2> HIDE DEF e
    <2>2. <<[e EXCEPT !.by = a]>> \in Seq(JournalEntry)
        BY <2>1 DEF JournalEntry
    <2>3. Journaled(<<[e EXCEPT !.by = a]>>)
        BY <1>10 DEF Reject, e
    <2>4. journal' \in Seq(JournalEntry) /\ journalHead' \in Nat
        BY <2>2, <2>3, JournaledType DEF TypeInv, TypeOK
    <2>5. QED BY <1>10, <2>4
              DEF Reject, Dequeue, TypeInv, TypeOK, KnownHasFolder, Status
<1>11. ASSUME NEW c \in ChangeSets, Promote(c)
       PROVE  TypeInv'
    <2>1. <<Entry("promoted", c)>> \in Seq(JournalEntry)
        BY EntryType DEF Event
    <2>2. journal' \in Seq(JournalEntry) /\ journalHead' \in Nat
        BY <1>11, <2>1, JournaledType DEF Promote, TypeInv, TypeOK
    <2>3. QED BY <1>11, <2>2 DEF Promote, TypeInv, TypeOK, KnownHasFolder, Status
<1>12. ASSUME NEW c \in ChangeSets, Rollback(c)
       PROVE  TypeInv'
    BY <1>12, RollbackTypeInv
<1>13. ASSUME NEW c \in ChangeSets, RollbackEscapes(c)
       PROVE  TypeInv'
    <2>1. snapshot[c] \in PartialFiles /\ files \in [Paths -> FileState]
        BY <1>13 DEF RollbackEscapes, CanRollBack, TypeInv, TypeOK
    <2>2. files' \in [Paths -> FileState]
        BY <1>13, <2>1, WrittenType DEF RollbackEscapes, Restore
    <2>3. QED BY <1>13, <2>2
              DEF RollbackEscapes, stateVars, TypeInv, TypeOK, KnownHasFolder
<1>14. CASE HandEdit
    BY <1>14, ExecutorAssumption DEF HandEdit, stateVars, TypeInv, TypeOK, KnownHasFolder
<1>15. CASE EditPolicy
    BY <1>15, ExecutorAssumption
    DEF EditPolicy, stateVars, TypeInv, TypeOK, KnownHasFolder
<1>16. CASE Tick
    BY <1>16, ExecutorAssumption DEF Tick, stateVars, TypeInv, TypeOK, KnownHasFolder
<1>17. CASE UNCHANGED vars
    BY <1>17 DEF vars, TypeInv, TypeOK, KnownHasFolder
<1>18. QED
    BY <1>1, <1>2, <1>3, <1>4, <1>5, <1>6, <1>7, <1>8, <1>9, <1>10, <1>11, <1>12,
       <1>13, <1>14, <1>15, <1>16, <1>17 DEF Next

\* Whatever the changes, policies and disturbances, the state keeps its types and
\* every change known to state.json has its folder on disk.
THEOREM TypeCorrect == Spec => []TypeInv
BY InitTypeInv, NextTypeInv, PTL DEF Spec

\* The type invariant the runs check.
THEOREM TypesHold == Spec => []TypeOK
<1>1. TypeInv => TypeOK
    BY DEF TypeInv
<1>2. QED BY <1>1, TypeCorrect, PTL
-----------------------------------------------------------------------------
\* The journal explains every status, the queue is the set of queued changes, and a
\* rollback restores what the journal says was there before (I5).

LEMMA ShortConcats ==
    ASSUME NEW e, NEW f
    PROVE  <<e>> \o <<>> = <<e>> /\ <<e>> \o <<f>> = <<e, f>>
<1>1. <<e>> \o <<>> = <<e>>
    BY <<e>> \in Seq({e, f}), ConcatEmptySeq
<1>2. <<e>> \o <<f>> = <<e, f>>
    <2> DEFINE s == <<e>> \o <<f>>
               t == <<e, f>>
    <2>1. /\ s \in Seq({e, f}) /\ t \in Seq({e, f})
          /\ Len(s) = Len(t) /\ Len(t) = 2
          /\ s[1] = t[1] /\ s[2] = t[2]
        BY <<e>> \in Seq({e, f}), <<f>> \in Seq({e, f}), ConcatProperties
    <2> HIDE DEF s, t
    <2>2. \A i \in 1 .. Len(s) : s[i] = t[i]
        BY <2>1
    <2>3. s = t
        BY <2>1, <2>2, SeqEqual
    <2>4. QED BY <2>3 DEF s, t
<1>3. QED BY <1>1, <1>2

\* The journal after an append: the old entries, then the new ones.
LEMMA JournalGrows ==
    ASSUME TypeInv, NEW S, NEW es \in Seq(S), Journaled(es)
    PROVE  /\ Len(journal) \in Nat /\ Len(es) \in Nat
           /\ DOMAIN journal = 1 .. Len(journal)
           /\ DOMAIN es = 1 .. Len(es)
           /\ DOMAIN journal' = 1 .. (Len(journal) + Len(es))
           /\ \A i \in DOMAIN journal : journal'[i] = journal[i]
           /\ \A k \in DOMAIN es : journal'[Len(journal) + k] = es[k]
<1>1. journal \in Seq(JournalEntry \cup S) /\ es \in Seq(JournalEntry \cup S)
    BY DEF TypeInv, TypeOK
<1>2. journal' = journal \o es
    BY DEF Journaled
<1>3. QED BY <1>1, <1>2, ConcatProperties, LenProperties

LEMMA Beyond ==
    ASSUME NEW n \in Nat, NEW m \in Nat, NEW i \in 1 .. (n + m), i \notin 1 .. n
    PROVE  i - n \in 1 .. m /\ i = n + (i - n)
OBVIOUS

\* Among entries about c or about no change, the k-th is the newest about c.
NewestAbout(es, k, c) ==
    /\ k \in DOMAIN es
    /\ es[k].cs = c
    /\ \A j \in DOMAIN es : es[j].cs \in {c, NoChangeSet} /\ (j > k => es[j].cs # c)

\* A status set to what the newest of the appended entries says keeps the journal
\* and state.json in step.
LEMMA StatusAppended ==
    ASSUME TypeInv, StatusMatchesJournal, NEW c \in ChangeSets,
           NEW S, NEW es \in Seq(S), Journaled(es),
           NEW k, NewestAbout(es, k, c),
           status' = [status EXCEPT ![c] = StatusAfter(es[k])]
    PROVE  StatusMatchesJournal'
<1> DEFINE n == Len(journal)
<1>1. /\ n \in Nat /\ Len(es) \in Nat
      /\ DOMAIN journal = 1 .. n
      /\ DOMAIN es = 1 .. Len(es)
      /\ DOMAIN journal' = 1 .. (n + Len(es))
      /\ \A i \in DOMAIN journal : journal'[i] = journal[i]
      /\ \A j \in DOMAIN es : journal'[n + j] = es[j]
    BY JournalGrows
<1> HIDE DEF n
<1>0. /\ k \in DOMAIN es
      /\ es[k].cs = c
      /\ \A j \in DOMAIN es : es[j].cs \in {c, NoChangeSet} /\ (j > k => es[j].cs # c)
    BY DEF NewestAbout
<1>2. \A i \in DOMAIN journal' : i \notin DOMAIN journal =>
        \E j \in DOMAIN es : i = n + j /\ journal'[i] = es[j]
    <2>1. ASSUME NEW i \in DOMAIN journal', i \notin DOMAIN journal
          PROVE  i - n \in DOMAIN es /\ i = n + (i - n)
        <3>1. i \in 1 .. (n + Len(es)) /\ i \notin 1 .. n
            BY <1>1, <2>1
        <3>2. QED BY <1>1, <3>1, Beyond
    <2>2. QED BY <1>1, <2>1
<1>3. SUFFICES ASSUME NEW d \in ChangeSets
      PROVE  \/ /\ status'[d] = "UNKNOWN"
                /\ \A i \in DOMAIN journal' : journal'[i].cs # d
             \/ \E i \in DOMAIN journal' :
                /\ journal'[i].cs = d
                /\ \A j \in DOMAIN journal' : journal'[j].cs = d => j <= i
                /\ status'[d] = StatusAfter(journal'[i])
    BY DEF StatusMatchesJournal
<1>4. CASE d = c
    <2>1. n + k \in DOMAIN journal' /\ journal'[n + k] = es[k]
        BY <1>0, <1>1
    <2>2. \A j \in DOMAIN journal' : journal'[j].cs = c => j <= n + k
        <3>1. SUFFICES ASSUME NEW j \in DOMAIN journal', journal'[j].cs = c, j \notin DOMAIN journal
              PROVE  j <= n + k
            BY <1>0, <1>1
        <3>2. PICK m \in DOMAIN es : j = n + m /\ journal'[j] = es[m]
            BY <1>2, <3>1
        <3>3. m <= k
            BY <1>0, <1>1, <3>1, <3>2
        <3>4. QED BY <1>0, <1>1, <3>2, <3>3
    <2>3. status'[d] = StatusAfter(journal'[n + k])
        BY <1>4, <2>1 DEF TypeInv, TypeOK
    <2> DEFINE i == n + k
    <2> HIDE DEF i
    <2>4. /\ i \in DOMAIN journal' /\ journal'[i].cs = d
          /\ \A j \in DOMAIN journal' : journal'[j].cs = d => j <= i
          /\ status'[d] = StatusAfter(journal'[i])
        BY <1>0, <1>4, <2>1, <2>2, <2>3 DEF i
    <2>5. QED BY <2>4
<1>5. CASE d # c
    <2>1. \A i \in DOMAIN journal' : i \notin DOMAIN journal => journal'[i].cs # d
        BY <1>0, <1>2, <1>5, ExecutorAssumption
    <2>2. status'[d] = status[d]
        BY <1>5 DEF TypeInv, TypeOK
    <2>3. DOMAIN journal \subseteq DOMAIN journal'
        BY <1>1
    <2>4. CASE /\ status[d] = "UNKNOWN"
               /\ \A i \in DOMAIN journal : journal[i].cs # d
        BY <1>1, <2>1, <2>2, <2>4
    <2>5. CASE \E i \in DOMAIN journal :
                /\ journal[i].cs = d
                /\ \A j \in DOMAIN journal : journal[j].cs = d => j <= i
                /\ status[d] = StatusAfter(journal[i])
        <3>1. PICK i \in DOMAIN journal :
                /\ journal[i].cs = d
                /\ \A j \in DOMAIN journal : journal[j].cs = d => j <= i
                /\ status[d] = StatusAfter(journal[i])
            BY <2>5
        <3>2. \A j \in DOMAIN journal' : journal'[j].cs = d => j <= i
            BY <1>1, <2>1, <3>1
        <3>3. i \in DOMAIN journal' /\ journal'[i] = journal[i]
            BY <1>1, <2>3
        <3>4. QED BY <2>2, <3>1, <3>2, <3>3
    <2>6. \/ /\ status[d] = "UNKNOWN"
             /\ \A i \in DOMAIN journal : journal[i].cs # d
          \/ \E i \in DOMAIN journal :
                /\ journal[i].cs = d
                /\ \A j \in DOMAIN journal : journal[j].cs = d => j <= i
                /\ status[d] = StatusAfter(journal[i])
        BY DEF StatusMatchesJournal
    <2>7. QED BY <2>4, <2>5, <2>6
<1>6. QED BY <1>4, <1>5

\* One entry about c.
LEMMA StatusAppendedOne ==
    ASSUME TypeInv, StatusMatchesJournal, NEW c \in ChangeSets,
           NEW e, Journaled(<<e>>), e.cs = c,
           status' = [status EXCEPT ![c] = StatusAfter(e)]
    PROVE  StatusMatchesJournal'
<1> DEFINE es == <<e>>
<1>1. es \in Seq({e}) /\ DOMAIN es = {1} /\ es[1] = e
    OBVIOUS
<1>2. Journaled(es)
    OBVIOUS
<1> HIDE DEF es
<1>3. NewestAbout(es, 1, c)
    BY <1>1 DEF NewestAbout
<1>4. status' = [status EXCEPT ![c] = StatusAfter(es[1])]
    BY <1>1
<1>5. QED BY <1>1, <1>2, <1>3, <1>4, StatusAppended

\* Two entries about c, or one about c and one about no change.
LEMMA StatusAppendedTwo ==
    ASSUME TypeInv, StatusMatchesJournal, NEW c \in ChangeSets,
           NEW e, NEW f,
           Journaled(<<e, f>>), e.cs = c,
           \/ f.cs = c /\ status' = [status EXCEPT ![c] = StatusAfter(f)]
           \/ f.cs = NoChangeSet /\ status' = [status EXCEPT ![c] = StatusAfter(e)]
    PROVE  StatusMatchesJournal'
<1> DEFINE es == <<e, f>>
<1>1. es \in Seq({e, f}) /\ DOMAIN es = {1, 2} /\ es[1] = e /\ es[2] = f
    OBVIOUS
<1>2. Journaled(es)
    OBVIOUS
<1> HIDE DEF es
<1>3. CASE f.cs = c /\ status' = [status EXCEPT ![c] = StatusAfter(f)]
    <2>1. NewestAbout(es, 2, c)
        BY <1>1, <1>3 DEF NewestAbout
    <2>2. status' = [status EXCEPT ![c] = StatusAfter(es[2])]
        BY <1>1, <1>3
    <2>3. QED BY <1>1, <1>2, <2>1, <2>2, StatusAppended
<1>4. CASE f.cs = NoChangeSet /\ status' = [status EXCEPT ![c] = StatusAfter(e)]
    <2>1. NewestAbout(es, 1, c)
        BY <1>1, <1>4, ExecutorAssumption DEF NewestAbout
    <2>2. status' = [status EXCEPT ![c] = StatusAfter(es[1])]
        BY <1>1, <1>4
    <2>3. QED BY <1>1, <1>2, <2>1, <2>2, StatusAppended
<1>5. QED BY <1>3, <1>4

\* Nothing journaled, no status changed.
LEMMA StatusKept ==
    ASSUME StatusMatchesJournal, UNCHANGED <<status, journal>>
    PROVE  StatusMatchesJournal'
BY DEF StatusMatchesJournal

\* What an entry of each kind leaves its change in.
LEMMA StatusAfterCases ==
    ASSUME NEW e
    PROVE  /\ e.event = "proposed" => StatusAfter(e) = "VALIDATED"
           /\ e.event = "gated" /\ e.gate = "suggest" => StatusAfter(e) = "SUGGESTED"
           /\ e.event = "gated" /\ e.gate = "queue" => StatusAfter(e) = "QUEUED"
           /\ e.event = "gated" /\ e.gate = "auto" => StatusAfter(e) = "GATE_APPROVED"
           /\ e.event = "approved" => StatusAfter(e) = "APPROVED"
           /\ e.event = "rejected" => StatusAfter(e) = "REJECTED"
           /\ e.event = "applied" => StatusAfter(e) = "APPLIED"
           /\ e.event = "weight_update" => StatusAfter(e) = "APPLIED"
           /\ e.event = "promoted" => StatusAfter(e) = "PROMOTED"
           /\ e.event = "rolled_back" => StatusAfter(e) = "ROLLED_BACK"
BY DEF StatusAfter

\* An application journals one entry that says what it did, or escapes and leaves
\* what was journaled before it.
LEMMA ApplyJournals ==
    ASSUME NEW c, NEW st, NEW prior, ApplyAs(c, st, prior)
    PROVE  \/ \E e : /\ e.cs = c
                    /\ Journaled(prior \o <<e>>)
                    /\ status' = [status EXCEPT ![c] = StatusAfter(e)]
           \/ /\ Journaled(prior)
              /\ status' = [status EXCEPT ![c] = st]
<1> DEFINE cs == folder[c]
           label == Label(cs, st)
<1>1. CASE WeightUpdate(c, st, prior)
    <2> DEFINE e == [Entry("weight_update", c) EXCEPT
                        !.gate = label.gate, !.level = label.level]
    <2>1. e.cs = c /\ e.event = "weight_update"
        BY DEF Entry
    <2>2. Journaled(prior \o <<e>>) /\ status' = [status EXCEPT ![c] = "APPLIED"]
        BY <1>1 DEF WeightUpdate
    <2> HIDE DEF e
    <2>3. QED BY <2>1, <2>2, StatusAfterCases
<1>2. CASE ApplySucceeds(c, st, prior)
    <2> DEFINE e == [Entry("applied", c) EXCEPT
                        !.gate = label.gate, !.level = label.level,
                        !.before = Image(files, cs.targets),
                        !.after = Image(files', cs.targets)]
    <2>1. e.cs = c /\ e.event = "applied"
        BY DEF Entry
    <2>2. Journaled(prior \o <<e>>) /\ status' = [status EXCEPT ![c] = "APPLIED"]
        BY <1>2 DEF ApplySucceeds
    <2> HIDE DEF e
    <2>3. QED BY <2>1, <2>2, StatusAfterCases
<1>3. CASE ApplyReverts(c, st, prior)
    <2> DEFINE e == Rejected(c, "apply")
    <2>1. e.cs = c /\ e.event = "rejected"
        BY DEF Rejected, Entry
    <2>2. Journaled(prior \o <<e>>) /\ status' = [status EXCEPT ![c] = "REJECTED"]
        BY <1>3 DEF ApplyReverts
    <2> HIDE DEF e
    <2>3. QED BY <2>1, <2>2, StatusAfterCases
<1>4. CASE ApplyEscapes(c, st, prior)
    BY <1>4 DEF ApplyEscapes
<1>5. QED BY <1>1, <1>2, <1>3, <1>4 DEF ApplyAs
-----------------------------------------------------------------------------
LEMMA InitStatus == Init => StatusMatchesJournal
<1> SUFFICES ASSUME Init PROVE StatusMatchesJournal
    OBVIOUS
<1> DEFINE e == [Entry("genesis", NoChangeSet) EXCEPT !.ext = levels]
<1>1. e.cs = NoChangeSet
    BY DEF Entry
<1>2. journal = <<e>>
    BY DEF Init
<1> HIDE DEF e
<1>3. \A i \in DOMAIN journal : journal[i].cs = NoChangeSet
    BY <1>1, <1>2
<1>4. \A c \in ChangeSets : status[c] = "UNKNOWN"
    BY DEF Init
<1>5. QED BY <1>3, <1>4, ExecutorAssumption DEF StatusMatchesJournal

\* Every step keeps the journal and state.json in step: one step of the proof per
\* action that journals.
LEMMA NextStatus == TypeInv /\ StatusMatchesJournal /\ [Next]_vars => StatusMatchesJournal'
<1> SUFFICES ASSUME TypeInv, StatusMatchesJournal, [Next]_vars
    PROVE  StatusMatchesJournal'
    OBVIOUS
<1>1. ASSUME NEW c \in ChangeSets, Propose(c)
      PROVE  StatusMatchesJournal'
    <2> DEFINE e == Entry("proposed", c)
               f == Rejected(c, "validate")
    <2>1. /\ e.cs = c /\ e.event = "proposed"
          /\ f.cs = c /\ f.event = "rejected"
        BY DEF Entry, Rejected
    <2>2. \/ Journaled(<<e>>) /\ status' = [status EXCEPT ![c] = "VALIDATED"]
          \/ Journaled(<<e, f>>) /\ status' = [status EXCEPT ![c] = "REJECTED"]
        BY <1>1 DEF Propose
    <2> HIDE DEF e, f
    <2>3. StatusAfter(e) = "VALIDATED" /\ StatusAfter(f) = "REJECTED"
        BY <2>1, StatusAfterCases
    <2>4. QED BY <2>1, <2>2, <2>3, StatusAppendedOne, StatusAppendedTwo
<1>2. ASSUME NEW c \in ChangeSets, NEW e, NEW st, GateTo(c, e, st),
             e.cs = c, StatusAfter(e) = st
      PROVE  StatusMatchesJournal'
    BY <1>2, StatusAppendedOne DEF GateTo
<1>3. ASSUME NEW c \in ChangeSets, GateSuggest(c)
      PROVE  StatusMatchesJournal'
    <2> DEFINE e == Gated(c, "suggest", 0)
    <2>1. e.cs = c /\ e.event = "gated" /\ e.gate = "suggest"
        BY DEF Gated, Entry
    <2>2. GateTo(c, e, "SUGGESTED")
        BY <1>3 DEF GateSuggest
    <2> HIDE DEF e
    <2>3. QED BY <1>2, <2>1, <2>2, StatusAfterCases
<1>4. ASSUME NEW c \in ChangeSets, GateReject(c)
      PROVE  StatusMatchesJournal'
    <2> DEFINE e == Rejected(c, "gate")
    <2>1. e.cs = c /\ e.event = "rejected"
        BY DEF Rejected, Entry
    <2>2. GateTo(c, e, "REJECTED")
        BY <1>4 DEF GateReject
    <2> HIDE DEF e
    <2>3. QED BY <1>2, <2>1, <2>2, StatusAfterCases
<1>5. ASSUME NEW c \in ChangeSets, GateQueue(c)
      PROVE  StatusMatchesJournal'
    <2> DEFINE e == Gated(c, "queue", levels[folder[c].layer])
    <2>1. e.cs = c /\ e.event = "gated" /\ e.gate = "queue"
        BY DEF Gated, Entry
    <2>2. GateTo(c, e, "QUEUED")
        BY <1>5 DEF GateQueue
    <2> HIDE DEF e
    <2>3. QED BY <1>2, <2>1, <2>2, StatusAfterCases
<1>6. ASSUME NEW c \in ChangeSets, GateAuto(c)
      PROVE  StatusMatchesJournal'
    <2> DEFINE e == Gated(c, "auto", levels[folder[c].layer])
    <2>1. e.cs = c /\ e.event = "gated" /\ e.gate = "auto"
        BY DEF Gated, Entry
    <2>2. GateTo(c, e, "GATE_APPROVED")
        BY <1>6 DEF GateAuto
    <2> HIDE DEF e
    <2>3. QED BY <1>2, <2>1, <2>2, StatusAfterCases
<1>7. ASSUME NEW c \in ChangeSets, Apply(c)
      PROVE  StatusMatchesJournal'
    <2>1. ApplyAs(c, status[c], <<>>)
        BY <1>7 DEF Apply
    <2>2. CASE \E e : /\ e.cs = c
                      /\ Journaled(<<>> \o <<e>>)
                      /\ status' = [status EXCEPT ![c] = StatusAfter(e)]
        <3>1. PICK e : /\ e.cs = c
                       /\ Journaled(<<>> \o <<e>>)
                       /\ status' = [status EXCEPT ![c] = StatusAfter(e)]
            BY <2>2
        <3>2. <<>> \o <<e>> = <<e>>
            OBVIOUS
        <3>3. QED BY <3>1, <3>2, StatusAppendedOne
    <2>3. CASE Journaled(<<>>) /\ status' = [status EXCEPT ![c] = status[c]]
        BY <2>3, StatusKept DEF Journaled, TypeInv, TypeOK
    <2>4. QED BY <2>1, <2>2, <2>3, ApplyJournals
<1>8. ASSUME NEW c \in ChangeSets, NEW a \in Actors, Approve(c, a)
      PROVE  StatusMatchesJournal'
    <2> DEFINE p == [Entry("approved", c) EXCEPT !.by = a, !.gate = "human_review"]
    <2>1. p.cs = c /\ p.event = "approved"
        BY DEF Entry
    <2>2. ApplyAs(c, "APPROVED", <<p>>)
        BY <1>8 DEF Approve
    <2> HIDE DEF p
    <2>3. StatusAfter(p) = "APPROVED"
        BY <2>1, StatusAfterCases
    <2>4. CASE \E e : /\ e.cs = c
                      /\ Journaled(<<p>> \o <<e>>)
                      /\ status' = [status EXCEPT ![c] = StatusAfter(e)]
        <3>1. PICK e : /\ e.cs = c
                       /\ Journaled(<<p>> \o <<e>>)
                       /\ status' = [status EXCEPT ![c] = StatusAfter(e)]
            BY <2>4
        <3>2. <<p>> \o <<e>> = <<p, e>>
            BY ShortConcats
        <3>3. QED BY <2>1, <3>1, <3>2, StatusAppendedTwo
    <2>5. CASE Journaled(<<p>>) /\ status' = [status EXCEPT ![c] = "APPROVED"]
        BY <2>1, <2>3, <2>5, StatusAppendedOne
    <2>6. QED BY <2>2, <2>4, <2>5, ApplyJournals
<1>9. ASSUME NEW c \in ChangeSets, NEW a \in Actors, Reject(c, a)
      PROVE  StatusMatchesJournal'
    <2> DEFINE e == [Rejected(c, "human_review") EXCEPT !.by = a]
    <2>1. e.cs = c /\ e.event = "rejected"
        BY DEF Rejected, Entry
    <2>2. Journaled(<<e>>) /\ status' = [status EXCEPT ![c] = "REJECTED"]
        BY <1>9 DEF Reject
    <2> HIDE DEF e
    <2>3. QED BY <2>1, <2>2, StatusAfterCases, StatusAppendedOne
<1>10. ASSUME NEW c \in ChangeSets, Promote(c)
       PROVE  StatusMatchesJournal'
    <2> DEFINE e == Entry("promoted", c)
    <2>1. e.cs = c /\ e.event = "promoted"
        BY DEF Entry
    <2>2. Journaled(<<e>>) /\ status' = [status EXCEPT ![c] = "PROMOTED"]
        BY <1>10 DEF Promote
    <2> HIDE DEF e
    <2>3. QED BY <2>1, <2>2, StatusAfterCases, StatusAppendedOne
<1>11. ASSUME NEW c \in ChangeSets, Rollback(c)
       PROVE  StatusMatchesJournal'
    <2> DEFINE e == RolledBack(c, snapshot[c])
               layer == folder[c].layer
               lowered == Ratchet(Append(journal, e), layer)
               f == [Entry("policy_changed", NoChangeSet) EXCEPT
                        !.gate = "de_escalation",
                        !.ext = [layer |-> layer, from |-> levels[layer], to |-> lowered]]
    <2>1. e.cs = c /\ e.event = "rolled_back" /\ f.cs = NoChangeSet
        BY DEF RolledBack, Entry
    <2>2. /\ Journaled(<<e>> \o LevelDrop(layer, lowered))
          /\ status' = [status EXCEPT ![c] = "ROLLED_BACK"]
        BY <1>11 DEF Rollback
    <2>3. LevelDrop(layer, lowered) = <<>> \/ LevelDrop(layer, lowered) = <<f>>
        BY DEF LevelDrop
    <2> HIDE DEF e, f, lowered
    <2>4. <<e>> \o <<>> = <<e>> /\ <<e>> \o <<f>> = <<e, f>>
        BY ShortConcats
    <2>5. StatusAfter(e) = "ROLLED_BACK"
        BY <2>1, StatusAfterCases
    <2>6. Journaled(<<e>>) \/ Journaled(<<e, f>>)
        BY <2>2, <2>3, <2>4
    <2>7. status' = [status EXCEPT ![c] = StatusAfter(e)]
        BY <2>2, <2>5
    <2>8. QED BY <2>1, <2>6, <2>7, StatusAppendedOne, StatusAppendedTwo
<1>12. ASSUME UNCHANGED <<status, journal>>
       PROVE  StatusMatchesJournal'
    BY <1>12, StatusKept
<1>13. QED
    BY <1>1, <1>3, <1>4, <1>5, <1>6, <1>7, <1>8, <1>9, <1>10, <1>11, <1>12
    DEF Next, ProposeBadId, AttachEvidence, AttachRefused, RollbackEscapes, HandEdit, EditPolicy,
        Tick, stateVars, vars

\* However the commands, their failures and the environment interleave, the status
\* of every change can be rebuilt from the journal.
THEOREM JournalExplainsStatus == Spec => []StatusMatchesJournal
<1>1. Init => TypeInv /\ StatusMatchesJournal
    BY InitTypeInv, InitStatus
<1>2. (TypeInv /\ StatusMatchesJournal) /\ [Next]_vars => (TypeInv /\ StatusMatchesJournal)'
    BY NextTypeInv, NextStatus
<1>3. QED BY <1>1, <1>2, PTL DEF Spec
-----------------------------------------------------------------------------
\* An application leaves its change applied, rejected, or as approved as it was.
LEMMA ApplyStatus ==
    ASSUME NEW c, NEW st, NEW prior, ApplyAs(c, st, prior)
    PROVE  \E s \in {"APPLIED", "REJECTED", st} : status' = [status EXCEPT ![c] = s]
BY DEF ApplyAs, WeightUpdate, ApplySucceeds, ApplyReverts, ApplyEscapes

LEMMA NextQueue == TypeInv /\ QueueMatchesStatus /\ [Next]_vars => QueueMatchesStatus'
<1> SUFFICES ASSUME TypeInv, QueueMatchesStatus, [Next]_vars
    PROVE  QueueMatchesStatus'
    OBVIOUS
<1> DEFINE Moves(c, s) == s # "QUEUED" /\ status' = [status EXCEPT ![c] = s]
<1>1. status \in [ChangeSets -> Status] /\ queue = {d \in ChangeSets : status[d] = "QUEUED"}
    BY DEF TypeInv, TypeOK, QueueMatchesStatus
<1>2. ASSUME NEW c \in ChangeSets, NEW s, Moves(c, s),
             \/ queue' = queue /\ status[c] # "QUEUED"
             \/ queue' = queue \ {c}
      PROVE  QueueMatchesStatus'
    BY <1>1, <1>2 DEF QueueMatchesStatus
<1>3. ASSUME NEW c \in ChangeSets, GateQueue(c)
      PROVE  QueueMatchesStatus'
    BY <1>1, <1>3 DEF GateQueue, GateTo, QueueMatchesStatus
<1>4. ASSUME NEW c \in ChangeSets,
             Propose(c) \/ GateSuggest(c) \/ GateReject(c) \/ GateAuto(c) \/ Promote(c)
                \/ Rollback(c)
      PROVE  QueueMatchesStatus'
    <2>1. queue' = queue /\ \E s : Moves(c, s)
        BY <1>4 DEF Propose, GateSuggest, GateReject, GateAuto, GateTo, Promote, Rollback
    <2>2. status[c] # "QUEUED"
        BY <1>4 DEF Propose, GateSuggest, GateReject, GateAuto, Promote, Rollback,
                    CanRollBack, TypeInv, KnownHasFolder
    <2>3. QED BY <1>2, <2>1, <2>2
<1>5. ASSUME NEW c \in ChangeSets, Apply(c)
      PROVE  QueueMatchesStatus'
    <2>1. PICK s \in {"APPLIED", "REJECTED", status[c]} : status' = [status EXCEPT ![c] = s]
        BY <1>5, ApplyStatus DEF Apply
    <2>2. queue' = queue /\ status[c] # "QUEUED" /\ Moves(c, s)
        BY <1>5, <2>1 DEF Apply
    <2>3. QED BY <1>2, <2>2
<1>6. ASSUME NEW c \in ChangeSets, NEW a \in Actors, Approve(c, a)
      PROVE  QueueMatchesStatus'
    <2>1. PICK s \in {"APPLIED", "REJECTED", "APPROVED"} : status' = [status EXCEPT ![c] = s]
        BY <1>6, ApplyStatus DEF Approve
    <2>2. queue' = queue \ {c} /\ Moves(c, s)
        BY <1>6, <2>1 DEF Approve, Dequeue
    <2>3. QED BY <1>2, <2>2
<1>7. ASSUME NEW c \in ChangeSets, NEW a \in Actors, Reject(c, a)
      PROVE  QueueMatchesStatus'
    <2>1. queue' = queue \ {c} /\ Moves(c, "REJECTED")
        BY <1>7 DEF Reject, Dequeue
    <2>2. QED BY <1>2, <2>1
<1>8. ASSUME UNCHANGED <<status, queue>>
      PROVE  QueueMatchesStatus'
    BY <1>8 DEF QueueMatchesStatus
<1>9. QED
    BY <1>3, <1>4, <1>5, <1>6, <1>7, <1>8
    DEF Next, ProposeBadId, AttachEvidence, AttachRefused, RollbackEscapes, HandEdit, EditPolicy,
        Tick, stateVars, vars

\* The review queue is exactly the set of changes waiting for a reviewer.
THEOREM QueueIsQueued == Spec => []QueueMatchesStatus
<1>1. Init => TypeInv /\ QueueMatchesStatus
    BY InitTypeInv DEF Init, QueueMatchesStatus
<1>2. (TypeInv /\ QueueMatchesStatus) /\ [Next]_vars => (TypeInv /\ QueueMatchesStatus)'
    BY NextTypeInv, NextQueue
<1>3. QED BY <1>1, <1>2, PTL DEF Spec
-----------------------------------------------------------------------------
\* No entry is lost or altered.
Extended ==
    \A i \in DOMAIN journal : i \in DOMAIN journal' /\ journal'[i] = journal[i]

LEMMA JournaledExtends ==
    ASSUME TypeInv, NEW S, NEW es \in Seq(S), Journaled(es)
    PROVE  Extended
BY JournalGrows DEF Extended

Live == {"APPLIED", "PROMOTED"}

\* Nothing about d that a rollback of d depends on changed.
SameChange(d) ==
    /\ status[d] \in Live
    /\ snapshot'[d] = snapshot[d]
    /\ folder'[d].targets = folder[d].targets
    /\ folder'[d].payload = folder[d].payload

\* A step that makes no change live, and leaves the snapshots and folders of live
\* ones alone, keeps SnapshotInv.
LEMMA SnapshotKept ==
    ASSUME SnapshotInv, Extended,
           \A d \in ChangeSets : status'[d] \in Live =>
                SameChange(d) \/ folder'[d].payload.type = "opaque"
    PROVE  SnapshotInv'
<1>1. SUFFICES ASSUME NEW d \in ChangeSets, status'[d] \in Live,
                      folder'[d].payload.type # "opaque"
      PROVE  /\ snapshot'[d] \in [folder'[d].targets -> FileState]
             /\ \E i \in DOMAIN journal' :
                /\ journal'[i].cs = d
                /\ journal'[i].event = "applied"
                /\ journal'[i].before = snapshot'[d]
    BY DEF SnapshotInv, Live
<1>2. SameChange(d)
    BY <1>1
<1>3. /\ snapshot[d] \in [folder[d].targets -> FileState]
      /\ \E i \in DOMAIN journal :
            /\ journal[i].cs = d
            /\ journal[i].event = "applied"
            /\ journal[i].before = snapshot[d]
    BY <1>1, <1>2 DEF SnapshotInv, SameChange, Live
<1>4. QED BY <1>2, <1>3 DEF SameChange, Extended

OtherSnapshotsKept(c) == \A d \in ChangeSets \ {c} : snapshot'[d] = snapshot[d]

\* The same for a step about one change c.
LEMMA SnapshotOthersKept ==
    ASSUME SnapshotInv, TypeInv, Extended,
           NEW c \in ChangeSets, NEW s, status' = [status EXCEPT ![c] = s],
           \/ s \notin Live
           \/ status[c] \in Live /\ snapshot' = snapshot
           \/ folder[c].payload.type = "opaque",
           OtherSnapshotsKept(c),
           folder' = folder
    PROVE  SnapshotInv'
<1>2. ASSUME NEW d \in ChangeSets, status'[d] \in Live
      PROVE  SameChange(d) \/ folder'[d].payload.type = "opaque"
    <2>1. d # c => status'[d] = status[d]
        BY DEF TypeInv, TypeOK
    <2>2. d = c => status'[d] = s
        BY DEF TypeInv, TypeOK
    <2>3. QED BY <1>2, <2>1, <2>2 DEF SameChange, OtherSnapshotsKept
<1>3. QED BY <1>2, SnapshotKept

\* The snapshot an application takes is the target state it journals.
LEMMA ApplySnapshot ==
    ASSUME TypeInv, SnapshotInv, NEW c \in ChangeSets, status[c] # "UNKNOWN",
           NEW st, st \notin Live, NEW S, NEW prior \in Seq(S), ApplyAs(c, st, prior)
    PROVE  SnapshotInv'
<1> DEFINE cs == folder[c]
<1>1. folder' = folder /\ cs.targets \in SUBSET Paths
    BY FolderFacts DEF ApplyAs
<1>2. TakeSnapshot(c) => /\ snapshot'[c] = Image(files, cs.targets)
                         /\ OtherSnapshotsKept(c)
    BY DEF TakeSnapshot, OtherSnapshotsKept, TypeInv, TypeOK
<1>3. ASSUME NEW e
      PROVE  prior \o <<e>> \in Seq(S \cup {e})
    <2>1. prior \in Seq(S \cup {e}) /\ <<e>> \in Seq(S \cup {e})
        OBVIOUS
    <2>2. QED BY <2>1, ConcatProperties
<1>4. CASE WeightUpdate(c, st, prior)
    <2> DEFINE e == [Entry("weight_update", c) EXCEPT
                        !.gate = Label(cs, st).gate, !.level = Label(cs, st).level]
    <2>1. /\ Journaled(prior \o <<e>>)
          /\ status' = [status EXCEPT ![c] = "APPLIED"]
          /\ UNCHANGED snapshot
          /\ folder[c].payload.type = "opaque"
        BY <1>4 DEF WeightUpdate
    <2> HIDE DEF e
    <2>2. Extended
        BY <1>3, <2>1, JournaledExtends
    <2>3. OtherSnapshotsKept(c)
        BY <2>1 DEF OtherSnapshotsKept
    <2>4. QED BY <1>1, <2>1, <2>2, <2>3, SnapshotOthersKept
<1>5. CASE ApplyReverts(c, st, prior)
    <2> DEFINE e == Rejected(c, "apply")
    <2>1. /\ Journaled(prior \o <<e>>)
          /\ status' = [status EXCEPT ![c] = "REJECTED"]
          /\ TakeSnapshot(c)
        BY <1>5 DEF ApplyReverts
    <2> HIDE DEF e
    <2>2. "REJECTED" \notin Live
        BY DEF Live
    <2> DEFINE es == prior \o <<e>>
    <2>3. es \in Seq(S \cup {e}) /\ Journaled(es)
        BY <1>3, <2>1
    <2> HIDE DEF es
    <2>4. Extended
        BY <2>3, JournaledExtends
    <2>5. QED BY <1>1, <1>2, <2>1, <2>2, <2>4, SnapshotOthersKept
<1>6. CASE ApplyEscapes(c, st, prior)
    <2>1. /\ Journaled(prior)
          /\ status' = [status EXCEPT ![c] = st]
          /\ TakeSnapshot(c)
        BY <1>6 DEF ApplyEscapes
    <2>2. Extended
        BY <2>1, JournaledExtends
    <2>3. QED BY <1>1, <1>2, <2>1, <2>2, SnapshotOthersKept
<1>7. CASE ApplySucceeds(c, st, prior)
    <2> DEFINE e == [Entry("applied", c) EXCEPT
                        !.gate = Label(cs, st).gate, !.level = Label(cs, st).level,
                        !.before = Image(files, cs.targets),
                        !.after = Image(files', cs.targets)]
               es == prior \o <<e>>
               n == Len(journal) + Len(es)
    <2>1. /\ Journaled(es)
          /\ status' = [status EXCEPT ![c] = "APPLIED"]
          /\ TakeSnapshot(c)
        BY <1>7 DEF ApplySucceeds
    <2>2. e.cs = c /\ e.event = "applied" /\ e.before = Image(files, cs.targets)
        BY DEF Entry
    <2> HIDE DEF e
    <2>3. es \in Seq(S \cup {e})
        BY <1>3
    <2>4. Len(es) \in DOMAIN es /\ es[Len(es)] = e
        <3>1. prior \in Seq(S \cup {e}) /\ <<e>> \in Seq(S \cup {e})
            OBVIOUS
        <3>2. QED BY <3>1, <2>3, ConcatProperties, LenProperties
    <2> HIDE DEF es
    <2>5. n \in DOMAIN journal' /\ journal'[n] = e
        BY <2>1, <2>3, <2>4, JournalGrows
    <2> HIDE DEF n
    <2>6. snapshot'[c] = Image(files, cs.targets)
        BY <1>2, <2>1
    <2>7. snapshot'[c] \in [cs.targets -> FileState]
        BY <1>1, <2>6 DEF Image, TypeInv, TypeOK
    <2>8. Extended
        BY <2>1, <2>3, JournaledExtends
    <2>9. ASSUME NEW d \in ChangeSets \ {c}, status'[d] \in Live,
                 folder'[d].payload.type # "opaque"
          PROVE  /\ snapshot'[d] \in [folder'[d].targets -> FileState]
                 /\ \E i \in DOMAIN journal' :
                    /\ journal'[i].cs = d
                    /\ journal'[i].event = "applied"
                    /\ journal'[i].before = snapshot'[d]
        <3>1. status[d] \in Live /\ snapshot'[d] = snapshot[d]
            BY <1>2, <2>1, <2>9 DEF OtherSnapshotsKept, TypeInv, TypeOK
        <3>2. /\ snapshot[d] \in [folder[d].targets -> FileState]
              /\ \E i \in DOMAIN journal :
                    /\ journal[i].cs = d
                    /\ journal[i].event = "applied"
                    /\ journal[i].before = snapshot[d]
            BY <1>1, <2>9, <3>1 DEF SnapshotInv, Live
        <3>3. QED BY <1>1, <2>8, <3>1, <3>2 DEF Extended
    <2>10. \E i \in DOMAIN journal' : /\ journal'[i].cs = c
                                     /\ journal'[i].event = "applied"
                                     /\ journal'[i].before = snapshot'[c]
        BY <2>2, <2>5, <2>6
    <2>11. QED BY <1>1, <2>7, <2>9, <2>10 DEF SnapshotInv, Live
<1>8. QED BY <1>4, <1>5, <1>6, <1>7 DEF ApplyAs

LEMMA NextSnapshot == TypeInv /\ SnapshotInv /\ [Next]_vars => SnapshotInv'
<1> SUFFICES ASSUME TypeInv, SnapshotInv, [Next]_vars PROVE SnapshotInv'
    OBVIOUS
<1>0. \A s \in {"VALIDATED", "SUGGESTED", "REJECTED", "QUEUED", "GATE_APPROVED",
                "APPROVED", "ROLLED_BACK", "UNKNOWN"} : s \notin Live
    BY DEF Live
<1>1. ASSUME NEW c \in ChangeSets, Propose(c)
      PROVE  SnapshotInv'
    <2> DEFINE e == Entry("proposed", c)
               f == Rejected(c, "validate")
    <2>1. /\ Journaled(<<e>>) \/ Journaled(<<e, f>>)
          /\ \E s \in {"VALIDATED", "REJECTED"} : status' = [status EXCEPT ![c] = s]
          /\ UNCHANGED snapshot
          /\ \A d \in ChangeSets \ {c} : folder'[d] = folder[d]
        BY <1>1 DEF Propose, TypeInv, TypeOK
    <2> HIDE DEF e, f
    <2>2. <<e>> \in Seq({e, f}) /\ <<e, f>> \in Seq({e, f})
        OBVIOUS
    <2>3. Extended
        BY <2>1, <2>2, JournaledExtends
    <2>4. ASSUME NEW d \in ChangeSets, status'[d] \in Live
          PROVE  SameChange(d)
        <3>1. d # c
            BY <1>0, <2>1, <2>4 DEF TypeInv, TypeOK
        <3>2. QED BY <2>1, <2>4, <3>1 DEF SameChange, TypeInv, TypeOK
    <2>5. QED BY <2>3, <2>4, SnapshotKept
<1>2. ASSUME NEW c \in ChangeSets, ProposeBadId(c)
      PROVE  SnapshotInv'
    <2>1. Extended
        BY <1>2 DEF ProposeBadId, Extended
    <2>2. status[c] \notin Live
        BY <1>0, <1>2 DEF ProposeBadId, TypeInv, TypeOK, KnownHasFolder
    <2>3. \A d \in ChangeSets : status'[d] \in Live => SameChange(d)
        BY <1>2, <2>2 DEF ProposeBadId, stateVars, SameChange, TypeInv, TypeOK
    <2>4. QED BY <2>1, <2>3, SnapshotKept
<1>3. ASSUME NEW c \in ChangeSets, AttachEvidence(c) \/ AttachRefused(c)
      PROVE  SnapshotInv'
    <2>1. Extended
        BY <1>3 DEF AttachEvidence, AttachRefused, Extended
    <2>2. \E listing : folder' = [folder EXCEPT ![c].evidence = listing]
        BY <1>3 DEF AttachEvidence, AttachRefused
    <2>3. /\ folder[c] \in ChangeSetFolder
          /\ folder \in [ChangeSets -> ChangeSetFolder \cup {NoFolder}]
        BY <1>3 DEF AttachEvidence, AttachRefused, TypeInv, TypeOK
    <2>4. \A d \in ChangeSets : /\ folder'[d].targets = folder[d].targets
                                /\ folder'[d].payload = folder[d].payload
        BY <2>2, <2>3 DEF ChangeSetFolder
    <2>5. \A d \in ChangeSets : status'[d] \in Live => SameChange(d)
        BY <1>3, <2>4 DEF AttachEvidence, AttachRefused, stateVars, SameChange
    <2>6. QED BY <2>1, <2>5, SnapshotKept
<1>4. ASSUME NEW c \in ChangeSets, NEW e, NEW s, s \notin Live, Journaled(<<e>>),
             status' = [status EXCEPT ![c] = s], UNCHANGED <<folder, snapshot>>
      PROVE  SnapshotInv'
    <2>1. Extended
        BY <1>4, <<e>> \in Seq({e}), JournaledExtends
    <2>2. OtherSnapshotsKept(c)
        BY <1>4 DEF OtherSnapshotsKept
    <2>3. QED BY <1>4, <2>1, <2>2, SnapshotOthersKept
<1>5. ASSUME NEW c \in ChangeSets,
             GateSuggest(c) \/ GateReject(c) \/ GateQueue(c) \/ GateAuto(c)
      PROVE  SnapshotInv'
    <2>1. \E e, s : s \notin Live /\ GateTo(c, e, s)
        BY <1>0, <1>5 DEF GateSuggest, GateReject, GateQueue, GateAuto
    <2>2. QED BY <1>4, <2>1 DEF GateTo
<1>6. ASSUME NEW c \in ChangeSets, Apply(c)
      PROVE  SnapshotInv'
    BY <1>0, <1>6, <<>> \in Seq({}), ApplySnapshot DEF Apply
<1>7. ASSUME NEW c \in ChangeSets, NEW a \in Actors, Approve(c, a)
      PROVE  SnapshotInv'
    <2> DEFINE p == [Entry("approved", c) EXCEPT !.by = a, !.gate = "human_review"]
    <2>1. ApplyAs(c, "APPROVED", <<p>>) /\ status[c] # "UNKNOWN"
        BY <1>7 DEF Approve
    <2> HIDE DEF p
    <2>2. QED BY <1>0, <2>1, <<p>> \in Seq({p}), ApplySnapshot
<1>8. ASSUME NEW c \in ChangeSets, NEW a \in Actors, Reject(c, a)
      PROVE  SnapshotInv'
    BY <1>0, <1>4, <1>8 DEF Reject
<1>9. ASSUME NEW c \in ChangeSets, Promote(c)
      PROVE  SnapshotInv'
    <2> DEFINE e == Entry("promoted", c)
    <2>1. /\ Journaled(<<e>>) /\ status' = [status EXCEPT ![c] = "PROMOTED"]
          /\ UNCHANGED <<folder, snapshot>> /\ status[c] \in Live
        BY <1>9 DEF Promote, Live
    <2> HIDE DEF e
    <2>2. Extended
        BY <2>1, <<e>> \in Seq({e}), JournaledExtends
    <2>3. OtherSnapshotsKept(c)
        BY <2>1 DEF OtherSnapshotsKept
    <2>4. QED BY <2>1, <2>2, <2>3, SnapshotOthersKept
<1>10. ASSUME NEW c \in ChangeSets, Rollback(c)
       PROVE  SnapshotInv'
    <2> DEFINE e == RolledBack(c, snapshot[c])
               layer == folder[c].layer
               lowered == Ratchet(Append(journal, e), layer)
               drop == LevelDrop(layer, lowered)
               f == [Entry("policy_changed", NoChangeSet) EXCEPT
                        !.gate = "de_escalation",
                        !.ext = [layer |-> layer, from |-> levels[layer], to |-> lowered]]
    <2>1. /\ Journaled(<<e>> \o drop)
          /\ status' = [status EXCEPT ![c] = "ROLLED_BACK"]
          /\ UNCHANGED <<folder, snapshot>>
        BY <1>10 DEF Rollback
    <2>2. drop = <<>> \/ drop = <<f>>
        BY DEF LevelDrop
    <2> HIDE DEF e, f, drop
    <2>3. drop \in Seq({e, f}) /\ <<e>> \in Seq({e, f})
        <3>1. /\ <<>> \in Seq({e, f})
              /\ <<f>> \in Seq({e, f})
              /\ <<e>> \in Seq({e, f})
            OBVIOUS
        <3>2. QED BY <2>2, <3>1
    <2>4. <<e>> \o drop \in Seq({e, f})
        BY <2>3, ConcatProperties
    <2>5. Extended
        BY <2>1, <2>4, JournaledExtends
    <2>6. OtherSnapshotsKept(c)
        BY <2>1 DEF OtherSnapshotsKept
    <2>7. QED BY <1>0, <2>1, <2>5, <2>6, SnapshotOthersKept
<1>11. ASSUME UNCHANGED <<status, journal, folder, snapshot>>
       PROVE  SnapshotInv'
    BY <1>11 DEF SnapshotInv
<1>12. QED
    BY <1>1, <1>2, <1>3, <1>5, <1>6, <1>7, <1>8, <1>9, <1>10, <1>11
    DEF Next, RollbackEscapes, HandEdit, EditPolicy, Tick, stateVars, vars

LEMMA InitSnapshot == Init => SnapshotInv
BY DEF Init, SnapshotInv

\* Snapshots of live changes agree with the journal.
LEMMA SnapshotAlways == Spec => [](TypeInv /\ SnapshotInv)
<1>1. (TypeInv /\ SnapshotInv) /\ [Next]_vars => (TypeInv /\ SnapshotInv)'
    BY NextTypeInv, NextSnapshot
<1>2. QED BY <1>1, InitTypeInv, InitSnapshot, PTL DEF Spec

\* Whatever happens between an application and its rollback, the snapshot on disk
\* is the target state that the journal says was there before.
THEOREM SnapshotsAgree == Spec => []SnapshotMatchesJournal
<1>1. SnapshotInv => SnapshotMatchesJournal
    BY DEF SnapshotInv, SnapshotMatchesJournal
<1>2. QED BY <1>1, SnapshotAlways, PTL

\* Only rollback puts a change in ROLLED_BACK.
LEMMA OnlyRollback ==
    ASSUME TypeInv, [Next]_vars, NEW c \in ChangeSets,
           status[c] # "ROLLED_BACK", status'[c] = "ROLLED_BACK"
    PROVE  Rollback(c)
<1>1. ASSUME NEW d \in ChangeSets, NEW s, s # "ROLLED_BACK",
             status' = [status EXCEPT ![d] = s]
      PROVE  FALSE
    BY <1>1 DEF TypeInv, TypeOK
<1>2. ASSUME NEW d \in ChangeSets,
             \/ Propose(d) \/ GateSuggest(d) \/ GateReject(d) \/ GateQueue(d)
             \/ GateAuto(d) \/ Promote(d)
      PROVE  FALSE
    <2>1. \E s : s # "ROLLED_BACK" /\ status' = [status EXCEPT ![d] = s]
        BY <1>2 DEF Propose, GateSuggest, GateReject, GateQueue, GateAuto, GateTo, Promote
    <2>2. QED BY <1>1, <2>1
<1>3. ASSUME NEW d \in ChangeSets, NEW st, NEW prior, ApplyAs(d, st, prior),
             st # "ROLLED_BACK"
      PROVE  FALSE
    <2>1. \E s \in {"APPLIED", "REJECTED", st} : status' = [status EXCEPT ![d] = s]
        BY <1>3, ApplyStatus
    <2>2. QED BY <1>1, <1>3, <2>1
<1>4. ASSUME NEW d \in ChangeSets, Apply(d)
      PROVE  FALSE
    BY <1>3, <1>4 DEF Apply
<1>5. ASSUME NEW d \in ChangeSets, NEW a \in Actors, Approve(d, a) \/ Reject(d, a)
      PROVE  FALSE
    <2>1. CASE Approve(d, a)
        BY <1>3, <2>1 DEF Approve
    <2>2. CASE Reject(d, a)
        BY <1>1, <2>2 DEF Reject
    <2>3. QED BY <1>5, <2>1, <2>2
<1>6. ASSUME NEW d \in ChangeSets, Rollback(d)
      PROVE  d = c
    BY <1>6 DEF Rollback, TypeInv, TypeOK
<1>7. ASSUME UNCHANGED status
      PROVE  FALSE
    BY <1>7
<1>8. QED
    BY <1>2, <1>4, <1>5, <1>6, <1>7
    DEF Next, ProposeBadId, AttachEvidence, AttachRefused, RollbackEscapes, HandEdit, EditPolicy,
        Tick, stateVars, vars

\* I5: a rollback gives every target exactly the content the journal recorded
\* before the change was applied.
THEOREM RollbackIsExact == Spec => RollbackRestores
<1> DEFINE Restores ==
        \A c \in ChangeSets :
            status[c] # "ROLLED_BACK" /\ status'[c] = "ROLLED_BACK" =>
                \E i \in DOMAIN journal :
                    /\ journal[i].cs = c
                    /\ journal[i].event = "applied"
                    /\ \A t \in folder[c].targets : files'[t] = journal[i].before[t]
<1>1. ASSUME TypeInv, SnapshotInv, [Next]_vars
      PROVE  Restores
    <2>1. SUFFICES ASSUME NEW c \in ChangeSets,
                          status[c] # "ROLLED_BACK", status'[c] = "ROLLED_BACK"
          PROVE  \E i \in DOMAIN journal :
                    /\ journal[i].cs = c
                    /\ journal[i].event = "applied"
                    /\ \A t \in folder[c].targets : files'[t] = journal[i].before[t]
        OBVIOUS
    <2>2. Rollback(c)
        BY <1>1, <2>1, OnlyRollback
    <2>3. /\ status[c] \in {"APPLIED", "PROMOTED"}
          /\ folder[c].payload.type # "opaque"
          /\ files' = Restore(files, snapshot[c])
        BY <2>2 DEF Rollback, CanRollBack
    <2>4. snapshot[c] \in [folder[c].targets -> FileState]
        BY <1>1, <2>3 DEF SnapshotInv
    <2>5. PICK i \in DOMAIN journal : /\ journal[i].cs = c
                                      /\ journal[i].event = "applied"
                                      /\ journal[i].before = snapshot[c]
        BY <1>1, <2>3 DEF SnapshotInv
    <2>6. folder[c].targets \in SUBSET Paths
        BY <1>1, <2>3, FolderFacts
    <2>7. \A t \in folder[c].targets : files'[t] = snapshot[c][t]
        BY <2>3, <2>4, <2>6 DEF Restore, Written
    <2>8. QED BY <2>5, <2>7
<1>2. RollbackRestores <=> [][Restores]_vars
    BY DEF RollbackRestores
<1> HIDE DEF Restores
<1>3. TypeInv /\ SnapshotInv /\ [Next]_vars => [Restores]_vars
    BY <1>1
<1>4. QED BY <1>2, <1>3, SnapshotAlways, PTL DEF Spec
-----------------------------------------------------------------------------
\* The journal as a history.

\* The entries that the lifecycle allows, given the statuses and levels that the
\* entries before them left.
Allowed(e, st, lv, fold) ==
    \/ /\ e.cs \in ChangeSets
       /\ LET before == st[e.cs] IN
            \/ e.event = "proposed" /\ before = "UNKNOWN"
            \/ /\ e.event = "gated" /\ before = "VALIDATED"
               /\ e.gate \in {"suggest", "queue", "auto"}
               /\ e.gate = "auto" => e.level >= 2
            \/ /\ e.event = "rejected"
               /\ before \in {"VALIDATED", "QUEUED", "GATE_APPROVED", "APPROVED"}
            \/ /\ e.event = "approved" /\ before = "QUEUED"
               /\ e.by.role \in {"reviewer", "human"}
               /\ e.by.name # fold[e.cs].producer
            \/ /\ e.event \in {"applied", "weight_update"}
               /\ \/ before = "GATE_APPROVED" /\ e.gate = "auto"
                  \/ before = "APPROVED" /\ e.gate = "human_review"
            \/ e.event = "promoted" /\ before = "APPLIED"
            \/ e.event = "rolled_back" /\ before \in Live
    \/ /\ e.cs = NoChangeSet
       /\ e.event = "policy_changed"
       /\ e.ext.layer \in Layers
       /\ e.ext.from = lv[e.ext.layer]
       /\ e.ext.to < e.ext.from

\* What state.json holds after an entry.
StatusesAfter(st, e) ==
    IF e.cs \in ChangeSets THEN [st EXCEPT ![e.cs] = StatusAfter(e)] ELSE st

HeadsAfter(hd, e) == IF e.event \in ContentEvents THEN Written(hd, e.after) ELSE hd

LevelsAfter(lv, e) ==
    IF e.event = "policy_changed" THEN [lv EXCEPT ![e.ext.layer] = e.ext.to] ELSE lv

WritesNothing == UNCHANGED <<journal, status, heads, levels>>

WritesOne(e) ==
    /\ e \in JournalEntry
    /\ Allowed(e, status, levels, folder')
    /\ journal' = Append(journal, e)
    /\ status' = StatusesAfter(status, e)
    /\ heads' = HeadsAfter(heads, e)
    /\ levels' = LevelsAfter(levels, e)

WritesTwo(e, f) ==
    /\ e \in JournalEntry /\ f \in JournalEntry
    /\ e.event \in {"proposed", "approved", "rolled_back"}
    /\ Allowed(e, status, levels, folder')
    /\ Allowed(f, StatusesAfter(status, e), LevelsAfter(levels, e), folder')
    /\ journal' = Append(Append(journal, e), f)
    /\ status' = StatusesAfter(StatusesAfter(status, e), f)
    /\ heads' = HeadsAfter(HeadsAfter(heads, e), f)
    /\ levels' = LevelsAfter(LevelsAfter(levels, e), f)

\* Who made a known change, and for which layer, stays.
KnownStay ==
    \A c \in ChangeSets : status[c] # "UNKNOWN" =>
        /\ folder'[c].producer = folder[c].producer
        /\ folder'[c].layer = folder[c].layer
        /\ folder'[c].targets = folder[c].targets
-----------------------------------------------------------------------------
\* What the past of a change can be, by its status.

Undecided == {"VALIDATED", "QUEUED", "GATE_APPROVED", "APPROVED"}

Past(s) ==
    IF s = "UNKNOWN" THEN {}
    ELSE IF s \in Undecided THEN {"proposed", "gated", "approved"}
    ELSE IF s \in {"SUGGESTED", "REJECTED"} THEN {"proposed", "gated", "approved", "rejected"}
    ELSE IF s \in Live THEN Event \ {"rolled_back"}
    ELSE Event

\* The first n entries of the log lead change c through a gate ("auto" or "queue")
\* to where it may be applied under the label `gate'.
Proposed(log, n, c) == \E p \in 1 .. n : log[p].cs = c /\ log[p].event = "proposed"

GatedAs(log, n, c, mode) ==
    \E p, g \in 1 .. n :
        /\ log[p].cs = c /\ log[g].cs = c
        /\ p < g /\ log[p].event = "proposed" /\ log[g].event = "gated"
        /\ log[g].gate = mode
        /\ mode = "auto" => log[g].level >= 2

ApprovedBy(log, n, c, fold) ==
    \E p, g, r \in 1 .. n :
        /\ log[p].cs = c /\ log[g].cs = c /\ log[r].cs = c
        /\ p < g /\ log[p].event = "proposed" /\ log[g].event = "gated"
        /\ log[g].gate = "queue"
        /\ r > g /\ log[r].event = "approved"
        /\ log[r].by.role \in {"reviewer", "human"}
        /\ log[r].by.name # fold[c].producer

ExplainedAt(log, i, fold) ==
    LET c == log[i].cs IN
    /\ \A j \in 1 .. (i - 1) :
        log[j].cs = c => log[j].event \in {"proposed", "gated", "approved"}
    /\ \/ log[i].gate = "auto" /\ GatedAs(log, i - 1, c, "auto")
       \/ log[i].gate = "human_review" /\ ApprovedBy(log, i - 1, c, fold)

\* The inductive invariant of the history.
History(log, st, fold) ==
    /\ \A i \in DOMAIN log : log[i].cs \in ChangeSets => log[i].event \in Past(st[log[i].cs])
    /\ \A c \in ChangeSets :
        /\ st[c] = "VALIDATED" => Proposed(log, Len(log), c)
        /\ st[c] = "QUEUED" => GatedAs(log, Len(log), c, "queue")
        /\ st[c] = "GATE_APPROVED" => GatedAs(log, Len(log), c, "auto")
        /\ st[c] = "APPROVED" => ApprovedBy(log, Len(log), c, fold)
    /\ \A i \in DOMAIN log :
        /\ log[i].event \in {"applied", "weight_update"} => ExplainedAt(log, i, fold)
        /\ log[i].event \in ContentEvents \cup {"weight_update"} => log[i].cs \in ChangeSets
    /\ \A i, j \in DOMAIN log :
        (/\ log[i].event \in ContentEvents
         /\ log[j].event = log[i].event
         /\ log[j].cs = log[i].cs) => i = j

HistoryInv == History(journal, status, folder)
-----------------------------------------------------------------------------
\* Every step writes allowed entries.

LEMMA AppendOne ==
    ASSUME TypeInv, NEW e \in JournalEntry
    PROVE  journal \o <<e>> = Append(journal, e)
BY AppendIsConcat DEF TypeInv, TypeOK

LEMMA AppendTwo ==
    ASSUME TypeInv, NEW e \in JournalEntry, NEW f \in JournalEntry
    PROVE  journal \o <<e, f>> = Append(Append(journal, e), f)
<1>1. journal \in Seq(JournalEntry) /\ <<e>> \in Seq(JournalEntry) /\ <<f>> \in Seq(JournalEntry)
    BY DEF TypeInv, TypeOK
<1>2. journal \o <<e, f>> = (journal \o <<e>>) \o <<f>>
    <2>1. <<e, f>> = <<e>> \o <<f>>
        BY ShortConcats
    <2> DEFINE x == <<e>>
               y == <<f>>
    <2>2. x \in Seq(JournalEntry) /\ y \in Seq(JournalEntry)
        BY <1>1
    <2> HIDE DEF x, y
    <2>3. (journal \o x) \o y = journal \o (x \o y)
        BY <1>1, <2>2, ConcatAssociative
    <2>4. QED BY <2>1, <2>3 DEF x, y
<1>3. Append(journal, e) \in Seq(JournalEntry)
    BY <1>1
<1>4. Append(Append(journal, e), f) = Append(journal, e) \o <<f>>
    BY <1>3, AppendIsConcat
<1>5. QED BY <1>2, <1>4, AppendOne

\* What is appended to a well-formed journal that stays so is well formed.
LEMMA NewEntryTyped ==
    ASSUME TypeInv, TypeInv', NEW S, NEW es \in Seq(S), Journaled(es), NEW k \in DOMAIN es
    PROVE  es[k] \in JournalEntry
<1> DEFINE n == Len(journal) + k
<1>1. n \in DOMAIN journal' /\ journal'[n] = es[k]
    BY JournalGrows
<1> HIDE DEF n
<1>2. journal' \in Seq(JournalEntry)
    BY DEF TypeInv, TypeOK
<1>3. QED BY <1>1, <1>2

LEMMA NewTyped ==
    ASSUME TypeInv, TypeInv', NEW e, NEW f
    PROVE  /\ Journaled(<<e>>) => e \in JournalEntry
           /\ Journaled(<<e, f>>) => e \in JournalEntry /\ f \in JournalEntry
<1>1. ASSUME Journaled(<<e>>) PROVE e \in JournalEntry
    <2> DEFINE es == <<e>>
    <2>1. es \in Seq({e}) /\ 1 \in DOMAIN es /\ es[1] = e /\ Journaled(es)
        BY <1>1
    <2> HIDE DEF es
    <2>2. QED BY <2>1, NewEntryTyped
<1>2. ASSUME Journaled(<<e, f>>) PROVE e \in JournalEntry /\ f \in JournalEntry
    <2> DEFINE es == <<e, f>>
    <2>1. /\ es \in Seq({e, f}) /\ 1 \in DOMAIN es /\ 2 \in DOMAIN es
          /\ es[1] = e /\ es[2] = f /\ Journaled(es)
        BY <1>2
    <2> HIDE DEF es
    <2>2. QED BY <2>1, NewEntryTyped
<1>3. QED BY <1>1, <1>2

\* One entry, or two, about a change, that a command journals.
LEMMA OneWritten ==
    ASSUME TypeInv, TypeInv', NEW c \in ChangeSets, NEW e, Journaled(<<e>>), e.cs = c,
           Allowed(e, status, levels, folder'), e.event # "policy_changed",
           status' = [status EXCEPT ![c] = StatusAfter(e)],
           heads' = HeadsAfter(heads, e), levels' = levels
    PROVE  WritesOne(e)
<1>1. e \in JournalEntry
    BY NewTyped
<1>2. journal' = Append(journal, e)
    BY <1>1, AppendOne DEF Journaled
<1>3. QED BY <1>1, <1>2 DEF WritesOne, StatusesAfter, LevelsAfter

LEMMA TwoWritten ==
    ASSUME TypeInv, TypeInv', NEW c \in ChangeSets, NEW e, NEW f, Journaled(<<e, f>>),
           e.cs = c, f.cs = c,
           Allowed(e, status, levels, folder'),
           Allowed(f, StatusesAfter(status, e), levels, folder'),
           e.event \in {"proposed", "approved"}, f.event # "policy_changed",
           status' = [status EXCEPT ![c] = StatusAfter(f)],
           heads' = HeadsAfter(heads, f), levels' = levels
    PROVE  WritesTwo(e, f)
<1>1. e \in JournalEntry /\ f \in JournalEntry
    BY NewTyped
<1>2. journal' = Append(Append(journal, e), f)
    BY <1>1, AppendTwo DEF Journaled
<1>3. /\ LevelsAfter(levels, e) = levels /\ LevelsAfter(levels, f) = levels
      /\ HeadsAfter(heads, e) = heads
    BY DEF LevelsAfter, HeadsAfter, ContentEvents
<1>4. status' = StatusesAfter(StatusesAfter(status, e), f)
    BY DEF StatusesAfter, TypeInv, TypeOK
<1>5. QED BY <1>1, <1>2, <1>3, <1>4 DEF WritesTwo

\* How apply can end: with one more entry e, or escaping.
EndsWith(c, st, prior, e) ==
    /\ e.cs = c
    /\ \/ e.event = "rejected"
       \/ /\ e.event \in {"applied", "weight_update"}
          /\ \/ st = "GATE_APPROVED" /\ e.gate = "auto"
             \/ st = "APPROVED" /\ e.gate = "human_review"
    /\ Journaled(prior \o <<e>>)
    /\ status' = [status EXCEPT ![c] = StatusAfter(e)]
    /\ heads' = HeadsAfter(heads, e)

Escapes(c, st, prior) ==
    /\ Journaled(prior)
    /\ status' = [status EXCEPT ![c] = st]
    /\ heads' = heads

\* What apply journals, after what was journaled before it in the same command.
LEMMA ApplyWrites ==
    ASSUME NEW c, NEW st \in {"GATE_APPROVED", "APPROVED"}, NEW prior,
           ApplyAs(c, st, prior)
    PROVE  /\ UNCHANGED <<levels, folder>>
           /\ (\E e : EndsWith(c, st, prior, e)) \/ Escapes(c, st, prior)
<1> DEFINE cs == folder[c]
           label == Label(cs, st)
<1>1. UNCHANGED <<levels, folder>>
    BY DEF ApplyAs
<1>2. \/ st = "GATE_APPROVED" /\ label.gate = "auto"
      \/ st = "APPROVED" /\ label.gate = "human_review"
    BY DEF Label
<1> HIDE DEF label
<1>3. CASE WeightUpdate(c, st, prior)
    <2> DEFINE e == [Entry("weight_update", c) EXCEPT
                        !.gate = label.gate, !.level = label.level]
    <2>1. e.cs = c /\ e.event = "weight_update" /\ e.gate = label.gate
        BY DEF Entry
    <2>2. /\ Journaled(prior \o <<e>>) /\ status' = [status EXCEPT ![c] = "APPLIED"]
          /\ heads' = heads
        BY <1>3 DEF WeightUpdate, label
    <2> HIDE DEF e
    <2>3. heads' = HeadsAfter(heads, e)
        BY <2>1, <2>2 DEF HeadsAfter, ContentEvents
    <2>4. EndsWith(c, st, prior, e)
        BY <1>2, <2>1, <2>2, <2>3, StatusAfterCases DEF EndsWith
    <2>5. QED BY <1>1, <2>4
<1>4. CASE ApplySucceeds(c, st, prior)
    <2> DEFINE e == [Entry("applied", c) EXCEPT
                        !.gate = label.gate, !.level = label.level,
                        !.before = Image(files, cs.targets),
                        !.after = Image(files', cs.targets)]
    <2>1. /\ e.cs = c /\ e.event = "applied" /\ e.gate = label.gate
          /\ e.after = Image(files', cs.targets)
        BY DEF Entry
    <2>2. /\ Journaled(prior \o <<e>>) /\ status' = [status EXCEPT ![c] = "APPLIED"]
          /\ heads' = Written(heads, Image(files', cs.targets))
        BY <1>4 DEF ApplySucceeds, label, HeadsRecorded
    <2> HIDE DEF e
    <2>3. heads' = HeadsAfter(heads, e)
        BY <2>1, <2>2 DEF HeadsAfter, ContentEvents
    <2>4. EndsWith(c, st, prior, e)
        BY <1>2, <2>1, <2>2, <2>3, StatusAfterCases DEF EndsWith
    <2>5. QED BY <1>1, <2>4
<1>5. CASE ApplyReverts(c, st, prior)
    <2> DEFINE e == Rejected(c, "apply")
    <2>1. e.cs = c /\ e.event = "rejected"
        BY DEF Rejected, Entry
    <2>2. /\ Journaled(prior \o <<e>>) /\ status' = [status EXCEPT ![c] = "REJECTED"]
          /\ heads' = heads
        BY <1>5 DEF ApplyReverts
    <2> HIDE DEF e
    <2>3. heads' = HeadsAfter(heads, e)
        BY <2>1, <2>2 DEF HeadsAfter, ContentEvents
    <2>4. EndsWith(c, st, prior, e)
        BY <2>1, <2>2, <2>3, StatusAfterCases DEF EndsWith
    <2>5. QED BY <1>1, <2>4
<1>6. CASE ApplyEscapes(c, st, prior)
    BY <1>1, <1>6 DEF ApplyEscapes, Escapes
<1>7. QED BY <1>3, <1>4, <1>5, <1>6 DEF ApplyAs

\* Commands that change no file and no level.
LEMMA PlainWritten ==
    ASSUME TypeInv, TypeInv', NEW c \in ChangeSets, NEW e, Journaled(<<e>>), e.cs = c,
           Allowed(e, status, levels, folder'),
           e.event \notin {"policy_changed"} \cup ContentEvents,
           status' = [status EXCEPT ![c] = StatusAfter(e)],
           UNCHANGED <<heads, levels>>
    PROVE  \E x : WritesOne(x)
<1>1. heads' = HeadsAfter(heads, e)
    BY DEF HeadsAfter
<1>2. QED BY <1>1, OneWritten

LEMMA ProposeWrites ==
    ASSUME TypeInv, TypeInv', NEW c \in ChangeSets, Propose(c)
    PROVE  (\E e : WritesOne(e)) \/ (\E e, f : WritesTwo(e, f))
<1> DEFINE e == Entry("proposed", c)
           f == Rejected(c, "validate")
<1>1. e.cs = c /\ e.event = "proposed" /\ f.cs = c /\ f.event = "rejected"
    BY DEF Entry, Rejected
<1>2. /\ \/ Journaled(<<e>>) /\ status' = [status EXCEPT ![c] = "VALIDATED"]
         \/ Journaled(<<e, f>>) /\ status' = [status EXCEPT ![c] = "REJECTED"]
      /\ UNCHANGED <<heads, levels>>
      /\ folder[c] = NoFolder
    BY DEF Propose
<1> HIDE DEF e, f
<1>3. StatusAfter(e) = "VALIDATED" /\ StatusAfter(f) = "REJECTED"
    BY <1>1, StatusAfterCases
<1>4. status[c] = "UNKNOWN"
    BY <1>2 DEF TypeInv, KnownHasFolder
<1>5. Allowed(e, status, levels, folder')
    BY <1>1, <1>4 DEF Allowed
<1>6. Allowed(f, StatusesAfter(status, e), levels, folder')
    BY <1>1, <1>3 DEF Allowed, StatusesAfter, TypeInv, TypeOK
<1>7. CASE Journaled(<<e>>) /\ status' = [status EXCEPT ![c] = "VALIDATED"]
    BY <1>1, <1>2, <1>3, <1>5, <1>7, PlainWritten DEF ContentEvents
<1>8. CASE Journaled(<<e, f>>) /\ status' = [status EXCEPT ![c] = "REJECTED"]
    <2>1. heads' = HeadsAfter(heads, f)
        BY <1>1, <1>2 DEF HeadsAfter, ContentEvents
    <2>2. WritesTwo(e, f)
        BY <1>1, <1>2, <1>3, <1>5, <1>6, <1>8, <2>1, TwoWritten DEF ContentEvents
    <2>3. QED BY <2>2
<1>9. QED BY <1>2, <1>7, <1>8

LEMMA GateWrites ==
    ASSUME TypeInv, TypeInv', NEW c \in ChangeSets,
           GateSuggest(c) \/ GateReject(c) \/ GateQueue(c) \/ GateAuto(c)
    PROVE  \E e : WritesOne(e)
<1>1. ASSUME NEW e, NEW st, GateTo(c, e, st), e.cs = c, StatusAfter(e) = st,
             status[c] = "VALIDATED",
             \/ e.event = "rejected"
             \/ /\ e.event = "gated" /\ e.gate \in {"suggest", "queue", "auto"}
                /\ e.gate = "auto" => e.level >= 2
      PROVE  \E x : WritesOne(x)
    <2>1. Allowed(e, status, levels, folder')
        BY <1>1 DEF Allowed
    <2>2. QED BY <1>1, <2>1, PlainWritten DEF GateTo, ContentEvents
<1>2. CASE GateSuggest(c)
    <2> DEFINE e == Gated(c, "suggest", 0)
    <2>1. e.cs = c /\ e.event = "gated" /\ e.gate = "suggest"
        BY DEF Gated, Entry
    <2>2. GateTo(c, e, "SUGGESTED") /\ status[c] = "VALIDATED"
        BY <1>2 DEF GateSuggest
    <2> HIDE DEF e
    <2>3. QED BY <1>1, <2>1, <2>2, StatusAfterCases
<1>3. CASE GateReject(c)
    <2> DEFINE e == Rejected(c, "gate")
    <2>1. e.cs = c /\ e.event = "rejected"
        BY DEF Rejected, Entry
    <2>2. GateTo(c, e, "REJECTED") /\ status[c] = "VALIDATED"
        BY <1>3 DEF GateReject
    <2> HIDE DEF e
    <2>3. QED BY <1>1, <2>1, <2>2, StatusAfterCases
<1>4. CASE GateQueue(c)
    <2> DEFINE e == Gated(c, "queue", levels[folder[c].layer])
    <2>1. e.cs = c /\ e.event = "gated" /\ e.gate = "queue"
        BY DEF Gated, Entry
    <2>2. GateTo(c, e, "QUEUED") /\ status[c] = "VALIDATED"
        BY <1>4 DEF GateQueue
    <2> HIDE DEF e
    <2>3. QED BY <1>1, <2>1, <2>2, StatusAfterCases
<1>5. CASE GateAuto(c)
    <2> DEFINE level == levels[folder[c].layer]
               e == Gated(c, "auto", level)
    <2>1. e.cs = c /\ e.event = "gated" /\ e.gate = "auto" /\ e.level = level
        BY DEF Gated, Entry
    <2>2. GateTo(c, e, "GATE_APPROVED") /\ status[c] = "VALIDATED"
        BY <1>5 DEF GateAuto
    <2>3. level >= 2
        <3>1. level # 0 /\ level # 1
            BY <1>5 DEF GateAuto, NeedsHuman
        <3>2. level \in Levels
            BY <2>2, FolderFacts
        <3>3. QED BY <3>1, <3>2 DEF Levels
    <2> HIDE DEF e
    <2>4. QED BY <1>1, <2>1, <2>2, <2>3, StatusAfterCases
<1>6. QED BY <1>2, <1>3, <1>4, <1>5

LEMMA ApplyWritesOne ==
    ASSUME TypeInv, TypeInv', NEW c \in ChangeSets, Apply(c)
    PROVE  WritesNothing \/ \E e : WritesOne(e)
<1>1. /\ status[c] \in {"GATE_APPROVED", "APPROVED"}
      /\ ApplyAs(c, status[c], <<>>)
    BY DEF Apply
<1>2. UNCHANGED <<levels, folder>>
    BY <1>1, ApplyWrites
<1>3. CASE \E e : EndsWith(c, status[c], <<>>, e)
    <2>1. PICK e : EndsWith(c, status[c], <<>>, e)
        BY <1>3
    <2>2. <<>> \o <<e>> = <<e>>
        OBVIOUS
    <2>3. Allowed(e, status, levels, folder')
        BY <1>1, <2>1 DEF Allowed, EndsWith
    <2>4. e.event # "policy_changed"
        BY <2>1 DEF EndsWith
    <2>5. WritesOne(e)
        BY <1>2, <2>1, <2>2, <2>3, <2>4, OneWritten DEF EndsWith
    <2>6. QED BY <2>5
<1>4. CASE Escapes(c, status[c], <<>>)
    BY <1>2, <1>4 DEF WritesNothing, Escapes, Journaled, TypeInv, TypeOK
<1>5. QED BY <1>1, <1>3, <1>4, ApplyWrites

LEMMA ReviewWrites ==
    ASSUME TypeInv, TypeInv', NEW c \in ChangeSets, NEW a \in Actors, Approve(c, a) \/ Reject(c, a)
    PROVE  (\E e : WritesOne(e)) \/ (\E e, f : WritesTwo(e, f))
<1>1. CASE Reject(c, a)
    <2> DEFINE e == [Rejected(c, "human_review") EXCEPT !.by = a]
    <2>1. e.cs = c /\ e.event = "rejected"
        BY DEF Rejected, Entry
    <2>2. /\ Journaled(<<e>>) /\ status' = [status EXCEPT ![c] = "REJECTED"]
          /\ UNCHANGED <<heads, levels>> /\ status[c] = "QUEUED"
        BY <1>1 DEF Reject
    <2> HIDE DEF e
    <2>3. Allowed(e, status, levels, folder')
        BY <2>1, <2>2 DEF Allowed
    <2>4. QED BY <2>1, <2>2, <2>3, StatusAfterCases, PlainWritten DEF ContentEvents
<1>2. CASE Approve(c, a)
    <2> DEFINE p == [Entry("approved", c) EXCEPT !.by = a, !.gate = "human_review"]
    <2>1. p.cs = c /\ p.event = "approved" /\ p.by = a
        BY DEF Entry
    <2>2. /\ ApplyAs(c, "APPROVED", <<p>>) /\ status[c] = "QUEUED"
          /\ a.role \in {"reviewer", "human"} /\ a.name # folder[c].producer
        BY <1>2 DEF Approve, MayReview
    <2> HIDE DEF p
    <2>3. UNCHANGED <<levels, folder>>
        BY <2>2, ApplyWrites
    <2>4. Allowed(p, status, levels, folder')
        BY <2>1, <2>2, <2>3 DEF Allowed
    <2>5. StatusAfter(p) = "APPROVED"
        BY <2>1, StatusAfterCases
    <2>6. CASE \E e : EndsWith(c, "APPROVED", <<p>>, e)
        <3>1. PICK e : EndsWith(c, "APPROVED", <<p>>, e)
            BY <2>6
        <3>2. Journaled(<<p, e>>)
            BY <3>1, ShortConcats DEF EndsWith
        <3>3. StatusesAfter(status, p)[c] = "APPROVED"
            BY <2>1, <2>5 DEF StatusesAfter, TypeInv, TypeOK
        <3>4. Allowed(e, StatusesAfter(status, p), levels, folder')
            BY <3>1, <3>3 DEF Allowed, EndsWith
        <3>5. e.event # "policy_changed"
            BY <3>1 DEF EndsWith
        <3>6. WritesTwo(p, e)
            BY <2>1, <2>3, <2>4, <3>1, <3>2, <3>4, <3>5, TwoWritten DEF EndsWith
        <3>7. QED BY <3>6
    <2>7. CASE Escapes(c, "APPROVED", <<p>>)
        BY <2>1, <2>3, <2>4, <2>5, <2>7, PlainWritten DEF Escapes, ContentEvents
    <2>8. QED BY <2>2, <2>6, <2>7, ApplyWrites
<1>3. QED BY <1>1, <1>2

LEMMA PromoteWrites ==
    ASSUME TypeInv, TypeInv', NEW c \in ChangeSets, Promote(c)
    PROVE  \E e : WritesOne(e)
<1> DEFINE e == Entry("promoted", c)
<1>1. e.cs = c /\ e.event = "promoted"
    BY DEF Entry
<1>2. /\ Journaled(<<e>>) /\ status' = [status EXCEPT ![c] = "PROMOTED"]
      /\ UNCHANGED <<heads, levels>> /\ status[c] = "APPLIED"
    BY DEF Promote
<1> HIDE DEF e
<1>3. Allowed(e, status, levels, folder')
    BY <1>1, <1>2 DEF Allowed
<1>4. QED BY <1>1, <1>2, <1>3, StatusAfterCases, PlainWritten DEF ContentEvents

\* A level only drops.
LEMMA RatchetLowers ==
    ASSUME TypeInv, NEW log, NEW layer \in Layers
    PROVE  /\ Ratchet(log, layer) \in Levels
           /\ Ratchet(log, layer) # levels[layer] => Ratchet(log, layer) < levels[layer]
           /\ DeEscalates(log, layer) /\ Ratchet(log, layer) = levels[layer]
                => levels[layer] = 0
<1>1. levels[layer] \in 0 .. 3
    BY DEF TypeInv, TypeOK, Levels
<1>2. policy.deEscalation # NoRule => policy.deEscalation.drop \in Nat \ {0}
    BY DEF TypeInv, TypeOK, PolicyFile, DeEscalationRule
<1>3. CASE DeEscalates(log, layer)
    <2>1. policy.deEscalation.drop \in Nat \ {0}
        BY <1>2, <1>3 DEF DeEscalates
    <2>2. Ratchet(log, layer) = DropLevel(levels[layer], policy.deEscalation.drop)
        BY <1>3 DEF Ratchet
    <2>3. QED BY <1>1, <2>1, <2>2 DEF DropLevel, Levels
<1>4. CASE ~DeEscalates(log, layer)
    BY <1>1, <1>4 DEF Ratchet, Levels
<1>5. QED BY <1>3, <1>4

\* What a rollback writes: that it was, then the level it lowers, unless de-escalation
\* leaves the level as it is.
WritesRollback(c, e, layer) ==
    /\ e.event = "rolled_back" /\ e.cs = c /\ e.day = today
    /\ \/ /\ WritesOne(e)
          /\ Ratchet(Append(journal, e), layer) = levels[layer]
       \/ \E f : /\ WritesTwo(e, f)
                /\ f.event = "policy_changed" /\ f.ext.layer = layer

LEMMA RollbackWrites ==
    ASSUME TypeInv, TypeInv', NEW c \in ChangeSets, Rollback(c)
    PROVE  WritesRollback(c, RolledBack(c, snapshot[c]), folder[c].layer)
<1> DEFINE e == RolledBack(c, snapshot[c])
           layer == folder[c].layer
           lowered == Ratchet(Append(journal, e), layer)
           f == [Entry("policy_changed", NoChangeSet) EXCEPT
                    !.gate = "de_escalation",
                    !.ext = [layer |-> layer, from |-> levels[layer], to |-> lowered]]
<1>1. /\ e.cs = c /\ e.event = "rolled_back" /\ e.after = snapshot[c] /\ e.day = today
      /\ f.cs = NoChangeSet /\ f.event = "policy_changed"
      /\ f.ext.layer = layer /\ f.ext.from = levels[layer] /\ f.ext.to = lowered
    BY DEF RolledBack, Entry
<1>2. /\ Journaled(<<e>> \o LevelDrop(layer, lowered))
      /\ status' = [status EXCEPT ![c] = "ROLLED_BACK"]
      /\ heads' = Written(heads, snapshot[c])
      /\ levels' = [levels EXCEPT ![layer] = lowered]
      /\ status[c] \in Live
    BY DEF Rollback, CanRollBack, HeadsRecorded, Live
<1>3. /\ lowered = levels[layer] => LevelDrop(layer, lowered) = <<>>
      /\ lowered # levels[layer] => LevelDrop(layer, lowered) = <<f>>
    BY DEF LevelDrop
<1>4. layer \in Layers
    BY <1>2, FolderFacts DEF Live
<1>5. /\ lowered \in Levels
      /\ lowered # levels[layer] => lowered < levels[layer]
    BY <1>4, RatchetLowers
<1> HIDE DEF e, f, lowered, layer
<1>6. Allowed(e, status, levels, folder')
    BY <1>1, <1>2 DEF Allowed
<1>7. heads' = HeadsAfter(heads, e) /\ StatusAfter(e) = "ROLLED_BACK"
    BY <1>1, <1>2, StatusAfterCases DEF HeadsAfter, ContentEvents
<1>8. CASE lowered = levels[layer]
    <2>1. Journaled(<<e>>)
        BY <1>2, <1>3, <1>8, ShortConcats
    <2>2. levels' = levels
        BY <1>2, <1>8 DEF TypeInv, TypeOK
    <2>3. WritesOne(e)
        BY <1>1, <1>2, <1>6, <1>7, <2>1, <2>2, OneWritten
    <2>4. WritesRollback(c, e, layer)
        BY <1>1, <1>8, <2>3 DEF WritesRollback, lowered
    <2>5. QED BY <2>4 DEF e, layer
<1>9. CASE lowered # levels[layer]
    <2>1. Journaled(<<e, f>>)
        BY <1>2, <1>3, <1>9, ShortConcats
    <2>2. e \in JournalEntry /\ f \in JournalEntry
        BY <2>1, NewTyped
    <2>3. journal' = Append(Append(journal, e), f)
        BY <2>1, <2>2, AppendTwo DEF Journaled
    <2>4. LevelsAfter(levels, e) = levels
        BY <1>1 DEF LevelsAfter
    <2>5. Allowed(f, StatusesAfter(status, e), LevelsAfter(levels, e), folder')
        BY <1>1, <1>4, <1>5, <1>9, <2>4 DEF Allowed
    <2>6. status' = StatusesAfter(StatusesAfter(status, e), f)
        BY <1>1, <1>2, <1>7, ExecutorAssumption DEF StatusesAfter
    <2>7. heads' = HeadsAfter(HeadsAfter(heads, e), f)
        BY <1>1, <1>7 DEF HeadsAfter, ContentEvents
    <2>8. levels' = LevelsAfter(LevelsAfter(levels, e), f)
        BY <1>1, <1>2, <2>4 DEF LevelsAfter
    <2>9. WritesTwo(e, f)
        BY <1>1, <1>6, <2>2, <2>3, <2>5, <2>6, <2>7, <2>8 DEF WritesTwo
    <2>10. WritesRollback(c, e, layer)
        BY <1>1, <2>9 DEF WritesRollback
    <2>11. QED BY <2>10 DEF e, layer
<1>10. QED BY <1>8, <1>9

\* Every step of the Executor, and of its environment, writes nothing, one allowed
\* entry, or two.
LEMMA NextWrites ==
    ASSUME TypeInv, [Next]_vars
    PROVE  \/ WritesNothing
           \/ \E e : WritesOne(e)
           \/ \E e, f : WritesTwo(e, f)
<1>1. TypeInv'
    BY NextTypeInv
<1>2. ASSUME UNCHANGED <<journal, stateVars>>
      PROVE  WritesNothing
    BY <1>2 DEF WritesNothing, stateVars
<1>3. ASSUME NEW c \in ChangeSets,
             ProposeBadId(c) \/ AttachEvidence(c) \/ AttachRefused(c) \/ RollbackEscapes(c)
      PROVE  WritesNothing
    BY <1>2, <1>3 DEF ProposeBadId, AttachEvidence, AttachRefused, RollbackEscapes
<1>4. CASE HandEdit \/ EditPolicy \/ Tick \/ UNCHANGED vars
    BY <1>2, <1>4 DEF HandEdit, EditPolicy, Tick, vars, stateVars
<1>5. ASSUME NEW c \in ChangeSets, Rollback(c)
      PROVE  (\E e : WritesOne(e)) \/ (\E e, f : WritesTwo(e, f))
    BY <1>1, <1>5, RollbackWrites DEF WritesRollback
<1>6. QED
    BY <1>1, <1>3, <1>4, <1>5, ProposeWrites, GateWrites, ApplyWritesOne, ReviewWrites,
       PromoteWrites
    DEF Next

\* The producer, the layer and the targets of a change do not change once it is known.
LEMMA NextKnown ==
    ASSUME TypeInv, [Next]_vars
    PROVE  KnownStay
<1>1. ASSUME folder' = folder PROVE KnownStay
    BY <1>1 DEF KnownStay
<1>2. ASSUME NEW c \in ChangeSets, Propose(c) \/ ProposeBadId(c)
      PROVE  KnownStay
    <2>1. /\ folder[c] = NoFolder
          /\ \E cs : folder' = [folder EXCEPT ![c] = cs]
        BY <1>2 DEF Propose, ProposeBadId
    <2>2. status[c] = "UNKNOWN"
        BY <2>1 DEF TypeInv, KnownHasFolder
    <2>3. QED BY <2>1, <2>2 DEF KnownStay, TypeInv, TypeOK
<1>3. ASSUME NEW c \in ChangeSets, AttachEvidence(c) \/ AttachRefused(c)
      PROVE  KnownStay
    <2>1. \E listing : folder' = [folder EXCEPT ![c].evidence = listing]
        BY <1>3 DEF AttachEvidence, AttachRefused
    <2>2. /\ folder[c] \in ChangeSetFolder
          /\ folder \in [ChangeSets -> ChangeSetFolder \cup {NoFolder}]
        BY <1>3 DEF AttachEvidence, AttachRefused, TypeInv, TypeOK
    <2>3. QED BY <2>1, <2>2 DEF KnownStay, ChangeSetFolder
<1>4. ASSUME NEW c \in ChangeSets,
             \/ GateSuggest(c) \/ GateReject(c) \/ GateQueue(c) \/ GateAuto(c)
             \/ Apply(c) \/ Promote(c) \/ Rollback(c) \/ RollbackEscapes(c)
             \/ \E a \in Actors : Approve(c, a) \/ Reject(c, a)
      PROVE  KnownStay
    BY <1>1, <1>4
    DEF GateSuggest, GateReject, GateQueue, GateAuto, GateTo, Apply, ApplyAs, Promote, Rollback,
        RollbackEscapes, Approve, Reject
<1>5. CASE HandEdit \/ EditPolicy \/ Tick \/ UNCHANGED vars
    BY <1>1, <1>5 DEF HandEdit, EditPolicy, Tick, vars
<1>6. QED BY <1>2, <1>3, <1>4, <1>5 DEF Next
-----------------------------------------------------------------------------
\* The past of every change is what its status says.

\* Two logs that agree on their first n entries.
Agree(log, new, n) == \A i \in 1 .. n : new[i] = log[i]

LEMMA AppendFacts ==
    ASSUME NEW log \in Seq(JournalEntry), NEW e \in JournalEntry
    PROVE  /\ Append(log, e) \in Seq(JournalEntry)
           /\ Len(log) \in Nat
           /\ Len(Append(log, e)) = Len(log) + 1
           /\ DOMAIN log = 1 .. Len(log)
           /\ DOMAIN Append(log, e) = 1 .. (Len(log) + 1)
           /\ Agree(log, Append(log, e), Len(log))
           /\ Append(log, e)[Len(log) + 1] = e
BY AppendProperties DEF Agree

LEMMA SplitRange ==
    ASSUME NEW n \in Nat, NEW i \in 1 .. (n + 1)
    PROVE  i \in 1 .. n \/ i = n + 1
OBVIOUS

\* What was found among the first n entries is found in a longer log.
LEMMA FoundStays ==
    ASSUME NEW log, NEW new, NEW n \in Nat, NEW m \in Nat, n <= m, Agree(log, new, n),
           NEW c, NEW fold
    PROVE  /\ Proposed(log, n, c) => Proposed(new, m, c)
           /\ \A mode \in {"auto", "queue"} :
                GatedAs(log, n, c, mode) => GatedAs(new, m, c, mode)
           /\ ApprovedBy(log, n, c, fold) => ApprovedBy(new, m, c, fold)
<1>1. 1 .. n \subseteq 1 .. m
    OBVIOUS
<1>2. ASSUME Proposed(log, n, c) PROVE Proposed(new, m, c)
    BY <1>1, <1>2 DEF Proposed, Agree
<1>3. ASSUME NEW mode, GatedAs(log, n, c, mode)
      PROVE  GatedAs(new, m, c, mode)
    <2>1. PICK p \in 1 .. n, g \in 1 .. n :
            /\ log[p].cs = c /\ log[g].cs = c
            /\ p < g /\ log[p].event = "proposed" /\ log[g].event = "gated"
            /\ log[g].gate = mode
            /\ mode = "auto" => log[g].level >= 2
        BY <1>3 DEF GatedAs
    <2>2. /\ p \in 1 .. m /\ g \in 1 .. m
          /\ new[p] = log[p] /\ new[g] = log[g]
        BY <1>1, <2>1 DEF Agree
    <2>3. QED BY <2>1, <2>2 DEF GatedAs
<1>4. ASSUME ApprovedBy(log, n, c, fold) PROVE ApprovedBy(new, m, c, fold)
    <2>1. PICK p \in 1 .. n, g \in 1 .. n, r \in 1 .. n :
            /\ log[p].cs = c /\ log[g].cs = c /\ log[r].cs = c
            /\ p < g /\ log[p].event = "proposed" /\ log[g].event = "gated"
            /\ log[g].gate = "queue"
            /\ r > g /\ log[r].event = "approved"
            /\ log[r].by.role \in {"reviewer", "human"}
            /\ log[r].by.name # fold[c].producer
        BY <1>4 DEF ApprovedBy
    <2>2. /\ p \in 1 .. m /\ g \in 1 .. m /\ r \in 1 .. m
          /\ new[p] = log[p] /\ new[g] = log[g] /\ new[r] = log[r]
        BY <1>1, <2>1 DEF Agree
    <2>3. QED BY <2>1, <2>2 DEF ApprovedBy
<1>5. QED BY <1>2, <1>3, <1>4

\* How an entry moves its change, and its past with it.
LEMMA PastGrows ==
    ASSUME NEW e \in JournalEntry, NEW st, NEW lv, NEW fold,
           Allowed(e, st, lv, fold), e.cs \in ChangeSets
    PROVE  /\ Past(st[e.cs]) \subseteq Past(StatusAfter(e))
           /\ e.event \in Past(StatusAfter(e))
           /\ e.event \in ContentEvents => e.event \notin Past(st[e.cs])
           /\ e.event \in {"applied", "weight_update"}
                => Past(st[e.cs]) \subseteq {"proposed", "gated", "approved"}
<1> DEFINE before == st[e.cs]
<1>1. e.event \in Event /\ e.cs # NoChangeSet
    BY ExecutorAssumption DEF JournalEntry
<1>2. \/ e.event = "proposed" /\ before = "UNKNOWN"
      \/ /\ e.event = "gated" /\ before = "VALIDATED"
         /\ e.gate \in {"suggest", "queue", "auto"}
      \/ /\ e.event = "rejected"
         /\ before \in {"VALIDATED", "QUEUED", "GATE_APPROVED", "APPROVED"}
      \/ e.event = "approved" /\ before = "QUEUED"
      \/ /\ e.event \in {"applied", "weight_update"}
         /\ before \in {"GATE_APPROVED", "APPROVED"}
      \/ e.event = "promoted" /\ before = "APPLIED"
      \/ e.event = "rolled_back" /\ before \in Live
    BY <1>1 DEF Allowed
<1> HIDE DEF before
<1>3. CASE e.event = "proposed" /\ before = "UNKNOWN"
    BY <1>3, StatusAfterCases DEF Past, Undecided, ContentEvents, before
<1>4. CASE /\ e.event = "gated" /\ before = "VALIDATED"
           /\ e.gate \in {"suggest", "queue", "auto"}
    <2>1. StatusAfter(e) \in {"SUGGESTED", "QUEUED", "GATE_APPROVED"}
        BY <1>4, StatusAfterCases
    <2>2. QED BY <1>4, <2>1 DEF Past, Undecided, ContentEvents, before
<1>5. CASE /\ e.event = "rejected"
           /\ before \in {"VALIDATED", "QUEUED", "GATE_APPROVED", "APPROVED"}
    BY <1>5, StatusAfterCases DEF Past, Undecided, ContentEvents, before
<1>6. CASE e.event = "approved" /\ before = "QUEUED"
    BY <1>6, StatusAfterCases DEF Past, Undecided, ContentEvents, before
<1>7. CASE /\ e.event \in {"applied", "weight_update"}
           /\ before \in {"GATE_APPROVED", "APPROVED"}
    <2>1. StatusAfter(e) = "APPLIED"
        BY <1>7, StatusAfterCases
    <2>2. Past("APPLIED") = Event \ {"rolled_back"}
        BY DEF Past, Undecided, Live
    <2>3. Past(before) = {"proposed", "gated", "approved"}
        BY <1>7 DEF Past, Undecided
    <2>4. QED BY <1>7, <2>1, <2>2, <2>3 DEF Event, ContentEvents, before
<1>8. CASE e.event = "promoted" /\ before = "APPLIED"
    BY <1>8, StatusAfterCases DEF Past, Undecided, Live, Event, ContentEvents, before
<1>9. CASE e.event = "rolled_back" /\ before \in Live
    BY <1>9, StatusAfterCases DEF Past, Undecided, Live, Event, ContentEvents, before
<1>10. QED BY <1>2, <1>3, <1>4, <1>5, <1>6, <1>7, <1>8, <1>9

\* Which entries lead to the statuses on the way to an application.
LEMMA ReachedBy ==
    ASSUME NEW e \in JournalEntry, NEW st, NEW lv, NEW fold,
           Allowed(e, st, lv, fold), e.cs \in ChangeSets
    PROVE  /\ StatusAfter(e) = "VALIDATED" => e.event = "proposed"
           /\ StatusAfter(e) = "QUEUED" =>
                e.event = "gated" /\ e.gate = "queue" /\ st[e.cs] = "VALIDATED"
           /\ StatusAfter(e) = "GATE_APPROVED" =>
                /\ e.event = "gated" /\ e.gate = "auto" /\ e.level >= 2
                /\ st[e.cs] = "VALIDATED"
           /\ StatusAfter(e) = "APPROVED" =>
                /\ e.event = "approved" /\ st[e.cs] = "QUEUED"
                /\ e.by.role \in {"reviewer", "human"}
                /\ e.by.name # fold[e.cs].producer
           /\ e.event \in {"applied", "weight_update"} =>
                \/ st[e.cs] = "GATE_APPROVED" /\ e.gate = "auto"
                \/ st[e.cs] = "APPROVED" /\ e.gate = "human_review"
BY ExecutorAssumption, StatusAfterCases DEF Allowed

\* An application that is explained stays explained.
LEMMA ExplainedStays ==
    ASSUME NEW log, NEW new, NEW n \in Nat, Agree(log, new, n), NEW i \in 1 .. n, NEW fold,
           ExplainedAt(log, i, fold)
    PROVE  ExplainedAt(new, i, fold)
<1> DEFINE c == log[i].cs
<1>1. new[i] = log[i] /\ i - 1 \in Nat /\ 1 .. (i - 1) \subseteq 1 .. n
    BY DEF Agree
<1>2. Agree(log, new, i - 1)
    BY <1>1 DEF Agree
<1>3. \A j \in 1 .. (i - 1) : new[j] = log[j]
    BY <1>2 DEF Agree
<1>4. \A j \in 1 .. (i - 1) :
        log[j].cs = c => log[j].event \in {"proposed", "gated", "approved"}
    BY DEF ExplainedAt
<1>5. \/ log[i].gate = "auto" /\ GatedAs(log, i - 1, c, "auto")
      \/ log[i].gate = "human_review" /\ ApprovedBy(log, i - 1, c, fold)
    BY DEF ExplainedAt
<1> HIDE DEF c
<1>6. \/ log[i].gate = "auto" /\ GatedAs(new, i - 1, c, "auto")
      \/ log[i].gate = "human_review" /\ ApprovedBy(new, i - 1, c, fold)
    BY <1>1, <1>2, <1>5, FoundStays
<1>7. new[i].cs = c
    BY <1>1 DEF c
<1>8. QED BY <1>1, <1>3, <1>4, <1>6, <1>7 DEF ExplainedAt

\* An allowed entry keeps the history as it should be.
LEMMA HistoryAppend ==
    ASSUME NEW log \in Seq(JournalEntry), NEW st \in [ChangeSets -> Status], NEW lv, NEW fold,
           History(log, st, fold), NEW e \in JournalEntry, Allowed(e, st, lv, fold)
    PROVE  History(Append(log, e), StatusesAfter(st, e), fold)
<1> DEFINE n == Len(log)
           new == Append(log, e)
           st2 == StatusesAfter(st, e)
<1>1. /\ n \in Nat /\ Len(new) = n + 1
      /\ DOMAIN log = 1 .. n /\ DOMAIN new = 1 .. (n + 1)
      /\ Agree(log, new, n) /\ new[n + 1] = e
    BY AppendFacts
<1>2. \A c \in ChangeSets : st2[c] = IF c = e.cs THEN StatusAfter(e) ELSE st[c]
    BY DEF StatusesAfter
<1> HIDE DEF n, new, st2
<1>3. \A i \in 1 .. (n + 1) :
        (i \in 1 .. n /\ new[i] = log[i]) \/ (i = n + 1 /\ new[i] = e)
    BY <1>1, SplitRange DEF Agree
<1>4. \A i \in 1 .. n : i \in 1 .. (n + 1) /\ i # n + 1
    BY <1>1
<1>5. e.cs \in ChangeSets =>
        /\ Past(st[e.cs]) \subseteq Past(StatusAfter(e))
        /\ e.event \in Past(StatusAfter(e))
        /\ e.event \in ContentEvents => e.event \notin Past(st[e.cs])
        /\ e.event \in {"applied", "weight_update"}
             => Past(st[e.cs]) \subseteq {"proposed", "gated", "approved"}
    BY PastGrows
<1>6. \A i \in 1 .. n : log[i].cs \in ChangeSets => log[i].event \in Past(st[log[i].cs])
    BY <1>1 DEF History
<1>7. \A i \in 1 .. (n + 1) : new[i].cs \in ChangeSets => new[i].event \in Past(st2[new[i].cs])
    BY <1>2, <1>3, <1>5, <1>6
<1>8. e.event \in ContentEvents \cup {"applied", "weight_update"} => e.cs \in ChangeSets
    BY DEF Allowed, ContentEvents
<1>9. ASSUME NEW c \in ChangeSets
      PROVE  /\ st2[c] = "VALIDATED" => Proposed(new, n + 1, c)
             /\ st2[c] = "QUEUED" => GatedAs(new, n + 1, c, "queue")
             /\ st2[c] = "GATE_APPROVED" => GatedAs(new, n + 1, c, "auto")
             /\ st2[c] = "APPROVED" => ApprovedBy(new, n + 1, c, fold)
    <2>1. /\ st[c] = "VALIDATED" => Proposed(new, n, c)
          /\ st[c] = "QUEUED" => GatedAs(new, n, c, "queue")
          /\ st[c] = "GATE_APPROVED" => GatedAs(new, n, c, "auto")
          /\ st[c] = "APPROVED" => ApprovedBy(new, n, c, fold)
        BY <1>1, FoundStays DEF History, n
    <2>2. CASE c # e.cs
        <3>1. Agree(new, new, n) /\ n <= n + 1 /\ n + 1 \in Nat
            BY <1>1 DEF Agree
        <3>2. st2[c] = st[c]
            BY <1>2, <2>2
        <3>3. QED BY <1>1, <2>1, <3>1, <3>2, FoundStays
    <2>3. CASE c = e.cs
        <3>1. st2[c] = StatusAfter(e)
            BY <1>2, <2>3
        <3>2. n + 1 \in 1 .. (n + 1) /\ \A i \in 1 .. n : i < n + 1 /\ i \in 1 .. (n + 1)
            BY <1>1
        <3>3. ASSUME st2[c] = "VALIDATED" PROVE Proposed(new, n + 1, c)
            BY <1>1, <2>3, <3>1, <3>2, <3>3, ReachedBy DEF Proposed
        <3>4. ASSUME st2[c] = "QUEUED" PROVE GatedAs(new, n + 1, c, "queue")
            <4>1. e.event = "gated" /\ e.gate = "queue" /\ st[c] = "VALIDATED"
                BY <2>3, <3>1, <3>4, ReachedBy
            <4>2. PICK p \in 1 .. n : new[p].cs = c /\ new[p].event = "proposed"
                BY <2>1, <4>1 DEF Proposed
            <4>3. QED BY <1>1, <2>3, <3>2, <4>1, <4>2 DEF GatedAs
        <3>5. ASSUME st2[c] = "GATE_APPROVED" PROVE GatedAs(new, n + 1, c, "auto")
            <4>1. /\ e.event = "gated" /\ e.gate = "auto" /\ e.level >= 2
                  /\ st[c] = "VALIDATED"
                BY <2>3, <3>1, <3>5, ReachedBy
            <4>2. PICK p \in 1 .. n : new[p].cs = c /\ new[p].event = "proposed"
                BY <2>1, <4>1 DEF Proposed
            <4>3. QED BY <1>1, <2>3, <3>2, <4>1, <4>2 DEF GatedAs
        <3>6. ASSUME st2[c] = "APPROVED" PROVE ApprovedBy(new, n + 1, c, fold)
            <4>1. /\ e.event = "approved" /\ st[c] = "QUEUED"
                  /\ e.by.role \in {"reviewer", "human"}
                  /\ e.by.name # fold[c].producer
                BY <2>3, <3>1, <3>6, ReachedBy
            <4>2. PICK p \in 1 .. n, g \in 1 .. n :
                    /\ new[p].cs = c /\ new[g].cs = c
                    /\ p < g /\ new[p].event = "proposed" /\ new[g].event = "gated"
                    /\ new[g].gate = "queue"
                BY <2>1, <4>1 DEF GatedAs
            <4>3. n + 1 > g
                BY <1>1, <4>2
            <4>4. QED BY <1>1, <2>3, <3>2, <4>1, <4>2, <4>3 DEF ApprovedBy
        <3>7. QED BY <3>3, <3>4, <3>5, <3>6
    <2>4. QED BY <2>2, <2>3
<1>10. ASSUME NEW i \in 1 .. (n + 1), new[i].event \in {"applied", "weight_update"}
       PROVE  ExplainedAt(new, i, fold)
    <2>1. CASE i \in 1 .. n
        <3>1. ExplainedAt(log, i, fold)
            BY <1>1, <1>3, <1>10, <2>1 DEF History, Agree
        <3>2. QED BY <1>1, <2>1, <3>1, ExplainedStays
    <2>2. CASE i = n + 1
        <3>1. new[i] = e /\ i - 1 = n /\ e.cs \in ChangeSets
            BY <1>1, <1>8, <1>10, <2>2
        <3>2. \/ st[e.cs] = "GATE_APPROVED" /\ e.gate = "auto"
              \/ st[e.cs] = "APPROVED" /\ e.gate = "human_review"
            BY <1>10, <3>1, ReachedBy
        <3>3. \/ e.gate = "auto" /\ GatedAs(new, n, e.cs, "auto")
              \/ e.gate = "human_review" /\ ApprovedBy(new, n, e.cs, fold)
            BY <1>1, <3>1, <3>2, FoundStays DEF History, n
        <3>4. \A j \in 1 .. n :
                new[j].cs = e.cs => new[j].event \in {"proposed", "gated", "approved"}
            BY <1>1, <1>5, <1>6, <1>10, <3>1 DEF Agree
        <3>5. QED BY <3>1, <3>3, <3>4 DEF ExplainedAt
    <2>3. QED BY <1>3, <2>1, <2>2
<1>11. \A i \in 1 .. (n + 1) :
        new[i].event \in ContentEvents \cup {"weight_update"} => new[i].cs \in ChangeSets
    BY <1>1, <1>3, <1>8 DEF History
<1>12. \A i, j \in 1 .. (n + 1) :
        (/\ new[i].event \in ContentEvents
         /\ new[j].event = new[i].event
         /\ new[j].cs = new[i].cs) => i = j
    <2>1. \A i, j \in 1 .. n :
            (/\ log[i].event \in ContentEvents
             /\ log[j].event = log[i].event
             /\ log[j].cs = log[i].cs) => i = j
        BY <1>1 DEF History
    <2>2. ASSUME NEW j \in 1 .. n, e.event \in ContentEvents,
                 log[j].event = e.event, log[j].cs = e.cs
          PROVE  FALSE
        BY <1>5, <1>6, <1>8, <2>2
    <2>3. QED BY <1>3, <2>1, <2>2
<1>13. QED
    BY <1>1, <1>7, <1>9, <1>10, <1>11, <1>12 DEF History, new, st2

\* The history does not depend on folders but for the producers of known changes.
LEMMA HistorySameProducers ==
    ASSUME TypeInv, HistoryInv, KnownStay
    PROVE  History(journal, status, folder')
<1>1. ASSUME NEW c \in ChangeSets, NEW n, status[c] # "UNKNOWN",
             ApprovedBy(journal, n, c, folder)
      PROVE  ApprovedBy(journal, n, c, folder')
    BY <1>1 DEF ApprovedBy, KnownStay
<1>2. ASSUME NEW i \in DOMAIN journal, journal[i].event \in {"applied", "weight_update"}
      PROVE  ExplainedAt(journal, i, folder')
    <2> DEFINE c == journal[i].cs
    <2>1. c \in ChangeSets /\ journal[i].event \in Past(status[c])
        BY <1>2 DEF HistoryInv, History, ContentEvents
    <2>2. status[c] # "UNKNOWN"
        BY <2>1 DEF Past
    <2>3. /\ \A j \in 1 .. (i - 1) :
                journal[j].cs = c => journal[j].event \in {"proposed", "gated", "approved"}
          /\ \/ journal[i].gate = "auto" /\ GatedAs(journal, i - 1, c, "auto")
             \/ journal[i].gate = "human_review" /\ ApprovedBy(journal, i - 1, c, folder)
        BY <1>2 DEF HistoryInv, History, ExplainedAt
    <2>4. ApprovedBy(journal, i - 1, c, folder) => ApprovedBy(journal, i - 1, c, folder')
        BY <1>1, <2>1, <2>2
    <2>5. QED BY <2>3, <2>4 DEF ExplainedAt
<1>3. QED BY <1>1, <1>2 DEF HistoryInv, History

LEMMA NextHistory == TypeInv /\ HistoryInv /\ [Next]_vars => HistoryInv'
<1> SUFFICES ASSUME TypeInv, HistoryInv, [Next]_vars PROVE HistoryInv'
    OBVIOUS
<1>1. History(journal, status, folder')
    BY NextKnown, HistorySameProducers
<1>2. journal \in Seq(JournalEntry) /\ status \in [ChangeSets -> Status]
    BY DEF TypeInv, TypeOK
<1>3. SUFFICES History(journal', status', folder')
    BY DEF HistoryInv
<1>4. CASE WritesNothing
    BY <1>1, <1>4 DEF WritesNothing
<1>5. ASSUME NEW e, WritesOne(e)
      PROVE  History(journal', status', folder')
    BY <1>1, <1>2, <1>5, HistoryAppend DEF WritesOne
<1>6. ASSUME NEW e, NEW f, WritesTwo(e, f)
      PROVE  History(journal', status', folder')
    <2> DEFINE mid == Append(journal, e)
               st == StatusesAfter(status, e)
               lv == LevelsAfter(levels, e)
    <2>1. /\ e \in JournalEntry /\ f \in JournalEntry
          /\ Allowed(e, status, levels, folder')
          /\ Allowed(f, st, lv, folder')
          /\ journal' = Append(mid, f)
          /\ status' = StatusesAfter(st, f)
        BY <1>6 DEF WritesTwo
    <2>2. History(mid, st, folder')
        BY <1>1, <1>2, <2>1, HistoryAppend
    <2>3. mid \in Seq(JournalEntry)
        BY <1>2, <2>1
    <2>4. st \in [ChangeSets -> Status]
        <3>1. e.cs \in ChangeSets => StatusAfter(e) \in Status
            BY <2>1, StatusAfterCases, ExecutorAssumption DEF Allowed, Status
        <3>2. QED BY <1>2, <3>1 DEF StatusesAfter
    <2> HIDE DEF mid, st, lv
    <2>5. QED BY <2>1, <2>2, <2>3, <2>4, HistoryAppend
<1>7. QED BY <1>4, <1>5, <1>6, NextWrites

LEMMA InitHistory == Init => HistoryInv
<1> SUFFICES ASSUME Init PROVE HistoryInv
    OBVIOUS
<1> DEFINE e == [Entry("genesis", NoChangeSet) EXCEPT !.ext = levels]
<1>1. e.cs = NoChangeSet /\ e.event = "genesis"
    BY DEF Entry
<1>2. journal = <<e>>
    BY DEF Init
<1> HIDE DEF e
<1>3. \A i \in DOMAIN journal :
        i = 1 /\ journal[i].cs = NoChangeSet /\ journal[i].event = "genesis"
    BY <1>1, <1>2
<1>4. \A c \in ChangeSets : status[c] = "UNKNOWN"
    BY DEF Init
<1>5. QED BY <1>3, <1>4, ExecutorAssumption DEF HistoryInv, History, ContentEvents

LEMMA HistoryAlways == Spec => [](TypeInv /\ HistoryInv)
<1>1. (TypeInv /\ HistoryInv) /\ [Next]_vars => (TypeInv /\ HistoryInv)'
    BY NextTypeInv, NextHistory
<1>2. QED BY <1>1, InitTypeInv, InitHistory, PTL DEF Spec

\* What AppliedIsExplained says of one entry, with its names bound.
ExplainedBy(i, c, earlier) ==
    /\ \A j \in earlier : journal[j].event \in {"proposed", "gated", "approved"}
    /\ \E p, g \in earlier :
        /\ p < g /\ journal[p].event = "proposed" /\ journal[g].event = "gated"
        /\ \/ /\ journal[i].gate = "auto"
              /\ journal[g].gate = "auto"
              /\ journal[g].level >= 2
           \/ /\ journal[i].gate = "human_review"
              /\ journal[g].gate = "queue"
              /\ \E r \in earlier :
                    /\ r > g /\ journal[r].event = "approved"
                    /\ journal[r].by.role \in {"reviewer", "human"}
                    /\ journal[r].by.name # folder[c].producer

\* Every application in the journal was proposed, passed its gate and was not refused
\* before, and one that was reviewed was approved by somebody else than its producer.
THEOREM ApplicationsAreExplained == Spec => []AppliedIsExplained
<1>1. ASSUME TypeInv, HistoryInv
      PROVE  AppliedIsExplained
    <2> SUFFICES ASSUME NEW i \in DOMAIN journal,
                        journal[i].event \in {"applied", "weight_update"}
        PROVE  ExplainedBy(i, journal[i].cs, {j \in 1 .. (i - 1) : journal[j].cs = journal[i].cs})
        BY DEF AppliedIsExplained, ExplainedBy
    <2> DEFINE c == journal[i].cs
               earlier == {j \in 1 .. (i - 1) : journal[j].cs = c}
    <2>1. \A j \in 1 .. (i - 1) : journal[j].cs = c => j \in earlier
        OBVIOUS
    <2>2. ExplainedAt(journal, i, folder)
        BY <1>1 DEF HistoryInv, History
    <2>3. \A j \in earlier : journal[j].event \in {"proposed", "gated", "approved"}
        BY <2>2 DEF ExplainedAt
    <2>4. \/ journal[i].gate = "auto" /\ GatedAs(journal, i - 1, c, "auto")
          \/ journal[i].gate = "human_review" /\ ApprovedBy(journal, i - 1, c, folder)
        BY <2>2 DEF ExplainedAt
    <2> HIDE DEF c, earlier
    <2>5. ASSUME journal[i].gate = "auto" /\ GatedAs(journal, i - 1, c, "auto")
          PROVE  ExplainedBy(i, c, earlier)
        <3>1. PICK p \in 1 .. (i - 1), g \in 1 .. (i - 1) :
                /\ journal[p].cs = c /\ journal[g].cs = c
                /\ p < g /\ journal[p].event = "proposed" /\ journal[g].event = "gated"
                /\ journal[g].gate = "auto"
                /\ journal[g].level >= 2
            BY <2>5 DEF GatedAs
        <3>2. p \in earlier /\ g \in earlier
            BY <2>1, <3>1
        <3>3. QED BY <2>3, <2>5, <3>1, <3>2 DEF ExplainedBy
    <2>6. ASSUME journal[i].gate = "human_review" /\ ApprovedBy(journal, i - 1, c, folder)
          PROVE  ExplainedBy(i, c, earlier)
        <3>1. PICK p \in 1 .. (i - 1), g \in 1 .. (i - 1), r \in 1 .. (i - 1) :
                /\ journal[p].cs = c /\ journal[g].cs = c /\ journal[r].cs = c
                /\ p < g /\ journal[p].event = "proposed" /\ journal[g].event = "gated"
                /\ journal[g].gate = "queue"
                /\ r > g /\ journal[r].event = "approved"
                /\ journal[r].by.role \in {"reviewer", "human"}
                /\ journal[r].by.name # folder[c].producer
            BY <2>6 DEF ApprovedBy
        <3>2. p \in earlier /\ g \in earlier /\ r \in earlier
            BY <2>1, <3>1
        <3>3. QED BY <2>3, <2>6, <3>1, <3>2 DEF ExplainedBy
    <2>7. ExplainedBy(i, c, earlier)
        BY <2>5, <2>6, <2>4
    <2>8. QED BY <2>7 DEF c, earlier
<1>2. QED BY <1>1, HistoryAlways, PTL

\* A change takes effect once and is undone once.
THEOREM EffectsHappenOnce == Spec => []OnceEach
<1>1. HistoryInv => OnceEach
    BY DEF HistoryInv, History, OnceEach
<1>2. QED BY <1>1, HistoryAlways, PTL
-----------------------------------------------------------------------------
\* Heads.

HeadsFollow(log, hd) ==
    \A i \in DOMAIN log : log[i].event \in ContentEvents =>
        \A t \in DOMAIN log[i].after :
            \/ hd[t] = log[i].after[t]
            \/ \E j \in DOMAIN log :
                j > i /\ log[j].event \in ContentEvents /\ t \in DOMAIN log[j].after

\* An entry that covers a path becomes its newest, and its head.
LEMMA HeadsAppend ==
    ASSUME NEW log \in Seq(JournalEntry), NEW hd \in [Paths -> FileState],
           HeadsFollow(log, hd), NEW e \in JournalEntry
    PROVE  HeadsFollow(Append(log, e), HeadsAfter(hd, e))
<1> DEFINE n == Len(log)
           new == Append(log, e)
           hd2 == HeadsAfter(hd, e)
<1>1. /\ n \in Nat
      /\ DOMAIN log = 1 .. n /\ DOMAIN new = 1 .. (n + 1)
      /\ Agree(log, new, n) /\ new[n + 1] = e
    BY AppendFacts
<1>2. \A i \in 1 .. n : log[i] \in JournalEntry
    OBVIOUS
<1>3. \A x \in JournalEntry : DOMAIN x.after \subseteq Paths
    BY DEF JournalEntry, PartialFiles
<1>4. /\ e.event \notin ContentEvents => hd2 = hd
      /\ e.event \in ContentEvents =>
            \A t \in Paths : hd2[t] = IF t \in DOMAIN e.after THEN e.after[t] ELSE hd[t]
    BY DEF HeadsAfter, Written
<1> HIDE DEF n, new, hd2
<1>5. SUFFICES ASSUME NEW i \in 1 .. (n + 1), new[i].event \in ContentEvents,
                      NEW t \in DOMAIN new[i].after
      PROVE  \/ hd2[t] = new[i].after[t]
             \/ \E j \in 1 .. (n + 1) :
                j > i /\ new[j].event \in ContentEvents /\ t \in DOMAIN new[j].after
    BY <1>1 DEF HeadsFollow, new, hd2
<1>6. CASE i = n + 1
    BY <1>1, <1>3, <1>4, <1>5, <1>6
<1>7. CASE i \in 1 .. n
    <2>1. new[i] = log[i] /\ t \in Paths /\ n + 1 > i /\ n + 1 \in 1 .. (n + 1)
        BY <1>1, <1>2, <1>3, <1>5, <1>7 DEF Agree
    <2>2. CASE \E j \in 1 .. n :
                j > i /\ log[j].event \in ContentEvents /\ t \in DOMAIN log[j].after
        BY <1>1, <2>2 DEF Agree
    <2>3. CASE hd[t] = log[i].after[t]
        BY <1>1, <1>4, <2>1, <2>3
    <2>4. QED BY <1>1, <1>5, <1>7, <2>1, <2>2, <2>3 DEF HeadsFollow
<1>8. QED BY <1>1, <1>6, <1>7, SplitRange

LEMMA HeadsAfterType ==
    ASSUME NEW hd \in [Paths -> FileState], NEW e \in JournalEntry
    PROVE  HeadsAfter(hd, e) \in [Paths -> FileState]
<1>1. e.after \in PartialFiles
    BY DEF JournalEntry
<1>2. QED BY <1>1, WrittenType DEF HeadsAfter

LEMMA NextHeads == TypeInv /\ HeadsFollow(journal, heads) /\ [Next]_vars
                    => HeadsFollow(journal', heads')
<1> SUFFICES ASSUME TypeInv, HeadsFollow(journal, heads), [Next]_vars
    PROVE  HeadsFollow(journal', heads')
    OBVIOUS
<1>1. journal \in Seq(JournalEntry) /\ heads \in [Paths -> FileState]
    BY DEF TypeInv, TypeOK
<1>2. CASE WritesNothing
    BY <1>2 DEF WritesNothing
<1>3. ASSUME NEW e, WritesOne(e)
      PROVE  HeadsFollow(journal', heads')
    BY <1>1, <1>3, HeadsAppend DEF WritesOne
<1>4. ASSUME NEW e, NEW f, WritesTwo(e, f)
      PROVE  HeadsFollow(journal', heads')
    <2> DEFINE mid == Append(journal, e)
               hd == HeadsAfter(heads, e)
    <2>1. /\ e \in JournalEntry /\ f \in JournalEntry
          /\ journal' = Append(mid, f) /\ heads' = HeadsAfter(hd, f)
        BY <1>4 DEF WritesTwo
    <2>2. HeadsFollow(mid, hd) /\ mid \in Seq(JournalEntry) /\ hd \in [Paths -> FileState]
        BY <1>1, <2>1, HeadsAppend, HeadsAfterType
    <2> HIDE DEF mid, hd
    <2>3. QED BY <2>1, <2>2, HeadsAppend
<1>5. QED BY <1>2, <1>3, <1>4, NextWrites

\* What verify compares the files with is what the journal recorded last.
THEOREM HeadsFollowJournal == Spec => []HeadsAreJournaled
<1> DEFINE H == HeadsFollow(journal, heads)
<1>1. Init => H
    <2> SUFFICES ASSUME Init PROVE H
        OBVIOUS
    <2> DEFINE e == [Entry("genesis", NoChangeSet) EXCEPT !.ext = levels]
    <2>1. e.event = "genesis" /\ journal = <<e>>
        BY DEF Entry, Init
    <2> HIDE DEF e
    <2>2. QED BY <2>1 DEF HeadsFollow, ContentEvents
<1>2. TypeInv /\ H /\ [Next]_vars => H'
    BY NextHeads
<1>3. H => HeadsAreJournaled
    BY DEF HeadsFollow, HeadsAreJournaled
<1> HIDE DEF H
<1>4. QED BY <1>1, <1>2, <1>3, TypeCorrect, PTL DEF Spec
-----------------------------------------------------------------------------
\* Levels.

\* The de-escalations of a layer among the first n entries, and the level they leave.
Lowerings(log, layer, n) ==
    {i \in 1 .. n : log[i].event = "policy_changed" /\ log[i].ext.layer = layer}

LevelIn(log, layer, n) ==
    LET changes == Lowerings(log, layer, n)
    IN IF changes = {} THEN log[1].ext[layer] ELSE log[LastOf(changes)].ext.to

\* The levels in force are those that a replay gives, and every recorded transition
\* starts from such a level and lowers it.
Replayed(log, lv) ==
    /\ Len(log) >= 1
    /\ \A layer \in Layers : lv[layer] = LevelIn(log, layer, Len(log))
    /\ \A i \in DOMAIN log : log[i].event = "policy_changed" =>
        /\ log[i].ext.from = LevelIn(log, log[i].ext.layer, i - 1)
        /\ log[i].ext.to < log[i].ext.from

ReplayInv == Replayed(journal, levels)

\* The first n entries alone decide the level after them.
LEMMA LevelStays ==
    ASSUME NEW log, NEW new, NEW n \in Nat, n >= 1, Agree(log, new, n),
           NEW layer, NEW k \in 0 .. n
    PROVE  LevelIn(new, layer, k) = LevelIn(log, layer, k)
<1> DEFINE S == Lowerings(log, layer, k)
<1>1. k \in Nat /\ \A i \in 1 .. k : new[i] = log[i]
    BY DEF Agree
<1>2. Lowerings(new, layer, k) = S /\ S \in SUBSET (1 .. k)
    BY <1>1 DEF Lowerings
<1>3. new[1] = log[1]
    BY DEF Agree
<1> HIDE DEF S
<1>4. CASE S = {}
    BY <1>2, <1>3, <1>4 DEF LevelIn, S
<1>5. CASE S # {}
    <2>1. LastOf(S) \in S
        BY <1>1, <1>2, <1>5, LastExists
    <2>2. new[LastOf(S)] = log[LastOf(S)]
        BY <1>1, <1>2, <2>1
    <2>3. QED BY <1>2, <1>5, <2>2 DEF LevelIn, S
<1>6. QED BY <1>4, <1>5

\* A de-escalation of the layer sets its level, any other entry leaves it.
LEMMA LevelAppended ==
    ASSUME NEW log \in Seq(JournalEntry), Len(log) >= 1, NEW e \in JournalEntry, NEW layer
    PROVE  LevelIn(Append(log, e), layer, Len(log) + 1) =
                IF e.event = "policy_changed" /\ e.ext.layer = layer
                THEN e.ext.to ELSE LevelIn(log, layer, Len(log))
<1> DEFINE n == Len(log)
           new == Append(log, e)
           S == Lowerings(new, layer, n)
           T == Lowerings(new, layer, n + 1)
<1>1. n \in Nat /\ Agree(log, new, n) /\ new[n + 1] = e
    BY AppendFacts
<1>2. n >= 1
    OBVIOUS
<1> HIDE DEF n, new
<1>3. LevelIn(new, layer, n) = LevelIn(log, layer, n)
    BY <1>1, <1>2, LevelStays
<1>4. CASE e.event = "policy_changed" /\ e.ext.layer = layer
    <2>1. n + 1 \in T /\ T \in SUBSET (1 .. (n + 1)) /\ T # {} /\ n + 1 \in Nat
        BY <1>1, <1>4 DEF Lowerings
    <2> HIDE DEF T
    <2>2. LastOf(T) \in 1 .. (n + 1) /\ n + 1 <= LastOf(T)
        BY <2>1, LastExists
    <2>3. LastOf(T) = n + 1
        BY <1>1, <2>2
    <2>4. QED BY <1>1, <1>4, <2>1, <2>3 DEF LevelIn, T, n, new
<1>5. CASE ~(e.event = "policy_changed" /\ e.ext.layer = layer)
    <2>1. T = S
        BY <1>1, <1>5 DEF Lowerings
    <2>2. LevelIn(new, layer, n + 1) = LevelIn(new, layer, n)
        BY <2>1 DEF LevelIn
    <2>3. QED BY <1>3, <1>5, <2>2 DEF n, new
<1>6. QED BY <1>4, <1>5

\* An allowed entry keeps the levels in step with the journal.
LEMMA ReplayAppend ==
    ASSUME NEW log \in Seq(JournalEntry), NEW lv \in [Layers -> Levels], Replayed(log, lv),
           NEW e \in JournalEntry, NEW st, NEW fold, Allowed(e, st, lv, fold)
    PROVE  Replayed(Append(log, e), LevelsAfter(lv, e))
<1> DEFINE n == Len(log)
           new == Append(log, e)
           lv2 == LevelsAfter(lv, e)
<1>1. /\ n \in Nat /\ Len(new) = n + 1 /\ n >= 1
      /\ DOMAIN log = 1 .. n /\ DOMAIN new = 1 .. (n + 1)
      /\ Agree(log, new, n) /\ new[n + 1] = e
    BY AppendFacts DEF Replayed
<1>2. e.event = "policy_changed" =>
        /\ e.ext.layer \in Layers
        /\ e.ext.from = lv[e.ext.layer]
        /\ e.ext.to < e.ext.from
    BY DEF Allowed
<1>3. ASSUME NEW layer \in Layers PROVE lv2[layer] = LevelIn(new, layer, n + 1)
    <2>1. lv[layer] = LevelIn(log, layer, n)
        BY DEF Replayed
    <2>2. lv2[layer] = IF e.event = "policy_changed" /\ e.ext.layer = layer
                       THEN e.ext.to ELSE lv[layer]
        BY <1>2 DEF LevelsAfter
    <2>3. LevelIn(new, layer, n + 1) = IF e.event = "policy_changed" /\ e.ext.layer = layer
                                       THEN e.ext.to ELSE LevelIn(log, layer, n)
        BY <1>1, LevelAppended
    <2> HIDE DEF n, new, lv2
    <2>4. QED BY <2>1, <2>2, <2>3
<1>4. \A layer \in Layers : lv[layer] = LevelIn(log, layer, n)
    BY DEF Replayed
<1>5. \A i \in 1 .. n : log[i].event = "policy_changed" =>
        /\ log[i].ext.from = LevelIn(log, log[i].ext.layer, i - 1)
        /\ log[i].ext.to < log[i].ext.from
    BY <1>1 DEF Replayed
<1> HIDE DEF n, new, lv2
<1>6. ASSUME NEW i \in 1 .. (n + 1), new[i].event = "policy_changed"
      PROVE  /\ new[i].ext.from = LevelIn(new, new[i].ext.layer, i - 1)
             /\ new[i].ext.to < new[i].ext.from
    <2>1. CASE i \in 1 .. n
        <3>1. new[i] = log[i] /\ i - 1 \in 0 .. n
            BY <1>1, <2>1 DEF Agree
        <3>2. LevelIn(new, new[i].ext.layer, i - 1) = LevelIn(log, new[i].ext.layer, i - 1)
            BY <1>1, <3>1, LevelStays
        <3>3. QED BY <1>5, <1>6, <2>1, <3>1, <3>2
    <2>2. CASE i = n + 1
        <3>1. new[i] = e /\ i - 1 = n /\ n \in 0 .. n
            BY <1>1, <2>2
        <3>2. LevelIn(new, e.ext.layer, n) = LevelIn(log, e.ext.layer, n)
            BY <1>1, <3>1, LevelStays
        <3>3. QED BY <1>2, <1>4, <1>6, <3>1, <3>2
    <2>3. QED BY <1>1, <2>1, <2>2, SplitRange
<1>7. QED BY <1>1, <1>3, <1>6 DEF Replayed, new, lv2

LEMMA NextReplayed == TypeInv /\ ReplayInv /\ [Next]_vars => ReplayInv'
<1> SUFFICES ASSUME TypeInv, Replayed(journal, levels), [Next]_vars
    PROVE  Replayed(journal', levels')
    BY DEF ReplayInv
<1>1. journal \in Seq(JournalEntry) /\ levels \in [Layers -> Levels]
    BY DEF TypeInv, TypeOK
<1>2. CASE WritesNothing
    BY <1>2 DEF WritesNothing
<1>3. ASSUME NEW e, WritesOne(e)
      PROVE  Replayed(journal', levels')
    BY <1>1, <1>3, ReplayAppend DEF WritesOne
<1>4. ASSUME NEW e, NEW f, WritesTwo(e, f)
      PROVE  Replayed(journal', levels')
    <2> DEFINE mid == Append(journal, e)
               lv == LevelsAfter(levels, e)
               st == StatusesAfter(status, e)
    <2>1. /\ e \in JournalEntry /\ f \in JournalEntry
          /\ Allowed(e, status, levels, folder')
          /\ Allowed(f, st, lv, folder')
          /\ journal' = Append(mid, f) /\ levels' = LevelsAfter(lv, f)
          /\ e.event # "policy_changed"
        BY <1>4 DEF WritesTwo
    <2>2. mid \in Seq(JournalEntry) /\ lv = levels
        BY <1>1, <2>1 DEF LevelsAfter
    <2>3. Replayed(mid, lv)
        BY <1>1, <2>1, ReplayAppend
    <2> HIDE DEF mid, lv, st
    <2>4. QED BY <1>1, <2>1, <2>2, <2>3, ReplayAppend
<1>5. QED BY <1>2, <1>3, <1>4, NextWrites

LEMMA InitReplayed == Init => ReplayInv
<1> SUFFICES ASSUME Init PROVE Replayed(journal, levels)
    BY DEF ReplayInv
<1> DEFINE e == [Entry("genesis", NoChangeSet) EXCEPT !.ext = levels]
<1>1. e.event = "genesis" /\ e.ext = levels /\ journal = <<e>>
    BY DEF Entry, Init
<1> HIDE DEF e
<1>2. Len(journal) = 1 /\ DOMAIN journal = {1} /\ journal[1] = e
    BY <1>1
<1>3. \A layer : Lowerings(journal, layer, 1) = {}
    BY <1>1, <1>2 DEF Lowerings
<1>4. QED BY <1>1, <1>2, <1>3 DEF Replayed, LevelIn

LEMMA ReplayAlways == Spec => [](TypeInv /\ ReplayInv)
<1>1. (TypeInv /\ ReplayInv) /\ [Next]_vars => (TypeInv /\ ReplayInv)'
    BY NextTypeInv, NextReplayed
<1>2. QED BY <1>1, InitTypeInv, InitReplayed, PTL DEF Spec

\* The levels in force can be rebuilt from the journal, and every transition in it
\* lowers the level that was in force.
THEOREM LevelsCanBeReplayed == Spec => []LevelsFromJournal
<1>1. ReplayInv => LevelsFromJournal
    BY DEF ReplayInv, Replayed, LevelsFromJournal, LevelIn, LevelAt, Lowerings, LastOf
<1>2. QED BY <1>1, ReplayAlways, PTL
-----------------------------------------------------------------------------
\* The ratchet.

\* The rollbacks of a layer that the i-th entry, a rollback of that layer, counts.
RecentAt(log, i, layer, window, fold) ==
    {j \in 1 .. i : /\ log[j].event = "rolled_back"
                    /\ fold[log[j].cs].layer = layer
                    /\ log[j].day + window >= log[i].day}

EngagesAt(log, i, layer, rule, fold) ==
    Cardinality(RecentAt(log, i, layer, rule.window, fold)) >= rule.onRollbacks =>
        \/ LevelIn(log, layer, i) = 0
        \/ /\ i + 1 \in DOMAIN log /\ log[i + 1].event = "policy_changed"
           /\ log[i + 1].ext.layer = layer

Engages(log, rule, fold) ==
    rule # NoRule =>
        \A i \in DOMAIN log : log[i].event = "rolled_back" =>
            EngagesAt(log, i, fold[log[i].cs].layer, rule, fold)

EngagesInv == Engages(journal, policy.deEscalation, folder)

\* Entries the journal has, and those a step adds.
LEMMA StepAppends ==
    ASSUME TypeInv, [Next]_vars
    PROVE  /\ Len(journal) \in Nat /\ DOMAIN journal = 1 .. Len(journal)
           /\ DOMAIN journal \subseteq DOMAIN journal'
           /\ Agree(journal, journal', Len(journal))
<1> DEFINE n == Len(journal)
<1>1. /\ journal \in Seq(JournalEntry) /\ n \in Nat /\ DOMAIN journal = 1 .. n
    BY DEF TypeInv, TypeOK
<1>2. CASE WritesNothing
    BY <1>1, <1>2 DEF WritesNothing, Agree
<1>3. ASSUME NEW e, WritesOne(e)
      PROVE  DOMAIN journal \subseteq DOMAIN journal' /\ Agree(journal, journal', n)
    <2>1. e \in JournalEntry /\ journal' = Append(journal, e)
        BY <1>3 DEF WritesOne
    <2>2. DOMAIN journal' = 1 .. (n + 1) /\ Agree(journal, journal', n)
        BY <1>1, <2>1, AppendFacts
    <2> HIDE DEF n
    <2>3. QED BY <1>1, <2>2
<1>4. ASSUME NEW e, NEW f, WritesTwo(e, f)
      PROVE  DOMAIN journal \subseteq DOMAIN journal' /\ Agree(journal, journal', n)
    <2> DEFINE mid == Append(journal, e)
    <2>1. e \in JournalEntry /\ f \in JournalEntry /\ journal' = Append(mid, f)
        BY <1>4 DEF WritesTwo
    <2>2. mid \in Seq(JournalEntry) /\ Len(mid) = n + 1 /\ Agree(journal, mid, n)
        BY <1>1, <2>1, AppendFacts
    <2> HIDE DEF mid
    <2>3. DOMAIN journal' = 1 .. (n + 2) /\ Agree(mid, journal', n + 1)
        BY <1>1, <2>1, <2>2, AppendFacts
    <2> HIDE DEF n
    <2>4. 1 .. n \subseteq 1 .. (n + 1) /\ 1 .. n \subseteq 1 .. (n + 2)
        BY <1>1
    <2>5. QED BY <1>1, <2>2, <2>3, <2>4 DEF Agree
<1>5. QED BY <1>1, <1>2, <1>3, <1>4, NextWrites

\* A new rolled_back entry is the first that a rollback writes.
LEMMA RollbackWritten ==
    ASSUME TypeInv, [Next]_vars,
           NEW i \in DOMAIN journal', i \notin DOMAIN journal, journal'[i].event = "rolled_back"
    PROVE  i = Len(journal) + 1 /\ \E c \in ChangeSets : Rollback(c) /\ journal'[i].cs = c
<1> DEFINE n == Len(journal)
<1>1. /\ journal \in Seq(JournalEntry) /\ n \in Nat /\ DOMAIN journal = 1 .. n
      /\ status \in [ChangeSets -> Status] /\ TypeInv'
    BY NextTypeInv DEF TypeInv, TypeOK
<1>2. ASSUME NEW c \in ChangeSets, status[c] \in Live, status'[c] = "ROLLED_BACK"
      PROVE  Rollback(c)
    BY <1>2, OnlyRollback DEF Live
<1>3. ~WritesNothing
    BY <1>1 DEF WritesNothing
<1>4. ASSUME NEW e, WritesOne(e)
      PROVE  i = n + 1 /\ \E c \in ChangeSets : Rollback(c) /\ journal'[i].cs = c
    <2>1. /\ e \in JournalEntry /\ journal' = Append(journal, e)
          /\ Allowed(e, status, levels, folder') /\ status' = StatusesAfter(status, e)
        BY <1>4 DEF WritesOne
    <2>2. DOMAIN journal' = 1 .. (n + 1) /\ journal'[n + 1] = e
        BY <1>1, <2>1, AppendFacts
    <2> HIDE DEF n
    <2>3. i = n + 1 /\ e.event = "rolled_back"
        BY <1>1, <2>2, SplitRange
    <2>4. e.cs \in ChangeSets /\ status[e.cs] \in Live
        BY <2>1, <2>3 DEF Allowed
    <2>5. status'[e.cs] = "ROLLED_BACK"
        BY <1>1, <2>1, <2>3, <2>4, StatusAfterCases DEF StatusesAfter
    <2>6. QED BY <1>2, <2>2, <2>3, <2>4, <2>5
<1>5. ASSUME NEW e, NEW f, WritesTwo(e, f)
      PROVE  i = n + 1 /\ \E c \in ChangeSets : Rollback(c) /\ journal'[i].cs = c
    <2> DEFINE mid == Append(journal, e)
               st == StatusesAfter(status, e)
    <2>1. /\ e \in JournalEntry /\ f \in JournalEntry /\ journal' = Append(mid, f)
          /\ e.event \in {"proposed", "approved", "rolled_back"}
          /\ Allowed(e, status, levels, folder')
          /\ Allowed(f, st, LevelsAfter(levels, e), folder')
          /\ status' = StatusesAfter(st, f)
        BY <1>5 DEF WritesTwo
    <2>2. mid \in Seq(JournalEntry) /\ Len(mid) = n + 1 /\ mid[n + 1] = e
        BY <1>1, <2>1, AppendFacts
    <2>3. e.cs \in ChangeSets
        BY <2>1 DEF Allowed
    <2>4. \A c \in ChangeSets : st[c] = IF c = e.cs THEN StatusAfter(e) ELSE status[c]
        BY <1>1 DEF StatusesAfter
    <2>5. StatusAfter(e) \in {"VALIDATED", "APPROVED", "ROLLED_BACK"}
        BY <2>1, StatusAfterCases
    <2>6. f.event = "rolled_back" => f.cs \in ChangeSets /\ st[f.cs] \in Live
        BY <2>1 DEF Allowed
    <2>7. e.event = "rolled_back" => status[e.cs] \in Live /\ st[e.cs] = "ROLLED_BACK"
        BY <2>1, <2>3, <2>4, StatusAfterCases DEF Allowed
    <2>8. f.cs \in ChangeSets => st[f.cs] # "ROLLED_BACK"
        BY <2>1, ExecutorAssumption DEF Allowed, Live
    <2>9. st \in [ChangeSets -> Status]
        <3>1. StatusAfter(e) \in Status
            BY <2>5 DEF Status
        <3>2. QED BY <1>1, <3>1 DEF StatusesAfter
    <2> HIDE DEF mid, st
    <2>10. \A c \in ChangeSets : status'[c] = IF c = f.cs THEN StatusAfter(f) ELSE st[c]
        BY <2>1, <2>9 DEF StatusesAfter
    <2>11. DOMAIN journal' = 1 .. (n + 2) /\ journal'[n + 2] = f /\ journal'[n + 1] = e
        <3>1. DOMAIN journal' = 1 .. (n + 1 + 1) /\ journal'[n + 1 + 1] = f
            BY <2>1, <2>2, AppendFacts
        <3>2. Agree(mid, journal', n + 1) /\ n + 1 \in 1 .. (n + 1)
            BY <1>1, <2>1, <2>2, AppendFacts
        <3> HIDE DEF n
        <3>3. n + 1 + 1 = n + 2
            BY <1>1
        <3>4. QED BY <2>2, <3>1, <3>2, <3>3 DEF Agree
    <2>12. f.event # "rolled_back"
        <3>1. SUFFICES ASSUME f.event = "rolled_back" PROVE FALSE
            OBVIOUS
        <3>2. f.cs \in ChangeSets /\ status[f.cs] \in Live /\ status'[f.cs] = "ROLLED_BACK"
            BY <2>4, <2>5, <2>6, <2>10, <3>1, StatusAfterCases DEF Live
        <3>3. Rollback(f.cs)
            BY <1>2, <3>2
        <3>4. \/ \E x : WritesOne(x)
              \/ \E x, y : WritesTwo(x, y) /\ y.event = "policy_changed"
            BY <1>1, <3>2, <3>3, RollbackWrites DEF WritesRollback
        <3>5. ASSUME NEW x, WritesOne(x) PROVE FALSE
            <4>1. x \in JournalEntry /\ journal' = Append(journal, x)
                BY <3>5 DEF WritesOne
            <4>2. DOMAIN journal' = 1 .. (n + 1)
                BY <1>1, <4>1, AppendFacts
            <4> HIDE DEF n
            <4>3. n + 2 \in 1 .. (n + 2) /\ n + 2 \notin 1 .. (n + 1)
                BY <1>1
            <4>4. QED BY <2>11, <4>2, <4>3
        <3>6. ASSUME NEW x, NEW y, WritesTwo(x, y), y.event = "policy_changed" PROVE FALSE
            <4> DEFINE m == Append(journal, x)
            <4>1. x \in JournalEntry /\ y \in JournalEntry /\ journal' = Append(m, y)
                BY <3>6 DEF WritesTwo
            <4>2. m \in Seq(JournalEntry) /\ Len(m) = n + 1
                BY <1>1, <4>1, AppendFacts
            <4> HIDE DEF m
            <4>3. journal'[n + 1 + 1] = y
                BY <4>1, <4>2, AppendFacts
            <4> HIDE DEF n
            <4>4. n + 1 + 1 = n + 2
                BY <1>1
            <4>5. QED BY <2>11, <3>1, <3>6, <4>3, <4>4
        <3>7. QED BY <3>4, <3>5, <3>6
    <2> HIDE DEF n
    <2>13. i \in 1 .. n \/ i = n + 1 \/ i = n + 2
        BY <1>1, <2>11
    <2>14. i = n + 1 /\ e.event = "rolled_back"
        BY <1>1, <2>11, <2>12, <2>13
    <2>15. status[e.cs] \in Live /\ status'[e.cs] = "ROLLED_BACK"
        BY <2>3, <2>7, <2>8, <2>10, <2>14
    <2>16. QED BY <1>2, <2>3, <2>11, <2>14, <2>15
<1>6. QED BY <1>3, <1>4, <1>5, NextWrites

LEMMA PolicyStays ==
    ASSUME "policy_edit" \notin Environment, [Next]_vars
    PROVE  policy' = policy
<1>1. ASSUME NEW c \in ChangeSets,
             \/ Propose(c) \/ ProposeBadId(c) \/ AttachEvidence(c) \/ AttachRefused(c)
             \/ GateSuggest(c) \/ GateReject(c) \/ GateQueue(c) \/ GateAuto(c)
             \/ Apply(c) \/ Promote(c) \/ Rollback(c) \/ RollbackEscapes(c)
             \/ \E a \in Actors : Approve(c, a) \/ Reject(c, a)
      PROVE  policy' = policy
    BY <1>1
    DEF Propose, ProposeBadId, AttachEvidence, AttachRefused, GateSuggest, GateReject,
        GateQueue, GateAuto, GateTo, Apply, ApplyAs, Promote, Rollback, RollbackEscapes,
        Approve, Reject
<1>2. CASE HandEdit \/ EditPolicy \/ Tick \/ UNCHANGED vars
    BY <1>2 DEF HandEdit, EditPolicy, Tick, vars
<1>3. QED BY <1>1, <1>2 DEF Next

\* What de-escalation counts when a rollback is journaled.
LEMMA CountedNow ==
    ASSUME TypeInv, NEW e \in JournalEntry, e.day = today, NEW layer, NEW window \in Nat
    PROVE  RecentAt(Append(journal, e), Len(journal) + 1, layer, window, folder) =
                RecentRollbacks(Append(journal, e), layer, window)
<1> DEFINE n == Len(journal)
           new == Append(journal, e)
<1>1. /\ new \in Seq(JournalEntry) /\ DOMAIN new = 1 .. (n + 1) /\ new[n + 1] = e
      /\ n \in Nat
    BY AppendFacts DEF TypeInv, TypeOK
<1> HIDE DEF n, new
<1>2. today \in Int /\ \A j \in 1 .. (n + 1) : new[j].day \in Int
    <2>1. \A x \in JournalEntry : x.day \in Int
        BY ExecutorAssumption DEF JournalEntry
    <2>2. \A j \in 1 .. (n + 1) : new[j] \in JournalEntry
        BY <1>1
    <2>3. QED BY <2>1, <2>2, ExecutorAssumption DEF TypeInv, TypeOK
<1>3. \A j \in 1 .. (n + 1) : new[j].day + window >= new[n + 1].day <=> new[j].day >= today - window
    <2>1. \A d \in Int, t \in Int, w \in Nat : d + w >= t <=> d >= t - w
        OBVIOUS
    <2>2. QED BY <1>1, <1>2, <2>1
<1>4. RecentAt(new, n + 1, layer, window, folder) = RecentRollbacks(new, layer, window)
    BY <1>1, <1>3 DEF RecentAt, RecentRollbacks
<1>5. QED BY <1>4 DEF n, new

\* A new rollback engages the ratchet, or the layer is at L0.
LEMMA RollbackEngages ==
    ASSUME TypeInv, ReplayInv, [Next]_vars, NEW c \in ChangeSets, Rollback(c),
           policy.deEscalation # NoRule
    PROVE  EngagesAt(journal', Len(journal) + 1, folder[c].layer, policy.deEscalation, folder)
<1> DEFINE n == Len(journal)
           e == RolledBack(c, snapshot[c])
           layer == folder[c].layer
           rule == policy.deEscalation
<1>1. TypeInv' /\ journal \in Seq(JournalEntry) /\ n \in Nat
    BY NextTypeInv DEF TypeInv, TypeOK
<1>2. WritesRollback(c, e, layer)
    BY <1>1, RollbackWrites
<1>3. rule.window \in Nat
    BY DEF TypeInv, TypeOK, PolicyFile, DeEscalationRule
<1>4. layer \in Layers
    BY FolderFacts DEF Rollback, CanRollBack
<1> HIDE DEF e, layer
<1>5. e.event = "rolled_back" /\ e.day = today
    BY <1>2 DEF WritesRollback
<1>6. ASSUME WritesOne(e), Ratchet(Append(journal, e), layer) = levels[layer]
      PROVE  EngagesAt(journal', n + 1, layer, rule, folder)
    <2>1. e \in JournalEntry /\ journal' = Append(journal, e)
        BY <1>6 DEF WritesOne
    <2>2. SUFFICES ASSUME Cardinality(RecentAt(journal', n + 1, layer, rule.window, folder))
                            >= rule.onRollbacks
          PROVE  LevelIn(journal', layer, n + 1) = 0
        BY DEF EngagesAt
    <2>3. DeEscalates(Append(journal, e), layer)
        BY <1>3, <1>5, <2>1, <2>2, CountedNow DEF DeEscalates
    <2>4. levels[layer] = 0
        BY <1>4, <1>6, <2>3, RatchetLowers
    <2>5. Len(journal) >= 1 /\ LevelIn(journal, layer, n) = levels[layer]
        BY <1>4 DEF ReplayInv, Replayed
    <2>6. LevelIn(journal', layer, n + 1) = LevelIn(journal, layer, n)
        BY <1>1, <1>5, <2>1, <2>5, LevelAppended
    <2>7. QED BY <2>4, <2>5, <2>6
<1>7. ASSUME NEW f, WritesTwo(e, f), f.event = "policy_changed", f.ext.layer = layer
      PROVE  EngagesAt(journal', n + 1, layer, rule, folder)
    <2> DEFINE mid == Append(journal, e)
    <2>1. e \in JournalEntry /\ f \in JournalEntry /\ journal' = Append(mid, f)
        BY <1>7 DEF WritesTwo
    <2>2. mid \in Seq(JournalEntry) /\ Len(mid) = n + 1
        BY <1>1, <2>1, AppendFacts
    <2> HIDE DEF mid
    <2>3. DOMAIN journal' = 1 .. (n + 1 + 1) /\ journal'[n + 1 + 1] = f
        BY <2>1, <2>2, AppendFacts
    <2>4. n + 1 + 1 \in DOMAIN journal'
        BY <1>1, <2>3
    <2> HIDE DEF n
    <2>5. QED BY <1>7, <2>3, <2>4 DEF EngagesAt
<1>8. EngagesAt(journal', n + 1, layer, rule, folder)
    BY <1>2, <1>6, <1>7 DEF WritesRollback
<1>9. QED BY <1>8 DEF layer

LEMMA NextEngages ==
    ASSUME "policy_edit" \notin Environment,
           TypeInv, HistoryInv, ReplayInv, EngagesInv, [Next]_vars
    PROVE  EngagesInv'
<1> DEFINE n == Len(journal)
           rule == policy.deEscalation
<1>1. /\ n \in Nat /\ DOMAIN journal = 1 .. n
      /\ DOMAIN journal \subseteq DOMAIN journal' /\ Agree(journal, journal', n)
    BY StepAppends
<1>2. policy' = policy
    BY PolicyStays
<1>3. n >= 1
    BY DEF ReplayInv, Replayed
<1>4. \A j \in 1 .. n : journal[j].event = "rolled_back" =>
        folder'[journal[j].cs].layer = folder[journal[j].cs].layer
    <2>1. SUFFICES ASSUME NEW j \in 1 .. n, journal[j].event = "rolled_back"
          PROVE  folder'[journal[j].cs].layer = folder[journal[j].cs].layer
        OBVIOUS
    <2>2. /\ journal[j].cs \in ChangeSets
          /\ journal[j].event \in Past(status[journal[j].cs])
        BY <1>1, <2>1 DEF HistoryInv, History, ContentEvents
    <2>3. status[journal[j].cs] # "UNKNOWN"
        BY <2>2 DEF Past
    <2>4. QED BY <2>2, <2>3, NextKnown DEF KnownStay
<1> HIDE DEF n
<1>5. SUFFICES ASSUME rule # NoRule, NEW i \in DOMAIN journal', journal'[i].event = "rolled_back"
      PROVE  EngagesAt(journal', i, folder'[journal'[i].cs].layer, rule, folder')
    BY <1>2 DEF EngagesInv, Engages
<1>6. CASE i \in DOMAIN journal
    <2> DEFINE layer == folder[journal[i].cs].layer
    <2>1. /\ i \in 1 .. n /\ journal'[i] = journal[i] /\ i \in 0 .. n
          /\ journal[i].event = "rolled_back"
          /\ 1 .. i \subseteq 1 .. n
          /\ \A j \in 1 .. i : journal'[j] = journal[j]
        BY <1>1, <1>5, <1>6 DEF Agree
    <2>2. folder'[journal'[i].cs].layer = layer
        BY <1>4, <2>1
    <2>3. EngagesAt(journal, i, layer, rule, folder)
        BY <1>5, <1>6, <2>1 DEF EngagesInv, Engages
    <2> HIDE DEF layer
    <2>4. RecentAt(journal', i, layer, rule.window, folder')
            = RecentAt(journal, i, layer, rule.window, folder)
        BY <1>4, <2>1 DEF RecentAt
    <2>5. LevelIn(journal', layer, i) = LevelIn(journal, layer, i)
        BY <1>1, <1>3, <2>1, LevelStays
    <2>6. i + 1 \in DOMAIN journal => i + 1 \in DOMAIN journal' /\ journal'[i + 1] = journal[i + 1]
        BY <1>1 DEF Agree
    <2>7. EngagesAt(journal', i, layer, rule, folder')
        BY <2>3, <2>4, <2>5, <2>6 DEF EngagesAt
    <2>8. QED BY <2>2, <2>7
<1>7. CASE i \notin DOMAIN journal
    <2>1. PICK c \in ChangeSets : Rollback(c) /\ journal'[i].cs = c
        BY <1>5, <1>7, RollbackWritten
    <2>2. i = Len(journal) + 1
        BY <1>5, <1>7, RollbackWritten
    <2>3. folder' = folder
        BY <2>1 DEF Rollback
    <2>4. QED BY <1>5, <2>1, <2>2, <2>3, RollbackEngages
<1>8. QED BY <1>6, <1>7

\* The ratchet engages: whenever the journal shows enough rollbacks of a layer inside the
\* window, the layer is lowered by the very next entry or is at L0 already.  The
\* property is stated of a policy that does not change, hence the assumption.
THEOREM RatchetAlwaysEngages ==
    ASSUME "policy_edit" \notin Environment
    PROVE  Spec => []RatchetEngages
<1>1. Init => EngagesInv
    <2> SUFFICES ASSUME Init PROVE EngagesInv
        OBVIOUS
    <2> DEFINE e == [Entry("genesis", NoChangeSet) EXCEPT !.ext = levels]
    <2>1. e.event = "genesis" /\ journal = <<e>>
        BY DEF Entry, Init
    <2> HIDE DEF e
    <2>2. \A i \in DOMAIN journal : journal[i].event = "genesis"
        BY <2>1
    <2>3. QED BY <2>2 DEF EngagesInv, Engages
<1>2. EngagesInv => RatchetEngages
    BY DEF EngagesInv, Engages, EngagesAt, RecentAt, RatchetEngages, LevelIn, LevelAt,
           Lowerings, LastOf, IsEvent
<1>3. TypeInv /\ HistoryInv /\ ReplayInv /\ EngagesInv /\ [Next]_vars => EngagesInv'
    BY NextEngages
<1>4. QED BY <1>1, <1>2, <1>3, HistoryAlways, ReplayAlways, PTL DEF Spec
=============================================================================
