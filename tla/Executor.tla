------------------------------ MODULE Executor ------------------------------
(***************************************************************************)
(* The lifecycle engine of one workspace (src/monumentum/executor.py): a   *)
(* ChangeSet is proposed, validated, gated, applied, promoted and rolled   *)
(* back, each transition journaled.  One action is one CLI command, run    *)
(* alone and to its end or to the exception that ends it.                  *)
(***************************************************************************)
EXTENDS FiniteSets, Policy, Payload

CONSTANTS
    ChangeSets,         \* changeset ids
    Proposals,          \* Proposals[c]: the folders create or ingest can make under id c
    EvidenceIds,        \* evidence record ids
    Attachable,         \* the records `monumentum evidence' can attach
    Actors,             \* identities given to approve and reject with --actor
    Producers,          \* origin.producer values
    Policies,           \* policy files the human owner may install
    InitialFiles,       \* possible workspace contents after init
    Undecodable,        \* contents that are not UTF-8 text
    Environment,        \* which outside events can happen (see EnvironmentEvents)
    HandEdits,          \* what an edit outside the loop leaves in a file
    MaxDay,             \* bound on the clock, in days
    Unlisted,           \* the evidence list does not name this record
    NoFolder, NoSnapshot, NoExt

VARIABLES
    policy,         \* policy.yaml, as load_policy returns it
    levels,         \* state.json effective_levels
    status,         \* state.json changesets[c].status, "UNKNOWN" if absent
    queue,          \* state.json queue
    heads,          \* state.json heads: last governed content, NoFile if absent
    journalHead,    \* state.json journal_head: how many lines it vouches for
    files,          \* the workspace
    folder,         \* .monumentum/changesets/<id>: envelope, payload, evidence
    snapshot,       \* .monumentum/changesets/<id>/snapshot
    journal,        \* .monumentum/journal
    today           \* the clock

stateVars == <<levels, status, queue, heads, journalHead>>
vars == <<policy, levels, status, queue, heads, journalHead, files, folder,
          snapshot, journal, today>>

\* clobber: an artifact is attached under a file name that the evidence folder has;
\* check_raises: the recorded command has output that is not UTF-8, or is no string;
\* git_missing: the workspace is a git work tree and there is no git program.
EnvironmentEvents ==
    {"hand_edit", "io_error", "clobber", "check_raises", "git_missing", "empty_actor",
     "policy_edit"}

EvidenceRecord ==
    [grader     : {"self", "independent"},
     transcript : BOOLEAN,      \* format = command-transcript
     form       : {"valid", "invalid", "not_json"},     \* of the record's file
     verifies   : BOOLEAN]      \* artifact hash matches, or no artifact

EvidenceListing == [EvidenceIds -> EvidenceRecord \cup {Unlisted}]

ChangeSetFolder ==
    [idOk       : BOOLEAN,      \* the journal accepts its id and its producer
     wellFormed : BOOLEAN,      \* the envelope matches its schema
     intact     : BOOLEAN,      \* the payload hash matches
     layer      : Layers,
     targets    : SUBSET Paths,
     payload    : PayloadRecord,
     producer   : Producers,
     evidence   : EvidenceListing]

Actor == [role : {"reviewer", "human", "producer", "executor"}, name : Producers]

Status == {"UNKNOWN", "VALIDATED", "SUGGESTED", "QUEUED", "GATE_APPROVED", "APPROVED",
           "APPLIED", "PROMOTED", "ROLLED_BACK", "REJECTED"}

Event == {"genesis", "proposed", "gated", "approved", "rejected", "applied",
          "weight_update", "promoted", "rolled_back", "policy_changed"}

NoChangeSet == "none"

Self == [role |-> "executor", name |-> "monumentum"]

Effective == [layer : Layers, from : Levels, to : Levels]

JournalEntry ==
    [event  : Event,
     cs     : ChangeSets \cup {NoChangeSet},
     by     : Actors \cup {Self},
     gate   : {"none", "validate", "suggest", "gate", "queue", "auto", "human_review",
               "apply", "de_escalation"},
     level  : Levels,           \* the level of a "suggest", "queue" or "auto" gate
     before : PartialFiles,     \* target_state
     after  : PartialFiles,
     ext    : {NoExt} \cup [Layers -> Levels] \cup Effective,
     day    : 0 .. MaxDay]      \* kept for rolled_back entries only

ASSUME ExecutorAssumption ==
    /\ Proposals \in [ChangeSets -> SUBSET ChangeSetFolder]
    /\ Attachable \subseteq EvidenceRecord
    /\ Unlisted \notin EvidenceRecord
    /\ NoFolder \notin ChangeSetFolder
    /\ NoSnapshot \notin PartialFiles
    /\ NoRule \notin DeEscalationRule
    /\ NoChangeSet \notin ChangeSets
    /\ Actors \subseteq Actor
    /\ Policies \subseteq PolicyFile
    /\ InitialFiles \subseteq [Paths -> FileState]
    /\ Undecodable \subseteq Contents
    /\ Environment \subseteq EnvironmentEvents
    /\ HandEdits \subseteq FileState
    /\ MaxDay \in Nat
-----------------------------------------------------------------------------
\* Journal entries.

Entry(event, c) ==
    [event |-> event, cs |-> c, by |-> Self, gate |-> "none", level |-> 0,
     before |-> NoTargets, after |-> NoTargets, ext |-> NoExt, day |-> 0]

Rejected(c, gate) == [Entry("rejected", c) EXCEPT !.gate = gate]

Gated(c, gate, level) == [Entry("gated", c) EXCEPT !.gate = gate, !.level = level]

\* Append entries and record the new tail in state.json.
Journaled(entries) ==
    /\ journal' = journal \o entries
    /\ journalHead' = Len(journal')
-----------------------------------------------------------------------------
\* init

BaselineHeads(p, fs) ==
    [t \in Paths |-> IF t \in Governed(p) THEN fs[t] ELSE NoFile]

\* The workspace as `monumentum init' leaves it.
Init ==
    /\ policy \in Policies
    /\ files \in InitialFiles
    /\ levels = DeclaredLevels(policy)
    /\ status = [c \in ChangeSets |-> "UNKNOWN"]
    /\ queue = {}
    /\ heads = BaselineHeads(policy, files)
    /\ folder = [c \in ChangeSets |-> NoFolder]
    /\ snapshot = [c \in ChangeSets |-> NoSnapshot]
    /\ journal = <<[Entry("genesis", NoChangeSet) EXCEPT !.ext = levels]>>
    /\ journalHead = 1
    /\ today = 0
-----------------------------------------------------------------------------
\* propose, and the evidence command

Valid(cs) ==
    /\ cs.wellFormed
    /\ \A t \in cs.targets : TargetAllowed(policy, cs.layer, t)
    /\ cs.payload.type = "opaque" \/ cs.intact

\* create or ingest, then propose: the folder may not exist yet.
Propose(c) ==
    /\ folder[c] = NoFolder
    /\ \E cs \in Proposals[c] :
        /\ cs.idOk
        /\ folder' = [folder EXCEPT ![c] = cs]
        /\ IF Valid(cs)
           THEN /\ Journaled(<<Entry("proposed", c)>>)
                /\ status' = [status EXCEPT ![c] = "VALIDATED"]
           ELSE /\ Journaled(<<Entry("proposed", c), Rejected(c, "validate")>>)
                /\ status' = [status EXCEPT ![c] = "REJECTED"]
    /\ UNCHANGED <<policy, levels, queue, heads, files, snapshot, today>>

\* The journal refuses an id or a producer against its schema (JournalError):
\* the folder was already written and stays, unknown to state.json.
ProposeBadId(c) ==
    /\ folder[c] = NoFolder
    /\ \E cs \in Proposals[c] : ~cs.idOk /\ folder' = [folder EXCEPT ![c] = cs]
    /\ UNCHANGED <<policy, stateVars, files, snapshot, journal, today>>

Listed(cs) == {e \in EvidenceIds : cs.evidence[e] # Unlisted}

\* What is left of a record when an artifact is copied over its own artifact, or over
\* its file: there the artifact may be anything, also a record.
Spoilt(r) ==
    LET lost == [r EXCEPT !.verifies = FALSE]
    IN {lost, [lost EXCEPT !.form = "invalid"], [lost EXCEPT !.form = "not_json"]} \cup Attachable

\* The evidence once an artifact was copied into its folder.
Copied(listing) ==
    IF "clobber" \notin Environment THEN {listing}
    ELSE {new \in EvidenceListing : \A e \in EvidenceIds :
            new[e] # listing[e] => listing[e] # Unlisted /\ new[e] \in Spoilt(listing[e])}

\* The record is written after its artifact, over it when both have the same name.
AsAttached(r) ==
    IF "clobber" \notin Environment THEN {r} ELSE {r, [r EXCEPT !.verifies = FALSE]}

\* Attaching replaces the record of the same id.  No status is looked at.
AttachEvidence(c) ==
    /\ folder[c] # NoFolder
    /\ \E listing \in Copied(folder[c].evidence), e \in EvidenceIds, r \in Attachable :
        \E attached \in AsAttached(r) :
            folder' = [folder EXCEPT ![c].evidence = [listing EXCEPT ![e] = attached]]
    /\ UNCHANGED <<policy, stateVars, files, snapshot, journal, today>>

\* A record that does not match its schema is refused after its artifact was copied.
AttachRefused(c) ==
    /\ folder[c] # NoFolder
    /\ \E listing \in Copied(folder[c].evidence) :
        folder' = [folder EXCEPT ![c].evidence = listing]
    /\ UNCHANGED <<policy, stateVars, files, snapshot, journal, today>>
-----------------------------------------------------------------------------
\* gate

Records(cs) == {cs.evidence[e] : e \in Listed(cs)}

\* evidence_records() does not raise.
EvidenceLoads(cs) == \A r \in Records(cs) : r.form = "valid"

EvidenceVerifies(cs) ==
    /\ Records(cs) # {}
    /\ EvidenceLoads(cs)
    /\ \A r \in Records(cs) : r.verifies

\* Invariant I3 of the specification document.
IndependentlyGraded(cs) ==
    /\ EvidenceLoads(cs)
    /\ \E r \in Records(cs) : r.grader = "independent"

EvidenceGatePasses(cs) ==
    "evidence_required" \in GatesOf(policy, cs.layer) => EvidenceVerifies(cs)

NeedsHuman(cs) ==
    \/ levels[cs.layer] = 1
    \/ "human_review" \in GatesOf(policy, cs.layer)

\* A record that is not JSON is no ChangeSetError: gate raises, nothing is journaled.
\* (With several bad records the first decides; here one that is not JSON does.)
GateRaises(cs) ==
    /\ "evidence_required" \in GatesOf(policy, cs.layer) \/ ~NeedsHuman(cs)
    /\ \E r \in Records(cs) : r.form = "not_json"

\* A plausible gate that journals its decision and does not save the status.
GateToUnsaved(c, entry, st) ==
    /\ Journaled(<<entry>>)
    /\ UNCHANGED <<policy, levels, status, heads, files, folder, snapshot, today>>

GateTo(c, entry, st) ==
    /\ Journaled(<<entry>>)
    /\ status' = [status EXCEPT ![c] = st]
    /\ UNCHANGED <<policy, levels, heads, files, folder, snapshot, today>>

\* L0: suggest only, before any other gate is looked at.
GateSuggest(c) ==
    /\ status[c] = "VALIDATED"
    /\ levels[folder[c].layer] = 0
    /\ GateTo(c, Gated(c, "suggest", 0), "SUGGESTED")
    /\ UNCHANGED queue

GateReject(c) ==
    LET cs == folder[c] IN
    /\ status[c] = "VALIDATED"
    /\ levels[cs.layer] # 0
    /\ \/ ~EvidenceGatePasses(cs)
       \/ ~NeedsHuman(cs) /\ ~IndependentlyGraded(cs)
    /\ ~GateRaises(cs)
    /\ GateTo(c, Rejected(c, "gate"), "REJECTED")
    /\ UNCHANGED queue

GateQueue(c) ==
    LET cs == folder[c] IN
    /\ status[c] = "VALIDATED"
    /\ levels[cs.layer] # 0
    /\ EvidenceGatePasses(cs)
    /\ NeedsHuman(cs)
    /\ GateTo(c, Gated(c, "queue", levels[cs.layer]), "QUEUED")
    /\ queue' = queue \cup {c}

GateAuto(c) ==
    LET cs == folder[c] IN
    /\ status[c] = "VALIDATED"
    /\ levels[cs.layer] # 0
    /\ EvidenceGatePasses(cs)
    /\ ~NeedsHuman(cs)
    /\ IndependentlyGraded(cs)
    /\ GateTo(c, Gated(c, "auto", levels[cs.layer]), "GATE_APPROVED")
    /\ UNCHANGED queue
-----------------------------------------------------------------------------
\* apply.  `st' is the status apply finds; `prior' what the command has journaled
\* before (approve journals its decision and applies in the same command).

\* A plausible _snapshot that keeps a snapshot it finds.
TakeSnapshotOnce(c) ==
    snapshot' = [snapshot EXCEPT ![c] =
        IF @ = NoSnapshot THEN Image(files, folder[c].targets) ELSE @]

\* _snapshot replaces the snapshot of an earlier attempt.
TakeSnapshot(c) ==
    snapshot' = [snapshot EXCEPT ![c] = Image(files, folder[c].targets)]

\* A plausible apply and rollback that leave state.json heads alone.
HeadsUnrecorded(changes) == heads' = heads

\* A plausible recording of heads that keeps the head of a removed file.
HeadsKeepRemoved(changes) ==
    heads' = [p \in Paths |->
        IF p \in DOMAIN changes /\ changes[p] # NoFile THEN changes[p] ELSE heads[p]]

\* The head of each target becomes its new content, or goes when the file does.
HeadsRecorded(changes) == heads' = Written(heads, changes)

\* A diff for the declared targets reads both sides of every patch as UTF-8;
\* another encoding is a ValueError, which the handler of apply errors does not catch.
Readable(cs) ==
    cs.payload.type = "diff" /\ PatchTargets(cs.payload.patches) = cs.targets =>
        \A i \in DOMAIN cs.payload.patches :
            LET patch == cs.payload.patches[i]
            IN \A p \in {patch.old, patch.new} \ {NoPath} : files[p] \notin Undecodable

Checked(cs) == "reproducible_check" \in GatesOf(policy, cs.layer)

HasTranscript(cs) == \E r \in Records(cs) : r.transcript

\* The gate named in the journal entry: _gate_label reads the level again.
Label(cs, st) ==
    IF st = "APPROVED" THEN [gate |-> "human_review", level |-> 0]
    ELSE [gate |-> "auto", level |-> levels[cs.layer]]

\* Opaque payloads are journaled, never applied.
WeightUpdate(c, st, prior) ==
    LET cs == folder[c]
        label == Label(cs, st)
    IN /\ cs.payload.type = "opaque"
       /\ Journaled(prior \o <<[Entry("weight_update", c) EXCEPT
                                    !.gate = label.gate, !.level = label.level]>>)
       /\ status' = [status EXCEPT ![c] = "APPLIED"]
       /\ UNCHANGED <<heads, files, snapshot>>

ApplySucceeds(c, st, prior) ==
    LET cs == folder[c]
        label == Label(cs, st)
        new == PayloadResults(cs.payload, cs.targets, files)
    IN /\ cs.payload.type # "opaque"
       /\ Readable(cs)
       /\ PayloadApplies(cs.payload, cs.targets, files)
       /\ Checked(cs) => EvidenceLoads(cs)
       /\ TakeSnapshot(c)
       /\ files' = Written(files, new)
       /\ HeadsRecorded(Image(files', cs.targets))
       /\ Journaled(prior \o <<[Entry("applied", c) EXCEPT
                                    !.gate = label.gate, !.level = label.level,
                                    !.before = Image(files, cs.targets),
                                    !.after = Image(files', cs.targets)]>>)
       /\ status' = [status EXCEPT ![c] = "APPLIED"]

\* The files with some of the targets written, to anything.
HalfWritten(targets) ==
    {Written(files, partial) :
        partial \in UNION {[touched -> FileState] : touched \in SUBSET targets}}

\* The payload raised after writing some targets, or
\* the recorded check command failed on the applied state; the snapshot is
\* copied back.
ApplyReverts(c, st, prior) ==
    LET cs == folder[c] IN
    /\ cs.payload.type # "opaque"
    /\ Readable(cs)
    /\ \/ ~PayloadApplies(cs.payload, cs.targets, files)
       \/ "io_error" \in Environment
       \/ Checked(cs) /\ EvidenceLoads(cs) /\ HasTranscript(cs)
    /\ Journaled(prior \o <<Rejected(c, "apply")>>)
    /\ status' = [status EXCEPT ![c] = "REJECTED"]
    /\ TakeSnapshot(c)
    /\ files' \in {Restore(half, snapshot'[c]) : half \in HalfWritten(cs.targets)}
    /\ UNCHANGED heads

\* What can raise after the payload was written, outside every handler: the evidence
\* records or the command of the reproducible check, and git.
RaisesWritten(cs) ==
    \/ Checked(cs) /\ ~EvidenceLoads(cs)
    \/ Checked(cs) /\ HasTranscript(cs) /\ "check_raises" \in Environment
    \/ "git_missing" \in Environment

\* An exception no handler of apply_changeset catches, from there or because the diff
\* cannot read a source.  The snapshot is taken, nothing more is journaled.
ApplyEscapes(c, st, prior) ==
    LET cs == folder[c] IN
    /\ cs.payload.type # "opaque"
    /\ TakeSnapshot(c)
    /\ \/ /\ ~Readable(cs)
          /\ UNCHANGED files
       \/ /\ Readable(cs)
          /\ PayloadApplies(cs.payload, cs.targets, files)
          /\ RaisesWritten(cs)
          /\ files' = Written(files, PayloadResults(cs.payload, cs.targets, files))
    /\ Journaled(prior)
    /\ status' = [status EXCEPT ![c] = st]
    /\ UNCHANGED heads

ApplyAs(c, st, prior) ==
    /\ \/ WeightUpdate(c, st, prior)
       \/ ApplySucceeds(c, st, prior)
       \/ ApplyReverts(c, st, prior)
       \/ ApplyEscapes(c, st, prior)
    /\ UNCHANGED <<policy, levels, folder, today>>

\* A plausible apply that does not insist on the gate.
ApplyUngated(c) ==
    /\ status[c] \in {"VALIDATED", "GATE_APPROVED", "APPROVED"}
    /\ ApplyAs(c, status[c], <<>>)
    /\ UNCHANGED queue

Apply(c) ==
    /\ status[c] \in {"GATE_APPROVED", "APPROVED"}
    /\ ApplyAs(c, status[c], <<>>)
    /\ UNCHANGED queue
-----------------------------------------------------------------------------
\* approve, reject, promote

\* A plausible check of the role alone.
MayReviewOwn(a, cs) == a.role \in {"reviewer", "human"}

MayReview(a, cs) ==
    /\ a.role \in {"reviewer", "human"}
    /\ a.name # cs.producer

\* A plausible approve or reject that leaves the change in the queue.
DequeueNothing(c) == queue' = queue

Dequeue(c) == queue' = queue \ {c}

Approve(c, a) ==
    /\ status[c] = "QUEUED"
    /\ MayReview(a, folder[c])
    /\ Dequeue(c)
    /\ ApplyAs(c, "APPROVED",
               <<[Entry("approved", c) EXCEPT !.by = a, !.gate = "human_review"]>>)

Reject(c, a) ==
    /\ status[c] = "QUEUED"
    /\ MayReview(a, folder[c])
    /\ Dequeue(c)
    /\ Journaled(<<[Rejected(c, "human_review") EXCEPT !.by = a]>>)
    /\ status' = [status EXCEPT ![c] = "REJECTED"]
    /\ UNCHANGED <<policy, levels, heads, files, folder, snapshot, today>>

Promote(c) ==
    /\ status[c] = "APPLIED"
    /\ Journaled(<<Entry("promoted", c)>>)
    /\ status' = [status EXCEPT ![c] = "PROMOTED"]
    /\ UNCHANGED <<policy, levels, queue, heads, files, folder, snapshot, today>>
-----------------------------------------------------------------------------
\* rollback and de-escalation

\* A plausible guard under which a change can be rolled back again.
CanRollBackAgain(c) ==
    /\ status[c] \in {"APPLIED", "PROMOTED", "ROLLED_BACK"}
    /\ folder[c].payload.type # "opaque"
    /\ snapshot[c] # NoSnapshot

CanRollBack(c) ==
    /\ status[c] \in {"APPLIED", "PROMOTED"}
    /\ folder[c].payload.type # "opaque"
    /\ snapshot[c] # NoSnapshot

RolledBack(c, restored) ==
    [Entry("rolled_back", c) EXCEPT
        !.before = Image(files, folder[c].targets),
        !.after = restored,
        !.day = today]

\* A plausible window that leaves its first day out.
RecentRollbacksShort(log, layer, window) ==
    {i \in DOMAIN log :
        /\ log[i].event = "rolled_back"
        /\ folder[log[i].cs].layer = layer
        /\ log[i].day > today - window}

\* The rollbacks of `layer' in `log' that de-escalation counts.
RecentRollbacks(log, layer, window) ==
    {i \in DOMAIN log :
        /\ log[i].event = "rolled_back"
        /\ folder[log[i].cs].layer = layer
        /\ log[i].day >= today - window}

DeEscalates(log, layer) ==
    LET rule == policy.deEscalation IN
    /\ rule # NoRule
    /\ Cardinality(RecentRollbacks(log, layer, rule.window)) >= rule.onRollbacks

\* The level that _maybe_de_escalate leaves, given the journal with the new entry.
Ratchet(log, layer) ==
    IF DeEscalates(log, layer)
    THEN DropLevel(levels[layer], policy.deEscalation.drop)
    ELSE levels[layer]

\* A plausible de-escalation that journals a drop it cannot make.
LevelDropAlways(layer, lowered) ==
    IF ~DeEscalates(journal, layer) THEN <<>>
    ELSE <<[Entry("policy_changed", NoChangeSet) EXCEPT
                !.gate = "de_escalation",
                !.ext = [layer |-> layer, from |-> levels[layer], to |-> lowered]]>>

\* policy_changed is journaled only when the level really drops.
LevelDrop(layer, lowered) ==
    IF lowered = levels[layer] THEN <<>>
    ELSE <<[Entry("policy_changed", NoChangeSet) EXCEPT
                !.gate = "de_escalation",
                !.ext = [layer |-> layer, from |-> levels[layer], to |-> lowered]]>>

Rollback(c) ==
    LET cs == folder[c]
        entry == RolledBack(c, snapshot[c])
        lowered == Ratchet(Append(journal, entry), cs.layer)
    IN /\ CanRollBack(c)
       /\ files' = Restore(files, snapshot[c])
       /\ HeadsRecorded(snapshot[c])
       /\ status' = [status EXCEPT ![c] = "ROLLED_BACK"]
       /\ levels' = [levels EXCEPT ![cs.layer] = lowered]
       /\ Journaled(<<entry>> \o LevelDrop(cs.layer, lowered))
       /\ UNCHANGED <<policy, queue, folder, snapshot, today>>

\* The targets are restored before git raises, or the journal refuses the entry for
\* its actor (`--actor ""').
RollbackEscapes(c) ==
    /\ Environment \cap {"git_missing", "empty_actor"} # {}
    /\ CanRollBack(c)
    /\ files' = Restore(files, snapshot[c])
    /\ UNCHANGED <<policy, stateVars, folder, snapshot, journal, today>>
-----------------------------------------------------------------------------
\* What happens around the commands: somebody edits a file or policy.yaml
\* without them, and time passes.

HandEdit ==
    /\ "hand_edit" \in Environment
    /\ \E p \in Paths, f \in HandEdits : files' = [files EXCEPT ![p] = f]
    /\ UNCHANGED <<policy, stateVars, folder, snapshot, journal, today>>

EditPolicy ==
    /\ "policy_edit" \in Environment
    /\ policy' \in Policies
    /\ UNCHANGED <<stateVars, files, folder, snapshot, journal, today>>

Tick ==
    /\ today < MaxDay
    /\ today' = today + 1
    /\ UNCHANGED <<policy, stateVars, files, folder, snapshot, journal>>
-----------------------------------------------------------------------------
Next ==
    \/ \E c \in ChangeSets :
        \/ Propose(c)
        \/ ProposeBadId(c)
        \/ AttachEvidence(c)
        \/ AttachRefused(c)
        \/ GateSuggest(c)
        \/ GateReject(c)
        \/ GateQueue(c)
        \/ GateAuto(c)
        \/ Apply(c)
        \/ \E a \in Actors : Approve(c, a)
        \/ \E a \in Actors : Reject(c, a)
        \/ Promote(c)
        \/ Rollback(c)
        \/ RollbackEscapes(c)
    \/ HandEdit
    \/ EditPolicy
    \/ Tick

Spec == Init /\ [][Next]_vars
-----------------------------------------------------------------------------
\* `monumentum verify': every file with a head has the content of the head, and
\* the newest journal line is the one state.json vouches for.
VerifyOK ==
    /\ journalHead = Len(journal)
    /\ \A t \in Paths : heads[t] # NoFile => files[t] = heads[t]

TypeOK ==
    /\ policy \in PolicyFile
    /\ levels \in [Layers -> Levels]
    /\ status \in [ChangeSets -> Status]
    /\ queue \subseteq ChangeSets
    /\ heads \in [Paths -> FileState]
    /\ journalHead \in Nat
    /\ files \in [Paths -> FileState]
    /\ folder \in [ChangeSets -> ChangeSetFolder \cup {NoFolder}]
    /\ snapshot \in [ChangeSets -> PartialFiles \cup {NoSnapshot}]
    /\ journal \in Seq(JournalEntry)
    /\ today \in 0 .. MaxDay
=============================================================================
