------------------------- MODULE ExecutorProperties -------------------------
(***************************************************************************)
(* What the lifecycle engine must guarantee.  The properties relate the    *)
(* journal, which an auditor reads, to state.json, which the Executor      *)
(* reads, and both to the files.                                           *)
(***************************************************************************)
EXTENDS Executor

\* Entry i is about change c.
About(i, c) == i \in DOMAIN journal /\ journal[i].cs = c

IsEvent(i, events) == i \in DOMAIN journal /\ journal[i].event \in events

ContentEvents == {"applied", "rolled_back"}

\* A change that state.json knows has its folder.
KnownHasFolder == \A c \in ChangeSets : status[c] # "UNKNOWN" => folder[c] # NoFolder

\* The type invariant, strengthened until it is inductive: gate, apply and rollback
\* read the folder of a change whose status they checked.
TypeInv == TypeOK /\ KnownHasFolder

\* The status an entry leaves its change in.
StatusAfter(entry) ==
    CASE entry.event = "proposed" -> "VALIDATED"
      [] entry.event = "gated" /\ entry.gate = "suggest" -> "SUGGESTED"
      [] entry.event = "gated" /\ entry.gate = "queue" -> "QUEUED"
      [] entry.event = "gated" /\ entry.gate = "auto" -> "GATE_APPROVED"
      [] entry.event = "approved" -> "APPROVED"
      [] entry.event = "rejected" -> "REJECTED"
      [] entry.event \in {"applied", "weight_update"} -> "APPLIED"
      [] entry.event = "promoted" -> "PROMOTED"
      [] entry.event = "rolled_back" -> "ROLLED_BACK"
      [] OTHER -> "UNKNOWN"

\* state.json can be rebuilt from the journal: the status of a change is what its
\* newest journal entry says, and a change without an entry is unknown
\* (every command that sets a status: _set_status after journal.append).
StatusMatchesJournal ==
    \A c \in ChangeSets :
        \/ /\ status[c] = "UNKNOWN"
           /\ \A i \in DOMAIN journal : journal[i].cs # c
        \/ \E i \in DOMAIN journal :
            /\ journal[i].cs = c
            /\ \A j \in DOMAIN journal : journal[j].cs = c => j <= i
            /\ status[c] = StatusAfter(journal[i])

\* The review queue holds exactly the changes waiting for a reviewer: gate
\* enqueues, approve and reject dequeue, and no other path leaves QUEUED.
QueueMatchesStatus == queue = {c \in ChangeSets : status[c] = "QUEUED"}

\* Every application in the journal is explained by earlier entries about the same
\* change: proposed, then gated, with no rejection; an automatic one by an "auto"
\* gate decision; a human one by an approval from somebody other than the producer
\* (gate, approve and apply_changeset; "An Executor MUST NOT apply a ChangeSet that
\* did not pass VALIDATED and GATED").
AppliedIsExplained ==
    \A i \in DOMAIN journal : journal[i].event \in {"applied", "weight_update"} =>
        LET c == journal[i].cs
            earlier == {j \in 1 .. (i - 1) : journal[j].cs = c}
        IN /\ \A j \in earlier : journal[j].event \in {"proposed", "gated", "approved"}
           /\ \E p, g \in earlier :
                /\ p < g /\ journal[p].event = "proposed" /\ journal[g].event = "gated"
                /\ \/ /\ journal[i].gate = "auto"
                      /\ journal[g].gate = "auto"
                      /\ journal[g].level >= 2
                   \/ /\ journal[i].gate = "human_review"
                      /\ journal[g].gate = "queue"
                      /\ \E r \in earlier :
                            /\ r > g /\ journal[r].event = "approved"
                            /\ journal[r].by.role \in {"reviewer", "human"}
                            /\ journal[r].by.name # folder[c].producer

\* A change takes effect at most once and is undone at most once, and only after it
\* took effect.
OnceEach ==
    \A i, j \in DOMAIN journal :
        (/\ journal[i].event \in ContentEvents
         /\ journal[j].event = journal[i].event
         /\ journal[j].cs = journal[i].cs) => i = j

\* As long as a change can be rolled back, its snapshot is the target set that its
\* "applied" entry vouches for (apply_changeset: before and _snapshot).
SnapshotMatchesJournal ==
    \A c \in ChangeSets :
        status[c] \in {"APPLIED", "PROMOTED"} /\ folder[c].payload.type # "opaque" =>
            \E i \in DOMAIN journal :
                /\ journal[i].cs = c
                /\ journal[i].event = "applied"
                /\ journal[i].before = snapshot[c]

\* The inductive form: moreover the snapshot covers exactly the targets.
SnapshotInv ==
    \A c \in ChangeSets :
        status[c] \in {"APPLIED", "PROMOTED"} /\ folder[c].payload.type # "opaque" =>
            /\ snapshot[c] \in [folder[c].targets -> FileState]
            /\ \E i \in DOMAIN journal :
                /\ journal[i].cs = c
                /\ journal[i].event = "applied"
                /\ journal[i].before = snapshot[c]

\* I5: whatever was applied since, rolling a change back gives each of its targets
\* exactly the content journaled as "before" when it was applied.
RollbackRestores ==
    [][\A c \in ChangeSets :
        status[c] # "ROLLED_BACK" /\ status'[c] = "ROLLED_BACK" =>
            \E i \in DOMAIN journal :
                /\ journal[i].cs = c
                /\ journal[i].event = "applied"
                /\ \A t \in folder[c].targets : files'[t] = journal[i].before[t]]_vars

\* The effective level of a layer in the journal after its first n entries.
LevelAt(layer, n) ==
    LET changes == {i \in 1 .. n : /\ journal[i].event = "policy_changed"
                                   /\ journal[i].ext.layer = layer}
    IN IF changes = {} THEN journal[1].ext[layer]
       ELSE journal[CHOOSE i \in changes : \A j \in changes : j <= i].ext.to

\* The effective levels can be rebuilt from the journal, and a recorded transition
\* starts from the level that was in force and lowers it (_maybe_de_escalate).
LevelsFromJournal ==
    /\ \A layer \in Layers : levels[layer] = LevelAt(layer, Len(journal))
    /\ \A i \in DOMAIN journal : journal[i].event = "policy_changed" =>
        /\ journal[i].ext.from = LevelAt(journal[i].ext.layer, i - 1)
        /\ journal[i].ext.to < journal[i].ext.from

\* The ratchet engages: as soon as the journal shows on_rollbacks rollbacks of a
\* layer inside the window, the next entry lowers that layer, unless it is at L0
\* ("de_escalation MUST lower the class level").  Stated of a policy that does
\* not change.
RatchetEngages ==
    LET rule == policy.deEscalation IN rule # NoRule =>
        \A i \in DOMAIN journal : journal[i].event = "rolled_back" =>
            LET layer == folder[journal[i].cs].layer
                recent == {j \in 1 .. i : /\ journal[j].event = "rolled_back"
                                          /\ folder[journal[j].cs].layer = layer
                                          /\ journal[j].day + rule.window >= journal[i].day}
            IN Cardinality(recent) >= rule.onRollbacks =>
                \/ LevelAt(layer, i) = 0
                \/ /\ IsEvent(i + 1, {"policy_changed"})
                   /\ journal[i + 1].ext.layer = layer

\* What verify compares the files with is what the journal last recorded: the head
\* of a path is its content in the newest applied or rolled_back entry covering it.
HeadsAreJournaled ==
    \A i \in DOMAIN journal : journal[i].event \in ContentEvents =>
        \A t \in DOMAIN journal[i].after :
            \/ heads[t] = journal[i].after[t]
            \/ \E j \in DOMAIN journal :
                /\ j > i
                /\ journal[j].event \in ContentEvents
                /\ t \in DOMAIN journal[j].after

\* Every change of content is journaled in the step that makes it, with the content
\* before and after; a command that fails leaves the files as they were ("Failure
\* restores the snapshot and journals `rejected`").  It holds as long as nothing raises
\* between the payload and the journal (RaisesWritten, RollbackEscapes) and nobody
\* edits by hand; the run escaped_check shows it broken otherwise.
ContentChangesAreJournaled ==
    [][files' # files =>
        \E i \in DOMAIN journal' \ DOMAIN journal :
            /\ journal'[i].event \in ContentEvents
            /\ \A t \in Paths :
                IF t \in DOMAIN journal'[i].after
                THEN /\ journal'[i].before[t] = files[t]
                     /\ journal'[i].after[t] = files'[t]
                ELSE files'[t] = files[t]]_vars

\* The backstop agrees with the Executor: after any number of commands, each run to
\* its end and none ended by an exception, the files are what the heads say.  (That
\* state.json vouches for the newest line is the other half of VerifyOK; it is put to
\* the test where commands are killed.)
VerifyClean == VerifyOK

\* The abstract promise, with the snapshots of live changes as the saved contents.
Phase(c) ==
    IF status[c] \in {"UNKNOWN", "VALIDATED"} THEN "open"
    ELSE IF status[c] \in {"QUEUED", "GATE_APPROVED", "APPROVED"} THEN "passed"
    ELSE IF status[c] \in {"SUGGESTED", "REJECTED"} THEN "closed"
    ELSE IF folder[c].payload.type = "opaque" THEN "closed"
    ELSE IF status[c] = "ROLLED_BACK" THEN "undone"
    ELSE "installed"

Store == INSTANCE GovernedStore WITH
    Changes <- ChangeSets, Files <- Paths, States <- FileState, Nothing <- NoSnapshot,
    content <- files,
    phase <- [c \in ChangeSets |-> Phase(c)],
    saved <- [c \in ChangeSets |-> IF Phase(c) = "installed" THEN snapshot[c] ELSE NoSnapshot]

\* The Executor implements the governed store: content changes only when a change
\* that passed the gates is applied, or is put back exactly, under the conditions of
\* ContentChangesAreJournaled.
ImplementsStore == Store!Spec
-----------------------------------------------------------------------------
\* Claims of the specification document that the code does not keep.

\* "At L0 nothing applies": no application of a change of a layer whose effective
\* level is L0 (apply_changeset looks at the status, not at the level).
NothingAppliesAtL0 ==
    [][\A i \in DOMAIN journal' \ DOMAIN journal :
        journal'[i].event = "applied" => levels[folder[journal'[i].cs].layer] # 0]_vars

\* "No change applies without evidence.  An Executor MUST refuse to apply a ChangeSet
\* whose effective evidence list is empty" (gate looks at the list only under the
\* evidence_required gate and on the automatic path).
AppliedHasEvidence ==
    [][\A i \in DOMAIN journal' \ DOMAIN journal :
        journal'[i].event = "applied" => Records(folder[journal'[i].cs]) # {}]_vars

\* I3: "application at L2 or L3 REQUIRES at least one Evidence record with grader:
\* independent" (checked by gate; the record can be replaced before apply).
AutoAppliedIsIndependent ==
    [][\A i \in DOMAIN journal' \ DOMAIN journal :
        journal'[i].event = "applied" /\ journal'[i].gate = "auto" =>
            \E r \in Records(folder[journal'[i].cs]) : r.grader = "independent"]_vars
=============================================================================
