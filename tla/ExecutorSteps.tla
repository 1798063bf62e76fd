---------------------------- MODULE ExecutorSteps ----------------------------
(***************************************************************************)
(* The commands gate, apply and rollback of src/monumentum/executor.py as  *)
(* the file operations they are made of, run by processes that can be      *)
(* killed between any two of them; state.json is emptied and filled in two *)
(* steps, each other file is written in one.                               *)
(*                                                                         *)
(* Each process reads state.json when it starts and writes its own copy    *)
(* back at the end.  Module Executor has the same commands as single       *)
(* steps, with the policies, evidence and reviewers left out here: only    *)
(* the level decides at the gate, and all changes are of one layer.        *)
(***************************************************************************)
EXTENDS Integers, FiniteSets, Payload

CONSTANTS
    Processes,      \* processes that run commands
    ChangeSets,     \* ids of the changes, all of them validated
    Changes,        \* Changes[c]: the targets and payload of c, and whether it is
                    \* checked after it is applied (reproducible_check)
    InitialFiles,   \* the workspace when the commands start
    InitialLevel,   \* effective level of the layer
    OnRollbacks,    \* de_escalation.on_rollbacks; the window is as long as the run
    MaxCrashes,     \* bound on the kills
    NoSnapshot

NoChangeSet == "none"

ASSUME StepsAssumption ==
    /\ InitialFiles \in [Paths -> FileState]
    /\ InitialLevel \in 0 .. 3
    /\ OnRollbacks \in Nat \ {0}
    /\ MaxCrashes \in Nat
    /\ NoSnapshot \notin PartialFiles
    /\ NoChangeSet \notin ChangeSets
    /\ \A c \in ChangeSets :
        /\ Changes[c].targets \in SUBSET Paths
        /\ Changes[c].payload \in PayloadRecord
        /\ Changes[c].checked \in BOOLEAN

VARIABLES
    files,      \* the workspace
    snapshot,   \* .monumentum/changesets/<id>/snapshot
    journal,    \* the entries since the changes were validated
    db,         \* state.json as it was last whole: status, heads, effective level,
                \* journal_head
    torn,       \* state.json is cut off: read_state raises
    proc,       \* what each process does, with its own copy of state.json
    crashes     \* how many processes were killed

vars == <<files, snapshot, journal, db, torn, proc, crashes>>

Targets(c) == Changes[c].targets

\* The status that journaling an event leaves its change in.
StatusAfter ==
    [gated |-> "GATE_APPROVED", queued |-> "QUEUED", suggested |-> "SUGGESTED",
     applied |-> "APPLIED", rejected |-> "REJECTED", rolled_back |-> "ROLLED_BACK"]

ContentEvents == {"applied", "rolled_back"}

Init ==
    /\ files = InitialFiles
    /\ snapshot = [c \in ChangeSets |-> NoSnapshot]
    /\ journal = <<>>
    /\ db = [status |-> [c \in ChangeSets |-> "VALIDATED"], heads |-> InitialFiles,
             level |-> InitialLevel, vouched |-> 0]
    /\ torn = FALSE
    /\ proc = [p \in Processes |-> [pc |-> "idle"]]
    /\ crashes = 0

At(p, pc) == proc[p].pc = pc

Idle(p) == proc' = [proc EXCEPT ![p] = [pc |-> "idle"]]

\* Process p runs a command on c: it has read state.json and the targets.
Begin(p, c, pc, event) ==
    /\ At(p, "idle")
    /\ ~torn
    /\ proc' = [proc EXCEPT ![p] =
            [pc |-> pc, cs |-> c, event |-> event, db |-> db, todo |-> Targets(c),
             new |-> NoTargets, before |-> Image(files, Targets(c)), after |-> NoTargets]]
    /\ UNCHANGED <<files, snapshot, journal, db, torn, crashes>>
-----------------------------------------------------------------------------
\* How each command begins.

StartGate(p, c) ==
    /\ db.status[c] = "VALIDATED"
    /\ \/ db.level = 0 /\ Begin(p, c, "append", "suggested")
       \/ db.level = 1 /\ Begin(p, c, "append", "queued")
       \/ db.level > 1 /\ Begin(p, c, "append", "gated")

StartApply(p, c) ==
    /\ db.status[c] = "GATE_APPROVED"
    /\ Begin(p, c, "snapshot", "applied")

StartRollback(p, c) ==
    /\ db.status[c] = "APPLIED"
    /\ snapshot[c] # NoSnapshot
    /\ Begin(p, c, "restore", "rolled_back")
-----------------------------------------------------------------------------
\* The targets.

\* The payload is computed as a whole, then written; a payload that does not apply
\* goes to the restore of the snapshot.
TakeSnapshot(p) ==
    LET c == proc[p].cs IN
    /\ At(p, "snapshot")
    /\ snapshot' = [snapshot EXCEPT ![c] = Image(files, Targets(c))]
    /\ IF PayloadApplies(Changes[c].payload, Targets(c), files)
       THEN proc' = [proc EXCEPT
                ![p].pc = "write",
                ![p].new = PayloadResults(Changes[c].payload, Targets(c), files)]
       ELSE proc' = [proc EXCEPT ![p].pc = "restore", ![p].event = "rejected"]
    /\ UNCHANGED <<files, journal, db, torn, crashes>>

WriteTarget(p) ==
    /\ At(p, "write")
    /\ \E t \in proc[p].todo :
        /\ files' = [files EXCEPT ![t] = proc[p].new[t]]
        /\ proc' = [proc EXCEPT ![p].todo = @ \ {t}]
    /\ UNCHANGED <<snapshot, journal, db, torn, crashes>>

\* An OSError before the last target is written, or a recorded check that fails
\* on the applied state.
Revert(p) ==
    /\ At(p, "write")
    /\ proc[p].todo # {} \/ Changes[proc[p].cs].checked
    /\ proc' = [proc EXCEPT ![p].pc = "restore", ![p].event = "rejected",
                            ![p].todo = Targets(proc[p].cs)]
    /\ UNCHANGED <<files, snapshot, journal, db, torn, crashes>>

\* A plausible _restore that copies the saved files back and removes nothing.
RestoreSavedOnly(p) ==
    /\ At(p, "restore")
    /\ \E t \in proc[p].todo :
        /\ files' = [files EXCEPT ![t] =
                IF snapshot[proc[p].cs][t] = NoFile THEN @ ELSE snapshot[proc[p].cs][t]]
        /\ proc' = [proc EXCEPT ![p].todo = @ \ {t}]
    /\ UNCHANGED <<snapshot, journal, db, torn, crashes>>

RestoreTarget(p) ==
    /\ At(p, "restore")
    /\ \E t \in proc[p].todo :
        /\ files' = [files EXCEPT ![t] = snapshot[proc[p].cs][t]]
        /\ proc' = [proc EXCEPT ![p].todo = @ \ {t}]
    /\ UNCHANGED <<snapshot, journal, db, torn, crashes>>

\* A plausible failure path that tells the user and journals nothing.
SettleUnjournaled(p) ==
    /\ At(p, "write") \/ At(p, "restore")
    /\ proc[p].todo = {}
    /\ IF proc[p].event = "rejected" THEN Idle(p)
       ELSE proc' = [proc EXCEPT ![p].pc = "append",
                                 ![p].after = Image(files, Targets(proc[p].cs))]
    /\ UNCHANGED <<files, snapshot, journal, db, torn, crashes>>

\* The targets are hashed and, if they were applied or rolled back in a git
\* repository, committed together with .monumentum as it is at this moment; the
\* result is ready for the journal.
Settle(p) ==
    /\ At(p, "write") \/ At(p, "restore")
    /\ proc[p].todo = {}
    /\ proc' = [proc EXCEPT ![p].pc = "append",
                            ![p].after = Image(files, Targets(proc[p].cs))]
    /\ UNCHANGED <<files, snapshot, journal, db, torn, crashes>>
-----------------------------------------------------------------------------
\* The journal and state.json.

Entry(event, c, before, after) ==
    [event |-> event, cs |-> c, before |-> before, after |-> after]

\* Only entries that change content carry a target_state.
AppendEntry(p) ==
    LET me == proc[p] IN
    /\ At(p, "append")
    /\ journal' = Append(journal,
            IF me.event \in ContentEvents THEN Entry(me.event, me.cs, me.before, me.after)
            ELSE Entry(me.event, me.cs, NoTargets, NoTargets))
    /\ proc' = [proc EXCEPT ![p].pc = "save"]
    /\ UNCHANGED <<files, snapshot, db, torn, crashes>>

\* write_state empties the file before it writes it.
Truncate(p) ==
    /\ At(p, "save") \/ At(p, "level")
    /\ ~torn
    /\ torn' = TRUE
    /\ UNCHANGED <<files, snapshot, journal, db, proc, crashes>>

\* It then writes the copy read at the start, with the new status, the new heads and
\* the journal head of this moment.
Save(p) ==
    LET me == proc[p] IN
    /\ At(p, "save")
    /\ torn
    /\ torn' = FALSE
    /\ db' = [me.db EXCEPT
            !.status[me.cs] = StatusAfter[me.event],
            !.heads = IF me.event \in ContentEvents THEN Written(@, me.after) ELSE @,
            !.vouched = Len(journal)]
    /\ IF me.event = "rolled_back"
       THEN proc' = [proc EXCEPT ![p].pc = "ratchet"]
       ELSE Idle(p)
    /\ UNCHANGED <<files, snapshot, journal, crashes>>

Rollbacks == {i \in DOMAIN journal : journal[i].event = "rolled_back"}

\* A plausible _maybe_de_escalate that is handed the state rollback had read.
RatchetOnOldState(p) ==
    /\ At(p, "ratchet")
    /\ ~torn
    /\ IF Cardinality(Rollbacks) >= OnRollbacks /\ db.level > 0
       THEN /\ journal' = Append(journal,
                    Entry("policy_changed", NoChangeSet, NoTargets, NoTargets))
            /\ proc' = [proc EXCEPT ![p].pc = "level", ![p].db.level = @ - 1]
       ELSE Idle(p) /\ UNCHANGED journal
    /\ UNCHANGED <<files, snapshot, db, torn, crashes>>

\* A plausible _maybe_de_escalate that tolerates on_rollbacks of them.
RatchetOneTooLate(p) ==
    /\ At(p, "ratchet")
    /\ ~torn
    /\ IF Cardinality(Rollbacks) > OnRollbacks /\ db.level > 0
       THEN /\ journal' = Append(journal,
                    Entry("policy_changed", NoChangeSet, NoTargets, NoTargets))
            /\ proc' = [proc EXCEPT ![p].pc = "level",
                                    ![p].db = [db EXCEPT !.level = db.level - 1]]
       ELSE Idle(p) /\ UNCHANGED journal
    /\ UNCHANGED <<files, snapshot, db, torn, crashes>>

\* _maybe_de_escalate: state.json is read again.
Ratchet(p) ==
    /\ At(p, "ratchet")
    /\ ~torn
    /\ IF Cardinality(Rollbacks) >= OnRollbacks /\ db.level > 0
       THEN /\ journal' = Append(journal,
                    Entry("policy_changed", NoChangeSet, NoTargets, NoTargets))
            /\ proc' = [proc EXCEPT ![p].pc = "level",
                                    ![p].db = [db EXCEPT !.level = db.level - 1]]
       ELSE Idle(p) /\ UNCHANGED journal
    /\ UNCHANGED <<files, snapshot, db, torn, crashes>>

\* The second write_state of a rollback.
SaveLevel(p) ==
    /\ At(p, "level")
    /\ torn
    /\ torn' = FALSE
    /\ db' = [proc[p].db EXCEPT !.vouched = Len(journal)]
    /\ Idle(p)
    /\ UNCHANGED <<files, snapshot, journal, crashes>>
-----------------------------------------------------------------------------
\* The process is killed; what it wrote stays.
Crash(p) ==
    /\ crashes < MaxCrashes
    /\ ~At(p, "idle")
    /\ Idle(p)
    /\ crashes' = crashes + 1
    /\ UNCHANGED <<files, snapshot, journal, db, torn>>

Step(p) ==
    \/ TakeSnapshot(p)
    \/ WriteTarget(p)
    \/ Revert(p)
    \/ RestoreTarget(p)
    \/ Settle(p)
    \/ AppendEntry(p)
    \/ Truncate(p)
    \/ Save(p)
    \/ Ratchet(p)
    \/ SaveLevel(p)

Next ==
    \E p \in Processes :
        \/ \E c \in ChangeSets : StartGate(p, c) \/ StartApply(p, c) \/ StartRollback(p, c)
        \/ Step(p)
        \/ Crash(p)

Spec == Init /\ [][Next]_vars

\* A process that is not killed runs on to the end of its command, and a command
\* that state.json still calls for is issued again.
FairSpec ==
    /\ Spec
    /\ \A p \in Processes : WF_vars(Step(p))
    /\ \A c \in ChangeSets : WF_vars(\E p \in Processes : StartGate(p, c) \/ StartApply(p, c))
-----------------------------------------------------------------------------
AtRest == \A p \in Processes : At(p, "idle")

\* A plausible verify that leaves journal_head alone.
VerifyHeadsOnly == \A t \in Paths : db.heads[t] # NoFile => files[t] = db.heads[t]

\* verify, run now; it raises on a torn state.json.
VerifyOK ==
    /\ ~torn
    /\ db.vouched = Len(journal)
    /\ \A t \in Paths : db.heads[t] # NoFile => files[t] = db.heads[t]
-----------------------------------------------------------------------------
\* Properties.

Newest(entries) == CHOOSE i \in entries : \A j \in entries : j <= i

\* What the journal says the status of c is.
JournalStatus(c) ==
    LET mine == {i \in DOMAIN journal : journal[i].cs = c}
    IN IF mine = {} THEN "VALIDATED" ELSE StatusAfter[journal[Newest(mine)].event]

\* What the journal says is in the files.
JournalFiles ==
    [t \in Paths |->
        LET covering == {i \in DOMAIN journal : t \in DOMAIN journal[i].after}
        IN IF covering = {} THEN InitialFiles[t] ELSE journal[Newest(covering)].after[t]]

\* The journal, state.json and the files tell the same story.
AllAgree ==
    /\ \A c \in ChangeSets : db.status[c] = JournalStatus(c)
    /\ files = JournalFiles

\* Process p is about to commit to git, then to journal, what it did to its targets.
Committing(p) ==
    /\ At(p, "write") \/ At(p, "restore")
    /\ proc[p].todo = {}
    /\ proc[p].event \in ContentEvents

\* As long as nothing is killed, verify has nothing to report between commands and the
\* journal alone explains statuses and files (8.5 of the specification document, the
\* audit promise); and in the commit a command makes, which _git_commit takes before
\* the entry and the heads are written, state.json is whole and verify names nothing
\* but that change's targets.
AgreeUntilKilled == crashes = 0 =>
    /\ AtRest => VerifyOK /\ AllAgree
    /\ \A p \in Processes : Committing(p) =>
        /\ ~torn
        /\ db.vouched = Len(journal)
        /\ {t \in Paths : db.heads[t] \notin {files[t], NoFile}} \subseteq Targets(proc[p].cs)

\* The first kill goes unseen only where verify compares nothing: either verify
\* reports it, or the journal and state.json tell the same story, and so do the files
\* that the journal says are there (heads are compared with the files and journal_head
\* with the tail, so each half-way point of apply and of rollback shows, but for a file
\* that the killed command had just created).  It is said of workspaces in which each
\* governed file that exists has a head when the commands start.
CrashIsSeen ==
    [][(\E p \in Processes : Crash(p)) /\ crashes = 0 /\ VerifyOK' =>
        /\ \A c \in ChangeSets : db'.status[c] = JournalStatus(c)'
        /\ \A t \in Paths : JournalFiles'[t] \in {files'[t], NoFile}]_vars

\* Killed and repeated any number of times, a rollback that is journaled has given
\* each target what the newest application of that change journaled as "before".
RollbackRestores ==
    [][\A i \in DOMAIN journal' \ DOMAIN journal :
        journal'[i].event = "rolled_back" =>
            LET c == journal'[i].cs
                applied == {j \in DOMAIN journal :
                                journal[j].cs = c /\ journal[j].event = "applied"}
            IN Image(files', Targets(c)) = journal[Newest(applied)].before]_vars

\* A change that passed its gate is applied or rejected in the end, whatever kills its
\* application and whatever half-way state the next attempt finds, unless a kill inside
\* write_state leaves a state.json that no later command can read.
GatedIsDecided ==
    \A c \in ChangeSets :
        db.status[c] = "GATE_APPROVED" ~>
            (db.status[c] \in {"APPLIED", "REJECTED"} \/ (crashes > 0 /\ torn /\ AtRest))

\* A kill between a rollback and its de-escalation can cost that one lowering and no
\* other: the rollbacks that are journaled have each lowered the level, from the
\* on_rollbacks-th on, but for as many as there were kills.
KillCostsOneLowering ==
    AtRest /\ ~torn /\ db.level > 0 =>
        Cardinality(Rollbacks) - (OnRollbacks - 1) <= InitialLevel - db.level + crashes

\* The abstract promise.  A command commits when its entry is in the journal; until
\* then its targets count as what they were when it began.
Phase(c) ==
    CASE JournalStatus(c) = "VALIDATED" -> "open"
      [] JournalStatus(c) \in {"QUEUED", "GATE_APPROVED"} -> "passed"
      [] JournalStatus(c) \in {"SUGGESTED", "REJECTED"} -> "closed"
      [] JournalStatus(c) = "APPLIED" -> "installed"
      [] JournalStatus(c) = "ROLLED_BACK" -> "undone"

Committed ==
    [t \in Paths |->
        IF \E p \in Processes :
            proc[p].pc \in {"write", "restore", "append"} /\ t \in Targets(proc[p].cs)
        THEN LET p == CHOOSE p \in Processes : ~At(p, "idle") IN proc[p].before[t]
        ELSE files[t]]

Store == INSTANCE GovernedStore WITH
    Changes <- ChangeSets, Files <- Paths, States <- FileState, Nothing <- NoSnapshot,
    content <- Committed,
    phase <- [c \in ChangeSets |-> Phase(c)],
    saved <- [c \in ChangeSets |->
        IF Phase(c) = "installed" THEN snapshot[c] ELSE NoSnapshot]

\* One process implements the governed store until it is killed: its writes, its
\* failed attempts and its restores look like single steps.
StoreUntilKilled ==
    /\ Store!Init
    /\ [][crashes' = 0 => [Store!Next]_(Store!storeVars)]_vars
=============================================================================
