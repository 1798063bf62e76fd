------------------------------- MODULE Audit --------------------------------
(***************************************************************************)
(* The auditor of scenarios/uc5/audit.py: it explains the workspace from   *)
(* the journal alone, then compares its account with the files and with    *)
(* state.json.  It takes no step; its account is a function of the state   *)
(* the Executor leaves.                                                    *)
(***************************************************************************)
EXTENDS ExecutorProperties

Told(event) == {journal[i].cs : i \in {j \in DOMAIN journal : journal[j].event = event}}

Applied == Told("applied")

RolledBackOnes == Told("rolled_back")

\* "Changes in effect".
Surviving == Applied \ RolledBackOnes

ContentEntries == {i \in DOMAIN journal : journal[i].event \in ContentEvents}

\* The entries that cover a target, by the targets its change was proposed with.
Covering(t) == {i \in ContentEntries : t \in folder[journal[i].cs].targets}

Newest(entries) == CHOOSE i \in entries : \A j \in entries : j <= i

\* A plausible auditor for whom a rollback does not touch the ownership.
FinalOwnerApplied(t) ==
    journal[Newest({i \in Covering(t) : journal[i].event = "applied"})].cs

\* The last change that touched t; t is covered.
FinalOwner(t) == journal[Newest(Covering(t))].cs

\* A plausible auditor that checks a change on the targets it still owns, and so
\* compares hashes of different target sets.
CheckableInPart(c) ==
    /\ folder[c].targets # {}
    /\ \E t \in folder[c].targets : FinalOwner(t) = c

\* Superseded changes, in whole or in part, are not compared with the files.
Checkable(c) ==
    /\ folder[c].targets # {}
    /\ \A t \in folder[c].targets : FinalOwner(t) = c

\* A plausible auditor that expects what the change wrote, undone or not.
ExpectedWritten(c) ==
    journal[Newest({i \in ContentEntries :
                        journal[i].cs = c /\ journal[i].event = "applied"})].after

\* The target state of the last event of the change.
Expected(c) ==
    LET kind == IF c \in RolledBackOnes THEN "rolled_back" ELSE "applied"
    IN journal[Newest({i \in ContentEntries :
                            journal[i].cs = c /\ journal[i].event = kind})].after

\* A plausible auditor that compares the changes in effect only.
MismatchesSurviving ==
    {c \in Surviving : Checkable(c) /\ Image(files, folder[c].targets) # Expected(c)}

Mismatches ==
    {c \in Surviving \cup RolledBackOnes :
        Checkable(c) /\ Image(files, folder[c].targets) # Expected(c)}

\* genesis, then every policy_changed among the first n entries in turn.
LevelsUpTo[n \in 0 .. Len(journal)] ==
    IF n = 0 THEN journal[1].ext
    ELSE IF journal[n].event = "policy_changed"
    THEN [LevelsUpTo[n - 1] EXCEPT ![journal[n].ext.layer] = journal[n].ext.to]
    ELSE LevelsUpTo[n - 1]

ReplayedLevels == LevelsUpTo[Len(journal)]

AuditOK == Mismatches = {} /\ ReplayedLevels = levels
-----------------------------------------------------------------------------
\* "Journal-derived state matches the working tree and executor state": the account
\* is right after any number of commands that end as they should, in whatever order
\* changes were stacked, failed half way and were rolled back.
AuditAgrees == AuditOK

\* "Exit 1: any mismatch, named": an edit outside the loop of a file makes the audit
\* fail, whether the change that last touched it is in effect or undone, unless later
\* changes took over other targets of that change.
EditsAreAudited ==
    \A t \in Paths :
        /\ Covering(t) # {}
        /\ Checkable(FinalOwner(t))
        /\ files[t] # journal[Newest(Covering(t))].after[t]
        => ~AuditOK
=============================================================================
