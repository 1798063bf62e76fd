----------------------------- MODULE MCExecutor -----------------------------
(***************************************************************************)
(* Small instances of the lifecycle engine for TLC: two files, the         *)
(* contents two stacked edits can give, and a few ChangeSets per run.      *)
(***************************************************************************)
EXTENDS Audit, Doors

CONSTANTS c1, c2, c3, agents, skill, base, first, second, both, binary, e1

\* file patches

Edit(p, from, to) ==
    [old |-> p, new |-> p,
     rewrite |-> [x \in FileState |-> IF x = from THEN to ELSE Mismatch]]

\* A hunk that touches other lines than the other change does: it applies to base
\* and on top of the other change.
Merge(p, mine, other) ==
    [old |-> p, new |-> p,
     rewrite |-> [x \in FileState |->
        IF x = base THEN mine ELSE IF x = other THEN both ELSE Mismatch]]

Create(p, to) ==
    [old |-> NoPath, new |-> p,
     rewrite |-> [x \in FileState |-> IF x = NoFile THEN to ELSE Mismatch]]

Delete(p, from) ==
    [old |-> p, new |-> NoPath,
     rewrite |-> [x \in FileState |-> IF x = from THEN NoFile ELSE Mismatch]]

NoTree == [p \in Paths |-> NoFile]

Diff(patches) == [type |-> "diff", patches |-> patches, tree |-> NoTree]
Folder(tree) == [type |-> "folder", patches |-> <<>>, tree |-> tree]
Opaque == [type |-> "opaque", patches |-> <<>>, tree |-> NoTree]

\* evidence

Independent == [grader |-> "independent", transcript |-> TRUE, form |-> "valid",
                verifies |-> TRUE]
SelfGraded == [Independent EXCEPT !.grader = "self"]
Feedback == [Independent EXCEPT !.transcript = FALSE]

NoEvidence == [e \in EvidenceIds |-> Unlisted]
With(r) == [NoEvidence EXCEPT ![e1] = r]

\* changesets

Change(layer, targets, payload) ==
    [idOk |-> TRUE, wellFormed |-> TRUE, intact |-> TRUE, layer |-> layer,
     targets |-> targets, payload |-> payload, producer |-> "agent",
     evidence |-> NoEvidence]

Graded(cs, r) == [cs EXCEPT !.evidence = With(r)]

EditFirst == Change("context", {agents}, Diff(<<Merge(agents, first, second)>>))
EditSecond == Change("context", {agents}, Diff(<<Merge(agents, second, first)>>))
AddSkill == Change("capability", {skill}, Folder([NoTree EXCEPT ![skill] = first]))
AddBoth == Change("capability", {agents, skill},
                  Diff(<<Edit(agents, base, first), Create(skill, second)>>))
DropAgents == Change("capability", {agents}, Diff(<<Delete(agents, base)>>))
\* Two patches of one file in one diff: the second overwrites the first.
Rewrite == Change("context", {agents},
                  Diff(<<Edit(agents, base, second), Edit(agents, base, first)>>))
HalfFolder == Change("capability", {agents, skill},
                     Folder([NoTree EXCEPT ![agents] = second]))
Weights == Change("capability", {skill}, Opaque)
OutsideLayer == Change("architecture", {agents}, Diff(<<Edit(agents, base, first)>>))

\* policies

Class(level, gates, allow) ==
    [level |-> level, gates |-> gates, allow |-> allow \cap Paths]

PolicyWith(context, capability, rule) ==
    [envelope |-> [layer \in Layers |->
        CASE layer = "context" -> context
          [] layer = "capability" -> capability
          [] OTHER -> Class(1, {"evidence_required", "human_review"}, {})],
     protected |-> {},
     deEscalation |-> rule]

TwoInWindow == [onRollbacks |-> 2, window |-> 1, drop |-> 1]

\* The default policy of `monumentum init', for the files of these instances.
DefaultPolicy ==
    PolicyWith(Class(2, {"evidence_required", "reproducible_check"}, {agents}),
               Class(1, {"evidence_required", "human_review"}, {agents, skill}),
               TwoInWindow)

\* No gate asks for evidence, and one rollback takes a layer from L3 to L0.
ExtremePolicy ==
    PolicyWith(Class(3, {}, {agents}), Class(3, {"human_review"}, {agents, skill}),
               [onRollbacks |-> 1, window |-> 1, drop |-> 3])

\* Reproduction is demanded, but evidence_required is not: each gate is optional.
CheckOnlyPolicy ==
    PolicyWith(Class(1, {"reproducible_check"}, {agents}),
               Class(1, {"human_review"}, {agents, skill}), NoRule)

Fresh == [p \in Paths |-> IF p = agents THEN base ELSE NoFile]
FreshOnly == {Fresh}

Bob == [role |-> "reviewer", name |-> "bob"]
TheAgent == [role |-> "reviewer", name |-> "agent"]
Stranger == [role |-> "producer", name |-> "bob"]
AllActors == {Bob, TheAgent, Stranger}
OneReviewer == {Bob}
IndependentOnly == {Independent}
OnlyDefault == {DefaultPolicy}
DefaultOrExtreme == {DefaultPolicy, ExtremePolicy}
-----------------------------------------------------------------------------
\* lifecycle: both payload types and the opaque one, stacked and conflicting
\* changes, a folder payload that lacks a file, changes of one layer rolled back on
\* the same day and over the days of the de-escalation window.
LifecycleProposals == [c \in ChangeSets |->
    IF c = c1 THEN {EditFirst, AddBoth, Rewrite, Graded(DropAgents, SelfGraded)}
    ELSE {Graded(EditSecond, Independent), Graded(HalfFolder, Feedback),
          Graded(Weights, Independent)}]

\* disturbed: hand edits, policy edits, failing writes, rollbacks with an empty
\* actor, malformed ids and envelopes, evidence that is clobbered, checks that raise.
DisturbedProposals == [c \in ChangeSets |->
    IF c = c1
    THEN {Graded(EditFirst, Independent), [EditFirst EXCEPT !.idOk = FALSE],
          [EditFirst EXCEPT !.intact = FALSE], OutsideLayer}
    ELSE {EditSecond}]
DisturbedPolicies == {CheckOnlyPolicy, DefaultPolicy}

\* l0_apply: the default policy, three capability changes waiting for a reviewer.
QueuedProposals == [c \in ChangeSets |->
    IF c = c3 THEN {Graded(AddSkill, Feedback)}
    ELSE {Graded(Change("capability", {agents}, Diff(<<Merge(agents, first, first)>>)),
                 Feedback)}]

\* stale_evidence: a record can be attached again under its id after the gate.
StaleProposals == [c \in ChangeSets |-> {Graded(EditFirst, Independent)}]
AnyGrader == {Independent, SelfGraded}

\* escaped_check: an artifact copied over the file of a record between gate and apply.
EscapedProposals == [c \in ChangeSets |-> {Graded(EditFirst, Independent)}]

\* no_evidence: a policy without evidence_required.
UngradedProposals == [c \in ChangeSets |-> {EditFirst}]
OnlyCheckOnly == {CheckOnlyPolicy}
=============================================================================
