------------------------------- MODULE MCSteps -------------------------------
(***************************************************************************)
(* Small instances of the commands as file operations: two files, a change *)
(* of both and a change of one.                                            *)
(***************************************************************************)
EXTENDS ExecutorSteps, TLC

CONSTANTS c1, c2, p1, agents, skill, base, first, second

Edit(p, from, to) ==
    [old |-> p, new |-> p,
     rewrite |-> [x \in FileState |-> IF x = from THEN to ELSE Mismatch]]

Create(p, to) ==
    [old |-> NoPath, new |-> p,
     rewrite |-> [x \in FileState |-> IF x = NoFile THEN to ELSE Mismatch]]

NoTree == [p \in Paths |-> NoFile]
Diff(patches) == [type |-> "diff", patches |-> patches, tree |-> NoTree]
Folder(tree) == [type |-> "folder", patches |-> <<>>, tree |-> NoTree @@ tree]

Change(targets, payload, checked) ==
    [targets |-> targets, payload |-> payload, checked |-> checked]

OverAgents == Change({agents}, [Folder(NoTree) EXCEPT !.tree[agents] = second], FALSE)
EditAndCreate ==
    Change({agents, skill}, Diff(<<Edit(agents, base, first), Create(skill, first)>>), TRUE)

AgentsOnly == [p \in Paths |-> IF p = agents THEN base ELSE NoFile]

\* A diff that also creates a file, and folder payloads over one of its targets.
CreatingChanges == [c \in ChangeSets |-> IF c = c1 THEN EditAndCreate ELSE OverAgents]
=============================================================================
