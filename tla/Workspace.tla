----------------------------- MODULE Workspace ------------------------------
(***************************************************************************)
(* The files of a workspace, and the operations on a ChangeSet's targets   *)
(* that apply and rollback are made of (executor._snapshot,                *)
(* executor._restore and the target hashes of workspace.py).               *)
(*                                                                         *)
(* A file is a content or NoFile.  A hash stands for what it hashes, so    *)
(* equal hashes are equal contents.                                        *)
(***************************************************************************)
CONSTANTS
    Paths,      \* workspace-relative paths that can be targets
    Contents,   \* contents a file can have
    NoFile      \* the file is absent (a hash of null)

ASSUME WorkspaceAssumption == NoFile \notin Contents

FileState == Contents \cup {NoFile}

\* The states of some of the files: a snapshot, a payload's results, or the
\* target set that a combined hash stands for.
PartialFiles == UNION {[targets -> FileState] : targets \in SUBSET Paths}

\* No targets: the target_state of an entry that has none.
NoTargets == [t \in {} |-> NoFile]

\* The files after `changes' were written over them.
Written(files, changes) ==
    [p \in Paths |-> IF p \in DOMAIN changes THEN changes[p] ELSE files[p]]

\* The target set as it is now: what _snapshot saves and _combined_hash hashes.
Image(files, targets) == [t \in targets |-> files[t]]

\* A plausible _restore that copies saved files back but does not remove the
\* ones the change created.
RestoreKeepsNewFiles(files, saved) ==
    [p \in Paths |-> IF p \in DOMAIN saved /\ saved[p] # NoFile THEN saved[p] ELSE files[p]]

\* Saved files are copied back; a target that did not exist is removed.
Restore(files, saved) == Written(files, saved)
=============================================================================
