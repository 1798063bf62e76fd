------------------------------ MODULE Payload -------------------------------
(***************************************************************************)
(* What a ChangeSet payload does to the files of the workspace             *)
(* (executor._apply_payload, diffs.apply_patch_set).                       *)
(*                                                                         *)
(* The hunks of one file patch are abstracted to `rewrite', the function   *)
(* from the content they are applied to, to the content they give:         *)
(* Mismatch when the context lines differ, when a creation finds a file or *)
(* when a change or deletion finds none.                                   *)
(***************************************************************************)
EXTENDS Naturals, Sequences, Workspace

CONSTANTS
    NoPath,     \* /dev/null on one side of a file patch
    Mismatch    \* a DiffError while the payload is applied

ASSUME PayloadAssumption ==
    /\ Mismatch \notin FileState
    /\ NoPath \notin Paths

FilePatchRecord ==
    [old     : Paths \cup {NoPath},
     new     : Paths \cup {NoPath},
     rewrite : [FileState -> FileState \cup {Mismatch}]]

\* A diff with /dev/null on both sides of a patch does not parse.
FilePatch == {patch \in FilePatchRecord : patch.old # NoPath \/ patch.new # NoPath}

PayloadType == {"diff", "folder", "opaque"}

\* `patches' is read for a diff, `tree' for a folder (NoFile: no such file in
\* the payload folder), neither for an opaque reference.
PayloadRecord ==
    [type    : PayloadType,
     patches : Seq(FilePatch),
     tree    : [Paths -> FileState]]

PatchTarget(patch) == IF patch.new # NoPath THEN patch.new ELSE patch.old

PatchSource(patch) == IF patch.old # NoPath THEN patch.old ELSE PatchTarget(patch)

PatchTargets(patches) == {PatchTarget(patches[i]) : i \in DOMAIN patches}

PatchResult(patch, files) == patch.rewrite[files[PatchSource(patch)]]

\* Every patch reads the content from before the whole set is applied; when two
\* patches have the same target the later result overwrites the earlier one.
LastPatchOf(patches, target) ==
    CHOOSE i \in DOMAIN patches :
        /\ PatchTarget(patches[i]) = target
        /\ \A j \in DOMAIN patches : PatchTarget(patches[j]) = target => j <= i

DiffApplies(patches, targets, files) ==
    /\ PatchTargets(patches) = targets
    /\ \A i \in DOMAIN patches : PatchResult(patches[i], files) # Mismatch

FolderApplies(tree, targets) == \A t \in targets : tree[t] # NoFile

PayloadApplies(payload, targets, files) ==
    \/ payload.type = "diff" /\ DiffApplies(payload.patches, targets, files)
    \/ payload.type = "folder" /\ FolderApplies(payload.tree, targets)

\* The new state of each target when the payload applies.
PayloadResults(payload, targets, files) ==
    [t \in targets |->
        IF payload.type = "diff"
        THEN PatchResult(payload.patches[LastPatchOf(payload.patches, t)], files)
        ELSE payload.tree[t]]
=============================================================================
