-------------------------- MODULE ChangeSetFolder ---------------------------
(***************************************************************************)
(* The folder of one ChangeSet, file by file (src/monumentum/changeset.py, *)
(* and the snapshot of executor.py): the records and artifacts of the      *)
(* evidence folder, which share one name space, and the snapshot, which    *)
(* shares its own with its manifest.  The payload and its hash are files   *)
(* that anybody can edit: the hash fits or not when it is compared, and    *)
(* what is applied is whatever payload is there by then.                   *)
(***************************************************************************)
EXTENDS FiniteSets, Naturals

CONSTANTS
    Targets,        \* files of the workspace that can be targets
    Manifest,       \* MANIFEST.json, a file of the snapshot
    RecordIds,      \* evidence record ids
    ArtifactNames,  \* names of artifact files
    RecordName,     \* RecordName[r]: the file of record r in the evidence folder
    Data,           \* what artifacts that are no records can contain (JSON or not)
    NoArtifact,     \* what a record without an artifact names
    Contents        \* what payloads and targets can contain

\* The file of a record is its id and ".json": each has its own.
ASSUME FolderAssumption ==
    /\ \A r, s \in RecordIds : RecordName[r] = RecordName[s] => r = s
    /\ NoArtifact \notin ArtifactNames

VARIABLES
    status,         \* as in state.json
    targets,
    listed,         \* the records named in the envelope
    evidence,       \* the evidence folder
    snapshot,       \* the snapshot folder
    files,          \* the workspace
    attached,       \* history: the record last attached under each id
    impostors,      \* history: ids over whose record a file that is itself a valid
                    \* record was copied, as an artifact, and still is
    before          \* history: the workspace when the change was applied

change == <<status, targets, snapshot, files, before>>
folder == <<listed, evidence, attached, impostors>>
vars == <<change, folder>>

EvidenceFiles == ArtifactNames \cup {RecordName[r] : r \in RecordIds}

\* Contents of files; a hash stands for what it hashes.
Plain(d) == [kind |-> "data", data |-> d]
RecordOf(name, hash) == [kind |-> "record", artifact |-> name, sha256 |-> hash]
ManifestOf(hashes) == [kind |-> "manifest", hashes |-> hashes]
Absent == [kind |-> "absent"]
Bad == [kind |-> "bad"]

EmptyFolder(names) == [n \in names |-> Absent]

FileContent == {Plain(d) : d \in Contents} \cup {Absent}

\* What can be copied as an artifact: data, or a record on a file of the folder.
Artifacts ==
    {Plain(d) : d \in Data} \cup {RecordOf(n, Plain(d)) : n \in ArtifactNames, d \in Data}
        \cup {RecordOf(NoArtifact, Absent)}
-----------------------------------------------------------------------------
\* Evidence.

Loads(r) == evidence[RecordName[r]].kind = "record"

\* A plausible check that the artifact is there.
VerifiesPresence(r) ==
    LET record == evidence[RecordName[r]]
    IN Loads(r) /\ (record.artifact # NoArtifact => evidence[record.artifact] # Absent)

Verifies(r) ==
    LET record == evidence[RecordName[r]]
    IN Loads(r) /\ (record.artifact # NoArtifact => evidence[record.artifact] = record.sha256)

EvidenceOK == listed # {} /\ \A r \in listed : Verifies(r)

\* The artifact is copied to the name it has: also over the record of a name.
Copied(name, artifact) == [evidence EXCEPT ![name] = artifact]

Impostors(name, artifact) ==
    LET hit == {r \in RecordIds : RecordName[r] = name}
    IN IF artifact.kind = "record" THEN impostors \cup hit ELSE impostors \ hit

\* A record is written to its file, whatever is there, and listed in the envelope.
Written(r, record, contents) ==
    /\ evidence' = [contents EXCEPT ![RecordName[r]] = record]
    /\ listed' = listed \cup {r}
    /\ attached' = [attached EXCEPT ![r] = record]

\* With an artifact: that is copied, then hashed, then the record written.
Attach(r, name, artifact) ==
    /\ status # "NONE"
    /\ Written(r, RecordOf(name, artifact), Copied(name, artifact))
    /\ impostors' = Impostors(name, artifact) \ {r}
    /\ UNCHANGED change

\* Without: the record says what it says, of an artifact that may be there or of none.
AttachRecord(r) ==
    /\ status # "NONE"
    /\ \E record \in {a \in Artifacts : a.kind = "record"} : Written(r, record, evidence)
    /\ impostors' = impostors \ {r}
    /\ UNCHANGED change

\* The record is refused after its artifact was copied.
AttachRefused(name, artifact) ==
    /\ status # "NONE"
    /\ evidence' = Copied(name, artifact)
    /\ impostors' = Impostors(name, artifact)
    /\ UNCHANGED <<change, listed, attached>>
-----------------------------------------------------------------------------
\* Proposal and gate.

Create ==
    /\ status = "NONE"
    /\ status' = "PROPOSED"
    /\ targets' \in (SUBSET Targets) \ {{}}
    /\ UNCHANGED <<folder, snapshot, files, before>>

\* The one time that the hash is compared.
Validate ==
    /\ status = "PROPOSED"
    /\ status' \in {"VALIDATED", "REJECTED"}
    /\ UNCHANGED <<folder, targets, snapshot, files, before>>

\* A gate that asks for evidence.  (What is no JSON at all in the place of a record
\* makes the gate raise, with nothing changed: no step.)
Gate ==
    /\ status = "VALIDATED"
    /\ status' = IF EvidenceOK THEN "GATE_APPROVED" ELSE "REJECTED"
    /\ UNCHANGED <<folder, targets, snapshot, files, before>>
-----------------------------------------------------------------------------
\* The snapshot.

\* A plausible snapshot that adds to one it finds.
TakenOver(current) ==
    [n \in Targets \cup {Manifest} |->
        IF n = Manifest /\ snapshot[Manifest] # Absent THEN snapshot[Manifest]
        ELSE IF n = Manifest THEN ManifestOf([t \in targets |-> current[t]])
        ELSE IF n \in targets THEN current[n] ELSE snapshot[n]]

\* The files that exist are copied; the manifest is written last.
Taken(current) ==
    [n \in Targets \cup {Manifest} |->
        IF n = Manifest THEN ManifestOf([t \in targets |-> current[t]])
        ELSE IF n \in targets THEN current[n] ELSE Absent]

\* What _restore leaves in a target, or Bad when the copy does not match the manifest.
Restored(t, saved) ==
    LET prior == saved[Manifest].hashes[t]
    IN IF prior = Absent THEN Absent ELSE IF saved[t] = prior THEN prior ELSE Bad

Apply ==
    /\ status = "GATE_APPROVED"
    /\ snapshot' = Taken(files)
    /\ before' = files
    /\ \E payload \in [targets -> FileContent] :
        files' = [t \in Targets |-> IF t \in targets THEN payload[t] ELSE files[t]]
    /\ status' = "APPLIED"
    /\ UNCHANGED <<folder, targets>>

\* An exception escapes after the snapshot was taken; apply can be given again.
ApplyEscapes ==
    /\ status = "GATE_APPROVED"
    /\ snapshot' = Taken(files)
    /\ UNCHANGED <<folder, status, targets, files, before>>

Rollback ==
    /\ status = "APPLIED"
    /\ \A t \in targets : Restored(t, snapshot) # Bad
    /\ files' = [t \in Targets |-> IF t \in targets THEN Restored(t, snapshot) ELSE files[t]]
    /\ status' = "ROLLED_BACK"
    /\ UNCHANGED <<folder, targets, snapshot, before>>

\* An edit of a target outside the loop.
HandEdit ==
    /\ \E t \in Targets, x \in FileContent : files' = [files EXCEPT ![t] = x]
    /\ UNCHANGED <<folder, status, targets, snapshot, before>>
-----------------------------------------------------------------------------
Init ==
    /\ status = "NONE"
    /\ targets = {}
    /\ listed = {}
    /\ evidence = EmptyFolder(EvidenceFiles)
    /\ snapshot = EmptyFolder(Targets \cup {Manifest})
    /\ files \in [Targets -> FileContent]
    /\ attached = EmptyFolder(RecordIds)
    /\ impostors = {}
    /\ before = files

Next ==
    \/ Create
    \/ \E r \in RecordIds, name \in ArtifactNames, a \in Artifacts : Attach(r, name, a)
    \/ \E r \in RecordIds : AttachRecord(r)
    \/ \E name \in ArtifactNames, a \in Artifacts : AttachRefused(name, a)
    \/ Validate
    \/ Gate
    \/ Apply
    \/ ApplyEscapes
    \/ Rollback
    \/ HandEdit

Spec == Init /\ [][Next]_vars
-----------------------------------------------------------------------------
\* Whatever files are copied over one another in the evidence folder, an artifact over a
\* record, over another artifact or a record over its own artifact: when the gate finds
\* the evidence in order, the records it has judged are those that were attached, and
\* each of them that names an artifact leads to the one it was attached with.  The
\* exception is an artifact with the file name of a record that is a valid record too:
\* that is read in the place of the record that was attached.
EvidenceIsAsAttached ==
    EvidenceOK =>
        \A r \in listed \ impostors :
            /\ evidence[RecordName[r]] = attached[r]
            /\ attached[r].artifact # NoArtifact =>
                evidence[attached[r].artifact] = attached[r].sha256

\* I5, "every applied ChangeSet MUST be reversible with one command": the snapshot of
\* an applied change gives back every target as it was, also after failed attempts
\* and edits between them, as long as no target has the name of the manifest.
AppliedIsReversible ==
    status = "APPLIED" /\ Manifest \notin targets =>
        \A t \in targets : Restored(t, snapshot) = before[t]
=============================================================================
