---------------------------- MODULE FolderProofs ----------------------------
(***************************************************************************)
(* Proofs about the folder of one ChangeSet: what the evidence folder and  *)
(* the snapshot promise for any number of targets, records, artifacts and  *)
(* contents.                                                               *)
(***************************************************************************)
EXTENDS ChangeSetFolder, TLAPS

\* A record that loads and for which no artifact was copied is the one attached: writing a
\* record notes it at once, and what else is copied over one is no record.
RecordsTell ==
    \A r \in listed \ impostors : Loads(r) => evidence[RecordName[r]] = attached[r]

FolderInv ==
    /\ targets \subseteq Targets
    /\ listed \subseteq RecordIds
    /\ DOMAIN evidence = EvidenceFiles
    /\ DOMAIN attached = RecordIds
    /\ status = "APPLIED" => snapshot = Taken(before)
    /\ RecordsTell

LEMMA InitFolder == Init => FolderInv
BY DEF Init, FolderInv, RecordsTell, EmptyFolder

\* An artifact is copied to the file n: what is a record by now, and no impostor, was one
\* before.
LEMMA CopyTells ==
    ASSUME FolderInv, NEW n \in ArtifactNames, NEW a
    PROVE  /\ DOMAIN Copied(n, a) = EvidenceFiles
           /\ \A r \in listed \ Impostors(n, a) : Copied(n, a)[RecordName[r]].kind = "record" =>
                Copied(n, a)[RecordName[r]] = attached[r]
<1>1. DOMAIN Copied(n, a) = EvidenceFiles
  BY DEF FolderInv, Copied
<1>2. ASSUME NEW r \in listed, r \notin Impostors(n, a),
             Copied(n, a)[RecordName[r]].kind = "record"
      PROVE  Copied(n, a)[RecordName[r]] = attached[r]
  <2>1. RecordName[r] \in EvidenceFiles /\ r \in RecordIds
    BY DEF EvidenceFiles, FolderInv
  <2>2. RecordName[r] # n
    <3>1. RecordName[r] = n => a.kind = "record"
      BY <1>2, <2>1 DEF FolderInv, Copied
    <3> QED BY <1>2, <2>1, <3>1 DEF Impostors
  <2>3. Copied(n, a)[RecordName[r]] = evidence[RecordName[r]]
    BY <2>1, <2>2 DEF FolderInv, Copied
  <2>4. r \notin impostors
    BY <1>2, <2>1, <2>2 DEF Impostors
  <2> QED BY <1>2, <2>3, <2>4 DEF FolderInv, RecordsTell, Loads
<1> QED BY <1>1, <1>2

\* The record of r is written over what the folder contains.
LEMMA WriteTells ==
    ASSUME FolderInv, NEW r \in RecordIds, NEW record, NEW contents, NEW others,
           DOMAIN contents = EvidenceFiles,
           \A s \in listed \ others : contents[RecordName[s]].kind = "record" =>
                contents[RecordName[s]] = attached[s],
           Written(r, record, contents), impostors' = others \ {r}
    PROVE  RecordsTell' /\ DOMAIN evidence' = EvidenceFiles
<1>1. /\ evidence' = [contents EXCEPT ![RecordName[r]] = record]
      /\ attached' = [attached EXCEPT ![r] = record]
      /\ listed' = listed \cup {r}
  BY DEF Written
<1>2. ASSUME NEW s \in listed', s \notin impostors', evidence'[RecordName[s]].kind = "record"
      PROVE  evidence'[RecordName[s]] = attached'[s]
  <2>1. /\ s \in RecordIds /\ RecordName[s] \in EvidenceFiles
        /\ RecordName[r] \in EvidenceFiles
    BY <1>1 DEF FolderInv, EvidenceFiles
  <2>2. CASE s = r
    BY <1>1, <2>1, <2>2 DEF FolderInv
  <2>3. CASE s # r
    <3>1. RecordName[s] # RecordName[r]
      BY <2>1, <2>3, FolderAssumption
    <3>2. evidence'[RecordName[s]] = contents[RecordName[s]]
      BY <1>1, <2>1, <3>1
    <3>3. attached'[s] = attached[s]
      BY <1>1, <2>1, <2>3 DEF FolderInv
    <3>4. s \in listed \ others
      BY <1>1, <1>2, <2>3
    <3> QED BY <1>2, <3>2, <3>3, <3>4
  <2> QED BY <2>2, <2>3
<1>3. DOMAIN evidence' = EvidenceFiles
  BY <1>1
<1> QED BY <1>2, <1>3 DEF RecordsTell, Loads

\* What writes no evidence leaves the records as they are.
LEMMA QuietTells ==
    ASSUME FolderInv, UNCHANGED folder
    PROVE  /\ RecordsTell' /\ DOMAIN evidence' = EvidenceFiles
           /\ listed' \subseteq RecordIds /\ DOMAIN attached' = RecordIds
BY DEF FolderInv, RecordsTell, Loads, folder

LEMMA NextFolder == FolderInv /\ [Next]_vars => FolderInv'
<1> SUFFICES ASSUME FolderInv, [Next]_vars PROVE FolderInv'
  OBVIOUS
<1>1. ASSUME NEW r \in RecordIds, NEW n \in ArtifactNames, NEW a \in Artifacts, Attach(r, n, a)
      PROVE  FolderInv'
  <2>1. RecordsTell' /\ DOMAIN evidence' = EvidenceFiles
    BY <1>1, CopyTells, WriteTells DEF Attach
  <2> QED BY <1>1, <2>1 DEF Attach, Written, FolderInv, change, Taken
<1>2. ASSUME NEW r \in RecordIds, AttachRecord(r)
      PROVE  FolderInv'
  <2>1. PICK record : Written(r, record, evidence)
    BY <1>2 DEF AttachRecord
  <2>2. RecordsTell' /\ DOMAIN evidence' = EvidenceFiles
    <3>1. \A s \in listed \ impostors : evidence[RecordName[s]].kind = "record" =>
            evidence[RecordName[s]] = attached[s]
      BY DEF FolderInv, RecordsTell, Loads
    <3> QED BY <1>2, <2>1, <3>1, WriteTells DEF AttachRecord, FolderInv
  <2> QED BY <1>2, <2>1, <2>2 DEF AttachRecord, Written, FolderInv, change, Taken
<1>3. ASSUME NEW n \in ArtifactNames, NEW a \in Artifacts, AttachRefused(n, a)
      PROVE  FolderInv'
  <2>1. RecordsTell' /\ DOMAIN evidence' = EvidenceFiles
    BY <1>3, CopyTells DEF AttachRefused, RecordsTell, Loads
  <2> QED BY <1>3, <2>1 DEF AttachRefused, FolderInv, change, Taken
<1>4. CASE Create \/ Validate \/ Gate
  <2>1. UNCHANGED folder
    BY <1>4 DEF Create, Validate, Gate
  <2>2. targets' \subseteq Targets /\ status' # "APPLIED"
    BY <1>4 DEF Create, Validate, Gate, FolderInv
  <2> QED BY <2>1, <2>2, QuietTells DEF FolderInv
<1>5. CASE Apply
  <2>1. UNCHANGED <<folder, targets>> /\ snapshot' = Taken(before)'
    BY <1>5 DEF Apply, Taken
  <2> QED BY <2>1, QuietTells DEF FolderInv
<1>6. CASE ApplyEscapes \/ Rollback
  <2>1. UNCHANGED <<folder, targets>> /\ status' # "APPLIED"
    BY <1>6 DEF ApplyEscapes, Rollback
  <2> QED BY <2>1, QuietTells DEF FolderInv
<1>7. CASE HandEdit \/ UNCHANGED vars
  <2>1. UNCHANGED <<folder, status, targets, snapshot, before>>
    BY <1>7 DEF HandEdit, vars, change
  <2> QED BY <2>1, QuietTells DEF FolderInv, Taken
<1> QED BY <1>1, <1>2, <1>3, <1>4, <1>5, <1>6, <1>7 DEF Next

LEMMA FolderAlways == Spec => []FolderInv
<1> QED BY InitFolder, NextFolder, PTL DEF Spec

\* When the gate finds the evidence in order, the records it has judged are those that
\* were attached and lead to their artifacts (attach_evidence, evidence_records and
\* verify_evidence_artifacts of changeset.py), but for an artifact that took the place of
\* a record and is a valid record itself.
THEOREM EvidenceLeadsToArtifacts == Spec => []EvidenceIsAsAttached
<1>1. FolderInv => EvidenceIsAsAttached
  <2> SUFFICES ASSUME FolderInv, EvidenceOK, NEW r \in listed \ impostors
               PROVE  /\ evidence[RecordName[r]] = attached[r]
                      /\ attached[r].artifact # NoArtifact =>
                            evidence[attached[r].artifact] = attached[r].sha256
    BY DEF EvidenceIsAsAttached
  <2>1. Verifies(r) /\ Loads(r)
    BY DEF EvidenceOK, Verifies
  <2>2. evidence[RecordName[r]] = attached[r]
    BY <2>1 DEF FolderInv, RecordsTell
  <2> QED BY <2>1, <2>2 DEF Verifies
<1> QED BY <1>1, FolderAlways, PTL

\* The snapshot of an applied change gives back each of its targets as it was before
\* (_snapshot and _restore of executor.py), whatever it held and however often
\* the application was tried.
THEOREM SnapshotsGiveBack == Spec => []AppliedIsReversible
<1>1. FolderInv => AppliedIsReversible
  <2> SUFFICES ASSUME FolderInv, status = "APPLIED", Manifest \notin targets,
                      NEW t \in targets
               PROVE  Restored(t, snapshot) = before[t]
    BY DEF AppliedIsReversible
  <2>1. snapshot = Taken(before) /\ t \in Targets /\ t # Manifest
    BY DEF FolderInv
  <2>2. snapshot[t] = before[t]
    BY <2>1 DEF Taken
  <2>3. snapshot[Manifest].hashes[t] = before[t]
    BY <2>1 DEF Taken, ManifestOf
  <2> QED BY <2>2, <2>3 DEF Restored
<1> QED BY <1>1, FolderAlways, PTL
=============================================================================
