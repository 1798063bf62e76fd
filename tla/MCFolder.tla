------------------------------ MODULE MCFolder ------------------------------
(***************************************************************************)
(* Small instances of a ChangeSet folder for TLC: two records, an artifact *)
(* of a plain name and one named like a record.                            *)
(***************************************************************************)
EXTENDS ChangeSetFolder

CONSTANTS t1, manifest, r1, r2, log, r1json, r2json, x, y

TheRecordNames == [r \in RecordIds |-> IF r = r1 THEN r1json ELSE r2json]
=============================================================================
