SPECIFICATION Spec
CONSTANTS
    t1 = t1
    manifest = manifest
    r1 = r1
    r2 = r2
    log = log
    r1json = r1json
    r2json = r2json
    x = x
    y = y
    Targets = {t1, manifest}
    Manifest = manifest
    RecordIds = {r1, r2}
    ArtifactNames = {log, r1json}
    RecordName <- TheRecordNames
    Data = {x}
    NoArtifact = NoArtifact
    Contents = {x}
INVARIANTS
    EvidenceIsAsAttached
    AppliedIsReversible
CHECK_DEADLOCK FALSE
