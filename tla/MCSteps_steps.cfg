SPECIFICATION FairSpec
CONSTANTS
    c1 = c1
    c2 = c2
    p1 = p1
    agents = agents
    skill = skill
    base = base
    first = first
    second = second
    NoFile = NoFile
    NoPath = NoPath
    NoSnapshot = NoSnapshot
    Mismatch = Mismatch
    Paths = {agents, skill}
    Contents = {base, first, second}
    ChangeSets = {c1, c2}
    Processes = {p1}
    Changes <- CreatingChanges
    InitialFiles <- AgentsOnly
    InitialLevel = 2
    OnRollbacks = 1
    MaxCrashes = 2
INVARIANTS
    AgreeUntilKilled
    KillCostsOneLowering
PROPERTIES
    CrashIsSeen
    RollbackRestores
    StoreUntilKilled
    
CHECK_DEADLOCK FALSE
