SPECIFICATION Spec
CONSTANTS
    c1 = c1
    c2 = c2
    c3 = c3
    agents = agents
    skill = skill
    base = base
    first = first
    second = second
    both = both
    binary = binary
    e1 = e1
    NoFile = NoFile
    NoPath = NoPath
    NoRule = NoRule
    NoFolder = NoFolder
    NoSnapshot = NoSnapshot
    NoExt = NoExt
    Mismatch = Mismatch
    Unlisted = Unlisted
    Producers = {"agent", "bob"}
    Paths = {agents}
    Contents = {base, first, second, both}
    Undecodable = {}
    ChangeSets = {c1}
    EvidenceIds = {e1}
    MaxDay = 0
    Environment = {}
    HandEdits = {}
    InitialFiles <- FreshOnly
    Proposals <- StaleProposals
    Attachable <- AnyGrader
    Policies <- OnlyDefault
    Actors <- OneReviewer
PROPERTIES
    AutoAppliedIsIndependent
CHECK_DEADLOCK FALSE
