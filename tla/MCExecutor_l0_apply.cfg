SPECIFICATION Spec
CONSTANTS
    c1 = c1
    c2 = c2
    c3 = c3
    agents = agents
    skill = skill
    base = base
    first = first
    second = second
    both = both
    binary = binary
    e1 = e1
    NoFile = NoFile
    NoPath = NoPath
    NoRule = NoRule
    NoFolder = NoFolder
    NoSnapshot = NoSnapshot
    NoExt = NoExt
    Mismatch = Mismatch
    Unlisted = Unlisted
    Producers = {"agent", "bob"}
    Paths = {agents, skill}
    Contents = {base, first, second, both}
    Undecodable = {}
    ChangeSets = {c1, c2, c3}
    EvidenceIds = {e1}
    MaxDay = 0
    Environment = {}
    HandEdits = {}
    InitialFiles <- FreshOnly
    Proposals <- QueuedProposals
    Attachable <- IndependentOnly
    Policies <- OnlyDefault
    Actors <- OneReviewer
PROPERTIES
    NothingAppliesAtL0
CHECK_DEADLOCK FALSE
