SPECIFICATION Spec
CONSTANTS
    c1 = c1
    c2 = c2
    c3 = c3
    agents = agents
    skill = skill
    base = base
    first = first
    second = second
    both = both
    binary = binary
    e1 = e1
    NoFile = NoFile
    NoPath = NoPath
    NoRule = NoRule
    NoFolder = NoFolder
    NoSnapshot = NoSnapshot
    NoExt = NoExt
    Mismatch = Mismatch
    Unlisted = Unlisted
    Producers = {"agent", "bob"}
    Paths = {agents}
    Contents = {base, first, second, both, binary}
    Undecodable = {binary}
    ChangeSets = {c1, c2}
    EvidenceIds = {e1}
    MaxDay = 0
    Environment = {"hand_edit", "io_error", "clobber", "check_raises", "git_missing", "empty_actor",
                   "policy_edit"}
    HandEdits = {binary}
    InitialFiles <- FreshOnly
    Proposals <- DisturbedProposals
    Attachable = {}
    Policies <- DisturbedPolicies
    Actors <- OneReviewer
INVARIANTS
    StatusMatchesJournal
    QueueMatchesStatus
    OnceEach
    SnapshotMatchesJournal
    HeadsAreJournaled
    EditsAreAudited
PROPERTIES
    RollbackRestores
    AnswersAreTrue
CHECK_DEADLOCK FALSE
