SPECIFICATION FairSpec
CONSTANTS
    w1 = w1
    w2 = w2
    c1 = c1
    c2 = c2
    Absent = Absent
    NoBranch = NoBranch
    NoCache = NoCache
    Nobody = Nobody
    Garbled = Garbled
    NoId = NoId
    Workspaces = {w1, w2}
    ChangeSets = {c1, c2}
    Maker <- OneEach
    SignsAtStart = {w2}
    Requires = {w1}
    Trusts <- TrustOwn
    BranchAtStart = {FALSE, TRUE}
    MaxMeddles = 1
    MaxKills = 1
INVARIANTS
    PulledIsTrusted
    KillStrandsOneFolder
PROPERTIES
    NoShareIsLost
    PromotedReachesPeers
CHECK_DEADLOCK FALSE
