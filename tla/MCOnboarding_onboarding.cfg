SPECIFICATION Spec
CONSTANTS
    agents = agents
    skill = skill
    LoopDir = LoopDir
    Missing = Missing
    Torn = Torn
    Malformed = Malformed
    Files = {agents, skill}
    AgentsFile = agents
    Policies = {{agents}, {agents, skill}, Malformed}
    PyYAML = TRUE
    UserSettings = TRUE
    MaxKills = 2
INVARIANTS
    
    WiredOnce
PROPERTIES
    GuardHolds
CHECK_DEADLOCK FALSE
