SPECIFICATION Spec
CONSTANTS
    w1 = w1
    w2 = w2
    None = None
    Writers = {w1, w2}
    MaxLines = 5
    MaxMonth = 2
    MaxFaults = 2
SYMMETRY EitherWriter
INVARIANTS
    AcknowledgedIsKept
PROPERTIES
    CommandVouches
    DamageStaysVisible
    DamageIsSeen
CHECK_DEADLOCK FALSE
