SPECIFICATION Spec
CONSTANTS
    r1 = r1
    r2 = r2
    r3 = r3
    Request = {r1, r2}
    ReuseInterval = 1
    Lifetime = 3
    MaxAttempts = 3
    MaxSecrets = 4
    MaxTime = 3
SYMMETRY Requests
INVARIANTS EndedStaysEnded ChainIsLinear NeverGivesUp
PROPERTIES NoUseAfterGrace ImplementsAtomicSession
