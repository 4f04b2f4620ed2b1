SPECIFICATION Spec
CONSTANTS
    Records = {r1, r2}
    None = None
    Reasons = {"withdrawn"}
    MaxAttempts = 1
    MaxMishaps = 1
SYMMETRY Symmetry
INVARIANTS TypeOK AtMostOneCopy OneUnconfirmedWrite CopiesAreKnown LearnedIsStored
CHECK_DEADLOCK FALSE
