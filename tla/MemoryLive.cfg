SPECIFICATION FairSpec
CONSTANTS
    Records = {r1}
    None = None
    Reasons = {"withdrawn", "reopened"}
    MaxAttempts = 1
    MaxMishaps = 1
PROPERTIES RemovalEnds
CHECK_DEADLOCK FALSE
