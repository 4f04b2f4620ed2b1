SPECIFICATION Spec
CONSTANTS
    Records = {r1}
    None = None
    Reasons = {"withdrawn"}
    MaxAttempts = 2
    MaxMishaps = 0
INVARIANTS DoneMeansErased
CHECK_DEADLOCK FALSE
