SPECIFICATION FairSpec
CONSTANTS
    Records = {r1, r2}
    None = None
    Reasons = {}
    MaxAttempts = 1
    MaxMishaps = 0
PROPERTIES LearningJobEnds
CHECK_DEADLOCK FALSE
