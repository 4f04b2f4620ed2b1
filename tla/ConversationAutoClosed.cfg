SPECIFICATION Spec
CONSTANTS
    Kinds <- MCKinds
    Share <- MCShare
    MaxInputs = 1
    MaxCycles = 1
    MaxLifecycle = 1
    MaxReplies = 1
    Policies = 1
    MaxBuffered = 1
    MaxAttempts = 1
    MaxRare = 1
PROPERTY AutoClosedIsTold
CHECK_DEADLOCK FALSE
