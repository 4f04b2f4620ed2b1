SPECIFICATION FairSpec
CONSTANTS
    Jobs = {j}
    Steps = {s1, s2}
    None = None
    Slots <- MCSlots
    Caps <- MCCaps
    MaxRuns = 2
    MaxTaken = 2
INVARIANTS TypeOK WithinCap OneDispatch PermitsAccounted
PROPERTIES ImplementsCalls PermitComesBack
CHECK_DEADLOCK FALSE
