SPECIFICATION Spec
CONSTANTS
    Kinds <- MCKinds
    Share <- MCShare
    MaxInputs = 3
    MaxCycles = 2
    MaxLifecycle = 2
    MaxReplies = 1
    Policies = 2
    MaxBuffered = 2
    MaxAttempts = 2
    MaxRare = 2
INVARIANTS TypeOK OneOpenTicket OpenMeansConsent CountsOnlyCurrent RatingInTime ErasedIsEmpty
PROPERTIES AnswersItsQuestion ClosedInSilence ClosedAsOrdered
CHECK_DEADLOCK FALSE
