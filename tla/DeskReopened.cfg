SPECIFICATION IncidentsSpec
CONSTANTS
    Classes = {"low", "none"}
    Targets <- MCTargets
    Calendars <- MCCalendars
    DayLength = 4
    SearchDays = 10
    MaxTime = 8
    Queued = {1, 2}
    Employees = {"e1", "e2"}
    Teams = {"a"}
    AutoAssign = {"a"}
    SelfTake = {}
    AtWork = {"e1"}
    Capacity = 1
    OfferBatch = 2
    Incidents = {"i"}
    Affected = {t1}
    TellBatch = 2
    PerRun = 2
    MinTickets = 1
    MaxUpdates = 2
    Runs = {1, 2}
    Chunks <- MCChunks
    MaxClaims = 3
    MaxRetries = 2
    Processes = {"p1", "p2"}
    MaxTurns <- MCIncidentTurns
PROPERTIES ReopenedAfterClosing
CHECK_DEADLOCK FALSE
