\* A client logs off.
SPECIFICATION Safety
CONSTANTS
    N = 3
    Clients = {c1}
    MaxSessions = 2
    MaxCrashes = 1
    MaxInbox = 1
    Scenarios <- LogoffScenarios
INVARIANTS OffsetCountsCrashes
CHECK_DEADLOCK FALSE
