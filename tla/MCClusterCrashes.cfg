\* Settled leaders crash; leaders crash at any moment and closes race; clients
\* log in and log off and settled servers crash.
SPECIFICATION Spec
CONSTANTS
    N = 4
    Clients = {c1, c2}
    MaxSessions = 2
    MaxCrashes = 3
    MaxInbox = 1
    Scenarios <- CrashScenarios
INVARIANTS TypeOK KnowsItself OffsetCountsSettledCrashes LeaderIsFirst HeirLeads
PROPERTIES LeaderReplaced
CHECK_DEADLOCK FALSE
