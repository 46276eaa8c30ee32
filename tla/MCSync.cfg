\* One client or two, with edits at any moment and restarts of the server.
SPECIFICATION Spec
CONSTANTS
    Clients = {c1, c2}
    MaxTime = 3
    MaxEdits = 2
    MaxRestarts = 1
    Summers <- AnyZone
INVARIANTS TypeOK NothingToFetch EqualTimesEqualFiles
PROPERTIES Settles
CHECK_DEADLOCK FALSE
