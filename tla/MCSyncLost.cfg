\* Two clients that hold the same file with different times.
SPECIFICATION Spec
CONSTANTS
    Clients = {c1, c2}
    MaxTime = 3
    MaxEdits = 2
    MaxRestarts = 0
    Summers <- NoSummer
PROPERTIES SendsNewer
CHECK_DEADLOCK FALSE
