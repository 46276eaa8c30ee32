\* Two sessions send, delete and list more files than there are records, one
\* with a long name; a session on its own also locks.
SPECIFICATION Safety
CONSTANTS
    a = a
    b = b
    c = c
    long = long
    cut = cut
    Names = {a, b, c, long}
    Texts = {a, b, c, long, cut}
    NoName = NoName
    AsStored <- AsWritten
    AsRecovered <- AsWritten
    Sockets = {s1, s2}
    MaxFiles = 3
    Commands = {"send", "delete", "sync", "lock"}
    Faults = {}
CONSTRAINT OneLocker
INVARIANTS TypeOK Compact OneRecord
PROPERTIES FilesStay RecordsHaveFiles 
