\* Two clients open a file whose record is made in between.
SPECIFICATION Safety
CONSTANTS
    a = a
    b = b
    c = c
    long = long
    cut = cut
    Names = {a}
    Texts = {a}
    NoName = NoName
    AsStored <- AsWritten
    AsRecovered <- AsWritten
    Sockets = {s1, s2}
    MaxFiles = 2
    Commands = {"send", "lock"}
    Faults = {}
INVARIANTS NoFalseGrant
