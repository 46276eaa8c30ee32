\* Sessions that end well and badly, clients that stop asking, descriptors used again.
SPECIFICATION Spec
CONSTANTS
    a = a
    b = b
    c = c
    long = long
    cut = cut
    Names = {a, b}
    Texts = {a, b}
    NoName = NoName
    AsStored <- AsWritten
    AsRecovered <- AsWritten
    Sockets = {s1, s2}
    MaxFiles = 2
    Commands = {"send", "lock"}
    Faults = {"vanish", "giveup"}
INVARIANTS HolderIsFirst MutualExclusion
PROPERTIES ImplementsFileLock WaiterServed
