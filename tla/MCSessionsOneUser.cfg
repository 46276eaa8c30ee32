\* One user, one session more than she has slots.
SPECIFICATION Spec
CONSTANTS
    Users = {ana}
    NoUser = NoUser
    Sockets = {4, 5, 6}
    MaxConnections = 2
    MaxAttempts = 2
    StackWords = {}
INVARIANTS TypeOK UserEntryExists SlotAccounting ConnectionLimit
PROPERTIES DeadPeerClosed
