\* The user reconnects until the slots that logouts left taken run out.
SPECIFICATION Safety
CONSTANTS
    Users = {ana}
    NoUser = NoUser
    Sockets = {4, 5, 6}
    MaxConnections = 2
    MaxAttempts = 2
    StackWords = {}
PROPERTIES RefusedOnlyAtLimit
