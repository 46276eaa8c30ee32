\* Three servers, of which two crash at any moment, and a client with two
\* requests that may be under way at once.
SPECIFICATION Spec
CONSTANTS
    N = 3
    Requests = 2
    Window = 2
    Connections = 3
    Mortal <- AllButLast
INVARIANTS TypeOK ConnectedIsLoggedIn CarriedOutInOrder CarriedOutForTheUser HearsInOrder
CHECK_DEADLOCK FALSE
PROPERTIES GivesUpAtTheEnd  
