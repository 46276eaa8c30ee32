------------------------------ MODULE Sessions ------------------------------
(***************************************************************************)
(* The sessions of one server process: what Server/dropboxServer.cpp does  *)
(* with a connection from accept() to close(), and the table of device     *)
(* slots that limits how many sessions a user may hold at once.            *)
(*                                                                         *)
(* One thread (handleConnectionThread) serves each accepted descriptor.    *)
(* The threads share _clients under _clientStructMutex; every critical     *)
(* section is one action.  What the handlers do to the files and to the    *)
(* lock queues of a user is in FileTable, the election that closing a      *)
(* connection starts is in Cluster.                                        *)
(***************************************************************************)
EXTENDS Integers, FiniteSets

CONSTANTS
    Users,           \* user names, all shorter than MAXNAME
    NoUser,          \* the thread has not read a user name yet
    Sockets,         \* descriptors accept() may return
    MaxConnections,  \* MAXCONNECTIONS, 5 in the code
    MaxAttempts,     \* maxAtempts, 5 in the code
    StackWords       \* values an uninitialised int of recoverData may hold

ASSUME NoUserAssumption == NoUser \notin Users
ASSUME SocketsAssumption == IsFiniteSet(Sockets) /\ Sockets \subseteq Nat \ {0}
ASSUME MaxConnectionsAssumption == MaxConnections \in Nat /\ MaxConnections >= 2
ASSUME MaxAttemptsAssumption == MaxAttempts \in Nat \ {0}
ASSUME StackWordsAssumption == StackWords \subseteq Int

VARIABLES
    known,     \* users with an entry in _clients
    devices,   \* devices[u]: the slots of u's entry, <= 0 when free
    synced,    \* users with a sync_dir on disk
    conn,      \* where the thread of a descriptor is
    user,      \* the user a thread works for
    attempts,  \* numberOfAtempts of a thread
    peer       \* the other end: up, gone (reads give 0) or broken (reads fail)

vars == <<known, devices, synced, conn, user, attempts, peer>>

Slots == 0 .. MaxConnections - 1
Free == -1

(* closed: not a descriptor.  login: waits for the user name.  granted and *)
(* refused: logInClient has answered, the reply is not sent.  serving: in  *)
(* the command loop.  closing: about to call closeConnection.  abandoned:  *)
(* the thread has returned and the descriptor is still open.               *)
ConnStates == {"closed", "login", "granted", "refused", "serving", "closing", "abandoned"}

UsedSlots(u) == {j \in Slots : devices[u][j] > 0}
Live(u) == {s \in Sockets : user[s] = u /\ conn[s] \in {"granted", "serving"}}
-----------------------------------------------------------------------------
(* recoverData: every sync_dir becomes an entry.  Only devices[0] and      *)
(* devices[1] are set; the others keep what the stack held, the same for   *)
(* every entry because one buffer is pushed for all of them.               *)
RecoveredDevices(dirs, garbage) ==
    [u \in Users |-> [j \in Slots |->
        IF u \in dirs /\ j > 1 THEN garbage[j] ELSE Free]]

Recovered(dirs) ==
    \E garbage \in [Slots -> StackWords \cup {Free}] :
        /\ known' = dirs
        /\ devices' = RecoveredDevices(dirs, garbage)

Init ==
    /\ synced \in SUBSET Users
    /\ known = synced
    /\ \E garbage \in [Slots -> StackWords \cup {Free}] :
          devices = RecoveredDevices(synced, garbage)
    /\ conn = [s \in Sockets |-> "closed"]
    /\ user = [s \in Sockets |-> NoUser]
    /\ attempts = [s \in Sockets |-> 0]
    /\ peer = [s \in Sockets |-> "up"]

(* The process dies and is started again: no session survives.             *)
Restart ==
    /\ Recovered(synced)
    /\ conn' = [s \in Sockets |-> "closed"]
    /\ user' = [s \in Sockets |-> NoUser]
    /\ attempts' = [s \in Sockets |-> 0]
    /\ peer' = [s \in Sockets |-> "up"]
    /\ UNCHANGED synced
-----------------------------------------------------------------------------
Goto(s, state) == conn' = [conn EXCEPT ![s] = state]

(* listenAndAccept and handleConnection: any descriptor not in use may be  *)
(* handed out, one that served an earlier session included.                *)
Accept(s) ==
    /\ conn[s] = "closed"
    /\ Goto(s, "login")
    /\ peer' = [peer EXCEPT ![s] = "up"]
    /\ UNCHANGED <<known, devices, synced, user, attempts>>

(* The client exits, or the connection to it breaks.                       *)
PeerDies(s) ==
    /\ conn[s] \in {"login", "granted", "refused", "serving"}
    /\ peer[s] = "up"
    /\ \E how \in {"gone", "broken"} : peer' = [peer EXCEPT ![s] = how]
    /\ UNCHANGED <<known, devices, synced, conn, user, attempts>>

(* Reading the user name fails: the connection is closed.                  *)
UserIdFails(s) ==
    /\ conn[s] = "login"
    /\ Goto(s, "closing")
    /\ UNCHANGED <<known, devices, synced, user, attempts, peer>>

(* Variant of LogInNewUser: the new entry is not pushed.                   *)
LogInNewUserUnpushed(s, u) ==
    /\ conn[s] = "login" /\ peer[s] = "up" /\ u \notin known
    /\ user' = [user EXCEPT ![s] = u]
    /\ Goto(s, "granted")
    /\ UNCHANGED <<known, devices, synced, attempts, peer>>

(* logInClient for a user with no entry: a new one, the session in slot 0. *)
LogInNewUser(s, u) ==
    /\ conn[s] = "login" /\ peer[s] = "up" /\ u \notin known
    /\ known' = known \cup {u}
    /\ devices' = [devices EXCEPT ![u] = [j \in Slots |-> IF j = 0 THEN s ELSE Free]]
    /\ user' = [user EXCEPT ![s] = u]
    /\ Goto(s, "granted")
    /\ UNCHANGED <<synced, attempts, peer>>

(* Variant of LogInOldUser: the slot is not looked at before it is taken.  *)
LogInOldUserUnchecked(s, u) ==
    /\ conn[s] = "login" /\ peer[s] = "up" /\ u \in known
    /\ \E j \in Slots : devices' = [devices EXCEPT ![u][j] = s]
    /\ user' = [user EXCEPT ![s] = u]
    /\ Goto(s, "granted")
    /\ UNCHANGED <<known, synced, attempts, peer>>

(* logInClient for a user with an entry: the first free slot.              *)
LogInOldUser(s, u) ==
    /\ conn[s] = "login" /\ peer[s] = "up" /\ u \in known
    /\ \E j \in Slots \ UsedSlots(u) :
          /\ \A i \in Slots : i < j => i \in UsedSlots(u)
          /\ devices' = [devices EXCEPT ![u][j] = s]
    /\ user' = [user EXCEPT ![s] = u]
    /\ Goto(s, "granted")
    /\ UNCHANGED <<known, synced, attempts, peer>>

(* logInClient when no slot is free.                                       *)
RefuseLogIn(s, u) ==
    /\ conn[s] = "login" /\ peer[s] = "up" /\ u \in known
    /\ UsedSlots(u) = Slots
    /\ user' = [user EXCEPT ![s] = u]
    /\ Goto(s, "refused")
    /\ UNCHANGED <<known, devices, synced, attempts, peer>>

(* The reply to the login is sent: the command loop or closeConnection.    *)
ReplyLogin(s) ==
    /\ \/ conn[s] = "granted" /\ Goto(s, "serving")
       \/ conn[s] = "refused" /\ Goto(s, "closing")
    /\ UNCHANGED <<known, devices, synced, user, attempts, peer>>

(* The reply cannot be sent: the thread returns without closing anything.  *)
ReplyFails(s) ==
    /\ conn[s] \in {"granted", "refused"} /\ peer[s] # "up"
    /\ Goto(s, "abandoned")
    /\ UNCHANGED <<known, devices, synced, user, attempts, peer>>

(* A command is read and served; sync_server is the one that creates the   *)
(* directory recoverData looks for.                                        *)
Command(s) ==
    /\ conn[s] = "serving" /\ peer[s] = "up"
    /\ attempts' = [attempts EXCEPT ![s] = 0]
    /\ synced' \in {synced, synced \cup {user[s]}}
    /\ UNCHANGED <<known, devices, conn, user, peer>>

(* Variant of LogOutClient: every slot of the entry is cleared.            *)
LogOutClientEverywhere(s) ==
    devices' = [devices EXCEPT ![user[s]] = [j \in Slots |-> Free]]

(* logOutClient: the slot that holds the descriptor is looked for, and     *)
(* slot 0 is the one that is cleared.                                      *)
LogOutClient(s) ==
    devices' = [devices EXCEPT ![user[s]][0] =
                   IF \E j \in Slots : devices[user[s]][j] = s THEN Free ELSE @]

(* END_CONNECTION, or a read that returns 0: log out, then close.          *)
EndOfSession(s) ==
    /\ conn[s] = "serving" /\ peer[s] # "broken"
    /\ LogOutClient(s)
    /\ Goto(s, "closing")
    /\ UNCHANGED <<known, synced, user, attempts, peer>>

(* Variant of ReadError: one attempt more than maxAtempts.                 *)
ReadErrorOnceMore(s) ==
    /\ conn[s] = "serving" /\ peer[s] # "gone"
    /\ attempts' = [attempts EXCEPT ![s] = @ + 1]
    /\ IF attempts'[s] > MaxAttempts
       THEN LogOutClient(s) /\ Goto(s, "closing")
       ELSE UNCHANGED <<devices, conn>>
    /\ UNCHANGED <<known, synced, user, peer>>

(* Variant of ReadError: the count starts again on every turn of the loop. *)
ReadErrorForgetful(s) ==
    /\ conn[s] = "serving" /\ peer[s] # "gone"
    /\ attempts' = [attempts EXCEPT ![s] = 1]
    /\ IF attempts'[s] >= MaxAttempts
       THEN LogOutClient(s) /\ Goto(s, "closing")
       ELSE UNCHANGED <<devices, conn>>
    /\ UNCHANGED <<known, synced, user, peer>>

(* A read error: the thread tries again, and gives up at maxAtempts.       *)
ReadError(s) ==
    /\ conn[s] = "serving" /\ peer[s] # "gone"
    /\ attempts' = [attempts EXCEPT ![s] = @ + 1]
    /\ IF attempts'[s] >= MaxAttempts
       THEN LogOutClient(s) /\ Goto(s, "closing")
       ELSE UNCHANGED <<devices, conn>>
    /\ UNCHANGED <<known, synced, user, peer>>

(* A message atoi() makes 0 of: LOGIN_FAILED is sent and the connection    *)
(* closed, with no call to logOutClient; or the reply cannot be sent.      *)
Unparsable(s) ==
    /\ conn[s] = "serving" /\ peer[s] = "up"
    /\ \/ Goto(s, "closing") /\ UNCHANGED peer
       \/ Goto(s, "abandoned") /\ peer' = [peer EXCEPT ![s] = "gone"]
    /\ attempts' = [attempts EXCEPT ![s] = 0]
    /\ UNCHANGED <<known, devices, synced, user>>

(* closeConnection: from here on accept() may return the descriptor again. *)
Close(s) ==
    /\ conn[s] = "closing"
    /\ Goto(s, "closed")
    /\ user' = [user EXCEPT ![s] = NoUser]
    /\ attempts' = [attempts EXCEPT ![s] = 0]
    /\ peer' = [peer EXCEPT ![s] = "up"]
    /\ UNCHANGED <<known, devices, synced>>
-----------------------------------------------------------------------------
(* What a thread does when its peer is gone and nothing is left to read.   *)
Drain(s) == peer[s] # "up" /\ (UserIdFails(s) \/ EndOfSession(s) \/ ReadError(s))

LogIn(s) == \E u \in Users : LogInNewUser(s, u) \/ LogInOldUser(s, u) \/ RefuseLogIn(s, u)

Thread(s) ==
    \/ LogIn(s) \/ UserIdFails(s) \/ ReplyLogin(s) \/ ReplyFails(s)
    \/ Command(s) \/ EndOfSession(s) \/ ReadError(s) \/ Unparsable(s) \/ Close(s)

Next ==
    \/ \E s \in Sockets : Accept(s) \/ PeerDies(s) \/ Thread(s)
    \/ Restart

(* A thread whose read has failed runs on, and so does one that has begun  *)
(* to close.  Nothing is assumed of the clients.                           *)
Fairness == \A s \in Sockets : WF_vars(Drain(s)) /\ WF_vars(Close(s))

Safety == Init /\ [][Next]_vars
Spec == Safety /\ Fairness
-----------------------------------------------------------------------------
(* The variables keep their types.                                         *)
TypeOK ==
    /\ known \subseteq Users
    /\ devices \in [Users -> [Slots -> Int]]
    /\ synced \subseteq Users
    /\ conn \in [Sockets -> ConnStates]
    /\ user \in [Sockets -> Users \cup {NoUser}]
    /\ attempts \in [Sockets -> 0 .. MaxAttempts]
    /\ peer \in [Sockets -> {"up", "gone", "broken"}]

(* The entry of a session's user exists for as long as the session: the    *)
(* _clients.at(findUserIndex(...)) of logOutClient never throws, although  *)
(* nothing there tests the index.                                          *)
UserEntryExists ==
    \A s \in Sockets : conn[s] \in {"granted", "serving"} => user[s] \in known

(* A user never has more live sessions than used slots, in spite of        *)
(* logOutClient clearing slot 0 whoever is in it: each logout frees one    *)
(* slot at the most, so a slot lost to a wrong logout is made up for by    *)
(* one that stays taken.                                                   *)
SlotAccounting == \A u \in Users : Cardinality(Live(u)) <= Cardinality(UsedSlots(u))

(* The promise of logInClient: no user ever has more than MaxConnections   *)
(* sessions at once.                                                       *)
ConnectionLimit == \A u \in Users : Cardinality(Live(u)) <= MaxConnections

(* A thread whose client has gone away while it was waiting for a message  *)
(* gives its descriptor back.                                              *)
DeadPeerClosed ==
    \A s \in Sockets :
        (peer[s] # "up" /\ conn[s] \in {"login", "serving"}) ~> (conn[s] = "closed")

(* A login is refused only to a user who has MaxConnections sessions, as   *)
(* logInClient's comment and its message say.                              *)
RefusedOnlyAtLimit ==
    [][\A s \in Sockets : (conn[s] = "login" /\ conn'[s] = "refused")
           => Cardinality(Live(user'[s])) >= MaxConnections]_vars
=============================================================================
