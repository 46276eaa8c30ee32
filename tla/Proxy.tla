-------------------------------- MODULE Proxy --------------------------------
(***************************************************************************)
(* The proxy between one client and the servers of the list                *)
(* (Client/clientProxy.cpp, Client/mainProxy.cpp).  One thread carries     *)
(* what the client says to the server, the other carries the answers back  *)
(* and connects to the next server when the current one is gone.  They     *)
(* share the connection and four flags, and take no lock.                  *)
(*                                                                         *)
(* The servers and the client are seen from the proxy: a server accepts    *)
(* connections while it is up, takes the first message of one for a user   *)
(* name and answers each later one; a client is logged in by its first     *)
(* answer and then sends requests 1, 2, ...                                *)
(***************************************************************************)
EXTENDS Integers, Sequences, FiniteSets

CONSTANTS
    N,           \* how many servers the list has
    Requests,    \* bound of the client's requests
    Window,      \* how many of them the client sends before it hears an answer
    Connections, \* bound of the connections that are not forgotten
    Mortal       \* the servers that may crash

ASSUME ProxyAssumption ==
    /\ N \in Nat \ {0} /\ Requests \in Nat /\ Window \in Nat
    /\ Connections \in Nat \ {0} /\ Mortal \subseteq 1 .. N

Servers == 1 .. N
Ids == 1 .. Connections
\* What is written to a server, and what the client is written, beside the
\* requests and their answers, which are numbers from 1 on.
Name == -1
End == -2
Granted == -3
Refused == -4
Nothing == -5

VARIABLES
    isClientConnected, isServerConnected, error, first_login, \* the flags
    it,        \* the place in the list, N + 1 at its end
    sslServer, \* the connection, 0 before the first
    client,    \* what the client thread is at
    server,    \* what the server thread is at
    told,      \* what the client thread has read
    answer,    \* what the server thread has read
    running,   \* the proxy has not been killed; nothing is said of what is after that
    there,     \* the client is there
    toProxy,   \* what the client has written and the proxy has not read
    sent,      \* how many requests the client has made
    heard,     \* what the client was written
    up,        \* the servers that are up
    accepts,   \* the servers that accept the user
    conns,     \* the connections to servers
    done       \* the requests servers carried out, and for whom

flags == <<isClientConnected, isServerConnected, error, first_login>>
serverThread == <<it, sslServer, server, answer>>
clientThread == <<client, told>>
user == <<there, toProxy, sent>>
cluster == <<up, accepts, done>>
vars == <<flags, serverThread, clientThread, running, user, heard, cluster, conns>>

Free == [server |-> 0, state |-> "free", as |-> 0, toServer |-> <<>>, toProxy |-> <<>>]

(* listenAndAccept has accepted the client and read its name, or has lost  *)
(* it before that.                                                         *)
Init ==
    /\ isClientConnected \in BOOLEAN /\ there = isClientConnected
    /\ isServerConnected = FALSE /\ error = FALSE /\ first_login = TRUE
    /\ it = 1 /\ sslServer = 0
    /\ client = "look" /\ server = "look" /\ told = 0 /\ answer = 0
    /\ running = TRUE
    /\ toProxy = <<>> /\ sent = 0 /\ heard = <<>>
    /\ up = Servers /\ accepts \in SUBSET Servers
    /\ conns = [k \in Ids |-> Free] /\ done = <<>>
-----------------------------------------------------------------------------
(* The client, and the servers.                                            *)

Answers == {i \in DOMAIN heard : heard[i] > 0}

ClientSends ==
    /\ running /\ there /\ heard # <<>> /\ Head(heard) = Granted
    /\ sent < Requests /\ sent - Cardinality(Answers) < Window
    /\ sent' = sent + 1 /\ toProxy' = Append(toProxy, sent + 1)
    /\ UNCHANGED <<flags, serverThread, clientThread, running, there, heard, cluster, conns>>

(* The client logs off, or goes without a word.                            *)
ClientLeaves ==
    /\ running /\ there /\ there' = FALSE
    /\ toProxy' \in {toProxy, Append(toProxy, End)}
    /\ UNCHANGED <<flags, serverThread, clientThread, running, sent, heard, cluster, conns>>

ServerClosed(k) == [conns[k] EXCEPT !.state = "closed", !.toServer = <<>>]
ServerRefused(k) == [ServerClosed(k) EXCEPT !.toProxy = Append(@, Refused)]
ServerSays(k, m) ==
    [conns[k] EXCEPT !.toServer = Tail(@), !.toProxy = Append(@, m)]
\* A connection that is not the proxy's own any more is forgotten when the
\* server has read all of it.
Put(k, c) ==
    conns' = [conns EXCEPT ![k] =
                 IF c.toServer = <<>> /\ k # sslServer THEN Free ELSE c]

(* The first message is the user name, whatever it says.                   *)
ServerLogsIn(k) ==
    /\ running /\ conns[k].state = "name" /\ conns[k].toServer # <<>>
    /\ LET m == Head(conns[k].toServer)
           accepted == m = Name => conns[k].server \in accepts
           said == ServerSays(k, IF accepted THEN Granted ELSE Refused)
       IN  Put(k, IF accepted THEN [said EXCEPT !.state = "in", !.as = m]
                              ELSE [said EXCEPT !.state = "closed", !.toServer = <<>>])
    /\ UNCHANGED <<flags, serverThread, clientThread, running, user, heard, cluster>>

(* Variant of ServerAnswers: what is no command is passed over.            *)
ServerAnswersPatient(k) ==
    /\ running /\ conns[k].state = "in" /\ conns[k].toServer # <<>>
    /\ LET m == Head(conns[k].toServer)
       IN  \/ m > 0 /\ Put(k, ServerSays(k, m))
              /\ done' = Append(done, [request |-> m, as |-> conns[k].as])
           \/ m = End /\ Put(k, ServerClosed(k)) /\ UNCHANGED done
           \/ m = Name /\ Put(k, [conns[k] EXCEPT !.toServer = Tail(@)]) /\ UNCHANGED done
    /\ UNCHANGED <<flags, serverThread, clientThread, running, user, heard, up, accepts>>

(* A later one is a request, or ends the session; one that atoi() makes 0  *)
(* of, as it does of the name, is refused as well.                         *)
ServerAnswers(k) ==
    /\ running /\ conns[k].state = "in" /\ conns[k].toServer # <<>>
    /\ LET m == Head(conns[k].toServer)
       IN  \/ m > 0 /\ Put(k, ServerSays(k, m))
              /\ done' = Append(done, [request |-> m, as |-> conns[k].as])
           \/ m = End /\ Put(k, ServerClosed(k)) /\ UNCHANGED done
           \/ m = Name /\ Put(k, ServerRefused(k)) /\ UNCHANGED done
    /\ UNCHANGED <<flags, serverThread, clientThread, running, user, heard, up, accepts>>

(* A server dies; what it wrote last may not arrive.                       *)
Crash(s) ==
    /\ running /\ s \in up \cap Mortal /\ up' = up \ {s}
    /\ \E arrives \in BOOLEAN :
        conns' = [k \in Ids |->
                    IF conns[k].server # s THEN conns[k]
                    ELSE IF k # sslServer THEN Free
                    ELSE [conns[k] EXCEPT !.state = "dead", !.toServer = <<>>,
                                          !.toProxy = IF arrives THEN @ ELSE <<>>]]
    /\ UNCHANGED <<flags, serverThread, clientThread, running, user, heard, accepts, done>>
-----------------------------------------------------------------------------
(* Writing to the server.                                                  *)

Open == sslServer # 0 /\ conns[sslServer].state \in {"name", "in"}
\* The server thread is between SSL_new and the end of SSL_connect, where it
\* only comes without a connection to use.
Shaking == server = "dial" /\ it \in up /\ ~isServerConnected

Reaches(m) ==
    /\ Open
    /\ conns' = [conns EXCEPT ![sslServer].toServer = Append(@, m)]
    /\ UNCHANGED running
\* A write to a connection the other side has closed may seem to succeed.
Vanishes == ~Open /\ UNCHANGED <<conns, running>>
\* Or it fails, and the signal that goes with it kills the proxy or not.  A
\* write to a connection that is being made, or to none, may do the same.
Fails ==
    /\ ~Open \/ Shaking
    /\ running' \in BOOLEAN /\ UNCHANGED conns

(* Variant of close_serverConnection: the flag is not put down.            *)
closeUnflagged ==
    /\ Reaches(End) \/ Vanishes \/ Fails
    /\ UNCHANGED isServerConnected

(* close_serverConnection says END, whether it arrives or not.             *)
close_serverConnection ==
    /\ Reaches(End) \/ Vanishes \/ Fails
    /\ isServerConnected' = FALSE
-----------------------------------------------------------------------------
(* handle_clientConnection.  Each of its tests of the flags is one step:   *)
(* one of the two flags is only ever set by the other thread, and the      *)
(* other is never set again.                                               *)

ClientLooks ==
    /\ running /\ client = "look"
    /\ \/ isServerConnected /\ isClientConnected /\ client' = "read"
       \/ ~(isServerConnected /\ isClientConnected) /\ error /\ client' = "done"
    /\ UNCHANGED <<flags, serverThread, told, running, user, heard, cluster, conns>>

ClientReads ==
    /\ running /\ client = "read"
    /\ \/ /\ toProxy # <<>> /\ told' = Head(toProxy) /\ toProxy' = Tail(toProxy)
          /\ client' = "write"
       \/ toProxy = <<>> /\ ~there /\ client' = "close" /\ UNCHANGED <<told, toProxy>>
    /\ UNCHANGED <<flags, serverThread, running, there, sent, heard, cluster, conns>>

(* Variant of ClientWrites: what could not be written is written again.    *)
ClientWritesAgain ==
    /\ running /\ client = "write"
    /\ \/ (Reaches(told) \/ Vanishes) /\ client' \in {"look", "write"}
       \/ Fails /\ client' = "drop"
    /\ told' = IF client' = "write" THEN told ELSE 0
    /\ UNCHANGED <<flags, serverThread, user, heard, cluster>>

(* The flags are not looked at again, and a message whose write fails is   *)
(* not kept.                                                               *)
ClientWrites ==
    /\ running /\ client = "write"
    /\ \/ (Reaches(told) \/ Vanishes) /\ client' = "look"
       \/ Fails /\ client' = "drop"
    /\ told' = 0
    /\ UNCHANGED <<flags, serverThread, user, heard, cluster>>

(* The connection closed is the one there is by now.                       *)
ClientDrops ==
    /\ running /\ client = "drop" /\ close_serverConnection /\ client' = "look"
    /\ UNCHANGED <<isClientConnected, error, first_login, serverThread, told, user, heard, cluster>>

ClientCloses ==
    /\ running /\ client = "close" /\ close_serverConnection /\ client' = "leave"
    /\ UNCHANGED <<isClientConnected, error, first_login, serverThread, told, user, heard, cluster>>

(* Variant of ClientEnds: the other thread is not told.                    *)
ClientEndsAlone ==
    /\ running /\ client = "leave" /\ client' = "done"
    /\ isClientConnected' = FALSE
    /\ UNCHANGED <<isServerConnected, error, first_login, serverThread, told, running, user, heard, cluster, conns>>

ClientEnds ==
    /\ running /\ client = "leave" /\ client' = "done"
    /\ isClientConnected' = FALSE /\ error' = TRUE
    /\ UNCHANGED <<isServerConnected, first_login, serverThread, told, running, user, heard, cluster, conns>>
-----------------------------------------------------------------------------
(* handle_serverConnection.                                                *)

ServerLooks ==
    /\ running /\ server = "look"
    /\ \/ isServerConnected /\ isClientConnected /\ server' = "read" /\ UNCHANGED it
       \/ ~isServerConnected /\ isClientConnected /\ it' = 1 /\ server' = "dial"
       \/ ~isClientConnected /\ error /\ server' = "done" /\ UNCHANGED it
    /\ UNCHANGED <<flags, sslServer, answer, clientThread, running, user, heard, cluster, conns>>

Says == conns[sslServer].toProxy
Ends == Says = <<>> /\ conns[sslServer].state \in {"closed", "dead"}
Takes ==
    /\ Says # <<>> /\ answer' = Head(Says)
    /\ conns' = [conns EXCEPT ![sslServer].toProxy = Tail(@)]

ServerReads ==
    /\ running /\ server = "read"
    /\ \/ Takes /\ server' = "forward"
       \/ Ends /\ server' = "close" /\ UNCHANGED <<answer, conns>>
    /\ UNCHANGED <<flags, it, sslServer, clientThread, running, user, heard, cluster>>

\* A write to the client; it may seem to succeed when the client has gone.
Hears == heard' = IF there THEN Append(heard, answer) ELSE heard

ServerForwards ==
    /\ running /\ server = "forward"
    /\ \/ Hears /\ server' = "look" /\ UNCHANGED running
       \/ ~there /\ server' = "leave" /\ running' \in BOOLEAN /\ UNCHANGED heard
    /\ answer' = 0
    /\ UNCHANGED <<flags, it, sslServer, clientThread, user, cluster, conns>>

ServerCloses ==
    /\ running /\ server = "close" /\ close_serverConnection /\ server' = "look"
    /\ UNCHANGED <<isClientConnected, error, first_login, it, sslServer, answer, clientThread, user, heard, cluster>>

(* Variant of increment_currentServer: connect_server has stepped on too.  *)
stepTwice == it' = it + 2 /\ server' = "dial"

increment_currentServer == it' = it + 1 /\ server' = "dial"

\* A new connection; the one before is forgotten unless it has more to read.
Dials ==
    \E k \in Ids :
        /\ conns[k] = Free /\ \A j \in Ids : conns[j] = Free => k <= j
        /\ sslServer' = k
        /\ conns' = [j \in Ids |->
              IF j = k THEN [Free EXCEPT !.server = it, !.state = "name"]
              ELSE IF conns[j].toServer = <<>> THEN Free ELSE conns[j]]

(* The head of the loop over the list, and connect_server up to the end of *)
(* the handshake; a server that is not there leaves the last connection.   *)
(* The end of the list is the end, whether the last server took the login  *)
(* or not.                                                                 *)
ServerDials ==
    /\ running /\ server = "dial"
    /\ \/ it = N + 1 /\ server' = "leave" /\ UNCHANGED <<it, sslServer, conns>>
       \/ it <= N /\ isServerConnected /\ server' = "look" /\ UNCHANGED <<it, sslServer, conns>>
       \/ it <= N /\ ~isServerConnected /\ it \notin up
            /\ increment_currentServer /\ UNCHANGED <<sslServer, conns>>
       \/ it \in up /\ ~isServerConnected /\ Dials /\ server' = "name" /\ UNCHANGED it
    /\ UNCHANGED <<flags, answer, clientThread, running, user, heard, cluster>>

(* connect_server sends the name it got from the client.                   *)
ServerNames ==
    /\ running /\ server = "name"
    /\ \/ (Reaches(Name) \/ Vanishes) /\ server' = "login" /\ UNCHANGED it
       \/ Fails /\ increment_currentServer
    /\ UNCHANGED <<flags, sslServer, answer, clientThread, user, heard, cluster>>

(* Variant of ServerHears: a login that fails ends the search.             *)
ServerHearsOnce ==
    /\ running /\ server = "login"
    /\ \/ Takes /\ server' = "tell"
       \/ Ends /\ answer' = Nothing /\ server' = "tell" /\ UNCHANGED conns
       \/ Ends /\ server' = "leave" /\ UNCHANGED <<answer, conns>>
    /\ UNCHANGED <<flags, it, sslServer, clientThread, running, user, heard, cluster>>

(* It reads the answer, an empty one or an error when the connection ends. *)
ServerHears ==
    /\ running /\ server = "login"
    /\ \/ Takes /\ server' = "tell" /\ UNCHANGED it
       \/ Ends /\ answer' = Nothing /\ server' = "tell" /\ UNCHANGED <<it, conns>>
       \/ Ends /\ increment_currentServer /\ UNCHANGED <<answer, conns>>
    /\ UNCHANGED <<flags, sslServer, clientThread, running, user, heard, cluster>>

(* Variant of ServerTells: the client is told of every login.              *)
ServerTellsAll ==
    /\ running /\ server = "tell"
    /\ \/ Hears /\ server' = "logged" /\ UNCHANGED <<it, running>>
       \/ ~there /\ increment_currentServer /\ running' \in BOOLEAN /\ UNCHANGED heard
    /\ UNCHANGED <<flags, sslServer, answer, clientThread, user, cluster, conns>>

(* The first answer of a server, whatever it is, is passed to the client.  *)
ServerTells ==
    /\ running /\ server = "tell"
    /\ \/ ~first_login /\ server' = "logged" /\ UNCHANGED <<it, heard, first_login, running>>
       \/ first_login /\ Hears /\ first_login' = FALSE /\ server' = "logged"
            /\ UNCHANGED <<it, running>>
       \/ first_login /\ ~there /\ increment_currentServer /\ running' \in BOOLEAN
            /\ UNCHANGED <<heard, first_login>>
    /\ UNCHANGED <<isClientConnected, isServerConnected, error, sslServer, answer, clientThread, user, cluster, conns>>

(* Variant of ServerLogged: an answer is as good as another.               *)
ServerLoggedAnyhow ==
    /\ running /\ server = "logged" /\ increment_currentServer
    /\ isServerConnected' = TRUE
    /\ UNCHANGED <<isClientConnected, error, first_login, sslServer, answer, clientThread, running, user, heard, cluster, conns>>

ServerLogged ==
    /\ running /\ server = "logged" /\ increment_currentServer
    /\ isServerConnected' = (answer = Granted \/ isServerConnected)
    /\ answer' = 0
    /\ UNCHANGED <<isClientConnected, error, first_login, sslServer, clientThread, running, user, heard, cluster, conns>>

ServerLeaves ==
    /\ running /\ server = "leave" /\ close_serverConnection /\ server' = "done"
    /\ isClientConnected' = FALSE /\ error' = TRUE
    /\ UNCHANGED <<first_login, it, sslServer, answer, clientThread, user, heard, cluster>>
-----------------------------------------------------------------------------
ClientThread ==
    \/ ClientLooks \/ ClientReads \/ ClientWrites \/ ClientDrops \/ ClientCloses \/ ClientEnds
ServerThread ==
    \/ ServerLooks \/ ServerReads \/ ServerForwards \/ ServerCloses \/ ServerDials
    \/ ServerNames \/ ServerHears \/ ServerTells \/ ServerLogged \/ ServerLeaves
Serves(k) == ServerLogsIn(k) \/ ServerAnswers(k)

Next ==
    \/ ClientSends \/ ClientLeaves \/ ClientThread \/ ServerThread
    \/ \E k \in Ids : Serves(k)
    \/ \E s \in Servers : Crash(s)

(* The threads run, and so do the servers.                                 *)
Fairness == WF_vars(ClientThread) /\ WF_vars(ServerThread) /\ \A k \in Ids : WF_vars(Serves(k))

Safety == Init /\ [][Next]_vars
Spec == Safety /\ Fairness
-----------------------------------------------------------------------------
Messages == (-5 .. -1) \cup (1 .. Requests)
Conn == [server : 0 .. N, state : {"free", "name", "in", "closed", "dead"},
         as : Messages \cup {0}, toServer : Seq(Messages), toProxy : Seq(Messages)]

(* The variables keep their types.                                         *)
TypeOK ==
    /\ flags \in BOOLEAN \X BOOLEAN \X BOOLEAN \X BOOLEAN
    /\ it \in 1 .. N + 1 /\ sslServer \in 0 .. Connections
    /\ client \in {"look", "read", "write", "drop", "close", "leave", "done"}
    /\ server \in {"look", "read", "forward", "close", "dial", "name", "login",
                   "tell", "logged", "leave", "done"}
    /\ told \in Messages \cup {0} /\ answer \in Messages \cup {0}
    /\ running \in BOOLEAN /\ there \in BOOLEAN
    /\ toProxy \in Seq(Messages) /\ sent \in 0 .. Requests /\ heard \in Seq(Messages)
    /\ up \subseteq Servers /\ accepts \subseteq Servers
    /\ done \in Seq([request : 1 .. Requests, as : Messages])
    /\ conns \in [Ids -> Conn]

(* What the proxy takes for its connection has been logged in to: the two  *)
(* threads may close it under each other, but none takes a connection that *)
(* is not logged in, or was refused, for one to use.                       *)
ConnectedIsLoggedIn ==
    isServerConnected => sslServer # 0 /\ conns[sslServer].as # 0

(* Whatever is lost on the way, requests are carried out in the order the  *)
(* client made them, and none twice.                                       *)
CarriedOutInOrder ==
    \A i, j \in DOMAIN done : i < j => done[i].request < done[j].request

(* A request written while the other thread is connecting may be the first *)
(* message of the connection, and is taken for the name of a user.  No     *)
(* request is carried out for that user.                                   *)
CarriedOutForTheUser == \A i \in DOMAIN done : done[i].as = Name

(* The client hears of one login, first of all, and then of its requests   *)
(* in order, each once it is carried out, and of nothing else but a        *)
(* session that the name of the user has ended.                            *)
HearsInOrder ==
    /\ heard # <<>> => heard[1] \in {Granted, Refused, Nothing}
    /\ \A i \in 2 .. Len(heard) :
          heard[i] = Refused \/ \E d \in DOMAIN done : done[d].request = heard[i]
    /\ \A i, j \in Answers : i < j => heard[i] < heard[j]

\* The client waits for nothing.
Satisfied == sent = Cardinality(Answers)

(* The proxy gives a client that is there and waits for nothing up only    *)
(* when no server of the list but the last could be logged in to.  (A      *)
(* request under way may close the connection that is just being made.)    *)
GivesUpAtTheEnd ==
    [][server # "leave" /\ server' = "leave" /\ there /\ Satisfied =>
         \A s \in up \ {N} : s \notin accepts]_vars

(* When the client goes both threads end, if nothing has killed the proxy; *)
(* but for the server thread that found the server closed and the client   *)
(* not yet, and is left reading from a session that nobody uses.           *)
EndsWithTheClient ==
    (isClientConnected /\ ~there) ~>
        \/ ~running
        \/ client = "done" /\ (server = "done" \/ (server = "read" /\ conns[sslServer].state = "in"))

(* A proxy whose client stays comes to be connected again, as long as a    *)
(* server before the last one stays up and accepts the user, unless it was *)
(* given up with a request under way.                                      *)
Reconnects ==
    \A s \in Servers \ {N} :
        (s \in accepts /\ isClientConnected /\ []<>(s \in up /\ there /\ running))
            => []<>(\/ isServerConnected /\ conns[sslServer].state = "in"
                    \/ (error /\ ~Satisfied))
=============================================================================
