----------------------------- MODULE ProxyProofs ------------------------------
(***************************************************************************)
(* Proofs about Proxy, for any list of servers and any number of requests. *)
(* The client's thread writes to whatever connection there is, so a        *)
(* request may come before the name.  What saves the user is that it can   *)
(* be only one, and that the name is then the message after it, which ends *)
(* the session: the inductive invariant says where the name is.            *)
(***************************************************************************)
EXTENDS Proxy, SequenceTheorems, FiniteSetTheorems, TLAPS

(* What holds of a connection at any time.                                 *)
Sound(c) ==
    /\ c.state = "in" => c.as # 0
    /\ \A i \in DOMAIN c.toProxy : c.toProxy[i] = Granted => c.as # 0
    /\ c.state \in {"free", "closed", "dead"} => c.toServer = <<>>

(* The name has been written: it is the first message, or the second, and  *)
(* a session of somebody else has it to read next.                         *)
Introduced(c) ==
    /\ c.state = "in" /\ c.as # Name => c.toServer # <<>> /\ Head(c.toServer) = Name
    /\ c.state = "name" =>
         /\ c.toServer # <<>>
         /\ Head(c.toServer) = Name \/ (Tail(c.toServer) # <<>> /\ Head(Tail(c.toServer)) = Name)

(* The name has not been written, and one message at most has.             *)
Introducing(c) ==
    /\ c.state = "in" => c.toServer = <<>>
    /\ c.state = "name" => c.toServer = <<>> \/ Tail(c.toServer) = <<>>
Fresh(c) == c.state = "dead" \/ (c.state = "name" /\ c.toServer = <<>>)

Naming(k) == server = "name" /\ sslServer = k
NameWritten ==
    \A k \in Ids :
        /\ Naming(k) => /\ Introducing(conns[k])
                        /\ Fresh(conns[k]) \/ client \in {"look", "leave", "done"}
        /\ ~Naming(k) => Introduced(conns[k])

Threads ==
    /\ client = "write" => told # 0
    /\ server \in {"forward", "tell", "logged"} => answer # 0
    /\ server \in {"read", "forward", "close", "name", "login", "tell", "logged"} => sslServer # 0
    /\ server \in {"name", "login", "tell", "logged"} => ~isServerConnected /\ it # N + 1
    /\ server \in {"tell", "logged"} /\ answer = Granted => conns[sslServer].as # 0
AllSound == \A k \in Ids : Sound(conns[k])

IInv ==
    /\ TypeOK /\ Threads /\ AllSound /\ NameWritten
    /\ ConnectedIsLoggedIn /\ CarriedOutForTheUser

-----------------------------------------------------------------------------
(* Sequences that are written to and read from.                            *)
LEMMA Written ==
    ASSUME NEW S, NEW s \in Seq(S), NEW m \in S
    PROVE  /\ Append(s, m) \in Seq(S) /\ Append(s, m) # <<>>
           /\ s # <<>> => Head(Append(s, m)) = Head(s) /\ Tail(Append(s, m)) = Append(Tail(s), m)
           /\ s = <<>> => Head(Append(s, m)) = m /\ Tail(Append(s, m)) = <<>>
  BY SMT

LEMMA Read ==
    ASSUME NEW S, NEW s \in Seq(S), s # <<>>
    PROVE  /\ Head(s) \in S /\ Tail(s) \in Seq(S)
           /\ \E i \in DOMAIN s : s[i] = Head(s)
           /\ \A i \in DOMAIN Tail(s) : \E j \in DOMAIN s : Tail(s)[i] = s[j]
  BY SMT

(* A message more, a message less.                                         *)
LEMMA WriteTo ==
    ASSUME NEW c \in Conn, NEW m \in Messages, c.state \in {"name", "in"}, Sound(c)
    PROVE  LET d == [c EXCEPT !.toServer = Append(@, m)]
           IN  /\ d \in Conn /\ Sound(d) /\ d.as = c.as /\ ~Fresh(d)
               /\ Introduced(c) => Introduced(d)
               /\ Introducing(c) /\ m = Name => Introduced(d)
               /\ Fresh(c) => Introducing(d)
<1> DEFINE d == [c EXCEPT !.toServer = Append(@, m)]
<1>1. c.toServer \in Seq(Messages)
  BY DEF Conn
<1>2. /\ d.toServer = Append(c.toServer, m) /\ d.state = c.state /\ d.as = c.as
      /\ d.toProxy = c.toProxy
  BY DEF Conn
<1>3. /\ Append(c.toServer, m) \in Seq(Messages) /\ Append(c.toServer, m) # <<>>
      /\ c.toServer # <<>> => /\ Head(Append(c.toServer, m)) = Head(c.toServer)
                              /\ Tail(Append(c.toServer, m)) = Append(Tail(c.toServer), m)
      /\ c.toServer = <<>> => /\ Head(Append(c.toServer, m)) = m
                              /\ Tail(Append(c.toServer, m)) = <<>>
  BY <1>1, Written
<1>4. d \in Conn
  BY <1>3 DEF Conn
<1>5. Sound(d) /\ ~Fresh(d)
  BY <1>2, <1>3 DEF Sound, Fresh
<1>6. c.toServer # <<>> =>
        /\ Append(Tail(c.toServer), m) # <<>>
        /\ Tail(c.toServer) # <<>> => Head(Append(Tail(c.toServer), m)) = Head(Tail(c.toServer))
        /\ Tail(c.toServer) = <<>> => Head(Append(Tail(c.toServer), m)) = m
  <2> SUFFICES ASSUME c.toServer # <<>>
               PROVE  /\ Append(Tail(c.toServer), m) # <<>>
                      /\ Tail(c.toServer) # <<>> =>
                            Head(Append(Tail(c.toServer), m)) = Head(Tail(c.toServer))
                      /\ Tail(c.toServer) = <<>> => Head(Append(Tail(c.toServer), m)) = m
    OBVIOUS
  <2> DEFINE s == Tail(c.toServer)
  <2>1. s \in Seq(Messages)
    BY <1>1, Read
  <2> HIDE DEF s
  <2>2. /\ Append(s, m) # <<>>
        /\ s # <<>> => Head(Append(s, m)) = Head(s)
        /\ s = <<>> => Head(Append(s, m)) = m
    BY <2>1, Written
  <2> QED BY <2>2 DEF s
<1>7. Introduced(c) => Introduced(d)
  BY <1>2, <1>3, <1>6 DEF Introduced
<1>8. Introducing(c) /\ m = Name => Introduced(d)
  BY <1>2, <1>3, <1>6 DEF Introducing, Introduced
<1>9. Fresh(c) => Introducing(d)
  BY <1>2, <1>3 DEF Introducing, Fresh
<1> QED BY <1>2, <1>4, <1>5, <1>7, <1>8, <1>9

LEMMA ReadFrom ==
    ASSUME NEW c \in Conn, c.toProxy # <<>>, Sound(c)
    PROVE  LET d == [c EXCEPT !.toProxy = Tail(@)]
           IN  /\ d \in Conn /\ Sound(d) /\ d.as = c.as /\ d.state = c.state
               /\ d.toServer = c.toServer
               /\ Head(c.toProxy) \in Messages /\ (Head(c.toProxy) = Granted => c.as # 0)
<1>1. c.toProxy \in Seq(Messages)
  BY DEF Conn
<1>2. /\ Head(c.toProxy) \in Messages /\ Tail(c.toProxy) \in Seq(Messages)
      /\ \E i \in DOMAIN c.toProxy : c.toProxy[i] = Head(c.toProxy)
      /\ \A i \in DOMAIN Tail(c.toProxy) :
            \E j \in DOMAIN c.toProxy : Tail(c.toProxy)[i] = c.toProxy[j]
  BY <1>1, Read
<1> QED BY <1>2 DEF Conn, Sound

(* The server reads a message, and answers it or closes the connection.    *)
LEMMA Login ==
    ASSUME NEW c \in Conn, c.state = "name", c.toServer # <<>>, Sound(c), NEW r \in BOOLEAN,
           r \/ Head(c.toServer) = Name
    PROVE  LET said == [c EXCEPT !.toServer = Tail(@),
                                 !.toProxy = Append(@, IF r THEN Granted ELSE Refused)]
               d == IF r THEN [said EXCEPT !.state = "in", !.as = Head(c.toServer)]
                         ELSE [said EXCEPT !.state = "closed", !.toServer = <<>>]
           IN  /\ d \in Conn /\ Sound(d) /\ (c.as # 0 => d.as # 0)
               /\ Introduced(c) => Introduced(d)
               /\ Introducing(c) => Introducing(d)
               /\ ~Fresh(c)
<1> DEFINE said == [c EXCEPT !.toServer = Tail(@),
                             !.toProxy = Append(@, IF r THEN Granted ELSE Refused)]
           d == IF r THEN [said EXCEPT !.state = "in", !.as = Head(c.toServer)]
                     ELSE [said EXCEPT !.state = "closed", !.toServer = <<>>]
<1>1. c.toServer \in Seq(Messages) /\ c.toProxy \in Seq(Messages)
  BY DEF Conn
<1>2. Head(c.toServer) \in Messages /\ Tail(c.toServer) \in Seq(Messages)
  BY <1>1, Read
<1>3. Granted \in Messages /\ Refused \in Messages /\ 0 \notin Messages
  BY DEF Messages, Granted, Refused
<1>4. Append(c.toProxy, Granted) \in Seq(Messages) /\ Append(c.toProxy, Refused) \in Seq(Messages)
  BY <1>1, <1>3
<1>5. CASE r
  <2>1. /\ d.state = "in" /\ d.as = Head(c.toServer) /\ d.toServer = Tail(c.toServer)
        /\ d.toProxy = Append(c.toProxy, Granted) /\ d.server = c.server
    BY <1>5 DEF Conn
  <2>2. d \in Conn
    <3>1. d = [server |-> c.server, state |-> "in", as |-> Head(c.toServer),
               toServer |-> Tail(c.toServer), toProxy |-> Append(c.toProxy, Granted)]
      BY <1>5 DEF Conn
    <3>2. c.server \in 0 .. N
      BY DEF Conn
    <3> HIDE DEF d
    <3> QED BY <1>2, <1>4, <3>1, <3>2 DEF Conn
  <2>3. Sound(d)
    BY <1>2, <1>3, <2>1 DEF Sound
  <2> QED BY <1>2, <1>3, <2>1, <2>2, <2>3 DEF Introduced, Introducing, Fresh
<1>6. CASE ~r
  <2>1. /\ d.state = "closed" /\ d.as = c.as /\ d.toServer = <<>>
        /\ d.toProxy = Append(c.toProxy, Refused) /\ d.server = c.server
    BY <1>6 DEF Conn
  <2>2. d \in Conn
    <3>1. d = [server |-> c.server, state |-> "closed", as |-> c.as,
               toServer |-> <<>>, toProxy |-> Append(c.toProxy, Refused)]
      BY <1>6 DEF Conn
    <3>2. c.server \in 0 .. N /\ c.as \in Messages \cup {0} /\ <<>> \in Seq(Messages)
      BY DEF Conn
    <3> HIDE DEF d
    <3> QED BY <1>4, <3>1, <3>2 DEF Conn
  <2>3. \A i \in DOMAIN d.toProxy : d.toProxy[i] = Granted =>
            \E j \in DOMAIN c.toProxy : c.toProxy[j] = Granted
    BY <1>1, <2>1 DEF Granted, Refused
  <2>4. Sound(d)
    BY <2>1, <2>3 DEF Sound
  <2> QED BY <2>1, <2>2, <2>4 DEF Introduced, Introducing, Fresh
<1> QED BY <1>5, <1>6

LEMMA Answering ==
    ASSUME NEW c \in Conn, c.state = "in", c.toServer # <<>>, Sound(c), Head(c.toServer) > 0
    PROVE  LET m == Head(c.toServer)
               d == [c EXCEPT !.toServer = Tail(@), !.toProxy = Append(@, m)]
           IN  /\ d \in Conn /\ Sound(d) /\ d.as = c.as /\ m \in 1 .. Requests
               /\ Introduced(c) => Introduced(d) /\ c.as = Name
               /\ ~Introducing(c) /\ c.as \in Messages
<1> DEFINE m == Head(c.toServer)
           d == [c EXCEPT !.toServer = Tail(@), !.toProxy = Append(@, m)]
<1>1. c.toServer \in Seq(Messages) /\ c.toProxy \in Seq(Messages)
  BY DEF Conn
<1>2. m \in Messages /\ Tail(c.toServer) \in Seq(Messages)
  BY <1>1, Read
<1>3. Append(c.toProxy, m) \in Seq(Messages)
  BY <1>1, <1>2
<1>4. /\ d.state = "in" /\ d.as = c.as /\ d.toServer = Tail(c.toServer)
      /\ d.toProxy = Append(c.toProxy, m)
  BY DEF Conn
<1>5. c.server \in 0 .. N /\ c.as \in Messages \cup {0} /\ c.as # 0
  BY DEF Conn, Sound
<1>6. m \in 1 .. Requests /\ m # Name
  BY <1>2, ProxyAssumption DEF Messages, Name
<1>7. d \in Conn
  <2> DEFINE p == Tail(c.toServer)
             q == Append(c.toProxy, m)
  <2>1. p \in Seq(Messages) /\ q \in Seq(Messages)
    BY <1>2, <1>3
  <2> HIDE DEF m, p, q
  <2>2. [c EXCEPT !.toServer = p, !.toProxy = q] \in Conn
    BY <2>1 DEF Conn
  <2> QED BY <2>2 DEF p, q, m
<1> HIDE DEF d, m
<1>8. Sound(d) /\ d.as = c.as /\ d.state = "in"
  BY <1>4, <1>5 DEF Sound
<1>9. Introduced(c) => c.as = Name
  BY <1>6 DEF Introduced, m
<1>10. c.as = Name => Introduced(d)
  BY <1>8 DEF Introduced
<1> QED BY <1>5, <1>6, <1>7, <1>8, <1>9, <1>10 DEF Introducing, d, m

LEMMA Closing ==
    ASSUME NEW c \in Conn, Sound(c), NEW s \in {"closed", "dead"}, NEW q \in {c.toProxy, <<>>}
    PROVE  LET d == [c EXCEPT !.state = s, !.toServer = <<>>, !.toProxy = q]
           IN  /\ d \in Conn /\ Sound(d) /\ d.as = c.as /\ d.state = s
               /\ Introduced(d) /\ Introducing(d) /\ (s = "dead" => Fresh(d))
<1> DEFINE d == [c EXCEPT !.state = s, !.toServer = <<>>, !.toProxy = q]
<1>1. d.state = s /\ d.as = c.as /\ d.toServer = <<>> /\ d.toProxy = q
  BY DEF Conn
<1>2. <<>> \in Seq(Messages) /\ q \in Seq(Messages)
  <2>1. c.toProxy \in Seq(Messages) /\ <<>> \in Seq(Messages)
    BY DEF Conn
  <2> QED BY <2>1
<1>3. d \in Conn
  <2>1. ASSUME NEW p \in Seq(Messages), NEW r \in Seq(Messages)
        PROVE  [c EXCEPT !.state = s, !.toServer = p, !.toProxy = r] \in Conn
    BY DEF Conn
  <2> QED BY <1>2, <2>1
<1> HIDE DEF d
<1>4. Sound(d) /\ Introduced(d) /\ Introducing(d) /\ (s = "dead" => Fresh(d))
  BY <1>1 DEF Sound, Introduced, Introducing, Fresh
<1> QED BY <1>1, <1>3, <1>4 DEF d

LEMMA New ==
    /\ Free \in Conn /\ Sound(Free) /\ Introduced(Free)
    /\ \A s \in Servers :
          LET d == [Free EXCEPT !.server = s, !.state = "name"]
          IN  d \in Conn /\ Sound(d) /\ Introducing(d) /\ Fresh(d)
<1>1. 0 \in 0 .. N /\ <<>> \in Seq(Messages) /\ Servers \subseteq 0 .. N
  BY ProxyAssumption DEF Servers
<1>2. Free \in Conn /\ Sound(Free) /\ Introduced(Free)
  BY <1>1 DEF Free, Conn, Sound, Introduced
<1>3. ASSUME NEW s \in Servers
      PROVE  LET d == [Free EXCEPT !.server = s, !.state = "name"]
             IN  d \in Conn /\ Sound(d) /\ Introducing(d) /\ Fresh(d)
  <2> DEFINE d == [Free EXCEPT !.server = s, !.state = "name"]
  <2>1. d.state = "name" /\ d.as = 0 /\ d.toServer = <<>> /\ d.toProxy = <<>>
    BY DEF Free
  <2>2. d \in Conn
    <3>1. ASSUME NEW c \in Conn, NEW r \in 0 .. N
          PROVE  [c EXCEPT !.server = r, !.state = "name"] \in Conn
      BY DEF Conn
    <3> QED BY <1>1, <1>2, <3>1
  <2> HIDE DEF d
  <2>3. Sound(d) /\ Introducing(d) /\ Fresh(d)
    BY <2>1 DEF Sound, Introducing, Fresh
  <2> QED BY <2>2, <2>3 DEF d
<1> QED BY <1>2, <1>3

-----------------------------------------------------------------------------
(* What a server, or the proxy in reading, does to a connection.           *)
Quietly(c, d) ==
    /\ d \in Conn /\ Sound(d) /\ (c.as # 0 => d.as # 0)
    /\ Introduced(c) => Introduced(d)
    /\ Introducing(c) => Introducing(d)
    /\ Fresh(c) => Fresh(d)

(* It leaves the name where it has to be, and so does forgetting another   *)
(* connection.                                                             *)
LEMMA Quiet ==
    ASSUME IInv, sslServer' = sslServer, conns' \in [Ids -> Conn],
           \A k \in Ids : Quietly(conns[k], conns'[k]) \/ (k # sslServer /\ conns'[k] = Free),
           server' = "name" <=> server = "name",
           server = "name" /\ client \in {"look", "leave", "done"} =>
                client' \in {"look", "leave", "done"},
           server = "name" => client' = client \/ client' \in {"look", "leave", "done"}
                                \/ (client = "read" /\ conns' = conns)
    PROVE  AllSound' /\ NameWritten'
           /\ (sslServer # 0 /\ conns[sslServer].as # 0 => conns'[sslServer].as # 0)
<1>1. Sound(Free) /\ Introduced(Free)
  BY New
<1>2. AllSound'
  BY <1>1 DEF AllSound, Quietly
<1>3. ASSUME NEW k \in Ids
      PROVE  /\ Naming(k)' => /\ Introducing(conns'[k])
                              /\ Fresh(conns'[k]) \/ client' \in {"look", "leave", "done"}
             /\ ~Naming(k)' => Introduced(conns'[k])
  <2>1. Naming(k)' <=> Naming(k)
    BY DEF Naming
  <2>2. /\ Naming(k) => /\ Introducing(conns[k])
                        /\ Fresh(conns[k]) \/ client \in {"look", "leave", "done"}
        /\ ~Naming(k) => Introduced(conns[k])
    BY DEF IInv, NameWritten
  <2>3. CASE Quietly(conns[k], conns'[k])
    BY <2>1, <2>2, <2>3 DEF Quietly, Naming
  <2>4. CASE k # sslServer /\ conns'[k] = Free
    BY <1>1, <2>1, <2>4 DEF Naming
  <2> QED BY <2>3, <2>4
<1>4. NameWritten'
  BY <1>3 DEF NameWritten
<1>5. sslServer # 0 => sslServer \in Ids
  BY ProxyAssumption DEF IInv, TypeOK, Ids
<1> QED BY <1>2, <1>4, <1>5 DEF Quietly

(* A connection that stays as it is.                                       *)
LEMMA Same == ASSUME IInv, NEW k \in Ids PROVE Quietly(conns[k], conns[k])
  BY DEF IInv, TypeOK, AllSound, Quietly

(* What writing to the server does, whether it arrives or not.             *)
LEMMA Writing ==
    ASSUME IInv, NEW m \in Messages, Reaches(m) \/ Vanishes \/ Fails
    PROVE  /\ running' \in BOOLEAN /\ conns' \in [Ids -> Conn] /\ AllSound'
           /\ \A k \in Ids : /\ conns'[k].as = conns[k].as
                             /\ Introduced(conns[k]) => Introduced(conns'[k])
                             /\ Fresh(conns[k]) => Introducing(conns'[k])
           /\ server = "name" /\ m = Name => Introduced(conns'[sslServer])
<1>1. sslServer # 0 => sslServer \in Ids
  BY ProxyAssumption DEF IInv, TypeOK, Ids
<1>2. conns \in [Ids -> Conn] /\ running \in BOOLEAN /\ AllSound
  BY DEF IInv, TypeOK
<1>3. server = "name" => sslServer \in Ids /\ Introducing(conns[sslServer])
  BY <1>1 DEF IInv, Threads, NameWritten, Naming
<1>4. CASE Reaches(m)
  <2> DEFINE d == [conns[sslServer] EXCEPT !.toServer = Append(@, m)]
  <2>1. sslServer \in Ids /\ conns[sslServer].state \in {"name", "in"}
    BY <1>1, <1>4 DEF Reaches, Open
  <2>2. conns[sslServer] \in Conn /\ Sound(conns[sslServer])
    BY <1>2, <2>1 DEF AllSound
  <2>3. conns' = [conns EXCEPT ![sslServer] = d] /\ running' = running
    BY <1>4, <2>1 DEF Reaches
  <2>4. /\ d \in Conn /\ Sound(d) /\ d.as = conns[sslServer].as
        /\ Introduced(conns[sslServer]) => Introduced(d)
        /\ Introducing(conns[sslServer]) /\ m = Name => Introduced(d)
        /\ Fresh(conns[sslServer]) => Introducing(d)
    BY <2>1, <2>2, WriteTo
  <2> HIDE DEF d
  <2>5. conns' \in [Ids -> Conn]
    BY <1>2, <2>3, <2>4
  <2>6. conns'[sslServer] = d /\ \A k \in Ids : k # sslServer => conns'[k] = conns[k]
    BY <1>2, <2>1, <2>3
  <2>7. ASSUME NEW k \in Ids, k # sslServer, Fresh(conns[k])
        PROVE  Introducing(conns[k])
    BY <2>7 DEF Fresh, Introducing
  <2> QED BY <1>2, <1>3, <2>3, <2>4, <2>5, <2>6, <2>7 DEF AllSound
<1>5. CASE Vanishes \/ Fails
  <2>1. conns' = conns /\ running' \in BOOLEAN
    BY <1>2, <1>5 DEF Vanishes, Fails
  <2>2. ASSUME NEW k \in Ids, Fresh(conns[k])
        PROVE  Introducing(conns[k])
    BY <2>2 DEF Fresh, Introducing
  <2>3. server = "name" => Introduced(conns[sslServer])
    <3>1. server = "name" => conns[sslServer].state \notin {"name", "in"}
      BY <1>3, <1>5 DEF Vanishes, Fails, Shaking, Open, IInv, Threads
    <3> QED BY <3>1 DEF Introduced
  <2> QED BY <1>2, <2>1, <2>2, <2>3 DEF AllSound
<1> QED BY <1>4, <1>5

(* The client's thread writes.                                             *)
LEMMA ClientWriting ==
    ASSUME IInv, NEW m \in Messages, Reaches(m) \/ Vanishes \/ Fails,
           client \in {"write", "drop", "close"}, client' = "drop" => conns' = conns,
           client' \in {"look", "drop", "leave"}, UNCHANGED <<server, sslServer>>
    PROVE  NameWritten'
<1>1. \A k \in Ids : /\ Introduced(conns[k]) => Introduced(conns'[k])
                     /\ Fresh(conns[k]) => Introducing(conns'[k])
  BY Writing
<1>2. ASSUME NEW k \in Ids
      PROVE  /\ Naming(k)' => /\ Introducing(conns'[k])
                              /\ Fresh(conns'[k]) \/ client' \in {"look", "leave", "done"}
             /\ ~Naming(k)' => Introduced(conns'[k])
  <2>1. /\ Naming(k) => Fresh(conns[k])
        /\ ~Naming(k) => Introduced(conns[k])
    BY DEF IInv, NameWritten
  <2> QED BY <1>1, <2>1 DEF Naming
<1> QED BY <1>2 DEF NameWritten

(* The server's thread writes, and has written the name or has no name to  *)
(* write.                                                                  *)
LEMMA ServerWriting ==
    ASSUME IInv, NEW m \in Messages, Reaches(m) \/ Vanishes \/ Fails,
           server = "name" => m = Name, server' # "name", sslServer' = sslServer
    PROVE  NameWritten'
<1>1. /\ \A k \in Ids : Introduced(conns[k]) => Introduced(conns'[k])
      /\ server = "name" /\ m = Name => Introduced(conns'[sslServer])
  BY Writing
<1>2. ASSUME NEW k \in Ids
      PROVE  Introduced(conns'[k])
  <2>1. ~Naming(k) => Introduced(conns[k])
    BY DEF IInv, NameWritten
  <2> QED BY <1>1, <2>1 DEF Naming
<1> QED BY <1>2 DEF NameWritten, Naming

-----------------------------------------------------------------------------
(* The client's thread.                                                    *)
LEMMA ClientLooksKeeps == ASSUME IInv, ClientLooks PROVE IInv'
<1>1. TypeOK'
  BY DEF IInv, TypeOK, ClientLooks, flags, serverThread, user, cluster
<1>2. Threads' /\ ConnectedIsLoggedIn' /\ CarriedOutForTheUser'
  BY DEF IInv, Threads, ConnectedIsLoggedIn, CarriedOutForTheUser, ClientLooks,
         flags, serverThread, user, cluster
<1>3. AllSound' /\ NameWritten'
  <2>1. server = "name" => ~isServerConnected
    BY DEF IInv, Threads
  <2>2. /\ UNCHANGED <<server, sslServer, conns>>
        /\ server = "name" => client' \in {"look", "leave", "done"}
    BY <2>1 DEF ClientLooks, serverThread
  <2>3. conns' \in [Ids -> Conn]
    BY <2>2 DEF IInv, TypeOK
  <2> QED BY <2>2, <2>3, Same, Quiet
<1> QED BY <1>1, <1>2, <1>3 DEF IInv

LEMMA ClientReadsKeeps == ASSUME IInv, ClientReads PROVE IInv'
<1>1. toProxy # <<>> => Head(toProxy) \in Messages /\ Tail(toProxy) \in Seq(Messages)
  BY Read DEF IInv, TypeOK
<1>2. TypeOK'
  BY <1>1 DEF IInv, TypeOK, ClientReads, flags, serverThread, user, cluster
<1>3. Threads'
  BY <1>1 DEF IInv, Threads, ClientReads, flags, serverThread, Messages
<1>4. ConnectedIsLoggedIn' /\ CarriedOutForTheUser'
  BY DEF IInv, ConnectedIsLoggedIn, CarriedOutForTheUser, ClientReads,
         flags, serverThread, user, cluster
<1>5. AllSound' /\ NameWritten'
  <2>1. UNCHANGED <<server, sslServer, conns>> /\ client = "read"
    BY DEF ClientReads, serverThread
  <2>2. conns' \in [Ids -> Conn]
    BY <2>1 DEF IInv, TypeOK
  <2> QED BY <2>1, <2>2, Same, Quiet
<1> QED BY <1>2, <1>3, <1>4, <1>5 DEF IInv

LEMMA ClientWritesKeeps == ASSUME IInv, ClientWrites PROVE IInv'
<1>1. told \in Messages /\ (Reaches(told) \/ Vanishes \/ Fails)
  BY DEF IInv, TypeOK, Threads, ClientWrites
<1>2. /\ running' \in BOOLEAN /\ conns' \in [Ids -> Conn] /\ AllSound'
      /\ \A k \in Ids : conns'[k].as = conns[k].as
  BY <1>1, Writing
<1>3. /\ client = "write" /\ client' \in {"look", "drop"} /\ told' = 0
      /\ UNCHANGED <<flags, serverThread, user, heard, cluster>>
      /\ client' = "drop" => conns' = conns
  BY DEF ClientWrites, Fails
<1>4. sslServer # 0 => sslServer \in Ids
  BY ProxyAssumption DEF IInv, TypeOK, Ids
<1>5. TypeOK'
  BY <1>2, <1>3 DEF IInv, TypeOK, flags, serverThread, user, cluster
<1>6. Threads' /\ ConnectedIsLoggedIn' /\ CarriedOutForTheUser'
  BY <1>2, <1>3, <1>4 DEF IInv, Threads, ConnectedIsLoggedIn, CarriedOutForTheUser,
                          flags, serverThread, user, cluster
<1>7. NameWritten'
  BY <1>1, <1>3, ClientWriting DEF serverThread
<1> QED BY <1>2, <1>5, <1>6, <1>7 DEF IInv

(* A thread that closes the connection writes END to it.                   *)
LEMMA ClientDropsKeeps == ASSUME IInv, ClientDrops \/ ClientCloses PROVE IInv'
<1>1. End \in Messages /\ (Reaches(End) \/ Vanishes \/ Fails)
  BY DEF Messages, End, ClientDrops, ClientCloses, close_serverConnection
<1>2. /\ running' \in BOOLEAN /\ conns' \in [Ids -> Conn] /\ AllSound'
      /\ \A k \in Ids : conns'[k].as = conns[k].as
  BY <1>1, Writing
<1>3. /\ client \in {"drop", "close"} /\ client' \in {"look", "leave"}
      /\ isServerConnected' = FALSE
      /\ UNCHANGED <<isClientConnected, error, first_login, serverThread, told, user, heard, cluster>>
  BY DEF ClientDrops, ClientCloses, close_serverConnection
<1>4. sslServer # 0 => sslServer \in Ids
  BY ProxyAssumption DEF IInv, TypeOK, Ids
<1>5. TypeOK'
  BY <1>2, <1>3 DEF IInv, TypeOK, flags, serverThread, user, cluster
<1>6. Threads' /\ ConnectedIsLoggedIn' /\ CarriedOutForTheUser'
  BY <1>2, <1>3, <1>4 DEF IInv, Threads, ConnectedIsLoggedIn, CarriedOutForTheUser,
                          serverThread, user, cluster
<1>7. NameWritten'
  BY <1>1, <1>3, ClientWriting DEF serverThread
<1> QED BY <1>2, <1>5, <1>6, <1>7 DEF IInv

LEMMA ClientEndsKeeps == ASSUME IInv, ClientEnds PROVE IInv'
<1>1. TypeOK'
  BY DEF IInv, TypeOK, ClientEnds, flags, serverThread, user, cluster
<1>2. Threads' /\ ConnectedIsLoggedIn' /\ CarriedOutForTheUser'
  BY DEF IInv, Threads, ConnectedIsLoggedIn, CarriedOutForTheUser, ClientEnds,
         serverThread, user, cluster
<1>3. AllSound' /\ NameWritten'
  <2>1. UNCHANGED <<server, sslServer, conns>> /\ client' = "done"
    BY DEF ClientEnds, serverThread
  <2>2. conns' \in [Ids -> Conn]
    BY <2>1 DEF IInv, TypeOK
  <2> QED BY <2>1, <2>2, Same, Quiet
<1> QED BY <1>1, <1>2, <1>3 DEF IInv

-----------------------------------------------------------------------------
(* The server's thread.                                                    *)
LEMMA ServerLooksKeeps == ASSUME IInv, ServerLooks PROVE IInv'
<1>1. TypeOK'
  BY ProxyAssumption DEF IInv, TypeOK, ServerLooks, flags, clientThread, user, cluster
<1>2. Threads' /\ ConnectedIsLoggedIn' /\ CarriedOutForTheUser'
  BY DEF IInv, Threads, ConnectedIsLoggedIn, CarriedOutForTheUser, ServerLooks,
         flags, clientThread, user, cluster
<1>3. AllSound' /\ NameWritten'
  <2>1. /\ UNCHANGED <<client, sslServer, conns>>
        /\ server = "look" /\ server' \in {"read", "dial", "done"}
    BY DEF ServerLooks, clientThread
  <2>2. conns' \in [Ids -> Conn]
    BY <2>1 DEF IInv, TypeOK
  <2> QED BY <2>1, <2>2, Same, Quiet
<1> QED BY <1>1, <1>2, <1>3 DEF IInv

(* An answer is read.                                                      *)
LEMMA Taking ==
    ASSUME IInv, sslServer \in Ids, Takes
    PROVE  /\ conns' \in [Ids -> Conn] /\ \A k \in Ids : Quietly(conns[k], conns'[k])
           /\ conns'[sslServer].as = conns[sslServer].as
           /\ answer' \in Messages /\ (answer' = Granted => conns[sslServer].as # 0)
<1> DEFINE d == [conns[sslServer] EXCEPT !.toProxy = Tail(@)]
<1>1. /\ conns \in [Ids -> Conn] /\ conns[sslServer] \in Conn /\ Sound(conns[sslServer])
      /\ conns[sslServer].toProxy # <<>>
  BY DEF IInv, TypeOK, AllSound, Takes, Says
<1>2. /\ d \in Conn /\ Sound(d) /\ d.as = conns[sslServer].as
      /\ d.state = conns[sslServer].state /\ d.toServer = conns[sslServer].toServer
      /\ Head(conns[sslServer].toProxy) \in Messages
      /\ Head(conns[sslServer].toProxy) = Granted => conns[sslServer].as # 0
  BY <1>1, ReadFrom
<1>3. conns' = [conns EXCEPT ![sslServer] = d] /\ answer' = Head(conns[sslServer].toProxy)
  BY <1>1 DEF Takes, Says
<1> HIDE DEF d
<1>4. Quietly(conns[sslServer], d)
  BY <1>2 DEF Quietly, Introduced, Introducing, Fresh
<1>5. /\ conns' \in [Ids -> Conn] /\ conns'[sslServer] = d
      /\ \A k \in Ids : k # sslServer => conns'[k] = conns[k]
  BY <1>1, <1>2, <1>3
<1> QED BY <1>2, <1>3, <1>4, <1>5, Same

LEMMA ServerReadsKeeps == ASSUME IInv, ServerReads PROVE IInv'
<1>1. server = "read" /\ server' \in {"forward", "close"} /\ sslServer \in Ids
  BY ProxyAssumption DEF IInv, TypeOK, Threads, Ids, ServerReads
<1>2. UNCHANGED <<flags, it, sslServer, clientThread, running, user, heard, cluster>>
  BY DEF ServerReads
<1>3. /\ conns' \in [Ids -> Conn] /\ \A k \in Ids : Quietly(conns[k], conns'[k])
      /\ answer' \in Messages \cup {0} /\ (server' = "forward" => answer' # 0)
  <2>1. CASE Takes /\ server' = "forward"
    BY <1>1, <2>1, Taking DEF Messages
  <2>2. CASE UNCHANGED <<answer, conns>> /\ server' = "close"
    BY <2>2, Same DEF IInv, TypeOK
  <2> QED BY <2>1, <2>2 DEF ServerReads
<1>4. AllSound' /\ NameWritten'
      /\ (sslServer # 0 /\ conns[sslServer].as # 0 => conns'[sslServer].as # 0)
  BY <1>1, <1>2, <1>3, Quiet DEF clientThread
<1>5. TypeOK'
  BY <1>1, <1>2, <1>3 DEF IInv, TypeOK, flags, clientThread, user, cluster
<1>6. Threads' /\ ConnectedIsLoggedIn' /\ CarriedOutForTheUser'
  BY <1>1, <1>2, <1>3, <1>4 DEF IInv, Threads, ConnectedIsLoggedIn, CarriedOutForTheUser,
                                flags, clientThread, user, cluster
<1> QED BY <1>4, <1>5, <1>6 DEF IInv

LEMMA ServerForwardsKeeps == ASSUME IInv, ServerForwards PROVE IInv'
<1>1. answer \in Messages
  BY DEF IInv, TypeOK, Threads, ServerForwards
<1>2. heard' \in Seq(Messages) /\ running' \in BOOLEAN
  <2>1. Append(heard, answer) \in Seq(Messages)
    BY <1>1, Written DEF IInv, TypeOK
  <2> QED BY <2>1 DEF IInv, TypeOK, ServerForwards, Hears
<1>3. TypeOK'
  BY <1>2 DEF IInv, TypeOK, ServerForwards, flags, clientThread, user, cluster
<1>4. Threads' /\ ConnectedIsLoggedIn' /\ CarriedOutForTheUser'
  BY DEF IInv, Threads, ConnectedIsLoggedIn, CarriedOutForTheUser, ServerForwards,
         flags, clientThread, user, cluster
<1>5. AllSound' /\ NameWritten'
  <2>1. /\ UNCHANGED <<client, sslServer, conns>>
        /\ server = "forward" /\ server' \in {"look", "leave"}
    BY DEF ServerForwards, clientThread
  <2>2. conns' \in [Ids -> Conn]
    BY <2>1 DEF IInv, TypeOK
  <2> QED BY <2>1, <2>2, Same, Quiet
<1> QED BY <1>3, <1>4, <1>5 DEF IInv

LEMMA ServerClosesKeeps == ASSUME IInv, ServerCloses \/ ServerLeaves PROVE IInv'
<1>1. End \in Messages /\ (Reaches(End) \/ Vanishes \/ Fails)
  BY DEF Messages, End, ServerCloses, ServerLeaves, close_serverConnection
<1>2. /\ running' \in BOOLEAN /\ conns' \in [Ids -> Conn] /\ AllSound'
      /\ \A k \in Ids : conns'[k].as = conns[k].as
  BY <1>1, Writing
<1>3. /\ server \in {"close", "leave"} /\ server' \in {"look", "done"}
      /\ isServerConnected' = FALSE /\ isClientConnected' \in BOOLEAN /\ error' \in BOOLEAN
      /\ UNCHANGED <<first_login, it, sslServer, answer, clientThread, user, heard, cluster>>
  BY DEF ServerCloses, ServerLeaves, close_serverConnection, IInv, TypeOK, flags
<1>4. TypeOK'
  BY <1>2, <1>3 DEF IInv, TypeOK, flags, clientThread, user, cluster
<1>5. Threads' /\ ConnectedIsLoggedIn' /\ CarriedOutForTheUser'
  BY <1>2, <1>3 DEF IInv, Threads, ConnectedIsLoggedIn, CarriedOutForTheUser,
                    clientThread, user, cluster
<1>6. NameWritten'
  BY <1>1, <1>3, ServerWriting
<1> QED BY <1>2, <1>4, <1>5, <1>6 DEF IInv

(* The new connection has no message yet.                                  *)
LEMMA Dialling ==
    ASSUME IInv, Dials, server = "dial", server' = "name", it \in Servers
    PROVE  sslServer' \in Ids /\ conns' \in [Ids -> Conn] /\ AllSound' /\ NameWritten'
<1>1. PICK n \in Ids :
        /\ sslServer' = n
        /\ conns' = [j \in Ids |->
              IF j = n THEN [Free EXCEPT !.server = it, !.state = "name"]
              ELSE IF conns[j].toServer = <<>> THEN Free ELSE conns[j]]
  BY DEF Dials
<1> DEFINE d == [Free EXCEPT !.server = it, !.state = "name"]
<1>2. /\ d \in Conn /\ Sound(d) /\ Introducing(d) /\ Fresh(d)
      /\ Free \in Conn /\ Sound(Free) /\ Introduced(Free)
  BY New
<1>3. conns' = [j \in Ids |-> IF j = n THEN d
                              ELSE IF conns[j].toServer = <<>> THEN Free ELSE conns[j]]
  BY <1>1
<1> HIDE DEF d
<1>4. \A k \in Ids : conns[k] \in Conn /\ Sound(conns[k]) /\ Introduced(conns[k])
  BY DEF IInv, TypeOK, AllSound, NameWritten, Naming
<1>5. conns' \in [Ids -> Conn]
  BY <1>2, <1>3, <1>4
<1>6. \A k \in Ids : /\ Sound(conns'[k])
                     /\ IF k = n THEN Introducing(conns'[k]) /\ Fresh(conns'[k])
                                 ELSE Introduced(conns'[k])
  BY <1>2, <1>3, <1>4
<1> QED BY <1>1, <1>5, <1>6 DEF AllSound, NameWritten, Naming

LEMMA ServerDialsKeeps == ASSUME IInv, ServerDials PROVE IInv'
<1>1. /\ server = "dial" /\ server' \in {"leave", "look", "dial", "name"}
      /\ UNCHANGED <<flags, answer, clientThread, running, user, heard, cluster>>
  BY DEF ServerDials, increment_currentServer
<1>2. CASE server' # "name"
  <2>1. UNCHANGED <<sslServer, conns>> /\ it' \in 1 .. N + 1
        /\ (server' = "look" => isServerConnected)
    BY <1>2, ProxyAssumption DEF ServerDials, increment_currentServer, IInv, TypeOK
  <2>2. TypeOK'
    BY <1>1, <1>2, <2>1 DEF IInv, TypeOK, flags, clientThread, user, cluster
  <2>3. Threads' /\ ConnectedIsLoggedIn' /\ CarriedOutForTheUser'
    BY <1>1, <1>2, <2>1 DEF IInv, Threads, ConnectedIsLoggedIn, CarriedOutForTheUser,
                            flags, clientThread, user, cluster
  <2>4. AllSound' /\ NameWritten'
    <3>1. conns' \in [Ids -> Conn]
      BY <2>1 DEF IInv, TypeOK
    <3> QED BY <1>1, <1>2, <2>1, <3>1, Same, Quiet DEF clientThread
  <2> QED BY <2>2, <2>3, <2>4 DEF IInv
<1>3. CASE server' = "name"
  <2>1. it \in Servers /\ ~isServerConnected /\ Dials /\ it' = it
    BY <1>3 DEF ServerDials, increment_currentServer, IInv, TypeOK
  <2>2. sslServer' \in Ids /\ conns' \in [Ids -> Conn] /\ AllSound' /\ NameWritten'
    BY <1>1, <1>3, <2>1, Dialling
  <2>3. TypeOK'
    BY <1>1, <1>3, <2>1, <2>2, ProxyAssumption
       DEF IInv, TypeOK, flags, clientThread, user, cluster, Ids
  <2>4. Threads' /\ ConnectedIsLoggedIn' /\ CarriedOutForTheUser'
    BY <1>1, <1>3, <2>1, <2>2, ProxyAssumption
       DEF IInv, Threads, ConnectedIsLoggedIn, CarriedOutForTheUser,
           flags, clientThread, user, cluster, Ids, Servers
  <2> QED BY <2>2, <2>3, <2>4 DEF IInv
<1> QED BY <1>2, <1>3

(* The only step that writes the name.                                     *)
LEMMA ServerNamesKeeps == ASSUME IInv, ServerNames PROVE IInv'
<1>1. Name \in Messages /\ (Reaches(Name) \/ Vanishes \/ Fails)
  BY DEF Messages, Name, ServerNames
<1>2. /\ running' \in BOOLEAN /\ conns' \in [Ids -> Conn] /\ AllSound'
      /\ \A k \in Ids : conns'[k].as = conns[k].as
  BY <1>1, Writing
<1>3. /\ server = "name" /\ server' \in {"login", "dial"} /\ sslServer # 0
      /\ server' = "login" => it' = it
      /\ UNCHANGED <<flags, sslServer, answer, clientThread, user, heard, cluster>>
  BY DEF ServerNames, increment_currentServer, IInv, Threads
<1>4. PICK n \in 1 .. N + 1 : it' = n
  <2>1. it \in 1 .. N
    BY ProxyAssumption DEF ServerNames, IInv, TypeOK, Threads
  <2> QED BY <2>1, ProxyAssumption DEF ServerNames, increment_currentServer
<1>5. TypeOK'
  BY <1>2, <1>3, <1>4 DEF IInv, TypeOK, flags, clientThread, user, cluster
<1>6. Threads' /\ ConnectedIsLoggedIn' /\ CarriedOutForTheUser'
  BY <1>2, <1>3 DEF IInv, Threads, ConnectedIsLoggedIn, CarriedOutForTheUser,
                    flags, clientThread, user, cluster
<1>7. NameWritten'
  BY <1>1, <1>3, ServerWriting
<1> QED BY <1>2, <1>5, <1>6, <1>7 DEF IInv

LEMMA ServerHearsKeeps == ASSUME IInv, ServerHears PROVE IInv'
<1>1. /\ server = "login" /\ server' \in {"tell", "dial"} /\ sslServer \in Ids /\ it \in 1 .. N
  BY ProxyAssumption DEF IInv, TypeOK, Threads, Ids, ServerHears, increment_currentServer
<1>2. UNCHANGED <<flags, sslServer, clientThread, running, user, heard, cluster>>
  BY DEF ServerHears
<1>3. /\ conns' \in [Ids -> Conn] /\ \A k \in Ids : Quietly(conns[k], conns'[k])
      /\ conns'[sslServer].as = conns[sslServer].as
      /\ answer' \in Messages \cup {0} /\ it' \in 1 .. N + 1
      /\ server' = "tell" => /\ it' = it /\ answer' # 0
                             /\ answer' = Granted => conns[sslServer].as # 0
  <2>1. CASE Takes /\ server' = "tell" /\ UNCHANGED it
    <3>1. it' = it /\ it' \in 1 .. N + 1 /\ 0 \notin Messages
      BY <1>1, <2>1, ProxyAssumption DEF Messages
    <3> QED BY <1>1, <2>1, <3>1, Taking
  <2>2. CASE answer' = Nothing /\ server' = "tell" /\ UNCHANGED <<it, conns>>
    <3>1. Nothing \in -5 .. -1 /\ Nothing # 0 /\ Nothing # Granted
      BY DEF Nothing, Granted
    <3>2. conns' = conns /\ conns \in [Ids -> Conn] /\ it' \in 1 .. N + 1
      BY <1>1, <2>2, ProxyAssumption DEF IInv, TypeOK
    <3> QED BY <2>2, <3>1, <3>2, Same DEF Messages
  <2>3. CASE increment_currentServer /\ UNCHANGED <<answer, conns>>
    BY <1>1, <2>3, Same, ProxyAssumption DEF IInv, TypeOK, increment_currentServer
  <2> QED BY <2>1, <2>2, <2>3 DEF ServerHears
<1>4. AllSound' /\ NameWritten'
  BY <1>1, <1>2, <1>3, Quiet DEF clientThread
<1>5. TypeOK'
  BY <1>1, <1>2, <1>3 DEF IInv, TypeOK, flags, clientThread, user, cluster
<1>6. Threads' /\ ConnectedIsLoggedIn' /\ CarriedOutForTheUser'
  BY <1>1, <1>2, <1>3 DEF IInv, Threads, ConnectedIsLoggedIn, CarriedOutForTheUser,
                          flags, clientThread, user, cluster
<1> QED BY <1>4, <1>5, <1>6 DEF IInv

LEMMA ServerTellsKeeps == ASSUME IInv, ServerTells PROVE IInv'
<1>1. /\ server = "tell" /\ server' \in {"logged", "dial"} /\ it \in 1 .. N
      /\ server' = "logged" => it' = it
      /\ it' \in 1 .. N + 1 /\ first_login' \in BOOLEAN
  <2>1. server = "tell" /\ it \in 1 .. N
    BY ProxyAssumption DEF IInv, TypeOK, Threads, ServerTells
  <2>2. /\ server' \in {"logged", "dial"} /\ it' \in {it, it + 1}
        /\ server' = "logged" => it' = it
    BY DEF ServerTells, increment_currentServer
  <2>3. first_login' \in BOOLEAN
    BY DEF IInv, TypeOK, ServerTells, flags
  <2> QED BY <2>1, <2>2, <2>3, ProxyAssumption
<1>2. UNCHANGED <<isClientConnected, isServerConnected, error, sslServer, answer, clientThread,
                  user, cluster, conns>>
  BY DEF ServerTells
<1>3. heard' \in Seq(Messages) /\ running' \in BOOLEAN
  <2>1. answer \in Messages
    BY DEF IInv, TypeOK, Threads, ServerTells
  <2>2. Append(heard, answer) \in Seq(Messages)
    BY <2>1, Written DEF IInv, TypeOK
  <2> QED BY <2>2 DEF IInv, TypeOK, ServerTells, Hears
<1>4. TypeOK'
  BY <1>1, <1>2, <1>3 DEF IInv, TypeOK, flags, clientThread, user, cluster
<1>5. Threads' /\ ConnectedIsLoggedIn' /\ CarriedOutForTheUser'
  BY <1>1, <1>2 DEF IInv, Threads, ConnectedIsLoggedIn, CarriedOutForTheUser,
                    clientThread, user, cluster
<1>6. AllSound' /\ NameWritten'
  <2>1. conns' \in [Ids -> Conn]
    BY <1>2 DEF IInv, TypeOK
  <2> QED BY <1>1, <1>2, <2>1, Same, Quiet DEF clientThread
<1> QED BY <1>4, <1>5, <1>6 DEF IInv

LEMMA ServerLoggedKeeps == ASSUME IInv, ServerLogged PROVE IInv'
<1>1. /\ server = "logged" /\ server' = "dial" /\ it' \in 1 .. N + 1
  BY ProxyAssumption DEF IInv, TypeOK, Threads, ServerLogged, increment_currentServer
<1>2. /\ answer' = 0 /\ isServerConnected' \in BOOLEAN
      /\ isServerConnected' => answer = Granted
  BY DEF ServerLogged, IInv, Threads
<1>3. UNCHANGED <<isClientConnected, error, first_login, sslServer, clientThread, running, user,
                  heard, cluster, conns>>
  BY DEF ServerLogged
<1>4. TypeOK'
  BY <1>1, <1>2, <1>3 DEF IInv, TypeOK, flags, clientThread, user, cluster
<1>5. Threads' /\ ConnectedIsLoggedIn' /\ CarriedOutForTheUser'
  BY <1>1, <1>2, <1>3 DEF IInv, Threads, ConnectedIsLoggedIn, CarriedOutForTheUser,
                          clientThread, user, cluster
<1>6. AllSound' /\ NameWritten'
  <2>1. conns' \in [Ids -> Conn]
    BY <1>3 DEF IInv, TypeOK
  <2> QED BY <1>1, <1>3, <2>1, Same, Quiet DEF clientThread
<1> QED BY <1>4, <1>5, <1>6 DEF IInv

-----------------------------------------------------------------------------
(* The client, and the servers.                                            *)
LEMMA ClientMovesKeeps == ASSUME IInv, ClientSends \/ ClientLeaves PROVE IInv'
<1>1. toProxy' \in Seq(Messages) /\ sent' \in 0 .. Requests /\ there' \in BOOLEAN
  <2>1. CASE ClientSends
    <3>1. sent + 1 \in Messages /\ sent + 1 \in 0 .. Requests
      BY <2>1, ProxyAssumption DEF ClientSends, IInv, TypeOK, Messages
    <3> QED BY <2>1, <3>1, Written DEF ClientSends, IInv, TypeOK
  <2>2. CASE ClientLeaves
    <3>1. End \in Messages /\ toProxy \in Seq(Messages) /\ sent \in 0 .. Requests
      BY DEF End, Messages, IInv, TypeOK
    <3>2. Append(toProxy, End) \in Seq(Messages)
      BY <3>1, Written
    <3> QED BY <2>2, <3>1, <3>2 DEF ClientLeaves
  <2> QED BY <2>1, <2>2
<1>2. UNCHANGED <<flags, serverThread, clientThread, running, heard, cluster, conns>>
  BY DEF ClientSends, ClientLeaves
<1>3. TypeOK'
  BY <1>1, <1>2 DEF IInv, TypeOK, flags, serverThread, clientThread, cluster
<1>4. Threads' /\ ConnectedIsLoggedIn' /\ CarriedOutForTheUser'
  BY <1>2 DEF IInv, Threads, ConnectedIsLoggedIn, CarriedOutForTheUser,
              flags, serverThread, clientThread, cluster
<1>5. AllSound' /\ NameWritten'
  <2>1. conns' \in [Ids -> Conn]
    BY <1>2 DEF IInv, TypeOK
  <2> QED BY <1>2, <2>1, Same, Quiet DEF clientThread, serverThread
<1> QED BY <1>3, <1>4, <1>5 DEF IInv

(* A server puts one connection back.                                      *)
LEMMA Putting ==
    ASSUME IInv, NEW k \in Ids, NEW d, Quietly(conns[k], d), Put(k, d),
           UNCHANGED <<sslServer, server, client>>
    PROVE  /\ conns' \in [Ids -> Conn] /\ AllSound' /\ NameWritten'
           /\ sslServer # 0 /\ conns[sslServer].as # 0 => conns'[sslServer].as # 0
<1>1. conns \in [Ids -> Conn] /\ d \in Conn /\ Free \in Conn
  BY New DEF IInv, TypeOK, Quietly
<1>2. /\ conns' \in [Ids -> Conn] /\ \A j \in Ids : j # k => conns'[j] = conns[j]
      /\ conns'[k] = d \/ (k # sslServer /\ conns'[k] = Free)
  BY <1>1 DEF Put
<1>3. \A j \in Ids : Quietly(conns[j], conns'[j]) \/ (j # sslServer /\ conns'[j] = Free)
  BY <1>2, Same
<1> QED BY <1>2, <1>3, Quiet

LEMMA ServerLogsInKeeps == ASSUME IInv, NEW k \in Ids, ServerLogsIn(k) PROVE IInv'
<1> DEFINE c == conns[k]
           m == Head(c.toServer)
           r == m = Name => c.server \in accepts
           said == [c EXCEPT !.toServer = Tail(@),
                             !.toProxy = Append(@, IF r THEN Granted ELSE Refused)]
           d == IF r THEN [said EXCEPT !.state = "in", !.as = m]
                     ELSE [said EXCEPT !.state = "closed", !.toServer = <<>>]
<1>1. /\ c \in Conn /\ Sound(c) /\ c.state = "name" /\ c.toServer # <<>>
      /\ r \in BOOLEAN /\ (r \/ m = Name)
  BY DEF IInv, TypeOK, AllSound, ServerLogsIn
<1>2. Quietly(c, d)
  <2>1. /\ d \in Conn /\ Sound(d) /\ (c.as # 0 => d.as # 0) /\ ~Fresh(c)
        /\ Introduced(c) => Introduced(d)
        /\ Introducing(c) => Introducing(d)
    <3> HIDE DEF r, c
    <3> QED BY <1>1, Login
  <2> QED BY <2>1 DEF Quietly
<1>3. /\ Put(k, d)
      /\ UNCHANGED <<flags, serverThread, clientThread, running, user, heard, cluster>>
  BY DEF ServerLogsIn, ServerSays
<1> HIDE DEF d, c
<1>4. /\ conns' \in [Ids -> Conn] /\ AllSound' /\ NameWritten'
      /\ sslServer # 0 /\ conns[sslServer].as # 0 => conns'[sslServer].as # 0
  BY <1>2, <1>3, Putting DEF serverThread, clientThread, c
<1>5. TypeOK'
  BY <1>3, <1>4 DEF IInv, TypeOK, flags, serverThread, clientThread, user, cluster
<1>6. Threads' /\ ConnectedIsLoggedIn' /\ CarriedOutForTheUser'
  BY <1>3, <1>4 DEF IInv, Threads, ConnectedIsLoggedIn, CarriedOutForTheUser,
                    flags, serverThread, clientThread, user, cluster
<1> QED BY <1>4, <1>5, <1>6 DEF IInv

(* What is carried out is carried out for the user: a session of somebody  *)
(* else has the name to read, and ends with it.                            *)
LEMMA ServerAnswersKeeps == ASSUME IInv, NEW k \in Ids, ServerAnswers(k) PROVE IInv'
<1> DEFINE c == conns[k]
           m == Head(c.toServer)
<1>1. c \in Conn /\ Sound(c) /\ c.state = "in" /\ c.toServer # <<>>
  BY DEF IInv, TypeOK, AllSound, ServerAnswers
<1>2. Introducing(c) \/ Introduced(c)
  BY DEF IInv, NameWritten
<1>3. UNCHANGED <<flags, serverThread, clientThread, running, user, heard, up, accepts>>
  BY DEF ServerAnswers
<1>4. \E d : Quietly(c, d) /\ Put(k, d)
  <2>1. CASE m > 0 /\ Put(k, ServerSays(k, m))
    <3> DEFINE d == [c EXCEPT !.toServer = Tail(@), !.toProxy = Append(@, m)]
    <3>1. /\ d \in Conn /\ Sound(d) /\ d.as = c.as /\ ~Introducing(c)
          /\ Introduced(c) => Introduced(d)
      BY <1>1, <2>1, Answering
    <3>2. Put(k, d)
      BY <2>1 DEF ServerSays
    <3>3. ~Fresh(c)
      BY <1>1 DEF Fresh
    <3> HIDE DEF d
    <3> QED BY <3>1, <3>2, <3>3 DEF Quietly
  <2>2. CASE Put(k, ServerClosed(k))
    <3> DEFINE d == ServerClosed(k)
    <3>1. /\ d \in Conn /\ Sound(d) /\ d.as = c.as /\ Introduced(d) /\ Introducing(d)
      <4>1. c.toProxy \in Seq(Messages)
        BY <1>1 DEF Conn
      <4>2. d = [c EXCEPT !.state = "closed", !.toServer = <<>>]
        BY DEF ServerClosed
      <4> HIDE DEF c, d
      <4>3. /\ d.state = "closed" /\ d.as = c.as /\ d.toServer = <<>> /\ d.toProxy = c.toProxy
        BY <1>1, <4>2 DEF Conn
      <4>4. d \in Conn
        <5>1. ASSUME NEW p \in Seq(Messages)
              PROVE  [c EXCEPT !.state = "closed", !.toServer = p] \in Conn
          BY <1>1 DEF Conn
        <5>2. <<>> \in Seq(Messages)
          OBVIOUS
        <5> QED BY <4>2, <5>1, <5>2
      <4> QED BY <1>1, <4>3, <4>4 DEF Sound, Introduced, Introducing
    <3>2. ~Fresh(c)
      BY <1>1 DEF Fresh
    <3> HIDE DEF d
    <3>3. Put(k, d)
      BY <2>2 DEF d
    <3> QED BY <3>1, <3>2, <3>3 DEF Quietly
  <2>3. CASE Put(k, ServerRefused(k))
    <3> DEFINE d == ServerRefused(k)
               q == Append(c.toProxy, Refused)
    <3>1. /\ d \in Conn /\ Sound(d) /\ d.as = c.as /\ Introduced(d) /\ Introducing(d)
      <4>1. q \in Seq(Messages)
        <5>1. c.toProxy \in Seq(Messages) /\ Refused \in Messages
          BY <1>1 DEF Conn, Refused, Messages
        <5> QED BY <5>1
      <4>2. d = [c EXCEPT !.state = "closed", !.toServer = <<>>, !.toProxy = q]
        BY <1>1 DEF ServerRefused, ServerClosed, Conn
      <4> HIDE DEF c, d, q
      <4>3. /\ d.state = "closed" /\ d.as = c.as /\ d.toServer = <<>> /\ d.toProxy = q
        BY <1>1, <4>2 DEF Conn
      <4>4. d \in Conn
        <5>1. ASSUME NEW p \in Seq(Messages)
              PROVE  [c EXCEPT !.state = "closed", !.toServer = p, !.toProxy = q] \in Conn
          BY <1>1, <4>1 DEF Conn
        <5>2. <<>> \in Seq(Messages)
          OBVIOUS
        <5> QED BY <4>2, <5>1, <5>2
      <4> QED BY <1>1, <4>3, <4>4 DEF Sound, Introduced, Introducing
    <3>2. ~Fresh(c)
      BY <1>1 DEF Fresh
    <3> HIDE DEF d
    <3>3. Put(k, d)
      BY <2>3 DEF d
    <3> QED BY <3>1, <3>2, <3>3 DEF Quietly
  <2> QED BY <2>1, <2>2, <2>3 DEF ServerAnswers
<1>5. /\ conns' \in [Ids -> Conn] /\ AllSound' /\ NameWritten'
      /\ sslServer # 0 /\ conns[sslServer].as # 0 => conns'[sslServer].as # 0
  BY <1>3, <1>4, Putting DEF serverThread, clientThread
<1>6. /\ done' \in Seq([request : 1 .. Requests, as : Messages])
      /\ CarriedOutForTheUser'
  <2>1. CASE m > 0 /\ done' = Append(done, [request |-> m, as |-> c.as])
    <3>1. m \in 1 .. Requests /\ c.as = Name /\ Name \in Messages
      <4>1. m \in 1 .. Requests /\ c.as = Name
        <5> HIDE DEF c
        <5> QED BY <1>1, <1>2, <2>1, Answering
      <4>2. Name \in Messages
        BY DEF Name, Messages
      <4> QED BY <4>1, <4>2
    <3> HIDE DEF m, c
    <3>2. [request |-> m, as |-> c.as] \in [request : 1 .. Requests, as : Messages]
      BY <3>1
    <3> QED BY <2>1, <3>1, <3>2 DEF IInv, TypeOK, CarriedOutForTheUser
  <2>2. CASE UNCHANGED done
    BY <2>2 DEF IInv, TypeOK, CarriedOutForTheUser
  <2> QED BY <2>1, <2>2 DEF ServerAnswers
<1>7. TypeOK'
  BY <1>3, <1>5, <1>6 DEF IInv, TypeOK, flags, serverThread, clientThread, user
<1>8. Threads' /\ ConnectedIsLoggedIn'
  BY <1>3, <1>5 DEF IInv, Threads, ConnectedIsLoggedIn, flags, serverThread, clientThread
<1> QED BY <1>5, <1>6, <1>7, <1>8 DEF IInv

LEMMA CrashKeeps == ASSUME IInv, NEW s \in Servers, Crash(s) PROVE IInv'
<1>1. PICK arrives \in BOOLEAN :
        conns' = [k \in Ids |->
                    IF conns[k].server # s THEN conns[k]
                    ELSE IF k # sslServer THEN Free
                    ELSE [conns[k] EXCEPT !.state = "dead", !.toServer = <<>>,
                                          !.toProxy = IF arrives THEN @ ELSE <<>>]]
  BY DEF Crash
<1>2. UNCHANGED <<flags, serverThread, clientThread, running, user, heard, accepts, done>>
      /\ up' \subseteq up
  BY DEF Crash
<1>3. ASSUME NEW k \in Ids
      PROVE  conns'[k] \in Conn
             /\ (Quietly(conns[k], conns'[k]) \/ (k # sslServer /\ conns'[k] = Free))
  <2>1. CASE conns[k].server # s
    BY <1>1, <2>1, Same DEF IInv, TypeOK
  <2>2. CASE conns[k].server = s /\ k # sslServer
    BY <1>1, <2>2, New
  <2>3. CASE conns[k].server = s /\ k = sslServer
    <3> DEFINE c == conns[k]
               q == IF arrives THEN c.toProxy ELSE <<>>
               d == [c EXCEPT !.state = "dead", !.toServer = <<>>, !.toProxy = q]
    <3>1. c \in Conn /\ Sound(c) /\ q \in {c.toProxy, <<>>}
      BY DEF IInv, TypeOK, AllSound
    <3>2. conns'[k] = d
      BY <1>1, <2>3
    <3>3. /\ d \in Conn /\ Sound(d) /\ d.as = c.as
          /\ Introduced(d) /\ Introducing(d) /\ Fresh(d)
      <4> HIDE DEF c, q
      <4> QED BY <3>1, Closing
    <3> HIDE DEF d
    <3> QED BY <3>2, <3>3 DEF Quietly
  <2> QED BY <2>1, <2>2, <2>3
<1>4. conns' \in [Ids -> Conn]
  BY <1>1, <1>3
<1>5. /\ AllSound' /\ NameWritten'
      /\ sslServer # 0 /\ conns[sslServer].as # 0 => conns'[sslServer].as # 0
  BY <1>2, <1>3, <1>4, Quiet DEF serverThread, clientThread
<1>6. TypeOK'
  BY <1>2, <1>4 DEF IInv, TypeOK, flags, serverThread, clientThread, user
<1>7. Threads' /\ ConnectedIsLoggedIn' /\ CarriedOutForTheUser'
  BY <1>2, <1>5 DEF IInv, Threads, ConnectedIsLoggedIn, CarriedOutForTheUser,
                    flags, serverThread, clientThread
<1> QED BY <1>5, <1>6, <1>7 DEF IInv

-----------------------------------------------------------------------------
LEMMA InitInv == Init => IInv
<1> SUFFICES ASSUME Init PROVE IInv
  OBVIOUS
<1>1. /\ 1 \in 1 .. N + 1 /\ 0 \in 0 .. Connections /\ 0 \in 0 .. Requests
      /\ 0 \notin Ids
  BY ProxyAssumption DEF Ids
<1>2. conns \in [Ids -> Conn] /\ \A k \in Ids : Sound(conns[k]) /\ Introduced(conns[k])
  BY New DEF Init
<1>3. TypeOK
  <2>1. /\ flags \in BOOLEAN \X BOOLEAN \X BOOLEAN \X BOOLEAN /\ there \in BOOLEAN
        /\ running \in BOOLEAN
    BY DEF Init, flags
  <2>2. /\ up \subseteq Servers /\ accepts \subseteq Servers
        /\ toProxy \in Seq(Messages) /\ heard \in Seq(Messages)
        /\ done \in Seq([request : 1 .. Requests, as : Messages])
    BY DEF Init
  <2> QED BY <1>1, <1>2, <2>1, <2>2 DEF Init, TypeOK
<1>4. Threads /\ ConnectedIsLoggedIn /\ CarriedOutForTheUser
  BY DEF Init, Threads, ConnectedIsLoggedIn, CarriedOutForTheUser
<1>5. AllSound /\ NameWritten
  BY <1>2 DEF Init, AllSound, NameWritten, Naming
<1> QED BY <1>3, <1>4, <1>5 DEF IInv

LEMMA StepInv == IInv /\ [Next]_vars => IInv'
<1> SUFFICES ASSUME IInv, [Next]_vars PROVE IInv'
  OBVIOUS
<1>1. CASE ClientThread
  BY <1>1, ClientLooksKeeps, ClientReadsKeeps, ClientWritesKeeps, ClientDropsKeeps,
     ClientEndsKeeps DEF ClientThread
<1>2. CASE ServerThread
  BY <1>2, ServerLooksKeeps, ServerReadsKeeps, ServerForwardsKeeps, ServerClosesKeeps,
     ServerDialsKeeps, ServerNamesKeeps, ServerHearsKeeps, ServerTellsKeeps, ServerLoggedKeeps
     DEF ServerThread
<1>3. ASSUME NEW k \in Ids, Serves(k) PROVE IInv'
  BY <1>3, ServerLogsInKeeps, ServerAnswersKeeps DEF Serves
<1>4. ASSUME NEW s \in Servers, Crash(s) PROVE IInv'
  BY <1>4, CrashKeeps
<1>5. CASE ClientSends \/ ClientLeaves
  BY <1>5, ClientMovesKeeps
<1>6. CASE UNCHANGED vars
  BY <1>6 DEF vars, flags, serverThread, clientThread, user, cluster, IInv, TypeOK, Threads,
     AllSound, NameWritten, Naming, ConnectedIsLoggedIn, CarriedOutForTheUser
<1> QED BY <1>1, <1>2, <1>3, <1>4, <1>5, <1>6 DEF Next

(* The invariant of the proxy, however many servers and requests there are.*)
LEMMA Invariant == Safety => []IInv
  BY InitInv, StepInv, PTL DEF Safety

(* The variables of the proxy keep their types.                            *)
THEOREM TypesAreKept == Safety => []TypeOK
<1>1. IInv => TypeOK
  BY DEF IInv
<1> QED BY <1>1, Invariant, PTL

(* The connection that the proxy takes for its own is logged in to,        *)
(* however the two threads close and replace it under each other.          *)
THEOREM LoggedInWhenConnected == Safety => []ConnectedIsLoggedIn
<1>1. IInv => ConnectedIsLoggedIn
  BY DEF IInv
<1> QED BY <1>1, Invariant, PTL

(* A request that overtakes the user name on a new connection is never     *)
(* followed by one that is carried out: no request is carried out for      *)
(* anyone but the user.                                                    *)
THEOREM OnlyForTheUser == Safety => []CarriedOutForTheUser
<1>1. IInv => CarriedOutForTheUser
  BY DEF IInv
<1> QED BY <1>1, Invariant, PTL

-----------------------------------------------------------------------------
(* The order in which the proxy lets requests and answers pass.            *)
(* The proxy forgets connections that servers may still read from, and     *)
(* writes to others meanwhile; requests stay in order because a connection *)
(* that is left with a request to read is the last one the client's thread *)
(* ever wrote a request to.                                                *)

(* Sequences of messages, in which only requests, that are positive, have  *)
(* an order.                                                               *)
Has(s, r) == \E i \in DOMAIN s : s[i] = r
Rising(s) == \A i, j \in DOMAIN s : i < j /\ s[i] > 0 /\ s[j] > 0 => s[i] < s[j]
Above(s, r) == \A i \in DOMAIN s : s[i] > 0 => r < s[i]

Carried == {done[d].request : d \in DOMAIN done}
Loaded(k) == \E r \in 1 .. Requests : Has(conns[k].toServer, r)
CurrentLoaded == sslServer # 0 /\ Loaded(sslServer)
Passed(r) == r \in Carried \/ \E k \in Ids : Has(conns[k].toServer, r)

(* What the client has written is ahead of what the client's thread has    *)
(* read, and that of what has been written to servers.                     *)
Queued ==
    /\ Rising(toProxy) /\ \A i \in DOMAIN toProxy : toProxy[i] <= sent
    /\ told <= sent /\ (told > 0 => Above(toProxy, told))
    /\ \A r \in 1 .. Requests : Passed(r) =>
          r <= sent /\ (told > 0 => r < told) /\ Above(toProxy, r)

(* The requests on a connection are ahead of those carried out, and at     *)
(* most one connection has any.                                            *)
Served == \A k \in Ids : Rising(conns[k].toServer) /\ \A r \in Carried : Above(conns[k].toServer, r)
OneLoaded == \A j, k \in Ids : Loaded(j) /\ Loaded(k) => j = k

(* The connection will not be used any more, or there is none.             *)
Connecting == server \in {"name", "login", "tell", "logged"}
Unused == ~isServerConnected /\ ~Connecting /\ server \notin {"leave", "done"}
Ended(k) == conns[k].state \in {"closed", "dead"}

(* While the client's thread may write again, a connection that is left or *)
(* not used any more has no request to read.                               *)
Left ==
    /\ client = "drop" => ~CurrentLoaded
    /\ client \notin {"leave", "done"} =>
          /\ \A k \in Ids : k # sslServer => ~Loaded(k)
          /\ Unused => ~CurrentLoaded
    /\ client \in {"read", "write"} /\ Unused => ~Open

(* Until the client is told of a login there is no request.                *)
First ==
    first_login => /\ client \in {"look", "done"} /\ ~isServerConnected
                   /\ heard = <<>> /\ sent = 0
                   /\ server \notin {"read", "forward", "close", "logged"}

(* The first answer on a connection is the one to the login; if it is not  *)
(* Granted, the connection has ended.                                      *)
Later(s) == \A i \in DOMAIN s : s[i] \in (1 .. Requests) \cup {Refused}
LoginFirst ==
    /\ \A k \in Ids : conns[k].state = "name" => conns[k].toProxy = <<>>
    /\ server = "close" => Ended(sslServer)
    /\ server \in {"tell", "logged"} =>
          answer = Granted \/ (answer \in {Refused, Nothing} /\ Ended(sslServer))
    /\ server \in {"name", "login"} /\ Says # <<>> =>
          /\ Head(Says) = Granted \/ (Head(Says) = Refused /\ Ended(sslServer))
          /\ Later(Tail(Says))
    /\ server \in {"name", "login"} /\ conns[sslServer].state = "in" => Says # <<>>
    /\ isServerConnected \/ server \in {"read", "tell", "logged"} =>
          conns[sslServer].state # "name" /\ Later(Says)
    /\ server = "forward" => answer \in (1 .. Requests) \cup {Refused}

(* Answers pass in the order in which the requests were carried out.       *)
Relayed ==
    /\ answer > 0 => answer \in Carried /\ (sslServer # 0 => Above(Says, answer))
    /\ \A i \in DOMAIN heard : heard[i] > 0 =>
          /\ heard[i] \in Carried /\ (answer > 0 => heard[i] < answer)
          /\ sslServer # 0 => Above(Says, heard[i])
    /\ sslServer # 0 => Rising(Says) /\ \A i \in DOMAIN Says : Says[i] > 0 => Says[i] \in Carried
    /\ Rising(heard)
Untold == heard = <<>> => first_login \/ ~there
Told ==
    /\ heard # <<>> => heard[1] \in {Granted, Refused, Nothing}
    /\ \A i \in 2 .. Len(heard) : heard[i] \in Carried \cup {Refused}

Writes == Queued /\ Served /\ OneLoaded /\ Left /\ First /\ CarriedOutInOrder
Answered == LoginFirst /\ Relayed /\ Untold /\ Told

-----------------------------------------------------------------------------
(* Sequences that are written to and read from.                            *)
LEMMA MessageNumbers ==
    Messages \subseteq Int /\ \A m \in Messages : m > 0 <=> m \in 1 .. Requests
  BY ProxyAssumption DEF Messages

LEMMA Appended ==
    ASSUME NEW s \in Seq(Messages), NEW m \in Messages
    PROVE  /\ Append(s, m) \in Seq(Messages)
           /\ Rising(s) /\ (m > 0 => \A i \in DOMAIN s : s[i] < m) => Rising(Append(s, m))
           /\ \A r \in Int : Above(s, r) /\ (m > 0 => r < m) => Above(Append(s, m), r)
           /\ \A r : Has(Append(s, m), r) <=> Has(s, r) \/ r = m
<1> DEFINE t == Append(s, m)
<1>1. /\ t \in Seq(Messages) /\ Len(t) = Len(s) + 1 /\ Len(s) \in Nat
      /\ DOMAIN s = 1 .. Len(s) /\ DOMAIN t = 1 .. Len(s) + 1
      /\ \A i \in DOMAIN s : t[i] = s[i] /\ s[i] \in Messages
      /\ t[Len(s) + 1] = m
  OBVIOUS
<1> HIDE DEF t
<1>2. \A i \in DOMAIN t : i \in DOMAIN s \/ i = Len(s) + 1
  BY <1>1
<1>3. ASSUME Rising(s), m > 0 => \A i \in DOMAIN s : s[i] < m PROVE Rising(t)
  <2> SUFFICES ASSUME NEW i \in DOMAIN t, NEW j \in DOMAIN t, i < j, t[i] > 0, t[j] > 0
               PROVE  t[i] < t[j]
    BY DEF Rising
  <2>1. i \in DOMAIN s
    BY <1>1
  <2>2. CASE j \in DOMAIN s
    BY <1>1, <1>3, <2>1, <2>2 DEF Rising
  <2>3. CASE j = Len(s) + 1
    BY <1>1, <1>3, <2>1, <2>3
  <2> QED BY <1>2, <2>2, <2>3
<1>4. ASSUME NEW r \in Int, Above(s, r), m > 0 => r < m PROVE Above(t, r)
  BY <1>1, <1>2, <1>4 DEF Above
<1>5. ASSUME NEW r PROVE Has(t, r) <=> Has(s, r) \/ r = m
  <2>1. DOMAIN s \subseteq DOMAIN t /\ Len(s) + 1 \in DOMAIN t
    BY <1>1
  <2> QED BY <1>1, <1>2, <2>1 DEF Has
<1> QED BY <1>1, <1>3, <1>4, <1>5 DEF t

LEMMA Shortened ==
    ASSUME NEW s \in Seq(Messages), s # <<>>
    PROVE  /\ Head(s) \in Messages /\ Tail(s) \in Seq(Messages) /\ Has(s, Head(s))
           /\ Rising(s) => Rising(Tail(s)) /\ (Head(s) > 0 => Above(Tail(s), Head(s)))
           /\ \A r : Above(s, r) => Above(Tail(s), r) /\ (Head(s) > 0 => r < Head(s))
           /\ \A r : Has(Tail(s), r) => Has(s, r)
<1> DEFINE t == Tail(s)
<1>1. /\ t \in Seq(Messages) /\ Len(s) \in Nat /\ 1 \in DOMAIN s /\ Head(s) = s[1]
      /\ DOMAIN s = 1 .. Len(s) /\ DOMAIN t = 1 .. Len(s) - 1
      /\ \A i \in DOMAIN t : t[i] = s[i + 1] /\ i + 1 \in DOMAIN s /\ i + 1 > 1
      /\ \A i \in DOMAIN s : s[i] \in Messages
  OBVIOUS
<1> HIDE DEF t
<1>2. ASSUME Rising(s) PROVE Rising(t) /\ (Head(s) > 0 => Above(t, Head(s)))
  <2>1. \A i, j \in DOMAIN t : i < j => i + 1 < j + 1
    BY <1>1
  <2> QED BY <1>1, <1>2, <2>1 DEF Rising, Above
<1>3. ASSUME NEW r, Above(s, r) PROVE Above(t, r) /\ (Head(s) > 0 => r < Head(s))
  BY <1>1, <1>3 DEF Above
<1>4. ASSUME NEW r, Has(t, r) PROVE Has(s, r)
  BY <1>1, <1>4 DEF Has
<1> QED BY <1>1, <1>2, <1>3, <1>4 DEF t, Has

LEMMA Emptied == Rising(<<>>) /\ \A r : Above(<<>>, r) /\ ~Has(<<>>, r)
  BY DEF Rising, Above, Has

(* A sequence with no request more.                                        *)
Thins(s, t) ==
    /\ t \in Seq(Messages) /\ (Rising(s) => Rising(t))
    /\ \A r \in 1 .. Requests : Has(t, r) => Has(s, r)
    /\ \A r \in Int : Above(s, r) => Above(t, r)

LEMMA Thinning ==
    ASSUME NEW s \in Seq(Messages)
    PROVE  /\ Thins(s, s) /\ Thins(s, <<>>)
           /\ s # <<>> => Thins(s, Tail(s))
           /\ \A m \in Messages : m < 0 => Thins(s, Append(s, m))
<1>1. Thins(s, s) /\ Thins(s, <<>>)
  BY Emptied DEF Thins
<1>2. ASSUME s # <<>> PROVE Thins(s, Tail(s))
  BY <1>2, Shortened DEF Thins
<1>3. ASSUME NEW m \in Messages, m < 0 PROVE Thins(s, Append(s, m))
  BY <1>3, Appended, MessageNumbers DEF Thins
<1> QED BY <1>1, <1>2, <1>3

-----------------------------------------------------------------------------
(* What a step does to the connections, when it writes no request and      *)
(* makes no connection.                                                    *)
Follows(c, d) ==
    /\ Thins(c.toServer, d.toServer)
    /\ c.state \in {"closed", "dead"} => d.state \in {"closed", "dead"}
    /\ d.state \in {"name", "in"} => c.state \in {"name", "in"}
Followed ==
    /\ sslServer' = sslServer
    /\ \A k \in Ids : Follows(conns[k], conns'[k]) \/ (k # sslServer /\ conns'[k] = Free)
Thinned == \A k \in Ids : Thins(conns[k].toServer, conns'[k].toServer)

LEMMA CurrentId == ASSUME IInv, sslServer # 0 PROVE sslServer \in Ids
  BY ProxyAssumption DEF IInv, TypeOK, Ids

LEMMA ToServers ==
    ASSUME IInv, NEW k \in Ids
    PROVE  /\ conns[k] \in Conn /\ conns[k].toServer \in Seq(Messages)
           /\ conns[k].toProxy \in Seq(Messages) /\ Sound(conns[k])
  BY DEF IInv, TypeOK, Conn, AllSound

(* A connection that is not open has nothing to be read.                   *)
LEMMA NothingThere ==
    ASSUME IInv, ~Open PROVE ~CurrentLoaded
<1> SUFFICES ASSUME sslServer # 0 PROVE ~Loaded(sslServer)
  BY DEF CurrentLoaded
<1>1. sslServer \in Ids
  BY CurrentId
<1>2. conns[sslServer].toServer = <<>>
  BY <1>1, ToServers DEF Open, Sound, Conn
<1> QED BY <1>2, Emptied DEF Loaded

LEMMA SameFollowed ==
    ASSUME IInv, UNCHANGED <<sslServer, conns>>
    PROVE  Followed
  BY ToServers, Thinning DEF Followed, Follows

LEMMA OneFollowed ==
    ASSUME IInv, UNCHANGED sslServer, NEW k \in Ids, NEW d, conns' = [conns EXCEPT ![k] = d],
           Follows(conns[k], d)
    PROVE  Followed
<1>1. conns'[k] = d /\ \A j \in Ids : j # k => conns'[j] = conns[j]
  BY DEF IInv, TypeOK
<1>2. \A j \in Ids : Follows(conns[j], conns[j])
  BY ToServers, Thinning DEF Follows
<1> QED BY <1>1, <1>2 DEF Followed

LEMMA WritingFollowed ==
    ASSUME IInv, NEW m \in Messages, m < 0, Reaches(m) \/ Vanishes \/ Fails, UNCHANGED sslServer
    PROVE  Followed
<1>1. CASE Reaches(m)
  <2> DEFINE c == conns[sslServer]
             d == [c EXCEPT !.toServer = Append(@, m)]
  <2>1. sslServer \in Ids /\ c.state \in {"name", "in"}
    BY <1>1, CurrentId DEF Reaches, Open
  <2>2. c \in Conn /\ c.toServer \in Seq(Messages)
    BY <2>1, ToServers
  <2>3. d.state = c.state /\ d.toServer = Append(c.toServer, m)
    BY <2>2 DEF Conn
  <2>4. conns' = [conns EXCEPT ![sslServer] = d]
    BY <1>1, <2>1 DEF Reaches
  <2>5. Follows(c, d)
    BY <2>1, <2>2, <2>3, Thinning DEF Follows
  <2> HIDE DEF d
  <2> QED BY <2>1, <2>4, <2>5, OneFollowed
<1>2. CASE Vanishes \/ Fails
  BY <1>2, SameFollowed DEF Vanishes, Fails
<1> QED BY <1>1, <1>2

LEMMA TakingFollowed ==
    ASSUME IInv, Takes, sslServer # 0, UNCHANGED sslServer
    PROVE  Followed
<1> DEFINE c == conns[sslServer]
           d == [c EXCEPT !.toProxy = Tail(@)]
<1>1. sslServer \in Ids /\ c \in Conn /\ c.toServer \in Seq(Messages)
  BY CurrentId, ToServers
<1>2. d.state = c.state /\ d.toServer = c.toServer
  BY <1>1 DEF Conn
<1>3. conns' = [conns EXCEPT ![sslServer] = d]
  BY <1>1 DEF Takes
<1>4. Follows(c, d)
  BY <1>1, <1>2, Thinning DEF Follows
<1> HIDE DEF d
<1> QED BY <1>1, <1>3, <1>4, OneFollowed

LEMMA PuttingFollowed ==
    ASSUME IInv, NEW k \in Ids, NEW d, Follows(conns[k], d), Put(k, d), UNCHANGED sslServer
    PROVE  Followed /\ conns'[k].toServer = d.toServer
           /\ \A j \in Ids : j # k => conns'[j] = conns[j]
<1>1. /\ \A j \in Ids : j # k => conns'[j] = conns[j]
      /\ conns'[k] = d \/ (k # sslServer /\ conns'[k] = Free /\ d.toServer = <<>>)
  BY DEF Put, IInv, TypeOK
<1>2. \A j \in Ids : Follows(conns[j], conns[j])
  BY ToServers, Thinning DEF Follows
<1> QED BY <1>1, <1>2 DEF Followed, Free

LEMMA LoginFollowed ==
    ASSUME IInv, NEW k \in Ids, ServerLogsIn(k)
    PROVE  Followed
<1> DEFINE c == conns[k]
           m == Head(c.toServer)
           r == m = Name => c.server \in accepts
           said == ServerSays(k, IF r THEN Granted ELSE Refused)
           d == IF r THEN [said EXCEPT !.state = "in", !.as = m]
                     ELSE [said EXCEPT !.state = "closed", !.toServer = <<>>]
<1>1. /\ c \in Conn /\ c.toServer \in Seq(Messages) /\ c.state = "name" /\ c.toServer # <<>>
      /\ Put(k, d) /\ UNCHANGED sslServer
  BY ToServers DEF ServerLogsIn, serverThread
<1>2. Follows(c, d)
  <2>1. d.state \in {"in", "closed"} /\ d.toServer \in {Tail(c.toServer), <<>>}
    BY <1>1 DEF ServerSays, Conn
  <2> HIDE DEF d, c
  <2> QED BY <1>1, <2>1, Thinning DEF Follows
<1> HIDE DEF d
<1> QED BY <1>1, <1>2, PuttingFollowed

(* The server takes a request from a connection, or closes it.             *)
LEMMA AnswersFollowed ==
    ASSUME IInv, NEW k \in Ids, ServerAnswers(k)
    PROVE  /\ Followed
           /\ \/ UNCHANGED done
              \/ LET s == conns[k].toServer
                 IN  /\ s # <<>> /\ Head(s) > 0 /\ conns'[k].toServer = Tail(s)
                     /\ done' = Append(done, [request |-> Head(s), as |-> conns[k].as])
                     /\ \A j \in Ids : j # k => conns'[j] = conns[j]
<1> DEFINE c == conns[k]
           m == Head(c.toServer)
<1>1. /\ c \in Conn /\ c.toServer \in Seq(Messages) /\ c.state = "in" /\ c.toServer # <<>>
      /\ UNCHANGED sslServer
  BY ToServers DEF ServerAnswers, serverThread
<1>2. CASE /\ m > 0 /\ Put(k, ServerSays(k, m))
           /\ done' = Append(done, [request |-> m, as |-> c.as])
  <2> DEFINE d == ServerSays(k, m)
  <2>1. d.state = "in" /\ d.toServer = Tail(c.toServer)
    BY <1>1 DEF ServerSays, Conn
  <2> HIDE DEF d
  <2>2. Follows(c, d)
    BY <1>1, <2>1, Thinning DEF Follows
  <2>3. Put(k, d)
    BY <1>2 DEF d
  <2> QED BY <1>1, <1>2, <2>1, <2>2, <2>3, PuttingFollowed
<1>3. CASE (Put(k, ServerClosed(k)) \/ Put(k, ServerRefused(k))) /\ UNCHANGED done
  <2>1. PICK d \in {ServerClosed(k), ServerRefused(k)} : Put(k, d)
    BY <1>3
  <2>2. d.state = "closed" /\ d.toServer = <<>>
    BY <1>1 DEF ServerClosed, ServerRefused, Conn
  <2>3. Follows(c, d)
    BY <1>1, <2>2, Thinning DEF Follows
  <2> QED BY <1>1, <1>3, <2>1, <2>3, PuttingFollowed
<1> QED BY <1>2, <1>3 DEF ServerAnswers

LEMMA CrashFollowed ==
    ASSUME IInv, NEW s \in Servers, Crash(s)
    PROVE  Followed
<1>1. PICK arrives \in BOOLEAN :
        conns' = [k \in Ids |->
                    IF conns[k].server # s THEN conns[k]
                    ELSE IF k # sslServer THEN Free
                    ELSE [conns[k] EXCEPT !.state = "dead", !.toServer = <<>>,
                                          !.toProxy = IF arrives THEN @ ELSE <<>>]]
  BY DEF Crash
<1>2. UNCHANGED sslServer
  BY DEF Crash, serverThread
<1>3. ASSUME NEW k \in Ids
      PROVE  Follows(conns[k], conns'[k]) \/ (k # sslServer /\ conns'[k] = Free)
  <2>1. conns[k] \in Conn /\ conns[k].toServer \in Seq(Messages)
    BY ToServers
  <2>2. CASE conns[k].server # s
    BY <1>1, <2>1, <2>2, Thinning DEF Follows
  <2>3. CASE conns[k].server = s /\ k # sslServer
    BY <1>1, <2>3
  <2>4. CASE conns[k].server = s /\ k = sslServer
    <3>1. conns'[k].state = "dead" /\ conns'[k].toServer = <<>>
      BY <1>1, <2>1, <2>4 DEF Conn
    <3> QED BY <2>1, <3>1, Thinning DEF Follows
  <2> QED BY <2>2, <2>3, <2>4
<1> QED BY <1>2, <1>3 DEF Followed

(* A new connection is made; those before it that have been read are gone. *)
LEMMA DialsThinned ==
    ASSUME IInv, Dials
    PROVE  /\ Thinned /\ sslServer' \in Ids
           /\ conns'[sslServer'].toServer = <<>> /\ conns'[sslServer'].toProxy = <<>>
           /\ conns'[sslServer'].state = "name"
           /\ \A j \in Ids : j # sslServer' => conns'[j] \in {Free, conns[j]}
<1>1. PICK n \in Ids :
        /\ sslServer' = n
        /\ conns' = [j \in Ids |->
              IF j = n THEN [Free EXCEPT !.server = it, !.state = "name"]
              ELSE IF conns[j].toServer = <<>> THEN Free ELSE conns[j]]
  BY DEF Dials
<1>2. /\ conns'[n].toServer = <<>> /\ conns'[n].toProxy = <<>> /\ conns'[n].state = "name"
      /\ \A j \in Ids : j # n => conns'[j] \in {Free, conns[j]}
  BY <1>1 DEF Free
<1>3. \A j \in Ids : conns'[j].toServer \in {<<>>, conns[j].toServer}
  BY <1>2 DEF Free
<1>4. Thinned
  BY <1>3, ToServers, Thinning DEF Thinned
<1> QED BY <1>1, <1>2, <1>4

LEMMA FollowedThinned ==
    ASSUME IInv, Followed
    PROVE  /\ Thinned /\ (Open' => Open) /\ (CurrentLoaded' => CurrentLoaded)
           /\ \A k \in Ids : k = sslServer /\ Ended(k) => Ended(k)'
<1>1. \A k \in Ids : Thins(conns[k].toServer, conns'[k].toServer)
  BY ToServers, Thinning DEF Followed, Follows, Free
<1>2. sslServer # 0 => sslServer \in Ids /\ Follows(conns[sslServer], conns'[sslServer])
  BY CurrentId DEF Followed
<1> QED BY <1>1, <1>2 DEF Thinned, Followed, Follows, Open, CurrentLoaded, Loaded, Thins, Ended

LEMMA CarriedNumbers == ASSUME IInv PROVE Carried \subseteq 1 .. Requests
<1> DEFINE S == [request : 1 .. Requests, as : Messages]
<1>1. done \in Seq(S)
  BY DEF IInv, TypeOK
<1>2. \A e \in S : e.request \in 1 .. Requests
  OBVIOUS
<1> HIDE DEF S
<1>3. \A d \in DOMAIN done : done[d] \in S
  BY <1>1
<1> QED BY <1>2, <1>3 DEF Carried

(* No request is added to a connection.                                    *)
LEMMA ThinnedServes ==
    ASSUME IInv, Thinned, UNCHANGED done, Served, OneLoaded, CarriedOutInOrder
    PROVE  /\ Served' /\ OneLoaded' /\ CarriedOutInOrder'
           /\ \A k \in Ids : Loaded(k)' => Loaded(k)
           /\ \A r \in 1 .. Requests : Passed(r)' => Passed(r)
<1>1. Carried \subseteq Int
  BY CarriedNumbers
<1>2. \A k \in Ids : Loaded(k)' => Loaded(k)
  BY DEF Thinned, Thins, Loaded
<1>3. Served'
  BY <1>1 DEF Served, Thinned, Thins, Carried
<1>4. OneLoaded' /\ CarriedOutInOrder'
  BY <1>2 DEF OneLoaded, CarriedOutInOrder
<1>5. \A r \in 1 .. Requests : Passed(r)' => Passed(r)
  BY DEF Passed, Carried, Thinned, Thins
<1> QED BY <1>2, <1>3, <1>4, <1>5

LEMMA CarriedAdded ==
    ASSUME IInv, NEW m \in 1 .. Requests, NEW a,
           done' = Append(done, [request |-> m, as |-> a])
    PROVE  /\ Carried' = Carried \cup {m}
           /\ CarriedOutInOrder /\ (\A r \in Carried : r < m) => CarriedOutInOrder'
<1> DEFINE e == [request |-> m, as |-> a]
<1>1. /\ Len(done) \in Nat /\ DOMAIN done = 1 .. Len(done)
      /\ DOMAIN done' = 1 .. Len(done) + 1
      /\ \A d \in DOMAIN done : done'[d] = done[d] /\ done[d].request \in Carried
      /\ done'[Len(done) + 1].request = m
  BY DEF IInv, TypeOK, Carried
<1>2. DOMAIN done' = DOMAIN done \cup {Len(done) + 1}
  BY <1>1
<1>3. Carried' = Carried \cup {m}
  BY <1>1, <1>2 DEF Carried
<1>4. ASSUME CarriedOutInOrder, \A r \in Carried : r < m
      PROVE  CarriedOutInOrder'
  <2> SUFFICES ASSUME NEW i \in DOMAIN done', NEW j \in DOMAIN done', i < j
               PROVE  done'[i].request < done'[j].request
    BY DEF CarriedOutInOrder
  <2>1. i \in DOMAIN done
    BY <1>1
  <2> QED BY <1>1, <1>2, <1>4, <2>1 DEF CarriedOutInOrder
<1> QED BY <1>3, <1>4

(* The request a server takes is the first of those that are still to be   *)
(* carried out.                                                            *)
LEMMA AnswersServe ==
    ASSUME IInv, Writes, NEW k \in Ids, ServerAnswers(k)
    PROVE  /\ Served' /\ OneLoaded' /\ CarriedOutInOrder'
           /\ \A j \in Ids : Loaded(j)' => Loaded(j)
           /\ \A r \in 1 .. Requests : Passed(r)' => Passed(r)
           /\ \A r \in Carried : r \in Carried'
           /\ \A r \in Carried' : r \in Carried \/ \A q \in Carried : q < r
<1> DEFINE s == conns[k].toServer
<1>1. Followed /\ Thinned
  BY AnswersFollowed, FollowedThinned
<1>2. CASE UNCHANGED done
  BY <1>1, <1>2, ThinnedServes DEF Writes, Carried
<1>3. CASE /\ s # <<>> /\ Head(s) > 0 /\ conns'[k].toServer = Tail(s)
           /\ done' = Append(done, [request |-> Head(s), as |-> conns[k].as])
           /\ \A j \in Ids : j # k => conns'[j] = conns[j]
  <2> DEFINE m == Head(s)
  <2>1. s \in Seq(Messages) /\ Rising(s) /\ \A r \in Carried : Above(s, r)
    BY ToServers DEF Writes, Served
  <2>2. /\ m \in 1 .. Requests /\ Has(s, m) /\ Rising(Tail(s)) /\ Above(Tail(s), m)
        /\ \A r \in Carried : Above(Tail(s), r) /\ r < m
        /\ \A r : Has(Tail(s), r) => Has(s, r)
    BY <1>3, <2>1, Shortened, MessageNumbers
  <2>3. /\ Carried' = Carried \cup {m} /\ CarriedOutInOrder'
    <3> HIDE DEF m
    <3>1. done' = Append(done, [request |-> m, as |-> conns[k].as])
      BY <1>3 DEF m
    <3>2. CarriedOutInOrder /\ \A r \in Carried : r < m
      BY <2>2 DEF Writes
    <3> QED BY <2>2, <3>1, <3>2, CarriedAdded
  <2>4. \A j \in Ids : j # k => ~Loaded(j)
    BY <2>2 DEF Writes, OneLoaded, Loaded
  <2>5. \A j \in Ids : Loaded(j)' => Loaded(j)
    BY <1>1 DEF Thinned, Thins, Loaded
  <2> HIDE DEF m
  <2>6. ASSUME NEW j \in Ids
        PROVE  Rising(conns'[j].toServer) /\ \A r \in Carried' : Above(conns'[j].toServer, r)
    <3>1. CASE j = k
      BY <1>3, <2>2, <2>3, <3>1 DEF m
    <3>2. CASE j # k
      <4>1. conns[j].toServer \in Seq(Messages) /\ ~Loaded(j)
        BY <2>4, <3>2, ToServers
      <4>2. \A i \in DOMAIN conns[j].toServer : ~(conns[j].toServer[i] > 0)
        <5>1. \A i \in DOMAIN conns[j].toServer : conns[j].toServer[i] \in Messages
          BY <4>1
        <5> QED BY <4>1, <5>1, MessageNumbers DEF Loaded, Has
      <4>3. conns'[j] = conns[j]
        BY <1>3, <3>2
      <4> QED BY <4>2, <4>3 DEF Rising, Above
    <3> QED BY <3>1, <3>2
  <2>7. \A r \in 1 .. Requests : Passed(r)' => Passed(r)
    <3>1. ASSUME NEW r \in 1 .. Requests, NEW j \in Ids, Has(conns'[j].toServer, r)
          PROVE  Passed(r)
      BY <1>3, <2>2, <3>1 DEF Passed
    <3>2. Passed(m)
      BY <2>2 DEF Passed
    <3> QED BY <2>3, <3>1, <3>2 DEF Passed
  <2> QED BY <2>2, <2>3, <2>5, <2>6, <2>7 DEF Served, OneLoaded, Writes
<1> QED BY <1>2, <1>3, AnswersFollowed

-----------------------------------------------------------------------------
(* What the client writes, and the client's thread reads.                  *)
LEMMA QueuedKept ==
    ASSUME Queued, \A r \in 1 .. Requests : Passed(r)' => Passed(r),
           UNCHANGED <<toProxy, sent, told>>
    PROVE  Queued'
  BY DEF Queued

LEMMA ClientMovesQueued == ASSUME IInv, Queued, ClientSends \/ ClientLeaves PROVE Queued'
<1>1. /\ toProxy \in Seq(Messages) /\ sent \in 0 .. Requests /\ told \in Messages \cup {0}
      /\ \A i \in DOMAIN toProxy : toProxy[i] \in Messages
  BY DEF IInv, TypeOK
<1>2. UNCHANGED <<told, conns, done>>
  BY DEF ClientSends, ClientLeaves, clientThread, cluster
<1>3. \A r \in 1 .. Requests : Passed(r)' => Passed(r)
  BY <1>2 DEF Passed, Carried
<1>4. CASE ClientSends
  <2> DEFINE m == sent + 1
  <2>1. /\ m \in 1 .. Requests /\ m \in Messages /\ sent' = m /\ toProxy' = Append(toProxy, m)
    BY <1>1, <1>4, ProxyAssumption DEF ClientSends, Messages
  <2>2. \A i \in DOMAIN toProxy : toProxy[i] < m
    <3>1. \A i \in DOMAIN toProxy : toProxy[i] \in Int /\ toProxy[i] <= sent
      BY <1>1, MessageNumbers DEF Queued
    <3>2. sent \in Int
      BY <1>1
    <3> QED BY <3>1, <3>2
  <2> HIDE DEF m
  <2>3. Rising(toProxy') /\ \A r \in Int : Above(toProxy, r) /\ r < m => Above(toProxy', r)
    BY <1>1, <2>1, <2>2, Appended DEF Queued
  <2>4. \A i \in DOMAIN toProxy' : \/ i \in DOMAIN toProxy /\ toProxy'[i] = toProxy[i]
                                \/ toProxy'[i] = m
    BY <1>1, <2>1
  <2>5. \A i \in DOMAIN toProxy' : toProxy'[i] <= m
    <3>1. m \in Int /\ \A i \in DOMAIN toProxy : toProxy[i] \in Int
      BY <1>1, <2>1, MessageNumbers
    <3> QED BY <2>2, <2>4, <3>1
  <2>6. told \in Int /\ told < m
    BY <1>1, <2>1, MessageNumbers DEF Queued, m
  <2>7. \A r \in 1 .. Requests : Passed(r) => r < m
    BY <1>1, <2>1 DEF Queued, m
  <2> QED BY <1>1, <1>2, <1>3, <2>1, <2>3, <2>5, <2>6, <2>7 DEF Queued
<1>5. CASE ClientLeaves
  <2>1. sent' = sent /\ (toProxy' = toProxy \/ toProxy' = Append(toProxy, End))
    BY <1>5 DEF ClientLeaves
  <2>2. CASE toProxy' = toProxy
    BY <1>2, <1>3, <2>1, <2>2, QueuedKept
  <2>3. CASE toProxy' = Append(toProxy, End)
    <3>1. End \in Messages /\ End < 0 /\ End <= sent
      BY <1>1 DEF End, Messages
    <3>2. Rising(toProxy') /\ \A r \in Int : Above(toProxy, r) => Above(toProxy', r)
      <4>1. Thins(toProxy, toProxy')
        BY <1>1, <2>3, <3>1, Thinning
      <4> QED BY <4>1 DEF Thins, Queued
    <3>3. \A i \in DOMAIN toProxy' :
            \/ i \in DOMAIN toProxy /\ toProxy'[i] = toProxy[i]
            \/ toProxy'[i] = End
      BY <1>1, <2>3
    <3>4. told \in Int
      BY <1>1, MessageNumbers
    <3> QED BY <1>2, <1>3, <2>1, <3>1, <3>2, <3>3, <3>4 DEF Queued
  <2> QED BY <2>1, <2>2, <2>3
<1> QED BY <1>4, <1>5

LEMMA ClientReadsQueued == ASSUME IInv, Queued, ClientReads PROVE Queued'
<1>1. UNCHANGED <<sent, conns, done>>
  BY DEF ClientReads, cluster
<1>2. \A r \in 1 .. Requests : Passed(r)' => Passed(r)
  BY <1>1 DEF Passed, Carried
<1>3. CASE toProxy # <<>> /\ told' = Head(toProxy) /\ toProxy' = Tail(toProxy)
  <2>1. toProxy \in Seq(Messages) /\ toProxy # <<>>
    BY <1>3 DEF IInv, TypeOK
  <2>2. /\ Rising(toProxy') /\ (told' > 0 => Above(toProxy', told'))
        /\ \A r : Above(toProxy, r) => Above(toProxy', r) /\ (told' > 0 => r < told')
    BY <1>3, <2>1, Shortened DEF Queued
  <2>3. \A i \in DOMAIN toProxy' : i + 1 \in DOMAIN toProxy /\ toProxy'[i] = toProxy[i + 1]
    BY <1>3, <2>1
  <2>4. 1 \in DOMAIN toProxy /\ told' = toProxy[1]
    BY <1>3, <2>1
  <2> QED BY <1>1, <1>2, <2>2, <2>3, <2>4 DEF Queued
<1>4. CASE UNCHANGED <<told, toProxy>>
  BY <1>1, <1>2, <1>4, QueuedKept
<1> QED BY <1>3, <1>4 DEF ClientReads

(* The client's thread writes what it has read: to a connection that is    *)
(* the only one to have requests.                                          *)
LEMMA ClientWritesServe ==
    ASSUME IInv, Writes, ClientWrites
    PROVE  Queued' /\ Served' /\ OneLoaded' /\ CarriedOutInOrder' /\ Left'
<1>1. /\ client = "write" /\ client' \in {"look", "drop"} /\ told' = 0
      /\ UNCHANGED <<isServerConnected, server, sslServer, toProxy, sent, done>>
  BY DEF ClientWrites, flags, serverThread, user, cluster
<1>2. told \in Messages /\ sent \in Nat /\ told <= sent
  BY <1>1 DEF IInv, TypeOK, Threads, Writes, Queued
<1>3. CASE Reaches(told) /\ told > 0
  <2> DEFINE c == conns[sslServer]
             s == c.toServer
             t == Append(s, told)
  <2>1. sslServer \in Ids /\ told \in 1 .. Requests
    BY <1>2, <1>3, CurrentId, MessageNumbers DEF Reaches, Open
  <2>2. c \in Conn /\ s \in Seq(Messages)
    BY <2>1, ToServers
  <2>3. /\ conns'[sslServer].toServer = t
        /\ \A j \in Ids : j # sslServer => conns'[j] = conns[j]
    BY <1>3, <2>1, <2>2 DEF Reaches, IInv, TypeOK, Conn
  <2>4. client' = "look"
    BY <1>3 DEF ClientWrites, Fails, Reaches, Shaking, Threads, IInv, Writes, Left, Unused, Connecting
  <2>5. \A r \in 1 .. Requests : Passed(r) => r < told
    BY <1>3 DEF Writes, Queued
  <2>6. \A i \in DOMAIN s : s[i] < told
    <3>1. \A i \in DOMAIN s : s[i] \in Messages /\ Has(s, s[i])
      BY <2>2 DEF Has
    <3>2. \A i \in DOMAIN s : s[i] > 0 => Passed(s[i]) /\ s[i] \in 1 .. Requests
      BY <2>1, <3>1, MessageNumbers DEF Passed
    <3>3. \A i \in DOMAIN s : s[i] \in Int
      BY <3>1, MessageNumbers
    <3>4. \A i \in DOMAIN s : s[i] > 0 => s[i] < told
      BY <2>5, <3>2
    <3> HIDE DEF s
    <3> QED BY <2>1, <3>3, <3>4
  <2>7. /\ Rising(t) /\ \A r : Has(t, r) <=> Has(s, r) \/ r = told
        /\ \A r \in Int : Above(s, r) /\ r < told => Above(t, r)
    BY <1>2, <2>1, <2>2, <2>6, Appended DEF Writes, Served
  <2>8. \A j \in Ids : j # sslServer => ~Loaded(j)
    BY <1>1 DEF Writes, Left
  <2>9. \A j \in Ids : j # sslServer => ~Loaded(j)'
    BY <2>3, <2>8 DEF Loaded
  <2>10. Served'
    <3>1. \A r \in Carried : r \in 1 .. Requests /\ r < told
      BY <2>5, CarriedNumbers DEF Passed
    <3> HIDE DEF t
    <3> QED BY <1>1, <2>1, <2>3, <2>7, <3>1 DEF Writes, Served, Carried
  <2>11. \A r \in 1 .. Requests : Passed(r)' => Passed(r) \/ r = told
    <3>1. Carried' = Carried
      BY <1>1 DEF Carried
    <3> HIDE DEF t
    <3> QED BY <2>1, <2>3, <2>7, <3>1 DEF Passed
  <2>12. Queued'
    BY <1>1, <1>2, <1>3, <2>11 DEF Writes, Queued
  <2>13. Left'
    <3>1. ~Unused
      BY <1>1, <1>3 DEF Writes, Left, Reaches
    <3> QED BY <1>1, <2>4, <2>9, <3>1 DEF Left, Unused, Connecting
  <2> QED BY <1>1, <2>9, <2>10, <2>12, <2>13 DEF OneLoaded, CarriedOutInOrder, Writes
<1>4. CASE ~(Reaches(told) /\ told > 0)
  <2>1. Followed
    <3>1. told < 0 \/ ~Reaches(told)
      BY <1>2, <1>4, MessageNumbers, ProxyAssumption DEF Messages
    <3>2. CASE told < 0
      BY <1>1, <1>2, <3>2, WritingFollowed DEF ClientWrites
    <3>3. CASE ~Reaches(told)
      BY <1>1, <3>3, SameFollowed DEF ClientWrites, Vanishes, Fails
    <3> QED BY <3>1, <3>2, <3>3
  <2>2. /\ Thinned /\ (CurrentLoaded' => CurrentLoaded)
    BY <2>1, FollowedThinned
  <2>3. /\ Served' /\ OneLoaded' /\ CarriedOutInOrder'
        /\ \A k \in Ids : Loaded(k)' => Loaded(k)
        /\ \A r \in 1 .. Requests : Passed(r)' => Passed(r)
    BY <1>1, <2>2, ThinnedServes DEF Writes
  <2>4. Queued'
    BY <1>1, <1>2, <2>3 DEF Writes, Queued
  <2>5. client' = "drop" => ~CurrentLoaded
    <3> SUFFICES ASSUME client' = "drop" PROVE ~CurrentLoaded
      OBVIOUS
    <3>1. ~Open \/ Shaking
      BY DEF ClientWrites, Fails
    <3>2. Shaking => Unused
      BY DEF Shaking, Unused, Connecting
    <3> QED BY <1>1, <3>1, <3>2, NothingThere DEF Writes, Left
  <2>6. Left'
    BY <1>1, <2>2, <2>3, <2>5 DEF Writes, Left, Unused, Connecting
  <2> QED BY <2>3, <2>4, <2>6
<1> QED BY <1>3, <1>4

-----------------------------------------------------------------------------
(* The steps that write no request and make no connection.                 *)
LEMMA Steady ==
    ASSUME IInv, Writes, Followed, UNCHANGED <<toProxy, sent, told, done>>
    PROVE  /\ Queued' /\ Served' /\ OneLoaded' /\ CarriedOutInOrder'
           /\ \A k \in Ids : Loaded(k)' => Loaded(k)
           /\ (Open' => Open) /\ (CurrentLoaded' => CurrentLoaded)
<1>1. Thinned /\ (Open' => Open) /\ (CurrentLoaded' => CurrentLoaded)
  BY FollowedThinned
<1>2. /\ Served' /\ OneLoaded' /\ CarriedOutInOrder'
      /\ \A k \in Ids : Loaded(k)' => Loaded(k)
      /\ \A r \in 1 .. Requests : Passed(r)' => Passed(r)
  BY <1>1, ThinnedServes DEF Writes
<1>3. Queued'
  BY <1>2, QueuedKept DEF Writes
<1> QED BY <1>1, <1>2, <1>3

(* The client's thread goes on, and so does the server's: a connection is  *)
(* given up only when nothing is left on it.                               *)
Goes ==
    \/ client' = client \/ client' \in {"leave", "done"} \/ (client = "drop" /\ client' = "look")
    \/ client = "look" /\ client' = "read" /\ isServerConnected'
    \/ client = "read" /\ client' \in {"write", "close"}
GivesUp ==
    Unused' /\ client' \notin {"leave", "done"} =>
        Unused \/ (~CurrentLoaded /\ (Open => client' \notin {"read", "write"}))

LEMMA LeftKept ==
    ASSUME Writes, \A k \in Ids : Loaded(k)' => Loaded(k), Open' => Open,
           CurrentLoaded' => CurrentLoaded, sslServer' = sslServer, Goes, GivesUp
    PROVE  Left'
<1>1. Left
  BY DEF Writes
<1>2. client' = "drop" => ~CurrentLoaded'
  BY <1>1 DEF Left, Goes
<1>3. ASSUME client' \notin {"leave", "done"}
      PROVE  /\ \A k \in Ids : k # sslServer => ~Loaded(k)'
             /\ Unused' => ~CurrentLoaded'
             /\ client' \in {"read", "write"} /\ Unused' => ~Open'
  <2>1. client \notin {"leave", "done"}
    BY <1>3 DEF Goes
  <2>2. client' \in {"read", "write"} /\ Unused' => client \in {"read", "write"}
    BY DEF Goes, Unused
  <2> QED BY <1>1, <1>3, <2>1, <2>2 DEF Left, GivesUp
<1> QED BY <1>2, <1>3 DEF Left

LEMMA ClientThreadWrites == ASSUME IInv, Writes, ClientThread PROVE Writes'
<1>1. ASSUME ClientLooks \/ ClientEnds PROVE Writes'
  <2>1. /\ UNCHANGED <<first_login, isServerConnected, server, sslServer, conns, heard,
                       toProxy, sent, told, done>>
        /\ Goes /\ GivesUp
    BY <1>1 DEF ClientLooks, ClientEnds, flags, serverThread, user, cluster, Goes, GivesUp,
                Unused, Connecting
  <2>2. Followed
    BY <2>1, SameFollowed
  <2>3. Left'
    BY <2>1, <2>2, Steady, LeftKept
  <2>4. First'
    BY <1>1, <2>1 DEF Writes, First, ClientLooks, ClientEnds
  <2> QED BY <2>1, <2>2, <2>3, <2>4, Steady DEF Writes
<1>2. ASSUME ClientDrops \/ ClientCloses PROVE Writes'
  <2>1. /\ UNCHANGED <<first_login, server, sslServer, heard, toProxy, sent, told, done>>
        /\ client \in {"drop", "close"} /\ isServerConnected' = FALSE
        /\ Reaches(End) \/ Vanishes \/ Fails
    BY <1>2 DEF ClientDrops, ClientCloses, close_serverConnection, serverThread, user, cluster
  <2>2. Followed
    <3>1. End \in Messages /\ End < 0
      BY DEF End, Messages
    <3> QED BY <2>1, <3>1, WritingFollowed
  <2>3. Goes /\ GivesUp
    BY <1>2 DEF ClientDrops, ClientCloses, Goes, GivesUp, Writes, Left
  <2>4. Left'
    BY <2>1, <2>2, <2>3, Steady, LeftKept
  <2>5. First'
    BY <2>1 DEF Writes, First
  <2> QED BY <2>1, <2>2, <2>4, <2>5, Steady DEF Writes
<1>3. ASSUME ClientReads PROVE Writes'
  <2>1. /\ UNCHANGED <<first_login, isServerConnected, server, sslServer, conns, heard, sent, done>>
        /\ client = "read" /\ Goes /\ GivesUp
    BY <1>3 DEF ClientReads, flags, serverThread, cluster, Goes, GivesUp, Unused, Connecting
  <2>2. Queued'
    BY <1>3, ClientReadsQueued DEF Writes
  <2>3. Thinned /\ (Open' => Open) /\ (CurrentLoaded' => CurrentLoaded)
    BY <2>1, SameFollowed, FollowedThinned
  <2>4. /\ Served' /\ OneLoaded' /\ CarriedOutInOrder' /\ \A k \in Ids : Loaded(k)' => Loaded(k)
    BY <2>1, <2>3, ThinnedServes DEF Writes
  <2>5. Left'
    BY <2>1, <2>3, <2>4, LeftKept
  <2>6. First'
    BY <2>1 DEF Writes, First
  <2> QED BY <2>2, <2>4, <2>5, <2>6 DEF Writes
<1>4. ASSUME ClientWrites PROVE Writes'
  <2>1. Queued' /\ Served' /\ OneLoaded' /\ CarriedOutInOrder' /\ Left'
    BY <1>4, ClientWritesServe
  <2>2. First'
    BY <1>4 DEF Writes, First, ClientWrites, flags
  <2> QED BY <2>1, <2>2 DEF Writes
<1> QED BY <1>1, <1>2, <1>3, <1>4 DEF ClientThread

LEMMA UserAndServersWrite ==
    ASSUME IInv, Writes,
           \/ ClientSends \/ ClientLeaves
           \/ \E k \in Ids : Serves(k)
           \/ \E s \in Servers : Crash(s)
    PROVE  Writes'
<1>1. UNCHANGED <<first_login, isServerConnected, server, client, sslServer, heard, told>>
  BY DEF ClientSends, ClientLeaves, Serves, ServerLogsIn, ServerAnswers, Crash,
         flags, serverThread, clientThread
<1>2. Goes /\ GivesUp
  BY <1>1 DEF Goes, GivesUp, Unused, Connecting
<1>3. CASE ClientSends \/ ClientLeaves
  <2>1. Queued'
    BY <1>3, ClientMovesQueued DEF Writes
  <2>2. UNCHANGED <<conns, done>>
    BY <1>3 DEF ClientSends, ClientLeaves, cluster
  <2>3. Thinned /\ (Open' => Open) /\ (CurrentLoaded' => CurrentLoaded)
    BY <1>1, <2>2, SameFollowed, FollowedThinned
  <2>4. /\ Served' /\ OneLoaded' /\ CarriedOutInOrder' /\ \A k \in Ids : Loaded(k)' => Loaded(k)
    BY <2>2, <2>3, ThinnedServes DEF Writes
  <2>5. Left'
    BY <1>1, <1>2, <2>3, <2>4, LeftKept
  <2>6. First'
    BY <1>1, <1>3 DEF Writes, First, ClientSends, ClientLeaves
  <2> QED BY <2>1, <2>4, <2>5, <2>6 DEF Writes
<1>4. ASSUME NEW k \in Ids, ServerAnswers(k) PROVE Writes'
  <2>1. Followed /\ UNCHANGED <<toProxy, sent>>
    BY <1>4, AnswersFollowed DEF ServerAnswers, user
  <2>2. /\ Served' /\ OneLoaded' /\ CarriedOutInOrder' /\ \A j \in Ids : Loaded(j)' => Loaded(j)
        /\ \A r \in 1 .. Requests : Passed(r)' => Passed(r)
    BY <1>4, AnswersServe
  <2>3. Queued'
    BY <1>1, <2>1, <2>2, QueuedKept DEF Writes
  <2>4. (Open' => Open) /\ (CurrentLoaded' => CurrentLoaded)
    BY <2>1, FollowedThinned
  <2>5. Left'
    BY <1>1, <1>2, <2>2, <2>4, LeftKept
  <2>6. First'
    BY <1>1, <2>1 DEF Writes, First
  <2> QED BY <2>2, <2>3, <2>5, <2>6 DEF Writes
<1>5. ASSUME Followed, UNCHANGED <<toProxy, sent, done>> PROVE Writes'
  <2>1. /\ Queued' /\ Served' /\ OneLoaded' /\ CarriedOutInOrder'
        /\ \A k \in Ids : Loaded(k)' => Loaded(k)
        /\ (Open' => Open) /\ (CurrentLoaded' => CurrentLoaded)
    BY <1>1, <1>5, Steady
  <2>2. Left'
    BY <1>1, <1>2, <2>1, LeftKept
  <2>3. First'
    BY <1>1, <1>5 DEF Writes, First
  <2> QED BY <2>1, <2>2, <2>3 DEF Writes
<1>6. ASSUME NEW k \in Ids, ServerLogsIn(k) PROVE Writes'
  <2>1. Followed
    BY <1>6, LoginFollowed
  <2>2. UNCHANGED <<toProxy, sent, done>>
    BY <1>6 DEF ServerLogsIn, user, cluster
  <2> QED BY <1>5, <2>1, <2>2
<1>7. ASSUME NEW s \in Servers, Crash(s) PROVE Writes'
  <2>1. Followed
    BY <1>7, CrashFollowed
  <2>2. UNCHANGED <<toProxy, sent, done>>
    BY <1>7 DEF Crash, user
  <2> QED BY <1>5, <2>1, <2>2
<1> QED BY <1>3, <1>4, <1>6, <1>7 DEF Serves

(* A connection that has ended is not open, nor has one that fails before  *)
(* it is used.                                                             *)
LEMMA EndedIsDone ==
    ASSUME IInv, Ended(sslServer) PROVE ~Open /\ ~CurrentLoaded
  BY NothingThere DEF Ended, Open

(* Requests are passed only when the client has been told of a login.      *)
LEMMA NothingSent == ASSUME IInv, Writes, first_login PROVE ~CurrentLoaded
<1>1. sent = 0 /\ \A r \in 1 .. Requests : Passed(r) => r <= sent
  BY DEF Writes, First, Queued
<1>2. sslServer # 0 => sslServer \in Ids
  BY CurrentId
<1> QED BY <1>1, <1>2 DEF CurrentLoaded, Loaded, Passed

LEMMA DialsWrite ==
    ASSUME IInv, Writes, Dials, server = "dial", server' = "name", ~isServerConnected,
           UNCHANGED <<first_login, isServerConnected, heard, toProxy, sent, client, told, done>>
    PROVE  Writes'
<1>1. /\ Thinned /\ sslServer' \in Ids /\ conns'[sslServer'].toServer = <<>>
  BY DialsThinned
<1>2. /\ Served' /\ OneLoaded' /\ CarriedOutInOrder'
      /\ \A k \in Ids : Loaded(k)' => Loaded(k)
      /\ \A r \in 1 .. Requests : Passed(r)' => Passed(r)
  BY <1>1, ThinnedServes DEF Writes
<1>3. Queued'
  BY <1>2, QueuedKept DEF Writes
<1>4. ~CurrentLoaded'
  BY <1>1, Emptied DEF CurrentLoaded, Loaded
<1>5. ASSUME client \notin {"leave", "done"}, NEW k \in Ids PROVE ~Loaded(k)'
  <2>1. ~CurrentLoaded /\ \A j \in Ids : j # sslServer => ~Loaded(j)
    BY <1>5 DEF Writes, Left, Unused, Connecting
  <2>2. k # 0
    BY DEF Ids
  <2> QED BY <1>2, <2>1, <2>2 DEF CurrentLoaded
<1>6. Left'
  BY <1>4, <1>5 DEF Left, Unused, Connecting
<1>7. First'
  BY DEF Writes, First
<1> QED BY <1>2, <1>3, <1>6, <1>7 DEF Writes

LEMMA ServerThreadWrites == ASSUME IInv, Writes, LoginFirst, ServerThread PROVE Writes'
<1>1. /\ UNCHANGED <<client, toProxy, sent, told, done>>
      /\ Goes
  BY DEF ServerThread, ServerLooks, ServerReads, ServerForwards, ServerCloses, ServerDials,
         ServerNames, ServerHears, ServerTells, ServerLogged, ServerLeaves,
         clientThread, user, cluster, Goes
<1>2. ASSUME Followed, GivesUp, First' PROVE Writes'
  <2>1. /\ Queued' /\ Served' /\ OneLoaded' /\ CarriedOutInOrder'
        /\ \A k \in Ids : Loaded(k)' => Loaded(k)
        /\ (Open' => Open) /\ (CurrentLoaded' => CurrentLoaded)
    BY <1>1, <1>2, Steady
  <2>2. Left'
    BY <1>1, <1>2, <2>1, LeftKept DEF Followed
  <2> QED BY <1>2, <2>1, <2>2 DEF Writes
<1>3. ASSUME ServerLooks PROVE Writes'
  <2>1. UNCHANGED <<first_login, isServerConnected, sslServer, conns, heard>>
    BY <1>3 DEF ServerLooks, flags
  <2>2. GivesUp
    BY <1>3, <2>1 DEF ServerLooks, GivesUp, Unused, Connecting
  <2>3. First'
    BY <1>1, <1>3, <2>1 DEF ServerLooks, First, Writes
  <2> QED BY <1>2, <2>1, <2>2, <2>3, SameFollowed
<1>4. ASSUME ServerReads PROVE Writes'
  <2>1. /\ UNCHANGED <<first_login, isServerConnected, sslServer, heard>> /\ server = "read"
        /\ server' \in {"forward", "close"} /\ (Takes \/ UNCHANGED conns)
    BY <1>4 DEF ServerReads, flags
  <2>2. Followed
    BY <2>1, SameFollowed, TakingFollowed DEF IInv, Threads
  <2>3. GivesUp /\ First'
    BY <1>1, <2>1 DEF GivesUp, Unused, Connecting, First, Writes
  <2> QED BY <1>2, <2>2, <2>3
<1>5. ASSUME ServerForwards PROVE Writes'
  <2>1. /\ UNCHANGED <<first_login, isServerConnected, sslServer, conns>> /\ server = "forward"
        /\ server' \in {"look", "leave"}
    BY <1>5 DEF ServerForwards, flags
  <2>2. GivesUp /\ First'
    BY <1>1, <2>1 DEF GivesUp, Unused, Connecting, First, Writes
  <2> QED BY <1>2, <2>1, <2>2, SameFollowed
<1>6. ASSUME ServerCloses \/ ServerLeaves PROVE Writes'
  <2>1. /\ UNCHANGED <<first_login, sslServer, heard>> /\ isServerConnected' = FALSE
        /\ Reaches(End) \/ Vanishes \/ Fails
        /\ \/ server = "close" /\ server' = "look"
           \/ server = "leave" /\ server' = "done"
    BY <1>6 DEF ServerCloses, ServerLeaves, close_serverConnection
  <2>2. Followed
    <3>1. End \in Messages /\ End < 0
      BY DEF End, Messages
    <3> QED BY <2>1, <3>1, WritingFollowed
  <2>3. GivesUp
    BY <2>1, EndedIsDone DEF GivesUp, Unused, Connecting, LoginFirst
  <2>4. First'
    BY <1>1, <2>1 DEF First, Writes
  <2> QED BY <1>2, <2>2, <2>3, <2>4
<1>7. ASSUME ServerDials PROVE Writes'
  <2>1. UNCHANGED <<first_login, isServerConnected, heard>> /\ server = "dial"
    BY <1>7 DEF ServerDials, flags
  <2>2. CASE Dials /\ server' = "name" /\ ~isServerConnected
    BY <1>1, <2>1, <2>2, DialsWrite
  <2>3. CASE /\ UNCHANGED <<sslServer, conns>>
             /\ server' \in {"leave", "dial"} \/ (server' = "look" /\ isServerConnected)
    <3>1. GivesUp /\ First'
      BY <1>1, <2>1, <2>3 DEF GivesUp, Unused, Connecting, First, Writes
    <3> QED BY <1>2, <2>3, <3>1, SameFollowed
  <2> QED BY <1>7, <2>2, <2>3 DEF ServerDials, increment_currentServer
<1>8. ASSUME ServerNames PROVE Writes'
  <2>1. /\ UNCHANGED <<first_login, isServerConnected, sslServer, heard>> /\ server = "name"
        /\ Reaches(Name) \/ Vanishes \/ Fails
        /\ server' = "login" \/ (server' = "dial" /\ ~Open)
    BY <1>8 DEF ServerNames, flags, Fails, Shaking, increment_currentServer
  <2>2. Followed
    <3>1. Name \in Messages /\ Name < 0
      BY DEF Name, Messages
    <3> QED BY <2>1, <3>1, WritingFollowed
  <2>3. GivesUp /\ First'
    BY <1>1, <2>1, NothingThere DEF GivesUp, Unused, Connecting, First, Writes
  <2> QED BY <1>2, <2>2, <2>3
<1>9. ASSUME ServerHears PROVE Writes'
  <2>1. /\ UNCHANGED <<first_login, isServerConnected, sslServer, heard>> /\ server = "login"
        /\ Takes \/ UNCHANGED conns
        /\ server' = "tell" \/ (server' = "dial" /\ Ends)
    BY <1>9 DEF ServerHears, flags, increment_currentServer
  <2>2. Followed
    BY <2>1, SameFollowed, TakingFollowed DEF IInv, Threads
  <2>3. server' = "dial" => Ended(sslServer)
    BY <2>1 DEF Ends, Ended
  <2>4. GivesUp /\ First'
    BY <1>1, <2>1, <2>3, EndedIsDone DEF GivesUp, Unused, Connecting, First, Writes
  <2> QED BY <1>2, <2>2, <2>4
<1>10. ASSUME ServerTells PROVE Writes'
  <2>1. /\ UNCHANGED <<isServerConnected, sslServer, conns>> /\ server = "tell"
        /\ \/ server' = "logged" /\ ~first_login'
           \/ server' = "dial" /\ first_login /\ UNCHANGED <<first_login, heard>>
    <3>1. CASE ~first_login /\ server' = "logged" /\ UNCHANGED first_login
      BY <1>10, <3>1 DEF ServerTells
    <3>2. CASE first_login' = FALSE /\ server' = "logged"
      BY <1>10, <3>2 DEF ServerTells
    <3>3. CASE first_login /\ increment_currentServer /\ UNCHANGED <<first_login, heard>>
      BY <1>10, <3>3 DEF ServerTells, increment_currentServer
    <3> QED BY <1>10, <3>1, <3>2, <3>3 DEF ServerTells
  <2>2. GivesUp /\ First'
    BY <1>1, <2>1, NothingSent DEF GivesUp, Unused, Connecting, First, Writes
  <2> QED BY <1>2, <2>1, <2>2, SameFollowed
<1>11. ASSUME ServerLogged PROVE Writes'
  <2>1. /\ UNCHANGED <<first_login, sslServer, conns, heard>> /\ server = "logged"
        /\ server' = "dial" /\ (answer = Granted => isServerConnected')
    BY <1>11 DEF ServerLogged, increment_currentServer
  <2>2. isServerConnected' \/ Ended(sslServer)
    BY <2>1 DEF LoginFirst
  <2>3. GivesUp /\ First'
    BY <1>1, <2>1, <2>2, EndedIsDone DEF GivesUp, Unused, Connecting, First, Writes
  <2> QED BY <1>2, <2>1, <2>3, SameFollowed
<1> QED BY <1>3, <1>4, <1>5, <1>6, <1>7, <1>8, <1>9, <1>10, <1>11 DEF ServerThread

-----------------------------------------------------------------------------
(* What servers write.                                                     *)
Speaks(c, d) ==
    /\ c.state \in {"closed", "dead"} => d.state \in {"closed", "dead"}
    /\ c.state # "name" => d.state # "name"
    /\ d.state = "name" => d.toProxy = <<>>
    /\ \/ d.toProxy = c.toProxy /\ (d.state = "in" => c.state = "in")
       \/ d.toProxy = <<>> /\ d.state = "dead"
       \/ c.state = "name" /\ d.state = "in" /\ d.toProxy = <<Granted>>
       \/ c.state = "name" /\ d.state = "closed" /\ d.toProxy = <<Refused>>
       \/ /\ c.state = "in"
          /\ \E m \in (1 .. Requests) \cup {Refused} :
                /\ d.toProxy = Append(c.toProxy, m)
                /\ m > 0 => m \in Carried' /\ \A r \in Carried : r < m
Spoken ==
    /\ sslServer' = sslServer
    /\ \A k \in Ids : Speaks(conns[k], conns'[k]) \/ (k # sslServer /\ conns'[k] = Free)

LEMMA SilentSpoken ==
    ASSUME IInv, LoginFirst, UNCHANGED sslServer,
           \A k \in Ids : conns'[k].state = conns[k].state /\ conns'[k].toProxy = conns[k].toProxy
    PROVE  Spoken
  BY DEF LoginFirst, Spoken, Speaks

LEMMA WritingSpoken ==
    ASSUME IInv, LoginFirst, NEW m, Reaches(m) \/ Vanishes \/ Fails, UNCHANGED sslServer
    PROVE  Spoken
<1>1. CASE Reaches(m)
  <2>1. sslServer \in Ids /\ conns[sslServer] \in Conn /\ conns \in [Ids -> Conn]
    BY <1>1, CurrentId, ToServers DEF Reaches, Open, IInv, TypeOK
  <2>2. \A k \in Ids : conns'[k].state = conns[k].state /\ conns'[k].toProxy = conns[k].toProxy
    BY <1>1, <2>1 DEF Reaches, Conn
  <2> QED BY <2>2, SilentSpoken
<1>2. CASE Vanishes \/ Fails
  BY <1>2, SilentSpoken DEF Vanishes, Fails
<1> QED BY <1>1, <1>2

LEMMA PuttingSpoken ==
    ASSUME IInv, LoginFirst, NEW k \in Ids, NEW d, Speaks(conns[k], d), Put(k, d), UNCHANGED sslServer
    PROVE  Spoken
<1>1. /\ \A j \in Ids : j # k => conns'[j] = conns[j]
      /\ conns'[k] = d \/ (k # sslServer /\ conns'[k] = Free)
  BY DEF Put, IInv, TypeOK
<1>2. \A j \in Ids : Speaks(conns[j], conns[j])
  BY DEF Speaks, LoginFirst
<1> QED BY <1>1, <1>2 DEF Spoken

LEMMA LoginSpoken ==
    ASSUME IInv, LoginFirst, NEW k \in Ids, ServerLogsIn(k)
    PROVE  Spoken
<1> DEFINE c == conns[k]
           m == Head(c.toServer)
           r == m = Name => c.server \in accepts
           said == ServerSays(k, IF r THEN Granted ELSE Refused)
           d == IF r THEN [said EXCEPT !.state = "in", !.as = m]
                     ELSE [said EXCEPT !.state = "closed", !.toServer = <<>>]
<1>1. c \in Conn /\ c.state = "name" /\ c.toProxy = <<>> /\ Put(k, d) /\ UNCHANGED sslServer
  BY ToServers DEF ServerLogsIn, serverThread, LoginFirst
<1>2. \/ d.state = "in" /\ d.toProxy = Append(c.toProxy, Granted)
      \/ d.state = "closed" /\ d.toProxy = Append(c.toProxy, Refused)
  BY <1>1 DEF ServerSays, Conn
<1> HIDE DEF d
<1>3. \A e : Append(<<>>, e) = <<e>>
  OBVIOUS
<1>4. Speaks(c, d)
  BY <1>1, <1>2, <1>3 DEF Speaks
<1> QED BY <1>1, <1>4, PuttingSpoken

LEMMA AnswersSpoken ==
    ASSUME IInv, Writes, LoginFirst, NEW k \in Ids, ServerAnswers(k)
    PROVE  Spoken /\ Carried \subseteq Carried'
<1> DEFINE c == conns[k]
           m == Head(c.toServer)
<1>1. /\ c \in Conn /\ c.toServer \in Seq(Messages) /\ c.state = "in" /\ c.toServer # <<>>
      /\ UNCHANGED sslServer
  BY ToServers DEF ServerAnswers, serverThread
<1>2. m \in Messages /\ (m > 0 <=> m \in 1 .. Requests) /\ Has(c.toServer, m)
  BY <1>1, Shortened, MessageNumbers
<1>3. CASE /\ m > 0 /\ Put(k, ServerSays(k, m))
           /\ done' = Append(done, [request |-> m, as |-> c.as])
  <2> DEFINE d == ServerSays(k, m)
  <2>1. d.state = "in" /\ d.toProxy = Append(c.toProxy, m)
    BY <1>1 DEF ServerSays, Conn
  <2>2. \A q \in Carried : q < m
    BY <1>1, <1>3, Shortened DEF Writes, Served
  <2>3. Carried' = Carried \cup {m}
    <3> HIDE DEF m
    <3> QED BY <1>2, <1>3, CarriedAdded
  <2>4. Put(k, d)
    BY <1>3
  <2> HIDE DEF d, m
  <2>5. Speaks(c, d)
    BY <1>1, <1>2, <1>3, <2>1, <2>2, <2>3 DEF Speaks
  <2> QED BY <1>1, <2>3, <2>4, <2>5, PuttingSpoken
<1>4. CASE (Put(k, ServerClosed(k)) \/ Put(k, ServerRefused(k))) /\ UNCHANGED done
  <2>1. PICK d \in {ServerClosed(k), ServerRefused(k)} : Put(k, d)
    BY <1>4
  <2>2. d.state = "closed" /\ (d.toProxy = c.toProxy \/ d.toProxy = Append(c.toProxy, Refused))
    BY <1>1 DEF ServerClosed, ServerRefused, Conn
  <2>3. ~(Refused > 0)
    BY DEF Refused
  <2>4. Speaks(c, d)
    BY <1>1, <2>2, <2>3 DEF Speaks
  <2> QED BY <1>1, <1>4, <2>1, <2>4, PuttingSpoken DEF Carried
<1> QED BY <1>3, <1>4 DEF ServerAnswers

LEMMA CrashSpoken ==
    ASSUME IInv, LoginFirst, NEW s \in Servers, Crash(s)
    PROVE  Spoken
<1>1. PICK arrives \in BOOLEAN :
        conns' = [k \in Ids |->
                    IF conns[k].server # s THEN conns[k]
                    ELSE IF k # sslServer THEN Free
                    ELSE [conns[k] EXCEPT !.state = "dead", !.toServer = <<>>,
                                          !.toProxy = IF arrives THEN @ ELSE <<>>]]
  BY DEF Crash
<1>2. UNCHANGED sslServer
  BY DEF Crash, serverThread
<1>3. ASSUME NEW k \in Ids
      PROVE  Speaks(conns[k], conns'[k]) \/ (k # sslServer /\ conns'[k] = Free)
  <2>1. conns[k] \in Conn
    BY ToServers
  <2>2. CASE conns[k].server # s
    BY <1>1, <2>2 DEF Speaks, LoginFirst
  <2>3. CASE conns[k].server = s /\ k # sslServer
    BY <1>1, <2>3
  <2>4. CASE conns[k].server = s /\ k = sslServer
    <3>1. conns'[k].state = "dead" /\ conns'[k].toProxy \in {conns[k].toProxy, <<>>}
      BY <1>1, <2>1, <2>4 DEF Conn
    <3> QED BY <3>1 DEF Speaks
  <2> QED BY <2>2, <2>3, <2>4
<1> QED BY <1>2, <1>3 DEF Spoken

-----------------------------------------------------------------------------
(* What servers write, as the threads wait for it.                         *)
LEMMA Later1 == Later(<<>>) /\ Later(<<Refused>>)
  BY DEF Later

LEMMA LaterMore ==
    ASSUME NEW s \in Seq(Messages), NEW m \in (1 .. Requests) \cup {Refused}
    PROVE  /\ Append(s, m) # <<>>
           /\ Later(s) => Later(Append(s, m))
           /\ s # <<>> => /\ Head(Append(s, m)) = Head(s)
                          /\ Later(Tail(s)) => Later(Tail(Append(s, m)))
<1> DEFINE t == Append(s, m)
<1>1. \A i \in DOMAIN t : t[i] = m \/ (i \in DOMAIN s /\ t[i] = s[i])
  OBVIOUS
<1>2. Later(s) => Later(t)
  BY <1>1 DEF Later
<1>3. t # <<>> /\ (s # <<>> => Head(t) = Head(s))
  <2>1. m \in Messages
    BY DEF Messages, Refused
  <2> QED BY <2>1, Written
<1>4. ASSUME s # <<>>, Later(Tail(s)) PROVE Later(Tail(t))
  <2>1. \A i \in DOMAIN Tail(t) : Tail(t)[i] = m \/ (i \in DOMAIN Tail(s) /\ Tail(t)[i] = Tail(s)[i])
    BY <1>4
  <2> QED BY <1>4, <2>1 DEF Later
<1> QED BY <1>2, <1>3, <1>4

LEMMA LaterLess == ASSUME NEW s \in Seq(Messages), s # <<>>, Later(s)
                   PROVE  Later(Tail(s)) /\ Head(s) \in (1 .. Requests) \cup {Refused}
<1>1. \A i \in DOMAIN Tail(s) : i + 1 \in DOMAIN s /\ Tail(s)[i] = s[i + 1]
  OBVIOUS
<1>2. 1 \in DOMAIN s /\ Head(s) = s[1]
  OBVIOUS
<1> QED BY <1>1, <1>2 DEF Later

(* Nothing is read.                                                        *)
LEMMA SpokenAnswered ==
    ASSUME IInv, Answered, Spoken, Carried \subseteq Carried',
           UNCHANGED <<server, answer, heard>>, isServerConnected' => isServerConnected,
           Untold'
    PROVE  Answered'
<1> DEFINE c == conns[sslServer]
           d == conns'[sslServer]
<1>1. \/ isServerConnected
      \/ server \in {"read", "forward", "close", "name", "login", "tell", "logged"}
      => sslServer # 0
  BY DEF IInv, Threads, ConnectedIsLoggedIn
<1>2. ASSUME sslServer # 0
      PROVE  sslServer \in Ids /\ Speaks(c, d) /\ c.toProxy \in Seq(Messages)
  BY <1>2, CurrentId, ToServers DEF Spoken
<1>3. \A k \in Ids : conns'[k].state = "name" => conns'[k].toProxy = <<>>
  BY DEF Spoken, Speaks, Free
<1>4. Says' = d.toProxy /\ Says = c.toProxy
  BY DEF Spoken, Says
<1>5. sslServer # 0 /\ Ended(sslServer) => Ended(sslServer)'
  BY <1>2 DEF Speaks, Ended, Spoken
<1>6. sslServer # 0 /\ c.state # "name" => d.state # "name"
  BY <1>2 DEF Speaks
<1>7. ASSUME sslServer # 0, c.state # "name", Later(Says) PROVE Later(Says')
  <2>1. \/ d.toProxy \in {c.toProxy, <<>>}
        \/ \E m \in (1 .. Requests) \cup {Refused} : d.toProxy = Append(c.toProxy, m)
    BY <1>2, <1>7 DEF Speaks
  <2> QED BY <1>2, <1>4, <1>7, <2>1, LaterMore, Later1
<1>8. ASSUME server \in {"name", "login"}, Says' # <<>>
      PROVE  /\ Head(Says') = Granted \/ (Head(Says') = Refused /\ Ended(sslServer)')
             /\ Later(Tail(Says'))
  <2>1. sslServer # 0 /\ sslServer \in Ids
    BY <1>1, <1>2, <1>8
  <2>2. CASE d.toProxy = c.toProxy
    BY <1>4, <1>5, <1>8, <2>1, <2>2 DEF Answered, LoginFirst
  <2>3. CASE c.state = "name" /\ d.state = "in" /\ d.toProxy = <<Granted>>
    <3>1. Head(d.toProxy) = Granted /\ Tail(d.toProxy) = <<>>
      BY <2>3
    <3> QED BY <1>4, <3>1, Later1
  <2>4. CASE c.state = "name" /\ d.state = "closed" /\ d.toProxy = <<Refused>>
    <3>1. Head(d.toProxy) = Refused /\ Tail(d.toProxy) = <<>>
      BY <2>4
    <3> QED BY <1>4, <2>4, <3>1, Later1 DEF Ended, Spoken
  <2>5. CASE /\ c.state = "in"
             /\ \E m \in (1 .. Requests) \cup {Refused} : d.toProxy = Append(c.toProxy, m)
    <3>1. PICK m \in (1 .. Requests) \cup {Refused} : d.toProxy = Append(c.toProxy, m)
      BY <2>5
    <3>2. c.toProxy \in Seq(Messages)
      BY <1>2, <2>1
    <3>3. c.toProxy # <<>>
      BY <1>4, <1>8, <2>5 DEF Answered, LoginFirst
    <3> QED BY <1>4, <1>5, <1>8, <2>1, <3>1, <3>2, <3>3, LaterMore DEF Answered, LoginFirst
  <2> QED BY <1>2, <1>4, <1>8, <2>1, <2>2, <2>3, <2>4, <2>5 DEF Speaks
<1>9. server \in {"name", "login"} /\ d.state = "in" => Says' # <<>>
  <2> SUFFICES ASSUME server \in {"name", "login"}, d.state = "in" PROVE d.toProxy # <<>>
    BY <1>4
  <2>1. sslServer # 0 /\ c.toProxy \in Seq(Messages) /\ Speaks(c, d)
    BY <1>1, <1>2
  <2>2. c.state = "in" => c.toProxy # <<>>
    BY <1>4 DEF Answered, LoginFirst
  <2>3. \A m \in (1 .. Requests) \cup {Refused} : Append(c.toProxy, m) # <<>>
    BY <2>1, LaterMore
  <2>4. <<Granted>> # <<>>
    OBVIOUS
  <2> QED BY <2>1, <2>2, <2>3, <2>4 DEF Speaks
<1>10. LoginFirst'
  <2>1. /\ server = "close" => Ended(sslServer)'
        /\ server \in {"tell", "logged"} =>
              answer = Granted \/ (answer \in {Refused, Nothing} /\ Ended(sslServer)')
        /\ isServerConnected \/ server \in {"read", "tell", "logged"} =>
              d.state # "name" /\ Later(Says')
        /\ server = "forward" => answer \in (1 .. Requests) \cup {Refused}
    BY <1>1, <1>5, <1>6, <1>7 DEF Answered, LoginFirst
  <2>2. sslServer' = sslServer
    BY DEF Spoken
  <2> QED BY <1>3, <1>8, <1>9, <2>1, <2>2 DEF LoginFirst
<1>11. ASSUME sslServer # 0
       PROVE  /\ Rising(Says') /\ \A i \in DOMAIN Says' : Says'[i] > 0 => Says'[i] \in Carried'
              /\ \A r \in Carried : Above(Says, r) => Above(Says', r)
  <2>1. /\ Rising(Says) /\ \A i \in DOMAIN Says : Says[i] > 0 => Says[i] \in Carried
        /\ Says \in Seq(Messages) /\ \A i \in DOMAIN Says : Says[i] \in Int
    <3>1. Says \in Seq(Messages)
      BY <1>2, <1>4, <1>11
    <3>2. \A i \in DOMAIN Says : Says[i] \in Messages
      BY <3>1
    <3>3. \A i \in DOMAIN Says : Says[i] \in Int
      BY <3>2, MessageNumbers
    <3>4. Rising(Says) /\ \A i \in DOMAIN Says : Says[i] > 0 => Says[i] \in Carried
      BY <1>11 DEF Answered, Relayed
    <3> QED BY <3>1, <3>3, <3>4
  <2>2. CASE Says' = Says
    BY <2>1, <2>2
  <2>3. CASE Says' = <<>>
    BY <2>3 DEF Rising, Above
  <2>4. CASE Says' \in {<<Granted>>, <<Refused>>}
    <3>1. PICK m \in {Granted, Refused} : Says' = <<m>>
      BY <2>4
    <3>2. m \in Messages /\ m < 0 /\ \A i \in DOMAIN Says' : Says'[i] = m
      BY <3>1 DEF Granted, Refused, Messages
    <3>3. \A i \in DOMAIN Says' : ~(Says'[i] > 0)
      BY <3>2 DEF Granted, Refused
    <3>4. Rising(Says') /\ \A r \in Carried : Above(Says', r)
      BY <3>3 DEF Rising, Above
    <3> QED BY <3>3, <3>4
  <2>5. ASSUME NEW m \in (1 .. Requests) \cup {Refused}, Says' = Append(Says, m),
               m > 0 => m \in Carried' /\ \A r \in Carried : r < m
        PROVE  /\ Rising(Says') /\ \A i \in DOMAIN Says' : Says'[i] > 0 => Says'[i] \in Carried'
               /\ \A r \in Carried : Above(Says, r) => Above(Says', r)
    <3>1. m \in Messages
      BY DEF Messages, Refused
    <3>2. m > 0 => \A i \in DOMAIN Says : Says[i] < m
      BY <2>1, <2>5, MessageNumbers, <3>1
    <3>3. Carried \subseteq Int
      BY CarriedNumbers
    <3>4. Rising(Says') /\ \A r \in Carried : Above(Says, r) => Above(Says', r)
      BY <2>1, <2>5, <3>1, <3>2, <3>3, Appended
    <3>5. \A i \in DOMAIN Says' : Says'[i] = m \/ (i \in DOMAIN Says /\ Says'[i] = Says[i])
      BY <2>1, <2>5
    <3> QED BY <2>1, <2>5, <3>4, <3>5
  <2> QED BY <1>2, <1>4, <1>11, <2>2, <2>3, <2>4, <2>5 DEF Speaks
<1>12. Relayed'
  <2>1. sslServer' = sslServer
    BY DEF Spoken
  <2> QED BY <1>11, <2>1 DEF Answered, Relayed
<1>13. Told'
  BY DEF Answered, Told
<1> QED BY <1>10, <1>12, <1>13 DEF Answered

-----------------------------------------------------------------------------
(* What the threads read.                                                  *)
LEMMA WritingSame ==
    ASSUME IInv, NEW m, Reaches(m) \/ Vanishes \/ Fails, UNCHANGED sslServer
    PROVE  /\ Says' = Says /\ (Ended(sslServer)' <=> Ended(sslServer))
           /\ conns'[sslServer].state = conns[sslServer].state
           /\ \A k \in Ids : /\ conns'[k].state = conns[k].state
                             /\ conns'[k].toProxy = conns[k].toProxy
<1>1. CASE Reaches(m)
  <2>1. sslServer \in Ids /\ conns[sslServer] \in Conn /\ conns \in [Ids -> Conn]
    BY <1>1, CurrentId, ToServers DEF Reaches, Open, IInv, TypeOK
  <2>2. \A k \in Ids : conns'[k].state = conns[k].state /\ conns'[k].toProxy = conns[k].toProxy
    BY <1>1, <2>1 DEF Reaches, Conn
  <2> QED BY <2>1, <2>2 DEF Says, Ended
<1>2. CASE Vanishes \/ Fails
  BY <1>2 DEF Vanishes, Fails, Says, Ended
<1> QED BY <1>1, <1>2

LEMMA OthersAnswered ==
    ASSUME IInv, Writes, Answered,
           \/ ClientThread \/ ClientSends \/ ClientLeaves
           \/ \E k \in Ids : Serves(k)
           \/ \E s \in Servers : Crash(s)
    PROVE  Answered'
<1>1. /\ UNCHANGED <<sslServer, server, answer, heard, first_login>>
      /\ isServerConnected' => isServerConnected
      /\ there' => there
  <2>1. CASE ClientThread
    BY <2>1 DEF ClientThread, ClientLooks, ClientReads, ClientWrites, ClientDrops, ClientCloses,
                ClientEnds, close_serverConnection, flags, serverThread, user
  <2>2. CASE ClientSends \/ ClientLeaves
    BY <2>2 DEF ClientSends, ClientLeaves, flags, serverThread
  <2>3. ASSUME NEW k \in Ids, Serves(k)
        PROVE  UNCHANGED <<flags, serverThread, heard, there>>
    BY <2>3 DEF Serves, ServerLogsIn, ServerAnswers, user
  <2>4. ASSUME NEW s \in Servers, Crash(s)
        PROVE  UNCHANGED <<flags, serverThread, heard, there>>
    BY <2>4 DEF Crash, user
  <2>5. CASE UNCHANGED <<flags, serverThread, heard, there>>
    BY <2>5 DEF flags, serverThread
  <2> QED BY <2>1, <2>2, <2>3, <2>4, <2>5
<1>2. Untold'
  BY <1>1 DEF Answered, Untold
<1>3. LoginFirst
  BY DEF Answered
<1>4. Spoken /\ Carried \subseteq Carried'
  <2>1. CASE ClientThread
    <3>1. UNCHANGED done /\ (UNCHANGED conns \/ \E m \in {told, End} : Reaches(m) \/ Vanishes \/ Fails)
      BY <2>1 DEF ClientThread, ClientLooks, ClientReads, ClientWrites, ClientDrops, ClientCloses,
                  ClientEnds, close_serverConnection, cluster
    <3>2. Spoken
      BY <1>1, <1>3, <3>1, SilentSpoken, WritingSpoken
    <3> QED BY <3>1, <3>2 DEF Carried
  <2>2. CASE ClientSends \/ ClientLeaves
    <3>1. UNCHANGED <<done, conns>>
      BY <2>2 DEF ClientSends, ClientLeaves, cluster
    <3> QED BY <1>1, <1>3, <3>1, SilentSpoken DEF Carried
  <2>3. ASSUME NEW k \in Ids, ServerLogsIn(k) PROVE Spoken /\ Carried \subseteq Carried'
    BY <1>3, <2>3, LoginSpoken DEF ServerLogsIn, cluster, Carried
  <2>4. ASSUME NEW k \in Ids, ServerAnswers(k) PROVE Spoken /\ Carried \subseteq Carried'
    BY <1>3, <2>4, AnswersSpoken
  <2>5. ASSUME NEW s \in Servers, Crash(s) PROVE Spoken /\ Carried \subseteq Carried'
    BY <1>3, <2>5, CrashSpoken DEF Crash, Carried
  <2> QED BY <2>1, <2>2, <2>3, <2>4, <2>5 DEF Serves
<1> QED BY <1>1, <1>2, <1>4, SpokenAnswered

(* The server's thread reads an answer.                                    *)
LEMMA TakingAnswered ==
    ASSUME IInv, Answered, Takes, sslServer \in Ids, UNCHANGED <<sslServer, heard, done>>
    PROVE  /\ Relayed' /\ answer' = Head(Says) /\ Says' = Tail(Says) /\ Says # <<>>
           /\ Says \in Seq(Messages)
           /\ \A k \in Ids : conns'[k].state = conns[k].state
           /\ \A k \in Ids : conns'[k].state = "name" => conns'[k].toProxy = <<>>
<1>1. /\ conns[sslServer] \in Conn /\ conns \in [Ids -> Conn] /\ Says \in Seq(Messages)
      /\ answer' = Head(Says) /\ Says # <<>>
  BY ToServers DEF Takes, Says, IInv, TypeOK
<1>2. /\ \A k \in Ids : conns'[k].state = conns[k].state
      /\ \A k \in Ids : k # sslServer => conns'[k] = conns[k]
      /\ Says' = Tail(Says)
  BY <1>1 DEF Takes, Says, Conn
<1>3. \A k \in Ids : conns'[k].state = "name" => conns'[k].toProxy = <<>>
  BY <1>1, <1>2 DEF Answered, LoginFirst, Says
<1>4. /\ Rising(Says) /\ \A i \in DOMAIN Says : Says[i] > 0 => Says[i] \in Carried
      /\ sslServer # 0
  BY DEF Answered, Relayed, Ids
<1>5. /\ Rising(Tail(Says)) /\ (Head(Says) > 0 => Above(Tail(Says), Head(Says)))
      /\ \A r : Above(Says, r) => Above(Tail(Says), r) /\ (Head(Says) > 0 => r < Head(Says))
  BY <1>1, <1>4, Shortened
<1>6. /\ \A i \in DOMAIN Tail(Says) : i + 1 \in DOMAIN Says /\ Tail(Says)[i] = Says[i + 1]
      /\ 1 \in DOMAIN Says /\ Head(Says) = Says[1]
  BY <1>1
<1>7. \A i \in DOMAIN heard : heard[i] > 0 => heard[i] \in Carried /\ Above(Says, heard[i])
  BY <1>4 DEF Answered, Relayed
<1>8. Rising(heard) /\ Carried' = Carried
  BY DEF Answered, Relayed, Carried
<1>9. Relayed'
  BY <1>1, <1>2, <1>4, <1>5, <1>6, <1>7, <1>8 DEF Relayed
<1> QED BY <1>1, <1>2, <1>3, <1>9

LEMMA ServerReadsAnswered == ASSUME IInv, Writes, Answered, ServerReads PROVE Answered'
<1>1. /\ server = "read" /\ sslServer \in Ids
      /\ UNCHANGED <<isServerConnected, first_login, sslServer, there, heard, done>>
  BY CurrentId DEF ServerReads, flags, user, cluster, IInv, Threads
<1>2. Untold' /\ Told'
  BY <1>1 DEF Answered, Untold, Told, Carried
<1>3. Later(Says) /\ conns[sslServer].state # "name"
  BY <1>1 DEF Answered, LoginFirst
<1>4. CASE Takes /\ server' = "forward"
  <2>1. /\ Relayed' /\ answer' = Head(Says) /\ Says' = Tail(Says) /\ Says # <<>>
        /\ Says \in Seq(Messages) /\ conns'[sslServer].state = conns[sslServer].state
        /\ \A k \in Ids : conns'[k].state = "name" => conns'[k].toProxy = <<>>
    BY <1>1, <1>4, TakingAnswered
  <2>2. Later(Says') /\ answer' \in (1 .. Requests) \cup {Refused}
    BY <1>3, <2>1, LaterLess
  <2>3. LoginFirst'
    BY <1>1, <1>3, <1>4, <2>1, <2>2 DEF LoginFirst
  <2> QED BY <1>2, <2>1, <2>3 DEF Answered
<1>5. CASE Ends /\ server' = "close" /\ UNCHANGED <<answer, conns>>
  <2>1. LoginFirst'
    BY <1>1, <1>3, <1>5 DEF Answered, LoginFirst, Ends, Ended, Says
  <2>2. Relayed'
    BY <1>1, <1>5 DEF Answered, Relayed, Carried, Says
  <2> QED BY <1>2, <2>1, <2>2 DEF Answered
<1> QED BY <1>4, <1>5 DEF ServerReads

LEMMA ServerHearsAnswered == ASSUME IInv, Writes, Answered, ServerHears PROVE Answered'
<1>1. /\ server = "login" /\ sslServer \in Ids /\ ~isServerConnected
      /\ UNCHANGED <<isServerConnected, first_login, sslServer, there, heard, done>>
  BY CurrentId DEF ServerHears, flags, user, cluster, IInv, Threads
<1>2. Untold' /\ Told'
  BY <1>1 DEF Answered, Untold, Told, Carried
<1>3. CASE Takes /\ server' = "tell"
  <2>1. /\ Relayed' /\ answer' = Head(Says) /\ Says' = Tail(Says) /\ Says # <<>>
        /\ conns'[sslServer].state = conns[sslServer].state
        /\ \A k \in Ids : conns'[k].state = "name" => conns'[k].toProxy = <<>>
    BY <1>1, <1>3, TakingAnswered
  <2>2. /\ \/ answer' = Granted
           \/ answer' = Refused /\ Ended(sslServer)
        /\ Later(Says')
        /\ conns[sslServer].state # "name"
    BY <1>1, <2>1 DEF Answered, LoginFirst, Says
  <2>3. LoginFirst'
    BY <1>1, <1>3, <2>1, <2>2 DEF LoginFirst, Ended
  <2> QED BY <1>2, <2>1, <2>3 DEF Answered
<1>4. CASE /\ Ends /\ UNCHANGED conns
           /\ \/ server' = "tell" /\ answer' = Nothing
              \/ server' = "dial" /\ UNCHANGED answer
  <2>1. Says = <<>> /\ Says' = Says /\ Ended(sslServer) /\ conns[sslServer].state # "name"
    BY <1>1, <1>4 DEF Ends, Ended, Says
  <2>2. LoginFirst'
    BY <1>1, <1>4, <2>1, Later1 DEF Answered, LoginFirst, Ended
  <2>3. ~(Nothing > 0)
    BY DEF Nothing
  <2>4. Relayed'
    BY <1>1, <1>4, <2>1, <2>3 DEF Answered, Relayed, Carried
  <2> QED BY <1>2, <2>2, <2>4 DEF Answered
<1> QED BY <1>3, <1>4 DEF ServerHears, increment_currentServer

(* The client is told, first of a login, and then of what was asked for.   *)
LEMMA HearsMore ==
    ASSUME IInv, Answered, Hears, server \in {"forward", "tell"}, UNCHANGED <<sslServer, done>>,
           Says' = Says, answer' \in {0, answer},
           answer > 0 => answer' = 0,
           heard = <<>> => answer \in {Granted, Refused, Nothing} \/ ~there,
           heard # <<>> => answer \in (1 .. Requests) \cup {Refused}
    PROVE  Relayed' /\ Told'
<1>1. Carried' = Carried
  BY DEF Carried
<1>2. CASE ~there
  <2>1. heard' = heard
    BY <1>2 DEF Hears
  <2> QED BY <1>1, <2>1 DEF Answered, Relayed, Told
<1>3. CASE there
  <2>1. /\ heard' = Append(heard, answer) /\ heard \in Seq(Messages) /\ answer \in Messages
        /\ \A i \in DOMAIN heard : heard[i] \in Messages
    BY <1>3 DEF Hears, IInv, TypeOK, Threads
  <2>2. answer \in Int /\ \A i \in DOMAIN heard : heard[i] \in Int
    BY <2>1, MessageNumbers
  <2>3. answer > 0 => \A i \in DOMAIN heard : heard[i] < answer
    BY <2>2 DEF Answered, Relayed
  <2>4. Rising(heard')
    BY <2>1, <2>3, Appended DEF Answered, Relayed
  <2>5. /\ Len(heard) \in Nat /\ DOMAIN heard = 1 .. Len(heard) /\ Len(heard') = Len(heard) + 1
        /\ DOMAIN heard' = 1 .. Len(heard) + 1
        /\ \A i \in DOMAIN heard : heard'[i] = heard[i]
        /\ heard'[Len(heard) + 1] = answer
        /\ heard = <<>> <=> Len(heard) = 0
    BY <2>1
  <2>6. \A i \in DOMAIN heard' : i \in DOMAIN heard \/ heard'[i] = answer
    BY <2>5
  <2>7. Relayed'
    BY <1>1, <2>4, <2>5, <2>6 DEF Answered, Relayed
  <2>8. Told'
    <3>1. heard'[1] \in {Granted, Refused, Nothing}
      BY <1>3, <2>5 DEF Answered, Told
    <3>2. answer > 0 => answer \in Carried
      BY DEF Answered, Relayed
    <3>3. ASSUME NEW i \in 2 .. Len(heard') PROVE heard'[i] \in Carried \cup {Refused}
      <4>1. CASE i \in 2 .. Len(heard)
        BY <2>5, <4>1 DEF Answered, Told
      <4>2. CASE i = Len(heard) + 1
        <5>1. heard # <<>>
          BY <2>5, <4>2
        <5>2. answer \in Carried \cup {Refused}
          BY <3>2, <5>1
        <5> QED BY <2>5, <4>2, <5>2
      <4> QED BY <2>5, <4>1, <4>2
    <3> QED BY <1>1, <3>1, <3>3 DEF Told
  <2> QED BY <2>7, <2>8
<1> QED BY <1>2, <1>3

LEMMA ServerForwardsAnswered == ASSUME IInv, Writes, Answered, ServerForwards PROVE Answered'
<1>1. /\ server = "forward" /\ server' \in {"look", "leave"} /\ answer' = 0
      /\ UNCHANGED <<isServerConnected, first_login, sslServer, there, done, conns>>
  BY DEF ServerForwards, flags, user, cluster
<1>2. Says' = Says
  BY <1>1 DEF Says
<1>3. LoginFirst'
  BY <1>1, <1>2 DEF Answered, LoginFirst
<1>4. ~first_login /\ answer \in (1 .. Requests) \cup {Refused}
  BY <1>1 DEF Writes, First, Answered, LoginFirst
<1>5. heard = <<>> => ~there
  BY <1>4 DEF Answered, Untold
<1>6. CASE Hears
  <2>1. Relayed' /\ Told'
    BY <1>1, <1>2, <1>4, <1>5, <1>6, HearsMore
  <2>2. heard' = <<>> => heard = <<>>
    <3>1. answer \in Messages /\ heard \in Seq(Messages)
      BY <1>1 DEF IInv, TypeOK, Threads
    <3> QED BY <1>6, <3>1, Written DEF Hears
  <2>3. Untold'
    BY <1>1, <1>5, <2>2 DEF Untold
  <2> QED BY <1>3, <2>1, <2>3 DEF Answered
<1>7. CASE UNCHANGED heard
  <2>1. Relayed' /\ Told' /\ Untold'
    BY <1>1, <1>2, <1>7 DEF Answered, Relayed, Told, Untold, Carried
  <2> QED BY <1>3, <2>1 DEF Answered
<1> QED BY <1>6, <1>7 DEF ServerForwards

LEMMA ServerTellsAnswered == ASSUME IInv, Writes, Answered, ServerTells PROVE Answered'
<1>1. /\ server = "tell"
      /\ UNCHANGED <<isServerConnected, sslServer, answer, there, done, conns>>
  BY DEF ServerTells, user, cluster
<1>2. Says' = Says
  BY <1>1 DEF Says
<1>3. answer \in {Granted, Refused, Nothing} /\ ~(answer > 0)
  BY <1>1 DEF Answered, LoginFirst, Granted, Refused, Nothing
<1>4. LoginFirst'
  BY <1>1, <1>2 DEF Answered, LoginFirst, ServerTells, increment_currentServer, Ended, IInv, Threads
<1>5. CASE first_login /\ Hears /\ first_login' = FALSE
  <2>1. heard = <<>>
    BY <1>5 DEF Writes, First
  <2>2. Relayed' /\ Told'
    BY <1>1, <1>2, <1>3, <1>5, <2>1, HearsMore
  <2>3. heard' = <<>> => ~there
    BY <1>5, <2>1 DEF Hears, IInv, TypeOK
  <2>4. Untold'
    BY <1>1, <2>3 DEF Untold
  <2> QED BY <1>4, <2>2, <2>4 DEF Answered
<1>6. CASE UNCHANGED <<heard, first_login>>
  <2>1. Relayed' /\ Told' /\ Untold'
    BY <1>1, <1>2, <1>6 DEF Answered, Relayed, Told, Untold, Carried
  <2> QED BY <1>4, <2>1 DEF Answered
<1> QED BY <1>5, <1>6 DEF ServerTells

(* The other steps of the server's thread read and tell nothing.           *)
LEMMA Untalkative ==
    ASSUME Answered, UNCHANGED <<first_login, there, heard, done, sslServer>>, Says' = Says,
           answer' \in {0, answer}
    PROVE  Relayed' /\ Told' /\ Untold'
  BY DEF Answered, Relayed, Told, Untold, Carried

LEMMA DialsAnswered ==
    ASSUME IInv, Answered, Dials, server' = "name", ~isServerConnected,
           UNCHANGED <<first_login, isServerConnected, heard, there, done, answer>>
    PROVE  Answered'
<1>1. /\ sslServer' \in Ids /\ Says' = <<>> /\ conns'[sslServer'].state = "name"
      /\ \A j \in Ids : j # sslServer' => conns'[j] \in {Free, conns[j]}
  BY DialsThinned DEF Says
<1>2. \A k \in Ids : conns'[k].state = "name" => conns'[k].toProxy = <<>>
  BY <1>1 DEF Answered, LoginFirst, Free, Says
<1>3. LoginFirst'
  BY <1>1, <1>2 DEF LoginFirst
<1>4. Relayed'
  BY <1>1, Emptied DEF Answered, Relayed, Carried
<1>5. Untold' /\ Told'
  BY DEF Answered, Untold, Told, Carried
<1> QED BY <1>3, <1>4, <1>5 DEF Answered

LEMMA ServerThreadAnswered == ASSUME IInv, Writes, Answered, ServerThread PROVE Answered'
<1>1. ASSUME ServerLooks PROVE Answered'
  <2>1. /\ UNCHANGED <<flags, sslServer, answer, there, heard, done, conns>>
        /\ server' \in {"dial", "done"} \/ (server' = "read" /\ isServerConnected)
    BY <1>1 DEF ServerLooks, user, cluster
  <2>2. Says' = Says /\ UNCHANGED <<first_login, isServerConnected>>
    BY <2>1 DEF Says, flags
  <2>3. LoginFirst'
    BY <2>1, <2>2 DEF Answered, LoginFirst
  <2> QED BY <2>1, <2>2, <2>3, Untalkative DEF Answered
<1>2. ASSUME ServerCloses \/ ServerLeaves PROVE Answered'
  <2>1. /\ UNCHANGED <<first_login, sslServer, answer, there, heard, done>>
        /\ Reaches(End) \/ Vanishes \/ Fails
        /\ server' \in {"look", "done"} /\ ~isServerConnected'
    BY <1>2 DEF ServerCloses, ServerLeaves, close_serverConnection, user, cluster
  <2>2. Says' = Says /\ \A k \in Ids : conns'[k].state = conns[k].state
                                       /\ conns'[k].toProxy = conns[k].toProxy
    BY <2>1, WritingSame
  <2>3. LoginFirst'
    BY <2>1, <2>2 DEF Answered, LoginFirst
  <2> QED BY <2>1, <2>2, <2>3, Untalkative DEF Answered
<1>3. ASSUME ServerDials PROVE Answered'
  <2>1. UNCHANGED <<first_login, isServerConnected, answer, there, heard, done>>
    BY <1>3 DEF ServerDials, flags, user, cluster
  <2>2. CASE Dials /\ server' = "name" /\ ~isServerConnected
    BY <2>1, <2>2, DialsAnswered
  <2>3. CASE UNCHANGED <<sslServer, conns>> /\ server' \in {"leave", "dial", "look"}
    <3>1. Says' = Says
      BY <2>3 DEF Says
    <3>2. LoginFirst'
      BY <2>1, <2>3, <3>1 DEF Answered, LoginFirst
    <3> QED BY <2>1, <2>3, <3>1, <3>2, Untalkative DEF Answered
  <2> QED BY <1>3, <2>2, <2>3 DEF ServerDials, increment_currentServer
<1>4. ASSUME ServerNames PROVE Answered'
  <2>1. /\ UNCHANGED <<first_login, isServerConnected, sslServer, answer, there, heard, done>>
        /\ server = "name" /\ server' \in {"login", "dial"} /\ ~isServerConnected
        /\ Reaches(Name) \/ Vanishes \/ Fails
    BY <1>4 DEF ServerNames, increment_currentServer, flags, user, cluster, IInv, Threads
  <2>2. /\ Says' = Says /\ (Ended(sslServer)' <=> Ended(sslServer))
        /\ conns'[sslServer].state = conns[sslServer].state
        /\ \A k \in Ids : conns'[k].state = conns[k].state /\ conns'[k].toProxy = conns[k].toProxy
    BY <2>1, WritingSame
  <2>3. LoginFirst'
    BY <2>1, <2>2 DEF Answered, LoginFirst
  <2> QED BY <2>1, <2>2, <2>3, Untalkative DEF Answered
<1>5. ASSUME ServerLogged PROVE Answered'
  <2>1. /\ UNCHANGED <<first_login, sslServer, there, heard, done, conns>>
        /\ answer' = 0 /\ server = "logged" /\ server' = "dial"
    BY <1>5 DEF ServerLogged, increment_currentServer, user, cluster
  <2>2. Says' = Says
    BY <2>1 DEF Says
  <2>3. LoginFirst'
    BY <2>1, <2>2 DEF Answered, LoginFirst
  <2> QED BY <2>1, <2>2, <2>3, Untalkative DEF Answered
<1> QED BY <1>1, <1>2, <1>3, <1>4, <1>5, ServerReadsAnswered, ServerHearsAnswered,
           ServerForwardsAnswered, ServerTellsAnswered DEF ServerThread

-----------------------------------------------------------------------------
Ordered == IInv /\ Writes /\ Answered

LEMMA InitOrdered == Init => Ordered
<1> SUFFICES ASSUME Init PROVE Ordered
  OBVIOUS
<1>1. IInv
  BY InitInv
<1>2. /\ \A k \in Ids : conns[k] = Free
      /\ sent = 0 /\ told = 0 /\ toProxy = <<>> /\ heard = <<>> /\ done = <<>> /\ Carried = {}
      /\ first_login /\ ~isServerConnected /\ sslServer = 0 /\ answer = 0
      /\ client = "look" /\ server = "look"
  BY DEF Init, Carried
<1>3. \A k \in Ids : conns[k].toServer = <<>> /\ conns[k].toProxy = <<>> /\ conns[k].state = "free"
  BY <1>2 DEF Free
<1>4. \A k \in Ids : ~Loaded(k)
  BY <1>3, Emptied DEF Loaded
<1>5. \A r : ~Passed(r)
  BY <1>2, <1>3, Emptied DEF Passed
<1>6. Queued /\ Served
  BY <1>2, <1>3, <1>5, Emptied DEF Queued, Served
<1>7. OneLoaded /\ Left /\ First /\ CarriedOutInOrder
  BY <1>2, <1>4 DEF OneLoaded, Left, First, CarriedOutInOrder, CurrentLoaded, Open
<1>8. LoginFirst /\ Untold
  BY <1>2, <1>3 DEF LoginFirst, Untold
<1>9. Relayed /\ Told
  BY <1>2, Emptied DEF Relayed, Told
<1> QED BY <1>1, <1>6, <1>7, <1>8, <1>9 DEF Ordered, Writes, Answered

LEMMA StepOrdered == Ordered /\ [Next]_vars => Ordered'
<1> SUFFICES ASSUME Ordered, [Next]_vars PROVE Ordered'
  OBVIOUS
<1>1. IInv /\ Writes /\ Answered /\ LoginFirst
  BY DEF Ordered, Answered
<1>2. IInv'
  BY <1>1, StepInv
<1>3. CASE Next
  <2>1. Writes'
    BY <1>1, <1>3, ClientThreadWrites, ServerThreadWrites, UserAndServersWrite DEF Next
  <2>2. Answered'
    BY <1>1, <1>3, ServerThreadAnswered, OthersAnswered DEF Next
  <2> QED BY <1>2, <2>1, <2>2 DEF Ordered
<1>4. CASE UNCHANGED vars
  BY <1>1, <1>2, <1>4
     DEF vars, flags, serverThread, clientThread, user, cluster, Ordered, Writes, Answered,
         Queued, Served, OneLoaded, Left, First, CarriedOutInOrder, LoginFirst, Relayed, Untold,
         Told, Passed, Carried, Loaded, CurrentLoaded, Unused, Connecting, Open, Ended, Says
<1> QED BY <1>3, <1>4

(* The order is kept in every behaviour, by any list of servers, any       *)
(* number of requests and any number of them under way.                    *)
LEMMA AlwaysOrdered == Safety => []Ordered
  BY InitOrdered, StepOrdered, PTL DEF Safety

(* Requests are carried out in the order in which the client made them,    *)
(* and none twice, though the proxy writes to one server while another     *)
(* still reads from a connection that the proxy has forgotten.             *)
THEOREM InOrder == Safety => []CarriedOutInOrder
<1>1. Ordered => CarriedOutInOrder
  BY DEF Ordered, Writes
<1> QED BY <1>1, AlwaysOrdered, PTL

(* The client hears of one login and then of requests that were carried    *)
(* out, in their order, whatever connections the answers came over.        *)
THEOREM AnswersInOrder == Safety => []HearsInOrder
<1>1. ASSUME Ordered PROVE HearsInOrder
  <2>1. Told /\ Rising(heard)
    BY <1>1 DEF Ordered, Answered, Relayed
  <2>2. \A i \in 2 .. Len(heard) :
          heard[i] = Refused \/ \E d \in DOMAIN done : done[d].request = heard[i]
    BY <2>1 DEF Told, Carried
  <2> QED BY <2>1, <2>2 DEF HearsInOrder, Told, Rising, Answers
<1> QED BY <1>1, AlwaysOrdered, PTL

-----------------------------------------------------------------------------
(* The walk through the list.                                              *)
(* A client that waits for nothing has nothing under way, so the client's  *)
(* thread does not write while the other one is connecting: it finds every *)
(* connection as it left it, and goes on to the next server only when the  *)
(* last one is down or refuses the user.                                   *)
Calm == there /\ Satisfied

(* The client's thread does not leave a client that is there, and a        *)
(* request that it has lost is not carried out any more.                   *)
Present ==
    there => /\ client \notin {"close", "leave"} /\ told >= 0
             /\ \A i \in DOMAIN toProxy : toProxy[i] > 0
Lost == client = "drop" /\ there => \E r \in 1 .. sent : ~Passed(r) /\ Above(toProxy, r)

(* The servers before the place in the list cannot be logged in to; nor    *)
(* can the one at it, if its answer or its end says so.                    *)
Rejects(s) == s \notin up \cap accepts
PassedOver(p) == \A s \in 1 .. p - 1 : Rejects(s)
AtServer ==
    /\ server \in {"name", "login"} =>
         LET c == conns[sslServer]
         IN  /\ c.server = it /\ c.state # "free"
             /\ Ended(sslServer) => Rejects(it)
             /\ c.state = "name" => c.toServer = IF server = "name" THEN <<>> ELSE <<Name>>
             /\ c.state = "in" => server = "login" /\ c.toServer = <<>>
    /\ server \in {"tell", "logged"} => answer = Granted \/ Rejects(it)
Walks ==
    /\ server = "dial" => PassedOver(IF isServerConnected THEN it - 1 ELSE it)
    /\ Connecting => PassedOver(it) /\ AtServer
Walked == Calm => Walks

Kept == Ordered /\ Present /\ Lost /\ Walked

(* The client has not heard more answers than it made requests, and waits  *)
(* for something as long as one of them is not carried out.                *)
LEMMA AnswersCounted ==
    ASSUME IInv, Queued, Relayed
    PROVE  /\ Cardinality(Answers) \in Nat /\ Cardinality(Answers) <= sent
           /\ \A r \in 1 .. sent : r \notin Carried => ~Satisfied
<1>1. heard \in Seq(Messages) /\ sent \in Nat
  BY ProxyAssumption DEF IInv, TypeOK
<1>2. \A i \in Answers : heard[i] \in Carried
  BY DEF Relayed, Answers
<1>3. Carried \subseteq 1 .. sent
  <2>1. Carried \subseteq 1 .. Requests
    BY CarriedNumbers
  <2> QED BY <2>1, ProxyAssumption, <1>1 DEF Queued, Passed
<1>4. \A i, j \in Answers : heard[i] = heard[j] => i = j
  <2> SUFFICES ASSUME NEW i \in Answers, NEW j \in Answers, heard[i] = heard[j], i < j
               PROVE  FALSE
    BY <1>1 DEF Answers
  <2>1. heard[i] < heard[j]
    BY DEF Relayed, Rising, Answers
  <2>2. i \in DOMAIN heard
    BY DEF Answers
  <2>3. heard[i] \in Messages
    BY <1>1, <2>2
  <2>4. heard[i] \in Int
    BY <2>3, MessageNumbers
  <2> QED BY <2>1, <2>4
<1>5. ASSUME NEW T, IsFiniteSet(T), Carried \subseteq T
      PROVE  IsFiniteSet(Answers) /\ Cardinality(Answers) <= Cardinality(T)
  <2> DEFINE f == [i \in Answers |-> heard[i]]
  <2>1. f \in Injection(Answers, T)
    BY <1>2, <1>4, <1>5 DEF Injection, IsInjective
  <2> QED BY <1>5, <2>1, FS_Injection
<1>6. IsFiniteSet(1 .. sent) /\ Cardinality(1 .. sent) = sent
  <2>1. 1 \in Int /\ sent \in Int
    BY <1>1
  <2>2. /\ IsFiniteSet(1 .. sent)
        /\ Cardinality(1 .. sent) = IF 1 > sent THEN 0 ELSE sent - 1 + 1
    BY <2>1, FS_Interval
  <2> QED BY <1>1, <2>2
<1>7. IsFiniteSet(Answers) /\ Cardinality(Answers) <= sent
  BY <1>3, <1>5, <1>6
<1>8. Cardinality(Answers) \in Nat
  BY <1>7, FS_CardinalityType
<1>9. ASSUME NEW r \in 1 .. sent, r \notin Carried PROVE ~Satisfied
  <2> DEFINE T == (1 .. sent) \ {r}
  <2>1. IsFiniteSet(T) /\ Cardinality(T) = sent - 1
    BY <1>6, <1>9, FS_RemoveElement
  <2>2. Cardinality(Answers) <= Cardinality(T)
    BY <1>3, <1>5, <1>9, <2>1
  <2> QED BY <1>1, <1>8, <2>1, <2>2 DEF Satisfied
<1> QED BY <1>7, <1>8, <1>9

(* A request that was read, or lost, is one that the client waits for.     *)
LEMMA CalmThread ==
    ASSUME Ordered, Present, Lost, Calm
    PROVE  client \in {"look", "read", "done"}
<1>1. \A r \in 1 .. sent : r \in Carried
  BY AnswersCounted DEF Ordered, Writes, Answered, Calm
<1>2. client # "drop"
  BY <1>1 DEF Lost, Calm, Passed
<1>3. ASSUME client = "write" PROVE FALSE
  <2>1. told > 0 /\ told \in Messages /\ told <= sent
    BY <1>3, MessageNumbers DEF Ordered, IInv, TypeOK, Threads, Present, Calm, Writes, Queued
  <2>2. told \in 1 .. Requests
    BY <2>1, MessageNumbers
  <2>3. sent \in Nat
    BY ProxyAssumption DEF Ordered, IInv, TypeOK
  <2>4. told \in 1 .. sent
    BY <2>1, <2>2, <2>3, ProxyAssumption
  <2>5. Passed(told)
    BY <1>1, <2>4 DEF Passed
  <2>6. told < told
    BY <2>1, <2>2, <2>5 DEF Ordered, Writes, Queued
  <2> QED BY <2>2, <2>6
<1> QED BY <1>2, <1>3 DEF Present, Calm, Ordered, IInv, TypeOK

-----------------------------------------------------------------------------
(* Only the client's thread passes requests on.                            *)
LEMMA ServersPass ==
    ASSUME IInv, Writes, ServerThread \/ (\E k \in Ids : Serves(k)) \/ (\E s \in Servers : Crash(s))
    PROVE  /\ \A r \in 1 .. Requests : Passed(r)' => Passed(r)
           /\ UNCHANGED <<client, told, toProxy, sent, there>>
<1>1. UNCHANGED <<client, told, toProxy, sent, there>>
  BY DEF ServerThread, ServerLooks, ServerReads, ServerForwards, ServerCloses, ServerDials,
         ServerNames, ServerHears, ServerTells, ServerLogged, ServerLeaves, Serves,
         ServerLogsIn, ServerAnswers, Crash, clientThread, user
<1>2. ASSUME Thinned, UNCHANGED done PROVE \A r \in 1 .. Requests : Passed(r)' => Passed(r)
  BY <1>2, ThinnedServes DEF Writes
<1>3. ASSUME Followed, UNCHANGED done PROVE \A r \in 1 .. Requests : Passed(r)' => Passed(r)
  BY <1>2, <1>3, FollowedThinned
<1>4. ASSUME ServerThread PROVE \A r \in 1 .. Requests : Passed(r)' => Passed(r)
  <2>1. UNCHANGED done
    BY <1>4 DEF ServerThread, ServerLooks, ServerReads, ServerForwards, ServerCloses, ServerDials,
         ServerNames, ServerHears, ServerTells, ServerLogged, ServerLeaves, cluster
  <2>2. \/ UNCHANGED <<sslServer, conns>>
        \/ server \in {"read", "login"} /\ Takes /\ UNCHANGED sslServer
        \/ (Reaches(End) \/ Vanishes \/ Fails) /\ UNCHANGED sslServer
        \/ (Reaches(Name) \/ Vanishes \/ Fails) /\ UNCHANGED sslServer
        \/ Dials
    BY <1>4 DEF ServerThread, ServerLooks, ServerReads, ServerForwards, ServerCloses, ServerDials,
         ServerNames, ServerHears, ServerTells, ServerLogged, ServerLeaves, close_serverConnection
  <2>3. End \in Messages /\ End < 0 /\ Name \in Messages /\ Name < 0
    BY DEF Messages, End, Name
  <2>4. Followed \/ Dials
    BY <2>2, <2>3, SameFollowed, TakingFollowed, WritingFollowed DEF IInv, Threads
  <2> QED BY <1>2, <1>3, <2>1, <2>4, DialsThinned
<1>5. ASSUME NEW k \in Ids, Serves(k) PROVE \A r \in 1 .. Requests : Passed(r)' => Passed(r)
  <2>1. CASE ServerLogsIn(k)
    <3>1. UNCHANGED done
      BY <2>1 DEF ServerLogsIn, cluster
    <3> QED BY <1>3, <2>1, <3>1, LoginFollowed
  <2>2. CASE ServerAnswers(k)
    BY <2>2, AnswersServe
  <2> QED BY <1>5, <2>1, <2>2 DEF Serves
<1>6. ASSUME NEW s \in Servers, Crash(s) PROVE \A r \in 1 .. Requests : Passed(r)' => Passed(r)
  <2>1. UNCHANGED done
    BY <1>6 DEF Crash
  <2> QED BY <1>3, <1>6, <2>1, CrashFollowed
<1> QED BY <1>1, <1>4, <1>5, <1>6

(* The client's thread, beside a client that is there.                     *)
LEMMA PresentLostKept ==
    ASSUME IInv, Writes, Present, Lost, Next
    PROVE  Present' /\ Lost'
<1>1. sent \in Nat /\ toProxy \in Seq(Messages) /\ told \in Messages \cup {0}
  BY ProxyAssumption DEF IInv, TypeOK
<1>2. ASSUME ClientSends PROVE Present' /\ Lost'
  <2>1. /\ sent' = sent + 1 /\ toProxy' = Append(toProxy, sent + 1)
        /\ UNCHANGED <<client, told, there, conns, done>> /\ sent + 1 \in 1 .. Requests
    BY <1>1, <1>2, ProxyAssumption DEF ClientSends, clientThread, cluster, IInv, TypeOK
  <2>2. sent + 1 \in Messages
    BY <2>1 DEF Messages
  <2>3. Present'
    BY <1>1, <2>1, <2>2 DEF Present
  <2>4. ASSUME client = "drop", there PROVE Lost'
    <3>1. PICK r \in 1 .. sent : ~Passed(r) /\ Above(toProxy, r)
      BY <2>4 DEF Lost
    <3>2. r \in Int /\ r < sent + 1 /\ r \in 1 .. sent'
      BY <1>1, <2>1
    <3>3. Above(toProxy', r)
      BY <1>1, <2>1, <2>2, <3>1, <3>2, Appended
    <3>4. ~(Passed(r)')
      BY <2>1, <3>1 DEF Passed, Carried
    <3> QED BY <3>2, <3>3, <3>4 DEF Lost, Above
  <2> QED BY <2>1, <2>3, <2>4 DEF Lost
<1>3. ASSUME ClientLeaves PROVE Present' /\ Lost'
  BY <1>3 DEF ClientLeaves, Present, Lost
<1>4. ASSUME ClientLooks \/ ClientDrops \/ ClientCloses \/ ClientEnds PROVE Present' /\ Lost'
  BY <1>4 DEF ClientLooks, ClientDrops, ClientCloses, ClientEnds, user, clientThread, Present, Lost
<1>5. ASSUME ClientReads PROVE Present' /\ Lost'
  <2>1. /\ client' \in {"write", "close"} /\ UNCHANGED there
        /\ \/ toProxy # <<>> /\ told' = Head(toProxy) /\ toProxy' = Tail(toProxy) /\ client' = "write"
           \/ ~there
    BY <1>5 DEF ClientReads
  <2>2. ASSUME there PROVE Present'
    <3>1. \A i \in DOMAIN toProxy : toProxy[i] > 0
      BY <2>2 DEF Present
    <3>2. toProxy # <<>> /\ toProxy' = Tail(toProxy) /\ told' = Head(toProxy)
      BY <2>1, <2>2
    <3>3. /\ \E i \in DOMAIN toProxy : toProxy[i] = Head(toProxy)
          /\ \A i \in DOMAIN Tail(toProxy) : \E j \in DOMAIN toProxy : Tail(toProxy)[i] = toProxy[j]
          /\ Head(toProxy) \in Messages
      BY <1>1, <3>2, Read
    <3>4. told' > 0 /\ told' \in Int
      BY <3>1, <3>2, <3>3, MessageNumbers
    <3>5. \A i \in DOMAIN toProxy' : toProxy'[i] > 0
      BY <3>1, <3>2, <3>3
    <3> QED BY <2>1, <2>2, <3>4, <3>5 DEF Present
  <2> QED BY <2>1, <2>2 DEF Present, Lost
<1>6. ASSUME ClientWrites PROVE Present' /\ Lost'
  <2>1. /\ UNCHANGED <<there, toProxy, sent, done>> /\ client = "write" /\ told' = 0
        /\ client' = "look" \/ (client' = "drop" /\ UNCHANGED conns)
    BY <1>6 DEF ClientWrites, user, cluster, Fails
  <2>2. Present'
    BY <2>1 DEF Present
  <2>3. ASSUME there, client' = "drop" PROVE Lost'
    <3>1. told # 0 /\ told >= 0 /\ told \in Messages
      BY <1>1, <2>1, <2>3 DEF Present, IInv, Threads
    <3>2. told \in Int
      BY <3>1, MessageNumbers
    <3>3. told > 0
      BY <3>1, <3>2
    <3>4. told \in 1 .. Requests
      BY <3>1, <3>3, MessageNumbers
    <3>5. PICK r \in 1 .. Requests : r = told
      BY <3>4
    <3>6. r \in 1 .. sent /\ Above(toProxy, r)
      BY <1>1, <3>3, <3>5 DEF Writes, Queued
    <3>7. ~Passed(r)
      BY <3>3, <3>5 DEF Writes, Queued
    <3>8. ~(Passed(r)')
      BY <2>1, <2>3, <3>7 DEF Passed, Carried
    <3>9. Above(toProxy', r) /\ r \in 1 .. sent'
      BY <2>1, <3>6
    <3> QED BY <3>8, <3>9 DEF Lost, Above
  <2> QED BY <2>1, <2>2, <2>3 DEF Lost
<1>7. ASSUME ServerThread \/ (\E k \in Ids : Serves(k)) \/ (\E s \in Servers : Crash(s))
      PROVE  Present' /\ Lost'
  <2>1. /\ \A r \in 1 .. Requests : Passed(r)' => Passed(r)
        /\ UNCHANGED <<client, told, toProxy, sent, there>>
    BY <1>7, ServersPass
  <2>2. sent <= Requests
    BY DEF IInv, TypeOK
  <2>3. Present'
    BY <2>1 DEF Present
  <2>4. ASSUME client = "drop", there PROVE Lost'
    <3>1. PICK r \in 1 .. sent : ~Passed(r) /\ Above(toProxy, r)
      BY <2>4 DEF Lost
    <3>2. r \in 1 .. Requests
      BY <1>1, <2>2, ProxyAssumption
    <3>3. ~(Passed(r)') /\ r \in 1 .. sent' /\ Above(toProxy', r)
      BY <2>1, <3>1, <3>2
    <3> QED BY <3>3 DEF Lost, Above
  <2> QED BY <2>1, <2>3, <2>4 DEF Lost
<1> QED BY <1>2, <1>3, <1>4, <1>5, <1>6, <1>7 DEF Next, ClientThread

-----------------------------------------------------------------------------
(* A client does not come to wait for nothing while the proxy connects.    *)
LEMMA CalmBefore ==
    ASSUME Ordered, Next, Calm', server' = "dial" \/ Connecting'
    PROVE  Calm
<1>1. sent \in Nat /\ heard \in Seq(Messages)
  BY ProxyAssumption DEF Ordered, IInv, TypeOK
<1>2. /\ Cardinality(Answers) \in Nat /\ Cardinality(Answers) <= sent
  BY AnswersCounted DEF Ordered, Writes, Answered
<1>3. CASE ClientSends
  <2>1. sent' = sent + 1 /\ Answers' = Answers
    BY <1>3 DEF ClientSends, Answers
  <2>2. sent' = Cardinality(Answers)
    BY <2>1 DEF Calm, Satisfied
  <2> QED BY <1>1, <1>2, <2>1, <2>2
<1>4. CASE ServerForwards
  BY <1>4 DEF ServerForwards, Connecting
<1>5. CASE ServerTells
  <2>1. UNCHANGED <<there, sent>> /\ server = "tell" /\ (UNCHANGED heard \/ Hears)
    BY <1>5 DEF ServerTells, user
  <2>2. there
    BY <2>1 DEF Calm
  <2>3. CASE Hears
    <3>1. answer \in {Granted, Refused, Nothing}
      BY <2>1 DEF Ordered, Answered, LoginFirst
    <3>2. answer \in Messages /\ ~(answer > 0)
      BY <3>1 DEF Granted, Refused, Nothing, Messages
    <3>3. heard' = Append(heard, answer)
      BY <2>2, <2>3 DEF Hears
    <3>4. /\ DOMAIN heard' = (DOMAIN heard) \cup {Len(heard) + 1}
          /\ \A i \in DOMAIN heard : heard'[i] = heard[i]
          /\ heard'[Len(heard) + 1] = answer
      BY <1>1, <3>2, <3>3
    <3>5. Answers' = Answers
      BY <3>2, <3>4 DEF Answers
    <3> QED BY <2>1, <3>5 DEF Calm, Satisfied
  <2>4. CASE UNCHANGED heard
    BY <2>1, <2>4 DEF Calm, Satisfied, Answers
  <2> QED BY <2>1, <2>3, <2>4
<1>6. CASE UNCHANGED <<heard, sent>> /\ (UNCHANGED there \/ ~there')
  BY <1>6 DEF Calm, Satisfied, Answers
<1>7. \/ ClientSends \/ ServerForwards \/ ServerTells
      \/ UNCHANGED <<heard, sent>> /\ (UNCHANGED there \/ ~there')
  BY DEF Next, ClientThread, ServerThread, Serves, ClientLeaves, ClientLooks, ClientReads,
         ClientWrites, ClientDrops, ClientCloses, ClientEnds, ServerLooks, ServerReads,
         ServerCloses, ServerDials, ServerNames, ServerHears, ServerLogged, ServerLeaves,
         ServerLogsIn, ServerAnswers, Crash, user
<1> QED BY <1>3, <1>4, <1>5, <1>6, <1>7

(* One server more cannot be logged in to.                                 *)
LEMMA NextServer ==
    ASSUME NEW p \in Int, PassedOver(p), Rejects(p) PROVE PassedOver(p + 1)
  BY DEF PassedOver

(* A server that dies or refuses the user is one more to pass over.        *)
LEMMA OthersWalk ==
    ASSUME Ordered, Walks,
           \/ ClientLooks \/ ClientReads \/ ClientLeaves
           \/ \E k \in Ids : Serves(k)
           \/ \E s \in Servers : Crash(s)
    PROVE  Walks'
<1>1. UNCHANGED <<server, it, sslServer, answer, isServerConnected, accepts>> /\ up' \subseteq up
  BY DEF ClientLooks, ClientReads, ClientLeaves, Serves, ServerLogsIn, ServerAnswers, Crash,
         flags, serverThread, cluster
<1>2. \A s : Rejects(s) => Rejects(s)'
  BY <1>1 DEF Rejects
<1>3. Connecting => sslServer \in Ids
  BY CurrentId DEF Ordered, IInv, Threads, Connecting
<1>4. ASSUME conns'[sslServer] = conns[sslServer] PROVE Walks'
  BY <1>1, <1>2, <1>4 DEF Walks, PassedOver, AtServer, Connecting, Ended
<1>5. CASE ClientLooks \/ ClientReads \/ ClientLeaves
  <2>1. UNCHANGED conns
    BY <1>5 DEF ClientLooks, ClientReads, ClientLeaves
  <2> QED BY <1>4, <2>1
<1>6. ASSUME server \in {"name", "login"} =>
         LET c == conns'[sslServer]
         IN  /\ c.server = it /\ c.state # "free"
             /\ c.state \in {"closed", "dead"} => Rejects(it)'
             /\ c.state = "name" => c.toServer = IF server = "name" THEN <<>> ELSE <<Name>>
             /\ c.state = "in" => server = "login" /\ c.toServer = <<>>
      PROVE  Walks'
  BY <1>1, <1>2, <1>6 DEF Walks, PassedOver, AtServer, Connecting, Ended
<1>7. ASSUME NEW k \in Ids, Serves(k) PROVE Walks'
  <2>1. conns \in [Ids -> Conn]
    BY DEF Ordered, IInv, TypeOK
  <2>2. CASE k # sslServer
    <3>1. PICK d : Put(k, d)
      BY <1>7 DEF Serves, ServerLogsIn, ServerAnswers
    <3> QED BY <1>3, <1>4, <1>6, <2>1, <2>2, <3>1 DEF Put, Connecting
  <2>3. CASE k = sslServer /\ server \in {"name", "login"}
    <3> DEFINE c == conns[k]
    <3>1. /\ c.server = it /\ c \in Conn
          /\ c.state = "name" => c.toServer = IF server = "name" THEN <<>> ELSE <<Name>>
          /\ c.state = "in" => c.toServer = <<>>
      BY <2>1, <2>3 DEF Walks, AtServer, Connecting
    <3>2. /\ c.state = "name" /\ c.toServer = <<Name>> /\ server = "login" /\ ServerLogsIn(k)
      BY <1>7, <2>3, <3>1 DEF Serves, ServerLogsIn, ServerAnswers
    <3>3. Head(c.toServer) = Name /\ Tail(c.toServer) = <<>>
      BY <3>2
    <3>4. \/ /\ it \in accepts /\ conns'[k].server = it /\ conns'[k].state = "in"
             /\ conns'[k].toServer = <<>>
          \/ it \notin accepts /\ conns'[k].server = it /\ conns'[k].state = "closed"
      BY <2>1, <2>3, <3>1, <3>2, <3>3 DEF ServerLogsIn, Put, ServerSays, Conn
    <3>5. it \notin accepts => Rejects(it)'
      BY <1>1 DEF Rejects
    <3> QED BY <1>6, <2>3, <3>2, <3>4, <3>5
  <2>4. CASE server \notin {"name", "login"}
    BY <1>6, <2>4
  <2> QED BY <2>2, <2>3, <2>4
<1>8. ASSUME NEW s \in Servers, Crash(s) PROVE Walks'
  <2>1. CASE server \in {"name", "login"}
    <3>1. sslServer \in Ids /\ conns \in [Ids -> Conn] /\ conns[sslServer].server = it
      BY <1>3, <2>1 DEF Ordered, IInv, TypeOK, Walks, AtServer, Connecting
    <3>2. CASE s # it
      BY <1>4, <1>8, <3>1, <3>2 DEF Crash
    <3>3. CASE s = it
      <4>1. conns'[sslServer].server = it /\ conns'[sslServer].state = "dead"
        <5>1. \E q : conns'[sslServer] = [conns[sslServer] EXCEPT
                         !.state = "dead", !.toServer = <<>>, !.toProxy = q]
          BY <1>8, <3>1, <3>3 DEF Crash
        <5>2. conns[sslServer] \in Conn
          BY <3>1
        <5> QED BY <3>1, <5>1, <5>2 DEF Conn
      <4>2. Rejects(it)'
        BY <1>1, <1>8, <3>3 DEF Crash, Rejects
      <4> QED BY <1>6, <4>1, <4>2
    <3> QED BY <3>2, <3>3
  <2>2. CASE server \notin {"name", "login"}
    BY <1>6, <2>2
  <2> QED BY <2>1, <2>2
<1> QED BY <1>5, <1>7, <1>8

(* The server's thread goes on to the next server only from such a one, or *)
(* when it is connected.                                                   *)
LEMMA ServerThreadWalks ==
    ASSUME Ordered, Walks, ServerThread, there
    PROVE  Walks'
<1>1. it \in 1 .. N + 1 /\ N \in Nat /\ conns \in [Ids -> Conn]
  BY ProxyAssumption DEF Ordered, IInv, TypeOK
<1>2. UNCHANGED <<up, accepts, there>>
  BY DEF ServerThread, ServerLooks, ServerReads, ServerForwards, ServerCloses, ServerDials,
         ServerNames, ServerHears, ServerTells, ServerLogged, ServerLeaves, cluster, user
<1>3. \A s : Rejects(s) <=> Rejects(s)'
  BY <1>2 DEF Rejects
<1>4. Connecting => ~isServerConnected /\ sslServer \in Ids /\ PassedOver(it) /\ AtServer
  BY CurrentId DEF Ordered, IInv, Threads, Connecting, Walks
<1>5. ASSUME increment_currentServer, PassedOver(it), Rejects(it) PROVE Walks'
  <2>1. PassedOver(it + 1)
    BY <1>1, <1>5, NextServer
  <2>2. it' = it + 1 /\ server' = "dial"
    BY <1>5 DEF increment_currentServer
  <2> QED BY <1>1, <1>3, <2>1, <2>2 DEF Walks, PassedOver, Connecting
<1>6. CASE server' \notin {"dial", "name", "login", "tell", "logged"}
  BY <1>6 DEF Walks, Connecting
<1>7. CASE ServerLooks
  <2>1. CASE it' = 1 /\ server' = "dial" /\ ~isServerConnected'
    BY <2>1 DEF Walks, Connecting, PassedOver
  <2> QED BY <1>6, <1>7, <2>1 DEF ServerLooks, flags
<1>8. CASE ServerReads \/ ServerForwards \/ ServerCloses \/ ServerLeaves
  BY <1>6, <1>8 DEF ServerReads, ServerForwards, ServerCloses, ServerLeaves
<1>9. CASE ServerDials
  <2>1. server = "dial" /\ UNCHANGED <<isServerConnected, answer>>
    BY <1>9 DEF ServerDials, flags
  <2>2. CASE ~isServerConnected /\ it \notin up /\ increment_currentServer
    BY <1>5, <2>1, <2>2 DEF Walks, Rejects
  <2>3. CASE ~isServerConnected /\ Dials /\ server' = "name" /\ UNCHANGED it
    <3>1. conns'[sslServer'] = [Free EXCEPT !.server = it, !.state = "name"]
      BY <1>1, <2>3 DEF Dials
    <3>2. /\ conns'[sslServer'].server = it /\ conns'[sslServer'].state = "name"
          /\ conns'[sslServer'].toServer = <<>>
      BY <3>1 DEF Free
    <3>3. PassedOver(it)'
      BY <1>3, <2>1, <2>3 DEF Walks, PassedOver
    <3> QED BY <2>3, <3>2, <3>3 DEF Walks, Connecting, AtServer, Ended
  <2> QED BY <1>6, <1>9, <2>2, <2>3 DEF ServerDials
<1>10. CASE ServerNames
  <2>1. server = "name" /\ UNCHANGED <<sslServer, answer, isServerConnected>>
    BY <1>10 DEF ServerNames, flags
  <2>2. /\ sslServer \in Ids /\ conns[sslServer] \in Conn
        /\ conns[sslServer].server = it
        /\ conns[sslServer].state \in {"name", "closed", "dead"}
        /\ conns[sslServer].state = "name" => conns[sslServer].toServer = <<>>
        /\ Ended(sslServer) => Rejects(it)
    BY <1>1, <1>4, <2>1 DEF AtServer, Connecting, Conn
  <2>3. CASE Fails /\ increment_currentServer
    BY <1>4, <1>5, <2>1, <2>2, <2>3 DEF Fails, Shaking, Open, Ended, Connecting, Ids
  <2>4. CASE (Reaches(Name) \/ Vanishes) /\ server' = "login" /\ UNCHANGED it
    <3>1. /\ conns'[sslServer].server = it
          /\ conns'[sslServer].state = conns[sslServer].state
          /\ conns[sslServer].state = "name" => conns'[sslServer].toServer = <<Name>>
      <4>1. CASE Reaches(Name)
        <5>1. conns'[sslServer] = [conns[sslServer] EXCEPT !.toServer = Append(@, Name)]
          BY <1>1, <2>2, <4>1 DEF Reaches
        <5>2. Append(<<>>, Name) = <<Name>>
          OBVIOUS
        <5> QED BY <2>2, <5>1, <5>2 DEF Conn
      <4>2. CASE Vanishes
        BY <2>2, <4>2 DEF Vanishes, Open, Ids
      <4> QED BY <2>4, <4>1, <4>2
    <3>2. PassedOver(it)'
      BY <1>3, <1>4, <2>1, <2>4 DEF PassedOver, Connecting
    <3>3. Ended(sslServer)' => Rejects(it)'
      BY <1>3, <2>1, <2>2, <2>4, <3>1 DEF Ended
    <3> QED BY <2>1, <2>2, <2>4, <3>1, <3>2, <3>3 DEF Walks, Connecting, AtServer
  <2> QED BY <1>10, <2>3, <2>4 DEF ServerNames
<1>11. CASE ServerHears
  <2>1. server = "login" /\ UNCHANGED <<sslServer, isServerConnected>>
    BY <1>11 DEF ServerHears, flags
  <2>2. Ended(sslServer) => Rejects(it)
    BY <1>4, <2>1 DEF AtServer, Connecting
  <2>3. CASE Takes /\ server' = "tell" /\ UNCHANGED it
    <3>1. answer' = Granted \/ Rejects(it)
      BY <2>1, <2>2, <2>3 DEF Takes, Ordered, Answered, LoginFirst
    <3> QED BY <1>3, <1>4, <2>1, <2>3, <3>1 DEF Walks, Connecting, AtServer, PassedOver
  <2>4. CASE Ends /\ server' = "tell" /\ UNCHANGED it
    <3>1. Rejects(it)
      BY <2>2, <2>4 DEF Ends, Ended
    <3> QED BY <1>3, <1>4, <2>1, <2>4, <3>1 DEF Walks, Connecting, AtServer, PassedOver
  <2>5. CASE Ends /\ increment_currentServer
    BY <1>4, <1>5, <2>1, <2>2, <2>5 DEF Ends, Ended, Connecting
  <2> QED BY <1>11, <2>3, <2>4, <2>5 DEF ServerHears
<1>12. CASE ServerTells
  <2>1. server = "tell" /\ UNCHANGED <<answer, it>> /\ server' = "logged"
    BY <1>12 DEF ServerTells
  <2> QED BY <1>3, <1>4, <2>1 DEF Walks, Connecting, AtServer, PassedOver
<1>13. CASE ServerLogged
  <2>1. /\ server = "logged" /\ increment_currentServer
        /\ isServerConnected' = (answer = Granted \/ isServerConnected)
    BY <1>13 DEF ServerLogged
  <2>2. CASE answer = Granted
    <3>1. it' - 1 = it /\ server' = "dial" /\ isServerConnected' = TRUE
      <4>1. it' = it + 1 /\ server' = "dial" /\ it \in Int
        BY <1>1, <2>1 DEF increment_currentServer
      <4>2. isServerConnected' = TRUE
        BY ONLY <2>1, <2>2
      <4> QED BY <4>1, <4>2
    <3>2. PassedOver(it)
      BY <1>4, <2>1 DEF Connecting
    <3> QED BY <1>3, <3>1, <3>2 DEF Walks, Connecting, PassedOver
  <2>3. CASE answer # Granted
    BY <1>4, <1>5, <2>1, <2>3 DEF Connecting, AtServer
  <2> QED BY <2>2, <2>3
<1> QED BY <1>7, <1>8, <1>9, <1>10, <1>11, <1>12, <1>13 DEF ServerThread

(* The walk goes on as long as the client waits for nothing.               *)
LEMMA WalkedKept ==
    ASSUME Ordered, Present, Lost, Walked, Next
    PROVE  Walked'
<1> SUFFICES ASSUME Calm', server' = "dial" \/ Connecting' PROVE Walks'
  BY DEF Walked, Walks, Connecting
<1>1. Calm /\ Walks
  BY CalmBefore DEF Walked
<1>2. client \in {"look", "read", "done"}
  BY <1>1, CalmThread
<1>3. ~ClientWrites /\ ~ClientDrops /\ ~ClientCloses /\ ~ClientEnds
  BY <1>2 DEF ClientWrites, ClientDrops, ClientCloses, ClientEnds
<1>4. ~ClientSends
  <2>1. sent \in Nat /\ Cardinality(Answers) \in Nat
    BY AnswersCounted, ProxyAssumption DEF Ordered, Writes, Answered, IInv, TypeOK
  <2>2. ASSUME ClientSends PROVE FALSE
    <3>1. sent' = sent + 1 /\ Answers' = Answers
      BY <2>2 DEF ClientSends, Answers
    <3>2. sent' = Cardinality(Answers) /\ sent = Cardinality(Answers)
      BY <1>1, <3>1 DEF Calm, Satisfied
    <3> QED BY <2>1, <3>1, <3>2
  <2> QED BY <2>2
<1>5. CASE ServerThread
  BY <1>1, <1>5, ServerThreadWalks DEF Calm
<1> QED BY <1>1, <1>3, <1>4, <1>5, OthersWalk DEF Next, ClientThread

LEMMA InitKept == Init => Kept
<1> SUFFICES ASSUME Init PROVE Present /\ Lost /\ Walked
  BY InitOrdered DEF Kept
<1> QED BY DEF Init, Present, Lost, Walked, Walks, Connecting

LEMMA StepKept == Kept /\ [Next]_vars => Kept'
<1> SUFFICES ASSUME Kept, [Next]_vars PROVE Kept'
  OBVIOUS
<1>1. Ordered'
  BY StepOrdered DEF Kept
<1>2. ASSUME Next PROVE Present' /\ Lost' /\ Walked'
  BY <1>2, PresentLostKept, WalkedKept DEF Kept, Ordered
<1>3. ASSUME UNCHANGED vars PROVE Present' /\ Lost' /\ Walked'
  BY <1>3 DEF vars, flags, serverThread, clientThread, user, cluster, Kept, Present,
         Lost, Walked, Walks, Calm, Satisfied, Answers, Connecting, PassedOver, Rejects, AtServer,
         Ended, Above, Passed, Carried, Has
<1> QED BY <1>1, <1>2, <1>3 DEF Kept

(* A client that is there and waits for nothing is given up only when no   *)
(* server that is up accepts the user, but for the last one: whatever      *)
(* crashes, and however the two threads alternate, the search leaves no    *)
(* server out.                                                             *)
THEOREM ListWalked == Safety => GivesUpAtTheEnd
<1> DEFINE Given == server # "leave" /\ server' = "leave" /\ there /\ Satisfied =>
                        \A s \in up \ {N} : s \notin accepts
<1>1. Kept /\ [Next]_vars => [Given]_vars
  <2> SUFFICES ASSUME Kept, Next, server # "leave", server' = "leave", there, Satisfied
               PROVE  \A s \in up \ {N} : s \notin accepts
    OBVIOUS
  <2>1. \/ ServerForwards /\ ~there
        \/ ServerDials /\ server = "dial" /\ it = N + 1
    BY DEF Next, ClientSends, ClientLeaves, ClientThread, ServerThread, Serves, ClientLooks,
           ClientReads, ClientWrites, ClientDrops, ClientCloses, ClientEnds, ServerLooks,
           ServerReads, ServerForwards, ServerCloses, ServerDials, ServerNames, ServerHears,
           ServerTells, ServerLogged, ServerLeaves, ServerLogsIn, ServerAnswers, Crash,
           serverThread, increment_currentServer
  <2>2. server = "dial" /\ it = N + 1
    BY <2>1
  <2>3. PassedOver(IF isServerConnected THEN it - 1 ELSE it)
    BY <2>2 DEF Kept, Walked, Walks, Calm
  <2>4. up \subseteq 1 .. N /\ N \in Nat
    BY ProxyAssumption DEF Kept, Ordered, IInv, TypeOK, Servers
  <2>5. \A s \in up \ {N} : Rejects(s)
    BY <2>2, <2>3, <2>4 DEF PassedOver
  <2> QED BY <2>5 DEF Rejects
<1> QED BY <1>1, InitKept, StepKept, PTL DEF Safety, GivesUpAtTheEnd
===============================================================================
