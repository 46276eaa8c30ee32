---------------------------- MODULE ClusterProofs -----------------------------
(***************************************************************************)
(* Proofs about Cluster: its types, that a server knows its own line, who  *)
(* leads, and what a server counts.                                        *)
(***************************************************************************)
EXTENDS Cluster, SequenceTheorems, FiniteSetTheorems, TLAPS

Messages == {"user", "command", "end", "blank"}
Links == {"none", "login", "serving"}

(* Before a server is started nothing is counted, and no client is with it.*)
NotYet ==
    /\ \A i \in Servers : up[i] = "down" => offset[i] = 0
    /\ \A c \in Clients : at[c] # Nowhere => up[at[c]] # "down"

(* Only scenarios with racing closes let a server dial twice, only those   *)
(* with overlapping loops mix them, and only who dials twice has a second  *)
(* line.                                                                   *)
SecondLines ==
    /\ \A i \in Servers : loops[i] = "mixed" => "overlap" \in events
    /\ \A i \in Servers : loops[i] # "one" => "busy" \in events
    /\ \A i \in Servers : loops[i] = "one" =>
          dial[N + i] = 0 /\ \A j \in Servers : link[N + i][j] = "none"

IInv == TypeOK /\ KnowsItself /\ NotYet /\ SecondLines
-----------------------------------------------------------------------------
(* Every line belongs to a server.                                         *)
LEMMA Owner ==
    \A h \in Lines : /\ Server(h) \in Servers /\ Racing(h) \in Lines /\ Racing(h) # h
                    /\ Server(Racing(h)) = Server(h)
BY BoundsAssumption DEF Servers, Lines, Server, Racing

(* It is the first or the second line of its server.                       *)
LEMMA Rows ==
    /\ Servers \subseteq Lines
    /\ \A i \in Servers : /\ Server(i) = i /\ Racing(i) = N + i /\ N + i # i
                         /\ N + i \in Lines /\ Server(N + i) = i /\ N + i \notin Servers
    /\ \A h \in Lines : h = Server(h) \/ h = N + Server(h)
BY BoundsAssumption DEF Servers, Lines, Server, Racing

(* What closeConnection does to the counts of a server that is started.    *)
LEMMA Closing ==
    ASSUME TypeOK, NotYet, NEW j \in Servers, up[j] # "down", CloseConnection(j)
    PROVE  /\ pos' \in [Servers -> Int] /\ offset' \in [Servers -> Nat]
           /\ leader' \in [Servers -> BOOLEAN] /\ dial' \in [Lines -> 0 .. N + 1]
           /\ \A i \in Servers : up[i] = "down" => offset'[i] = 0
           /\ \A i \in Servers : pos'[i] + offset'[i] = pos[i] + offset[i]
           /\ \A i \in Servers : dial'[N + i] = dial[N + i]
<1> USE DEF TypeOK
<1>1. CASE leader[j]
  BY <1>1 DEF CloseConnection, election, NotYet
<1>2. CASE ~leader[j]
  <2>1. /\ pos' = [pos EXCEPT ![j] = pos[j] - 1]
        /\ offset' = [offset EXCEPT ![j] = offset[j] + 1]
        /\ leader' = [leader EXCEPT ![j] = (pos[j] = 2)]
        /\ dial' = [dial EXCEPT ![j] = IF pos[j] = 2 THEN 1 ELSE dial[j]]
    BY <1>2 DEF CloseConnection
  <2>2. (pos[j] = 2) \in BOOLEAN /\ 1 \in 0 .. N + 1
    BY BoundsAssumption
  <2>3. /\ pos' \in [Servers -> Int] /\ offset' \in [Servers -> Nat]
        /\ dial' \in [Lines -> 0 .. N + 1]
    BY <2>1, <2>2, Rows
  <2>4. leader' \in [Servers -> BOOLEAN]
    BY <2>1, <2>2
  <2>5. \A i \in Servers : up[i] = "down" => offset'[i] = 0
    BY <2>1 DEF NotYet
  <2>6. \A i \in Servers : pos'[i] + offset'[i] = pos[i] + offset[i]
    BY <2>1
  <2>7. \A i \in Servers : dial'[N + i] = dial[N + i]
    BY <2>1, Rows
  <2> QED BY <2>3, <2>4, <2>5, <2>6, <2>7
<1> QED BY <1>1, <1>2

(* What repeating a message does to the types.                             *)
LEMMA Relaying ==
    ASSUME TypeOK, NEW q \in [Lines -> [Servers -> Seq(Messages)]],
           NEW i \in Servers, NEW m \in Messages
    PROVE  Relayed(q, i, m) \in [Lines -> [Servers -> Seq(Messages)]]
<1>1. \A h \in Lines, j \in Servers :
         q[h][j] \in Seq(Messages) /\ Append(q[h][j], m) \in Seq(Messages)
  OBVIOUS
<1> QED BY <1>1 DEF Relayed

LEMMA CrossingOut ==
    ASSUME TypeOK, NEW i \in Servers
    PROVE  LinkedAfterRelay(i) \in [Lines -> [Servers -> BOOLEAN]]
BY DEF TypeOK, LinkedAfterRelay

(* The variables but up, link and events, after a step of a thread that    *)
(* relays and may close.                                                   *)
LEMMA Counted ==
    ASSUME IInv, UNCHANGED <<up, events>>, NEW j \in Servers,
           UNCHANGED election \/ (up[j] # "down" /\ CloseConnection(j))
    PROVE  /\ pos' \in [Servers -> Int] /\ offset' \in [Servers -> Nat]
           /\ leader' \in [Servers -> BOOLEAN] /\ dial' \in [Lines -> 0 .. N + 1]
           /\ KnowsItself'
           /\ \A i \in Servers : up'[i] = "down" => offset'[i] = 0
           /\ \A i \in Servers : dial'[N + i] = dial[N + i]
<1>1. CASE UNCHANGED election
  BY <1>1 DEF IInv, TypeOK, KnowsItself, NotYet, election
<1>2. CASE up[j] # "down" /\ CloseConnection(j)
  BY <1>2, Closing DEF IInv, KnowsItself
<1> QED BY <1>1, <1>2
-----------------------------------------------------------------------------
LEMMA InitHolds == Init => IInv
<1> SUFFICES ASSUME Init PROVE IInv
  OBVIOUS
<1>1. 0 \in 0 .. N + 1 /\ <<>> \in Seq(Messages)
  BY BoundsAssumption
<1>2. inbox \in [Lines -> [Servers -> Seq(Messages)]]
  BY <1>1 DEF Init, PerPair
<1>3. /\ link \in [Lines -> [Servers -> Links]] /\ linked \in [Lines -> [Servers -> BOOLEAN]]
      /\ up \in [Servers -> {"down", "starting", "running", "crashed"}]
      /\ leader \in [Servers -> BOOLEAN]
  BY DEF Init, PerPair, Links
<1>4. /\ pos \in [Servers -> Int] /\ offset \in [Servers -> Nat] /\ dial \in [Lines -> 0 .. N + 1]
      /\ sessions \in 0 .. MaxSessions /\ events \in Scenarios
  BY <1>1, BoundsAssumption DEF Init
<1>5. at \in [Clients -> {Nowhere} \cup Servers] /\ phase \in [Clients -> {"none", "login", "serving"}]
  BY DEF Init
<1>6. TypeOK
  BY <1>2, <1>3, <1>4, <1>5 DEF TypeOK, Messages, Links, Init
<1>7. SecondLines
  BY Rows DEF Init, SecondLines, PerPair
<1> QED BY <1>6, <1>7 DEF IInv, Init, KnowsItself, NotYet

LEMMA StartKeeps == ASSUME IInv, NEW i \in Servers, Start(i) PROVE IInv'
<1> USE DEF IInv
<1>1. /\ up[i] = "down" /\ up' = [up EXCEPT ![i] = "starting"]
      /\ pos' = [pos EXCEPT ![i] = i]
      /\ UNCHANGED <<offset, links, clients, loops, events>>
  BY DEF Start
<1>2. leader' \in [Servers -> BOOLEAN]
  BY DEF Start, TypeOK
<1>3. dial' \in [Lines -> 0 .. N + 1]
  BY BoundsAssumption, Rows DEF Start, TypeOK
<1>4. TypeOK'
  BY <1>1, <1>2, <1>3 DEF TypeOK, links, clients, Servers
<1>5. KnowsItself'
  BY <1>1 DEF KnowsItself, TypeOK, NotYet, Servers
<1>6. NotYet'
  BY <1>1 DEF NotYet, TypeOK, clients
<1>7. SecondLines'
  <2>1. \A j \in Servers : dial'[N + j] = dial[N + j]
    BY Rows DEF Start, TypeOK
  <2> QED BY <1>1, <2>1 DEF SecondLines, links
<1> QED BY <1>4, <1>5, <1>6, <1>7

(* What a turn of connectToServers does to its line: it finds one server,  *)
(* which it may connect to, and moves on.                                  *)
LEMMA Turn ==
    ASSUME TypeOK, NEW h \in Lines, DialNext(h)
    PROVE  /\ up[Server(h)] \in {"starting", "running"} /\ dial[h] \in Servers
           /\ UNCHANGED <<up, pos, offset, leader, inbox, clients, events>>
           /\ link' \in [Lines -> [Servers -> Links]]
           /\ linked' \in [Lines -> [Servers -> BOOLEAN]]
           /\ dial' \in [Lines -> 0 .. N + 1]
           /\ \A g \in Lines : g # h => link'[g] = link[g] /\ dial'[g] = dial[g]
           /\ \A j \in Servers :
                 \/ link'[h][j] = link[h][j]
                 \/ link[h][j] = "none" /\ link'[h][j] = "login" /\ Running(j)
                    /\ dial[h] # pos[Server(h)] + offset[Server(h)]
           /\ UNCHANGED loops \/ loops' = [loops EXCEPT ![Server(h)] = "mixed"]
<1> DEFINE i == Server(h)
           mixed == loops[i] = "mixed" \/ dial[Racing(h)] \in 2 .. N
<1>1. /\ up[i] \in {"starting", "running"} /\ dial[h] \in Servers
      /\ UNCHANGED <<up, pos, offset, leader, inbox, clients, events>>
      /\ dial' \in {[dial EXCEPT ![h] = k] : k \in {dial[h] + 1} \cup (IF mixed THEN {N + 1} ELSE {})}
      /\ loops' = [loops EXCEPT ![i] = IF mixed THEN "mixed" ELSE @]
  BY DEF DialNext
<1>2. PICK j \in Servers :
         \/ UNCHANGED <<link, linked>>
         \/ /\ dial[h] # pos[i] + offset[i] /\ Running(j) /\ link[h][j] = "none"
            /\ link' = [link EXCEPT ![h][j] = "login"]
            /\ linked' = [linked EXCEPT ![h][j] = TRUE]
  BY DEF DialNext
<1> HIDE DEF mixed
<1>3. /\ link' \in [Lines -> [Servers -> Links]]
      /\ linked' \in [Lines -> [Servers -> BOOLEAN]]
      /\ \A g \in Lines : g # h => link'[g] = link[g]
      /\ \A k \in Servers :
            \/ link'[h][k] = link[h][k]
            \/ link[h][k] = "none" /\ link'[h][k] = "login" /\ Running(k)
               /\ dial[h] # pos[i] + offset[i]
  <2>1. /\ link \in [Lines -> [Servers -> Links]] /\ linked \in [Lines -> [Servers -> BOOLEAN]]
        /\ "login" \in Links
    BY DEF TypeOK, Links
  <2>2. CASE UNCHANGED <<link, linked>>
    BY <2>1, <2>2
  <2>3. CASE /\ dial[h] # pos[i] + offset[i] /\ Running(j) /\ link[h][j] = "none"
             /\ link' = [link EXCEPT ![h][j] = "login"]
             /\ linked' = [linked EXCEPT ![h][j] = TRUE]
    <3>1. link' \in [Lines -> [Servers -> Links]]
      BY <2>1, <2>3
    <3>2. linked' \in [Lines -> [Servers -> BOOLEAN]]
      BY <2>1, <2>3
    <3>3. \A g \in Lines : g # h => link'[g] = link[g]
      BY <2>1, <2>3
    <3>4. \A k \in Servers : link'[h][k] = IF k = j THEN "login" ELSE link[h][k]
      BY <2>1, <2>3
    <3> QED BY <2>3, <3>1, <3>2, <3>3, <3>4
  <2> QED BY <1>2, <2>2, <2>3
<1>4. PICK k : dial' = [dial EXCEPT ![h] = k] /\ k \in {dial[h] + 1, N + 1}
  BY <1>1
<1>5. k \in 0 .. N + 1
  BY <1>1, <1>4, BoundsAssumption DEF Servers
<1>6. dial' \in [Lines -> 0 .. N + 1] /\ \A g \in Lines : g # h => dial'[g] = dial[g]
  BY <1>4, <1>5 DEF TypeOK
<1>7. UNCHANGED loops \/ loops' = [loops EXCEPT ![i] = "mixed"]
  BY <1>1 DEF TypeOK
<1> QED BY <1>1, <1>3, <1>6, <1>7

LEMMA DialNextKeeps == ASSUME IInv, NEW h \in Lines, DialNext(h) PROVE IInv'
<1> USE DEF IInv
<1> DEFINE i == Server(h)
<1>1. /\ dial[h] \in Servers
      /\ UNCHANGED <<up, pos, offset, leader, inbox, clients, events>>
      /\ link' \in [Lines -> [Servers -> Links]] /\ linked' \in [Lines -> [Servers -> BOOLEAN]]
      /\ dial' \in [Lines -> 0 .. N + 1]
      /\ \A g \in Lines : g # h => link'[g] = link[g] /\ dial'[g] = dial[g]
      /\ UNCHANGED loops \/ loops' = [loops EXCEPT ![i] = "mixed"]
  BY Turn
<1>2. i \in Servers
  BY Owner
<1>3. loops' \in [Servers -> {"one", "two", "mixed"}]
  BY <1>1, <1>2 DEF TypeOK
<1>4. TypeOK'
  BY <1>1, <1>3 DEF TypeOK, Links, clients
<1>5. KnowsItself' /\ NotYet'
  BY <1>1 DEF KnowsItself, NotYet, clients
<1>6. SecondLines'
  <2>1. ASSUME loops'[i] = "mixed", loops[i] # "mixed"
        PROVE  "overlap" \in events /\ "busy" \in events
    <3>1. dial[Racing(h)] \in 2 .. N /\ "overlap" \in events
      BY <2>1 DEF DialNext, TypeOK
    <3>2. 0 \notin 2 .. N /\ 0 \notin Servers
      BY DEF Servers
    <3>3. loops[i] # "one"
      BY <1>1, <1>2, <3>1, <3>2, Rows DEF SecondLines
    <3> QED BY <1>2, <3>1, <3>3 DEF SecondLines
  <2>2. \A j \in Servers : j # i => loops'[j] = loops[j]
    BY <1>1 DEF TypeOK
  <2>3. ASSUME NEW j \in Servers, loops'[j] = "one"
        PROVE  N + j # h /\ loops[j] = "one"
    <3>1. loops[j] = "one"
      BY <1>1, <2>3 DEF TypeOK
    <3>2. dial[N + j] \notin Servers
      BY <3>1 DEF SecondLines, Servers
    <3> QED BY <1>1, <3>1, <3>2
  <2>4. ASSUME NEW j \in Servers, loops'[j] = "one"
        PROVE  dial'[N + j] = 0 /\ \A k \in Servers : link'[N + j][k] = "none"
    <3>1. N + j \in Lines
      BY Rows
    <3>2. link'[N + j] = link[N + j] /\ dial'[N + j] = dial[N + j]
      BY <1>1, <2>3, <2>4, <3>1
    <3> QED BY <2>3, <2>4, <3>2 DEF SecondLines
  <2>5. loops'[i] = "mixed" \/ loops'[i] = loops[i]
    BY <1>1, <1>2 DEF TypeOK
  <2>6. \A j \in Servers : loops'[j] = "mixed" => "overlap" \in events'
    BY <1>1, <1>2, <2>1, <2>2 DEF SecondLines
  <2>7. \A j \in Servers : loops'[j] # "one" => "busy" \in events'
    BY <1>1, <1>2, <2>1, <2>2, <2>5 DEF SecondLines
  <2> QED BY <2>4, <2>6, <2>7 DEF SecondLines
<1> QED BY <1>4, <1>5, <1>6

LEMMA DialEndKeeps == ASSUME IInv, NEW h \in Lines, DialEnd(h) PROVE IInv'
<1> USE DEF IInv
<1>1. /\ up[Server(h)] \in {"starting", "running"} /\ up' = [up EXCEPT ![Server(h)] = "running"]
      /\ dial' = [dial EXCEPT ![h] = 0]
      /\ UNCHANGED <<pos, offset, leader, links, clients, loops, events>>
  BY DEF DialEnd
<1>2. TypeOK'
  <2>1. 0 \in 0 .. N + 1
    BY BoundsAssumption
  <2> QED BY <1>1, <2>1, Rows DEF TypeOK, links, clients
<1>3. KnowsItself' /\ NotYet'
  BY <1>1, Rows DEF KnowsItself, NotYet, TypeOK, clients
<1>4. SecondLines'
  <2>1. \A g \in Lines : dial[g] = 0 => dial'[g] = 0
    BY <1>1 DEF TypeOK
  <2> QED BY <1>1, <2>1, Rows DEF SecondLines, links
<1> QED BY <1>2, <1>3, <1>4
-----------------------------------------------------------------------------
(* A step of a thread of server j that repeats message m, having read from *)
(* the queues q, and closes or not.  No connection appears.                *)
Shrinks(j, q, m) ==
    /\ UNCHANGED <<up, loops, events>>
    /\ link' \in [Lines -> [Servers -> Links]]
    /\ \A h \in Lines, i \in Servers : link'[h][i] # "none" => link[h][i] # "none"
    /\ q \in [Lines -> [Servers -> Seq(Messages)]] /\ m \in Messages
    /\ inbox' \in {inbox, Relayed(q, j, m)}
    /\ linked' \in {linked, LinkedAfterRelay(j)}
    /\ UNCHANGED election \/ (up[j] # "down" /\ CloseConnection(j))

LEMMA Serving ==
    ASSUME IInv, NEW j \in Servers, NEW q, NEW m, Shrinks(j, q, m),
           at' \in [Clients -> {Nowhere} \cup Servers],
           phase' \in [Clients -> {"none", "login", "serving"}],
           sessions' \in 0 .. MaxSessions,
           \A c \in Clients : at'[c] # Nowhere => up[at'[c]] # "down"
    PROVE  IInv'
<1> USE DEF IInv
<1>1. /\ pos' \in [Servers -> Int] /\ offset' \in [Servers -> Nat]
      /\ leader' \in [Servers -> BOOLEAN] /\ dial' \in [Lines -> 0 .. N + 1]
      /\ KnowsItself'
      /\ \A i \in Servers : up'[i] = "down" => offset'[i] = 0
      /\ \A i \in Servers : dial'[N + i] = dial[N + i]
  BY Counted DEF Shrinks
<1>2. inbox' \in [Lines -> [Servers -> Seq(Messages)]]
  <2>1. /\ q \in [Lines -> [Servers -> Seq(Messages)]] /\ m \in Messages
        /\ inbox' \in {inbox, Relayed(q, j, m)}
    BY DEF Shrinks
  <2>2. CASE inbox' = inbox
    BY <2>2 DEF TypeOK, Messages
  <2>3. CASE inbox' = Relayed(q, j, m)
    BY <2>1, <2>3, Relaying
  <2> QED BY <2>1, <2>2, <2>3
<1>3. linked' \in [Lines -> [Servers -> BOOLEAN]]
  BY CrossingOut DEF Shrinks, TypeOK
<1>4. /\ UNCHANGED <<up, loops, events>> /\ link' \in [Lines -> [Servers -> Links]]
      /\ \A h \in Lines, i \in Servers : link'[h][i] # "none" => link[h][i] # "none"
  BY DEF Shrinks
<1>5. TypeOK'
  BY <1>1, <1>2, <1>3, <1>4 DEF TypeOK, Messages, Links
<1>6. NotYet'
  BY <1>1, <1>4 DEF NotYet
<1>7. SecondLines'
  <2>1. \A i \in Servers : N + i \in Lines
    BY Rows
  <2>2. \A i, k \in Servers : link[N + i][k] = "none" => link'[N + i][k] = "none"
    BY <1>4, <2>1
  <2> QED BY <1>1, <1>4, <2>2 DEF SecondLines
<1> QED BY <1>1, <1>5, <1>6, <1>7

LEMMA ClientConnectsKeeps == ASSUME IInv, NEW c \in Clients, ClientConnects(c) PROVE IInv'
<1> USE DEF IInv
<1>1. /\ UNCHANGED <<up, election, links, loops, events>>
      /\ phase' = [phase EXCEPT ![c] = "login"] /\ sessions' = sessions + 1
  BY DEF ClientConnects
<1>2. PICK i \in Servers : Running(i) /\ at' = [at EXCEPT ![c] = i]
  BY DEF ClientConnects
<1>3. sessions' \in 0 .. MaxSessions
  BY BoundsAssumption DEF ClientConnects, TypeOK
<1>4. TypeOK'
  BY <1>1, <1>2, <1>3 DEF TypeOK, election, links
<1>5. KnowsItself' /\ SecondLines'
  BY <1>1 DEF KnowsItself, SecondLines, election, links
<1>6. NotYet'
  BY <1>1, <1>2 DEF NotYet, TypeOK, Running, election
<1> QED BY <1>4, <1>5, <1>6

(* A client's message is read and repeated.                                *)
LEMMA ClientReadsKeeps ==
    ASSUME IInv, NEW c \in Clients, ClientLogsIn(c) \/ ClientCommand(c) PROVE IInv'
<1> USE DEF IInv
<1>1. PICK m \in {"user", "command"} :
         /\ inbox' = Relayed(inbox, at[c], m) /\ linked' = LinkedAfterRelay(at[c])
         /\ phase' \in {phase, [phase EXCEPT ![c] = "serving"]}
         /\ at[c] # Nowhere /\ UNCHANGED <<up, election, link, at, sessions, loops, events>>
  BY DEF ClientLogsIn, ClientCommand, clients
<1>2. at[c] \in Servers
  BY <1>1 DEF TypeOK
<1>3. Shrinks(at[c], inbox, m)
  BY <1>1 DEF Shrinks, TypeOK, Links, Messages
<1> QED BY <1>1, <1>2, <1>3, Serving DEF TypeOK, NotYet

LEMMA ClientLeavesKeeps == ASSUME IInv, NEW c \in Clients, ClientLeaves(c) PROVE IInv'
<1> USE DEF IInv
<1>1. /\ at[c] # Nowhere /\ CloseConnection(at[c])
      /\ at' = [at EXCEPT ![c] = Nowhere] /\ phase' = [phase EXCEPT ![c] = "none"]
      /\ UNCHANGED <<up, link, sessions, loops, events>>
  BY DEF ClientLeaves
<1>2. PICK m \in {"end", "blank"} :
         \/ UNCHANGED <<inbox, linked>>
         \/ inbox' = Relayed(inbox, at[c], m) /\ linked' = LinkedAfterRelay(at[c])
  BY DEF ClientLeaves
<1>3. at[c] \in Servers /\ up[at[c]] # "down"
  BY <1>1 DEF TypeOK, NotYet
<1>4. Shrinks(at[c], inbox, m)
  BY <1>1, <1>2, <1>3 DEF Shrinks, TypeOK, Links, Messages
<1>5. /\ at' \in [Clients -> {Nowhere} \cup Servers]
      /\ phase' \in [Clients -> {"none", "login", "serving"}]
      /\ sessions' \in 0 .. MaxSessions
      /\ \A d \in Clients : at'[d] # Nowhere => up[at'[d]] # "down"
  BY <1>1 DEF TypeOK, NotYet
<1> QED BY <1>3, <1>4, <1>5, Serving
-----------------------------------------------------------------------------
(* A thread of j that serves line h takes the message it has, or none,     *)
(* and whatever it does to its connection, makes no new one.               *)
LEMMA ServeKeeps ==
    ASSUME IInv, NEW h \in Lines, NEW j \in Servers, Serve(h, j) PROVE IInv'
<1> USE DEF IInv
<1>1. /\ link \in [Lines -> [Servers -> Links]]
      /\ inbox \in [Lines -> [Servers -> Seq(Messages)]]
  BY DEF TypeOK, Links, Messages
<1>2. /\ Running(j) /\ UNCHANGED <<up, clients, loops, events>>
      /\ UNCHANGED election \/ CloseConnection(j)
      /\ linked' \in {linked, LinkedAfterRelay(j)}
  BY DEF Serve, BackupLogsIn, BackupCommand, BackupCloses, BackupAbandons, BackupLosesLeader
<1>3. /\ link' \in [Lines -> [Servers -> Links]]
      /\ \A g \in Lines, k \in Servers : link'[g][k] # "none" => link[g][k] # "none"
  <2>1. CASE UNCHANGED link
    BY <1>1, <2>1
  <2>2. CASE link' = [link EXCEPT ![h][j] = "none"]
    BY <1>1, <2>2 DEF Links
  <2>3. CASE link[h][j] = "login" /\ link' = [link EXCEPT ![h][j] = "serving"]
    BY <1>1, <2>3 DEF Links
  <2> QED BY <2>1, <2>2, <2>3
      DEF Serve, BackupLogsIn, BackupCommand, BackupCloses, BackupAbandons, BackupLosesLeader
<1>4. PICK q \in [Lines -> [Servers -> Seq(Messages)]], m \in Messages :
         inbox' \in {inbox, Relayed(q, j, m)}
  <2> DEFINE taken == [inbox EXCEPT ![h][j] = Tail(@)]
             emptied == [inbox EXCEPT ![h][j] = <<>>]
  <2>1. emptied \in [Lines -> [Servers -> Seq(Messages)]]
    <3>1. <<>> \in Seq(Messages)
      OBVIOUS
    <3> QED BY <1>1, <3>1
  <2>2. ASSUME inbox[h][j] # <<>>
        PROVE  /\ taken \in [Lines -> [Servers -> Seq(Messages)]]
               /\ Head(inbox[h][j]) \in Messages
    <3>1. inbox[h][j] \in Seq(Messages)
      BY <1>1
    <3>2. Tail(inbox[h][j]) \in Seq(Messages) /\ Head(inbox[h][j]) \in Messages
      BY <2>2, <3>1
    <3> QED BY <1>1, <3>2
  <2>3. "command" \in Messages /\ "blank" \in Messages
    BY DEF Messages
  <2> HIDE DEF taken, emptied
  <2>4. CASE BackupLogsIn(h, j)
    BY <2>2, <2>4 DEF BackupLogsIn, taken
  <2>5. CASE BackupCommand(h, j)
    BY <2>2, <2>3, <2>5 DEF BackupCommand, taken
  <2>6. CASE BackupCloses(h, j)
    BY <2>1, <2>2, <2>6 DEF BackupCloses, emptied
  <2>7. CASE BackupAbandons(h, j)
    BY <2>1, <2>2, <2>7 DEF BackupAbandons, emptied
  <2>8. CASE BackupLosesLeader(h, j)
    BY <1>1, <2>3, <2>8 DEF BackupLosesLeader
  <2> QED BY <2>4, <2>5, <2>6, <2>7, <2>8 DEF Serve
<1>5. Shrinks(j, q, m)
  BY <1>2, <1>3, <1>4 DEF Shrinks, Running
<1> QED BY <1>2, <1>5, Serving DEF clients, TypeOK, NotYet

(* Two threads of server j close at once.                                  *)
LEMMA Race ==
    ASSUME TypeOK, NEW j \in Servers, RacingCloses(j)
    PROVE  /\ "busy" \in events /\ Running(j) /\ ~leader[j]
           /\ UNCHANGED <<up, linked, clients, events>>
           /\ \E h, k \in Lines :
                 /\ h # k /\ Ends(h, j) /\ Ends(k, j)
                 /\ link' = [link EXCEPT ![h][j] = "none", ![k][j] = "none"]
                 /\ inbox' = [inbox EXCEPT ![h][j] = <<>>, ![k][j] = <<>>]
           /\ \E d, o \in 1 .. 2 :
                 /\ leader'[j] => pos[j] - d <= 1
                 /\ pos' = [pos EXCEPT ![j] = @ - d] /\ offset' = [offset EXCEPT ![j] = @ + o]
           /\ leader' \in [Servers -> BOOLEAN] /\ \A i \in Servers : i # j => leader'[i] = leader[i]
           /\ dial' \in [Lines -> 0 .. N + 1]
           /\ \A h \in Lines : dial'[h] = dial[h] \/ (Server(h) = j /\ leader'[j])
           /\ loops' = loops \/ loops' = [loops EXCEPT ![j] = "two"]
           /\ loops'[j] = "one" => dial'[N + j] = dial[N + j]
<1> USE DEF TypeOK
<1>1. /\ "busy" \in events /\ Running(j) /\ ~leader[j]
      /\ UNCHANGED <<up, linked, clients, events>>
      /\ \E h, k \in Lines :
            /\ h < k /\ Ends(h, j) /\ Ends(k, j)
            /\ link' = [link EXCEPT ![h][j] = "none", ![k][j] = "none"]
            /\ inbox' = [inbox EXCEPT ![h][j] = <<>>, ![k][j] = <<>>]
  BY DEF RacingCloses
<1>2. \A h, k \in Lines : h < k => h # k
  BY DEF Lines
<1>3. PICK d, o \in 1 .. 2, lead, both \in BOOLEAN :
         /\ pos[j] - d = 1 => lead
         /\ lead => 1 \in {pos[j] - 1, pos[j] - d}
         /\ both => lead
         /\ pos' = [pos EXCEPT ![j] = @ - d]
         /\ offset' = [offset EXCEPT ![j] = @ + o]
         /\ leader' = [leader EXCEPT ![j] = lead]
         /\ dial' = [dial EXCEPT ![j] = IF lead THEN 1 ELSE @, ![N + j] = IF both THEN 1 ELSE @]
         /\ loops' = [loops EXCEPT ![j] = IF both THEN "two" ELSE @]
  <2> USE DEF RacingCloses
  <2> QED BY Zenon
<1>4. leader'[j] = lead /\ (lead => pos[j] - d <= 1)
  BY <1>3
<1>5. 1 \in 0 .. N + 1 /\ j \in Lines /\ N + j \in Lines /\ j # N + j
  <2>1. 1 \in 0 .. N + 1
    BY BoundsAssumption
  <2> QED BY <2>1, Rows
<1>6. \A h \in Lines : dial'[h] = IF (h = j /\ lead) \/ (h = N + j /\ both) THEN 1 ELSE dial[h]
  <2>1. dial' = [dial EXCEPT ![j] = IF lead THEN 1 ELSE dial[j], ![N + j] = IF both THEN 1 ELSE dial[N + j]]
    BY <1>3, <1>5
  <2> QED BY <1>5, <2>1
<1>7. dial' \in [Lines -> 0 .. N + 1]
  BY <1>3, <1>5, <1>6
<1>8. Server(j) = j /\ Server(N + j) = j
  BY Rows
<1>9. loops' = loops \/ loops' = [loops EXCEPT ![j] = "two"]
  BY <1>3
<1>10. loops'[j] = "one" => ~both
  BY <1>3
<1> QED BY <1>1, <1>2, <1>3, <1>4, <1>5, <1>6, <1>7, <1>8, <1>9, <1>10

LEMMA RacingClosesKeeps == ASSUME IInv, NEW j \in Servers, RacingCloses(j) PROVE IInv'
<1> USE DEF IInv
<1>1. /\ "busy" \in events /\ Running(j) /\ UNCHANGED <<up, linked, clients, events>>
      /\ leader' \in [Servers -> BOOLEAN] /\ dial' \in [Lines -> 0 .. N + 1]
      /\ \A h \in Lines : dial'[h] = dial[h] \/ (Server(h) = j /\ leader'[j])
      /\ loops' = loops \/ loops' = [loops EXCEPT ![j] = "two"]
      /\ loops'[j] = "one" => dial'[N + j] = dial[N + j]
  BY Race
<1>2. PICK h, k \in Lines :
         /\ h # k /\ Ends(h, j) /\ Ends(k, j)
         /\ link' = [link EXCEPT ![h][j] = "none", ![k][j] = "none"]
         /\ inbox' = [inbox EXCEPT ![h][j] = <<>>, ![k][j] = <<>>]
  BY Race
<1>3. PICK d, o \in 1 .. 2 :
         pos' = [pos EXCEPT ![j] = @ - d] /\ offset' = [offset EXCEPT ![j] = @ + o]
  BY Race
<1>4. pos' \in [Servers -> Int] /\ offset' \in [Servers -> Nat]
  BY <1>3 DEF TypeOK
<1>5. /\ link' \in [Lines -> [Servers -> Links]]
      /\ \A g \in Lines, i \in Servers : link'[g][i] # "none" => link[g][i] # "none"
  BY <1>2 DEF TypeOK, Links
<1>6. inbox' \in [Lines -> [Servers -> Seq(Messages)]]
  <2>1. <<>> \in Seq(Messages) /\ inbox \in [Lines -> [Servers -> Seq(Messages)]]
    BY DEF TypeOK, Messages
  <2> QED BY <1>2, <2>1
<1>7. loops' \in [Servers -> {"one", "two", "mixed"}]
  BY <1>1 DEF TypeOK
<1>8. TypeOK'
  BY <1>1, <1>4, <1>5, <1>6, <1>7 DEF TypeOK, Links, Messages, clients
<1>9. KnowsItself'
  BY <1>1 DEF KnowsItself
<1>10. NotYet'
  BY <1>1, <1>3 DEF NotYet, TypeOK, Running, clients
<1>11. SecondLines'
  <2>1. \A i \in Servers : loops'[i] # "two" => loops'[i] = loops[i]
    BY <1>1 DEF TypeOK
  <2>2. \A i \in Servers : loops'[i] = "one" => dial'[N + i] = dial[N + i]
    BY <1>1, Rows
  <2>3. \A i \in Servers : loops'[i] = "one" =>
           dial'[N + i] = 0 /\ \A l \in Servers : link'[N + i][l] = "none"
    BY <1>5, <2>1, <2>2, Rows DEF SecondLines
  <2> QED BY <1>1, <2>1, <2>3 DEF SecondLines
<1> QED BY <1>8, <1>9, <1>10, <1>11

LEMMA CrashKeeps == ASSUME IInv, NEW i \in Servers, Crash(i) PROVE IInv'
<1> USE DEF IInv
<1>1. /\ up[i] \in {"starting", "running"}
      /\ up' = [up EXCEPT ![i] = "crashed"] /\ dial' = [dial EXCEPT ![i] = 0, ![N + i] = 0]
      /\ link' = [h \in Lines |-> [link[h] EXCEPT ![i] = "none"]]
      /\ inbox' = [h \in Lines |-> [inbox[h] EXCEPT ![i] = <<>>]]
      /\ at' = [c \in Clients |-> IF at[c] = i THEN Nowhere ELSE at[c]]
      /\ phase' = [c \in Clients |-> IF at[c] = i THEN "none" ELSE phase[c]]
      /\ UNCHANGED <<pos, offset, leader, linked, sessions, loops, events>>
  BY DEF Crash
<1>2. TypeOK'
  <2>1. 0 \in 0 .. N + 1 /\ <<>> \in Seq(Messages)
    BY BoundsAssumption
  <2>2. inbox' \in [Lines -> [Servers -> Seq(Messages)]]
    BY <1>1, <2>1 DEF TypeOK, Messages
  <2>3. link' \in [Lines -> [Servers -> Links]]
    BY <1>1 DEF TypeOK, Links
  <2>4. /\ up' \in [Servers -> {"down", "starting", "running", "crashed"}]
        /\ dial' \in [Lines -> 0 .. N + 1]
        /\ at' \in [Clients -> {Nowhere} \cup Servers]
        /\ phase' \in [Clients -> {"none", "login", "serving"}]
    BY <1>1, <2>1 DEF TypeOK
  <2> QED BY <1>1, <2>2, <2>3, <2>4 DEF TypeOK, Messages, Links
<1>3. KnowsItself' /\ NotYet'
  BY <1>1 DEF KnowsItself, NotYet, TypeOK
<1>4. SecondLines'
  <2>1. \A h \in Lines : dial[h] = 0 => dial'[h] = 0
    BY <1>1 DEF TypeOK
  <2>2. \A h \in Lines, j \in Servers : link[h][j] = "none" => link'[h][j] = "none"
    BY <1>1 DEF TypeOK
  <2> QED BY <1>1, <2>1, <2>2, Rows DEF SecondLines
<1> QED BY <1>2, <1>3, <1>4
-----------------------------------------------------------------------------
LEMMA NextKeeps == IInv /\ [Next]_vars => IInv'
<1> SUFFICES ASSUME IInv, [Next]_vars PROVE IInv'
  OBVIOUS
<1>1. CASE UNCHANGED vars
  BY <1>1 DEF IInv, vars, TypeOK, KnowsItself, NotYet, SecondLines
<1>2. CASE \E i \in Servers : Start(i) \/ Crash(i) \/ RacingCloses(i)
  BY <1>2, StartKeeps, CrashKeeps, RacingClosesKeeps
<1>3. CASE \E h \in Lines : Step(h)
  BY <1>3, DialNextKeeps, DialEndKeeps DEF Step
<1>4. CASE \E h \in Lines, j \in Servers : Serve(h, j)
  BY <1>4, ServeKeeps
<1>5. CASE \E c \in Clients : ClientConnects(c) \/ ClientLogsIn(c) \/ ClientCommand(c) \/ ClientLeaves(c)
  BY <1>5, ClientConnectsKeeps, ClientReadsKeeps, ClientLeavesKeeps
<1> QED BY <1>1, <1>2, <1>3, <1>4, <1>5 DEF Next

LEMMA Invariance == Safety => []IInv
<1> QED BY InitHolds, NextKeeps, PTL DEF Safety

(* The variables keep their types, for any list of servers and any         *)
(* scenario.                                                               *)
THEOREM TypesStay == Safety => []TypeOK
<1>1. IInv => TypeOK
  BY DEF IInv
<1> QED BY <1>1, Invariance, PTL

(* _myPosition and _offset add up to a server's own line of the list, so a *)
(* leader dials every server but itself, whatever connections have been    *)
(* closed before, as long as closes do not race.                           *)
THEOREM LinesKnown == Safety => []KnowsItself
<1>1. IInv => KnowsItself
  BY DEF IInv
<1> QED BY <1>1, Invariance, PTL

-----------------------------------------------------------------------------
(* The succession: who leads is the first that is left, and a server counts*)
(* the servers before it that are gone.  Both need that nothing closes a   *)
(* leader's connection but its crash, and so hold while one client at a    *)
(* time is connected and none logs off: the name of a second user, repeated*)
(* over the same connection, is taken for a command that closes it.        *)

Started(i) == up[i] \in {"starting", "running"}

(* The servers before j that have crashed and that j has no connection to  *)
(* close of: those that j has counted, or was never connected to.          *)
Noticed(j) == {i \in Crashed : i < j /\ link[i][j] = "none"}

(* What LeaderIsFirst is stated for.                                       *)
Succession == events \subseteq {"clients", "busy", "late", "early"} /\ NoneStray

(* Nobody leads before it is started, only leaders dial, and clients come  *)
(* one at a time.                                                          *)
Fresh == \A i \in Servers : up[i] = "down" => ~leader[i]
LeadersDial == \A h \in Lines : dial[h] \in Servers => leader[Server(h)]
OneAtATime ==
    "many" \notin events => \A c, d \in Clients : at[c] # Nowhere /\ at[d] # Nowhere => c = d

(* Connections go down the list.                                           *)
LinksDown == \A h \in Lines, j \in Servers : link[h][j] # "none" => Server(h) < j

(* A server has moved up at most one place for each crash it has noticed,  *)
(* and whoever leads has come to the first place.                          *)
ClosesCounted == \A j \in Servers : Started(j) => j - pos[j] <= Cardinality(Noticed(j))
LeadersAtTop == \A j \in Servers : leader[j] => pos[j] <= 1

(* A leader that is alive has repeated nothing until its client has been   *)
(* served, and then the user name first and only commands after it: no     *)
(* connection to it is closed.                                             *)
Sent ==
    \A h \in Lines, j \in Servers : Server(h) \notin Crashed =>
        /\ (\A c \in Clients : ~ (at[c] = Server(h) /\ phase[c] = "serving"))
               => inbox[h][j] = <<>> /\ link[h][j] # "serving"
        /\ \A k \in DOMAIN inbox[h][j] :
               k # 1 \/ link[h][j] = "serving" => inbox[h][j][k] = "command"

Climbing == LinksDown /\ ClosesCounted /\ LeadersAtTop /\ Sent

LInv == IInv /\ Fresh /\ LeadersDial /\ OneAtATime /\ (Succession => Climbing)
-----------------------------------------------------------------------------
(* Sets of servers before j.                                               *)
LEMMA Before ==
    ASSUME NEW j \in Servers, NEW S, S \subseteq 1 .. j - 1
    PROVE  /\ IsFiniteSet(S) /\ Cardinality(S) \in Nat /\ Cardinality(S) <= j - 1
           /\ Cardinality(S) = j - 1 => S = 1 .. j - 1
           /\ \A T \in SUBSET S : Cardinality(T) \in Nat /\ Cardinality(T) <= Cardinality(S)
<1>1. j \in Nat /\ j - 1 \in Nat
  BY DEF Servers
<1>2. IsFiniteSet(1 .. j - 1) /\ Cardinality(1 .. j - 1) = j - 1
  BY <1>1, FS_Interval
<1>3. IsFiniteSet(S) /\ Cardinality(S) \in Nat /\ Cardinality(S) <= j - 1
  BY <1>2, FS_Subset, FS_CardinalityType
<1>4. Cardinality(S) = j - 1 => S = 1 .. j - 1
  BY <1>2, FS_Subset
<1>5. \A T \in SUBSET S : Cardinality(T) \in Nat /\ Cardinality(T) <= Cardinality(S)
  BY <1>3, FS_Subset, FS_CardinalityType
<1> QED BY <1>3, <1>4, <1>5

LEMMA NoticedBefore == \A j \in Servers : Noticed(j) \subseteq 1 .. j - 1
BY DEF Noticed, Crashed, Servers

(* A server that has crashed has dialled once, and leaves one connection.  *)
LEMMA OneLine ==
    ASSUME IInv, Succession, NEW h \in Lines, NEW j \in Servers, Server(h) \in Crashed, link[h][j] # "none"
    PROVE  h \in Servers /\ Server(h) = h
<1>1. Server(h) \in Servers /\ loops[Server(h)] = "one"
  BY Owner DEF Succession, NoneStray
<1>2. h # N + Server(h)
  BY <1>1 DEF IInv, SecondLines
<1> QED BY <1>1, <1>2, Rows

(* Whoever leads has noticed every server before it, and nobody is         *)
(* connected to it.                                                        *)
LEMMA LeaderAlone ==
    ASSUME IInv, Succession, Climbing, NEW j \in Servers, Started(j), leader[j]
    PROVE  /\ \A i \in Servers : i < j => i \in Crashed
           /\ \A h \in Lines : link[h][j] = "none"
<1>1. j - pos[j] <= Cardinality(Noticed(j)) /\ pos[j] <= 1 /\ pos[j] \in Int
  BY DEF Climbing, ClosesCounted, LeadersAtTop, IInv, TypeOK
<1>2. Noticed(j) \subseteq 1 .. j - 1
  BY NoticedBefore
<1>3. Cardinality(Noticed(j)) \in Nat /\ Cardinality(Noticed(j)) <= j - 1
  BY <1>2, Before
<1>4. j - 1 = Cardinality(Noticed(j))
  BY <1>1, <1>3 DEF Servers
<1>5. Noticed(j) = 1 .. j - 1
  BY <1>2, <1>4, Before
<1>6. \A i \in Servers : i < j => i \in Noticed(j)
  BY <1>5 DEF Servers
<1>7. ASSUME NEW h \in Lines, link[h][j] # "none" PROVE FALSE
  <2>1. Server(h) \in Servers /\ Server(h) < j
    BY <1>7, Owner DEF Climbing, LinksDown
  <2>2. Server(h) \in Noticed(j)
    BY <1>6, <2>1
  <2>3. Server(h) \in Crashed /\ link[Server(h)][j] = "none"
    BY <2>2 DEF Noticed
  <2> QED BY <1>7, <2>3, OneLine
<1> QED BY <1>6, <1>7 DEF Noticed

(* No thread of a leader serves another server.                            *)
LEMMA LeaderServesNone ==
    ASSUME IInv, Succession, Climbing, NEW h \in Lines, NEW j \in Servers, Running(j),
           link[h][j] # "none"
    PROVE  ~leader[j]
BY LeaderAlone DEF Started, Running

(* A server that has noticed no less than before and stays in its place.   *)
LEMMA CountKept ==
    ASSUME TypeOK, NEW j \in Servers, j - pos[j] <= Cardinality(Noticed(j)),
           Noticed(j) \subseteq Noticed(j)', pos'[j] = pos[j]
    PROVE  j - pos'[j] <= Cardinality(Noticed(j)')
<1>1. Noticed(j)' \subseteq 1 .. j - 1
  BY DEF Noticed, Crashed, Servers
<1>2. /\ Cardinality(Noticed(j)') \in Nat /\ Cardinality(Noticed(j)) \in Nat
      /\ Cardinality(Noticed(j)) <= Cardinality(Noticed(j)')
  BY <1>1, Before
<1> QED BY <1>2 DEF TypeOK, Servers

(* What a server goes up in the list when it notices one crash.            *)
LEMMA NoticedOneMore ==
    ASSUME NEW j \in Servers, NEW i, i \notin Noticed(j), Noticed(j)' = Noticed(j) \cup {i}
    PROVE  /\ Cardinality(Noticed(j)') = Cardinality(Noticed(j)) + 1
           /\ Cardinality(Noticed(j)) \in Nat
<1>1. IsFiniteSet(Noticed(j)) /\ Cardinality(Noticed(j)) \in Nat
  BY NoticedBefore, Before
<1> QED BY <1>1, FS_AddElement
-----------------------------------------------------------------------------
(* Steps that leave the servers as they are, but for one close.            *)
LEMMA StepKinds ==
    ASSUME IInv, [Next]_vars
    PROVE  \/ \E i \in Servers : Start(i) \/ Crash(i) \/ RacingCloses(i)
           \/ \E h \in Lines : DialNext(h) \/ DialEnd(h)
           \/ /\ UNCHANGED <<up, loops, events>>
              /\ \/ UNCHANGED election
                 \/ \E j \in Servers : up[j] # "down" /\ CloseConnection(j)
<1>1. CASE UNCHANGED vars
  BY <1>1 DEF vars, election
<1>2. CASE \E i \in Servers : Start(i) \/ Crash(i) \/ RacingCloses(i)
  BY <1>2
<1>3. CASE \E h \in Lines : Step(h)
  BY <1>3 DEF Step
<1>4. CASE \E h \in Lines, j \in Servers : Serve(h, j)
  BY <1>4 DEF Serve, Running, BackupLogsIn, BackupCommand, BackupCloses, BackupAbandons,
              BackupLosesLeader
<1>5. ASSUME NEW c \in Clients,
             ClientConnects(c) \/ ClientLogsIn(c) \/ ClientCommand(c) \/ ClientLeaves(c)
      PROVE  /\ UNCHANGED <<up, loops, events>>
             /\ \/ UNCHANGED election
                \/ \E j \in Servers : up[j] # "down" /\ CloseConnection(j)
  <2>1. at[c] # Nowhere => at[c] \in Servers /\ up[at[c]] # "down"
    BY DEF IInv, TypeOK, NotYet
  <2> QED BY <1>5, <2>1 DEF ClientConnects, ClientLogsIn, ClientCommand, ClientLeaves
<1> QED BY <1>1, <1>2, <1>3, <1>4, <1>5 DEF Next

(* What closeConnection does to a server that does not lead.               *)
LEMMA MovesUp ==
    ASSUME TypeOK, NEW j \in Servers, ~leader[j], CloseConnection(j)
    PROVE  /\ pos'[j] = pos[j] - 1 /\ offset'[j] = offset[j] + 1
           /\ (leader'[j] <=> pos[j] = 2) /\ leader'[j] \in BOOLEAN
           /\ \A i \in Servers : i # j =>
                 pos'[i] = pos[i] /\ offset'[i] = offset[i] /\ leader'[i] = leader[i]
           /\ dial'[j] = IF leader'[j] THEN 1 ELSE dial[j]
           /\ \A h \in Lines : h # j => dial'[h] = dial[h]
<1>1. /\ pos' = [pos EXCEPT ![j] = @ - 1] /\ offset' = [offset EXCEPT ![j] = @ + 1]
      /\ leader' = [leader EXCEPT ![j] = (pos[j] = 2)]
      /\ dial' = [dial EXCEPT ![j] = IF pos[j] = 2 THEN 1 ELSE @]
  BY DEF CloseConnection
<1>2. leader'[j] <=> pos[j] = 2
  BY <1>1 DEF TypeOK
<1>3. leader'[j] \in BOOLEAN
  BY <1>1 DEF TypeOK
<1>4. /\ pos'[j] = pos[j] - 1 /\ offset'[j] = offset[j] + 1
      /\ \A i \in Servers : i # j =>
            pos'[i] = pos[i] /\ offset'[i] = offset[i] /\ leader'[i] = leader[i]
  BY <1>1 DEF TypeOK
<1>5. /\ dial'[j] = IF pos[j] = 2 THEN 1 ELSE dial[j]
      /\ \A h \in Lines : h # j => dial'[h] = dial[h]
  BY <1>1, Rows DEF TypeOK
<1> QED BY <1>2, <1>3, <1>4, <1>5

(* What Start does to it, and to its line.                                 *)
LEMMA Starting ==
    ASSUME TypeOK, NEW i \in Servers, Start(i)
    PROVE  /\ up[i] = "down" /\ up' = [up EXCEPT ![i] = "starting"]
           /\ pos' = [pos EXCEPT ![i] = i] /\ UNCHANGED <<offset, links, clients, loops, events>>
           /\ \A j \in Servers : j # i => leader'[j] = leader[j]
           /\ leader'[i] \in BOOLEAN /\ (i = 1 => leader'[i])
           /\ "garbage" \notin events => (leader'[i] <=> i = 1)
           /\ dial'[i] = (IF leader'[i] THEN 1 ELSE N + 1)
           /\ \A h \in Lines : h # i => dial'[h] = dial[h]
<1>1. /\ up[i] = "down" /\ up' = [up EXCEPT ![i] = "starting"]
      /\ pos' = [pos EXCEPT ![i] = i] /\ UNCHANGED <<offset, links, clients, loops, events>>
      /\ dial' = [dial EXCEPT ![i] = IF leader'[i] THEN 1 ELSE N + 1]
  BY DEF Start
<1>2. PICK lead \in (IF "garbage" \in events THEN {i = 1, TRUE} ELSE {i = 1}) :
         leader' = [leader EXCEPT ![i] = lead]
  BY DEF Start
<1>3. lead \in BOOLEAN /\ (i = 1 => lead) /\ ("garbage" \notin events => (lead <=> i = 1))
  BY <1>2
<1>4. leader'[i] = lead /\ \A j \in Servers : j # i => leader'[j] = leader[j]
  BY <1>2 DEF TypeOK
<1>5. i \in Lines
  BY Rows
<1>6. /\ dial'[i] = (IF leader'[i] THEN 1 ELSE N + 1)
      /\ \A h \in Lines : h # i => dial'[h] = dial[h]
  BY <1>1, <1>5 DEF TypeOK
<1> QED BY <1>1, <1>3, <1>4, <1>6

(* A leader stays one, and what it takes for its line stays.               *)
LEMMA LeadersStay ==
    ASSUME IInv, Fresh, LeadersDial, [Next]_vars
    PROVE  /\ Fresh' /\ LeadersDial' /\ UNCHANGED events
           /\ \A i \in Servers : leader[i] => leader'[i] /\ pos'[i] = pos[i] /\ offset'[i] = offset[i]
           /\ Crashed \subseteq Crashed' /\ \A i \in Servers : loops'[i] = "one" => loops[i] = "one"
<1> USE DEF IInv, Fresh, LeadersDial
<1> DEFINE Stays ==
      /\ Fresh' /\ LeadersDial' /\ UNCHANGED events
      /\ \A i \in Servers : leader[i] => leader'[i] /\ pos'[i] = pos[i] /\ offset'[i] = offset[i]
      /\ Crashed \subseteq Crashed' /\ \A i \in Servers : loops'[i] = "one" => loops[i] = "one"
<1>1. ASSUME NEW i \in Servers, Start(i) PROVE Stays
  <2>1. /\ up[i] = "down" /\ up' = [up EXCEPT ![i] = "starting"]
        /\ pos' = [pos EXCEPT ![i] = i] /\ UNCHANGED <<offset, loops, events>>
        /\ \A j \in Servers : j # i => leader'[j] = leader[j]
        /\ dial'[i] = (IF leader'[i] THEN 1 ELSE N + 1)
        /\ \A h \in Lines : h # i => dial'[h] = dial[h]
    BY <1>1, Starting
  <2>2. N + 1 \notin Servers /\ Server(i) = i
    BY BoundsAssumption, Rows DEF Servers
  <2>3. LeadersDial'
    <3> SUFFICES ASSUME NEW h \in Lines, dial'[h] \in Servers PROVE leader'[Server(h)]
      OBVIOUS
    <3>1. CASE h = i
      BY <2>1, <2>2, <3>1
    <3>2. CASE h # i
      <4>1. leader[Server(h)] /\ Server(h) \in Servers
        BY <2>1, <3>2, Owner
      <4>2. Server(h) # i
        BY <2>1, <4>1
      <4> QED BY <2>1, <4>1, <4>2
    <3> QED BY <3>1, <3>2
  <2>4. Fresh' /\ Crashed \subseteq Crashed'
    BY <2>1 DEF TypeOK, Crashed
  <2>5. \A j \in Servers : leader[j] => leader'[j] /\ pos'[j] = pos[j] /\ offset'[j] = offset[j]
    BY <2>1 DEF TypeOK
  <2> QED BY <2>1, <2>3, <2>4, <2>5
<1>2. ASSUME NEW h \in Lines, DialNext(h) PROVE Stays
  <2>1. /\ dial[h] \in Servers /\ UNCHANGED <<up, pos, offset, leader, events>>
        /\ \A g \in Lines : g # h => dial'[g] = dial[g]
        /\ UNCHANGED loops \/ loops' = [loops EXCEPT ![Server(h)] = "mixed"]
    BY <1>2, Turn
  <2>2. \A i \in Servers : loops'[i] = "one" => loops[i] = "one"
    BY <2>1 DEF TypeOK
  <2> QED BY <2>1, <2>2 DEF Crashed
<1>3. ASSUME NEW h \in Lines, DialEnd(h) PROVE Stays
  <2>1. /\ up[Server(h)] \in {"starting", "running"} /\ up' = [up EXCEPT ![Server(h)] = "running"]
        /\ dial' = [dial EXCEPT ![h] = 0] /\ UNCHANGED <<pos, offset, leader, loops, events>>
    BY <1>3 DEF DialEnd
  <2>2. 0 \notin Servers
    BY DEF Servers
  <2>3. LeadersDial'
    BY <2>1, <2>2 DEF TypeOK
  <2>4. Fresh' /\ Crashed \subseteq Crashed'
    BY <2>1 DEF TypeOK, Crashed
  <2> QED BY <2>1, <2>3, <2>4
<1>4. ASSUME NEW i \in Servers, Crash(i) PROVE Stays
  <2>1. /\ up' = [up EXCEPT ![i] = "crashed"] /\ dial' = [dial EXCEPT ![i] = 0, ![N + i] = 0]
        /\ UNCHANGED <<pos, offset, leader, loops, events>>
    BY <1>4 DEF Crash
  <2>2. 0 \notin Servers
    BY DEF Servers
  <2>3. \A h \in Lines : dial'[h] = dial[h] \/ dial'[h] = 0
    BY <2>1 DEF TypeOK
  <2>4. Fresh' /\ Crashed \subseteq Crashed'
    BY <2>1 DEF TypeOK, Crashed
  <2> QED BY <2>1, <2>2, <2>3, <2>4
<1>5. ASSUME NEW j \in Servers, RacingCloses(j) PROVE Stays
  <2>1. /\ ~leader[j] /\ Running(j) /\ UNCHANGED <<up, events>>
        /\ \A i \in Servers : i # j => leader'[i] = leader[i]
        /\ \A h \in Lines : dial'[h] = dial[h] \/ (Server(h) = j /\ leader'[j])
        /\ loops' = loops \/ loops' = [loops EXCEPT ![j] = "two"]
    BY <1>5, Race
  <2>2. PICK d, o \in 1 .. 2 :
           pos' = [pos EXCEPT ![j] = @ - d] /\ offset' = [offset EXCEPT ![j] = @ + o]
    BY <1>5, Race
  <2>3. \A i \in Servers : i # j => pos'[i] = pos[i] /\ offset'[i] = offset[i]
    BY <2>2 DEF TypeOK
  <2>4. \A i \in Servers : loops'[i] = "one" => loops[i] = "one"
    BY <2>1 DEF TypeOK
  <2>5. LeadersDial'
    <3> SUFFICES ASSUME NEW h \in Lines, dial'[h] \in Servers PROVE leader'[Server(h)]
      OBVIOUS
    <3> QED BY <2>1, Owner
  <2>6. Fresh' /\ Crashed \subseteq Crashed'
    BY <2>1 DEF Running, Crashed
  <2> QED BY <2>1, <2>3, <2>4, <2>5, <2>6
<1>6. ASSUME UNCHANGED <<up, loops, events>>, UNCHANGED election PROVE Stays
  BY <1>6 DEF election, Crashed
<1>7. ASSUME UNCHANGED <<up, loops, events>>, NEW j \in Servers, up[j] # "down", CloseConnection(j)
      PROVE  Stays
  <2>1. CASE leader[j]
    BY <1>6, <1>7, <2>1 DEF CloseConnection
  <2>2. CASE ~leader[j]
    <3>1. /\ \A i \in Servers : i # j =>
                pos'[i] = pos[i] /\ offset'[i] = offset[i] /\ leader'[i] = leader[i]
          /\ dial'[j] = IF leader'[j] THEN 1 ELSE dial[j]
          /\ \A h \in Lines : h # j => dial'[h] = dial[h]
      BY <1>7, <2>2, MovesUp
    <3>2. LeadersDial'
      <4> SUFFICES ASSUME NEW h \in Lines, dial'[h] \in Servers PROVE leader'[Server(h)]
        OBVIOUS
      <4>1. dial'[h] = dial[h] \/ (h = j /\ leader'[j])
        BY <3>1
      <4>2. Server(j) = j /\ Server(h) \in Servers
        BY Rows, Owner
      <4> QED BY <2>2, <3>1, <4>1, <4>2
    <3>3. Fresh' /\ Crashed \subseteq Crashed'
      BY <1>7, <3>1 DEF Crashed
    <3> QED BY <1>7, <2>2, <3>1, <3>2, <3>3
  <2> QED BY <2>1, <2>2
<1> HIDE DEF Stays
<1>8. Stays
  BY <1>1, <1>2, <1>3, <1>4, <1>5, <1>6, <1>7, StepKinds
<1> QED BY <1>8 DEF Stays

(* Who is the first that is left is a matter of leaders that have known    *)
(* themselves all along.                                                   *)
LEMMA SuccessionStays ==
    ASSUME IInv, Fresh, LeadersDial, [Next]_vars, Succession' PROVE Succession
BY LeadersStay DEF Succession, NoneStray, LeadersKnowThemselves, Crashed
-----------------------------------------------------------------------------
(* Clients stay one at a time.                                             *)
LEMMA StillOne ==
    ASSUME IInv, OneAtATime, [Next]_vars, UNCHANGED events PROVE OneAtATime'
<1> SUFFICES ASSUME "many" \notin events,
                    NEW c \in Clients, NEW d \in Clients, at'[c] # Nowhere, at'[d] # Nowhere
             PROVE  c = d
  BY DEF OneAtATime
<1> USE DEF IInv, TypeOK
<1>1. ASSUME NEW e \in Clients, ClientConnects(e) PROVE c = d
  <2>1. \A f \in Clients : at[f] = Nowhere
    BY <1>1 DEF ClientConnects
  <2>2. \A f \in Clients : f # e => at'[f] = at[f]
    BY <1>1 DEF ClientConnects
  <2> QED BY <2>1, <2>2
<1>2. CASE \A f \in Clients : at'[f] = at[f] \/ at'[f] = Nowhere
  BY <1>2 DEF OneAtATime
<1>3. ASSUME NEW e \in Clients, ClientLogsIn(e) \/ ClientCommand(e) \/ ClientLeaves(e)
      PROVE  \A f \in Clients : at'[f] = at[f] \/ at'[f] = Nowhere
  BY <1>3 DEF ClientLogsIn, ClientCommand, ClientLeaves, clients
<1>4. ASSUME NEW i \in Servers, Start(i) \/ Crash(i) \/ RacingCloses(i)
      PROVE  \A f \in Clients : at'[f] = at[f] \/ at'[f] = Nowhere
  BY <1>4 DEF Start, Crash, RacingCloses, clients
<1>5. ASSUME NEW h \in Lines, Step(h) \/ \E j \in Servers : Serve(h, j)
      PROVE  UNCHANGED at
  BY <1>5 DEF Step, Serve, DialNext, DialEnd, BackupLogsIn, BackupCommand, BackupCloses,
              BackupAbandons, BackupLosesLeader, clients
<1>6. CASE UNCHANGED vars
  BY <1>2, <1>6 DEF vars
<1> QED BY <1>1, <1>2, <1>3, <1>4, <1>5, <1>6 DEF Next

(* Nothing is sent, no connection is logged in, and no client served at a  *)
(* server that is alive goes.                                              *)
LEMMA SentKept ==
    ASSUME Sent, Crashed \subseteq Crashed',
           \A h \in Lines, j \in Servers : Server(h) \notin Crashed' =>
              /\ inbox'[h][j] = inbox[h][j]
              /\ link'[h][j] = "serving" => link[h][j] = "serving",
           \A i \in Servers \ Crashed', c \in Clients :
              at[c] = i /\ phase[c] = "serving" => at'[c] = i /\ phase'[c] = "serving"
    PROVE  Sent'
<1>1. ASSUME NEW h \in Lines, NEW j \in Servers, Server(h) \notin Crashed',
             \A c \in Clients : ~ (at'[c] = Server(h) /\ phase'[c] = "serving")
      PROVE  inbox'[h][j] = <<>> /\ link'[h][j] # "serving"
  <2>1. Server(h) \in Servers /\ Server(h) \notin Crashed
    BY <1>1, Owner
  <2>2. \A c \in Clients : ~ (at[c] = Server(h) /\ phase[c] = "serving")
    BY <1>1, <2>1
  <2>3. inbox[h][j] = <<>> /\ link[h][j] # "serving"
    BY <2>1, <2>2 DEF Sent
  <2> QED BY <1>1, <2>3
<1>2. ASSUME NEW h \in Lines, NEW j \in Servers, Server(h) \notin Crashed',
             NEW k \in DOMAIN inbox'[h][j], k # 1 \/ link'[h][j] = "serving"
      PROVE  inbox'[h][j][k] = "command"
  BY <1>2 DEF Sent
<1> QED BY <1>1, <1>2 DEF Sent

LEMMA StartClimbs ==
    ASSUME IInv, Fresh, Succession, Climbing, NEW i \in Servers, Start(i) PROVE Climbing'
<1> USE DEF IInv, TypeOK, Climbing
<1>1. /\ up[i] = "down" /\ up' = [up EXCEPT ![i] = "starting"]
      /\ pos' = [pos EXCEPT ![i] = i] /\ UNCHANGED <<links, clients>>
      /\ (leader'[i] => i = 1) /\ \A j \in Servers : j # i => leader'[j] = leader[j]
  BY Starting DEF Succession
<1>3. Crashed' = Crashed /\ \A j \in Servers : Noticed(j)' = Noticed(j)
  BY <1>1 DEF Crashed, Noticed, links
<1>4. LinksDown' /\ Sent'
  BY <1>1, <1>3, SentKept DEF LinksDown, links, clients
<1>5. ClosesCounted'
  <2> SUFFICES ASSUME NEW j \in Servers, Started(j)'
               PROVE  j - pos'[j] <= Cardinality(Noticed(j))
    BY <1>3 DEF ClosesCounted
  <2>1. CASE j = i
    <3>1. Cardinality(Noticed(j)) \in Nat
      BY NoticedBefore, Before
    <3> QED BY <1>1, <2>1, <3>1 DEF Servers
  <2>2. CASE j # i
    BY <1>1, <2>2 DEF ClosesCounted, Started
  <2> QED BY <2>1, <2>2
<1>6. LeadersAtTop'
  <2> SUFFICES ASSUME NEW j \in Servers, leader'[j] PROVE pos'[j] <= 1
    BY DEF LeadersAtTop
  <2>1. CASE j = i
    BY <1>1, <2>1
  <2>2. CASE j # i
    BY <1>1, <2>2 DEF LeadersAtTop
  <2> QED BY <2>1, <2>2
<1> QED BY <1>4, <1>5, <1>6

(* A turn of a loop that does not overlap another finds the next server.   *)
LEMMA OwnTurn ==
    ASSUME IInv, "overlap" \notin events, NEW h \in Lines, DialNext(h)
    PROVE  /\ dial[h] \in Servers /\ dial'[h] = dial[h] + 1
           /\ \A j \in Servers : link'[h][j] # link[h][j] => j = dial[h] /\ j # pos[Server(h)] + offset[Server(h)]
           /\ Running(dial[h]) /\ dial[h] # pos[Server(h)] + offset[Server(h)] => link'[h][dial[h]] # "none"
<1> DEFINE i == Server(h)
           mixed == loops[i] = "mixed" \/ dial[Racing(h)] \in 2 .. N
<1>1. ~mixed
  BY Owner DEF IInv, SecondLines, DialNext
<1>2. /\ dial[h] \in Servers
      /\ \E j \in (IF mixed THEN Servers ELSE {dial[h]}) :
            IF dial[h] # pos[i] + offset[i] /\ Running(j) /\ link[h][j] = "none"
            THEN /\ link' = [link EXCEPT ![h][j] = "login"]
                 /\ linked' = [linked EXCEPT ![h][j] = TRUE]
            ELSE UNCHANGED <<link, linked>>
      /\ dial' \in {[dial EXCEPT ![h] = k] : k \in {dial[h] + 1} \cup (IF mixed THEN {N + 1} ELSE {})}
  BY DEF DialNext
<1> HIDE DEF mixed
<1>3. dial'[h] = dial[h] + 1
  BY <1>1, <1>2 DEF IInv, TypeOK
<1>4. /\ IF dial[h] # pos[i] + offset[i] /\ Running(dial[h]) /\ link[h][dial[h]] = "none"
         THEN link' = [link EXCEPT ![h][dial[h]] = "login"]
         ELSE link' = link
  BY <1>1, <1>2
<1> QED BY <1>2, <1>3, <1>4 DEF IInv, TypeOK

LEMMA DialNextClimbs ==
    ASSUME IInv, LeadersDial, Succession, Climbing, NEW h \in Lines, DialNext(h)
    PROVE  Climbing'
<1> USE DEF Climbing
<1> DEFINE i == Server(h)
<1>1. /\ Started(i) /\ leader[i] /\ pos[i] + offset[i] = i /\ i \in Servers
      /\ UNCHANGED <<up, pos, offset, leader, inbox, clients, events>>
      /\ \A g \in Lines : g # h => link'[g] = link[g]
      /\ \A j \in Servers :
            link'[h][j] = link[h][j] \/ (link'[h][j] = "login" /\ Running(j))
  BY Turn, Owner DEF IInv, Started, LeadersDial, Succession, NoneStray, LeadersKnowThemselves
<1>2. "overlap" \notin events
  BY DEF Succession
<1>3. \A j \in Servers : link'[h][j] # link[h][j] => j # i
  BY <1>1, <1>2, OwnTurn
<1>4. i \notin Crashed /\ Crashed' = Crashed
  BY <1>1 DEF Crashed, Started
<1>5. \A j \in Servers : Running(j) /\ j # i => i < j
  <2>1. \A g \in Servers : g < i => ~Running(g)
    BY <1>1, LeaderAlone DEF Crashed, Running
  <2> QED BY <1>1, <2>1 DEF Servers
<1>6. \A g \in Lines, k \in Servers :
         link'[g][k] = link[g][k] \/ (g = h /\ i < k /\ link'[g][k] = "login")
  BY <1>1, <1>3, <1>5
<1>7. ASSUME NEW k \in Servers PROVE Noticed(k)' = Noticed(k)
  <2>1. \A g \in Crashed : g \in Lines /\ g # h
    BY <1>4, Rows DEF Crashed
  <2> QED BY <1>4, <1>6, <2>1 DEF Noticed, Crashed
<1>8. LinksDown'
  BY <1>6 DEF LinksDown
<1>9. ClosesCounted' /\ LeadersAtTop'
  BY <1>1, <1>7 DEF ClosesCounted, LeadersAtTop, Started
<1>10. Sent'
  <2>1. \A g \in Lines, k \in Servers : link'[g][k] = "serving" => link[g][k] = "serving"
    BY <1>6
  <2> QED BY <1>1, <1>4, <2>1, SentKept DEF clients
<1> QED BY <1>8, <1>9, <1>10

LEMMA DialEndClimbs ==
    ASSUME IInv, Climbing, NEW h \in Lines, DialEnd(h) PROVE Climbing'
<1> USE DEF IInv, TypeOK
<1>1. /\ Started(Server(h)) /\ up' = [up EXCEPT ![Server(h)] = "running"]
      /\ UNCHANGED <<pos, leader, links, clients>> /\ Server(h) \in Servers
  BY Owner DEF DialEnd, Started
<1>2. Crashed' = Crashed /\ \A j \in Servers : Noticed(j)' = Noticed(j)
  BY <1>1 DEF Crashed, Noticed, links, Started
<1>3. \A j \in Servers : Started(j)' => Started(j)
  BY <1>1 DEF Started
<1> QED BY <1>1, <1>2, <1>3 DEF Climbing, LinksDown, ClosesCounted, LeadersAtTop, Sent, links, clients

LEMMA ClientConnectsClimbs ==
    ASSUME IInv, Climbing, NEW c \in Clients, ClientConnects(c) PROVE Climbing'
<1> USE DEF IInv, TypeOK
<1>1. /\ UNCHANGED <<up, election, links>> /\ at[c] = Nowhere
      /\ phase' = [phase EXCEPT ![c] = "login"]
      /\ \A d \in Clients : d # c => at'[d] = at[d]
  BY DEF ClientConnects
<1>2. Crashed' = Crashed /\ \A j \in Servers : Noticed(j)' = Noticed(j)
  BY <1>1 DEF Crashed, Noticed, links
<1>3. \A i \in Servers, d \in Clients :
         at[d] = i /\ phase[d] = "serving" => at'[d] = i /\ phase'[d] = "serving"
  <2>1. Nowhere \notin Servers
    BY DEF Nowhere, Servers
  <2> QED BY <1>1, <2>1
<1>4. Sent'
  BY <1>1, <1>2, <1>3, SentKept DEF Climbing, links
<1> QED BY <1>1, <1>2, <1>4
    DEF Climbing, LinksDown, ClosesCounted, LeadersAtTop, Started, links, election

(* What a message repeated by server i does to the queues.                 *)
LEMMA RelayedQueues ==
    ASSUME TypeOK, NEW i \in Servers, NEW m
    PROVE  \A h \in Lines, j \in Servers :
              \/ Relayed(inbox, i, m)[h][j] = inbox[h][j]
              \/ Server(h) = i /\ Relayed(inbox, i, m)[h][j] = Append(inbox[h][j], m)
BY DEF Relayed

(* A server that does not lead repeats nothing.                            *)
LEMMA NoRelay ==
    ASSUME NEW q \in [Lines -> [Servers -> Seq(Messages)]], NEW j \in Servers, ~leader[j], NEW m
    PROVE  Relayed(q, j, m) = q
BY DEF Relayed

(* The one client is served: its name goes out first, then its commands.   *)
LEMMA ClientReadsClimbs ==
    ASSUME "many" \notin events, OneAtATime, IInv, Climbing,
           NEW c \in Clients, ClientLogsIn(c) \/ ClientCommand(c)
    PROVE  Climbing'
<1> USE DEF IInv, Climbing
<1>1. PICK m \in Messages :
         /\ inbox' = Relayed(inbox, at[c], m)
         /\ \/ m = "command" /\ phase[c] = "serving"
            \/ phase[c] = "login"
         /\ phase' = [phase EXCEPT ![c] = "serving"]
         /\ at[c] # Nowhere /\ UNCHANGED <<up, election, link, at>>
  BY DEF ClientLogsIn, ClientCommand, clients, Messages, TypeOK
<1>2. PICK i \in Servers : i = at[c]
  BY <1>1 DEF TypeOK
<1>3. Crashed' = Crashed /\ \A j \in Servers : Noticed(j)' = Noticed(j)
  BY <1>1 DEF Crashed, Noticed
<1>4. \A h \in Lines, j \in Servers :
         inbox'[h][j] = inbox[h][j] \/ (Server(h) = i /\ inbox'[h][j] = Append(inbox[h][j], m))
  BY <1>1, <1>2, RelayedQueues
<1>5. ASSUME NEW h \in Lines, NEW j \in Servers, Server(h) \notin Crashed,
             \A d \in Clients : ~ (at'[d] = Server(h) /\ phase'[d] = "serving")
      PROVE  inbox'[h][j] = <<>> /\ link'[h][j] # "serving"
  <2>1. Server(h) # i
    BY <1>1, <1>2, <1>5 DEF TypeOK
  <2>2. \A d \in Clients : ~ (at[d] = Server(h) /\ phase[d] = "serving")
    BY <1>1, <1>2, <2>1, <1>5 DEF TypeOK
  <2>3. inbox[h][j] = <<>> /\ link[h][j] # "serving"
    BY <1>5, <2>2 DEF Sent
  <2> QED BY <1>1, <1>4, <2>1, <2>3
<1>6. ASSUME NEW h \in Lines, NEW j \in Servers, Server(h) \notin Crashed,
             NEW k \in DOMAIN inbox'[h][j], k # 1 \/ link'[h][j] = "serving"
      PROVE  inbox'[h][j][k] = "command"
  <2>1. CASE inbox'[h][j] = inbox[h][j]
    BY <1>1, <1>6, <2>1 DEF Sent, Climbing
  <2>2. CASE Server(h) = i /\ inbox'[h][j] = Append(inbox[h][j], m)
    <3> DEFINE q == inbox[h][j]
    <3>1. q \in Seq(Messages)
      BY DEF TypeOK, Messages
    <3>2. \A n \in DOMAIN q : n # 1 \/ link[h][j] = "serving" => q[n] = "command"
      BY <1>6 DEF Sent, Climbing
    <3>3. (k \in DOMAIN q \/ k = Len(q) + 1) /\ (k \in DOMAIN q => inbox'[h][j][k] = q[k])
          /\ (k = Len(q) + 1 => inbox'[h][j][k] = m)
      BY <1>6, <2>2, <3>1
    <3>4. CASE phase[c] = "login"
      <4>1. \A d \in Clients : ~ (at[d] = Server(h) /\ phase[d] = "serving")
        BY <1>1, <1>2, <2>2, <3>4 DEF OneAtATime
      <4>2. q = <<>> /\ link[h][j] # "serving"
        BY <1>6, <4>1 DEF Sent, Climbing
      <4> HIDE DEF q
      <4>3. k = 1
        BY <3>3, <4>2
      <4> QED BY <1>1, <1>6, <2>2, <4>2, <4>3
    <3>5. CASE m = "command"
      <4> HIDE DEF q
      <4> QED BY <1>1, <1>6, <2>2, <3>2, <3>3, <3>5
    <3> QED BY <1>1, <3>4, <3>5
  <2> QED BY <1>4, <2>1, <2>2
<1>7. Sent'
  BY <1>3, <1>5, <1>6 DEF Sent
<1> QED BY <1>1, <1>3, <1>7
    DEF Climbing, LinksDown, ClosesCounted, LeadersAtTop, Started, election
-----------------------------------------------------------------------------
(* Server j notices that i has crashed, and moves up if it closes.         *)
LEMMA Noticing ==
    ASSUME IInv, Climbing, NEW i \in Crashed, NEW j \in Servers, link[i][j] # "none", ~leader[j],
           UNCHANGED up, link' = [link EXCEPT ![i][j] = "none"],
           UNCHANGED election \/ CloseConnection(j)
    PROVE  LinksDown' /\ ClosesCounted' /\ LeadersAtTop'
<1> USE DEF IInv, Climbing
<1>1. i \in Servers /\ i \in Lines /\ Crashed' = Crashed /\ Crashed \subseteq Servers /\ i < j
  BY Rows DEF Crashed, LinksDown
<1>2. \A h \in Lines, k \in Servers :
         link'[h][k] = IF h = i /\ k = j THEN "none" ELSE link[h][k]
  BY <1>1 DEF TypeOK
<1>3. Noticed(j)' = Noticed(j) \cup {i} /\ i \notin Noticed(j)
  BY <1>1, <1>2, Rows DEF Noticed
<1>4. \A k \in Servers : k # j => Noticed(k)' = Noticed(k)
  BY <1>1, <1>2, Rows DEF Noticed
<1>5. /\ \A k \in Servers : k # j => pos'[k] = pos[k] /\ leader'[k] = leader[k]
      /\ pos'[j] \in {pos[j], pos[j] - 1}
      /\ leader'[j] => pos'[j] = 1
  <2>1. CASE UNCHANGED election
    BY <2>1 DEF election
  <2>2. CASE CloseConnection(j)
    BY <2>2, MovesUp DEF TypeOK
  <2> QED BY <2>1, <2>2
<1>6. LinksDown'
  BY <1>2 DEF LinksDown
<1>7. LeadersAtTop'
  BY <1>5 DEF LeadersAtTop
<1>8. ClosesCounted'
  <2> SUFFICES ASSUME NEW k \in Servers, Started(k)
               PROVE  k - pos'[k] <= Cardinality(Noticed(k)')
    BY DEF ClosesCounted, Started
  <2>1. CASE k = j
    <3>1. j - pos[j] <= Cardinality(Noticed(j))
      BY <2>1 DEF ClosesCounted
    <3>2. /\ Cardinality(Noticed(j)') = Cardinality(Noticed(j)) + 1
          /\ Cardinality(Noticed(j)) \in Nat
      BY <1>3, NoticedOneMore
    <3>3. pos[j] \in Int
      BY DEF TypeOK, IInv
    <3>4. j \in Int
      BY DEF Servers
    <3> QED BY <1>5, <2>1, <3>1, <3>2, <3>3, <3>4
  <2>2. CASE k # j
    BY <1>4, <1>5, <2>2 DEF ClosesCounted
  <2> QED BY <2>1, <2>2
<1> QED BY <1>6, <1>7, <1>8

(* The first message of a queue, and those after it.                       *)
LEMMA Queue ==
    ASSUME TypeOK, NEW h \in Lines, NEW j \in Servers, inbox[h][j] # <<>>
    PROVE  /\ 1 \in DOMAIN inbox[h][j] /\ Head(inbox[h][j]) = inbox[h][j][1]
           /\ \A k \in DOMAIN Tail(inbox[h][j]) :
                 /\ k + 1 \in DOMAIN inbox[h][j] /\ k + 1 # 1
                 /\ Tail(inbox[h][j])[k] = inbox[h][j][k + 1]
<1> DEFINE q == inbox[h][j]
<1>1. q \in Seq(Messages) /\ q # <<>>
  BY DEF TypeOK, Messages
<1> HIDE DEF q
<1>2. /\ 1 \in DOMAIN q /\ Head(q) = q[1]
      /\ \A k \in DOMAIN Tail(q) : k + 1 \in DOMAIN q /\ k + 1 # 1 /\ Tail(q)[k] = q[k + 1]
  BY <1>1
<1> QED BY <1>2 DEF q

(* A thread that is about to close serves a leader that has crashed.       *)
LEMMA EndsBroken ==
    ASSUME IInv, Sent, NEW h \in Lines, NEW j \in Servers, Ends(h, j)
    PROVE  h \in Broken(j)
<1>1. CASE inbox[h][j] = <<>>
  BY <1>1 DEF Ends
<1>2. CASE inbox[h][j] # <<>>
  <2>1. link[h][j] = "serving" /\ Head(inbox[h][j]) # "command"
    BY <1>2 DEF Ends
  <2>2. 1 \in DOMAIN inbox[h][j] /\ inbox[h][j][1] # "command"
    BY <1>2, <2>1, Queue DEF IInv
  <2>3. Server(h) \in Crashed
    BY <2>1, <2>2 DEF Sent
  <2> QED BY <2>1, <2>3 DEF Broken
<1> QED BY <1>1, <1>2

(* A thread that serves a leader: it reads what it was sent, and closes    *)
(* only when the leader has crashed.                                       *)
LEMMA ServeClimbs ==
    ASSUME IInv, Succession, Climbing, NEW h \in Lines, NEW j \in Servers, Serve(h, j)
    PROVE  Climbing'
<1> USE DEF IInv, Climbing
<1>1. /\ Running(j) /\ link[h][j] # "none" /\ UNCHANGED <<up, clients>>
      /\ Crashed' = Crashed
  BY DEF Serve, BackupLogsIn, BackupCommand, BackupCloses, BackupAbandons, BackupLosesLeader,
         Broken, Crashed
<1>2. ~leader[j]
  BY <1>1, LeaderServesNone
<1>3. \A q \in [Lines -> [Servers -> Seq(Messages)]] : \A m : Relayed(q, j, m) = q
  BY <1>2, NoRelay
<1>4. /\ inbox \in [Lines -> [Servers -> Seq(Messages)]]
      /\ [inbox EXCEPT ![h][j] = <<>>] \in [Lines -> [Servers -> Seq(Messages)]]
      /\ inbox[h][j] # <<>> =>
            [inbox EXCEPT ![h][j] = Tail(@)] \in [Lines -> [Servers -> Seq(Messages)]]
  <2>1. inbox \in [Lines -> [Servers -> Seq(Messages)]] /\ <<>> \in Seq(Messages)
    BY DEF TypeOK, Messages
  <2>2. inbox[h][j] # <<>> => Tail(inbox[h][j]) \in Seq(Messages)
    <3>1. inbox[h][j] \in Seq(Messages)
      BY <2>1
    <3> QED BY <3>1
  <2> QED BY <2>1, <2>2
<1>5. CASE BackupLogsIn(h, j) \/ BackupCommand(h, j)
  <2>1. /\ inbox[h][j] # <<>> /\ inbox' = [inbox EXCEPT ![h][j] = Tail(@)]
        /\ UNCHANGED election
        /\ \/ UNCHANGED link
           \/ link' = [link EXCEPT ![h][j] = "serving"]
    BY <1>3, <1>4, <1>5 DEF BackupLogsIn, BackupCommand
  <2>2. \A g \in Lines, k \in Servers :
           inbox'[g][k] = IF g = h /\ k = j THEN Tail(inbox[h][j]) ELSE inbox[g][k]
    BY <2>1 DEF TypeOK
  <2>3. \A g \in Lines, k \in Servers :
           link'[g][k] = link[g][k] \/ (g = h /\ k = j /\ link'[g][k] = "serving")
    <3>1. CASE UNCHANGED link
      BY <3>1
    <3>2. CASE link' = [link EXCEPT ![h][j] = "serving"]
      <4>1. \A g \in Lines, k \in Servers :
               link'[g][k] = IF g = h /\ k = j THEN "serving" ELSE link[g][k]
        BY <3>2 DEF TypeOK
      <4> QED BY <4>1
    <3> QED BY <2>1, <3>1, <3>2
  <2>4. LinksDown'
    BY <1>1, <2>3 DEF LinksDown
  <2>5. \A k \in Servers : Noticed(k)' = Noticed(k)
    BY <1>1, <2>3, Rows DEF Noticed, Crashed
  <2>6. ClosesCounted' /\ LeadersAtTop'
    BY <1>1, <2>1, <2>5 DEF ClosesCounted, LeadersAtTop, Started, election
  <2>7. Sent'
    <3>1. ASSUME NEW g \in Lines, NEW k \in Servers, Server(g) \notin Crashed,
                 \A c \in Clients : ~ (at[c] = Server(g) /\ phase[c] = "serving")
          PROVE  inbox'[g][k] = <<>> /\ link'[g][k] # "serving"
      <4>1. inbox[g][k] = <<>> /\ link[g][k] # "serving"
        BY <3>1 DEF Sent
      <4>2. ~ (g = h /\ k = j)
        BY <2>1, <4>1
      <4> QED BY <2>2, <2>3, <4>1, <4>2
    <3>2. ASSUME NEW g \in Lines, NEW k \in Servers, Server(g) \notin Crashed,
                 NEW n \in DOMAIN inbox'[g][k], n # 1 \/ link'[g][k] = "serving"
          PROVE  inbox'[g][k][n] = "command"
      <4>1. CASE g = h /\ k = j
        <5>1. inbox'[g][k] = Tail(inbox[h][j])
          BY <2>2, <4>1
        <5>2. n \in DOMAIN Tail(inbox[h][j])
          BY <3>2, <5>1
        <5>3. \A x \in DOMAIN Tail(inbox[h][j]) :
                 /\ x + 1 \in DOMAIN inbox[h][j] /\ x + 1 # 1
                 /\ Tail(inbox[h][j])[x] = inbox[h][j][x + 1]
          BY <2>1, Queue, Zenon
        <5>4. n + 1 \in DOMAIN inbox[h][j] /\ n + 1 # 1 /\ inbox'[g][k][n] = inbox[h][j][n + 1]
          BY <5>1, <5>2, <5>3, Zenon
        <5> QED BY <3>2, <4>1, <5>4 DEF Sent
      <4>2. CASE ~ (g = h /\ k = j)
        BY <2>2, <2>3, <3>2, <4>2 DEF Sent
      <4> QED BY <4>1, <4>2
    <3> QED BY <1>1, <3>1, <3>2 DEF Sent, clients
  <2> QED BY <2>4, <2>6, <2>7
<1>6. CASE BackupCloses(h, j) \/ BackupAbandons(h, j) \/ BackupLosesLeader(h, j)
  <2>1. h \in Broken(j)
    BY <1>6, EndsBroken DEF BackupCloses, BackupAbandons, BackupLosesLeader, Ends
  <2>2. /\ link' = [link EXCEPT ![h][j] = "none"]
        /\ UNCHANGED election \/ CloseConnection(j)
        /\ inbox' = inbox \/ inbox' = [inbox EXCEPT ![h][j] = <<>>]
    BY <1>2, <1>3, <1>4, <1>6 DEF BackupCloses, BackupAbandons, BackupLosesLeader
  <2>3. Server(h) = h /\ h \in Crashed
    BY <2>1, OneLine DEF Broken
  <2>4. LinksDown' /\ ClosesCounted' /\ LeadersAtTop'
    BY <1>1, <1>2, <2>2, <2>3, Noticing
  <2>5. \A g \in Lines, k \in Servers :
           g # h => inbox'[g][k] = inbox[g][k] /\ link'[g][k] = link[g][k]
    <3>1. \A g \in Lines : g # h => link'[g] = link[g]
      BY <2>2 DEF TypeOK
    <3>2. \A g \in Lines : g # h => inbox'[g] = inbox[g]
      BY <2>2 DEF TypeOK
    <3> QED BY <3>1, <3>2
  <2>6. Sent'
    BY <1>1, <2>3, <2>5, SentKept DEF clients
  <2> QED BY <2>4, <2>6
<1> QED BY <1>5, <1>6 DEF Serve

(* Two threads of server j notice two crashes: it moves up two places at   *)
(* most, and leads only when it has come to the first.                     *)
LEMMA RacingClosesClimbs ==
    ASSUME IInv, Succession, Climbing, NEW j \in Servers, RacingCloses(j) PROVE Climbing'
<1> USE DEF IInv, Climbing
<1>1. /\ Running(j) /\ UNCHANGED <<up, clients, events>>
      /\ Crashed' = Crashed /\ Crashed \subseteq Servers
      /\ \A k \in Servers : k # j => leader'[k] = leader[k]
  BY Race DEF Crashed
<1>2. PICK h, i \in Lines :
         /\ h # i /\ Ends(h, j) /\ Ends(i, j)
         /\ link' = [link EXCEPT ![h][j] = "none", ![i][j] = "none"]
         /\ inbox' = [inbox EXCEPT ![h][j] = <<>>, ![i][j] = <<>>]
  BY Race
<1>3. /\ h \in Crashed /\ i \in Crashed /\ link[h][j] # "none" /\ link[i][j] # "none"
      /\ Server(h) = h /\ Server(i) = i /\ h < j /\ i < j
  <2>1. h \in Broken(j) /\ i \in Broken(j)
    BY <1>2, EndsBroken
  <2>2. /\ Server(h) \in Crashed /\ Server(i) \in Crashed
        /\ link[h][j] # "none" /\ link[i][j] # "none"
    BY <2>1 DEF Broken
  <2>3. Server(h) = h /\ Server(i) = i
    BY <2>2, OneLine
  <2> QED BY <2>2, <2>3 DEF LinksDown
<1>4. PICK d, o \in 1 .. 2 :
         (leader'[j] => pos[j] - d <= 1) /\ pos' = [pos EXCEPT ![j] = @ - d]
  BY Race
<1>5. \A g \in Lines, k \in Servers :
         /\ link'[g][k] = IF k = j /\ g \in {h, i} THEN "none" ELSE link[g][k]
         /\ g \notin {h, i} => inbox'[g][k] = inbox[g][k]
  BY <1>2 DEF TypeOK
<1>6. /\ Noticed(j)' = Noticed(j) \cup {h, i} /\ h \notin Noticed(j) /\ i \notin Noticed(j)
      /\ \A k \in Servers : k # j => Noticed(k)' = Noticed(k)
  BY <1>1, <1>3, <1>5, Rows DEF Noticed
<1>7. /\ Cardinality(Noticed(j)') = Cardinality(Noticed(j)) + 2
      /\ Cardinality(Noticed(j)) \in Nat
  <2>1. IsFiniteSet(Noticed(j)) /\ Cardinality(Noticed(j)) \in Nat
    BY NoticedBefore, Before
  <2>2. /\ IsFiniteSet(Noticed(j) \cup {h})
        /\ Cardinality(Noticed(j) \cup {h}) = Cardinality(Noticed(j)) + 1
    BY <1>6, <2>1, FS_AddElement
  <2>3. Noticed(j)' = (Noticed(j) \cup {h}) \cup {i} /\ i \notin Noticed(j) \cup {h}
    BY <1>2, <1>6
  <2>4. Cardinality(Noticed(j)') = Cardinality(Noticed(j) \cup {h}) + 1
    BY <2>2, <2>3, FS_AddElement
  <2> QED BY <2>1, <2>2, <2>4
<1>8. pos'[j] = pos[j] - d /\ \A k \in Servers : k # j => pos'[k] = pos[k]
  BY <1>4 DEF TypeOK
<1>9. LinksDown'
  BY <1>5 DEF LinksDown
<1>10. LeadersAtTop'
  BY <1>1, <1>4, <1>8 DEF LeadersAtTop
<1>11. ClosesCounted'
  <2> SUFFICES ASSUME NEW k \in Servers, Started(k)
               PROVE  k - pos'[k] <= Cardinality(Noticed(k)')
    BY <1>1 DEF ClosesCounted, Started
  <2>1. CASE k = j
    <3>1. j - pos[j] <= Cardinality(Noticed(j)) /\ pos[j] \in Int /\ j \in Int
      BY <2>1 DEF ClosesCounted, TypeOK, Servers
    <3> QED BY <1>4, <1>7, <1>8, <2>1, <3>1
  <2>2. CASE k # j
    BY <1>6, <1>8, <2>2 DEF ClosesCounted
  <2> QED BY <2>1, <2>2
<1>12. Sent'
  <2>1. \A g \in Lines, k \in Servers : Server(g) \notin Crashed =>
           inbox'[g][k] = inbox[g][k] /\ (link'[g][k] = "serving" => link[g][k] = "serving")
    BY <1>3, <1>5
  <2> QED BY <1>1, <2>1, SentKept DEF clients
<1> QED BY <1>9, <1>10, <1>11, <1>12

(* A crash takes the connections to the server with it; those from it stay *)
(* for the other ends to notice.                                           *)
LEMMA CrashClimbs ==
    ASSUME IInv, Climbing, NEW i \in Servers, Crash(i) PROVE Climbing'
<1> USE DEF IInv, Climbing
<1>1. /\ up[i] \in {"starting", "running"} /\ up' = [up EXCEPT ![i] = "crashed"]
      /\ link' = [h \in Lines |-> [link[h] EXCEPT ![i] = "none"]]
      /\ inbox' = [h \in Lines |-> [inbox[h] EXCEPT ![i] = <<>>]]
      /\ at' = [c \in Clients |-> IF at[c] = i THEN Nowhere ELSE at[c]]
      /\ phase' = [c \in Clients |-> IF at[c] = i THEN "none" ELSE phase[c]]
      /\ UNCHANGED <<pos, offset, leader>>
  BY DEF Crash
<1>2. Crashed' = Crashed \cup {i} /\ Crashed \subseteq Servers /\ i \notin Crashed
  BY <1>1 DEF Crashed, TypeOK
<1>3. \A h \in Lines, k \in Servers :
         /\ link'[h][k] = IF k = i THEN "none" ELSE link[h][k]
         /\ inbox'[h][k] = IF k = i THEN <<>> ELSE inbox[h][k]
  BY <1>1 DEF TypeOK
<1>4. \A k \in Servers : Noticed(k) \subseteq Noticed(k)'
  BY <1>2, <1>3, Rows DEF Noticed
<1>5. LinksDown'
  BY <1>3 DEF LinksDown
<1>6. LeadersAtTop'
  BY <1>1 DEF LeadersAtTop
<1>7. ClosesCounted'
  <2> SUFFICES ASSUME NEW k \in Servers, Started(k)'
               PROVE  k - pos'[k] <= Cardinality(Noticed(k)')
    BY DEF ClosesCounted
  <2>1. Started(k)
    BY <1>1 DEF Started, TypeOK
  <2> QED BY <1>1, <1>4, <2>1, CountKept DEF ClosesCounted
<1>8. Sent'
  <2>1. ASSUME NEW h \in Lines, NEW k \in Servers, Server(h) \notin Crashed',
               \A c \in Clients : ~ (at'[c] = Server(h) /\ phase'[c] = "serving")
        PROVE  inbox'[h][k] = <<>> /\ link'[h][k] # "serving"
    <3>1. Server(h) # i /\ \A c \in Clients : ~ (at[c] = Server(h) /\ phase[c] = "serving")
      BY <1>1, <1>2, <2>1
    <3>2. inbox[h][k] = <<>> /\ link[h][k] # "serving"
      BY <1>2, <2>1, <3>1 DEF Sent
    <3> QED BY <1>3, <3>2
  <2>2. ASSUME NEW h \in Lines, NEW k \in Servers, Server(h) \notin Crashed',
               NEW n \in DOMAIN inbox'[h][k], n # 1 \/ link'[h][k] = "serving"
        PROVE  inbox'[h][k][n] = "command"
    <3>1. CASE k = i
      BY <1>3, <2>2, <3>1
    <3>2. CASE k # i
      BY <1>2, <1>3, <2>2, <3>2 DEF Sent
    <3> QED BY <3>1, <3>2
  <2> QED BY <2>1, <2>2 DEF Sent
<1> QED BY <1>5, <1>6, <1>7, <1>8
-----------------------------------------------------------------------------
LEMMA StepClimbs ==
    ASSUME IInv, Fresh, LeadersDial, OneAtATime, Succession, Succession', Climbing, [Next]_vars
    PROVE  Climbing'
<1>1. CASE UNCHANGED vars
  BY <1>1 DEF vars, Climbing, LinksDown, ClosesCounted, LeadersAtTop, Sent, Noticed, Started, Crashed
<1>2. CASE \E i \in Servers : Start(i) \/ Crash(i) \/ RacingCloses(i)
  BY <1>2, StartClimbs, CrashClimbs, RacingClosesClimbs
<1>3. CASE \E h \in Lines : Step(h)
  BY <1>3, DialNextClimbs, DialEndClimbs DEF Step
<1>4. CASE \E h \in Lines, j \in Servers : Serve(h, j)
  BY <1>4, ServeClimbs
<1>5. ASSUME NEW c \in Clients, ClientLeaves(c) PROVE FALSE
  BY <1>5 DEF ClientLeaves, Succession
<1>6. "many" \notin events
  BY DEF Succession
<1>7. CASE \E c \in Clients : ClientConnects(c) \/ ClientLogsIn(c) \/ ClientCommand(c)
  BY <1>6, <1>7, ClientConnectsClimbs, ClientReadsClimbs
<1> QED BY <1>1, <1>2, <1>3, <1>4, <1>5, <1>7 DEF Next

LEMMA InitClimbs == Init => LInv
<1> SUFFICES ASSUME Init PROVE LInv
  OBVIOUS
<1>1. IInv
  BY InitHolds
<1>2. Fresh /\ LeadersDial /\ LeadersAtTop /\ OneAtATime
  BY DEF Init, Fresh, LeadersDial, LeadersAtTop, OneAtATime, Servers
<1>3. LinksDown /\ ClosesCounted
  BY DEF Init, LinksDown, ClosesCounted, PerPair, Started
<1>4. Sent
  BY DEF Init, Sent, PerPair
<1> QED BY <1>1, <1>2, <1>3, <1>4 DEF LInv, Climbing

LEMMA StepLeads == ASSUME LInv, [Next]_vars PROVE LInv'
<1>1. IInv' /\ Fresh' /\ LeadersDial' /\ OneAtATime'
  BY NextKeeps, LeadersStay, StillOne DEF LInv
<1>2. Succession' => Climbing'
  BY SuccessionStays, StepClimbs DEF LInv
<1> QED BY <1>1, <1>2 DEF LInv

LEMMA LeadersInvariance == Safety => []LInv
<1>1. LInv /\ [Next]_vars => LInv'
  BY StepLeads
<1> QED BY <1>1, InitClimbs, PTL DEF Safety

(* While clients come one at a time and leaders crash when they like,      *)
(* nobody leads while a server before it is alive, in a list of any length.*)
THEOREM FirstLeads == Safety => []LeaderIsFirst
<1>1. LInv => LeaderIsFirst
  <2> SUFFICES ASSUME LInv, Succession, NEW i \in Servers, NEW j \in Servers,
                      leader[i], up[i] # "crashed", j < i
               PROVE  up[j] = "crashed"
    BY DEF LeaderIsFirst, Succession
  <2>1. IInv /\ Climbing /\ Started(i)
    BY DEF LInv, IInv, Fresh, Started, TypeOK
  <2>2. j \in Crashed
    BY <2>1, LeaderAlone
  <2> QED BY <2>2 DEF Crashed
<1> QED BY <1>1, LeadersInvariance, PTL
-----------------------------------------------------------------------------
(* As long as crashes wait until everybody has noticed the last: what a    *)
(* crashed server has sent is read.  Its clients and its thread are gone.  *)
NothingUnread ==
    \A h \in Lines, j \in Servers \ Crashed : Server(h) \in Crashed => inbox[h][j] = <<>>
ClientsAlive == \A c \in Clients : at[c] # Nowhere => at[c] \notin Crashed
DoneDialling == \A h \in Lines : Server(h) \in Crashed => dial[h] = 0

RInv == LInv /\ ClientsAlive /\ DoneDialling /\ ("busy" \notin events => NothingUnread)

(* Closes that do not race leave a server with one line.                   *)
LEMMA FirstLine ==
    ASSUME IInv, "busy" \notin events, NEW h \in Lines,
           dial[h] # 0 \/ \E j \in Servers : link[h][j] # "none"
    PROVE  h \in Servers /\ Server(h) = h
<1>1. h = Server(h) \/ h = N + Server(h)
  BY Rows
<1>2. Server(h) \in Servers
  BY Owner
<1>3. loops[Server(h)] = "one"
  BY <1>2 DEF IInv, SecondLines
<1>4. h # N + Server(h)
  BY <1>2, <1>3 DEF IInv, SecondLines
<1> QED BY <1>1, <1>2, <1>4

(* A server repeats nothing in another's name.                             *)
LEMMA RelayedElsewhere ==
    ASSUME NEW q, NEW i \in Servers, NEW m, NEW h \in Lines, NEW j \in Servers, Server(h) # i
    PROVE  Relayed(q, i, m)[h][j] = q[h][j]
BY DEF Relayed

(* What a thread of j that serves line h does while closes do not race: it *)
(* notices that the leader has crashed, or reads what the leader has sent. *)
LEMMA ServeKinds ==
    ASSUME RInv, "busy" \notin events, NEW h \in Lines, NEW j \in Servers, Serve(h, j)
    PROVE  /\ Running(j) /\ link[h][j] # "none" /\ h \in Servers
           /\ UNCHANGED <<up, clients, loops, events>>
           /\ \A g \in Lines, k \in Servers : ~ (g = h /\ k = j) => link'[g][k] = link[g][k]
           /\ inbox[h][j] # <<>> \/ h \in Crashed
           /\ \/ link'[h][j] # "none" /\ UNCHANGED election
              \/ link'[h][j] = "none" /\ CloseConnection(j)
           /\ \A g \in Lines, k \in Servers : Server(g) \in Crashed => inbox'[g][k] = inbox[g][k]
<1> USE DEF RInv, LInv, IInv
<1>1. /\ Running(j) /\ link[h][j] # "none" /\ UNCHANGED <<up, clients, loops, events>>
      /\ j \notin Crashed
  BY DEF Serve, BackupLogsIn, BackupCommand, BackupCloses, BackupAbandons, BackupLosesLeader,
         Broken, Crashed, Running
<1>2. h \in Servers /\ Server(h) = h
  BY <1>1, FirstLine
<1>3. h \in Crashed => inbox[h][j] = <<>>
  BY <1>1, <1>2 DEF NothingUnread
<1>4. ~BackupAbandons(h, j)
  BY <1>2, <1>3 DEF BackupAbandons, Broken
<1>5. /\ link' \in {link, [link EXCEPT ![h][j] = "serving"], [link EXCEPT ![h][j] = "none"]}
      /\ \/ link'[h][j] # "none" /\ UNCHANGED election
         \/ link'[h][j] = "none" /\ CloseConnection(j)
  BY <1>1, <1>4 DEF Serve, BackupLogsIn, BackupCommand, BackupCloses, BackupLosesLeader, TypeOK
<1>6. \A g \in Lines, k \in Servers : ~ (g = h /\ k = j) => link'[g][k] = link[g][k]
  BY <1>5 DEF TypeOK
<1>7. inbox[h][j] # <<>> \/ h \in Crashed
  BY <1>2, <1>4 DEF Serve, BackupLogsIn, BackupCommand, BackupCloses, BackupLosesLeader, Broken
<1>8. PICK q, m :
         /\ inbox' \in {inbox, Relayed(q, j, m)}
         /\ \/ q = inbox
            \/ inbox[h][j] # <<>> /\ \E s : q = [inbox EXCEPT ![h][j] = s]
  <2>1. CASE BackupLosesLeader(h, j)
    BY <2>1 DEF BackupLosesLeader
  <2>2. CASE BackupLogsIn(h, j) \/ BackupCommand(h, j) \/ BackupCloses(h, j)
    <3>1. /\ inbox[h][j] # <<>>
          /\ \E s, m : inbox' = Relayed([inbox EXCEPT ![h][j] = s], j, m)
      BY <2>2 DEF BackupLogsIn, BackupCommand, BackupCloses
    <3>2. PICK s, m : inbox' = Relayed([inbox EXCEPT ![h][j] = s], j, m)
      BY <3>1
    <3> QED BY <3>1, <3>2
  <2> QED BY <1>4, <2>1, <2>2 DEF Serve
<1>9. ASSUME NEW g \in Lines, NEW k \in Servers, Server(g) \in Crashed
      PROVE  inbox'[g][k] = inbox[g][k]
  <2>1. Server(g) # j
    BY <1>1, <1>9
  <2>2. q[g][k] = inbox[g][k]
    BY <1>2, <1>3, <1>8, <1>9 DEF TypeOK
  <2> QED BY <1>8, <2>1, <2>2, RelayedElsewhere
<1> QED BY <1>1, <1>2, <1>5, <1>6, <1>7, <1>9

LEMMA StepReads == ASSUME RInv, [Next]_vars PROVE RInv'
<1> USE DEF RInv, LInv, IInv
<1>1. LInv' /\ UNCHANGED events
  BY StepLeads, LeadersStay
<1>2. CASE UNCHANGED vars
  BY <1>1, <1>2 DEF vars, ClientsAlive, DoneDialling, NothingUnread, Crashed
<1>3. ASSUME NEW i \in Servers, Start(i) PROVE RInv'
  <2>1. Crashed' = Crashed /\ UNCHANGED <<links, clients>> /\ i \notin Crashed
    BY <1>3, Starting DEF Crashed, TypeOK
  <2>2. \A h \in Lines : h # i => dial'[h] = dial[h]
    BY <1>3, Starting
  <2>3. DoneDialling'
    BY <2>1, <2>2, Rows DEF DoneDialling
  <2> QED BY <1>1, <2>1, <2>3 DEF ClientsAlive, NothingUnread, links, clients
<1>4. ASSUME NEW i \in Servers, Crash(i) PROVE RInv'
  <2>1. /\ Crashed' = Crashed \cup {i} /\ i \notin Crashed /\ Crashed \subseteq Servers
        /\ Quiet \/ "busy" \in events
        /\ dial' = [dial EXCEPT ![i] = 0, ![N + i] = 0]
        /\ inbox' = [h \in Lines |-> [inbox[h] EXCEPT ![i] = <<>>]]
        /\ at' = [c \in Clients |-> IF at[c] = i THEN Nowhere ELSE at[c]]
    BY <1>4 DEF Crash, Crashed, TypeOK
  <2>2. DoneDialling'
    <3>1. \A h \in Lines : Server(h) = i => h = i \/ h = N + i
      BY Rows
    <3> QED BY <2>1, <3>1 DEF DoneDialling, TypeOK
  <2>3. ClientsAlive'
    BY <2>1 DEF ClientsAlive, Nowhere
  <2>4. "busy" \notin events => NothingUnread'
    <3> SUFFICES ASSUME Quiet, NEW h \in Lines, NEW j \in Servers \ Crashed'
                 PROVE  inbox'[h][j] = <<>>
      BY <2>1 DEF NothingUnread
    <3>1. j # i /\ j \in Servers \ Crashed
      BY <2>1
    <3>2. inbox[h][j] = <<>>
      BY <3>1 DEF Quiet
    <3> QED BY <2>1, <3>1, <3>2 DEF TypeOK
  <2> QED BY <1>1, <2>2, <2>3, <2>4
<1>5. ASSUME NEW j \in Servers, RacingCloses(j) PROVE RInv'
  <2>1. /\ "busy" \in events /\ UNCHANGED <<up, clients>> /\ j \notin Crashed
        /\ \A h \in Lines : dial'[h] = dial[h] \/ Server(h) = j
    BY <1>5, Race DEF Running, Crashed
  <2> QED BY <1>1, <2>1 DEF ClientsAlive, DoneDialling, Crashed, clients
<1>6. ASSUME NEW h \in Lines, DialNext(h) PROVE RInv'
  <2>1. /\ UNCHANGED <<up, inbox, clients>> /\ Server(h) \notin Crashed
        /\ \A g \in Lines : g # h => dial'[g] = dial[g]
    BY <1>6, Turn DEF Crashed
  <2> QED BY <1>1, <2>1 DEF ClientsAlive, DoneDialling, NothingUnread, Crashed, clients
<1>7. ASSUME NEW h \in Lines, DialEnd(h) PROVE RInv'
  <2>1. /\ Crashed' = Crashed /\ UNCHANGED <<inbox, clients>> /\ Server(h) \notin Crashed
        /\ \A g \in Lines : g # h => dial'[g] = dial[g]
    BY <1>7, Owner DEF DialEnd, Crashed, links, TypeOK
  <2> QED BY <1>1, <2>1 DEF ClientsAlive, DoneDialling, NothingUnread, clients
<1>8. ASSUME NEW h \in Lines, NEW j \in Servers, Serve(h, j) PROVE RInv'
  <2>1. UNCHANGED <<up, clients>> /\ Running(j) /\ (UNCHANGED election \/ CloseConnection(j))
    BY <1>8 DEF Serve, BackupLogsIn, BackupCommand, BackupCloses, BackupAbandons, BackupLosesLeader
  <2>2. Crashed' = Crashed /\ j \notin Crashed
    BY <2>1 DEF Crashed, Running
  <2>3. \A g \in Lines : Server(g) \in Crashed => dial'[g] = dial[g]
    BY <2>1, <2>2, Rows DEF election, CloseConnection, TypeOK
  <2>4. DoneDialling' /\ ClientsAlive'
    BY <2>1, <2>2, <2>3 DEF DoneDialling, ClientsAlive, clients
  <2>5. "busy" \notin events => NothingUnread'
    BY <1>8, <2>2, ServeKinds DEF NothingUnread
  <2> QED BY <1>1, <2>4, <2>5
<1>9. ASSUME NEW c \in Clients, ClientConnects(c) PROVE RInv'
  <2>1. PICK i \in Servers : Running(i) /\ at' = [at EXCEPT ![c] = i]
    BY <1>9 DEF ClientConnects
  <2>2. UNCHANGED <<up, election, links>> /\ Crashed' = Crashed
    BY <1>9 DEF ClientConnects, Crashed
  <2>3. ClientsAlive'
    BY <2>1, <2>2 DEF ClientsAlive, TypeOK, Running, Crashed
  <2> QED BY <1>1, <2>2, <2>3 DEF DoneDialling, NothingUnread, election, links
<1>10. ASSUME NEW c \in Clients, ClientLogsIn(c) \/ ClientCommand(c) \/ ClientLeaves(c) PROVE RInv'
  <2>1. /\ at[c] # Nowhere /\ UNCHANGED up /\ Crashed' = Crashed
        /\ UNCHANGED election \/ CloseConnection(at[c])
        /\ at' \in {at, [at EXCEPT ![c] = Nowhere]}
    BY <1>10 DEF ClientLogsIn, ClientCommand, ClientLeaves, Crashed, clients
  <2>2. at[c] \in Servers /\ at[c] \notin Crashed
    BY <2>1 DEF TypeOK, ClientsAlive
  <2>3. ClientsAlive'
    BY <2>1 DEF ClientsAlive, TypeOK
  <2>4. DoneDialling'
    <3>1. \A g \in Lines : g # at[c] => dial'[g] = dial[g]
      BY <2>1 DEF election, CloseConnection, TypeOK
    <3>2. Server(at[c]) = at[c]
      BY <2>2, Rows
    <3> QED BY <2>1, <2>2, <3>1, <3>2 DEF DoneDialling
  <2>5. PICK m : inbox' \in {inbox, Relayed(inbox, at[c], m)}
    BY <1>10 DEF ClientLogsIn, ClientCommand, ClientLeaves
  <2>6. \A h \in Lines, j \in Servers : Server(h) \in Crashed => inbox'[h][j] = inbox[h][j]
    BY <2>2, <2>5, RelayedElsewhere
  <2> QED BY <1>1, <2>1, <2>3, <2>4, <2>6 DEF NothingUnread
<1> QED BY <1>2, <1>3, <1>4, <1>5, <1>6, <1>7, <1>8, <1>9, <1>10 DEF Next, Step

LEMMA InitReads == Init => RInv
<1> SUFFICES ASSUME Init PROVE RInv
  OBVIOUS
<1>1. LInv /\ Crashed = {}
  BY InitClimbs DEF Init, Crashed
<1> QED BY <1>1 DEF RInv, ClientsAlive, DoneDialling, NothingUnread
-----------------------------------------------------------------------------
(* The scenarios in which the first server is started last, and leaders    *)
(* crash once everybody has started, dialled and noticed the last crash.   *)
Orderly == events \subseteq {"clients", "many", "logoff"}

(* Until everybody has been started nothing is sent, nobody has crashed,   *)
(* and nobody but the first leads.                                         *)
OthersUp == \A j \in Servers \ {1} : up[j] \in {"running", "crashed"}
Idle ==
    /\ Crashed = {} /\ \A c \in Clients : at[c] = Nowhere
    /\ \A h \in Lines, j \in Servers : inbox[h][j] = <<>>
    /\ \A i \in Servers : leader[i] => i = 1
StartOrder == (up[1] # "down" => OthersUp) /\ (Idle \/ up[1] # "down")

(* The leaders before j that have come past it in connectToServers and     *)
(* have no connection to it: it has lost them.                             *)
Lost(j) == {i \in Servers : i < j /\ leader[i] /\ (dial[i] = 0 \/ j < dial[i]) /\ link[i][j] = "none"}

(* Only leaders have crashed, and a server that does not lead has counted  *)
(* every leader it has lost, and is not at the top.                        *)
LeadersCrashed == \A i \in Crashed : leader[i]
LossesCounted ==
    \A j \in Servers \ Crashed : up[j] # "down" /\ ~leader[j] =>
        Cardinality(Lost(j)) <= offset[j] /\ pos[j] >= 2

Heirs == StartOrder /\ LeadersCrashed /\ LossesCounted

LEMMA FirstServer == 1 \in Servers
BY BoundsAssumption DEF Servers

LEMMA LostBefore ==
    \A j \in Servers : /\ Lost(j) \subseteq 1 .. j - 1 /\ IsFiniteSet(Lost(j))
                      /\ Cardinality(Lost(j)) \in Nat
<1> SUFFICES ASSUME NEW j \in Servers PROVE Lost(j) \subseteq 1 .. j - 1
  BY Before
<1> QED BY DEF Lost, Servers

(* A server that has lost nobody new still has its count.                  *)
LEMMA LossesKept ==
    ASSUME TypeOK, LossesCounted, NEW j \in Servers \ Crashed, up[j] # "down", ~leader[j],
           Lost(j)' \subseteq Lost(j), offset'[j] = offset[j], pos'[j] = pos[j]
    PROVE  Cardinality(Lost(j)') <= offset'[j] /\ pos'[j] >= 2
<1>1. Lost(j) \subseteq 1 .. j - 1 /\ Cardinality(Lost(j)) \in Nat
  BY LostBefore
<1>2. Cardinality(Lost(j)') <= Cardinality(Lost(j)) /\ Cardinality(Lost(j)') \in Nat
  BY <1>1, Before
<1>3. Cardinality(Lost(j)) <= offset[j] /\ pos[j] >= 2 /\ offset[j] \in Nat
  BY DEF LossesCounted, TypeOK
<1>4. Cardinality(Lost(j)') <= offset'[j]
  BY <1>1, <1>2, <1>3
<1> QED BY <1>3, <1>4

LEMMA OneMore ==
    ASSUME NEW S, NEW i, IsFiniteSet(S)
    PROVE  IsFiniteSet(S \cup {i}) /\ Cardinality(S \cup {i}) <= Cardinality(S) + 1
<1>1. Cardinality(S) \in Nat
  BY FS_CardinalityType
<1>2. CASE i \in S
  <2>1. S \cup {i} = S
    BY <1>2
  <2>2. IsFiniteSet(S \cup {i}) /\ Cardinality(S \cup {i}) = Cardinality(S)
    BY <2>1, Zenon
  <2> QED BY <1>1, <2>2
<1>3. CASE i \notin S
  BY <1>1, <1>3, FS_AddElement
<1> QED BY <1>2, <1>3

(* A server that closes one connection counts the leader it loses.         *)
LEMMA LossCounted ==
    ASSUME TypeOK, NEW j \in Servers, NEW i, Lost(j)' \subseteq Lost(j) \cup {i},
           Cardinality(Lost(j)) <= offset[j], offset'[j] = offset[j] + 1
    PROVE  Cardinality(Lost(j)') <= offset'[j]
<1>1. IsFiniteSet(Lost(j)) /\ Cardinality(Lost(j)) \in Nat /\ offset[j] \in Nat
  BY LostBefore DEF TypeOK
<1>2. IsFiniteSet(Lost(j) \cup {i}) /\ Cardinality(Lost(j) \cup {i}) <= Cardinality(Lost(j)) + 1
  BY <1>1, OneMore
<1>3. Cardinality(Lost(j) \cup {i}) \in Nat
  BY <1>2, FS_CardinalityType
<1>4. Cardinality(Lost(j)') <= Cardinality(Lost(j) \cup {i}) /\ Cardinality(Lost(j)') \in Nat
  BY <1>2, FS_Subset, FS_CardinalityType
<1> QED BY <1>1, <1>2, <1>3, <1>4

(* A thread of server j closes a connection, from i or of a client, or not.*)
LEMMA CloseHeirs ==
    ASSUME RInv, Orderly, Heirs, [Next]_vars, NEW j \in Servers \ Crashed, up[1] # "down",
           UNCHANGED <<up, events>>, UNCHANGED election \/ CloseConnection(j), NEW i,
           \A h \in Lines, k \in Servers : ~ (h = i /\ k = j) => link'[h][k] = link[h][k],
           link'[i][j] # "none" \/ UNCHANGED link \/ CloseConnection(j)
    PROVE  Heirs'
<1> USE DEF RInv, LInv, IInv, Heirs
<1>1. Crashed' = Crashed /\ StartOrder'
  BY FirstServer DEF Crashed, StartOrder, OthersUp, Idle
<1>2. LeadersCrashed'
  BY <1>1, LeadersStay DEF LeadersCrashed, Crashed
<1>3. CASE UNCHANGED election /\ ~ CloseConnection(j)
  <2> SUFFICES ASSUME NEW k \in Servers \ Crashed, up[k] # "down", ~leader[k]
               PROVE  Cardinality(Lost(k)') <= offset'[k] /\ pos'[k] >= 2
    BY <1>1, <1>2, <1>3 DEF LossesCounted, election
  <2>1. Lost(k)' \subseteq Lost(k)
    BY <1>3, Rows DEF Lost, election
  <2> QED BY <1>3, <2>1, LossesKept DEF election
<1>4. CASE CloseConnection(j) /\ leader[j]
  <2> SUFFICES ASSUME NEW k \in Servers \ Crashed, up[k] # "down", ~leader[k]
               PROVE  Cardinality(Lost(k)') <= offset'[k] /\ pos'[k] >= 2
    BY <1>1, <1>2, <1>4 DEF LossesCounted, election, CloseConnection
  <2>1. Lost(k)' \subseteq Lost(k) /\ UNCHANGED election
    BY <1>4, Rows DEF Lost, election, CloseConnection
  <2> QED BY <2>1, LossesKept DEF election
<1>5. CASE CloseConnection(j) /\ ~leader[j]
  <2>1. /\ pos'[j] = pos[j] - 1 /\ offset'[j] = offset[j] + 1
        /\ (leader'[j] <=> pos[j] = 2) /\ leader'[j] \in BOOLEAN
        /\ \A k \in Servers : k # j =>
              pos'[k] = pos[k] /\ offset'[k] = offset[k] /\ leader'[k] = leader[k]
        /\ dial'[j] = IF leader'[j] THEN 1 ELSE dial[j]
        /\ \A h \in Lines : h # j => dial'[h] = dial[h]
    BY <1>5, MovesUp
  <2>2. \A k \in Servers : j \notin Lost(k)'
    BY <2>1, <1>5 DEF Lost, Servers
  <2>3. \A k \in Servers : k # j => Lost(k)' \subseteq Lost(k)
    BY <2>1, <2>2, Rows DEF Lost
  <2>4. Lost(j)' \subseteq Lost(j) \cup {i}
    BY <2>1, <2>2, Rows DEF Lost
  <2> SUFFICES ASSUME NEW k \in Servers \ Crashed, up[k] # "down", ~leader'[k]
               PROVE  Cardinality(Lost(k)') <= offset'[k] /\ pos'[k] >= 2
    BY <1>1, <1>2 DEF LossesCounted
  <2>5. CASE k = j
    <3>1. Cardinality(Lost(j)) <= offset[j] /\ pos[j] >= 2 /\ pos[j] \in Int
      BY <1>5, <2>5 DEF LossesCounted, TypeOK
    <3>2. Cardinality(Lost(j)') <= offset'[j]
      BY <2>1, <2>4, <3>1, LossCounted
    <3>3. pos[j] # 2
      BY <2>1, <2>5
    <3> QED BY <2>1, <2>5, <3>1, <3>2, <3>3
  <2>6. CASE k # j
    BY <2>1, <2>3, <2>6, LossesKept
  <2> QED BY <2>5, <2>6
<1> QED BY <1>3, <1>4, <1>5

(* Before everybody is started no thread has anything to do.               *)
LEMMA IdleServes ==
    ASSUME RInv, Orderly, StartOrder, NEW h \in Lines, NEW j \in Servers, Serve(h, j)
    PROVE  up[1] # "down"
<1>1. "busy" \notin events
  BY DEF Orderly
<1>2. inbox[h][j] # <<>> \/ h \in Crashed
  BY <1>1, ServeKinds
<1> QED BY <1>2 DEF StartOrder, Idle

LEMMA StartHeirs ==
    ASSUME RInv, Orderly, Heirs, NEW i \in Servers, Start(i) PROVE Heirs'
<1> USE DEF RInv, LInv, IInv, Heirs
<1>1. /\ up[i] = "down" /\ up' = [up EXCEPT ![i] = "starting"]
      /\ pos' = [pos EXCEPT ![i] = i] /\ UNCHANGED <<offset, links, clients, events>>
      /\ \A j \in Servers : j # i => leader'[j] = leader[j]
      /\ leader'[i] \in BOOLEAN /\ (leader'[i] <=> i = 1)
      /\ dial'[i] = (IF leader'[i] THEN 1 ELSE N + 1)
      /\ \A h \in Lines : h # i => dial'[h] = dial[h]
  BY Starting DEF Orderly
<1>2. Crashed' = Crashed /\ ~leader[i]
  BY <1>1 DEF Crashed, Fresh, TypeOK
<1>3. i = 1 => OthersUp
  BY DEF Start, Orderly, OthersUp, Running
<1>4. StartOrder'
  <2>1. CASE i = 1
    BY <1>1, <1>3, <2>1, FirstServer DEF StartOrder, OthersUp, TypeOK
  <2>2. CASE i # 1
    <3>1. up[1] = "down" /\ Idle
      BY <1>1, <2>2 DEF StartOrder, OthersUp
    <3> QED BY <1>1, <1>2, <2>2, <3>1, FirstServer DEF StartOrder, Idle, links, clients, TypeOK
  <2> QED BY <2>1, <2>2
<1>5. LeadersCrashed'
  BY <1>1, <1>2 DEF LeadersCrashed, Crashed
<1>6. \A j \in Servers : Lost(j)' \subseteq Lost(j)
  <2>1. \A j \in Servers : i \notin Lost(j)'
    BY <1>1 DEF Lost, Servers
  <2> QED BY <1>1, <2>1, Rows DEF Lost, links
<1>7. ASSUME NEW j \in Servers \ Crashed, up'[j] # "down", ~leader'[j]
      PROVE  Cardinality(Lost(j)') <= offset'[j] /\ pos'[j] >= 2
  <2>1. CASE j # i
    BY <1>1, <1>6, <1>7, <2>1, LossesKept DEF TypeOK
  <2>2. CASE j = i
    <3>1. i # 1 /\ offset'[i] = 0 /\ pos'[i] = i
      BY <1>1, <1>7, <2>2 DEF NotYet, TypeOK
    <3>2. up[1] = "down" /\ Idle
      BY <1>1, <3>1 DEF StartOrder, OthersUp
    <3>3. Lost(i)' = {}
      <4>1. \A k \in Servers : ~leader[k]
        BY <3>2 DEF Idle, Fresh
      <4> QED BY <1>6, <4>1 DEF Lost
    <3> QED BY <2>2, <3>1, <3>3, FS_EmptySet DEF Servers
  <2> QED BY <2>1, <2>2
<1> QED BY <1>2, <1>4, <1>5, <1>7 DEF LossesCounted

(* A leader reaches whoever it comes to.                                   *)
LEMMA DialNextHeirs ==
    ASSUME RInv, Orderly, Heirs, NEW h \in Lines, DialNext(h) PROVE Heirs'
<1> USE DEF RInv, LInv, IInv, Heirs
<1>1. /\ up[Server(h)] \in {"starting", "running"} /\ dial[h] \in Servers
      /\ UNCHANGED <<up, pos, offset, leader, inbox, clients, events>>
      /\ \A g \in Lines : g # h => link'[g] = link[g] /\ dial'[g] = dial[g]
      /\ \A j \in Servers : link'[h][j] = "none" => link[h][j] = "none"
  BY Turn
<1>2. h \in Servers /\ Server(h) = h /\ leader[h]
  BY <1>1, FirstLine DEF Orderly, LeadersDial, Servers
<1>3. /\ dial'[h] = dial[h] + 1
      /\ Running(dial[h]) /\ dial[h] # h => link'[h][dial[h]] # "none"
  BY <1>1, <1>2, OwnTurn DEF Orderly, KnowsItself
<1>4. Crashed' = Crashed
  BY <1>1 DEF Crashed
<1>5. StartOrder' /\ LeadersCrashed'
  BY <1>1, <1>4 DEF StartOrder, OthersUp, Idle, LeadersCrashed, clients
<1>6. ASSUME NEW j \in Servers \ Crashed PROVE Lost(j)' \subseteq Lost(j)
  <2>1. h \in Lost(j)' => h \in Lost(j)
    <3> SUFFICES ASSUME h \in Lost(j)' PROVE h \in Lost(j)
      OBVIOUS
    <3>1. h < j /\ leader[h] /\ link'[h][j] = "none" /\ link[h][j] = "none" /\ j < dial'[h]
      BY <1>1, <1>2, <1>3 DEF Lost, Servers
    <3>2. j < dial[h] \/ j = dial[h]
      BY <1>1, <1>3, <3>1 DEF Servers
    <3>3. Running(j)
      <4>1. up[1] # "down"
        BY <1>1, <1>2 DEF StartOrder, Idle
      <4>2. j # 1
        BY <1>2, <3>1 DEF Servers
      <4> QED BY <4>1, <4>2 DEF StartOrder, OthersUp, Running, Crashed
    <3> QED BY <1>1, <1>2, <1>3, <3>1, <3>2, <3>3 DEF Lost
  <2>2. \A g \in Servers : g # h => (g \in Lost(j)' => g \in Lost(j))
    BY <1>1, Rows DEF Lost
  <2> QED BY <2>1, <2>2 DEF Lost
<1>7. ASSUME NEW j \in Servers \ Crashed, up[j] # "down", ~leader[j]
      PROVE  Cardinality(Lost(j)') <= offset'[j] /\ pos'[j] >= 2
  BY <1>1, <1>6, <1>7, LossesKept
<1> QED BY <1>1, <1>4, <1>5, <1>7 DEF LossesCounted

LEMMA DialEndHeirs ==
    ASSUME RInv, Orderly, Heirs, NEW h \in Lines, DialEnd(h) PROVE Heirs'
<1> USE DEF RInv, LInv, IInv, Heirs
<1>1. /\ up[Server(h)] \in {"starting", "running"} /\ dial[h] = N + 1
      /\ up' = [up EXCEPT ![Server(h)] = "running"] /\ dial' = [dial EXCEPT ![h] = 0]
      /\ UNCHANGED <<pos, offset, leader, links, clients, events>> /\ Server(h) \in Servers
  BY Owner DEF DialEnd
<1>2. Crashed' = Crashed /\ \A j \in Servers : up[j] # "down" <=> up'[j] # "down"
  BY <1>1 DEF Crashed, TypeOK
<1>3. StartOrder' /\ LeadersCrashed'
  BY <1>1, <1>2, FirstServer DEF StartOrder, OthersUp, Idle, LeadersCrashed, links, clients, TypeOK
<1>4. ASSUME NEW j \in Servers PROVE Lost(j)' \subseteq Lost(j)
  <2>1. j < N + 1
    BY BoundsAssumption DEF Servers
  <2> QED BY <1>1, <2>1, Rows DEF Lost, links, TypeOK
<1>5. ASSUME NEW j \in Servers \ Crashed, up[j] # "down", ~leader[j]
      PROVE  Cardinality(Lost(j)') <= offset'[j] /\ pos'[j] >= 2
  BY <1>1, <1>4, <1>5, LossesKept
<1> QED BY <1>1, <1>2, <1>3, <1>5 DEF LossesCounted

LEMMA ServeHeirs ==
    ASSUME RInv, Orderly, Heirs, [Next]_vars, NEW h \in Lines, NEW j \in Servers, Serve(h, j)
    PROVE  Heirs'
<1>1. /\ Running(j) /\ h \in Servers /\ UNCHANGED <<up, events>>
      /\ \A g \in Lines, k \in Servers : ~ (g = h /\ k = j) => link'[g][k] = link[g][k]
      /\ \/ link'[h][j] # "none" /\ UNCHANGED election
         \/ link'[h][j] = "none" /\ CloseConnection(j)
  BY ServeKinds DEF Orderly
<1>2. j \in Servers \ Crashed
  BY <1>1 DEF Running, Crashed
<1>3. up[1] # "down"
  BY IdleServes DEF Heirs
<1> QED BY <1>1, <1>2, <1>3, CloseHeirs

(* A client leaves: its server moves up and has lost nobody.               *)
LEMMA ClientHeirs ==
    ASSUME RInv, Orderly, Heirs, [Next]_vars, NEW c \in Clients,
           ClientLogsIn(c) \/ ClientCommand(c) \/ ClientLeaves(c)
    PROVE  Heirs'
<1>1. /\ at[c] # Nowhere /\ UNCHANGED <<up, link, events>>
      /\ UNCHANGED election \/ CloseConnection(at[c])
  BY DEF ClientLogsIn, ClientCommand, ClientLeaves
<1>2. at[c] \in Servers \ Crashed
  BY <1>1 DEF RInv, LInv, IInv, TypeOK, ClientsAlive
<1>3. up[1] # "down"
  BY <1>1 DEF Heirs, StartOrder, Idle
<1> QED BY <1>1, <1>2, <1>3, CloseHeirs

LEMMA ClientConnectsHeirs ==
    ASSUME RInv, Orderly, Heirs, NEW c \in Clients, ClientConnects(c) PROVE Heirs'
<1> USE DEF RInv, LInv, IInv, Heirs
<1>1. /\ UNCHANGED <<up, pos, offset, leader, dial, links, events>> /\ up[1] # "down"
  BY DEF ClientConnects, Orderly, election
<1>2. Crashed' = Crashed
  BY <1>1 DEF Crashed
<1>3. StartOrder' /\ LeadersCrashed'
  BY <1>1, <1>2 DEF StartOrder, OthersUp, LeadersCrashed
<1>4. ASSUME NEW j \in Servers \ Crashed, up[j] # "down", ~leader[j]
      PROVE  Cardinality(Lost(j)') <= offset'[j] /\ pos'[j] >= 2
  <2>1. Lost(j)' = Lost(j)
    BY <1>1 DEF Lost, links
  <2> QED BY <1>1, <1>4, <2>1, LossesKept
<1> QED BY <1>1, <1>2, <1>3, <1>4 DEF LossesCounted

(* A leader that crashes leaves its connections behind.                    *)
LEMMA CrashHeirs ==
    ASSUME RInv, Orderly, Heirs, NEW i \in Servers, Crash(i) PROVE Heirs'
<1> USE DEF RInv, LInv, IInv, Heirs
<1>1. /\ up[i] \in {"starting", "running"} /\ up' = [up EXCEPT ![i] = "crashed"]
      /\ leader[i] /\ Dialled
      /\ dial' = [dial EXCEPT ![i] = 0, ![N + i] = 0]
      /\ link' = [g \in Lines |-> [link[g] EXCEPT ![i] = "none"]]
      /\ UNCHANGED <<pos, offset, leader, events>>
  BY DEF Crash, Orderly
<1>2. Crashed' = Crashed \cup {i} /\ i \notin Crashed
  BY <1>1 DEF Crashed, TypeOK
<1>3. dial[i] = 0 /\ \A g \in Servers : dial'[g] = dial[g]
  <2>1. i \in Lines /\ Server(i) = i /\ N + i \notin Servers
    BY Rows
  <2>2. dial[i] = 0
    BY <1>1, <1>2, <2>1 DEF Dialled
  <2> QED BY <1>1, <2>1, <2>2, Rows DEF TypeOK
<1>4. StartOrder'
  <2>1. \A j \in Servers : up'[j] \in {"running", "crashed"}
    <3>1. \A j \in Servers : j \in Lines /\ Server(j) = j
      BY Rows
    <3> QED BY <1>1, <3>1 DEF Dialled, Running, Crashed, TypeOK
  <2> QED BY <2>1, FirstServer DEF StartOrder, OthersUp
<1>5. LeadersCrashed'
  BY <1>1, <1>2 DEF LeadersCrashed
<1>6. ASSUME NEW j \in Servers \ Crashed', up[j] # "down", ~leader[j]
      PROVE  Cardinality(Lost(j)') <= offset'[j] /\ pos'[j] >= 2
  <2>1. j # i /\ j \in Servers \ Crashed
    BY <1>2
  <2>2. \A g \in Servers : link'[g][j] = link[g][j]
    BY <1>1, <2>1, Rows DEF TypeOK
  <2>3. Lost(j)' \subseteq Lost(j)
    BY <1>1, <1>3, <2>2 DEF Lost
  <2> QED BY <1>1, <1>6, <2>1, <2>3, LossesKept
<1>7. \A j \in Servers \ Crashed' : up'[j] # "down" => up[j] # "down"
  BY <1>1
<1> QED BY <1>1, <1>4, <1>5, <1>6, <1>7 DEF LossesCounted

LEMMA StepHeirs == ASSUME RInv, Orderly, Heirs, [Next]_vars PROVE Heirs'
<1>1. CASE UNCHANGED vars
  BY <1>1 DEF vars, Heirs, StartOrder, OthersUp, Idle, LeadersCrashed, LossesCounted, Lost, Crashed
<1>2. ASSUME NEW j \in Servers, RacingCloses(j) PROVE FALSE
  BY <1>2 DEF RacingCloses, Orderly
<1>3. CASE \E i \in Servers : Start(i) \/ Crash(i)
  BY <1>3, StartHeirs, CrashHeirs
<1>4. CASE \E h \in Lines : Step(h)
  BY <1>4, DialNextHeirs, DialEndHeirs DEF Step
<1>5. CASE \E h \in Lines, j \in Servers : Serve(h, j)
  BY <1>5, ServeHeirs
<1>6. CASE \E c \in Clients : ClientConnects(c) \/ ClientLogsIn(c) \/ ClientCommand(c) \/ ClientLeaves(c)
  BY <1>6, ClientConnectsHeirs, ClientHeirs
<1> QED BY <1>1, <1>2, <1>3, <1>4, <1>5, <1>6 DEF Next

HInv == RInv /\ (Orderly => Heirs)

LEMMA HeirsInvariance == Safety => []HInv
<1>1. Init => HInv
  <2> SUFFICES ASSUME Init PROVE HInv
    OBVIOUS
  <2>1. RInv
    BY InitReads
  <2>2. Crashed = {} /\ \A i \in Servers : up[i] = "down" /\ ~leader[i]
    BY DEF Init, Crashed
  <2>3. Idle /\ up[1] = "down"
    BY <2>2, FirstServer DEF Init, Idle, PerPair
  <2> QED BY <2>1, <2>2, <2>3 DEF HInv, Heirs, StartOrder, LeadersCrashed, LossesCounted
<1>2. HInv /\ [Next]_vars => HInv'
  <2> SUFFICES ASSUME HInv, [Next]_vars, Orderly' PROVE Heirs'
    BY StepReads DEF HInv
  <2>1. Orderly
    BY LeadersStay DEF HInv, RInv, LInv, Orderly
  <2> QED BY <2>1, StepHeirs DEF HInv
<1> QED BY <1>1, <1>2, PTL DEF Safety

(* Whatever several clients do, the first server that is left leads once   *)
(* it has noticed the crashes of the leaders before it, in a list of any   *)
(* length: a close too many never keeps a server from the lead.            *)
THEOREM HeirsLead == Safety => []HeirLeads
<1>1. HInv => HeirLeads
  <2> SUFFICES ASSUME HInv, Orderly, NEW j \in Servers, Running(j),
                      \A i \in Servers : i < j => i \in Crashed, Broken(j) = {}, ~leader[j]
               PROVE  FALSE
    BY DEF HeirLeads, Orderly
  <2> USE DEF HInv, RInv, LInv, IInv
  <2>1. j \in Servers \ Crashed /\ up[j] # "down"
    BY DEF Running, Crashed
  <2>2. Cardinality(Lost(j)) <= offset[j] /\ pos[j] >= 2
    BY <2>1 DEF Heirs, LossesCounted
  <2>3. Lost(j) = 1 .. j - 1
    <3>1. ASSUME NEW i \in 1 .. j - 1 PROVE i \in Lost(j)
      <4>1. i \in Servers /\ i < j
        BY <3>1, BoundsAssumption DEF Servers
      <4>2. i \in Crashed /\ i \in Lines /\ Server(i) = i
        BY <4>1, Rows
      <4>3. leader[i] /\ dial[i] = 0
        BY <4>2 DEF Heirs, LeadersCrashed, DoneDialling
      <4>4. link[i][j] = "none"
        BY <4>2 DEF Broken
      <4> QED BY <4>1, <4>3, <4>4 DEF Lost
    <3> QED BY <3>1, LostBefore
  <2>4. Cardinality(Lost(j)) = j - 1
    BY <2>3, FS_Interval DEF Servers
  <2>5. pos[j] + offset[j] = j /\ pos[j] \in Int /\ offset[j] \in Int
    BY <2>1 DEF KnowsItself, Orderly, TypeOK
  <2> QED BY <2>2, <2>4, <2>5 DEF Servers
<1> QED BY <1>1, HeirsInvariance, PTL
-----------------------------------------------------------------------------
(* When nothing happens but settled leaders crashing: a server's offset is *)
(* what it has noticed, and a leader has dialled everybody it has come to. *)
OffsetIsNoticed == \A j \in Servers \ Crashed : ~leader[j] => offset[j] = Cardinality(Noticed(j))
AllDialled ==
    \A i, j \in Servers \ Crashed :
        leader[i] /\ i # j /\ (dial[i] = 0 \/ j < dial[i]) => link[i][j] # "none"

Counting == OffsetIsNoticed /\ AllDialled

Calm == events = {"clients"}

LEMMA CalmClimbs ==
    ASSUME HInv, Calm
    PROVE  Climbing /\ Succession /\ StartOrder /\ NothingUnread /\ "busy" \notin events
<1> USE DEF HInv, RInv, LInv, IInv
<1>1. \A i \in Servers : leader[i] => up[i] # "down"
  BY DEF Fresh
<1>2. LeadersKnowThemselves
  BY <1>1 DEF LeadersKnowThemselves, KnowsItself, Calm
<1>3. \A i \in Servers : loops[i] = "one"
  BY DEF SecondLines, Calm
<1>4. Succession
  BY <1>2, <1>3 DEF Succession, NoneStray, Calm, Crashed
<1> QED BY <1>4 DEF Calm, Orderly, Heirs

(* Whoever is left runs when a server leads.                               *)
LEMMA OthersRun ==
    ASSUME HInv, Calm, NEW i \in Servers, Started(i), leader[i],
           NEW j \in Servers \ Crashed, j # i
    PROVE  Running(j)
<1>1. Climbing /\ Succession /\ StartOrder
  BY CalmClimbs
<1>2. i # 1 => 1 < i
  BY DEF Servers
<1>3. i # 1 => 1 \in Crashed
  BY <1>1, <1>2, FirstServer, LeaderAlone DEF HInv, RInv, LInv
<1>4. j # 1 /\ up[1] # "down"
  BY <1>3 DEF Started, Crashed
<1> QED BY <1>1, <1>4 DEF StartOrder, OthersUp, Running, Crashed

LEMMA StartCounts ==
    ASSUME HInv, Calm, Counting, NEW i \in Servers, Start(i) PROVE Counting'
<1> USE DEF HInv, RInv, LInv, IInv, Counting
<1>1. /\ up[i] = "down" /\ ~leader[i] /\ up' = [up EXCEPT ![i] = "starting"]
      /\ UNCHANGED <<offset, links>> /\ \A j \in Servers : j # i => leader'[j] = leader[j]
      /\ dial'[i] = (IF leader'[i] THEN 1 ELSE N + 1)
      /\ \A h \in Lines : h # i => dial'[h] = dial[h]
  BY Starting DEF Fresh
<1>2. Crashed' = Crashed /\ \A j \in Servers : Noticed(j)' = Noticed(j)
  BY <1>1 DEF Crashed, Noticed, links, TypeOK
<1>3. OffsetIsNoticed'
  BY <1>1, <1>2 DEF OffsetIsNoticed, TypeOK
<1>4. AllDialled'
  <2> SUFFICES ASSUME NEW h \in Servers \ Crashed, NEW j \in Servers \ Crashed, leader'[h],
                      h # j, dial'[h] = 0 \/ j < dial'[h]
               PROVE  link[h][j] # "none"
    BY <1>1, <1>2 DEF AllDialled, links
  <2>1. h # i
    <3> SUFFICES ASSUME h = i PROVE FALSE
      OBVIOUS
    <3>1. dial'[h] = 1
      BY <1>1
    <3> QED BY <3>1 DEF Servers
  <2> QED BY <1>1, <2>1, Rows DEF AllDialled
<1> QED BY <1>3, <1>4

LEMMA DialNextCounts ==
    ASSUME HInv, Calm, Counting, NEW h \in Lines, DialNext(h) PROVE Counting'
<1> USE DEF HInv, RInv, LInv, IInv, Counting
<1>1. /\ Started(Server(h)) /\ dial[h] \in Servers
      /\ UNCHANGED <<up, pos, offset, leader, inbox, clients, events>>
      /\ \A g \in Lines : g # h => link'[g] = link[g] /\ dial'[g] = dial[g]
      /\ \A j \in Servers : link[h][j] # "none" => link'[h][j] # "none"
  BY Turn DEF Started
<1>2. h \in Servers /\ Server(h) = h /\ leader[h] /\ h \notin Crashed /\ Crashed' = Crashed
  BY <1>1, FirstLine DEF Calm, LeadersDial, Servers, Started, Crashed
<1>3. /\ dial'[h] = dial[h] + 1
      /\ Running(dial[h]) /\ dial[h] # h => link'[h][dial[h]] # "none"
  BY <1>1, <1>2, OwnTurn DEF Calm, KnowsItself, Started
<1>4. OffsetIsNoticed'
  <2>1. \A j \in Servers : Noticed(j)' = Noticed(j)
    BY <1>1, <1>2, Rows DEF Noticed, Crashed
  <2> QED BY <1>1, <1>2, <2>1 DEF OffsetIsNoticed
<1>5. AllDialled'
  <2> SUFFICES ASSUME NEW g \in Servers \ Crashed, NEW j \in Servers \ Crashed, leader[g],
                      g # j, dial'[g] = 0 \/ j < dial'[g]
               PROVE  link'[g][j] # "none"
    BY <1>1, <1>2 DEF AllDialled
  <2>1. CASE g # h
    BY <1>1, <2>1, Rows DEF AllDialled
  <2>2. CASE g = h
    <3>1. j < dial[h] \/ j = dial[h]
      BY <1>1, <1>3, <2>2 DEF Servers
    <3>2. CASE j < dial[h]
      BY <1>1, <2>2, <3>2 DEF AllDialled
    <3>3. CASE j = dial[h]
      <4>1. Running(j)
        BY <1>1, <1>2, <2>2, OthersRun
      <4> QED BY <1>3, <2>2, <3>3, <4>1
    <3> QED BY <3>1, <3>2, <3>3
  <2> QED BY <2>1, <2>2
<1> QED BY <1>4, <1>5

LEMMA DialEndCounts ==
    ASSUME HInv, Counting, NEW h \in Lines, DialEnd(h) PROVE Counting'
<1> USE DEF HInv, RInv, LInv, IInv, Counting
<1>1. /\ up[Server(h)] \in {"starting", "running"} /\ dial[h] = N + 1
      /\ up' = [up EXCEPT ![Server(h)] = "running"] /\ dial' = [dial EXCEPT ![h] = 0]
      /\ UNCHANGED <<pos, offset, leader, links>>
  BY DEF DialEnd
<1>2. Crashed' = Crashed /\ \A j \in Servers : Noticed(j)' = Noticed(j)
  BY <1>1 DEF Crashed, Noticed, links, TypeOK
<1>3. OffsetIsNoticed'
  BY <1>1, <1>2 DEF OffsetIsNoticed
<1>4. AllDialled'
  <2> SUFFICES ASSUME NEW g \in Servers \ Crashed, NEW j \in Servers \ Crashed, leader[g],
                      g # j, dial'[g] = 0 \/ j < dial'[g]
               PROVE  link[g][j] # "none"
    BY <1>1, <1>2 DEF AllDialled, links
  <2>1. j < N + 1
    BY BoundsAssumption DEF Servers
  <2> QED BY <1>1, <2>1, Rows DEF AllDialled, TypeOK
<1> QED BY <1>3, <1>4

(* The clients' steps.                                                     *)
LEMMA ClientCounts ==
    ASSUME Counting, NEW c \in Clients, ClientConnects(c) \/ ClientLogsIn(c) \/ ClientCommand(c)
    PROVE  Counting'
<1>1. /\ UNCHANGED <<up, election, link>> /\ Crashed' = Crashed
      /\ \A j \in Servers : Noticed(j)' = Noticed(j)
  BY DEF ClientConnects, ClientLogsIn, ClientCommand, links, Crashed, Noticed
<1> QED BY <1>1 DEF Counting, OffsetIsNoticed, AllDialled, election

(* A server that notices the crash of a settled leader counts it.          *)
LEMMA ServeCounts ==
    ASSUME HInv, Calm, Counting, NEW h \in Lines, NEW j \in Servers, Serve(h, j)
    PROVE  Counting'
<1> USE DEF HInv, RInv, LInv, IInv, Counting
<1>1. Climbing /\ Succession /\ NothingUnread /\ "busy" \notin events
  BY CalmClimbs
<1>2. /\ Running(j) /\ link[h][j] # "none" /\ h \in Servers /\ UNCHANGED up
      /\ \A g \in Lines, k \in Servers : ~ (g = h /\ k = j) => link'[g][k] = link[g][k]
      /\ \/ link'[h][j] # "none" /\ UNCHANGED election
         \/ link'[h][j] = "none" /\ CloseConnection(j)
  BY <1>1, ServeKinds
<1>3. Crashed' = Crashed /\ j \notin Crashed /\ ~leader[j]
  BY <1>1, <1>2, LeaderServesNone DEF Crashed, Running
<1>4. CASE link'[h][j] # "none"
  <2>1. UNCHANGED election /\ \A k \in Servers : Noticed(k)' = Noticed(k)
    BY <1>2, <1>3, <1>4, Rows DEF Noticed, Crashed
  <2>2. AllDialled'
    BY <1>2, <1>3, <1>4, <2>1, Rows DEF AllDialled, election
  <2> QED BY <1>3, <2>1, <2>2 DEF OffsetIsNoticed, election
<1>5. CASE link'[h][j] = "none"
  <2>1. h \in Crashed /\ h < j
    <3>1. Ends(h, j) \/ h \in Broken(j)
      <4>1. link' \in {link, [link EXCEPT ![h][j] = "serving"]} => link'[h][j] # "none"
        BY <1>2 DEF TypeOK
      <4> QED BY <1>5, <4>1
            DEF Serve, BackupLogsIn, BackupCommand, BackupCloses, BackupAbandons, BackupLosesLeader, Ends
    <3> QED BY <1>1, <1>2, <3>1, EndsBroken, OneLine DEF Broken, Climbing, LinksDown
  <2>2. /\ pos'[j] = pos[j] - 1 /\ offset'[j] = offset[j] + 1
        /\ \A k \in Servers : k # j => offset'[k] = offset[k] /\ leader'[k] = leader[k]
        /\ dial'[j] = IF leader'[j] THEN 1 ELSE dial[j]
        /\ \A g \in Lines : g # j => dial'[g] = dial[g]
    BY <1>2, <1>3, <1>5, MovesUp
  <2>3. /\ Noticed(j)' = Noticed(j) \cup {h} /\ h \notin Noticed(j)
        /\ \A k \in Servers : k # j => Noticed(k)' = Noticed(k)
    BY <1>2, <1>3, <1>5, <2>1, Rows DEF Noticed, Crashed
  <2>4. OffsetIsNoticed'
    <3>1. offset[j] = Cardinality(Noticed(j))
      BY <1>3 DEF OffsetIsNoticed
    <3>2. offset'[j] = Cardinality(Noticed(j)')
      BY <2>2, <2>3, <3>1, NoticedOneMore
    <3> QED BY <1>3, <2>2, <2>3, <3>2 DEF OffsetIsNoticed
  <2>5. AllDialled'
    <3> SUFFICES ASSUME NEW g \in Servers \ Crashed, NEW k \in Servers \ Crashed, leader'[g],
                        g # k, dial'[g] = 0 \/ k < dial'[g]
                 PROVE  link'[g][k] # "none"
      BY <1>3 DEF AllDialled
    <3>1. g # j
      BY <2>2 DEF Servers
    <3>2. link[g][k] # "none"
      BY <2>2, <3>1, Rows DEF AllDialled
    <3> QED BY <1>2, <2>1, <3>2, Rows
  <2> QED BY <2>4, <2>5
<1> QED BY <1>4, <1>5

(* A settled leader crashes: everybody that is left has a connection to    *)
(* notice it by.                                                           *)
LEMMA CrashCounts ==
    ASSUME HInv, Calm, Counting, NEW i \in Servers, Crash(i) PROVE Counting'
<1> USE DEF HInv, RInv, LInv, IInv, Counting
<1>1. /\ up[i] \in {"starting", "running"} /\ up' = [up EXCEPT ![i] = "crashed"]
      /\ leader[i] /\ Dialled
      /\ dial' = [dial EXCEPT ![i] = 0, ![N + i] = 0]
      /\ link' = [h \in Lines |-> [link[h] EXCEPT ![i] = "none"]]
      /\ UNCHANGED <<offset, leader>>
  BY DEF Crash, Calm
<1>2. Crashed' = Crashed \cup {i} /\ Crashed \subseteq Servers /\ i \notin Crashed
  BY <1>1 DEF Crashed, TypeOK
<1>3. \A g, k \in Servers : link'[g][k] = IF k = i THEN "none" ELSE link[g][k]
  BY <1>1, Rows DEF TypeOK
<1>4. dial[i] = 0 /\ \A g \in Servers : g # i => dial'[g] = dial[g]
  <2>1. i \in Lines /\ Server(i) = i /\ N + i \notin Servers
    BY Rows
  <2>2. dial[i] = 0
    BY <1>1, <1>2, <2>1 DEF Dialled
  <2> QED BY <1>1, <2>1, <2>2, Rows DEF TypeOK
<1>5. \A j \in Servers \ Crashed' : link'[i][j] # "none" /\ j # i /\ j \notin Crashed
  BY <1>1, <1>2, <1>3, <1>4 DEF AllDialled
<1>6. OffsetIsNoticed'
  <2>1. ASSUME NEW j \in Servers \ Crashed' PROVE Noticed(j)' = Noticed(j)
    BY <1>2, <1>3, <1>5 DEF Noticed
  <2> QED BY <1>1, <1>5, <2>1 DEF OffsetIsNoticed
<1>7. AllDialled'
  <2> SUFFICES ASSUME NEW g \in Servers \ Crashed', NEW j \in Servers \ Crashed', leader[g],
                      g # j, dial'[g] = 0 \/ j < dial'[g]
               PROVE  link'[g][j] # "none"
    BY <1>1 DEF AllDialled
  <2>1. g # i /\ g \notin Crashed /\ j # i /\ j \notin Crashed
    BY <1>5
  <2> QED BY <1>3, <1>4, <2>1 DEF AllDialled
<1> QED BY <1>6, <1>7
-----------------------------------------------------------------------------
LEMMA StepCounts ==
    ASSUME HInv, Calm, Counting, [Next]_vars PROVE Counting'
<1>1. CASE UNCHANGED vars
  BY <1>1 DEF vars, Counting, OffsetIsNoticed, AllDialled, Noticed, Crashed
<1>2. ASSUME NEW j \in Servers, RacingCloses(j) PROVE FALSE
  BY <1>2 DEF RacingCloses, Calm
<1>3. CASE \E i \in Servers : Start(i) \/ Crash(i)
  BY <1>3, StartCounts, CrashCounts
<1>4. CASE \E h \in Lines : Step(h)
  BY <1>4, DialNextCounts, DialEndCounts DEF Step
<1>5. CASE \E h \in Lines, j \in Servers : Serve(h, j)
  BY <1>5, ServeCounts
<1>6. ASSUME NEW c \in Clients, ClientLeaves(c) PROVE FALSE
  BY <1>6 DEF ClientLeaves, Calm
<1>7. CASE \E c \in Clients : ClientConnects(c) \/ ClientLogsIn(c) \/ ClientCommand(c)
  BY <1>7, ClientCounts
<1> QED BY <1>1, <1>2, <1>3, <1>4, <1>5, <1>6, <1>7 DEF Next

LEMMA InitCounts == Init => Counting
<1> SUFFICES ASSUME Init PROVE Counting
  OBVIOUS
<1>1. Crashed = {} /\ \A j \in Servers : Noticed(j) = {} /\ ~leader[j] /\ offset[j] = 0
  BY DEF Init, Crashed, Noticed
<1> QED BY <1>1, FS_EmptySet DEF Counting, OffsetIsNoticed, AllDialled

(* What a server has noticed and what it has yet to notice are the servers *)
(* before it that have crashed.                                            *)
LEMMA NoticedOrBroken ==
    ASSUME IInv, Succession, Climbing, NEW i \in Servers
    PROVE  Cardinality(Noticed(i)) + Cardinality(Broken(i)) = Cardinality({j \in Crashed : j < i})
<1>1. Broken(i) = {j \in Crashed : link[j][i] # "none"}
  BY OneLine, Rows DEF Broken, Crashed
<1>2. Broken(i) \subseteq 1 .. i - 1 /\ Noticed(i) \subseteq 1 .. i - 1
  BY <1>1, Rows DEF Noticed, Crashed, Servers, Climbing, LinksDown
<1>3. /\ {j \in Crashed : j < i} = Noticed(i) \cup Broken(i)
      /\ Noticed(i) \cap Broken(i) = {}
  BY <1>1, Rows DEF Noticed, Crashed, Climbing, LinksDown
<1>4. /\ IsFiniteSet(Noticed(i)) /\ IsFiniteSet(Broken(i))
      /\ Cardinality(Noticed(i)) \in Nat /\ Cardinality(Broken(i)) \in Nat
  BY <1>2, Before
<1>5. Cardinality(Noticed(i) \cup Broken(i)) =
         Cardinality(Noticed(i)) + Cardinality(Broken(i)) - Cardinality(Noticed(i) \cap Broken(i))
  BY <1>4, FS_Union
<1>6. Cardinality(Noticed(i) \cap Broken(i)) = 0
  BY <1>3, FS_EmptySet
<1>7. Cardinality({j \in Crashed : j < i}) = Cardinality(Noticed(i) \cup Broken(i))
  BY <1>3
<1> QED BY <1>4, <1>5, <1>6, <1>7

(* While clients come one at a time and stay, and leaders crash when the   *)
(* servers have settled, a server's offset is the number of servers before *)
(* it that are gone, but for those it has yet to notice, in a list of any  *)
(* length.                                                                 *)
THEOREM CrashesCounted == Safety => []OffsetCountsSettledCrashes
<1>1. Init => (Calm => Counting)
  BY InitCounts
<1>2. HInv /\ (Calm => Counting) /\ [Next]_vars => (Calm => Counting)'
  <2> SUFFICES ASSUME HInv, Calm => Counting, [Next]_vars, Calm' PROVE Counting'
    OBVIOUS
  <2>1. Calm
    BY LeadersStay DEF HInv, RInv, LInv, Calm
  <2> QED BY <2>1, StepCounts
<1>3. HInv /\ (Calm => Counting) => OffsetCountsSettledCrashes
  <2> SUFFICES ASSUME HInv, Calm, Counting, NEW i \in Servers, Running(i), ~leader[i]
               PROVE  offset[i] + Cardinality(Broken(i)) = Cardinality({j \in Crashed : j < i})
    BY DEF OffsetCountsSettledCrashes, OffsetCountsCrashes, Calm
  <2>1. offset[i] = Cardinality(Noticed(i))
    BY DEF Counting, OffsetIsNoticed, Running, Crashed
  <2>2. IInv /\ Succession /\ Climbing
    BY CalmClimbs DEF HInv, RInv, LInv
  <2> QED BY <2>1, <2>2, NoticedOrBroken
<1> QED BY <1>1, <1>2, <1>3, HeirsInvariance, PTL DEF Safety
===============================================================================
