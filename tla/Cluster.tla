------------------------------- MODULE Cluster -------------------------------
(***************************************************************************)
(* The servers of server_host_port.txt and the succession of the leader    *)
(* (Server/dropboxServer.cpp).  The first server of the list leads.  A     *)
(* leader dials every other server and, as if it were one client of        *)
(* theirs, repeats to them over that one connection what it reads from all *)
(* of its clients.  A server that is not the leader counts itself one      *)
(* place up whenever a connection of its own is closed, and leads when it  *)
(* reaches place 1.                                                        *)
(*                                                                         *)
(* What the messages do to the sessions and the files is in Sessions and   *)
(* FileTable; here they matter as far as they open and close connections.  *)
(***************************************************************************)
EXTENDS Integers, Sequences, FiniteSets

CONSTANTS
    N,            \* servers in the list, 4 in the repository's file
    Clients,      \* clients, each behind a proxy of its own
    MaxSessions,  \* bound: how often the clients connect
    MaxCrashes,   \* bound: how many servers crash
    MaxInbox,     \* bound: messages a leader runs ahead of a server
    Scenarios     \* sets of what may happen besides a settled leader crashing:
                  \* "clients" clients connect
                  \* "many"    clients are connected at the same time
                  \* "logoff"  clients leave
                  \* "backup"  servers that do not lead crash
                  \* "late"    the first server, or a client, does not wait for the others
                  \* "early"   servers crash before all have started and dialled
                  \* "busy"    servers crash before all have noticed the last crash,
                  \*           and closes race
                  \* "overlap" two threads are in connectToServers at the same time
                  \* "garbage" the uninitialised _myPosition happens to be 1

ASSUME BoundsAssumption ==
    /\ N \in Nat \ {0} /\ MaxSessions \in Nat \ {0} /\ MaxCrashes \in Nat /\ MaxInbox \in Nat \ {0}
    /\ Scenarios \subseteq SUBSET {"clients", "many", "logoff", "backup", "late", "early", "busy", "overlap", "garbage"}

Servers == 1 .. N
Nowhere == 0

(* The threads of servers that run connectToServers: line i is the first   *)
(* thread of server i, line N + i a second one that races it.              *)
Lines == 1 .. 2 * N
Server(h) == IF h <= N THEN h ELSE h - N
Racing(h) == IF h <= N THEN h + N ELSE h - N

VARIABLES
    up,        \* down, starting, running (in its accept loop) or crashed
    pos,       \* _myPosition
    offset,    \* _offset
    leader,    \* _imLeader
    dial,      \* the list position connectToServers has come to on a line, 0 outside it
    loops,     \* whether it has run once, twice, or twice with one iterator for both
    link,      \* link[h][j]: the thread of j that serves the connection of line h
    linked,    \* linked[h][j]: the entry of it in _sockets_list is marked 1
    inbox,     \* inbox[h][j]: what has been sent over it and j has not read
    at,        \* the server a client is connected to
    phase,     \* whether that server has read the client's user name
    sessions,  \* connections the clients have made
    events     \* the scenario, chosen at the start

election == <<pos, offset, leader, dial>>
links == <<link, linked, inbox>>
clients == <<at, phase, sessions>>
vars == <<up, pos, offset, leader, dial, loops, link, linked, inbox, at, phase, sessions, events>>

PerPair(v) == [h \in Lines |-> [j \in Servers |-> v]]

Init ==
    /\ up = [i \in Servers |-> "down"]
    /\ pos = [i \in Servers |-> 0]
    /\ offset = [i \in Servers |-> 0]
    /\ leader = [i \in Servers |-> FALSE]
    /\ dial = [h \in Lines |-> 0]
    /\ loops = [i \in Servers |-> "one"]
    /\ link = PerPair("none")
    /\ linked = PerPair(FALSE)
    /\ inbox = PerPair(<<>>)
    /\ at = [c \in Clients |-> Nowhere]
    /\ phase = [c \in Clients |-> "none"]
    /\ sessions = 0
    /\ events \in Scenarios

Running(i) == up[i] = "running"
Crashed == {i \in Servers : up[i] = "crashed"}
(* The connections from servers that have crashed that j still serves.     *)
Broken(j) == {h \in Lines : Server(h) \in Crashed /\ link[h][j] # "none"}
(* Every server that is left has started and dialled whom it is to dial.   *)
Dialled == \A h \in Lines : Server(h) \in Crashed \/ (Running(Server(h)) /\ dial[h] = 0)
(* Every server has read what it was sent and noticed the crashes so far.  *)
Quiet == \A j \in Servers \ Crashed : Broken(j) = {} /\ \A h \in Lines : inbox[h][j] = <<>>
-----------------------------------------------------------------------------
(* initialize: the place in the list, and the lead for the first.  The     *)
(* loop compares _myPosition with 1 before the server has found itself,    *)
(* so a later server leads too when the uninitialised member holds 1.      *)
Start(i) ==
    /\ up[i] = "down"
    /\ "late" \in events \/ i # 1 \/ \A j \in Servers \ {1} : Running(j)
    /\ up' = [up EXCEPT ![i] = "starting"]
    /\ pos' = [pos EXCEPT ![i] = i]
    /\ \E lead \in (IF "garbage" \in events THEN {i = 1, TRUE} ELSE {i = 1}) :
          leader' = [leader EXCEPT ![i] = lead]
    /\ dial' = [dial EXCEPT ![i] = IF leader'[i] THEN 1 ELSE N + 1]
    /\ UNCHANGED <<offset, links, clients, loops, events>>

(* connectToServers: one server after the other, oneself excepted.  A      *)
(* server answers from its first listen() on.  The loop walks the list     *)
(* with the member _it1 but counts with a variable of its own: once two    *)
(* threads are in it, a turn may come upon any server, and may be the last.*)
(* It is never more than one connection a line and server here; a walk past*)
(* the end of the list that does not end is a crash.                       *)
DialNext(h) ==
    LET i == Server(h)
        mixed == loops[i] = "mixed" \/ dial[Racing(h)] \in 2 .. N
    IN
    /\ up[i] \in {"starting", "running"} /\ dial[h] \in Servers
    /\ dial[Racing(h)] \in 2 .. N => "overlap" \in events
    /\ \E j \in (IF mixed THEN Servers ELSE {dial[h]}) :
          IF dial[h] # pos[i] + offset[i] /\ Running(j) /\ link[h][j] = "none"
          THEN /\ link' = [link EXCEPT ![h][j] = "login"]
               /\ linked' = [linked EXCEPT ![h][j] = TRUE]
          ELSE UNCHANGED <<link, linked>>
    /\ dial' \in {[dial EXCEPT ![h] = k] : k \in {dial[h] + 1} \cup (IF mixed THEN {N + 1} ELSE {})}
    /\ loops' = [loops EXCEPT ![i] = IF mixed THEN "mixed" ELSE @]
    /\ UNCHANGED <<up, pos, offset, leader, inbox, clients, events>>

(* connectToServers returns: mainServer enters its accept loop.            *)
DialEnd(h) ==
    /\ up[Server(h)] \in {"starting", "running"} /\ dial[h] = N + 1
    /\ up' = [up EXCEPT ![Server(h)] = "running"]
    /\ dial' = [dial EXCEPT ![h] = 0]
    /\ UNCHANGED <<pos, offset, leader, links, clients, loops, events>>
-----------------------------------------------------------------------------
(* Variants of CloseConnection: the offset goes down, the offset is        *)
(* forgotten, the place is compared before it is decremented, and place 2  *)
(* is good enough to lead.                                                 *)
CloseConnectionDown(j) ==
    IF leader[j]
    THEN UNCHANGED election
    ELSE /\ pos' = [pos EXCEPT ![j] = @ - 1]
         /\ offset' = [offset EXCEPT ![j] = @ - 1]
         /\ leader' = [leader EXCEPT ![j] = (pos[j] = 2)]
         /\ dial' = [dial EXCEPT ![j] = IF pos[j] = 2 THEN 1 ELSE @]

CloseConnectionNoOffset(j) ==
    IF leader[j]
    THEN UNCHANGED election
    ELSE /\ pos' = [pos EXCEPT ![j] = @ - 1]
         /\ leader' = [leader EXCEPT ![j] = (pos[j] = 2)]
         /\ dial' = [dial EXCEPT ![j] = IF pos[j] = 2 THEN 1 ELSE @]
         /\ UNCHANGED offset

CloseConnectionLate(j) ==
    IF leader[j]
    THEN UNCHANGED election
    ELSE /\ pos' = [pos EXCEPT ![j] = @ - 1]
         /\ offset' = [offset EXCEPT ![j] = @ + 1]
         /\ leader' = [leader EXCEPT ![j] = (pos[j] = 1)]
         /\ dial' = [dial EXCEPT ![j] = IF pos[j] = 1 THEN 1 ELSE @]

CloseConnectionEager(j) ==
    IF leader[j]
    THEN UNCHANGED election
    ELSE /\ pos' = [pos EXCEPT ![j] = @ - 1]
         /\ offset' = [offset EXCEPT ![j] = @ + 1]
         /\ leader' = [leader EXCEPT ![j] = (pos[j] <= 3)]
         /\ dial' = [dial EXCEPT ![j] = IF pos[j] <= 3 THEN 1 ELSE @]

(* closeConnection, elect_newLeader included: counts of a server that does *)
(* not lead change whoever was at the other end.                           *)
CloseConnection(j) ==
    IF leader[j]
    THEN UNCHANGED election
    ELSE /\ pos' = [pos EXCEPT ![j] = @ - 1]
         /\ offset' = [offset EXCEPT ![j] = @ + 1]
         /\ leader' = [leader EXCEPT ![j] = (pos[j] = 2)]
         /\ dial' = [dial EXCEPT ![j] = IF pos[j] = 2 THEN 1 ELSE @]

Alive(h, j) == link[h][j] # "none"

(* A leader repeats a message over the connections it believes in; one     *)
(* that the other side has closed is crossed out.                          *)
Relayed(q, i, m) ==
    [h \in Lines |-> [j \in Servers |->
        IF leader[i] /\ Server(h) = i /\ linked[h][j] /\ Alive(h, j)
        THEN Append(q[h][j], m) ELSE q[h][j]]]

LinkedAfterRelay(i) ==
    [h \in Lines |-> [j \in Servers |->
        linked[h][j] /\ (leader[i] /\ Server(h) = i => Alive(h, j))]]

RoomToRelay(i) ==
    leader[i] => \A h \in Lines, j \in Servers : Server(h) = i => Len(inbox[h][j]) < MaxInbox
-----------------------------------------------------------------------------
(* A proxy walks the list from the top: its client lands on the first      *)
(* server that answers.  Clients come when the first server has started,   *)
(* and one at a time, unless the scenario says otherwise.                  *)
ClientConnects(c) ==
    /\ at[c] = Nowhere /\ sessions < MaxSessions /\ "clients" \in events
    /\ "late" \in events \/ up[1] \in {"running", "crashed"}
    /\ "many" \in events \/ \A d \in Clients : at[d] = Nowhere
    /\ \E i \in Servers :
          /\ Running(i) /\ \A j \in Servers : j < i => ~Running(j)
          /\ at' = [at EXCEPT ![c] = i]
    /\ phase' = [phase EXCEPT ![c] = "login"]
    /\ sessions' = sessions + 1
    /\ UNCHANGED <<up, election, links, loops, events>>

(* The server reads the user name of a client.                             *)
ClientLogsIn(c) ==
    /\ at[c] # Nowhere /\ phase[c] = "login" /\ RoomToRelay(at[c])
    /\ inbox' = Relayed(inbox, at[c], "user")
    /\ linked' = LinkedAfterRelay(at[c])
    /\ phase' = [phase EXCEPT ![c] = "serving"]
    /\ UNCHANGED <<up, election, link, at, sessions, loops, events>>

(* The server reads a command.                                             *)
ClientCommand(c) ==
    /\ at[c] # Nowhere /\ phase[c] = "serving" /\ RoomToRelay(at[c])
    /\ inbox' = Relayed(inbox, at[c], "command")
    /\ linked' = LinkedAfterRelay(at[c])
    /\ UNCHANGED <<up, election, link, clients, loops, events>>

(* The client logs off, or its connection breaks: the server repeats the   *)
(* command, or the empty buffer of the failed read, and closes.  Before    *)
(* the user name it closes without a word.                                 *)
ClientLeaves(c) ==
    /\ "logoff" \in events
    /\ at[c] # Nowhere
    /\ \/ /\ phase[c] = "login"
          /\ UNCHANGED <<inbox, linked>>
       \/ /\ phase[c] = "serving" /\ RoomToRelay(at[c])
          /\ \E m \in {"end", "blank"} : inbox' = Relayed(inbox, at[c], m)
          /\ linked' = LinkedAfterRelay(at[c])
    /\ CloseConnection(at[c])
    /\ at' = [at EXCEPT ![c] = Nowhere]
    /\ phase' = [phase EXCEPT ![c] = "none"]
    /\ UNCHANGED <<up, link, sessions, loops, events>>
-----------------------------------------------------------------------------
(* The thread of j that serves line h reads its first message, whatever it *)
(* is, as a user name.                                                     *)
BackupLogsIn(h, j) ==
    /\ Running(j) /\ link[h][j] = "login" /\ inbox[h][j] # <<>> /\ RoomToRelay(j)
    /\ link' = [link EXCEPT ![h][j] = "serving"]
    /\ inbox' = Relayed([inbox EXCEPT ![h][j] = Tail(@)], j, Head(inbox[h][j]))
    /\ linked' = LinkedAfterRelay(j)
    /\ UNCHANGED <<up, election, clients, loops, events>>

(* It serves a command.                                                    *)
BackupCommand(h, j) ==
    /\ Running(j) /\ link[h][j] = "serving" /\ inbox[h][j] # <<>> /\ RoomToRelay(j)
    /\ Head(inbox[h][j]) = "command"
    /\ inbox' = Relayed([inbox EXCEPT ![h][j] = Tail(@)], j, "command")
    /\ linked' = LinkedAfterRelay(j)
    /\ UNCHANGED <<up, election, link, clients, loops, events>>

(* END_CONNECTION of any client, and the name of a second user or an empty *)
(* buffer, which atoi() makes 0 of, close the one connection.              *)
BackupCloses(h, j) ==
    /\ Running(j) /\ link[h][j] = "serving" /\ inbox[h][j] # <<>> /\ RoomToRelay(j)
    /\ Head(inbox[h][j]) # "command"
    /\ inbox' = Relayed([inbox EXCEPT ![h][j] = <<>>], j, Head(inbox[h][j]))
    /\ linked' = LinkedAfterRelay(j)
    /\ link' = [link EXCEPT ![h][j] = "none"]
    /\ CloseConnection(j)
    /\ UNCHANGED <<up, clients, loops, events>>

(* A name or an empty buffer is answered, and the answer cannot be sent    *)
(* once the leader has crashed: the thread returns without closing.        *)
BackupAbandons(h, j) ==
    /\ Running(j) /\ h \in Broken(j) /\ inbox[h][j] # <<>> /\ RoomToRelay(j)
    /\ link[h][j] = "login" \/ Head(inbox[h][j]) \in {"user", "blank"}
    /\ inbox' = Relayed([inbox EXCEPT ![h][j] = <<>>], j, Head(inbox[h][j]))
    /\ linked' = LinkedAfterRelay(j)
    /\ link' = [link EXCEPT ![h][j] = "none"]
    /\ UNCHANGED <<up, election, clients, loops, events>>

(* Variant of BackupLosesLeader: the thread ends without closing.          *)
BackupLosesLeaderQuietly(h, j) ==
    /\ Running(j) /\ h \in Broken(j) /\ inbox[h][j] = <<>>
    /\ link' = [link EXCEPT ![h][j] = "none"]
    /\ UNCHANGED <<up, election, linked, inbox, clients, loops, events>>

(* The thread reads the end of a connection whose other end has crashed.   *)
(* Past the login it repeats its empty buffer first.                       *)
BackupLosesLeader(h, j) ==
    /\ Running(j) /\ h \in Broken(j) /\ inbox[h][j] = <<>> /\ RoomToRelay(j)
    /\ IF link[h][j] = "login"
       THEN UNCHANGED <<inbox, linked>>
       ELSE /\ inbox' = Relayed(inbox, j, "blank")
            /\ linked' = LinkedAfterRelay(j)
    /\ link' = [link EXCEPT ![h][j] = "none"]
    /\ CloseConnection(j)
    /\ UNCHANGED <<up, clients, loops, events>>

(* The thread of j that serves line h is about to close.                   *)
Ends(h, j) ==
    IF inbox[h][j] = <<>> THEN h \in Broken(j)
    ELSE link[h][j] = "serving" /\ Head(inbox[h][j]) # "command"

(* Two threads of one server close at once.  closeConnection holds no      *)
(* mutex: each of its two updates may lose one of two steps, and place 1   *)
(* may be passed before either thread compares.  When one of them sets     *)
(* _imLeader the other may find it set, and both run connectToServers.     *)
RacingCloses(j) ==
    /\ "busy" \in events
    /\ Running(j) /\ ~leader[j]
    /\ \E h, k \in Lines :
          /\ h < k /\ Ends(h, j) /\ Ends(k, j)
          /\ link' = [link EXCEPT ![h][j] = "none", ![k][j] = "none"]
          /\ inbox' = [inbox EXCEPT ![h][j] = <<>>, ![k][j] = <<>>]
    /\ \E d, o \in 1 .. 2, lead, both \in BOOLEAN :
          /\ pos[j] - d = 1 => lead
          /\ lead => 1 \in {pos[j] - 1, pos[j] - d}
          /\ both => lead
          /\ pos' = [pos EXCEPT ![j] = @ - d]
          /\ offset' = [offset EXCEPT ![j] = @ + o]
          /\ leader' = [leader EXCEPT ![j] = lead]
          /\ dial' = [dial EXCEPT ![j] = IF lead THEN 1 ELSE @, ![N + j] = IF both THEN 1 ELSE @]
          /\ loops' = [loops EXCEPT ![j] = IF both THEN "two" ELSE @]
    /\ UNCHANGED <<up, linked, clients, events>>

(* A server crashes.  Unless the scenario says otherwise it is the leader, *)
(* and at a moment when the servers have settled.                          *)
Crash(i) ==
    /\ up[i] \in {"starting", "running"}
    /\ Cardinality(Crashed) < MaxCrashes
    /\ leader[i] \/ "backup" \in events
    /\ Dialled \/ "early" \in events
    /\ Quiet \/ "busy" \in events
    /\ up' = [up EXCEPT ![i] = "crashed"]
    /\ dial' = [dial EXCEPT ![i] = 0, ![N + i] = 0]
    /\ link' = [h \in Lines |-> [link[h] EXCEPT ![i] = "none"]]
    /\ inbox' = [h \in Lines |-> [inbox[h] EXCEPT ![i] = <<>>]]
    /\ at' = [c \in Clients |-> IF at[c] = i THEN Nowhere ELSE at[c]]
    /\ phase' = [c \in Clients |-> IF at[c] = i THEN "none" ELSE phase[c]]
    /\ UNCHANGED <<pos, offset, leader, linked, sessions, loops, events>>
-----------------------------------------------------------------------------
Step(h) == DialNext(h) \/ DialEnd(h)
Serve(h, j) ==
    \/ BackupLogsIn(h, j) \/ BackupCommand(h, j) \/ BackupCloses(h, j)
    \/ BackupAbandons(h, j) \/ BackupLosesLeader(h, j)

Next ==
    \/ \E i \in Servers : Start(i) \/ Crash(i) \/ RacingCloses(i)
    \/ \E h \in Lines : Step(h)
    \/ \E h \in Lines, j \in Servers : Serve(h, j)
    \/ \E c \in Clients : ClientConnects(c) \/ ClientLogsIn(c) \/ ClientCommand(c) \/ ClientLeaves(c)

(* Servers are started, some thread of a server that has something to read *)
(* runs, and dialling ends.  Nothing is assumed of clients or of crashes.  *)
Fairness == \A i \in Servers :
    /\ WF_vars(Start(i))
    /\ WF_vars(\E h \in {i, N + i} : Step(h))
    /\ WF_vars(\E h \in Lines : Serve(h, i))

Safety == Init /\ [][Next]_vars
Spec == Safety /\ Fairness
-----------------------------------------------------------------------------
(* The variables keep their types.                                         *)
TypeOK ==
    /\ up \in [Servers -> {"down", "starting", "running", "crashed"}]
    /\ pos \in [Servers -> Int] /\ offset \in [Servers -> Nat]
    /\ leader \in [Servers -> BOOLEAN]
    /\ dial \in [Lines -> 0 .. N + 1]
    /\ loops \in [Servers -> {"one", "two", "mixed"}]
    /\ link \in [Lines -> [Servers -> {"none", "login", "serving"}]]
    /\ linked \in [Lines -> [Servers -> BOOLEAN]]
    /\ inbox \in [Lines -> [Servers -> Seq({"user", "command", "end", "blank"})]]
    /\ at \in [Clients -> {Nowhere} \cup Servers]
    /\ phase \in [Clients -> {"none", "login", "serving"}]
    /\ sessions \in 0 .. MaxSessions
    /\ events \in Scenarios

(* A leader leaves out of connectToServers the server it takes for itself. *)
LeadersKnowThemselves == \A i \in Servers : leader[i] => pos[i] + offset[i] = i

(* What LeaderIsFirst leaves out.  A leader which has lost a step of       *)
(* _offset to a race dials itself, repeats to itself what it reads, and so *)
(* closes its own connections; one that has dialled twice is counted twice *)
(* when it crashes.                                                        *)
NoneStray == LeadersKnowThemselves /\ \A i \in Crashed : loops[i] = "one"

(* As long as clients are connected one at a time and do not log off, a    *)
(* server leads only when every server before it in the list is gone,      *)
(* though leaders crash at any moment, before and while they dial, and     *)
(* closes race.  With a second client there may be two leaders, see        *)
(* HeirLeads.                                                              *)
LeaderIsFirst ==
    events \subseteq {"clients", "busy", "late", "early"} /\ NoneStray =>
        \A i, j \in Servers : leader[i] /\ up[i] # "crashed" /\ j < i => up[j] = "crashed"

(* Whatever several clients do, the name of a second user and every log off*)
(* closing the connections of a leader that is alive: a server may come to *)
(* lead too early but never too late.  The first server that is left leads *)
(* as soon as it has noticed the crashes of the leaders before it.         *)
HeirLeads ==
    events \subseteq {"clients", "many", "logoff"} =>
        \A j \in Servers : Running(j) /\ (\A i \in Servers : i < j => i \in Crashed) /\ Broken(j) = {}
            => leader[j]

(* "offset na lista de servidores (aumenta quando outros desconectam)": a  *)
(* server's _offset is the number of servers before it that are gone, but  *)
(* for those it has yet to notice.                                         *)
OffsetCountsCrashes ==
    \A i \in Servers : Running(i) /\ ~leader[i] =>
        offset[i] + Cardinality(Broken(i)) = Cardinality({j \in Crashed : j < i})

(* So it is as long as nothing happens but settled leaders crashing.       *)
OffsetCountsSettledCrashes == events = {"clients"} => OffsetCountsCrashes

(* _myPosition and _offset, which connectToServers adds to find the server *)
(* itself in the list, still add up to its line after all the closes, made *)
(* one at a time: a leader never dials itself and never leaves out another *)
(* server.                                                                 *)
KnowsItself ==
    "busy" \notin events => \A i \in Servers : up[i] # "down" => pos[i] + offset[i] = i

(* When a leader has crashed and a server is left, one comes to lead.      *)
LeaderReplaced ==
    events = {"clients"} /\ (\E i \in Servers : up[i] = "crashed") /\ (\E i \in Servers : Running(i))
        ~> (\E i \in Servers : Running(i) /\ leader[i])
=============================================================================
