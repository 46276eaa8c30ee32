------------------------------- MODULE Protocol -------------------------------
(***************************************************************************)
(* The exchange of messages of one session: a client, the leader that      *)
(* serves it, and the other servers, to which the leader repeats what it   *)
(* hears from the client and from which it collects what they would have   *)
(* answered (Client/dropboxClient.cpp, Server/dropboxServer.cpp).          *)
(*                                                                         *)
(* A process is what is left of the functions it is in: a sequence of      *)
(* steps, each of which writes a message or waits for one of a certain     *)
(* kind.  Every message fills a buffer of CP_MAX_MSG_SIZE bytes, so one    *)
(* read takes one message.                                                 *)
(***************************************************************************)
EXTENDS Integers, FiniteSets, SequencesExt

CONSTANTS
    Files,     \* names of files
    Contents,  \* what files contain
    Versions,  \* Versions[f]: the contents f may have
    Size,      \* bytes of a content
    Part,      \* CP_MAX_MSG_SIZE, the bytes one message carries
    None,      \* no file, no content
    Leader,    \* the server of the client
    Backups,   \* the other servers in the order of _sockets_list
    Commands,  \* what the client asks for after it has logged in
    Crashes    \* whether the other servers crash

ASSUME ProtocolAssumption ==
    /\ Part \in Nat \ {0} /\ Size \in [Contents -> Nat]
    /\ Versions \in [Files -> SUBSET Contents]
    /\ None \notin Files \cup Contents /\ IsFiniteSet(Files)
    /\ Backups \in Seq(Range(Backups)) /\ IsInjective(Backups) /\ Leader \notin Range(Backups)
    /\ Commands \subseteq {"upload", "download", "sync", "list", "delete", "lock", "unlock", "exit"}

VARIABLES
    plan,     \* what the client is still to do for its command
    todo,     \* todo[s]: the same for the thread of server s
    down,     \* down[s]: messages under way to s, from the client or the leader
    up,       \* up[s]: messages under way from s, to the client or the leader
    disk,     \* disk[s][f]: the copy of f in the directory of the user
    recs,     \* recs[s]: the names in file_info
    local,    \* local[f]: the copy in the sync_dir of the client
    fetched,  \* the copy that get_file is writing
    seen,     \* serverFiles of sync_client
    sent,     \* sent[f]: what the last upload of f that has returned sent
    alive,    \* the other servers that run
    linked,   \* those that the leader has not crossed out
    killed    \* the leader has been killed by SIGPIPE

client == <<plan, local, fetched, seen, sent>>
server == <<todo, disk, recs>>
links == <<alive, linked, killed>>
vars == <<plan, todo, down, up, disk, recs, local, fetched, seen, sent, alive, linked, killed>>

BackupSet == {Backups[k] : k \in DOMAIN Backups}
Servers == {Leader} \cup BackupSet

(* A copy of a file: the first len bytes of a content.                     *)
Missing == [of |-> None, len |-> -1]
Copy(c, n) == [of |-> IF n = 0 THEN None ELSE c, len |-> n]
Whole(c) == Copy(c, Size[c])
Copies(f) == {Missing} \cup {Whole(c) : c \in Versions[f]}
Directories == {d \in [Files -> UNION {Copies(f) : f \in Files}] : \A f \in Files : d[f] \in Copies(f)}
Present(copies) == {f \in Files : copies[f] # Missing}

Msg(k, x) == [kind |-> k, arg |-> x]
Step(d, k, x) == [do |-> d, kind |-> k, arg |-> x]
Tell(k, x) == Step("tell", k, x)
Hear(k, x) == Step("hear", k, x)
Say(k) == Tell(k, None)
Ack(k) == Hear(k, None)

(* n copies of a sequence of steps.                                        *)
Times(n, steps) == FlattenSeq([k \in 1 .. n |-> steps])

(* Variant of Iterations: the last part is forgotten when it is not full.  *)
IterationsDown(n) == n \div Part

(* Both ends count the parts of a file of n bytes, and the bytes of part k.*)
Iterations(n) == IF n % Part > 0 THEN n \div Part + 1 ELSE n \div Part
PartSize(n, k) == IF n - (k - 1) * Part > Part THEN Part ELSE n - (k - 1) * Part

Parts(n, OnePart(_)) == FlattenSeq([k \in 1 .. Iterations(n) |-> OnePart(PartSize(n, k))])
-----------------------------------------------------------------------------
(* What the client says and waits for, function by function.               *)
SendFile(f, copy) ==
    LET OnePart(n) == <<Tell("part", Copy(copy.of, n)), Ack("PART_RECEIVED")>> IN
    <<Say("SEND_FILE"), Ack("SEND_FILE_ACK"),
      Tell("name", f), Tell("size", copy.len), Ack("SIZE_ACK")>>
    \o Parts(copy.len, OnePart)
    \o <<Say("COMPLETE"), Hear("COMPLETE_ACK", <<f, copy>>), Tell("mtime", f)>>

GetFile(f, place) ==
    <<Say("GET_FILE"), Ack("GET_FILE_ACK"), Tell("name", f),
      Hear("EXISTS", <<f, place>>)>>

SyncClient == <<Say("SYNC"), Hear("number", "sync")>>
ListServerCommand == <<Say("LIST"), Ack("LIST_ACK"), Hear("number", "list")>>
DeleteFile(f) == <<Say("DELETE"), Ack("DELETE_ACK"), Tell("name", f)>>
LockFile(f) == <<Say("LOCK"), Ack("LOCK_ACK"), Tell("name", f), Ack("answer")>>
UnlockFile(f) == <<Say("UNLOCK"), Ack("UNLOCK_ACK"), Tell("name", f), Ack("answer")>>
CloseConnection == <<Say("END"), Step("gone", "END", None)>>

(* What a server does with a command, up to the name of the file where     *)
(* there is one.  Names are sent by the client, so the same script serves  *)
(* the answers it gives to sync_server.                                    *)
ListedFile == <<Say("entry"), Ack("FILENAME_ACK"),
                Say("info"), Ack("FILE_OK")>>
SyncedFile(f) == <<Tell("record", f), Ack("GET_FILE_ACK"),
                   Tell("mtime", f), Ack("answer")>>
SyncServer(r) ==
    <<Tell("number", Len(r)), Ack("NUMBER_ACK")>>
    \o FlattenSeq([k \in DOMAIN r |-> SyncedFile(r[k])])

Handler(r, k) ==
    CASE k = "SEND_FILE" -> <<Say("SEND_FILE_ACK"), Hear("name", k)>>
      [] k = "GET_FILE"  -> <<Say("GET_FILE_ACK"), Hear("name", k)>>
      [] k = "DELETE"    -> <<Say("DELETE_ACK"), Hear("name", k)>>
      [] k = "LOCK"      -> <<Say("LOCK_ACK"), Hear("name", k)>>
      [] k = "UNLOCK"    -> <<Say("UNLOCK_ACK"), Hear("name", k)>>
      [] k = "SYNC"      -> SyncServer(r)
      [] k = "LIST"      -> <<Say("LIST_ACK"), Tell("number", Len(r))>>
                            \o Times(Len(r), ListedFile)
      [] k = "SYNC_OK"   -> <<>>
      [] k = "END"       -> <<Step("gone", k, None)>>

(* The rest of send_file once the file is open: nothing, when it is not.   *)
SendFileBody(copy) ==
    LET OnePart(n) == <<Tell("part", Copy(copy.of, n)), Ack("PART_RECEIVED")>> IN
    IF copy = Missing THEN <<>>
    ELSE <<Tell("size", copy.len), Ack("SIZE_ACK")>>
         \o Parts(copy.len, OnePart)
         \o <<Say("COMPLETE"), Ack("COMPLETE_ACK")>>

(* The rest of receive_file once the size is known.                        *)
ReceiveFileBody(f, n) ==
    LET OnePart(k) == <<Hear("part", <<f, k>>), Say("PART_RECEIVED")>> IN
    <<Say("SIZE_ACK")>>
    \o Parts(n, OnePart)
    \o <<Ack("COMPLETE"), Say("COMPLETE_ACK"), Hear("mtime", f)>>

(* The rest of get_file once the size is known.                            *)
GetFileBody(f, place, n) ==
    LET OnePart(k) == <<Hear("part", k), Say("PART_RECEIVED")>> IN
    <<Say("SIZE_ACK")>>
    \o Parts(n, OnePart)
    \o <<Hear("COMPLETE", <<f, place>>), Say("COMPLETE_ACK")>>
-----------------------------------------------------------------------------
Orders(S) == SetToSeqs(S)

(* The servers start with the same files, each in the order of its own     *)
(* directory; the client logs in and synchronises.                         *)
Init ==
    /\ \E start \in Directories :
          /\ disk = [s \in Servers |-> start]
          /\ recs \in [Servers -> Orders(Present(start))]
    /\ local \in Directories
    /\ plan = <<Say("user"), Ack("LOGIN_OK")>> \o SyncClient
    /\ todo = [s \in Servers |-> <<Ack("user"), Say("LOGIN_OK")>>]
    /\ down = [s \in Servers |-> <<>>] /\ up = [s \in Servers |-> <<>>]
    /\ fetched = Missing /\ seen = {} /\ sent = [f \in Files |-> Missing]
    /\ alive = BackupSet /\ linked = BackupSet /\ killed = FALSE
-----------------------------------------------------------------------------
Idle == plan = <<>>

(* The main thread and the sync thread take turns, command by command:     *)
(* each holds _comunicationMutex for all of its own.                       *)
Command(name, script) ==
    /\ name \in Commands /\ Idle
    /\ plan' = script
    /\ seen' = {}
    /\ UNCHANGED <<local, fetched, server, down, up, links>>

Upload(f, c) == Command("upload", SendFile(f, Whole(c))) /\ sent' = [sent EXCEPT ![f] = Missing]
Download(f) == Command("download", GetFile(f, "cwd")) /\ UNCHANGED sent
Sync == Command("sync", SyncClient) /\ UNCHANGED sent
List == Command("list", ListServerCommand) /\ UNCHANGED sent
Delete(f) == Command("delete", DeleteFile(f)) /\ sent' = [sent EXCEPT ![f] = Missing]
Lock(f) == Command("lock", LockFile(f)) /\ UNCHANGED sent
Unlock(f) == Command("unlock", UnlockFile(f)) /\ UNCHANGED sent
Exit == Command("exit", CloseConnection) /\ UNCHANGED sent

(* Between two commands the user writes or removes a file of the sync_dir. *)
Edit(f) ==
    /\ "sync" \in Commands /\ Idle
    /\ \E copy \in Copies(f) : local' = [local EXCEPT ![f] = copy]
    /\ UNCHANGED <<plan, fetched, seen, sent, server, down, up, links>>

ClientTells ==
    /\ plan # <<>> /\ Head(plan).do = "tell"
    /\ down' = IF killed THEN down
               ELSE [down EXCEPT ![Leader] = Append(@, Msg(Head(plan).kind, Head(plan).arg))]
    /\ plan' = Tail(plan)
    /\ UNCHANGED <<local, fetched, seen, sent, server, up, links>>

(* The client reads the message it waits for, and goes on with steps.      *)
ClientHears(k, steps) ==
    /\ plan # <<>> /\ Head(plan).do = "hear" /\ Head(plan).kind = k
    /\ up[Leader] # <<>> /\ Head(up[Leader]).kind = k
    /\ up' = [up EXCEPT ![Leader] = Tail(@)]
    /\ plan' = steps \o Tail(plan)
    /\ UNCHANGED <<server, down, links>>

Context == Head(plan).arg
Heard == Head(up[Leader]).arg

ClientHearsAck ==
    /\ \E k \in {"LOGIN_OK", "SEND_FILE_ACK", "SIZE_ACK", "PART_RECEIVED", "GET_FILE_ACK",
                 "LIST_ACK", "DELETE_ACK", "LOCK_ACK", "UNLOCK_ACK", "answer", "entry", "info"} :
          ClientHears(k, <<>>)
    /\ UNCHANGED <<local, fetched, seen, sent>>

(* send_file has the acknowledgement of the whole file.                    *)
UploadCompletes ==
    /\ ClientHears("COMPLETE_ACK", <<>>)
    /\ sent' = [sent EXCEPT ![Context[1]] = Context[2]]
    /\ UNCHANGED <<local, fetched, seen>>

(* get_file creates the file, and reads its size and its parts.            *)
DownloadBegins ==
    /\ ClientHears("EXISTS", <<Hear("size", Context)>>)
    /\ fetched' = Copy(None, 0)
    /\ UNCHANGED <<local, seen, sent>>

DownloadSize ==
    /\ ClientHears("size", GetFileBody(Context[1], Context[2], Heard))
    /\ UNCHANGED <<local, fetched, seen, sent>>

DownloadPart ==
    /\ ClientHears("part", <<>>)
    /\ fetched' = Copy(Heard.of, fetched.len + Context)
    /\ UNCHANGED <<local, seen, sent>>

DownloadCompletes ==
    /\ ClientHears("COMPLETE", <<>>)
    /\ local' = IF Context[2] = "cwd" THEN local ELSE [local EXCEPT ![Context[1]] = fetched]
    /\ fetched' = Missing
    /\ UNCHANGED <<seen, sent>>

(* The number of files: as many turns of the loop.                         *)
ListNumber ==
    /\ ClientHears("number", Times(Heard, <<Ack("entry"), Say("FILENAME_ACK"),
                                           Ack("info"), Say("FILE_OK")>>))
    /\ Context = "list"
    /\ UNCHANGED <<local, fetched, seen, sent>>

SyncNumber ==
    /\ ClientHears("number", <<Say("NUMBER_ACK")>> \o Times(Heard, <<Ack("record")>>)
                             \o <<Step("rest", "sync", None)>>)
    /\ Context = "sync"
    /\ UNCHANGED <<local, fetched, seen, sent>>

SyncRecord ==
    /\ ClientHears("record", <<Say("GET_FILE_ACK"), Hear("mtime", Heard)>>)
    /\ seen' = seen \cup {Heard}
    /\ UNCHANGED <<local, fetched, sent>>

(* A file that is missing here is fetched; else the later time decides,    *)
(* which is left open.                                                     *)
SyncDecides ==
    /\ \/ ClientHears("mtime", GetFile(Context, "sync_dir")) /\ UNCHANGED sent
       \/ /\ ClientHears("mtime", SendFile(Context, local[Context]))
          /\ local[Context] # Missing
          /\ sent' = [sent EXCEPT ![Context] = Missing]
       \/ /\ ClientHears("mtime", <<Say("SYNC_OK")>>)
          /\ local[Context] # Missing
          /\ UNCHANGED sent
    /\ UNCHANGED <<local, fetched, seen>>

(* The files the server has not named are uploaded, each as a command.     *)
SyncRest ==
    /\ plan # <<>> /\ Head(plan).do = "rest"
    /\ \/ \E f \in Present(local) \ seen :
             /\ plan' = SendFile(f, local[f]) \o plan
             /\ seen' = seen \cup {f} /\ sent' = [sent EXCEPT ![f] = Missing]
       \/ Present(local) \subseteq seen /\ plan' = Tail(plan) /\ UNCHANGED <<seen, sent>>
    /\ UNCHANGED <<local, fetched, server, down, up, links>>

Client ==
    \/ ClientTells \/ ClientHearsAck \/ UploadCompletes
    \/ DownloadBegins \/ DownloadSize \/ DownloadPart \/ DownloadCompletes
    \/ ListNumber \/ SyncNumber \/ SyncRecord \/ SyncDecides \/ SyncRest
-----------------------------------------------------------------------------
Running(s) == IF s = Leader THEN ~killed ELSE s \in alive

(* Variant of Collects: no one is waited for after a part.                 *)
CollectsButParts(k) ==
    IF k = "PART_RECEIVED" THEN <<>>
    ELSE FlattenSeq([n \in DOMAIN Backups |->
             IF Backups[n] \in linked THEN <<Step("collect", k, Backups[n])>> ELSE <<>>])

(* The leader waits for a message of each server it has not crossed out.   *)
Collects(k) ==
    FlattenSeq([n \in DOMAIN Backups |->
        IF Backups[n] \in linked THEN <<Step("collect", k, Backups[n])>> ELSE <<>>])

(* A server writes to the client or the leader.  The leader then collects  *)
(* what the others have written to it.                                     *)
ServerTells(s) ==
    /\ Running(s) /\ todo[s] # <<>> /\ Head(todo[s]).do = "tell"
    /\ LET m == Msg(Head(todo[s]).kind, Head(todo[s]).arg) IN
          /\ up' = [up EXCEPT ![s] = Append(@, m)]
          /\ todo' = [todo EXCEPT ![s] =
                        (IF s = Leader THEN Collects(m.kind) ELSE <<>>) \o Tail(@)]
    /\ UNCHANGED <<client, down, disk, recs, links>>

(* Variant of Collect: an answer is waited for in any case.                *)
CollectFromTheDead(b) ==
    /\ Running(Leader) /\ todo[Leader] # <<>>
    /\ Head(todo[Leader]).do = "collect" /\ Head(todo[Leader]).arg = b
    /\ up[b] # <<>> /\ up' = [up EXCEPT ![b] = Tail(@)] /\ UNCHANGED linked
    /\ todo' = [todo EXCEPT ![Leader] = Tail(@)]
    /\ UNCHANGED <<client, down, disk, recs, alive, killed>>

(* One turn of that loop.  A read from a server that is gone returns at    *)
(* once, and most of these loops do not notice.                            *)
Collect(b) ==
    /\ Running(Leader) /\ todo[Leader] # <<>>
    /\ Head(todo[Leader]).do = "collect" /\ Head(todo[Leader]).arg = b
    /\ \/ up[b] # <<>> /\ up' = [up EXCEPT ![b] = Tail(@)] /\ UNCHANGED linked
       \/ /\ up[b] = <<>> /\ b \notin alive
          /\ linked' \in {linked, linked \ {b}} /\ UNCHANGED up
    /\ todo' = [todo EXCEPT ![Leader] = Tail(@)]
    /\ UNCHANGED <<client, down, disk, recs, alive, killed>>

(* Variant of Repeated: the time of a file is not repeated.                *)
RepeatedButTime(s, m) ==
    IF s # Leader \/ m.kind = "mtime" THEN [down EXCEPT ![s] = Tail(@)]
    ELSE [x \in Servers |-> IF x = Leader THEN Tail(down[x])
                            ELSE IF x \in linked \cap alive THEN Append(down[x], m)
                            ELSE down[x]]

(* The leader repeats a message it has read to the servers not crossed out.*)
Repeated(s, m) ==
    IF s # Leader THEN [down EXCEPT ![s] = Tail(@)]
    ELSE [x \in Servers |-> IF x = Leader THEN Tail(down[x])
                            ELSE IF x \in linked \cap alive THEN Append(down[x], m)
                            ELSE down[x]]

(* A server has read m and goes on with steps.  A write to a server that   *)
(* is gone may fail, and it is crossed out.                                *)
Reads(s, m, steps) ==
    /\ Running(s)
    /\ down[s] # <<>> /\ m = Head(down[s])
    /\ down' = Repeated(s, m)
    /\ \/ UNCHANGED linked
       \/ s = Leader /\ linked' \in {linked \ gone : gone \in SUBSET (linked \ alive) \ {{}}}
    /\ todo' = [todo EXCEPT ![s] = steps \o (IF @ = <<>> THEN <<>> ELSE Tail(@))]
    /\ UNCHANGED <<client, up, alive, killed>>

(* What the thread of s waits for; between two commands, a command.        *)
Awaits(s) == IF todo[s] = <<>> THEN Ack("command") ELSE Head(todo[s])

ServerHears(s, kinds, k, steps) ==
    /\ Awaits(s).do = "hear" /\ Awaits(s).kind = k
    /\ down[s] # <<>> /\ Head(down[s]).kind \in kinds
    /\ Reads(s, Head(down[s]), steps)

CommandKinds == {"SEND_FILE", "GET_FILE", "DELETE", "LOCK", "UNLOCK", "SYNC", "LIST", "END"}
AnswerKinds == {"SEND_FILE", "GET_FILE", "SYNC_OK"}

(* The switch of handleConnectionThread, and the one of sync_server.       *)
HearCommand(s) ==
    /\ \/ ServerHears(s, CommandKinds, "command", Handler(recs[s], Head(down[s]).kind))
       \/ ServerHears(s, AnswerKinds, "answer", Handler(recs[s], Head(down[s]).kind))
    /\ UNCHANGED <<disk, recs>>

HearAck(s) ==
    /\ \E k \in {"user", "SIZE_ACK", "PART_RECEIVED", "COMPLETE", "COMPLETE_ACK",
                 "NUMBER_ACK", "GET_FILE_ACK", "FILE_OK"} : ServerHears(s, {k}, k, <<>>)
    /\ UNCHANGED <<disk, recs>>

Given(s) == Head(down[s]).arg
Purpose(s) == Awaits(s).arg
HearsName(s, k, steps) ==
    Awaits(s).kind = "name" /\ Purpose(s) = k /\ ServerHears(s, {"name"}, "name", steps)

(* receive_file: the file is created or truncated, its parts are appended, *)
(* and its record is made when all has been acknowledged.                  *)
ReceiveName(s) ==
    /\ HearsName(s, "SEND_FILE", <<Hear("size", Given(s))>>)
    /\ disk' = [disk EXCEPT ![s][Given(s)] = Copy(None, 0)]
    /\ UNCHANGED recs

ReceiveSize(s) ==
    /\ ServerHears(s, {"size"}, "size", ReceiveFileBody(Purpose(s), Given(s)))
    /\ UNCHANGED <<disk, recs>>

ReceivePart(s) ==
    /\ ServerHears(s, {"part"}, "part", <<>>)
    /\ disk' = [disk EXCEPT ![s][Purpose(s)[1]] = Copy(Given(s).of, @.len + Purpose(s)[2])]
    /\ UNCHANGED recs

(* Variant of Assigned: a new record each time.                            *)
AssignedAnew(r, f) == Append(r, f)

(* assignNewFile, as long as there is room.                                *)
Assigned(r, f) == IF \E k \in DOMAIN r : r[k] = f THEN r ELSE Append(r, f)

ReceiveTime(s) ==
    /\ ServerHears(s, {"mtime"}, "mtime", <<>>)
    /\ recs' = [recs EXCEPT ![s] = Assigned(@, Purpose(s))]
    /\ UNCHANGED disk

(* send_file announces the file whether or not it could be opened.         *)
SendName(s) ==
    /\ HearsName(s, "GET_FILE", <<Say("EXISTS")>> \o SendFileBody(disk[s][Given(s)]))
    /\ UNCHANGED <<disk, recs>>

(* deleteFile returns when there is no such file, and puts the last record *)
(* in the place of that of the file.                                       *)
Forgotten(r, f) ==
    LET last == Len(r) IN
    [k \in 1 .. last - 1 |-> IF r[k] = f THEN r[last] ELSE r[k]]

DeleteName(s) ==
    /\ HearsName(s, "DELETE", <<>>)
    /\ IF disk[s][Given(s)] = Missing THEN UNCHANGED <<disk, recs>>
       ELSE /\ disk' = [disk EXCEPT ![s][Given(s)] = Missing]
            /\ recs' = IF \E k \in DOMAIN recs[s] : recs[s][k] = Given(s)
                       THEN [recs EXCEPT ![s] = Forgotten(@, Given(s))] ELSE recs

(* lockFile and unlockFile answer with a number, whichever.                *)
LockName(s) ==
    /\ HearsName(s, "LOCK", <<Say("answer")>>) \/ HearsName(s, "UNLOCK", <<Say("answer")>>)
    /\ UNCHANGED <<disk, recs>>

(* listServer reads the acknowledgement of a file name and does not repeat *)
(* it: it waits for a message of the other servers instead.                *)
HearFileNameAck(s) ==
    /\ Awaits(s).do = "hear" /\ Awaits(s).kind = "FILENAME_ACK"
    /\ Running(s) /\ down[s] # <<>> /\ Head(down[s]).kind = "FILENAME_ACK"
    /\ down' = [down EXCEPT ![s] = Tail(@)]
    /\ todo' = [todo EXCEPT ![s] =
                  (IF s = Leader THEN Collects("any") ELSE <<>>) \o Tail(@)]
    /\ UNCHANGED <<client, up, disk, recs, links>>

Server(s) ==
    \/ ServerTells(s) \/ HearCommand(s) \/ HearAck(s)
    \/ ReceiveName(s) \/ ReceiveSize(s) \/ ReceivePart(s) \/ ReceiveTime(s)
    \/ SendName(s) \/ DeleteName(s) \/ LockName(s) \/ HearFileNameAck(s)

(* Another server crashes; what it had written may still arrive.  It does  *)
(* not come back, and its files are of no concern from here on.            *)
Crash(b) ==
    /\ Crashes /\ b \in alive
    /\ alive' = alive \ {b}
    /\ todo' = [todo EXCEPT ![b] = <<>>]
    /\ down' = [down EXCEPT ![b] = <<>>]
    /\ up' \in {up, [up EXCEPT ![b] = <<>>]}
    /\ disk' = [disk EXCEPT ![b] = [f \in Files |-> Missing]]
    /\ recs' = [recs EXCEPT ![b] = <<>>]
    /\ UNCHANGED <<client, linked, killed>>

(* Nothing in the program handles SIGPIPE: repeating a message to a server *)
(* that is gone may kill the leader.                                       *)
LeaderKilled ==
    /\ ~killed /\ linked \ alive # {}
    /\ Awaits(Leader).do = "hear" /\ Awaits(Leader).kind # "FILENAME_ACK"
    /\ down[Leader] # <<>>
    /\ killed' = TRUE
    /\ UNCHANGED <<client, todo, down, up, disk, recs, alive, linked>>

Next ==
    \/ Client \/ Sync \/ List \/ Exit
    \/ \E f \in Files :
          \/ Download(f) \/ Delete(f) \/ Lock(f) \/ Unlock(f) \/ Edit(f)
          \/ \E c \in Versions[f] : Upload(f, c)
    \/ \E s \in Servers : Server(s)
    \/ \E b \in BackupSet : Collect(b) \/ Crash(b)
    \/ LeaderKilled

(* The threads run as long as they can; no one has to give a command.      *)
Fairness ==
    /\ WF_vars(Client)
    /\ \A s \in Servers : WF_vars(Server(s))
    /\ \A b \in BackupSet : WF_vars(Collect(b))

Safety == Init /\ [][Next]_vars
Spec == Safety /\ Fairness
-----------------------------------------------------------------------------
KnownCopies == {Missing, Copy(None, 0)} \cup UNION {{Copy(c, n) : n \in 0 .. Size[c]} : c \in Contents}
StepKinds == {"tell", "hear", "collect", "rest", "gone"}

(* The variables keep their types.                                         *)
TypeOK ==
    /\ \A k \in DOMAIN plan : plan[k].do \in StepKinds
    /\ \A s \in Servers : \A k \in DOMAIN todo[s] : todo[s][k].do \in StepKinds
    /\ disk \in [Servers -> [Files -> KnownCopies]]
    /\ \A s \in Servers :
          /\ \A k \in DOMAIN recs[s] : recs[s][k] \in Files
          /\ Len(recs[s]) <= Cardinality(Files)
    /\ local \in Directories /\ fetched \in KnownCopies
    /\ seen \subseteq Files /\ sent \in Directories
    /\ alive \subseteq BackupSet /\ linked \subseteq BackupSet /\ killed \in BOOLEAN

(* Who waits for a message gets one of the kind it waits for: the client,  *)
(* the leader, the servers that hear the client through the leader, and    *)
(* the leader when it collects their answers, which it does not look at.   *)
Fits(step, queue) ==
    step.do = "hear" /\ queue # <<>> =>
        \/ Head(queue).kind = step.kind
        \/ step.kind = "command" /\ Head(queue).kind \in CommandKinds
        \/ step.kind = "answer" /\ Head(queue).kind \in AnswerKinds
InStep ==
    /\ plan # <<>> => Fits(Head(plan), up[Leader])
    /\ \A s \in Servers : Running(s) => Fits(Awaits(s), down[s])
    /\ \A b \in BackupSet :
          LET step == Awaits(Leader) IN
          step.do = "collect" /\ step.arg = b /\ step.kind # "any" /\ up[b] # <<>> =>
              Head(up[b]).kind = step.kind

(* A file whose upload has returned at the client is whole on the leader   *)
(* and on every other server that runs, although none of them has told the *)
(* client so: a crash of the leader loses no acknowledged upload.          *)
Acknowledged ==
    \A f \in Files : sent[f] # Missing =>
        \A s \in {Leader} \cup alive : disk[s][f] = sent[f]

(* Once the client and the leader are idle and a server has read all it    *)
(* was told, it has the files and the records of the leader, it is ready   *)
(* for a command, and has no answer left that would be taken for another.  *)
Replicated ==
    plan = <<>> /\ todo[Leader] = <<>> /\ down[Leader] = <<>> /\ ~killed =>
        \A b \in alive \cap linked : down[b] = <<>> =>
            /\ todo[b] = <<>> /\ up[b] = <<>>
            /\ disk[b] = disk[Leader]
            /\ {recs[b][k] : k \in DOMAIN recs[b]} = {recs[Leader][k] : k \in DOMAIN recs[Leader]}

(* A download that is told it is complete has the file of the leader.      *)
DownloadsWhole ==
    plan # <<>> /\ Head(plan) = Hear("COMPLETE", Context) =>
        fetched = disk[Leader][Context[1]] /\ fetched # Missing

(* What a command may be stuck in: a file name of listServer while another *)
(* server runs, and the size of a file the server could not open.          *)
ListStuck ==
    /\ Awaits(Leader).do = "collect" /\ Awaits(Leader).kind = "any"
    /\ Awaits(Leader).arg \in alive
FileAbsent ==
    plan # <<>> /\ Head(plan).kind = "size" /\ Head(plan).do = "hear" /\ Awaits(Leader).kind = "command"

(* Whatever other servers crash meanwhile, every command ends, but for     *)
(* these two and for a leader that is killed.                              *)
CommandEnds ==
    (plan # <<>>) ~>
        (plan = <<>> \/ Head(plan).do = "gone" \/ killed \/ ListStuck \/ FileAbsent)

(* list_server: the client gets all the entries.                           *)
Listing ==
    plan # <<>> /\ LET last == plan[Len(plan)] IN
                     last.kind = "FILE_OK" \/ (last.kind = "number" /\ last.arg = "list")
ListEnds == Listing ~> ~Listing
=============================================================================
