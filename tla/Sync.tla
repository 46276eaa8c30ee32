--------------------------------- MODULE Sync ---------------------------------
(***************************************************************************)
(* What the synchronisation by modification times does to one file of a    *)
(* user: its copy in the sync_dir of each client, the file and its record  *)
(* on the server (sync_client, send_file and get_file of                   *)
(* Client/dropboxClient.cpp; sync_server, receive_file and recoverData of  *)
(* Server/dropboxServer.cpp).                                              *)
(*                                                                         *)
(* Contents are the edits that made them, numbered as they happen; Short   *)
(* stands for a file that is not all there.  Times are in seconds, as      *)
(* stat() and difftime() give them, and all clocks agree.                  *)
(***************************************************************************)
EXTENDS Integers, FiniteSets

CONSTANTS
    Clients,      \* the clients of the user
    MaxTime,      \* bound of the clock
    MaxEdits,     \* bound of the edits
    MaxRestarts,  \* bound of the restarts of the server
    Summers       \* whether the time zone has a summer time, or both

ASSUME BoundsAssumption == MaxTime \in Nat \ {0} /\ MaxEdits \in Nat /\ MaxRestarts \in Nat
ASSUME SummersAssumption == Summers \subseteq BOOLEAN

VARIABLES
    now,        \* the time
    edits,      \* how many edits there have been
    copy,       \* copy[c]: content and time of the file in c's sync_dir
    stored,     \* content of the file on the server
    storedAt,   \* the time it was written there
    rec,        \* the time in its record, 0 when it has none
    op,         \* op[c]: what the sync of c is in the middle of
    on,         \* the clients that run
    hasty,      \* a file may be written twice in one second
    summer,     \* the time zone has a summer time
    restarts    \* how often the server has restarted

world == <<on, hasty, summer>>
vars == <<now, edits, copy, stored, storedAt, rec, op, world, restarts>>

Short == -1
Missing == [content |-> 0, time |-> 0]
Quiet == [phase |-> "idle", time |-> 0, content |-> 0]

Init ==
    /\ now = 1 /\ edits = 0
    /\ copy = [c \in Clients |-> Missing]
    /\ stored = 0 /\ storedAt = 0 /\ rec = 0
    /\ op = [c \in Clients |-> Quiet]
    /\ on \in SUBSET Clients /\ on # {}
    /\ hasty \in BOOLEAN /\ summer \in Summers
    /\ restarts = 0

Tick ==
    /\ now < MaxTime /\ now' = now + 1
    /\ UNCHANGED <<edits, copy, stored, storedAt, rec, op, world, restarts>>

(* The user writes the file, whatever the sync thread is at.               *)
Edit(c) ==
    /\ c \in on /\ edits < MaxEdits
    /\ hasty \/ copy[c].time < now
    /\ edits' = edits + 1
    /\ copy' = [copy EXCEPT ![c] = [content |-> edits + 1, time |-> now]]
    /\ UNCHANGED <<now, stored, storedAt, rec, op, world, restarts>>

Enters(c, p, t, v) == op' = [op EXCEPT ![c] = [phase |-> p, time |-> t, content |-> v]]

(* What convertTimeString makes of a time: it leaves tm_isdst as it finds  *)
(* it, and where there is a summer time mktime may take an hour off or add *)
(* one.  An hour is longer than all that happens.                          *)
convertTimeString(t) == IF summer THEN {t - MaxTime - 1, t, t + MaxTime + 1} ELSE {t}

(* The server names the file and the time in its record; send_file reads   *)
(* the time of a file that is not named, and that is there.                *)
SyncBegins(c) ==
    /\ c \in on /\ op[c] = Quiet
    /\ \/ rec # 0 /\ \E t \in convertTimeString(rec) : Enters(c, "told", t, 0)
       \/ rec = 0 /\ copy[c] # Missing /\ Enters(c, "send", copy[c].time, 0)
    /\ UNCHANGED <<now, edits, copy, stored, storedAt, rec, world, restarts>>

(* A missing file is fetched whatever the time told, an older one as well. *)
Outdated(c) == copy[c] = Missing \/ copy[c].time < op[c].time

(* Variant of Decide: a file the server knows is never sent again.         *)
DecideOnce(c) ==
    /\ op[c].phase = "told"
    /\ \/ Outdated(c) /\ Enters(c, "get", 0, 0)
       \/ ~Outdated(c) /\ op' = [op EXCEPT ![c] = Quiet]
    /\ UNCHANGED <<now, edits, copy, stored, storedAt, rec, world, restarts>>

(* sync_client compares the times: the missing or older file is fetched,   *)
(* the later one is sent, and nothing is done when they are equal.         *)
Decide(c) ==
    /\ op[c].phase = "told"
    /\ \/ Outdated(c) /\ Enters(c, "get", 0, 0)
       \/ ~Outdated(c) /\ copy[c].time > op[c].time /\ Enters(c, "send", copy[c].time, 0)
       \/ ~Outdated(c) /\ copy[c].time = op[c].time /\ op' = [op EXCEPT ![c] = Quiet]
    /\ UNCHANGED <<now, edits, copy, stored, storedAt, rec, world, restarts>>

(* The file is read, and the server has truncated its own.                 *)
SendContent(c) ==
    /\ op[c].phase = "send"
    /\ Enters(c, "upload", op[c].time, copy[c].content)
    /\ stored' = Short /\ storedAt' = now
    /\ UNCHANGED <<now, edits, copy, rec, world, restarts>>

Uploading == {c \in Clients : op[c].phase = "upload"}

(* Variant of SendEnd: the record has the time the file was written.       *)
SendEndNow(c) ==
    /\ op[c].phase = "upload"
    /\ stored' \in {op[c].content} \cup (IF Uploading = {c} THEN {} ELSE {Short})
    /\ storedAt' = now
    /\ rec' = now
    /\ op' = [op EXCEPT ![c] = Quiet]
    /\ UNCHANGED <<now, edits, copy, world, restarts>>

(* Variant of SendEnd: the time is read after the file, not before.        *)
SendEndStat(c) ==
    /\ op[c].phase = "upload"
    /\ stored' \in {op[c].content} \cup (IF Uploading = {c} THEN {} ELSE {Short})
    /\ storedAt' = now
    /\ rec' = copy[c].time
    /\ op' = [op EXCEPT ![c] = Quiet]
    /\ UNCHANGED <<now, edits, copy, world, restarts>>

(* Variant of SendEnd: the record has the hour of another time zone.       *)
SendEndAbroad(c) ==
    /\ op[c].phase = "upload"
    /\ stored' \in {op[c].content} \cup (IF Uploading = {c} THEN {} ELSE {Short})
    /\ storedAt' = now
    /\ rec' = op[c].time + MaxTime + 1
    /\ op' = [op EXCEPT ![c] = Quiet]
    /\ UNCHANGED <<now, edits, copy, world, restarts>>

(* The file is complete, unless another upload writes into it, and its     *)
(* record gets the time the client read before it read the file.           *)
SendEnd(c) ==
    /\ op[c].phase = "upload"
    /\ stored' \in {op[c].content} \cup (IF Uploading = {c} THEN {} ELSE {Short})
    /\ storedAt' = now
    /\ rec' = op[c].time
    /\ op' = [op EXCEPT ![c] = Quiet]
    /\ UNCHANGED <<now, edits, copy, world, restarts>>

(* The server reads the file, and the client has truncated its own.        *)
GetContent(c) ==
    /\ op[c].phase = "get"
    /\ Enters(c, "fetch", 0, stored)
    /\ copy' = [copy EXCEPT ![c] = [content |-> Short, time |-> now]]
    /\ UNCHANGED <<now, edits, stored, storedAt, rec, world, restarts>>

(* The copy is complete; its time is that of the download.                 *)
GetEnd(c) ==
    /\ op[c].phase = "fetch"
    /\ copy' = [copy EXCEPT ![c] = [content |-> op[c].content, time |-> now]]
    /\ op' = [op EXCEPT ![c] = Quiet]
    /\ UNCHANGED <<now, edits, stored, storedAt, rec, world, restarts>>

(* The server dies and starts again: the record is made anew from the file *)
(* as it is, with the time it was written.  Clients start again as well.   *)
Restart ==
    /\ restarts < MaxRestarts /\ restarts' = restarts + 1
    /\ rec' = IF stored = 0 THEN 0 ELSE storedAt
    /\ op' = [c \in Clients |-> Quiet]
    /\ UNCHANGED <<now, edits, copy, stored, storedAt, world>>

SyncStep(c) ==
    SyncBegins(c) \/ Decide(c) \/ SendContent(c) \/ SendEnd(c) \/ GetContent(c) \/ GetEnd(c)
Next == Tick \/ Restart \/ \E c \in Clients : Edit(c) \/ SyncStep(c)

(* The sync thread of a client synchronises every five seconds.            *)
Fairness == \A c \in Clients : WF_vars(SyncStep(c))

Safety == Init /\ [][Next]_vars
Spec == Safety /\ Fairness
-----------------------------------------------------------------------------
Contents == -1 .. MaxEdits
Heard == 0 - MaxTime .. 2 * MaxTime + 2

(* The variables keep their types.                                         *)
TypeOK ==
    /\ now \in 1 .. MaxTime /\ edits \in 0 .. MaxEdits
    /\ copy \in [Clients -> [content : Contents, time : 0 .. now]]
    /\ stored \in Contents /\ storedAt \in 0 .. now /\ rec \in 0 .. now
    /\ op \in [Clients ->
                 [phase : {"idle", "told", "send", "upload", "get", "fetch"},
                  time : Heard, content : Contents]]
    /\ on \subseteq Clients /\ hasty \in BOOLEAN /\ summer \in Summers
    /\ restarts \in 0 .. MaxRestarts

(* One client runs, the server has not restarted, the hour is not changed. *)
Undisturbed == restarts = 0 /\ ~summer /\ \A c, d \in on : c = d

(* "Arquivo mais recente está no cliente": a client that finds the later   *)
(* time on its side, in a whole file, while nobody else is at the file and *)
(* its record is the one it was told of, has the newer edit to send.       *)
SendsNewer ==
    [][\A c \in Clients :
         /\ op[c].phase = "told" /\ op'[c].phase = "send" /\ op[c].time = rec
         /\ copy[c].content # Short
         /\ \A d \in Clients \ {c} : op[d] = Quiet
         => copy[c].content >= stored]_vars

(* A client that is alone is never told of a time later than that of its   *)
(* own copy, so no edit of its user is overwritten by a download, even one *)
(* made while the file is being compared or sent.                          *)
NothingToFetch ==
    Undisturbed =>
        \A c \in on : copy[c] # Missing =>
            rec <= copy[c].time /\ op[c].phase \notin {"get", "fetch"}

(* Equal times are taken for equal files.  They are, for one client that   *)
(* does not write the file twice in a second, even while it is being sent. *)
EqualTimesEqualFiles ==
    Undisturbed /\ ~hasty =>
        \A c \in on : copy[c] # Missing /\ op[c] = Quiet /\ rec = copy[c].time =>
            stored = copy[c].content

(* Once the user stops writing, the only client and the server come to     *)
(* have the same file, or files of the same second, restarts or not.       *)
Settles ==
    \A c \in Clients :
        (on = {c}) ~> [](op[c] = Quiet => stored = copy[c].content \/ rec = copy[c].time)
=============================================================================
