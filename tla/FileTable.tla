------------------------------ MODULE FileTable ------------------------------
(***************************************************************************)
(* The files of one user on one server: the array file_info of the user's  *)
(* entry in _clients, the lock queue in each of its records, and the       *)
(* directory sync_dir_<user> on disk (Server/dropboxServer.cpp).           *)
(*                                                                         *)
(* The sessions of the user run in parallel.  A handler that works on the  *)
(* disk and then on the array is two actions, since only the second part   *)
(* holds _clientStructMutex; a handler that reads the array with no mutex  *)
(* is one action per record.                                               *)
(***************************************************************************)
EXTENDS Integers, Sequences, FiniteSets

CONSTANTS
    Names,        \* file names the clients use
    Texts,        \* what a record's name may read as
    NoName,       \* the name of an empty record: a string of length 0
    AsStored,     \* how the name assignNewFile writes reads afterwards
    AsRecovered,  \* how the name getFileInfo writes reads afterwards
    Sockets,      \* descriptors of the user's sessions
    MaxFiles,     \* MAXFILES, 20 in the code
    Commands,     \* what the clients ask for: "send", "delete", "sync", "lock"
    Faults        \* how they fail: "vanish", "giveup"

(* A name shorter than MAXNAME reads as itself.  A longer one fills the    *)
(* array: strncpy leaves it unterminated, so it reads on into the          *)
(* extension, and snprintf cuts it.                                        *)
ASSUME NamesAssumption ==
    /\ IsFiniteSet(Names) /\ Names \subseteq Texts /\ NoName \notin Texts
    /\ AsStored \in [Names -> Texts] /\ AsRecovered \in [Names -> Texts]
ASSUME MaxFilesAssumption == MaxFiles \in Nat \ {0}
ASSUME CommandsAssumption ==
    /\ Commands \subseteq {"send", "delete", "sync", "lock"}
    /\ Faults \subseteq {"vanish", "giveup"}

VARIABLES
    name,      \* name[i]: file_info[i].name as it reads
    lock,      \* lock[i]: file_info[i].lock
    store,     \* store[i]: the heap block of that vector, 0 when it has none
    undefined, \* the program has done what C++ does not define
    disk,      \* names present in the directory
    on,        \* sessions of the user
    op,        \* what the thread of a session is in the middle of
    list,      \* how far sync_server has come in its loop
    wants,     \* the file a client polls the lock of
    holds,     \* <<s, n>>: the server granted s the lock of n
    misled     \* <<s, n>>: a failed request that the client took for a grant

table == <<name, lock, store>>
clients == <<wants, holds, misled>>
vars == <<name, lock, store, undefined, disk, on, op, list, wants, holds, misled>>

Slots == 0 .. MaxFiles - 1
Idle == [kind |-> "idle", file |-> NoName]
NoList == [next |-> 0, total |-> 0, asked |-> FALSE]

First(S) == CHOOSE i \in S : \A j \in S : i <= j
Used == {i \in Slots : name[i] # NoName}
Empty == Slots \ Used

(* findUserFile: the records whose name reads as n.                        *)
Matching(n) == {i \in Slots : name[i] = n}
(* The elements of a queue.                                                *)
Members(q) == {q[k] : k \in 1 .. Len(q)}

(* vector::erase of the element that holds s.                              *)
Without(q, s) ==
    IF s \in Members(q)
    THEN LET k == CHOOSE k \in 1 .. Len(q) : q[k] = s
         IN  [i \in 1 .. Len(q) - 1 |-> IF i < k THEN q[i] ELSE q[i + 1]]
    ELSE q

(* Two vectors with one heap block, as memcpy of a record leaves them.     *)
Shared(i) == store[i] # 0 /\ \E j \in Slots \ {i} : store[j] = store[i]
FreshStore == CHOOSE b \in 1 .. MaxFiles + 1 : \A i \in Slots : store[i] # b
-----------------------------------------------------------------------------
(* recoverData reads the directory in whatever order readdir gives.        *)
Listings(d) ==
    {order \in [0 .. Cardinality(d) - 1 -> d] :
        \A i, j \in DOMAIN order : order[i] = order[j] => i = j}

RecoveredName(order) ==
    [i \in Slots |-> IF i \in DOMAIN order THEN AsRecovered[order[i]] ELSE NoName]

Init ==
    /\ disk \in SUBSET Names /\ Cardinality(disk) <= MaxFiles
    /\ \E order \in Listings(disk) : name = RecoveredName(order)
    /\ lock = [i \in Slots |-> <<>>]
    /\ store = [i \in Slots |-> 0]
    /\ undefined = FALSE
    /\ on = {}
    /\ op = [s \in Sockets |-> Idle]
    /\ list = [s \in Sockets |-> NoList]
    /\ wants = [s \in Sockets |-> NoName]
    /\ holds = {} /\ misled = {}

(* The server dies and starts again.  More files than records, and         *)
(* recoverData writes beyond the array.                                    *)
Restart ==
    /\ \/ /\ Cardinality(disk) <= MaxFiles
          /\ \E order \in Listings(disk) : name' = RecoveredName(order)
          /\ undefined' = FALSE
       \/ /\ Cardinality(disk) > MaxFiles
          /\ name' = [i \in Slots |-> NoName]
          /\ undefined' = TRUE
    /\ lock' = [i \in Slots |-> <<>>]
    /\ store' = [i \in Slots |-> 0]
    /\ on' = {}
    /\ op' = [s \in Sockets |-> Idle]
    /\ list' = [s \in Sockets |-> NoList]
    /\ wants' = [s \in Sockets |-> NoName]
    /\ holds' = {} /\ misled' = {}
    /\ UNCHANGED disk
-----------------------------------------------------------------------------
Ready(s) == ~undefined /\ s \in on /\ op[s] = Idle
Waiting(s) == Ready(s) /\ list[s] = NoList

(* A client of the user logs in; the descriptor may be one used before.    *)
Connect(s) ==
    /\ ~undefined /\ s \notin on
    /\ on' = on \cup {s}
    /\ UNCHANGED <<table, undefined, disk, op, list, clients>>

(* receive_file up to the end of the transfer: the file is truncated or    *)
(* created before a byte has arrived.  Within sync_server the client may   *)
(* send the file whose record it has just been told of.                    *)
UploadBegin(s, n) ==
    /\ "send" \in Commands
    /\ Ready(s)
    /\ list[s] = NoList \/ (list[s].asked /\ name[list[s].next - 1] = n)
    /\ disk' = disk \cup {n}
    /\ op' = [op EXCEPT ![s] = [kind |-> "upload", file |-> n]]
    /\ list' = [list EXCEPT ![s].asked = FALSE]
    /\ UNCHANGED <<table, undefined, on, clients>>

(* Variant of AssignNewFile: no search for the record of the file.         *)
AssignNewFileUnsearched(n) ==
    name' = IF Empty # {} THEN [name EXCEPT ![First(Empty)] = AsStored[n]] ELSE name

(* assignNewFile: the record of the file, or else the first empty one,     *)
(* whose lock queue is left as it is.                                      *)
AssignNewFile(n) ==
    LET room == IF Matching(n) # {} THEN Matching(n) ELSE Empty IN
    name' = IF room # {} THEN [name EXCEPT ![First(room)] = AsStored[n]] ELSE name

UploadEnd(s) ==
    /\ ~undefined /\ op[s].kind = "upload"
    /\ AssignNewFile(op[s].file)
    /\ op' = [op EXCEPT ![s] = Idle]
    /\ UNCHANGED <<lock, store, undefined, disk, on, list, clients>>

(* deleteFile up to remove(); a file that is not there ends the handler.   *)
DeleteOnDisk(s, n) ==
    /\ "delete" \in Commands
    /\ Waiting(s) /\ n \in disk
    /\ disk' = disk \ {n}
    /\ op' = [op EXCEPT ![s] = [kind |-> "delete", file |-> n]]
    /\ UNCHANGED <<table, undefined, on, list, clients>>

(* Variant of ForgetFile: the record is cleared where it is.               *)
ForgetFileInPlace(n) ==
    IF Matching(n) = {}
    THEN UNCHANGED table
    ELSE /\ name' = [name EXCEPT ![First(Matching(n))] = NoName]
         /\ UNCHANGED <<lock, store>>

(* Variant of ForgetFile: the last record is cleared without being moved.  *)
ForgetFileUnmoved(n) ==
    IF Matching(n) = {} \/ Empty = {}
    THEN UNCHANGED table
    ELSE /\ name' = [name EXCEPT ![First(Empty) - 1] = NoName]
         /\ UNCHANGED <<lock, store>>

(* Variant of ForgetFile: f >= last in place of f > last.                  *)
ForgetFileButLast(n) ==
    IF Matching(n) = {} \/ Empty = {}
    THEN UNCHANGED table
    ELSE LET f == First(Matching(n))
             last == First(Empty) - 1
         IN  IF f >= last
             THEN UNCHANGED table
             ELSE /\ name' = [name EXCEPT ![f] = name[last], ![last] = NoName]
                  /\ lock' = [lock EXCEPT ![f] = lock[last]]
                  /\ store' = [store EXCEPT ![f] = store[last]]

(* The rest of deleteFile: the last record is copied byte by byte over the *)
(* one of the file and its name is cleared, its lock vector is not.  The   *)
(* last record is the one before the first empty one; when there is none,  *)
(* nothing is done.                                                        *)
ForgetFile(n) ==
    IF Matching(n) = {} \/ Empty = {}
    THEN UNCHANGED table
    ELSE LET f == First(Matching(n))
             last == First(Empty) - 1
         IN  IF f > last
             THEN UNCHANGED table
             ELSE /\ name' = [name EXCEPT ![f] = name[last], ![last] = NoName]
                  /\ lock' = [lock EXCEPT ![f] = lock[last]]
                  /\ store' = [store EXCEPT ![f] = store[last]]

DeleteEnd(s) ==
    /\ ~undefined /\ op[s].kind = "delete"
    /\ ForgetFile(op[s].file)
    /\ op' = [op EXCEPT ![s] = Idle]
    /\ UNCHANGED <<undefined, disk, on, list, clients>>

(* A send or a receive fails half way through receive_file: it returns,    *)
(* and the file stays on disk as it is.                                    *)
UploadFails(s) ==
    /\ ~undefined /\ op[s].kind = "upload"
    /\ op' = [op EXCEPT ![s] = Idle]
    /\ UNCHANGED <<table, undefined, disk, on, list, clients>>

(* sync_server counts the files, with no mutex, and sends the number.      *)
ListBegin(s) ==
    /\ "sync" \in Commands
    /\ Waiting(s) /\ Used # {}
    /\ list' = [list EXCEPT ![s] = [NoList EXCEPT !.total = Cardinality(Used)]]
    /\ UNCHANGED <<table, undefined, disk, on, op, clients>>

(* Variant of ListNext: i <= total in place of i < total.                  *)
ListNextOnceMore(s) ==
    /\ Ready(s) /\ list[s] # NoList /\ list[s].next <= list[s].total
    /\ list' = [list EXCEPT ![s].next = @ + 1, ![s].asked = TRUE]
    /\ UNCHANGED <<table, undefined, disk, on, op, clients>>

(* One turn of its loop: the name in record list[s].next is sent.          *)
ListNext(s) ==
    /\ Ready(s) /\ list[s] # NoList /\ list[s].next < list[s].total
    /\ list' = [list EXCEPT ![s].next = @ + 1, ![s].asked = TRUE]
    /\ UNCHANGED <<table, undefined, disk, on, op, clients>>

(* The last record has been sent, or sending one has failed.               *)
ListEnd(s) ==
    /\ Ready(s) /\ list[s] # NoList
    /\ list' = [list EXCEPT ![s] = NoList]
    /\ UNCHANGED <<table, undefined, disk, on, op, clients>>
-----------------------------------------------------------------------------
(* An application opens a file in the directory the client watches.        *)
OpenFile(s, n) ==
    /\ "lock" \in Commands
    /\ Waiting(s) /\ wants[s] = NoName /\ <<s, n>> \notin holds \cup misled
    /\ wants' = [wants EXCEPT ![s] = n]
    /\ UNCHANGED <<table, undefined, disk, on, op, list, holds, misled>>

(* lockFile when the file has no record: the server answers 0, and         *)
(* lockFile of the client returns 0, which fileWatcher takes for a grant.  *)
LockUnknown(s) ==
    /\ Waiting(s) /\ wants[s] # NoName /\ Matching(wants[s]) = {}
    /\ misled' = misled \cup {<<s, wants[s]>>}
    /\ wants' = [wants EXCEPT ![s] = NoName]
    /\ UNCHANGED <<table, undefined, disk, on, op, list, holds>>

(* Variant of Enqueued: the session jumps the queue.                       *)
EnqueuedInFront(s, i) == IF s \in Members(lock[i]) THEN lock[i] ELSE <<s>> \o lock[i]

(* lockFile: the session joins the queue unless it is in it.               *)
Enqueued(s, i) == IF s \in Members(lock[i]) THEN lock[i] ELSE Append(lock[i], s)

Enqueue(s, i) ==
    /\ lock' = [lock EXCEPT ![i] = Enqueued(s, i)]
    /\ store' = [store EXCEPT ![i] = IF @ = 0 THEN FreshStore ELSE @]

(* Variant of LockGranted: being in the queue is enough.                   *)
LockGrantedAnyPlace(s) ==
    /\ Waiting(s) /\ wants[s] # NoName /\ Matching(wants[s]) # {}
    /\ LET i == First(Matching(wants[s])) IN
          /\ s \in Members(lock[i]) \/ ~Shared(i)
          /\ Enqueue(s, i)
    /\ holds' = holds \cup {<<s, wants[s]>>}
    /\ wants' = [wants EXCEPT ![s] = NoName]
    /\ UNCHANGED <<name, undefined, disk, on, op, list, misled>>

(* Variant of LockGranted: only a session that is alone in the queue.      *)
LockGrantedWhenAlone(s) ==
    /\ Waiting(s) /\ wants[s] # NoName /\ Matching(wants[s]) # {}
    /\ LET i == First(Matching(wants[s])) IN
          /\ s \in Members(lock[i]) \/ ~Shared(i)
          /\ Enqueued(s, i) = <<s>>
          /\ Enqueue(s, i)
    /\ holds' = holds \cup {<<s, wants[s]>>}
    /\ wants' = [wants EXCEPT ![s] = NoName]
    /\ UNCHANGED <<name, undefined, disk, on, op, list, misled>>

(* It is granted the lock when it is the first of the queue.               *)
LockGranted(s) ==
    /\ Waiting(s) /\ wants[s] # NoName /\ Matching(wants[s]) # {}
    /\ LET i == First(Matching(wants[s])) IN
          /\ s \in Members(lock[i]) \/ ~Shared(i)
          /\ Enqueued(s, i)[1] = s
          /\ Enqueue(s, i)
    /\ holds' = holds \cup {<<s, wants[s]>>}
    /\ wants' = [wants EXCEPT ![s] = NoName]
    /\ UNCHANGED <<name, undefined, disk, on, op, list, misled>>

(* Otherwise it is told the length of the queue and asks again later.      *)
LockQueued(s) ==
    /\ Waiting(s) /\ wants[s] # NoName /\ Matching(wants[s]) # {}
    /\ LET i == First(Matching(wants[s])) IN
          /\ s \in Members(lock[i]) \/ ~Shared(i)
          /\ Enqueued(s, i)[1] # s
          /\ Enqueue(s, i)
    /\ UNCHANGED <<name, undefined, disk, on, op, list, clients>>

(* A client that is not granted the lock and finds the file gone from its  *)
(* own directory stops asking, and stays in the queue.                     *)
StopAsking(s) ==
    /\ "giveup" \in Faults
    /\ Waiting(s) /\ wants[s] # NoName
    /\ \E i \in Matching(wants[s]) : s \in Members(lock[i])
    /\ wants' = [wants EXCEPT ![s] = NoName]
    /\ UNCHANGED <<table, undefined, disk, on, op, list, holds, misled>>

(* unlockFile, sent when the application closes the file.                  *)
Unlock(s, n) ==
    /\ "lock" \in Commands
    /\ Waiting(s) /\ wants[s] = NoName
    /\ \A i \in Matching(n) : s \in Members(lock[i]) => ~Shared(i)
    /\ lock' = IF Matching(n) = {} THEN lock
               ELSE [lock EXCEPT ![First(Matching(n))] = Without(@, s)]
    /\ holds' = holds \ {<<s, n>>}
    /\ misled' = misled \ {<<s, n>>}
    /\ UNCHANGED <<name, store, undefined, disk, on, op, list, wants>>

SessionOver(s) ==
    /\ on' = on \ {s}
    /\ list' = [list EXCEPT ![s] = NoList]
    /\ wants' = [wants EXCEPT ![s] = NoName]
    /\ holds' = {h \in holds : h[1] # s}
    /\ misled' = {h \in misled : h[1] # s}

(* logOutClient: the session leaves the queues of the records in use.      *)
LogOut(s) ==
    /\ Waiting(s)
    /\ \A i \in Used : s \in Members(lock[i]) => ~Shared(i)
    /\ lock' = [i \in Slots |-> IF i \in Used THEN Without(lock[i], s) ELSE lock[i]]
    /\ SessionOver(s)
    /\ UNCHANGED <<name, store, undefined, disk, op>>

(* The thread ends without logOutClient: an unparsable command, or a reply *)
(* that cannot be sent.                                                    *)
Vanish(s) ==
    /\ "vanish" \in Faults
    /\ Waiting(s)
    /\ SessionOver(s)
    /\ UNCHANGED <<table, undefined, disk, op>>

(* A lock vector is changed while another one uses the same heap block:    *)
(* from here on C++ promises nothing, and the model says nothing.          *)
TouchSharedVector(s) ==
    /\ Waiting(s)
    /\ \E i \in Used :
          /\ Shared(i)
          /\ s \in Members(lock[i]) \/ wants[s] = name[i]
    /\ undefined' = TRUE
    /\ UNCHANGED <<table, disk, on, op, list, clients>>
-----------------------------------------------------------------------------
(* What the thread of a session does on its own.                           *)
Handler(s) == UploadEnd(s) \/ UploadFails(s) \/ DeleteEnd(s) \/ ListNext(s) \/ ListEnd(s)
Poll(s) == LockUnknown(s) \/ LockGranted(s) \/ LockQueued(s)
Release(s) == \E n \in Names : <<s, n>> \in holds /\ Unlock(s, n)

Next ==
    \/ \E s \in Sockets :
          \/ Connect(s) \/ Handler(s) \/ ListBegin(s) \/ Poll(s) \/ StopAsking(s)
          \/ LogOut(s) \/ Vanish(s) \/ TouchSharedVector(s)
          \/ \E n \in Names :
                UploadBegin(s, n) \/ DeleteOnDisk(s, n) \/ OpenFile(s, n) \/ Unlock(s, n)
    \/ Restart

(* Handlers end.  The threads of a client share one connection under its   *)
(* _comunicationMutex, and none is kept from it for ever: so a file watcher *)
(* that asks for a lock does ask, and one that holds a lock does release   *)
(* it, however often other commands come first.                            *)
Fairness ==
    \A s \in Sockets : WF_vars(Handler(s)) /\ SF_vars(Poll(s)) /\ SF_vars(Release(s))

Safety == Init /\ [][Next]_vars
Spec == Safety /\ Fairness
-----------------------------------------------------------------------------
(* Names that read back as themselves and as no other's.                   *)
Plain ==
    {n \in Names :
        /\ AsStored[n] = n /\ AsRecovered[n] = n
        /\ \A m \in Names \ {n} : AsStored[m] # n /\ AsRecovered[m] # n}

(* The variables keep their types.                                         *)
TypeOK ==
    /\ name \in [Slots -> Texts \cup {NoName}]
    /\ lock \in [Slots -> Seq(Sockets)]
    /\ store \in [Slots -> 0 .. MaxFiles + 1]
    /\ undefined \in BOOLEAN
    /\ disk \subseteq Names
    /\ on \subseteq Sockets
    /\ op \in [Sockets -> [kind : {"idle", "upload", "delete"}, file : Names \cup {NoName}]]
    /\ list \in [Sockets -> [next : 0 .. MaxFiles, total : 0 .. MaxFiles, asked : BOOLEAN]]
    /\ wants \in [Sockets -> Names \cup {NoName}]
    /\ holds \subseteq Sockets \X Names
    /\ misled \subseteq Sockets \X Names

(* "Não podem haver registros vazios no meio do array": the records in use *)
(* come first, whatever uploads and deletions of several sessions cross.   *)
(* sync_server, which sends the first so many records, relies on it.       *)
Compact == \A i, j \in Slots : i < j /\ name[i] = NoName => name[j] = NoName

(* A file has one record, whichever sessions send it at the same time, so  *)
(* that the sessions that lock it meet in one queue.                       *)
OneRecord ==
    \A n \in Plain : \A i, j \in Slots : name[i] = n /\ name[j] = n => i = j

(* lockFile: no two sessions are granted the lock of a file at once.       *)
MutualExclusion ==
    \A n \in Plain, s, t \in Sockets : <<s, n>> \in holds /\ <<t, n>> \in holds => s = t

(* Without deletions the grants are those of FileLock.                     *)
PlainHolds == {h \in holds : h[2] \in Plain}
Abstract == INSTANCE FileLock WITH Files <- Plain, Sessions <- Sockets, locked <- PlainHolds

(* Every step grants a free lock, gives one up, ends sessions, or leaves   *)
(* the locks alone: lockFile implements the mutual exclusion it announces. *)
ImplementsFileLock == Abstract!Spec

(* The queue decides: who has been granted a lock is first in the queue of *)
(* the file's record, until the session releases it or ends.               *)
HolderIsFirst ==
    \A n \in Plain, s \in Sockets :
        <<s, n>> \in holds => \E i \in Matching(n) : lock[i] # <<>> /\ lock[i][1] = s

(* A file is stored when it is on disk and a record of it is in use.       *)
Stored(n) == n \in disk /\ Matching(n) # {}
Deletes(s, n) == op[s] = [kind |-> "delete", file |-> n]

(* A file that is stored stays stored until a session deletes it: neither  *)
(* the record that a deletion moves, nor an upload that crosses it or      *)
(* fails, nor a table that is full or recovered loses another file.        *)
FilesStay ==
    [][\A n \in Plain :
          Stored(n) /\ ~Stored(n)' =>
              undefined' \/ \E s \in Sockets : Deletes(s, n) \/ Deletes(s, n)']_vars

(* A session deletes a file while another one sends or deletes the same,   *)
(* or while the table is full, when deleteFile forgets nothing.            *)
Crossed(n) ==
    \E s \in Sockets :
        /\ Deletes(s, n)
        /\ Empty = {} \/ \E t \in Sockets \ {s} : op[t].kind # "idle" /\ op[t].file = n

HasFile(n) == Matching(n) # {} => n \in disk \/ \E s \in Sockets : Deletes(s, n)

(* A record whose file is gone is one that sync_server offers and no       *)
(* client can fetch.  Only commands on the very file that cross make one:  *)
(* what sessions do to other files at the same time, failures and restarts *)
(* do not.                                                                 *)
RecordsHaveFiles == \A n \in Plain : []~Crossed(n) => []HasFile(n)

(* The files that sync_server, in the middle of its loop, has sent, and    *)
(* those it is still to send.                                              *)
Sent(s) == {n \in Plain : \E i \in Matching(n) : i < list[s].next}
ToSend(s) ==
    {n \in Plain : \E i \in Matching(n) : list[s].next <= i /\ i < list[s].total}

(* sync_server walks the records by index while other sessions write and   *)
(* move them.  It offers no file twice, and leaves none out that keeps its *)
(* record, but for one a deletion: the file whose record deleteFile moves  *)
(* to a place the loop has passed.                                         *)
ListsOnce ==
    [][\A s \in Sockets : list'[s] = list[s] =>
          LET skipped == {n \in ToSend(s) : Matching(n)' # {} /\ n \notin ToSend(s)'}
          IN  /\ Sent(s) \cap ToSend(s)' = {}
              /\ \A m, n \in skipped : m = n
              /\ skipped # {} =>
                    \E t \in Sockets : \E n \in Names \ skipped : Deletes(t, n) /\ ~Deletes(t, n)']_vars

(* Who is in the queue of a file n is expected to ask again, or to release *)
(* it.  It will do neither when its client has stopped asking, when its    *)
(* thread has ended without logging out (the descriptor may serve another  *)
(* session by now), and when it holds n while its file watcher is busy     *)
(* asking for another file.                                                *)
Stuck(n) ==
    \E i \in Matching(n) : \E t \in Members(lock[i]) :
        /\ wants[t] # n
        /\ <<t, n>> \in holds => wants[t] # NoName

(* A client that polls for the lock of a file gets it, or stops asking,    *)
(* however many are before it, unless one of them is stuck.                *)
WaiterServed ==
    \A s \in Sockets, n \in Names : (wants[s] = n) ~> (wants[s] # n \/ Stuck(n))

(* A request that the server answers with its failure message does not     *)
(* make a client believe it has a lock that another client has.            *)
NoFalseGrant ==
    \A n \in Names, s, t \in Sockets : <<s, n>> \in misled /\ <<t, n>> \in holds => s = t

=============================================================================
