-------------------------- MODULE FileTableProofs --------------------------
(***************************************************************************)
(* Proofs about FileTable, for any names, sessions and size of the table:  *)
(* the records in use come first and a file has one record, whatever       *)
(* uploads and deletions cross; when the clients delete no file, the lock  *)
(* queues implement FileLock; and what is done to one file does not reach  *)
(* another, on disk, in the table or in a list that is being sent.         *)
(***************************************************************************)
EXTENDS FileTable, FiniteSetTheorems, SequenceTheorems, WellFoundedInduction, TLAPS

(* Slots is a finite set of MaxFiles naturals.                             *)
LEMMA SlotsFinite ==
    /\ IsFiniteSet(Slots) /\ Cardinality(Slots) = MaxFiles
    /\ Slots \subseteq Nat
BY FS_Interval, MaxFilesAssumption DEF Slots

(* A loop that looks for the first record of a kind finds the one with the *)
(* least index, if there is one: of the sets of smaller indices of the     *)
(* candidates one is minimal.                                              *)
LEMMA FirstLeast ==
    ASSUME NEW S, S \subseteq Slots, S # {}
    PROVE  First(S) \in S /\ \A j \in S : First(S) <= j
<1> DEFINE Below(i) == {k \in Slots : k < i}
           T == {Below(i) : i \in S}
<1>1. T \subseteq FiniteSubsetsOf(Slots)
  BY SlotsFinite, FS_Subset DEF FiniteSubsetsOf
<1>2. PICK x \in T : \A y \in T : <<y, x>> \notin StrictSubsetOrdering(Slots)
  <2>1. T # {}
    OBVIOUS
  <2> HIDE DEF T
  <2> QED
    BY <1>1, <2>1, FS_StrictSubsetOrderingWellFounded, WFMin
<1>3. PICK i \in S : x = Below(i)
  OBVIOUS
<1>4. ASSUME NEW j \in S PROVE i <= j
  <2> SUFFICES ASSUME j < i PROVE FALSE
    BY SlotsFinite
  <2>1. Below(j) \subseteq Below(i) /\ j \in Below(i) /\ j \notin Below(j)
    BY MaxFilesAssumption DEF Slots
  <2>2. <<Below(j), x>> \in StrictSubsetOrdering(Slots)
    BY <1>3, <2>1 DEF StrictSubsetOrdering
  <2> QED
    BY <1>2, <2>2
<1> QED
  BY <1>4 DEF First

(* There is always a heap block no vector uses.                            *)
LEMMA FreshStoreExists ==
    /\ FreshStore \in 1 .. MaxFiles + 1
    /\ \A i \in Slots : store[i] # FreshStore
<1> SUFFICES ASSUME \A b \in 1 .. MaxFiles + 1 : \E i \in Slots : store[i] = b
             PROVE  FALSE
  BY DEF FreshStore
<1> DEFINE owner == [b \in 1 .. MaxFiles + 1 |-> CHOOSE i \in Slots : store[i] = b]
<1>1. owner \in [1 .. MaxFiles + 1 -> Slots]
  OBVIOUS
<1> DEFINE Blocks == 1 .. MaxFiles + 1
<1>2. IsFiniteSet(1 .. MaxFiles + 1) /\ Cardinality(1 .. MaxFiles + 1) = MaxFiles + 1
  BY FS_Interval, MaxFilesAssumption
<1>3. PICK x, y \in Blocks : x # y /\ owner[x] = owner[y]
  <2>1. /\ Cardinality(Slots) < Cardinality(Blocks)
        /\ IsFiniteSet(Blocks) /\ owner \in [Blocks -> Slots]
    BY <1>1, <1>2, SlotsFinite, MaxFilesAssumption
  <2> HIDE DEF owner, Blocks
  <2> QED
    BY <2>1, SlotsFinite, FS_PigeonHole
<1>4. store[owner[x]] = x /\ store[owner[y]] = y
  OBVIOUS
<1> QED
  BY <1>3, <1>4

(* Erasing a session from a queue leaves a queue, and leaves another       *)
(* session first if it was first.                                          *)
LEMMA WithoutQueue ==
    ASSUME NEW q \in Seq(Sockets), NEW s
    PROVE  /\ Without(q, s) \in Seq(Sockets)
           /\ q # <<>> /\ q[1] # s => Without(q, s) # <<>> /\ Without(q, s)[1] = q[1]
<1>1. CASE s \notin Members(q)
  BY <1>1 DEF Without
<1>2. CASE s \in Members(q)
  <2>1. PICK k \in 1 .. Len(q) : /\ q[k] = s
                                 /\ Without(q, s) = [i \in 1 .. Len(q) - 1 |->
                                                        IF i < k THEN q[i] ELSE q[i + 1]]
    BY <1>2 DEF Without, Members
  <2>2. Len(q) \in Nat /\ \A i \in 1 .. Len(q) : q[i] \in Sockets
    OBVIOUS
  <2> DEFINE r == [i \in 1 .. Len(q) - 1 |-> IF i < k THEN q[i] ELSE q[i + 1]]
  <2>3. r \in [1 .. Len(q) - 1 -> Sockets] /\ Len(q) - 1 \in Nat
    BY <2>1, <2>2
  <2>4. r \in Seq(Sockets) /\ Len(r) = Len(q) - 1
    BY <2>3, IsASeq
  <2>5. ASSUME q # <<>>, q[1] # s PROVE r # <<>> /\ r[1] = q[1]
    <3>1. k > 1 /\ Len(q) > 1
      BY <2>1, <2>2, <2>5
    <3>2. r[1] = q[1]
      BY <2>2, <3>1
    <3> HIDE DEF r
    <3> QED
      BY <2>2, <2>4, <3>1, <3>2
  <2> QED
    BY <2>1, <2>4, <2>5
<1> QED
  BY <1>1, <1>2

(* Joining a queue leaves a queue that is not empty, with the same session *)
(* first unless it was empty.                                              *)
LEMMA EnqueuedQueue ==
    ASSUME NEW s \in Sockets, NEW i \in Slots, lock[i] \in Seq(Sockets)
    PROVE  /\ Enqueued(s, i) \in Seq(Sockets)
           /\ Enqueued(s, i) # <<>>
           /\ lock[i] # <<>> => Enqueued(s, i)[1] = lock[i][1]
<1>1. CASE s \in Members(lock[i])
  <2>1. lock[i] # <<>>
    BY <1>1 DEF Members
  <2> QED
    BY <1>1, <2>1 DEF Enqueued
<1>2. CASE s \notin Members(lock[i])
  <2>1. Enqueued(s, i) = Append(lock[i], s)
    BY <1>2 DEF Enqueued
  <2> QED
    BY <2>1, AppendProperties, EmptySeq
<1> QED
  BY <1>1, <1>2
-----------------------------------------------------------------------------
(* A handler that is half way through works on a file.                     *)
OpsHaveFiles == \A s \in Sockets : op[s].kind # "idle" => op[s].file \in Names

Inv == TypeOK /\ OpsHaveFiles /\ Compact /\ OneRecord

NameType == name \in [Slots -> Texts \cup {NoName}]

(* What a directory recovers to has no hole, and no name twice.            *)
LEMMA RecoveredTable ==
    ASSUME NEW d \in SUBSET Names, Cardinality(d) <= MaxFiles, NEW order \in Listings(d)
    PROVE  LET nm == RecoveredName(order) IN
           /\ nm \in [Slots -> Texts \cup {NoName}]
           /\ \A i, j \in Slots : i < j /\ nm[i] = NoName => nm[j] = NoName
           /\ \A n \in Plain : \A i, j \in Slots : nm[i] = n /\ nm[j] = n => i = j
<1> DEFINE nm == RecoveredName(order)
<1>1. IsFiniteSet(d) /\ Cardinality(d) \in Nat
  BY NamesAssumption, FS_Subset, FS_CardinalityType
<1>2. order \in [0 .. Cardinality(d) - 1 -> d]
  BY DEF Listings
<1>3. \A i \in Slots :
        nm[i] = IF i < Cardinality(d) THEN AsRecovered[order[i]] ELSE NoName
  BY <1>1, <1>2, MaxFilesAssumption DEF RecoveredName, Slots
<1>4. \A i \in Slots : i < Cardinality(d) => order[i] \in Names /\ AsRecovered[order[i]] \in Texts
  BY <1>1, <1>2, NamesAssumption DEF Slots
<1>5. nm \in [Slots -> Texts \cup {NoName}]
  BY <1>3, <1>4 DEF RecoveredName
<1> HIDE DEF nm
<1>6. ASSUME NEW i \in Slots, NEW j \in Slots, i < j, nm[i] = NoName
      PROVE  nm[j] = NoName
  <2>1. ~ (i < Cardinality(d))
    BY <1>3, <1>4, <1>6, NamesAssumption
  <2>2. ~ (j < Cardinality(d))
    BY <1>1, <1>6, <2>1, SlotsFinite
  <2> QED
    BY <1>3, <2>2
<1>7. ASSUME NEW n \in Plain, NEW i \in Slots, NEW j \in Slots, nm[i] = n, nm[j] = n
      PROVE  i = j
  <2>1. n \in Names /\ n # NoName /\ \A m \in Names : AsRecovered[m] = n => m = n
    BY NamesAssumption DEF Plain
  <2>2. i < Cardinality(d) /\ j < Cardinality(d)
    BY <1>3, <1>7, <2>1
  <2>3. order[i] = n /\ order[j] = n
    BY <1>3, <1>4, <1>7, <2>1, <2>2
  <2>4. i \in DOMAIN order /\ j \in DOMAIN order
    BY <1>1, <1>2, <2>2 DEF Slots
  <2> QED
    BY <2>3, <2>4 DEF Listings
<1> QED
  BY <1>5, <1>6, <1>7 DEF nm

(* assignNewFile takes the record of the file or the first empty one.      *)
LEMMA AssignedTable ==
    ASSUME NameType, Compact, OneRecord, NEW n \in Names, AssignNewFile(n)
    PROVE  NameType' /\ Compact' /\ OneRecord'
<1> DEFINE room == IF Matching(n) # {} THEN Matching(n) ELSE Empty
           r == First(room)
<1>1. CASE room = {}
  BY <1>1 DEF AssignNewFile, NameType, Compact, OneRecord
<1>2. CASE room # {}
  <2>1. r \in room /\ (\A j \in room : r <= j) /\ r \in Slots
    BY <1>2, FirstLeast DEF Matching, Empty
  <2>2. name' = [name EXCEPT ![r] = AsStored[n]]
    BY <1>2 DEF AssignNewFile
  <2>3. AsStored[n] \in Texts /\ AsStored[n] # NoName /\ n # NoName
    BY NamesAssumption
  <2>4. NameType'
    BY <2>1, <2>2, <2>3 DEF NameType
  <2>5. name[r] = n \/ (Matching(n) = {} /\ name[r] = NoName /\ \A j \in Empty : r <= j)
    BY <2>1 DEF Matching, Empty, Used
  <2>6. Compact'
    <3> SUFFICES ASSUME NEW i \in Slots, NEW j \in Slots, i < j, name'[i] = NoName
                 PROVE  name'[j] = NoName
      BY DEF Compact
    <3>1. i # r /\ name[i] = NoName
      BY <2>1, <2>2, <2>3 DEF NameType
    <3>2. name[j] = NoName
      BY <3>1 DEF Compact
    <3>3. j # r
      <4>1. i \in Empty
        BY <3>1 DEF Empty, Used
      <4> QED
        BY <2>3, <2>5, <3>1, <3>2, <4>1, SlotsFinite
    <3> QED
      BY <2>1, <2>2, <3>2, <3>3 DEF NameType
  <2>7. OneRecord'
    <3> SUFFICES ASSUME NEW m \in Plain, NEW i \in Slots, NEW j \in Slots,
                        name'[i] = m, name'[j] = m
                 PROVE  i = j
      BY DEF OneRecord
    <3>1. AsStored[n] = m => n = m
      BY DEF Plain
    <3>2. CASE n = m
      <4>1. \A k \in Slots : name'[k] = n => k = r \/ name[k] = n
        BY <2>1, <2>2 DEF NameType
      <4> QED
        BY <2>5, <3>2, <4>1 DEF OneRecord, Matching
    <3>3. CASE n # m
      <4>1. \A k \in Slots : name'[k] = m => name[k] = m
        BY <2>1, <2>2, <3>1, <3>3 DEF NameType
      <4> QED
        BY <4>1 DEF OneRecord
    <3> QED
      BY <3>2, <3>3
  <2> QED
    BY <2>4, <2>6, <2>7
<1> QED
  BY <1>1, <1>2

(* deleteFile moves the record in front of the first empty one, which is   *)
(* the last one in use because the records in use come first.              *)
LEMMA ForgottenTable ==
    ASSUME TypeOK, Compact, OneRecord, NEW n \in Names, ForgetFile(n)
    PROVE  /\ NameType' /\ Compact' /\ OneRecord'
           /\ lock' \in [Slots -> Seq(Sockets)]
           /\ store' \in [Slots -> 0 .. MaxFiles + 1]
<1> DEFINE f == First(Matching(n))
           last == First(Empty) - 1
<1>1. CASE UNCHANGED table
  BY <1>1 DEF table, TypeOK, NameType, Compact, OneRecord
<1>2. CASE Matching(n) # {} /\ Empty # {} /\ ~ (f > last)
  <2>1. f \in Slots /\ name[f] = n
    BY <1>2, FirstLeast DEF Matching
  <2>2. First(Empty) \in Slots /\ name[First(Empty)] = NoName /\ \A j \in Empty : First(Empty) <= j
    BY <1>2, FirstLeast DEF Empty, Used
  <2>3. last \in Slots /\ f <= last
    BY <1>2, <2>1, <2>2, MaxFilesAssumption DEF Slots
  <2> HIDE DEF f, last
  <2>4. \A j \in Slots : j > last <=> name[j] = NoName
    <3>1. \A j \in Slots : j > last => j = First(Empty) \/ j > First(Empty)
      BY <2>2, MaxFilesAssumption DEF last, Slots
    <3>2. \A j \in Slots : j > last => name[j] = NoName
      BY <2>2, <3>1 DEF Compact
    <3>3. \A j \in Slots : name[j] = NoName => First(Empty) <= j
      BY <2>2 DEF Empty, Used
    <3>4. \A j \in Slots : First(Empty) <= j => j > last
      BY <2>2, MaxFilesAssumption DEF last, Slots
    <3> QED
      BY <3>2, <3>3, <3>4
  <2>5. /\ name' = [name EXCEPT ![f] = name[last], ![last] = NoName]
        /\ lock' = [lock EXCEPT ![f] = lock[last]]
        /\ store' = [store EXCEPT ![f] = store[last]]
    BY <1>2 DEF ForgetFile, f, last
  <2>6. \A j \in Slots : name'[j] = IF j = last THEN NoName
                                    ELSE IF j = f THEN name[last] ELSE name[j]
    BY <2>1, <2>3, <2>5 DEF TypeOK
  <2>7. NameType' /\ lock' \in [Slots -> Seq(Sockets)] /\ store' \in [Slots -> 0 .. MaxFiles + 1]
    BY <2>1, <2>3, <2>5 DEF TypeOK, NameType
  <2>8. \A j \in Slots : name'[j] = NoName <=> j >= last
    <3>1. \A j \in Slots : j > last => j # f
      BY <2>1, <2>3, SlotsFinite
    <3>2. \A j \in Slots : j >= last <=> j > last \/ j = last
      BY <2>3, SlotsFinite
    <3>3. name[last] # NoName
      BY <2>3, <2>4, SlotsFinite
    <3> QED
      BY <2>4, <2>6, <3>1, <3>2, <3>3
  <2>9. Compact'
    <3>1. \A i, j \in Slots : i < j /\ i >= last => j >= last
      BY <2>3, SlotsFinite
    <3> QED
      BY <2>8, <3>1 DEF Compact
  <2>10. OneRecord'
    <3> SUFFICES ASSUME NEW m \in Plain, NEW i \in Slots, NEW j \in Slots,
                        name'[i] = m, name'[j] = m
                 PROVE  i = j
      BY DEF OneRecord
    <3>1. m # NoName
      BY NamesAssumption DEF Plain
    <3> DEFINE from(k) == IF k = f THEN last ELSE k
    <3>2. i # last /\ j # last
      BY <2>6, <3>1
    <3>3. name[from(i)] = m /\ name[from(j)] = m /\ from(i) \in Slots /\ from(j) \in Slots
      BY <2>3, <2>6, <3>2
    <3>4. from(i) = from(j)
      BY <3>3 DEF OneRecord
    <3> QED
      BY <3>2, <3>4
  <2> QED
    BY <2>7, <2>9, <2>10
<1> QED
  BY <1>1, <1>2 DEF ForgetFile
-----------------------------------------------------------------------------
OpType == [kind : {"idle", "upload", "delete"}, file : Names \cup {NoName}]
ListType == [next : 0 .. MaxFiles, total : 0 .. MaxFiles, asked : BOOLEAN]

(* A session that does nothing.                                            *)
LEMMA InitialTypes == Idle \in OpType /\ NoList \in ListType
BY MaxFilesAssumption DEF Idle, NoList, OpType, ListType

(* The invariant holds when the server starts.                             *)
LEMMA InitInv == Init => Inv
<1> SUFFICES ASSUME Init PROVE Inv
  OBVIOUS
<1>1. PICK order \in Listings(disk) : name = RecoveredName(order)
  BY DEF Init
<1>2. disk \in SUBSET Names /\ Cardinality(disk) <= MaxFiles
  BY DEF Init
<1>3. NameType /\ Compact /\ OneRecord
  BY <1>1, <1>2, RecoveredTable DEF NameType, Compact, OneRecord
<1>4. TypeOK
  <2>1. lock \in [Slots -> Seq(Sockets)]
    BY EmptySeq DEF Init
  <2>2. store \in [Slots -> 0 .. MaxFiles + 1]
    BY MaxFilesAssumption DEF Init
  <2>3. op \in [Sockets -> OpType] /\ list \in [Sockets -> ListType]
    BY InitialTypes DEF Init
  <2> QED
    BY <1>2, <1>3, <2>1, <2>2, <2>3 DEF Init, TypeOK, NameType, OpType, ListType
<1>5. OpsHaveFiles
  BY DEF Init, OpsHaveFiles, Idle
<1> QED
  BY <1>3, <1>4, <1>5 DEF Inv

(* The queue of a record is joined, and gets a heap block if it had none.  *)
LEMMA EnqueueTypes ==
    ASSUME TypeOK, NEW s \in Sockets, NEW i \in Slots, Enqueue(s, i)
    PROVE  lock' \in [Slots -> Seq(Sockets)] /\ store' \in [Slots -> 0 .. MaxFiles + 1]
<1>1. Enqueued(s, i) \in Seq(Sockets)
  BY EnqueuedQueue DEF TypeOK
<1>2. FreshStore \in 0 .. MaxFiles + 1
  BY FreshStoreExists, MaxFilesAssumption
<1> QED
  BY <1>1, <1>2 DEF Enqueue, TypeOK

(* Every step keeps the types.                                             *)
LEMMA StepTypeOK == Inv /\ [Next]_vars => TypeOK'
<1> SUFFICES ASSUME Inv, [Next]_vars PROVE TypeOK'
  OBVIOUS
<1> USE DEF Inv, TypeOK, table, clients
<1>0. /\ op \in [Sockets -> OpType] /\ list \in [Sockets -> ListType]
      /\ Idle \in OpType /\ NoList \in ListType
  BY InitialTypes DEF OpType, ListType
<1>1. ASSUME NEW s \in Sockets, Connect(s) PROVE TypeOK'
  BY <1>1 DEF Connect
<1>2. ASSUME NEW s \in Sockets, NEW n \in Names, UploadBegin(s, n) PROVE TypeOK'
  <2>1. op' \in [Sockets -> OpType]
    BY <1>0, <1>2 DEF UploadBegin, OpType
  <2>2. list' \in [Sockets -> ListType]
    BY <1>0, <1>2 DEF UploadBegin, ListType
  <2> QED
    BY <1>2, <2>1, <2>2 DEF UploadBegin, OpType, ListType
<1>3. ASSUME NEW s \in Sockets, NEW n \in Names, DeleteOnDisk(s, n) PROVE TypeOK'
  <2>1. op' \in [Sockets -> OpType]
    BY <1>0, <1>3 DEF DeleteOnDisk, OpType
  <2> QED
    BY <1>3, <2>1 DEF DeleteOnDisk, OpType
<1>4. ASSUME NEW s \in Sockets, UploadEnd(s) PROVE TypeOK'
  <2>1. NameType'
    BY <1>4, AssignedTable DEF UploadEnd, OpsHaveFiles, NameType
  <2>2. op' \in [Sockets -> OpType]
    BY <1>0, <1>4 DEF UploadEnd
  <2> QED
    BY <1>4, <2>1, <2>2 DEF UploadEnd, NameType, OpType
<1>5. ASSUME NEW s \in Sockets, DeleteEnd(s) PROVE TypeOK'
  <2>1. /\ NameType' /\ lock' \in [Slots -> Seq(Sockets)]
        /\ store' \in [Slots -> 0 .. MaxFiles + 1]
    BY <1>5, ForgottenTable DEF DeleteEnd, OpsHaveFiles
  <2>2. op' \in [Sockets -> OpType]
    BY <1>0, <1>5 DEF DeleteEnd
  <2> QED
    BY <1>5, <2>1, <2>2 DEF DeleteEnd, NameType, OpType
<1>6. ASSUME NEW s \in Sockets, UploadFails(s) PROVE TypeOK'
  <2>1. op' \in [Sockets -> OpType]
    BY <1>0, <1>6 DEF UploadFails
  <2> QED
    BY <1>6, <2>1 DEF UploadFails, OpType
<1>7. ASSUME NEW s \in Sockets, ListBegin(s) PROVE TypeOK'
  <2>1. Cardinality(Used) \in 0 .. MaxFiles
    BY SlotsFinite, FS_Subset, FS_CardinalityType, MaxFilesAssumption DEF Used
  <2>2. [NoList EXCEPT !.total = Cardinality(Used)] \in ListType
    BY <1>0, <2>1 DEF ListType
  <2>3. list' \in [Sockets -> ListType]
    BY <1>0, <1>7, <2>2 DEF ListBegin
  <2> QED
    BY <1>7, <2>3 DEF ListBegin, ListType
<1>8. ASSUME NEW s \in Sockets, ListNext(s) PROVE TypeOK'
  <2>1. list[s].next + 1 \in 0 .. MaxFiles
    BY <1>8, MaxFilesAssumption DEF ListNext
  <2> QED
    BY <1>8, <2>1 DEF ListNext
<1>9. ASSUME NEW s \in Sockets, ListEnd(s) PROVE TypeOK'
  <2>1. list' \in [Sockets -> ListType]
    BY <1>0, <1>9 DEF ListEnd
  <2> QED
    BY <1>9, <2>1 DEF ListEnd, ListType
<1>10. ASSUME NEW s \in Sockets, NEW n \in Names, OpenFile(s, n) PROVE TypeOK'
  BY <1>10 DEF OpenFile
<1>11. ASSUME NEW s \in Sockets, LockUnknown(s) \/ StopAsking(s) PROVE TypeOK'
  <2>1. wants[s] \in Names
    BY <1>11 DEF LockUnknown, StopAsking
  <2>2. misled' \subseteq Sockets \X Names
    BY <1>11, <2>1 DEF LockUnknown, StopAsking
  <2>3. wants' \in [Sockets -> Names \cup {NoName}]
    BY <1>11 DEF LockUnknown, StopAsking
  <2> QED
    BY <1>11, <2>2, <2>3 DEF LockUnknown, StopAsking
<1>12. ASSUME NEW s \in Sockets, LockGranted(s) \/ LockQueued(s) PROVE TypeOK'
  <2> DEFINE i == First(Matching(wants[s]))
  <2>1. i \in Slots
    BY <1>12, FirstLeast DEF LockGranted, LockQueued, Matching
  <2>2. Enqueue(s, i)
    BY <1>12 DEF LockGranted, LockQueued
  <2>3. lock' \in [Slots -> Seq(Sockets)] /\ store' \in [Slots -> 0 .. MaxFiles + 1]
    BY <2>1, <2>2, EnqueueTypes
  <2>4. wants[s] \in Names
    BY <1>12 DEF LockGranted, LockQueued
  <2>5. holds' \subseteq Sockets \X Names
    BY <1>12, <2>4 DEF LockGranted, LockQueued
  <2>6. wants' \in [Sockets -> Names \cup {NoName}]
    BY <1>12 DEF LockGranted, LockQueued
  <2> QED
    BY <1>12, <2>3, <2>5, <2>6 DEF LockGranted, LockQueued
<1>13. ASSUME NEW s \in Sockets, NEW n \in Names, Unlock(s, n) PROVE TypeOK'
  <2>1. \A q \in Seq(Sockets) : Without(q, s) \in Seq(Sockets)
    BY WithoutQueue
  <2>2. lock' \in [Slots -> Seq(Sockets)]
    BY <1>13, <2>1 DEF Unlock
  <2> QED
    BY <1>13, <2>2 DEF Unlock
<1>14. ASSUME NEW s \in Sockets, SessionOver(s) PROVE
         /\ list' \in [Sockets -> ListType] /\ on' \subseteq Sockets
         /\ wants' \in [Sockets -> Names \cup {NoName}]
         /\ holds' \subseteq Sockets \X Names /\ misled' \subseteq Sockets \X Names
  BY <1>0, <1>14 DEF SessionOver
<1>15. ASSUME NEW s \in Sockets, LogOut(s) PROVE TypeOK'
  <2>1. \A q \in Seq(Sockets) : Without(q, s) \in Seq(Sockets)
    BY WithoutQueue
  <2>2. lock' \in [Slots -> Seq(Sockets)]
    BY <1>15, <2>1 DEF LogOut
  <2> QED
    BY <1>14, <1>15, <2>2 DEF LogOut, ListType
<1>16. ASSUME NEW s \in Sockets, Vanish(s) PROVE TypeOK'
  BY <1>14, <1>16 DEF Vanish, ListType
<1>17. ASSUME NEW s \in Sockets, TouchSharedVector(s) PROVE TypeOK'
  BY <1>17 DEF TouchSharedVector
<1>18. ASSUME Restart PROVE TypeOK'
  <2>1. NameType'
    <3>1. CASE \E order \in Listings(disk) : name' = RecoveredName(order) /\ Cardinality(disk) <= MaxFiles
      <4>1. PICK order \in Listings(disk) : name' = RecoveredName(order)
        BY <3>1
      <4> QED
        BY <3>1, <4>1, RecoveredTable DEF NameType
    <3>2. CASE name' = [i \in Slots |-> NoName]
      BY <3>2 DEF NameType
    <3> QED
      BY <1>18, <3>1, <3>2 DEF Restart
  <2>2. lock' \in [Slots -> Seq(Sockets)]
    BY <1>18, EmptySeq DEF Restart
  <2>3. store' \in [Slots -> 0 .. MaxFiles + 1]
    BY <1>18, MaxFilesAssumption DEF Restart
  <2>4. op' \in [Sockets -> OpType] /\ list' \in [Sockets -> ListType]
    BY <1>0, <1>18 DEF Restart
  <2> QED
    BY <1>18, <2>1, <2>2, <2>3, <2>4 DEF Restart, NameType, OpType, ListType
<1>19. CASE UNCHANGED vars
  BY <1>19 DEF vars
<1> QED
  BY <1>1, <1>2, <1>3, <1>4, <1>5, <1>6, <1>7, <1>8, <1>9, <1>10, <1>11, <1>12,
     <1>13, <1>15, <1>16, <1>17, <1>18, <1>19 DEF Next, Handler, Poll

(* Every step keeps what the handlers that are half way through work on.   *)
LEMMA StepOpsHaveFiles == Inv /\ [Next]_vars => OpsHaveFiles'
<1> SUFFICES ASSUME Inv, [Next]_vars, NEW t \in Sockets, op'[t].kind # "idle"
             PROVE  op'[t].file \in Names
  BY DEF OpsHaveFiles
<1> USE DEF Inv, TypeOK, OpsHaveFiles
<1>1. CASE UNCHANGED op
  BY <1>1
<1>2. ASSUME NEW s \in Sockets, NEW n \in Names, UploadBegin(s, n) \/ DeleteOnDisk(s, n)
      PROVE  op'[t].file \in Names
  <2>1. t # s => op'[t] = op[t]
    BY <1>2 DEF UploadBegin, DeleteOnDisk
  <2>2. t = s => op'[t].file = n
    BY <1>2 DEF UploadBegin, DeleteOnDisk
  <2> QED
    BY <2>1, <2>2
<1>3. ASSUME NEW s \in Sockets, UploadEnd(s) \/ UploadFails(s) \/ DeleteEnd(s)
      PROVE  op'[t].file \in Names
  <2>1. op' = [op EXCEPT ![s] = Idle]
    BY <1>3 DEF UploadEnd, UploadFails, DeleteEnd
  <2>2. t # s => op'[t] = op[t]
    BY <2>1
  <2>3. t # s
    BY <2>1 DEF Idle
  <2> QED
    BY <2>2, <2>3
<1>4. CASE Restart
  BY <1>4 DEF Restart, Idle
<1>5. UNCHANGED op \/ Restart
        \/ \E s \in Sockets :
              \/ UploadEnd(s) \/ UploadFails(s) \/ DeleteEnd(s)
              \/ \E n \in Names : UploadBegin(s, n) \/ DeleteOnDisk(s, n)
  BY DEF Next, Handler, Poll, vars, Connect, ListBegin, ListNext, ListEnd, OpenFile,
         LockUnknown, LockGranted, LockQueued, StopAsking, Unlock, LogOut, Vanish,
         TouchSharedVector
<1> QED
  BY <1>1, <1>2, <1>3, <1>4, <1>5

(* Every step keeps the table without holes and double records: only three *)
(* of them write names.                                                    *)
LEMMA StepRecords == Inv /\ [Next]_vars => Compact' /\ OneRecord'
<1> SUFFICES ASSUME Inv, [Next]_vars PROVE Compact' /\ OneRecord'
  OBVIOUS
<1> USE DEF Inv
<1>1. CASE UNCHANGED name
  BY <1>1 DEF Compact, OneRecord
<1>2. ASSUME NEW s \in Sockets, UploadEnd(s) PROVE Compact' /\ OneRecord'
  BY <1>2, AssignedTable DEF UploadEnd, OpsHaveFiles, TypeOK, NameType
<1>3. ASSUME NEW s \in Sockets, DeleteEnd(s) PROVE Compact' /\ OneRecord'
  BY <1>3, ForgottenTable DEF DeleteEnd, OpsHaveFiles
<1>4. CASE Restart
  <2>1. CASE name' = [i \in Slots |-> NoName]
    BY <2>1, NamesAssumption DEF Compact, OneRecord, Plain
  <2>2. CASE Cardinality(disk) <= MaxFiles /\ \E order \in Listings(disk) : name' = RecoveredName(order)
    <3>1. PICK order \in Listings(disk) : name' = RecoveredName(order)
      BY <2>2
    <3>2. /\ \A i, j \in Slots : i < j /\ name'[i] = NoName => name'[j] = NoName
          /\ \A n \in Plain : \A i, j \in Slots : name'[i] = n /\ name'[j] = n => i = j
      <4>1. disk \in SUBSET Names
        BY DEF TypeOK
      <4> QED
        BY <2>2, <3>1, <4>1, RecoveredTable
    <3> QED
      BY <3>2 DEF Compact, OneRecord
  <2> QED
    BY <1>4, <2>1, <2>2 DEF Restart
<1>5. UNCHANGED name \/ Restart \/ \E s \in Sockets : UploadEnd(s) \/ DeleteEnd(s)
  BY DEF Next, Handler, Poll, vars, table, Connect, UploadBegin, DeleteOnDisk, UploadFails,
         ListBegin, ListNext, ListEnd, OpenFile, LockUnknown, LockGranted, LockQueued,
         StopAsking, Unlock, LogOut, Vanish, TouchSharedVector
<1> QED
  BY <1>1, <1>2, <1>3, <1>4, <1>5

(* The conjunction is inductive.                                           *)
THEOREM Invariance == Safety => []Inv
<1>1. Inv /\ [Next]_vars => Inv'
  BY StepTypeOK, StepOpsHaveFiles, StepRecords DEF Inv
<1> QED
  BY InitInv, <1>1, PTL DEF Safety

(* Type correctness of the file table.                                     *)
THEOREM TypeCorrect == Safety => []TypeOK
BY Invariance, PTL DEF Inv

(* "Não podem haver registros vazios no meio do array", for a table of any *)
(* size, any number of sessions and names of any length: the first so many *)
(* records, which sync_server sends, are those in use.                     *)
THEOREM NoHoles == Safety => []Compact
BY Invariance, PTL DEF Inv

(* A file whose name reads back as written never gets a second record, so  *)
(* there is one queue to lock it by.                                       *)
THEOREM NoSecondRecord == Safety => []OneRecord
BY Invariance, PTL DEF Inv
-----------------------------------------------------------------------------
(* Without deletions no handler is half way through one.                   *)
NoDeletion == \A s \in Sockets : op[s].kind # "delete"

LockInv == Inv /\ HolderIsFirst /\ NoDeletion

(* Without deletions none ever begins.                                     *)
LEMMA StepNoDeletion ==
    ASSUME "delete" \notin Commands, Inv, NoDeletion, [Next]_vars
    PROVE  NoDeletion'
<1> SUFFICES ASSUME NEW t \in Sockets PROVE op'[t].kind # "delete"
  BY DEF NoDeletion
<1> USE DEF Inv, TypeOK, NoDeletion
<1>1. CASE UNCHANGED op
  BY <1>1
<1>2. ASSUME NEW s \in Sockets, op' = [op EXCEPT ![s] = Idle] PROVE op'[t].kind # "delete"
  <2>1. op'[t] = op[t] \/ op'[t] = Idle
    BY <1>2
  <2> QED
    BY <2>1 DEF Idle
<1>3. ASSUME NEW s \in Sockets, NEW n \in Names, UploadBegin(s, n)
      PROVE  op'[t].kind # "delete"
  <2>1. op'[t] = op[t] \/ op'[t].kind = "upload"
    BY <1>3 DEF UploadBegin
  <2> QED
    BY <2>1
<1>4. CASE Restart
  BY <1>4 DEF Restart, Idle
<1>5. UNCHANGED op \/ Restart
        \/ \E s \in Sockets :
              \/ op' = [op EXCEPT ![s] = Idle]
              \/ \E n \in Names : UploadBegin(s, n)
  BY DEF Next, Handler, Poll, vars, Connect, ListBegin, ListNext, ListEnd, OpenFile,
         LockUnknown, LockGranted, LockQueued, StopAsking, Unlock, LogOut, Vanish,
         TouchSharedVector, UploadEnd, UploadFails, DeleteEnd, DeleteOnDisk
<1> QED
  BY <1>1, <1>2, <1>3, <1>4, <1>5

(* Who holds a plain file is first in the queue of a record of that name.  *)
LEMMA HolderRecord ==
    ASSUME TypeOK, HolderIsFirst, NEW n \in Plain, NEW s \in Sockets, <<s, n>> \in holds
    PROVE  \E i \in Slots :
              name[i] = n /\ lock[i] \in Seq(Sockets) /\ lock[i] # <<>> /\ lock[i][1] = s
<1>1. PICK i \in Matching(n) : lock[i] # <<>> /\ lock[i][1] = s
  BY DEF HolderIsFirst
<1>2. i \in Slots /\ name[i] = n
  BY DEF Matching
<1>3. lock[i] \in Seq(Sockets)
  BY <1>2 DEF TypeOK
<1> QED
  BY <1>1, <1>2, <1>3

(* Asking for a lock leaves the others at the head of their queues.        *)
LEMMA GrantKeepsHolders ==
    ASSUME Inv, HolderIsFirst, NEW t \in Sockets, LockGranted(t) \/ LockQueued(t)
    PROVE  HolderIsFirst'
<1> DEFINE w == wants[t]
           r == First(Matching(w))
<1>1. Matching(w) # {} /\ Enqueue(t, r) /\ UNCHANGED name
  BY DEF LockGranted, LockQueued
<1>2. r \in Slots /\ name[r] = w
  BY <1>1, FirstLeast DEF Matching
<1>3. lock[r] \in Seq(Sockets)
  BY <1>2 DEF Inv, TypeOK
<1>4. /\ Enqueued(t, r) \in Seq(Sockets) /\ Enqueued(t, r) # <<>>
      /\ lock[r] # <<>> => Enqueued(t, r)[1] = lock[r][1]
  BY <1>2, <1>3, EnqueuedQueue
<1>5. \A i \in Slots : lock'[i] = IF i = r THEN Enqueued(t, r) ELSE lock[i]
  BY <1>1, <1>2 DEF Enqueue, Inv, TypeOK
<1> HIDE DEF r
<1>6. ASSUME NEW n \in Plain, NEW s \in Sockets, <<s, n>> \in holds
      PROVE  \E i \in Slots : name'[i] = n /\ lock'[i] # <<>> /\ lock'[i][1] = s
  <2>1. PICK i \in Slots : name[i] = n /\ lock[i] # <<>> /\ lock[i][1] = s
    BY <1>6, HolderRecord DEF Inv
  <2> QED
    BY <1>1, <1>4, <1>5, <2>1
<1>7. ASSUME LockGranted(t), w \in Plain
      PROVE  \E i \in Slots : name'[i] = w /\ lock'[i] # <<>> /\ lock'[i][1] = t
  <2>1. Enqueued(t, r)[1] = t
    BY <1>7 DEF LockGranted, r
  <2> QED
    BY <1>1, <1>2, <1>4, <1>5, <2>1
<1>8. holds' \subseteq holds \/ (LockGranted(t) /\ holds' = holds \cup {<<t, w>>})
  BY DEF LockGranted, LockQueued, clients
<1> SUFFICES ASSUME NEW n \in Plain, NEW s \in Sockets, <<s, n>> \in holds'
             PROVE  \E i \in Slots : name'[i] = n /\ lock'[i] # <<>> /\ lock'[i][1] = s
  BY DEF HolderIsFirst, Matching
<1> QED
  BY <1>6, <1>7, <1>8

(* Leaving queues does too, for whoever has not left.                      *)
LEMMA LeaveKeepsHolders ==
    ASSUME TypeOK, HolderIsFirst, NEW t \in Sockets, UNCHANGED name, holds' \subseteq holds,
           \A i \in Slots : lock'[i] = lock[i]
              \/ /\ lock'[i] = Without(lock[i], t)
                 /\ \A n \in Plain : name[i] = n => <<t, n>> \notin holds'
    PROVE  HolderIsFirst'
<1> SUFFICES ASSUME NEW n \in Plain, NEW s \in Sockets, <<s, n>> \in holds'
             PROVE  \E i \in Slots : name'[i] = n /\ lock'[i] # <<>> /\ lock'[i][1] = s
  BY DEF HolderIsFirst, Matching
<1>1. PICK i \in Slots :
         name[i] = n /\ lock[i] \in Seq(Sockets) /\ lock[i] # <<>> /\ lock[i][1] = s
  BY HolderRecord
<1>2. CASE lock'[i] = lock[i]
  BY <1>1, <1>2
<1>3. CASE lock'[i] = Without(lock[i], t) /\ <<t, n>> \notin holds'
  <2>1. s # t
    BY <1>3
  <2>2. Without(lock[i], t) # <<>> /\ Without(lock[i], t)[1] = s
    BY <1>1, <2>1, WithoutQueue
  <2> QED
    BY <1>1, <1>3, <2>2
<1> QED
  BY <1>1, <1>2, <1>3

(* An upload keeps the names of the records in use that read as written.   *)
LEMMA UploadKeepsHolders ==
    ASSUME TypeOK, HolderIsFirst, NEW m \in Names, AssignNewFile(m), UNCHANGED <<lock, holds>>
    PROVE  HolderIsFirst'
<1> DEFINE room == IF Matching(m) # {} THEN Matching(m) ELSE Empty
           r == First(room)
<1>1. CASE room = {}
  BY <1>1 DEF AssignNewFile, HolderIsFirst, Matching
<1>2. CASE room # {}
  <2>1. r \in room /\ r \in Slots
    BY <1>2, FirstLeast DEF Matching, Empty
  <2>2. name[r] = m \/ name[r] = NoName
    BY <2>1 DEF Matching, Empty, Used
  <2>3. name' = [name EXCEPT ![r] = AsStored[m]]
    BY <1>2 DEF AssignNewFile
  <2> HIDE DEF r
  <2>4. ASSUME NEW n \in Plain, NEW i \in Slots, name[i] = n PROVE name'[i] = n
    <3>1. n \in Names /\ n # NoName /\ AsStored[n] = n
      BY NamesAssumption DEF Plain
    <3>2. i = r => m = n
      BY <2>2, <2>4, <3>1
    <3>3. name'[i] = IF i = r THEN AsStored[m] ELSE name[i]
      BY <2>1, <2>3 DEF TypeOK
    <3> QED
      BY <2>4, <3>1, <3>2, <3>3
  <2> QED
    BY <2>4, HolderRecord DEF HolderIsFirst, Matching
<1> QED
  BY <1>1, <1>2

(* Every step keeps the holders first.                                     *)
LEMMA StepHolderIsFirst ==
    ASSUME "delete" \notin Commands, LockInv, [Next]_vars
    PROVE  HolderIsFirst'
<1> USE DEF LockInv, Inv
<1>1. CASE UNCHANGED <<name, lock>> /\ holds' \subseteq holds
  BY <1>1 DEF HolderIsFirst, Matching
<1>2. ASSUME NEW s \in Sockets, UploadEnd(s) PROVE HolderIsFirst'
  BY <1>2, UploadKeepsHolders DEF UploadEnd, OpsHaveFiles, clients
<1>3. ASSUME NEW s \in Sockets, LockGranted(s) \/ LockQueued(s) PROVE HolderIsFirst'
  BY <1>3, GrantKeepsHolders
<1>4. ASSUME NEW s \in Sockets, NEW n \in Names, Unlock(s, n) PROVE HolderIsFirst'
  <2>1. /\ UNCHANGED name /\ holds' = holds \ {<<s, n>>}
        /\ lock' = IF Matching(n) = {} THEN lock
                   ELSE [lock EXCEPT ![First(Matching(n))] = Without(@, s)]
    BY <1>4 DEF Unlock
  <2>2. ASSUME NEW i \in Slots, lock'[i] # lock[i]
        PROVE  lock'[i] = Without(lock[i], s) /\ name[i] = n
    <3>1. Matching(n) # {} /\ First(Matching(n)) \in Matching(n)
      BY <2>1, <2>2, FirstLeast DEF Matching
    <3>2. i = First(Matching(n)) /\ lock'[i] = Without(lock[i], s)
      BY <2>1, <2>2, <3>1 DEF TypeOK
    <3> QED
      BY <3>1, <3>2 DEF Matching
  <2> QED
    BY <2>1, <2>2, LeaveKeepsHolders
<1>5. ASSUME NEW s \in Sockets, LogOut(s) PROVE HolderIsFirst'
  <2>1. /\ UNCHANGED name /\ holds' = {h \in holds : h[1] # s}
        /\ lock' = [i \in Slots |-> IF i \in Used THEN Without(lock[i], s) ELSE lock[i]]
    BY <1>5 DEF LogOut, SessionOver
  <2>2. \A n : <<s, n>> \notin holds'
    BY <2>1
  <2> QED
    BY <2>1, <2>2, LeaveKeepsHolders
<1>6. CASE Restart
  BY <1>6 DEF Restart, HolderIsFirst
<1>7. \/ UNCHANGED <<name, lock>> /\ holds' \subseteq holds
      \/ Restart
      \/ \E s \in Sockets :
            \/ UploadEnd(s) \/ LockGranted(s) \/ LockQueued(s) \/ LogOut(s)
            \/ \E n \in Names : Unlock(s, n)
  <2>1. \A s \in Sockets : ~ DeleteEnd(s)
    BY DEF DeleteEnd, NoDeletion
  <2> QED
    BY <2>1 DEF Next, Handler, Poll, vars, table, clients, Connect, UploadBegin, DeleteOnDisk,
         UploadFails, ListBegin, ListNext, ListEnd, OpenFile, LockUnknown, StopAsking,
         Vanish, SessionOver, TouchSharedVector
<1> QED
  BY <1>1, <1>2, <1>3, <1>4, <1>5, <1>6, <1>7

(* Without deletions the lock queues decide who holds.                     *)
THEOREM LockInvariance == "delete" \notin Commands => (Safety => []LockInv)
<1> SUFFICES ASSUME "delete" \notin Commands PROVE Safety => []LockInv
  OBVIOUS
<1>1. Init => LockInv
  BY InitInv DEF Init, LockInv, HolderIsFirst, NoDeletion, Idle
<1>2. LockInv /\ [Next]_vars => LockInv'
  BY StepTypeOK, StepOpsHaveFiles, StepRecords, StepNoDeletion, StepHolderIsFirst
     DEF LockInv, Inv
<1> QED
  BY <1>1, <1>2, PTL DEF Safety

(* Without deletions, whoever has been granted the lock of a file is first *)
(* in its queue, however sessions end and descriptors are used again.      *)
THEOREM HoldersFirst == "delete" \notin Commands => (Safety => []HolderIsFirst)
<1> SUFFICES ASSUME "delete" \notin Commands PROVE Safety => []HolderIsFirst
  OBVIOUS
<1>1. Safety => []LockInv
  BY LockInvariance
<1> QED
  BY <1>1, PTL DEF LockInv

(* One record and one first in its queue: two holders are one.             *)
LEMMA HoldersExclude == LockInv => MutualExclusion
<1> SUFFICES ASSUME LockInv, NEW n \in Plain, NEW s \in Sockets, NEW t \in Sockets,
                    <<s, n>> \in holds, <<t, n>> \in holds
             PROVE  s = t
  BY DEF MutualExclusion
<1>1. PICK i \in Slots : name[i] = n /\ lock[i][1] = s
  BY HolderRecord DEF LockInv, Inv
<1>2. PICK j \in Slots : name[j] = n /\ lock[j][1] = t
  BY HolderRecord DEF LockInv, Inv
<1>3. i = j
  BY <1>1, <1>2 DEF LockInv, Inv, OneRecord
<1> QED
  BY <1>1, <1>2, <1>3

(* "Faz a exclusão mútua distribuída para um arquivo": true of any number  *)
(* of sessions and files as long as no file is deleted.                    *)
THEOREM Exclusion == "delete" \notin Commands => (Safety => []MutualExclusion)
<1> SUFFICES ASSUME "delete" \notin Commands PROVE Safety => []MutualExclusion
  OBVIOUS
<1>1. Safety => []LockInv
  BY LockInvariance
<1> QED
  BY <1>1, HoldersExclude, PTL
-----------------------------------------------------------------------------
(* Every step is one of FileLock, or leaves the locks of plain files alone. *)
LEMMA StepImplements ==
    ASSUME LockInv, LockInv', [Next]_vars
    PROVE  [Abstract!Next]_PlainHolds
<1> USE DEF Abstract!Next, Abstract!Grant, Abstract!Release, Abstract!Leave, Abstract!Reset
<1>1. CASE UNCHANGED holds
  BY <1>1 DEF PlainHolds
<1>2. ASSUME NEW s \in Sockets, LockGranted(s) PROVE [Abstract!Next]_PlainHolds
  <2>1. holds' = holds \cup {<<s, wants[s]>>}
    BY <1>2 DEF LockGranted
  <2>2. CASE wants[s] \in Plain
    <3>1. PlainHolds' = PlainHolds \cup {<<s, wants[s]>>}
      BY <2>1, <2>2 DEF PlainHolds
    <3>2. \A t \in Sockets : <<t, wants[s]>> \in PlainHolds => t = s
      <4>1. MutualExclusion'
        BY HoldersExclude, PTL
      <4> QED
        BY <2>1, <2>2, <4>1 DEF MutualExclusion, PlainHolds
    <3> QED
      BY <2>2, <3>1, <3>2
  <2>3. CASE wants[s] \notin Plain
    BY <2>1, <2>3 DEF PlainHolds
  <2> QED
    BY <2>2, <2>3
<1>3. ASSUME NEW s \in Sockets, NEW n \in Names, Unlock(s, n)
      PROVE  [Abstract!Next]_PlainHolds
  <2>1. PlainHolds' = PlainHolds \ {<<s, n>>}
    BY <1>3 DEF Unlock, PlainHolds
  <2>2. n \notin Plain => <<s, n>> \notin PlainHolds
    BY DEF PlainHolds
  <2> QED
    BY <2>1, <2>2
<1>4. ASSUME NEW s \in Sockets, SessionOver(s) PROVE [Abstract!Next]_PlainHolds
  <2>1. PlainHolds' = {p \in PlainHolds : p[1] # s}
    BY <1>4 DEF SessionOver, PlainHolds
  <2> QED
    BY <2>1
<1>5. CASE Restart
  BY <1>5 DEF Restart, PlainHolds
<1>6. \/ UNCHANGED holds \/ Restart
      \/ \E s \in Sockets :
            LockGranted(s) \/ SessionOver(s) \/ \E n \in Names : Unlock(s, n)
  BY DEF Next, Handler, Poll, vars, clients, Connect, UploadBegin, UploadEnd, DeleteOnDisk,
         DeleteEnd, UploadFails, ListBegin, ListNext, ListEnd, OpenFile, LockUnknown,
         LockQueued, StopAsking, LogOut, Vanish, TouchSharedVector
<1> QED
  BY <1>1, <1>2, <1>3, <1>4, <1>5, <1>6

(* Without deletions lockFile and unlockFile implement the abstract lock:  *)
(* a lock is granted to another session only once it has been given up.    *)
THEOREM Implements == "delete" \notin Commands => (Safety => ImplementsFileLock)
<1> SUFFICES ASSUME "delete" \notin Commands PROVE Safety => ImplementsFileLock
  OBVIOUS
<1>1. Init => Abstract!Init
  BY DEF Init, Abstract!Init, PlainHolds
<1>2. LockInv /\ LockInv' /\ [Next]_vars => [Abstract!Next]_PlainHolds
  BY StepImplements
<1>3. Safety => []LockInv
  BY LockInvariance
<1> QED
  BY <1>1, <1>2, <1>3, PTL DEF Safety, ImplementsFileLock, Abstract!Spec
-----------------------------------------------------------------------------
(* What concerns one file while the commands on it do not cross: it is on  *)
(* disk while it is being received, and when it has a record.              *)
UploadOnDisk(n) == \A s \in Sockets : op[s].kind = "upload" /\ op[s].file = n => n \in disk

InTurn(n) == UploadOnDisk(n) /\ HasFile(n)

(* A step that writes neither names nor files and begins no command on one.*)
Quiet == UNCHANGED <<name, disk, op>>

(* A session half way through a deletion is deleting its file, and one     *)
(* that is not is deleting none.                                           *)
LEMMA DeletingWhat ==
    ASSUME TypeOK, NEW s \in Sockets
    PROVE  /\ op[s].kind = "delete" => Deletes(s, op[s].file)
           /\ \A n : Deletes(s, n) => op[s].kind = "delete" /\ op[s].file = n
<1>1. op[s] \in [kind : {"idle", "upload", "delete"}, file : Names \cup {NoName}]
  BY DEF TypeOK
<1> QED
  BY <1>1 DEF Deletes

(* An upload writes one name, and that only over itself or in an empty     *)
(* record: it takes none from another file.                                *)
LEMMA AssignedNames ==
    ASSUME TypeOK, NEW m \in Names, AssignNewFile(m), NEW n \in Plain
    PROVE  /\ \A i \in Slots : name'[i] = name[i] \/ name'[i] = AsStored[m]
           /\ \A i \in Slots : name[i] = n => name'[i] = n
           /\ Matching(n) # {} => Matching(n)' # {}
<1>1. \A i \in Slots : name'[i] = name[i] \/ name'[i] = AsStored[m]
  BY DEF AssignNewFile, TypeOK
<1>2. ASSUME NEW i \in Slots, name[i] = n PROVE name'[i] = n
  <2> DEFINE room == IF Matching(m) # {} THEN Matching(m) ELSE Empty
  <2>1. CASE room = {}
    BY <1>2, <2>1 DEF AssignNewFile
  <2>2. CASE room # {}
    <3>1. room \subseteq Slots
      BY DEF Matching, Empty
    <3>2. First(room) \in room
      BY <2>2, <3>1, FirstLeast
    <3>3. name' = [name EXCEPT ![First(room)] = AsStored[m]]
      BY <2>2 DEF AssignNewFile
    <3>4. n # NoName /\ AsStored[n] = n
      BY NamesAssumption DEF Plain
    <3>5. First(room) = i => m = n
      BY <1>2, <3>2, <3>4 DEF Matching, Empty, Used
    <3> HIDE DEF room
    <3> QED
      BY <1>2, <3>3, <3>4, <3>5 DEF TypeOK
  <2> QED
    BY <2>1, <2>2
<1> QED
  BY <1>1, <1>2 DEF Matching

(* A deletion moves the last record over the one of the file, which is in  *)
(* front of it or the same.                                                *)
LEMMA ForgottenMove ==
    ASSUME TypeOK, Compact, NEW m \in Names, ForgetFile(m), Matching(m) # {}, Empty # {}
    PROVE  \E f, last \in Slots :
              /\ name[f] = m /\ f <= last
              /\ \A j \in Slots : name'[j] = IF j = last THEN NoName
                                             ELSE IF j = f THEN name[last] ELSE name[j]
<1> DEFINE f == First(Matching(m))
           last == First(Empty) - 1
<1>1. f \in Slots /\ name[f] = m
  BY FirstLeast DEF Matching
<1>2. First(Empty) \in Slots /\ name[First(Empty)] = NoName
  BY FirstLeast DEF Empty, Used
<1>3. m # NoName
  BY NamesAssumption
<1> HIDE DEF f
<1>4. f < First(Empty)
  <2> SUFFICES ASSUME ~ (f < First(Empty)) PROVE FALSE
    OBVIOUS
  <2>1. f = First(Empty) \/ First(Empty) < f
    <3> DEFINE e == First(Empty)
    <3>1. e \in Slots /\ ~ (f < e)
      BY <1>2
    <3> HIDE DEF e
    <3>2. f = e \/ e < f
      BY <1>1, <3>1, SlotsFinite
    <3> QED
      BY <3>2 DEF e
  <2> QED
    BY <1>1, <1>2, <1>3, <2>1 DEF Compact
<1>5. last \in Slots /\ ~ (f > last) /\ f <= last
  BY <1>1, <1>2, <1>4, MaxFilesAssumption DEF Slots
<1> HIDE DEF last
<1>6. name' = [name EXCEPT ![f] = name[last], ![last] = NoName]
  BY <1>5 DEF ForgetFile, f, last
<1>7. \A j \in Slots : name'[j] = IF j = last THEN NoName
                                  ELSE IF j = f THEN name[last] ELSE name[j]
  BY <1>1, <1>5, <1>6 DEF TypeOK
<1> QED
  BY <1>1, <1>5, <1>7

(* A name that was not there does not appear, that of another file does    *)
(* not go and, with a record to spare, that of the file does.              *)
LEMMA ForgottenNames ==
    ASSUME TypeOK, Compact, OneRecord, NEW m \in Names, ForgetFile(m), NEW n \in Plain
    PROVE  /\ Matching(n) = {} => Matching(n)' = {}
           /\ Matching(n) # {} /\ m # n => Matching(n)' # {}
           /\ m = n /\ Empty # {} => Matching(n)' = {}
<1>1. CASE Matching(m) = {} \/ Empty = {}
  BY <1>1 DEF ForgetFile, table, Matching
<1>2. CASE Matching(m) # {} /\ Empty # {}
  <2>1. PICK f \in Slots, last \in Slots :
           /\ name[f] = m /\ f <= last
           /\ \A j \in Slots : name'[j] = IF j = last THEN NoName
                                          ELSE IF j = f THEN name[last] ELSE name[j]
    BY <1>2, ForgottenMove
  <2>2. m # NoName /\ n # NoName
    BY NamesAssumption DEF Plain
  <2>3. ASSUME Matching(n) = {}, NEW j \in Slots, name'[j] = n PROVE FALSE
    BY <2>1, <2>2, <2>3 DEF Matching
  <2>4. ASSUME m # n, NEW j \in Slots, name[j] = n PROVE Matching(n)' # {}
    <3>1. name'[j] = n \/ name'[f] = n
      BY <2>1, <2>4
    <3> QED
      BY <3>1 DEF Matching
  <2>5. ASSUME m = n, NEW j \in Slots, name'[j] = n PROVE FALSE
    <3>1. j # last /\ (j = f => name[last] = n) /\ (j # f => name[j] = n)
      BY <2>1, <2>2, <2>5
    <3>2. name[last] = n => last = f
      BY <2>1, <2>5 DEF OneRecord
    <3>3. name[j] = n => j = f
      BY <2>1, <2>5 DEF OneRecord
    <3> QED
      BY <3>1, <3>2, <3>3
  <2> QED
    BY <2>3, <2>4, <2>5 DEF Matching
<1> QED
  BY <1>1, <1>2

(* What a directory recovers to are the files that are in it, all of them: *)
(* the listing has as many places as there are files, and none twice.      *)
LEMMA RecoveredFiles ==
    ASSUME NEW d \in SUBSET Names, Cardinality(d) <= MaxFiles, NEW order \in Listings(d),
           NEW n \in Plain
    PROVE  n \in d <=> \E i \in Slots : RecoveredName(order)[i] = n
<1>1. order \in [0 .. Cardinality(d) - 1 -> d]
  BY DEF Listings
<1>2. n \in Names /\ n # NoName /\ \A m \in Names : AsRecovered[m] = n <=> m = n
  BY NamesAssumption DEF Plain
<1>3. IsFiniteSet(d) /\ Cardinality(d) \in Nat
  BY NamesAssumption, FS_Subset, FS_CardinalityType
<1>4. ASSUME NEW i \in Slots, RecoveredName(order)[i] = n PROVE n \in d
  <2>1. i \in DOMAIN order /\ AsRecovered[order[i]] = n
    BY <1>2, <1>4 DEF RecoveredName
  <2> QED
    BY <1>1, <1>2, <2>1
<1>5. ASSUME n \in d PROVE \E i \in Slots : RecoveredName(order)[i] = n
  <2> DEFINE S == 0 .. Cardinality(d) - 1
  <2>1. IsFiniteSet(S) /\ Cardinality(S) = Cardinality(d)
    BY <1>3, FS_Interval
  <2>2. order \in Injection(S, d)
    BY <1>1 DEF Listings, Injection, IsInjective
  <2>3. order \in Surjection(S, d)
    BY <1>3, <2>1, <2>2, FS_Injection
  <2>4. PICK i \in S : order[i] = n
    BY <1>5, <2>3 DEF Surjection
  <2>5. i \in Slots /\ i \in DOMAIN order
    BY <1>1, <1>3, <2>4, MaxFilesAssumption DEF Slots
  <2> QED
    BY <1>2, <2>4, <2>5 DEF RecoveredName
<1> QED
  BY <1>4, <1>5
-----------------------------------------------------------------------------
(* The steps that concern names and files.                                 *)
LEMMA StepsOnFiles ==
    ASSUME [Next]_vars
    PROVE  \/ Restart \/ Quiet
           \/ \E s \in Sockets :
                 \/ UploadEnd(s) \/ UploadFails(s) \/ DeleteEnd(s)
                 \/ \E m \in Names : UploadBegin(s, m) \/ DeleteOnDisk(s, m)
BY DEF Next, Quiet, Handler, Poll, vars, table, Connect, ListBegin, ListNext, ListEnd,
   OpenFile, LockUnknown, LockGranted, LockQueued, StopAsking, Unlock, LogOut, Vanish,
   TouchSharedVector

(* A file that recoverData finds is stored again.                          *)
LEMMA RestartStores ==
    ASSUME TypeOK, Restart, NEW n \in Plain
    PROVE  /\ Matching(n)' # {} => n \in disk'
           /\ n \in disk => undefined' \/ Matching(n)' # {}
<1>1. UNCHANGED disk /\ n # NoName
  BY NamesAssumption DEF Restart, Plain
<1>2. CASE name' = [i \in Slots |-> NoName] /\ undefined'
  BY <1>1, <1>2 DEF Matching
<1>3. CASE /\ Cardinality(disk) <= MaxFiles
           /\ \E order \in Listings(disk) : name' = RecoveredName(order)
  <2>1. PICK order \in Listings(disk) : name' = RecoveredName(order)
    BY <1>3
  <2>2. disk \in SUBSET Names
    BY DEF TypeOK
  <2>3. n \in disk <=> \E i \in Slots : name'[i] = n
    BY <1>3, <2>1, <2>2, RecoveredFiles
  <2> QED
    BY <1>1, <2>3 DEF Matching
<1> QED
  BY <1>2, <1>3 DEF Restart

(* Every step leaves a stored file stored, or is part of its deletion.     *)
LEMMA StepFilesStay ==
    ASSUME Inv, [Next]_vars, NEW n \in Plain, Stored(n), ~Stored(n)'
    PROVE  undefined' \/ \E s \in Sockets : Deletes(s, n) \/ Deletes(s, n)'
<1> USE DEF Inv
<1>1. CASE Restart
  BY <1>1, RestartStores DEF Stored, Restart
<1>2. CASE Quiet
  BY <1>2 DEF Quiet, Stored, Matching
<1>3. ASSUME NEW s \in Sockets, UploadEnd(s) \/ UploadFails(s) PROVE FALSE
  <2>1. op[s].file \in Names /\ UNCHANGED disk /\ (UNCHANGED name \/ AssignNewFile(op[s].file))
    BY <1>3 DEF UploadEnd, UploadFails, OpsHaveFiles, table
  <2>2. Matching(n) # {} => Matching(n)' # {}
    BY <2>1, AssignedNames DEF Matching
  <2> QED
    BY <2>1, <2>2 DEF Stored
<1>4. ASSUME NEW s \in Sockets, DeleteEnd(s) PROVE Deletes(s, n)
  <2>1. op[s].kind = "delete" /\ op[s].file \in Names /\ UNCHANGED disk /\ ForgetFile(op[s].file)
    BY <1>4 DEF DeleteEnd, OpsHaveFiles
  <2>2. op[s].file = n
    BY <2>1, ForgottenNames DEF Stored
  <2> QED
    BY <2>1, <2>2, DeletingWhat
<1>5. ASSUME NEW s \in Sockets, NEW m \in Names, UploadBegin(s, m) PROVE FALSE
  BY <1>5 DEF UploadBegin, Stored, Matching, table
<1>6. ASSUME NEW s \in Sockets, NEW m \in Names, DeleteOnDisk(s, m) PROVE Deletes(s, n)'
  <2>1. m = n
    BY <1>6 DEF DeleteOnDisk, Stored, Matching, table
  <2> QED
    BY <1>6, <2>1 DEF DeleteOnDisk, Deletes, TypeOK
<1> QED
  BY <1>1, <1>2, <1>3, <1>4, <1>5, <1>6, StepsOnFiles

(* A stored file stays stored until it is deleted, for any number of       *)
(* sessions, files and records, whatever crosses and fails: deleteFile     *)
(* moves the record of another file, and loses it only where the program   *)
(* has written beyond its array.                                           *)
THEOREM StoredStay == Safety => FilesStay
<1>1. Inv /\ [Next]_vars =>
        [\A n \in Plain :
            Stored(n) /\ ~Stored(n)' =>
                undefined' \/ \E s \in Sockets : Deletes(s, n) \/ Deletes(s, n)']_vars
  BY StepFilesStay
<1> QED
  BY <1>1, Invariance, PTL DEF Safety, FilesStay
-----------------------------------------------------------------------------
(* Files that the loop of s is to send and, after a step, is not, although *)
(* they have a record.                                                     *)
Skipped(s) == {n \in ToSend(s) : Matching(n)' # {} /\ n \notin ToSend(s)'}

OnceStep(s) ==
    /\ Sent(s) \cap ToSend(s)' = {}
    /\ \A m, n \in Skipped(s) : m = n
    /\ Skipped(s) # {} =>
          \E t \in Sockets : \E n \in Names \ Skipped(s) : Deletes(t, n) /\ ~Deletes(t, n)'

(* As long as a file keeps the records it has, nothing changes for a loop. *)
LEMMA KeptListed ==
    ASSUME Inv, OneRecord', NEW s \in Sockets, list'[s] = list[s],
           \A n \in Plain : \A i \in Slots : name[i] = n => name'[i] = n
    PROVE  OnceStep(s)
<1>1. list[s].next \in Int /\ \A i \in Slots : i \in Int
  BY SlotsFinite DEF Inv, TypeOK
<1>2. ASSUME NEW n \in Plain, n \in Sent(s), n \in ToSend(s)' PROVE FALSE
  <2>1. PICK i \in Slots : name[i] = n /\ i < list[s].next
    BY <1>2 DEF Sent, Matching
  <2>2. PICK j \in Slots : name'[j] = n /\ list[s].next <= j
    BY <1>2 DEF ToSend, Matching
  <2>3. i = j
    BY <2>1, <2>2 DEF OneRecord
  <2> QED
    BY <1>1, <2>1, <2>2, <2>3
<1>3. Skipped(s) = {}
  BY DEF Skipped, ToSend, Matching
<1> QED
  BY <1>2, <1>3 DEF OnceStep, Sent

(* deleteFile moves one record, to a place in front of its own.            *)
LEMMA DeleteOnce ==
    ASSUME Inv, NEW s \in Sockets, list'[s] = list[s], NEW t \in Sockets, DeleteEnd(t)
    PROVE  OnceStep(s)
<1> USE DEF Inv
<1>0. PICK m : m = op[t].file
  OBVIOUS
<1>1. op[t].kind = "delete" /\ m \in Names /\ op' = [op EXCEPT ![t] = Idle] /\ ForgetFile(m)
  BY <1>0 DEF DeleteEnd, OpsHaveFiles
<1>2. Deletes(t, m) /\ ~Deletes(t, m)'
  BY <1>0, <1>1, DeletingWhat DEF Deletes, Idle, TypeOK
<1>3. list[s].next \in Int /\ \A i \in Slots : i \in Int
  BY SlotsFinite DEF TypeOK
<1>4. CASE Matching(m) = {} \/ Empty = {}
  <2>1. UNCHANGED name
    BY <1>1, <1>4 DEF ForgetFile, table
  <2> QED
    BY <2>1, KeptListed DEF OneRecord
<1>5. CASE Matching(m) # {} /\ Empty # {}
  <2>1. PICK f \in Slots, last \in Slots :
           /\ name[f] = m /\ f <= last
           /\ \A j \in Slots : name'[j] = IF j = last THEN NoName
                                          ELSE IF j = f THEN name[last] ELSE name[j]
    BY <1>1, <1>5, ForgottenMove
  <2>2. \A n \in Plain : n # NoName
    BY NamesAssumption DEF Plain
  <2>3. ASSUME NEW n \in Plain, n \in Sent(s), n \in ToSend(s)' PROVE FALSE
    <3>1. PICK i \in Slots : name[i] = n /\ i < list[s].next
      BY <2>3 DEF Sent, Matching
    <3>2. PICK j \in Slots : name'[j] = n /\ list[s].next <= j
      BY <2>3 DEF ToSend, Matching
    <3>3. (j = f /\ name[last] = n) \/ name[j] = n
      BY <2>1, <2>2, <3>2
    <3>4. (j = f /\ last = i) \/ j = i
      BY <3>1, <3>3 DEF OneRecord
    <3> QED
      BY <1>3, <2>1, <3>1, <3>2, <3>4
  <2>4. ASSUME NEW n \in Plain, n \in Skipped(s) PROVE n = name[last] /\ n # m
    <3>1. PICK i \in Slots : name[i] = n /\ list[s].next <= i /\ i < list[s].total
      BY <2>4 DEF Skipped, ToSend, Matching
    <3>2. Matching(n)' # {} /\ name'[i] # n
      BY <2>4, <3>1 DEF Skipped, ToSend, Matching
    <3>3. m # n
      BY <1>1, <1>5, <3>2, ForgottenNames
    <3> QED
      BY <2>1, <3>1, <3>2, <3>3
  <2>5. Skipped(s) \subseteq Plain /\ Sent(s) \subseteq Plain
    BY DEF Skipped, ToSend, Sent
  <2>6. m \in Names \ Skipped(s)
    BY <1>1, <2>4, <2>5
  <2>7. Sent(s) \cap ToSend(s)' = {}
    BY <2>3, <2>5
  <2>8. \A n, k \in Skipped(s) : n = k
    BY <2>4, <2>5
  <2>9. \E u \in Sockets : \E n \in Names \ Skipped(s) : Deletes(u, n) /\ ~Deletes(u, n)'
    BY <1>2, <2>6
  <2> QED
    BY <2>7, <2>8, <2>9 DEF OnceStep
<1> QED
  BY <1>4, <1>5

(* Every step leaves the loops of sync_server what they are to send, but   *)
(* for the file a deletion moves.                                          *)
LEMMA StepListsOnce ==
    ASSUME Inv, Inv', [Next]_vars, NEW s \in Sockets, list'[s] = list[s]
    PROVE  OnceStep(s)
<1>1. OneRecord'
  BY DEF Inv
<1>2. CASE UNCHANGED name
  BY <1>1, <1>2, KeptListed
<1>3. CASE Restart
  <2>1. list[s].next = 0 /\ list[s].total = 0
    BY <1>3 DEF Restart, NoList
  <2>2. \A i \in Slots : ~ (i < 0)
    BY MaxFilesAssumption DEF Slots
  <2>3. Sent(s) = {} /\ ToSend(s) = {}
    BY <2>1, <2>2 DEF Sent, ToSend, Matching
  <2> QED
    BY <2>3 DEF OnceStep, Skipped
<1>4. ASSUME NEW t \in Sockets, UploadEnd(t) PROVE OnceStep(s)
  <2>1. op[t].file \in Names /\ AssignNewFile(op[t].file)
    BY <1>4 DEF UploadEnd, Inv, OpsHaveFiles
  <2>2. \A n \in Plain : \A i \in Slots : name[i] = n => name'[i] = n
    BY <2>1, AssignedNames DEF Inv
  <2> QED
    BY <1>1, <2>2, KeptListed
<1>5. UNCHANGED name \/ Restart \/ \E t \in Sockets : UploadEnd(t) \/ DeleteEnd(t)
  BY StepsOnFiles DEF Quiet, UploadFails, UploadBegin, DeleteOnDisk, table
<1> QED
  BY <1>2, <1>3, <1>4, <1>5, DeleteOnce

(* sync_server offers no file twice and leaves out no more than one for    *)
(* each deletion it is crossed by, for any number of sessions and files    *)
(* and whatever else they do while it walks the records with no mutex.     *)
THEOREM ListedOnce == Safety => ListsOnce
<1>1. Inv /\ Inv' /\ [Next]_vars =>
        [\A s \in Sockets : list'[s] = list[s] =>
            LET skipped == {n \in ToSend(s) : Matching(n)' # {} /\ n \notin ToSend(s)'}
            IN  /\ Sent(s) \cap ToSend(s)' = {}
                /\ \A m, n \in skipped : m = n
                /\ skipped # {} =>
                      \E t \in Sockets : \E n \in Names \ skipped : Deletes(t, n) /\ ~Deletes(t, n)']_vars
  BY StepListsOnce DEF OnceStep, Skipped
<1> QED
  BY <1>1, Invariance, PTL DEF Safety, ListsOnce
-----------------------------------------------------------------------------
(* A file that is not touched keeps its record and its place on disk; a    *)
(* session that changes what it does is not half way through deleting it.  *)
LEMMA StepInTurn ==
    ASSUME Inv, [Next]_vars, NEW n \in Plain, InTurn(n), ~Crossed(n), ~Crossed(n)'
    PROVE  InTurn(n)'
<1> USE DEF Inv, InTurn
<1>1. CASE Restart
  <2>1. HasFile(n)'
    BY <1>1, RestartStores DEF HasFile
  <2>2. UploadOnDisk(n)'
    BY <1>1 DEF Restart, UploadOnDisk, Idle
  <2> QED
    BY <2>1, <2>2
<1>2. CASE Quiet
  BY <1>2 DEF Quiet, UploadOnDisk, HasFile, Matching, Deletes
<1>3. ASSUME NEW s \in Sockets, UploadEnd(s) \/ UploadFails(s) PROVE InTurn(n)'
  <2> DEFINE m == op[s].file
  <2>1. /\ op[s].kind = "upload" /\ m \in Names /\ UNCHANGED disk
        /\ op' = [op EXCEPT ![s] = Idle]
        /\ UNCHANGED name \/ AssignNewFile(m)
    BY <1>3 DEF UploadEnd, UploadFails, OpsHaveFiles, table
  <2>2. op'[s] = Idle /\ \A t \in Sockets : t # s => op'[t] = op[t]
    BY <2>1 DEF TypeOK
  <2>3. UploadOnDisk(n)'
    BY <2>1, <2>2 DEF UploadOnDisk, Idle
  <2>4. ASSUME NEW t \in Sockets, Deletes(t, n) PROVE Deletes(t, n)'
    BY <2>1, <2>2, <2>4, DeletingWhat DEF Deletes
  <2>5. ASSUME Matching(n)' # {}, Matching(n) = {} PROVE n \in disk
    <3>1. AsStored[m] = n
      BY <2>1, <2>5, AssignedNames DEF Matching
    <3>2. m = n
      BY <2>1, <3>1 DEF Plain
    <3> QED
      BY <2>1, <3>2 DEF UploadOnDisk
  <2>6. HasFile(n)'
    BY <2>1, <2>4, <2>5 DEF HasFile
  <2> QED
    BY <2>3, <2>6
<1>4. ASSUME NEW s \in Sockets, DeleteEnd(s) PROVE InTurn(n)'
  <2> DEFINE m == op[s].file
  <2>1. /\ op[s].kind = "delete" /\ m \in Names /\ UNCHANGED disk
        /\ op' = [op EXCEPT ![s] = Idle] /\ ForgetFile(m)
    BY <1>4 DEF DeleteEnd, OpsHaveFiles
  <2>2. op'[s] = Idle /\ \A t \in Sockets : t # s => op'[t] = op[t]
    BY <2>1 DEF TypeOK
  <2>3. UploadOnDisk(n)'
    BY <2>1, <2>2 DEF UploadOnDisk, Idle
  <2>4. CASE m = n
    <3>1. Deletes(s, n)
      BY <2>1, <2>4, DeletingWhat
    <3>2. Matching(n)' = {}
      BY <2>1, <2>4, <3>1, ForgottenNames DEF Crossed
    <3> QED
      BY <2>3, <3>2 DEF HasFile
  <2>5. CASE m # n
    <3>1. ASSUME NEW t \in Sockets, Deletes(t, n) PROVE Deletes(t, n)'
      BY <2>2, <2>5, <3>1, DeletingWhat DEF Deletes
    <3>2. Matching(n)' # {} => Matching(n) # {}
      BY <2>1, ForgottenNames
    <3> QED
      BY <2>1, <2>3, <3>1, <3>2 DEF HasFile
  <2> QED
    BY <2>4, <2>5
<1>5. ASSUME NEW s \in Sockets, NEW m \in Names, UploadBegin(s, m) PROVE InTurn(n)'
  <2>1. /\ op[s] = Idle /\ disk' = disk \cup {m} /\ UNCHANGED name
        /\ op' = [op EXCEPT ![s] = [kind |-> "upload", file |-> m]]
    BY <1>5 DEF UploadBegin, Ready, table
  <2>2. /\ op'[s].kind = "upload" /\ op'[s].file = m
        /\ \A t \in Sockets : t # s => op'[t] = op[t]
    BY <2>1 DEF TypeOK
  <2>3. UploadOnDisk(n)'
    BY <2>1, <2>2 DEF UploadOnDisk
  <2>4. ASSUME NEW t \in Sockets, Deletes(t, n) PROVE Deletes(t, n)'
    <3>1. t # s
      BY <2>1, <2>4, DeletingWhat DEF Idle
    <3> QED
      BY <2>2, <2>4, <3>1 DEF Deletes
  <2>5. HasFile(n)'
    BY <2>1, <2>4 DEF HasFile, Matching
  <2> QED
    BY <2>3, <2>5
<1>6. ASSUME NEW s \in Sockets, NEW m \in Names, DeleteOnDisk(s, m) PROVE InTurn(n)'
  <2>1. /\ op[s] = Idle /\ disk' = disk \ {m} /\ UNCHANGED name
        /\ op' = [op EXCEPT ![s] = [kind |-> "delete", file |-> m]]
    BY <1>6 DEF DeleteOnDisk, Waiting, Ready, table
  <2>2. /\ op'[s] = [kind |-> "delete", file |-> m]
        /\ \A t \in Sockets : t # s => op'[t] = op[t]
    BY <2>1 DEF TypeOK
  <2>3. CASE m = n
    <3>1. Deletes(s, n)'
      BY <2>2, <2>3 DEF Deletes
    <3>2. UploadOnDisk(n)'
      <4> SUFFICES ASSUME NEW t \in Sockets, op'[t].kind = "upload", op'[t].file = n
                   PROVE  FALSE
        BY DEF UploadOnDisk
      <4>1. t # s
        BY <2>2
      <4> QED
        BY <3>1, <4>1 DEF Crossed
    <3> QED
      BY <3>1, <3>2 DEF HasFile
  <2>4. CASE m # n
    <3>1. n \in disk' <=> n \in disk
      BY <2>1, <2>4
    <3>2. UploadOnDisk(n)'
      BY <2>2, <3>1 DEF UploadOnDisk
    <3>3. ASSUME NEW t \in Sockets, Deletes(t, n) PROVE Deletes(t, n)'
      <4>1. t # s
        BY <2>1, <3>3, DeletingWhat DEF Idle
      <4> QED
        BY <2>2, <3>3, <4>1 DEF Deletes
    <3>4. HasFile(n)'
      BY <2>1, <3>1, <3>3 DEF HasFile, Matching
    <3> QED
      BY <3>2, <3>4
  <2> QED
    BY <2>3, <2>4
<1> QED
  BY <1>1, <1>2, <1>3, <1>4, <1>5, <1>6, StepsOnFiles

LEMMA InitInTurn == ASSUME Init, NEW n \in Plain PROVE InTurn(n)
<1>1. UploadOnDisk(n)
  BY DEF Init, UploadOnDisk, Idle
<1>2. PICK order \in Listings(disk) : name = RecoveredName(order)
  BY DEF Init
<1>3. HasFile(n)
  BY <1>2, RecoveredFiles DEF Init, HasFile, Matching
<1> QED
  BY <1>1, <1>3 DEF InTurn

(* The record of a file has the file on disk, for any number of sessions   *)
(* and files, through failures and restarts and whatever is done to other  *)
(* files at the same time, as long as no commands on that file cross and   *)
(* it is not deleted while the table is full.                              *)
THEOREM DiskFollowed == Safety => RecordsHaveFiles
<1>1. ASSUME NEW n \in Plain PROVE Safety => ([]~Crossed(n) => []HasFile(n))
  <2>1. Init => InTurn(n)
    BY InitInTurn
  <2>2. Inv /\ InTurn(n) /\ ~Crossed(n) /\ ~Crossed(n)' /\ [Next]_vars => InTurn(n)'
    BY StepInTurn
  <2>3. InTurn(n) => HasFile(n)
    BY DEF InTurn
  <2> QED
    BY <2>1, <2>2, <2>3, Invariance, PTL DEF Safety
<1> QED
  BY <1>1 DEF RecordsHaveFiles
=============================================================================
