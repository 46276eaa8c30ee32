---------------------------- MODULE ProtocolProofs ----------------------------
(***************************************************************************)
(* The proofs about Protocol, for any files, any contents and any list of  *)
(* servers.  The inductive invariant Inv says of every server but the      *)
(* leader that it is where the leader was, and that the messages between   *)
(* are what takes it to where the leader is: it follows, or waits for the  *)
(* leader to collect its answers; and that of one that has crashed only    *)
(* the answers remain.  The client and the leader are in the middle of one *)
(* exchange (ProtocolExchange).                                            *)
(***************************************************************************)
EXTENDS ProtocolExchange

(* A server: what it has still to do, its copies and its records; and what *)
(* it is once it has heard m.                                              *)
At(s) == [todo |-> todo[s], disk |-> disk[s], recs |-> recs[s]]
Turned(s, m) ==
    LET h == Hearing(s.todo) IN
    [todo |-> Cat(NextSteps(h, m, s.disk, s.recs), Left(s.todo)),
     disk |-> NextDisk(h, m, s.disk),
     recs |-> NextRecs(h, m, s.disk, s.recs)]
Heeds(h, m) ==
    /\ Takes(h, m)
    /\ h.kind = "name" => m.arg \in Files
    /\ h.kind = "size" => m.arg \in Nat

PerServer(f) == f = [s \in Servers |-> f[s]]
Arrays ==
    /\ PerServer(todo) /\ PerServer(down) /\ PerServer(up) /\ PerServer(disk) /\ PerServer(recs)
    /\ disk \in [Servers -> [Files -> KnownCopies]]

(* What a server does that hears m, the next of its messages.              *)
HearsNext(s) ==
    LET m == Head(down[s])
        t == Turned(At(s), m)
    IN  /\ Running(s) /\ down[s] # <<>> /\ Takes(Hearing(todo[s]), m)
        /\ down' = Repeated(s, m)
        /\ linked' = linked \/ (s = Leader /\ linked' \in {linked \ gone : gone \in SUBSET (linked \ alive)})
        /\ todo' = [todo EXCEPT ![s] = t.todo]
        /\ disk' = [disk EXCEPT ![s] = t.disk]
        /\ recs' = [recs EXCEPT ![s] = t.recs]
        /\ UNCHANGED <<client, up, alive, killed>>

(* A server that reads with Reads, and waits for what it reads.            *)
LEMMA ReadsNext ==
    ASSUME NEW s \in Servers, Arrays, NEW m, NEW steps, Reads(s, m, steps),
           Takes(Hearing(todo[s]), m),
           Head(down[s]) = m => steps = NextSteps(Hearing(todo[s]), m, disk[s], recs[s]),
           disk' = [disk EXCEPT ![s] = NextDisk(Hearing(todo[s]), m, disk[s])],
           recs' = [recs EXCEPT ![s] = NextRecs(Hearing(todo[s]), m, disk[s], recs[s])]
    PROVE  HearsNext(s)
<1>1. m = Head(down[s]) /\ steps = NextSteps(Hearing(todo[s]), m, disk[s], recs[s])
  BY DEF Reads
<1>2. todo' = [todo EXCEPT ![s] = Cat(steps, Left(todo[s]))]
  BY DEF Reads, Left, Cat
<1>3. linked' = linked \/ (s = Leader /\ linked' \in {linked \ gone : gone \in SUBSET (linked \ alive)})
  BY DEF Reads
<1> QED BY <1>1, <1>2, <1>3 DEF HearsNext, Reads, Turned, At

(* What Protocol says a server waits for.                                  *)
LEMMA HearingIs == \A s : Awaits(s) = Hearing(todo[s])
BY DEF Awaits, Hearing

(* A message that leaves the files and the records as they are.            *)
LEMMA ReadsOnly ==
    ASSUME NEW s \in Servers, Arrays, NEW m, NEW steps, Reads(s, m, steps),
           Takes(Hearing(todo[s]), m),
           Head(down[s]) = m => steps = NextSteps(Hearing(todo[s]), m, disk[s], recs[s]),
           UNCHANGED <<disk, recs>>,
           Hearing(todo[s]).kind \notin {"name", "part", "mtime"}
    PROVE  HearsNext(s)
<1>1. NextDisk(Hearing(todo[s]), m, disk[s]) = disk[s] /\ NextRecs(Hearing(todo[s]), m, disk[s], recs[s]) = recs[s]
  BY DEF NextDisk, NextRecs
<1>2. disk' = [disk EXCEPT ![s] = disk[s]] /\ recs' = [recs EXCEPT ![s] = recs[s]]
  BY DEF Arrays, PerServer
<1> QED BY <1>1, <1>2, ReadsNext

(* A command that is read ...                                              *)
LEMMA CommandNext == ASSUME NEW s \in Servers, Arrays, HearCommand(s) PROVE HearsNext(s)
<1> DEFINE h == Hearing(todo[s])
           m == Head(down[s])
<1>1. h.do = "hear" /\ Reads(s, m, Handler(recs[s], m.kind))
      /\ \/ h.kind = "command" /\ m.kind \in CommandKinds
         \/ h.kind = "answer" /\ m.kind \in AnswerKinds
  BY HearingIs DEF HearCommand, ServerHears
<1> HIDE DEF h, m
<1>2. Takes(h, m)
  BY <1>1 DEF Takes
<1>3. h.kind \in {"command", "answer"} /\ Handler(recs[s], m.kind) = NextSteps(h, m, disk[s], recs[s])
  BY <1>1 DEF NextSteps
<1>4. UNCHANGED <<disk, recs>>
  BY DEF HearCommand
<1>5. h.kind \notin {"name", "part", "mtime"}
  BY <1>3
<1> QED BY <1>1, <1>2, <1>3, <1>4, <1>5, ReadsOnly DEF h

(* ... an acknowledgement ...                                              *)
LEMMA AckNext == ASSUME NEW s \in Servers, Arrays, HearAck(s) PROVE HearsNext(s)
<1> DEFINE h == Hearing(todo[s])
           m == Head(down[s])
<1>1. h.do = "hear" /\ Reads(s, m, <<>>) /\ h.kind \in Acks /\ m.kind = h.kind
  BY HearingIs DEF HearAck, ServerHears, Acks
<1> HIDE DEF h, m
<1>2. h.kind \notin {"name", "part", "mtime", "command", "answer", "size"}
  BY <1>1 DEF Acks
<1>3. Takes(h, m) /\ NextSteps(h, m, disk[s], recs[s]) = <<>>
  BY <1>1, <1>2 DEF Takes, NextSteps
<1>4. UNCHANGED <<disk, recs>>
  BY DEF HearAck
<1> QED BY <1>1, <1>2, <1>3, <1>4, ReadsOnly DEF h

(* ... a size ...                                                          *)
LEMMA SizeNext == ASSUME NEW s \in Servers, Arrays, ReceiveSize(s) PROVE HearsNext(s)
<1> DEFINE h == Hearing(todo[s])
           m == Head(down[s])
<1>1. h.do = "hear" /\ Reads(s, m, ReceiveFileBody(h.arg, m.arg)) /\ h.kind = "size" /\ m.kind = "size"
  BY HearingIs DEF ReceiveSize, ServerHears, Purpose, Given
<1> HIDE DEF h, m
<1>2. Takes(h, m) /\ NextSteps(h, m, disk[s], recs[s]) = ReceiveFileBody(h.arg, m.arg)
  BY <1>1 DEF Takes, NextSteps
<1>3. UNCHANGED <<disk, recs>>
  BY DEF ReceiveSize
<1>4. h.kind \notin {"name", "part", "mtime"}
  BY <1>1
<1> QED BY <1>1, <1>2, <1>3, <1>4, ReadsOnly DEF h

(* ... a part ...                                                          *)
LEMMA PartNext == ASSUME NEW s \in Servers, Arrays, ReceivePart(s) PROVE HearsNext(s)
<1> DEFINE h == Hearing(todo[s])
           m == Head(down[s])
<1>1. h.do = "hear" /\ Reads(s, m, <<>>) /\ h.kind = "part" /\ m.kind = "part"
  BY HearingIs DEF ReceivePart, ServerHears
<1>2. disk' = [disk EXCEPT ![s] = [disk[s] EXCEPT ![h.arg[1]] = Copy(m.arg.of, disk[s][h.arg[1]].len + h.arg[2])]]
      /\ recs' = recs
  BY HearingIs DEF ReceivePart, Purpose, Given
<1> HIDE DEF h, m
<1>3. Takes(h, m) /\ NextSteps(h, m, disk[s], recs[s]) = <<>>
  BY <1>1 DEF Takes, NextSteps
<1>4. NextDisk(h, m, disk[s]) = [disk[s] EXCEPT ![h.arg[1]] = Copy(m.arg.of, disk[s][h.arg[1]].len + h.arg[2])]
      /\ NextRecs(h, m, disk[s], recs[s]) = recs[s]
  BY <1>1 DEF NextDisk, NextRecs
<1>5. recs' = [recs EXCEPT ![s] = recs[s]]
  BY <1>2 DEF Arrays, PerServer
<1> QED BY <1>1, <1>2, <1>3, <1>4, <1>5, ReadsNext DEF h

(* ... a time ...                                                          *)
LEMMA TimeNext == ASSUME NEW s \in Servers, Arrays, ReceiveTime(s) PROVE HearsNext(s)
<1> DEFINE h == Hearing(todo[s])
           m == Head(down[s])
<1>1. h.do = "hear" /\ Reads(s, m, <<>>) /\ h.kind = "mtime" /\ m.kind = "mtime"
  BY HearingIs DEF ReceiveTime, ServerHears
<1>2. recs' = [recs EXCEPT ![s] = Assigned(recs[s], h.arg)] /\ disk' = disk
  BY HearingIs DEF ReceiveTime, Purpose
<1> HIDE DEF h, m
<1>3. Takes(h, m) /\ NextSteps(h, m, disk[s], recs[s]) = <<>>
  BY <1>1 DEF Takes, NextSteps
<1>4. NextDisk(h, m, disk[s]) = disk[s] /\ NextRecs(h, m, disk[s], recs[s]) = Assigned(recs[s], h.arg)
  BY <1>1 DEF NextDisk, NextRecs
<1>5. disk' = [disk EXCEPT ![s] = disk[s]]
  BY <1>2 DEF Arrays, PerServer
<1> QED BY <1>1, <1>2, <1>3, <1>4, <1>5, ReadsNext DEF h

(* ... and the name of a file, for whatever purpose.                       *)
LEMMA NameNext ==
    ASSUME NEW s \in Servers, Arrays, ReceiveName(s) \/ SendName(s) \/ DeleteName(s) \/ LockName(s),
           Hearing(todo[s]).kind = "name" => Head(down[s]).arg \in Files
    PROVE  HearsNext(s)
<1> DEFINE h == Hearing(todo[s])
           m == Head(down[s])
<1>0. Given(s) = m.arg /\ Purpose(s) = h.arg /\ Awaits(s) = h
  BY HearingIs DEF Given, Purpose
<1>1. ASSUME NEW k, NEW steps, HearsName(s, k, steps)
      PROVE  /\ h.do = "hear" /\ Reads(s, m, steps) /\ h.kind = "name" /\ m.kind = "name" /\ h.arg = k
             /\ m.arg \in Files
  BY <1>0, <1>1 DEF HearsName, ServerHears
<1> HIDE DEF h, m
<1>2. ASSUME h.do = "hear", h.kind = "name", m.kind = "name", h.arg \in Purposes
      PROVE  Takes(h, m) /\ NextSteps(h, m, disk[s], recs[s]) = Named(h.arg, disk[s], m.arg)
  BY <1>2 DEF Takes, NextSteps
<1>3. disk = [disk EXCEPT ![s] = disk[s]] /\ recs = [recs EXCEPT ![s] = recs[s]]
  BY DEF Arrays, PerServer
<1>4. CASE ReceiveName(s)
  <2>1. HearsName(s, "SEND_FILE", <<Hear("size", m.arg)>>) /\ UNCHANGED recs
        /\ disk' = [disk EXCEPT ![s] = [disk[s] EXCEPT ![m.arg] = Copy(None, 0)]]
    BY <1>0, <1>4 DEF ReceiveName
  <2>2. h.do = "hear" /\ Reads(s, m, <<Hear("size", m.arg)>>) /\ h.kind = "name" /\ m.kind = "name" /\ h.arg = "SEND_FILE"
    BY <1>1, <2>1
  <2>3. Takes(h, m) /\ NextSteps(h, m, disk[s], recs[s]) = <<Hear("size", m.arg)>>
    BY <1>2, <2>2 DEF Purposes, Named
  <2>4. /\ NextDisk(h, m, disk[s]) = [disk[s] EXCEPT ![m.arg] = Copy(None, 0)]
        /\ NextRecs(h, m, disk[s], recs[s]) = recs[s]
    BY <2>2 DEF NextDisk, NextRecs
  <2> QED BY <1>3, <2>1, <2>2, <2>3, <2>4, ReadsNext DEF h
<1>5. CASE SendName(s)
  <2>1. HearsName(s, "GET_FILE", <<Say("EXISTS")>> \o SendFileBody(disk[s][m.arg])) /\ UNCHANGED <<disk, recs>>
    BY <1>0, <1>5 DEF SendName
  <2> DEFINE steps == <<Say("EXISTS")>> \o SendFileBody(disk[s][m.arg])
  <2>2. h.do = "hear" /\ Reads(s, m, steps) /\ h.kind = "name" /\ m.kind = "name" /\ h.arg = "GET_FILE"
    BY <1>1, <2>1
  <2>3. Takes(h, m) /\ NextSteps(h, m, disk[s], recs[s]) = steps
    BY <1>2, <2>2 DEF Purposes, Named
  <2>4. NextDisk(h, m, disk[s]) = disk[s] /\ NextRecs(h, m, disk[s], recs[s]) = recs[s]
    BY <2>2 DEF NextDisk, NextRecs
  <2> HIDE DEF steps
  <2> QED BY <1>3, <2>1, <2>2, <2>3, <2>4, ReadsNext DEF h
<1>6. CASE DeleteName(s)
  <2>1. HearsName(s, "DELETE", <<>>)
    BY <1>6 DEF DeleteName
  <2>2. h.do = "hear" /\ Reads(s, m, <<>>) /\ h.kind = "name" /\ m.kind = "name" /\ h.arg = "DELETE" /\ m.arg \in Files
    BY <1>1, <2>1
  <2>3. Takes(h, m) /\ NextSteps(h, m, disk[s], recs[s]) = <<>>
    BY <1>2, <2>2 DEF Purposes, Named
  <2>4. disk[s] \in [Files -> KnownCopies]
    BY DEF Arrays
  <2>5. NextDisk(h, m, disk[s]) = [disk[s] EXCEPT ![m.arg] = Missing]
    BY <2>2 DEF NextDisk
  <2>6. CASE disk[s][m.arg] = Missing
    <3>1. UNCHANGED <<disk, recs>>
      BY <1>0, <1>6, <2>6 DEF DeleteName
    <3>2. NextDisk(h, m, disk[s]) = disk[s]
      BY <2>2, <2>4, <2>5, <2>6
    <3>3. NextRecs(h, m, disk[s], recs[s]) = recs[s]
      BY <2>2, <2>6 DEF NextRecs
    <3> QED BY <1>3, <2>2, <2>3, <3>1, <3>2, <3>3, ReadsNext DEF h
  <2>7. CASE disk[s][m.arg] # Missing
    <3>1. /\ disk' = [disk EXCEPT ![s] = [disk[s] EXCEPT ![m.arg] = Missing]]
          /\ recs' = IF \E k \in DOMAIN recs[s] : recs[s][k] = m.arg
                     THEN [recs EXCEPT ![s] = Forgotten(recs[s], m.arg)] ELSE recs
      BY <1>0, <1>6, <2>7 DEF DeleteName
    <3>2. NextRecs(h, m, disk[s], recs[s]) = IF \E k \in DOMAIN recs[s] : recs[s][k] = m.arg
                                             THEN Forgotten(recs[s], m.arg) ELSE recs[s]
      BY <2>2, <2>7 DEF NextRecs
    <3>3. recs' = [recs EXCEPT ![s] = NextRecs(h, m, disk[s], recs[s])]
      BY <1>3, <3>1, <3>2
    <3>4. disk' = [disk EXCEPT ![s] = NextDisk(h, m, disk[s])]
      BY <2>5, <3>1
    <3> QED BY <2>2, <2>3, <3>3, <3>4, ReadsNext DEF h
  <2> QED BY <2>6, <2>7
<1>7. CASE LockName(s)
  <2>1. PICK k \in {"LOCK", "UNLOCK"} : HearsName(s, k, <<Say("answer")>>) /\ UNCHANGED <<disk, recs>>
    BY <1>7 DEF LockName
  <2>2. h.do = "hear" /\ Reads(s, m, <<Say("answer")>>) /\ h.kind = "name" /\ m.kind = "name" /\ h.arg = k
    BY <1>1, <2>1
  <2>3. Takes(h, m) /\ NextSteps(h, m, disk[s], recs[s]) = <<Say("answer")>>
    BY <1>2, <2>2 DEF Purposes, Named
  <2>4. NextDisk(h, m, disk[s]) = disk[s] /\ NextRecs(h, m, disk[s], recs[s]) = recs[s]
    BY <2>2 DEF NextDisk, NextRecs
  <2> QED BY <1>3, <2>1, <2>2, <2>3, <2>4, ReadsNext DEF h
<1> QED BY <1>4, <1>5, <1>6, <1>7

(* So a server writes, hears its next message, or has listServer read that *)
(* a name has arrived.                                                     *)
LEMMA ServerNext ==
    ASSUME NEW s \in Servers, Arrays, Server(s),
           down[s] # <<>> /\ Hearing(todo[s]).kind = "name" => Head(down[s]).arg \in Files
    PROVE  ServerTells(s) \/ HearsNext(s) \/ HearFileNameAck(s)
<1>1. ReceiveName(s) \/ SendName(s) \/ DeleteName(s) \/ LockName(s) => down[s] # <<>>
  BY DEF ReceiveName, SendName, DeleteName, LockName, HearsName, ServerHears
<1>2. ReceiveName(s) \/ SendName(s) \/ DeleteName(s) \/ LockName(s) => HearsNext(s)
  BY <1>1, NameNext
<1> QED BY <1>2, CommandNext, AckNext, SizeNext, PartNext, TimeNext DEF Server

(* The records of a server: names of files, each once.                     *)
Sane(r) ==
    /\ IsSeq(r) /\ \A k \in DOMAIN r : r[k] \in Files
    /\ \A j, k \in DOMAIN r : r[j] = r[k] => j = k
Elems(r) == {r[k] : k \in DOMAIN r}

(* assignNewFile and updateFile: the file has a record, and the others keep*)
(* theirs.                                                                 *)
LEMMA AssignedIs ==
    ASSUME NEW r, Sane(r), NEW f \in Files
    PROVE  /\ Sane(Assigned(r, f)) /\ Elems(Assigned(r, f)) = Elems(r) \cup {f}
           /\ Len(Assigned(r, f)) = IF f \in Elems(r) THEN Len(r) ELSE Len(r) + 1
<1>1. Len(r) \in Nat /\ DOMAIN r = 1 .. Len(r)
  BY SeqFacts DEF Sane
<1>2. CASE f \in Elems(r)
  <2>1. Assigned(r, f) = r
    BY <1>2 DEF Assigned, Elems
  <2> QED BY <2>1, <1>2
<1>3. CASE f \notin Elems(r)
  <2> DEFINE a == Append(r, f)
             n == Len(r)
  <2>1. Assigned(r, f) = a
    BY <1>3 DEF Assigned, Elems
  <2>2. /\ IsSeq(a) /\ Len(a) = n + 1 /\ a[n + 1] = f
        /\ \A i \in 1 .. n : a[i] = r[i]
    <3>1. IsSeq(r)
      BY DEF Sane
    <3> QED BY <3>1, AppendIs
  <2> HIDE DEF a
  <2>3. DOMAIN a = 1 .. n + 1
    BY <2>2, SeqFacts
  <2>4. Elems(a) = Elems(r) \cup {f}
    BY <1>1, <2>2, <2>3 DEF Elems
  <2>5. \A i \in 1 .. n : r[i] # f
    BY <1>1, <1>3 DEF Elems
  <2>6. Sane(a)
    BY <1>1, <2>2, <2>3, <2>5 DEF Sane
  <2> QED BY <2>1, <2>2, <2>4, <2>6, <1>3
<1> QED BY <1>2, <1>3

(* delete_file: the record of the file is gone, and the others keep theirs.*)
LEMMA ForgottenIs ==
    ASSUME NEW r, Sane(r), NEW f \in Elems(r)
    PROVE  /\ Sane(Forgotten(r, f)) /\ Elems(Forgotten(r, f)) = Elems(r) \ {f}
           /\ Len(Forgotten(r, f)) = Len(r) - 1
<1> DEFINE n == Len(r)
           a == Forgotten(r, f)
<1>1. n \in Nat /\ DOMAIN r = 1 .. n
  BY SeqFacts DEF Sane
<1>2. PICK p \in 1 .. n : r[p] = f
  BY <1>1 DEF Elems
<1>3. /\ n - 1 \in Nat /\ DOMAIN a = 1 .. n - 1
      /\ a = [i \in 1 .. n - 1 |-> a[i]]
      /\ \A i \in 1 .. n - 1 : a[i] = IF r[i] = f THEN r[n] ELSE r[i]
  BY <1>1, <1>2 DEF Forgotten
<1>4. IsSeq(a) /\ Len(a) = n - 1
  BY <1>3, MadeSeq
<1> HIDE DEF a
<1>5. \A i \in 1 .. n : r[i] = f <=> i = p
  BY <1>1, <1>2 DEF Sane
<1>6. Sane(a)
  BY <1>1, <1>3, <1>4, <1>5 DEF Sane
<1>7. Elems(a) \subseteq Elems(r) \ {f}
  <2> SUFFICES ASSUME NEW i \in 1 .. n - 1 PROVE a[i] \in Elems(r) \ {f}
    BY <1>3 DEF Elems
  <2>1. CASE i = p
    <3>1. a[i] = r[n] /\ n # p /\ n \in 1 .. n
      BY <1>1, <1>3, <1>5, <2>1
    <3> QED BY <1>1, <1>5, <3>1 DEF Elems
  <2>2. CASE i # p
    BY <1>1, <1>3, <1>5, <2>2 DEF Elems
  <2> QED BY <2>1, <2>2
<1>8. Elems(r) \ {f} \subseteq Elems(a)
  <2> SUFFICES ASSUME NEW i \in 1 .. n, r[i] # f PROVE r[i] \in Elems(a)
    BY <1>1 DEF Elems
  <2>1. CASE i = n
    <3>1. p \in 1 .. n - 1 /\ a[p] = r[n]
      BY <1>1, <1>2, <1>3, <2>1
    <3> QED BY <1>3, <3>1, <2>1 DEF Elems
  <2>2. CASE i # n
    <3>1. i \in 1 .. n - 1 /\ a[i] = r[i]
      BY <1>1, <1>3, <2>2
    <3> QED BY <1>3, <3>1 DEF Elems
  <2> QED BY <2>1, <2>2
<1> QED BY <1>4, <1>6, <1>7, <1>8 DEF a

(* Records are no more than files, and all of them at the start.           *)
LEMMA SaneFits ==
    ASSUME ProtocolAssumption, NEW r, Sane(r)
    PROVE  Len(r) <= Cardinality(Files)
<1> DEFINE n == Len(r)
<1>1. n \in Nat /\ DOMAIN r = 1 .. n /\ r = [i \in 1 .. n |-> r[i]]
  BY SeqFacts DEF Sane
<1>2. r \in [1 .. n -> Files]
  BY <1>1 DEF Sane
<1>3. r \in Injection(1 .. n, Files)
  BY <1>1, <1>2 DEF Sane, Injection, IsInjective
<1>4. IsFiniteSet(Files)
  BY DEF ProtocolAssumption
<1>5. Cardinality(1 .. n) <= Cardinality(Files)
  BY <1>3, <1>4, FS_Injection
<1>6. Cardinality(1 .. n) = n
  BY <1>1, FS_Interval
<1> QED BY <1>5, <1>6

(* The records that assignNewFile makes of a directory, in any order.      *)
LEMMA OrdersAre ==
    ASSUME ProtocolAssumption, NEW S \in SUBSET Files, NEW r \in Orders(S)
    PROVE  Sane(r) /\ Elems(r) = S /\ Len(r) = Cardinality(S)
<1> DEFINE n == Cardinality(S)
<1>1. IsFiniteSet(S) /\ n \in Nat
  BY FS_Subset, FS_CardinalityType DEF ProtocolAssumption
<1>2. r \in [1 .. n -> S] /\ \A i, j \in 1 .. n : i # j => r[i] # r[j]
  BY DEF Orders, SetToSeqs
<1>3. IsSeq(r) /\ Len(r) = n
  BY <1>1, <1>2, MadeSeq
<1>4. Sane(r)
  BY <1>2, <1>3 DEF Sane
<1>5. r \in Injection(1 .. n, S)
  BY <1>2 DEF Injection, IsInjective
<1>6. Cardinality(1 .. n) = n
  BY <1>1, FS_Interval
<1>7. r \in Surjection(1 .. n, S)
  BY <1>1, <1>5, <1>6, FS_Injection
<1>8. Elems(r) = S
  BY <1>2, <1>7 DEF Surjection, Elems
<1> QED BY <1>3, <1>4, <1>8

(* Two servers that do the same, but for what they tell.                   *)
SameStep(a, b) == a.do = b.do /\ a.kind = b.kind /\ (a.do = "hear" => a.arg = b.arg)
SameSteps(s, t) ==
    /\ IsSeq(s) /\ IsSeq(t) /\ Len(s) = Len(t)
    /\ \A i \in 1 .. Len(s) : SameStep(s[i], t[i])
Alike(s, t) ==
    /\ SameSteps(s.todo, t.todo) /\ s.disk = t.disk
    /\ Elems(s.recs) = Elems(t.recs) /\ Len(s.recs) = Len(t.recs)

(* The same as itself.                                                     *)
LEMMA SameSelf == ASSUME NEW s, IsSeq(s) PROVE SameSteps(s, s)
BY DEF SameSteps, SameStep

(* Nothing is the same only as nothing.                                    *)
LEMMA SameEmpty == \A s : /\ SameSteps(<<>>, s) => s = <<>>
                          /\ SameSteps(s, <<>>) => s = <<>>
BY SeqFacts, EmptyIsSeq DEF SameSteps

(* The next steps are the same, and those after them.                      *)
LEMMA SameHead ==
    ASSUME NEW s, NEW t, SameSteps(s, t), s # <<>>
    PROVE  /\ t # <<>> /\ SameStep(Head(s), Head(t)) /\ SameSteps(Tail(s), Tail(t))
           /\ IsSeq(s) /\ IsSeq(t)
<1>1. IsSeq(s) /\ IsSeq(t) /\ Len(s) = Len(t)
  BY DEF SameSteps
<1>2. Len(s) \in Nat /\ Len(t) \in Nat /\ t # <<>>
  BY <1>1, SeqFacts
<1> DEFINE u == Tail(s)
           v == Tail(t)
<1>3. s = Then(Head(s), u) /\ IsSeq(u) /\ Head(s) = s[1]
  BY <1>1, HeadTail
<1>4. t = Then(Head(t), v) /\ IsSeq(v) /\ Head(t) = t[1]
  BY <1>1, <1>2, HeadTail
<1> HIDE DEF u, v
<1>5. Len(s) = Len(u) + 1 /\ \A i \in 1 .. Len(u) : s[i + 1] = u[i]
  BY <1>3, ThenIs
<1>6. Len(t) = Len(v) + 1 /\ \A i \in 1 .. Len(v) : t[i + 1] = v[i]
  BY <1>4, ThenIs
<1>7. Len(u) \in Nat /\ Len(v) \in Nat
  BY <1>3, <1>4, SeqFacts
<1>8. Len(u) = Len(v)
  <2>1. Len(s) = Len(u) + 1
    BY <1>5
  <2>2. Len(t) = Len(v) + 1
    BY <1>6
  <2>3. Len(s) = Len(t)
    BY <1>1
  <2>4. Len(u) + 1 = Len(v) + 1
    BY <2>1, <2>2, <2>3
  <2> QED BY <2>4, <1>7
<1>9. SameStep(Head(s), Head(t))
  BY <1>1, <1>3, <1>4, <1>5, <1>7 DEF SameSteps
<1>10. ASSUME NEW i \in 1 .. Len(u) PROVE SameStep(u[i], v[i])
  <2>1. i + 1 \in 1 .. Len(s) /\ s[i + 1] = u[i] /\ t[i + 1] = v[i]
    BY <1>5, <1>6, <1>7, <1>8
  <2> QED BY <2>1 DEF SameSteps
<1>11. SameSteps(u, v)
  BY <1>3, <1>4, <1>8, <1>10 DEF SameSteps
<1> QED BY <1>1, <1>2, <1>9, <1>11 DEF u, v

(* One after the other.                                                    *)
LEMMA SameCat ==
    ASSUME NEW s, NEW t, SameSteps(s, t), NEW u, NEW v, SameSteps(u, v)
    PROVE  SameSteps(Cat(s, u), Cat(t, v))
<1> DEFINE p == Cat(s, u)
           q == Cat(t, v)
<1>1. IsSeq(s) /\ IsSeq(t) /\ IsSeq(u) /\ IsSeq(v) /\ Len(s) = Len(t) /\ Len(u) = Len(v)
  BY DEF SameSteps
<1>2. /\ IsSeq(p) /\ Len(p) = Len(s) + Len(u)
      /\ \A i \in 1 .. Len(s) : p[i] = s[i]
      /\ \A i \in 1 .. Len(u) : p[Len(s) + i] = u[i]
  BY <1>1, CatIs
<1>3. /\ IsSeq(q) /\ Len(q) = Len(t) + Len(v)
      /\ \A i \in 1 .. Len(t) : q[i] = t[i]
      /\ \A i \in 1 .. Len(v) : q[Len(t) + i] = v[i]
  BY <1>1, CatIs
<1> HIDE DEF p, q
<1>4. Len(s) \in Nat /\ Len(u) \in Nat
  BY <1>1, SeqFacts
<1>5. ASSUME NEW i \in 1 .. Len(p) PROVE SameStep(p[i], q[i])
  <2>1. CASE i \in 1 .. Len(s)
    BY <1>1, <1>2, <1>3, <2>1 DEF SameSteps
  <2>2. CASE i \notin 1 .. Len(s)
    <3> DEFINE j == i - Len(s)
    <3>1. j \in 1 .. Len(u) /\ i = Len(s) + j
      BY <1>2, <1>4, <2>2
    <3> HIDE DEF j
    <3>2. p[i] = u[j] /\ q[i] = v[j]
      BY <1>1, <1>2, <1>3, <3>1
    <3> QED BY <3>1, <3>2 DEF SameSteps
  <2> QED BY <2>1, <2>2
<1>6. SameSteps(p, q)
  BY <1>1, <1>2, <1>3, <1>5 DEF SameSteps
<1> QED BY <1>6 DEF p, q

(* A step more.                                                            *)
LEMMA SameThen ==
    ASSUME NEW a, NEW b, SameStep(a, b), NEW s, NEW t, SameSteps(s, t)
    PROVE  SameSteps(Then(a, s), Then(b, t))
<1>1. SameSteps(<<a>>, <<b>>)
  BY OneIsSeq DEF SameSteps
<1> QED BY <1>1, SameCat DEF Then

(* What is told does not matter.                                           *)
LEMMA SameTells ==
    ASSUME NEW k, NEW x, NEW y
    PROVE  SameStep(Tell(k, x), Tell(k, y))
BY DEF SameStep, Tell, Step

(* As many records, whatever they are.                                     *)
LEMMA SameRecords ==
    ASSUME NEW r1, NEW r2, NEW n \in Nat
    PROVE  SameSteps(Run(SentRecord(r1), 0, n), Run(SentRecord(r2), 0, n))
<1> DEFINE G(i) == Cat(Run(SentRecord(r1), n - i, n), <<>>)
           H(i) == Cat(Run(SentRecord(r2), n - i, n), <<>>)
           S == {i \in Nat : i <= n => SameSteps(G(i), H(i))}
<1>0. IsSeq(<<>>) /\ SameSteps(<<>>, <<>>)
  BY EmptyIsSeq, SameSelf
<1>1. 0 \in S
  <2>1. n - 0 = n /\ n <= n
    OBVIOUS
  <2>2. \A r : Cat(Run(SentRecord(r), n, n), <<>>) = <<>>
    BY <1>0, <2>1, RecordsSent
  <2>3. SameSteps(Cat(Run(SentRecord(r1), n, n), <<>>), Cat(Run(SentRecord(r2), n, n), <<>>))
    BY <1>0, <2>2
  <2> QED BY <2>1, <2>3
<1>2. ASSUME NEW i \in Nat, i \in S PROVE i + 1 \in S
  <2> SUFFICES ASSUME i + 1 <= n PROVE SameSteps(G(i + 1), H(i + 1))
    OBVIOUS
  <2> DEFINE j == n - (i + 1)
  <2>1. j \in Nat /\ j < n /\ j <= n /\ j + 1 = n - i /\ i <= n
    OBVIOUS
  <2> DEFINE V(r) == Cat(Run(SentRecord(r), j + 1, n), <<>>)
  <2>2. SameSteps(V(r1), V(r2))
    BY <1>2, <2>1
  <2> HIDE DEF j
  <2>3. ASSUME NEW r PROVE Cat(Run(SentRecord(r), j, n), <<>>)
            = Then(Tell("record", r[j + 1]), Then(Ack("GET_FILE_ACK"), Then(Tell("mtime", r[j + 1]), Then(Ack("answer"), V(r)))))
    BY <1>0, <2>1, RecordsSent
  <2> HIDE DEF V
  <2>4. SameSteps(Then(Ack("answer"), V(r1)), Then(Ack("answer"), V(r2)))
    BY <2>2, SameThen DEF SameStep
  <2>5. SameSteps(Then(Tell("mtime", r1[j + 1]), Then(Ack("answer"), V(r1))),
                  Then(Tell("mtime", r2[j + 1]), Then(Ack("answer"), V(r2))))
    BY <2>4, SameThen, SameTells
  <2>6. SameSteps(Then(Ack("GET_FILE_ACK"), Then(Tell("mtime", r1[j + 1]), Then(Ack("answer"), V(r1)))),
                  Then(Ack("GET_FILE_ACK"), Then(Tell("mtime", r2[j + 1]), Then(Ack("answer"), V(r2)))))
    BY <2>5, SameThen DEF SameStep
  <2>7. SameSteps(Cat(Run(SentRecord(r1), j, n), <<>>), Cat(Run(SentRecord(r2), j, n), <<>>))
    BY <2>3, <2>6, SameThen, SameTells
  <2> QED BY <2>7 DEF j
<1>3. Nat \subseteq S
  BY <1>1, <1>2, Inductive
<1>4. n \in S /\ n <= n /\ n - n = 0
  BY <1>3
<1>5. SameSteps(Cat(Run(SentRecord(r1), 0, n), <<>>), Cat(Run(SentRecord(r2), 0, n), <<>>))
  BY <1>4
<1>6. \A r : IsSeq(Run(SentRecord(r), 0, n))
  <2>1. "tell" \in TodoKinds /\ "hear" \in TodoKinds
    BY DEF TodoKinds
  <2>2. \A r : Typed(Run(SentRecord(r), 0, n), TodoKinds)
    BY <2>1, LoopsTyped
  <2> QED BY <2>2 DEF Typed
<1> QED BY <1>5, <1>6, CatEmpty

(* They go on alike once both have heard the same.                         *)
LEMMA SameNext ==
    ASSUME NEW h, NEW g, SameStep(h, g), NEW m, Heeds(h, m), NEW d \in [Files -> KnownCopies],
           NEW r, NEW q, IsSeq(r), IsSeq(q), Len(r) = Len(q)
    PROVE  /\ SameSteps(NextSteps(h, m, d, r), NextSteps(g, m, d, q))
           /\ NextDisk(h, m, d) = NextDisk(g, m, d) /\ Heeds(g, m)
<1>1. h.do = "hear" /\ g.do = "hear" /\ g.kind = h.kind /\ g.arg = h.arg
  BY DEF SameStep, Heeds, Takes
<1>2. NextDisk(h, m, d) = NextDisk(g, m, d)
  BY <1>1 DEF NextDisk
<1>3. Heeds(g, m)
  BY <1>1 DEF Heeds, Takes
<1>4. IsSeq(NextSteps(h, m, d, r))
  <2>1. Typed(NextSteps(h, m, d, r), TodoKinds)
    BY NextTyped DEF Heeds
  <2> QED BY <2>1 DEF Typed
<1>5. SameSteps(NextSteps(h, m, d, r), NextSteps(g, m, d, q))
  <2> DEFINE M == NextSteps(h, m, d, r)
             N == NextSteps(g, m, d, q)
  <2>1. CASE h.kind \in {"command", "answer"} /\ m.kind = "SYNC"
    <3> DEFINE n == Len(r)
    <3>1. n \in Nat
      BY SeqFacts
    <3>2. M = Then(Tell("number", n), Then(Ack("NUMBER_ACK"), Run(SentRecord(r), 0, n)))
      <4>1. M = SyncServer(r)
        BY <2>1, HandlerIs DEF NextSteps
      <4> QED BY <4>1, SyncServerIs
    <3>3. N = Then(Tell("number", n), Then(Ack("NUMBER_ACK"), Run(SentRecord(q), 0, n)))
      <4>1. N = SyncServer(q)
        BY <1>1, <2>1, HandlerIs DEF NextSteps
      <4> QED BY <4>1, SyncServerIs
    <3> HIDE DEF n, M, N
    <3>4. SameSteps(Run(SentRecord(r), 0, n), Run(SentRecord(q), 0, n))
      BY <3>1, SameRecords
    <3>5. SameSteps(Then(Ack("NUMBER_ACK"), Run(SentRecord(r), 0, n)), Then(Ack("NUMBER_ACK"), Run(SentRecord(q), 0, n)))
      BY <3>4, SameThen DEF SameStep
    <3>6. SameSteps(M, N)
      BY <3>2, <3>3, <3>5, SameThen DEF SameStep
    <3> QED BY <3>6 DEF M, N
  <2>2. CASE h.kind \in {"command", "answer"} /\ m.kind # "SYNC"
    <3>1. M = Handler(r, m.kind) /\ N = Handler(q, m.kind)
      BY <1>1, <2>2 DEF NextSteps
    <3>2. m.kind \in CommandKinds \cup AnswerKinds
      BY <2>2 DEF Heeds, Takes, Acks
    <3>3. Handler(r, m.kind) = Handler(q, m.kind)
      BY <3>2, <2>2 DEF Handler, CommandKinds, AnswerKinds
    <3>4. M = N
      BY <3>1, <3>3
    <3> QED BY <1>4, <3>4, SameSelf
  <2>3. CASE h.kind \notin {"command", "answer"}
    <3>1. M = N
      BY <1>1, <2>3 DEF NextSteps
    <3> QED BY <1>4, <3>1, SameSelf
  <2> QED BY <2>1, <2>2, <2>3
<1> QED BY <1>2, <1>3, <1>5

(* The records of a server that hears a message: only a time makes one, and*)
(* delete_file forgets one.                                                *)
LEMMA NextRecsAre ==
    ASSUME NEW h, NEW m, h.kind = "mtime" => h.arg \in Files, NEW d, NEW r, Sane(r)
    PROVE  /\ Sane(NextRecs(h, m, d, r))
           /\ \A g \in Elems(NextRecs(h, m, d, r)) :
                 /\ g \in Elems(r) \/ (h.kind = "mtime" /\ g = h.arg)
                 /\ h.kind = "name" /\ h.arg = "DELETE" /\ d[m.arg] # Missing => g # m.arg
<1>1. CASE h.kind = "mtime"
  <2>1. NextRecs(h, m, d, r) = Assigned(r, h.arg)
    BY <1>1 DEF NextRecs
  <2>2. Sane(Assigned(r, h.arg)) /\ Elems(Assigned(r, h.arg)) = Elems(r) \cup {h.arg}
    BY <1>1, AssignedIs
  <2> QED BY <1>1, <2>1, <2>2
<1>2. CASE h.kind = "name" /\ h.arg = "DELETE" /\ d[m.arg] # Missing /\ m.arg \in Elems(r)
  <2>1. NextRecs(h, m, d, r) = Forgotten(r, m.arg)
    BY <1>2 DEF NextRecs, Elems
  <2>2. Sane(Forgotten(r, m.arg)) /\ Elems(Forgotten(r, m.arg)) = Elems(r) \ {m.arg}
    BY <1>2, ForgottenIs
  <2> QED BY <1>2, <2>1, <2>2
<1>3. CASE h.kind # "mtime" /\ ~(h.kind = "name" /\ h.arg = "DELETE" /\ d[m.arg] # Missing /\ m.arg \in Elems(r))
  <2>1. NextRecs(h, m, d, r) = r
    BY <1>3 DEF NextRecs, Elems
  <2> QED BY <1>3, <2>1
<1> QED BY <1>1, <1>2, <1>3

(* The same files have a record, wherever those are.                       *)
LEMMA NextRecsSame ==
    ASSUME NEW h, NEW m, h.kind = "mtime" => h.arg \in Files, NEW d, NEW r, Sane(r),
           NEW q, Sane(q), Elems(q) = Elems(r), Len(q) = Len(r)
    PROVE  /\ Elems(NextRecs(h, m, d, q)) = Elems(NextRecs(h, m, d, r))
           /\ Len(NextRecs(h, m, d, q)) = Len(NextRecs(h, m, d, r))
<1>1. CASE h.kind = "mtime"
  <2>1. NextRecs(h, m, d, r) = Assigned(r, h.arg) /\ NextRecs(h, m, d, q) = Assigned(q, h.arg)
    BY <1>1 DEF NextRecs
  <2>2. /\ Elems(Assigned(r, h.arg)) = Elems(r) \cup {h.arg}
        /\ Len(Assigned(r, h.arg)) = IF h.arg \in Elems(r) THEN Len(r) ELSE Len(r) + 1
    BY <1>1, AssignedIs
  <2>3. /\ Elems(Assigned(q, h.arg)) = Elems(q) \cup {h.arg}
        /\ Len(Assigned(q, h.arg)) = IF h.arg \in Elems(q) THEN Len(q) ELSE Len(q) + 1
    BY <1>1, AssignedIs
  <2> QED BY <2>1, <2>2, <2>3
<1>2. CASE h.kind = "name" /\ h.arg = "DELETE" /\ d[m.arg] # Missing /\ m.arg \in Elems(r)
  <2>1. NextRecs(h, m, d, r) = Forgotten(r, m.arg) /\ NextRecs(h, m, d, q) = Forgotten(q, m.arg)
    BY <1>2 DEF NextRecs, Elems
  <2>2. Elems(Forgotten(r, m.arg)) = Elems(r) \ {m.arg} /\ Len(Forgotten(r, m.arg)) = Len(r) - 1
    BY <1>2, ForgottenIs
  <2>3. Elems(Forgotten(q, m.arg)) = Elems(q) \ {m.arg} /\ Len(Forgotten(q, m.arg)) = Len(q) - 1
    BY <1>2, ForgottenIs
  <2> QED BY <2>1, <2>2, <2>3
<1>3. CASE h.kind # "mtime" /\ ~(h.kind = "name" /\ h.arg = "DELETE" /\ d[m.arg] # Missing /\ m.arg \in Elems(r))
  <2>1. NextRecs(h, m, d, r) = r /\ NextRecs(h, m, d, q) = q
    BY <1>3 DEF NextRecs, Elems
  <2> QED BY <2>1
<1> QED BY <1>1, <1>2, <1>3

(* Two servers that are alike stay so when both hear a message.            *)
LEMMA TurnedAlike ==
    ASSUME NEW s, NEW t, Alike(s, t), s.disk \in [Files -> KnownCopies], Sane(s.recs), Sane(t.recs),
           NEW m, Heeds(Hearing(t.todo), m), Hearing(t.todo).kind = "mtime" => Hearing(t.todo).arg \in Files
    PROVE  Alike(Turned(s, m), Turned(t, m)) /\ Heeds(Hearing(s.todo), m) /\ Sane(Turned(s, m).recs)
<1> DEFINE h == Hearing(t.todo)
           g == Hearing(s.todo)
<1>1. SameStep(h, g) /\ SameSteps(Left(s.todo), Left(t.todo)) /\ IsSeq(t.todo) /\ IsSeq(s.todo)
  <2>1. IsSeq(t.todo) /\ IsSeq(s.todo)
    BY DEF Alike, SameSteps
  <2>2. CASE s.todo = <<>>
    <3>1. t.todo = <<>>
      BY <2>2, SameEmpty DEF Alike
    <3>2. SameSteps(<<>>, <<>>)
      BY EmptyIsSeq, SameSelf
    <3> QED BY <2>1, <2>2, <3>1, <3>2 DEF Hearing, Left, SameStep
  <2>3. CASE s.todo # <<>>
    <3>1. /\ t.todo # <<>> /\ SameStep(Head(s.todo), Head(t.todo))
          /\ SameSteps(Tail(s.todo), Tail(t.todo))
      BY <2>3, SameHead DEF Alike
    <3> QED BY <2>1, <2>3, <3>1 DEF Hearing, Left, SameStep
  <2> QED BY <2>2, <2>3
<1>2. IsSeq(s.recs) /\ IsSeq(t.recs) /\ Len(s.recs) = Len(t.recs) /\ s.disk = t.disk /\ Elems(s.recs) = Elems(t.recs)
  BY DEF Sane, Alike
<1> HIDE DEF h, g
<1>3. Heeds(h, m) /\ (h.kind = "mtime" => h.arg \in Files)
  BY DEF h
<1>4. SameStep(g, h) /\ Heeds(g, m) /\ g.kind = h.kind /\ g.arg = h.arg
  BY <1>1, <1>3 DEF SameStep, Heeds, Takes
<1>5. /\ SameSteps(NextSteps(g, m, s.disk, s.recs), NextSteps(h, m, t.disk, t.recs))
      /\ NextDisk(g, m, s.disk) = NextDisk(h, m, t.disk)
  BY <1>2, <1>4, SameNext
<1>6. SameSteps(Turned(s, m).todo, Turned(t, m).todo)
  BY <1>1, <1>5, SameCat DEF Turned, h, g
<1>7. Turned(s, m).disk = Turned(t, m).disk
  BY <1>5 DEF Turned, h, g
<1>8. \A r : NextRecs(g, m, s.disk, r) = NextRecs(h, m, t.disk, r)
  BY <1>2, <1>4 DEF NextRecs
<1>9. /\ Elems(NextRecs(h, m, t.disk, s.recs)) = Elems(NextRecs(h, m, t.disk, t.recs))
      /\ Len(NextRecs(h, m, t.disk, s.recs)) = Len(NextRecs(h, m, t.disk, t.recs))
      /\ Sane(NextRecs(h, m, t.disk, s.recs))
  <2>1. Sane(NextRecs(h, m, t.disk, s.recs))
    BY <1>3, NextRecsAre
  <2>2. /\ Elems(NextRecs(h, m, t.disk, s.recs)) = Elems(NextRecs(h, m, t.disk, t.recs))
        /\ Len(NextRecs(h, m, t.disk, s.recs)) = Len(NextRecs(h, m, t.disk, t.recs))
    BY <1>2, <1>3, NextRecsSame
  <2> QED BY <2>1, <2>2
<1>10. /\ Turned(s, m).recs = NextRecs(h, m, t.disk, s.recs)
       /\ Turned(t, m).recs = NextRecs(h, m, t.disk, t.recs)
  BY <1>8 DEF Turned, h, g
<1> QED BY <1>4, <1>6, <1>7, <1>9, <1>10 DEF Alike, g

(* A server is in order, and has every file of z as it is there.           *)
Kept(x, z) ==
    /\ x.disk \in [Files -> KnownCopies] /\ Sane(x.recs) /\ Typed(x.todo, TodoKinds)
    /\ \A f \in Files : z[f] # Missing => x.disk[f] = z[f]

(* A server that is now s is h[i] once it has heard the first i messages   *)
(* of q.                                                                   *)
Past(h, s, q, z) ==
    /\ h[0] = s
    /\ \A i \in 1 .. Len(q) : Heeds(Hearing(h[i - 1].todo), q[i]) /\ h[i] = Turned(h[i - 1], q[i])
    /\ \A i \in 0 .. Len(q) : Kept(h[i], z)

(* x, had it not yet told u.                                               *)
Untold(x, u) == [todo |-> Cat(AsTells(u), x.todo), disk |-> x.disk, recs |-> x.recs]

(* A server s, that has told u and has q still to hear, does what the      *)
(* leader does, that is now t; it has all the files of z.                  *)
Follows(s, u, q, t, z) ==
    /\ IsSeq(u) /\ IsSeq(q) /\ (q # <<>> => u = <<>>)
    /\ \E h : /\ Past(h, s, q, z) /\ Alike(Untold(h[Len(q)], u), t)
              /\ Due(t.todo) => \A i \in 0 .. Len(q) : h[i].disk = t.disk

(* A server that follows is in order, and heeds its next message.          *)
LEMMA FollowsKept ==
    ASSUME NEW s, NEW u, NEW q, NEW t, NEW z, Follows(s, u, q, t, z)
    PROVE  /\ Kept(s, z) /\ IsSeq(u) /\ IsSeq(q) /\ (q # <<>> => u = <<>>)
           /\ q # <<>> => Heeds(Hearing(s.todo), Head(q))
<1>1. PICK h : Past(h, s, q, z)
  BY DEF Follows
<1>2. IsSeq(q) /\ IsSeq(u) /\ (q # <<>> => u = <<>>)
  BY DEF Follows
<1>3. Len(q) \in Nat
  BY <1>2, SeqFacts
<1>4. Kept(s, z)
  <2>1. 0 \in 0 .. Len(q)
    BY <1>3
  <2> QED BY <1>1, <2>1 DEF Past
<1>5. ASSUME q # <<>> PROVE Heeds(Hearing(s.todo), Head(q))
  <2>1. Head(q) = q[1]
    BY <1>2, <1>5, HeadTail
  <2>2. 1 \in 1 .. Len(q) /\ 1 - 1 = 0
    BY <1>2, <1>3, <1>5, SeqFacts
  <2>3. Heeds(Hearing(h[1 - 1].todo), q[1])
    BY <1>1, <2>2 DEF Past
  <2> QED BY <1>1, <2>1, <2>2, <2>3 DEF Past
<1> QED BY <1>2, <1>4, <1>5

(* A server follows when it is as the leader and nothing is under way.     *)
LEMMA FollowsStart ==
    ASSUME NEW s, NEW z, Kept(s, z), NEW t, Alike(s, t)
    PROVE  Follows(s, <<>>, <<>>, t, z)
<1> DEFINE h == [i \in 0 .. 0 |-> s]
<1>1. Len(<<>>) = 0 /\ IsSeq(<<>>)
  BY EmptyIsSeq
<1>2. h[0] = s
  OBVIOUS
<1> HIDE DEF h
<1>3. Past(h, s, <<>>, z)
  BY <1>1, <1>2 DEF Past
<1>4. Alike(Untold(h[Len(<<>>)], <<>>), t)
  <2>1. Cat(AsTells(<<>>), s.todo) = s.todo
    BY TellsEmpty, CatEmpty DEF Alike, SameSteps
  <2> QED BY <1>1, <1>2, <2>1 DEF Alike, Untold
<1>5. \A i \in 0 .. Len(<<>>) : h[i].disk = t.disk
  BY <1>1, <1>2 DEF Alike
<1> QED BY <1>1, <1>3, <1>4, <1>5 DEF Follows

(* Of the leader, its next messages matter only by their kind.             *)
LEMMA FollowsTold ==
    ASSUME NEW s, NEW u, NEW q, NEW t, NEW z, Follows(s, u, q, t, z),
           NEW k, NEW x, NEW y, NEW T, IsSeq(T), t.todo = Then(Tell(k, x), T), NEW v,
           v = [todo |-> Then(Tell(k, y), T), disk |-> t.disk, recs |-> t.recs]
    PROVE  Follows(s, u, q, v, z)
<1>1. PICK h : /\ Past(h, s, q, z) /\ Alike(Untold(h[Len(q)], u), t)
               /\ Due(t.todo) => \A i \in 0 .. Len(q) : h[i].disk = t.disk
  BY DEF Follows
<1>2. Due(v.todo) <=> Due(t.todo)
  BY DueIs, StepFacts
<1> DEFINE w == Untold(h[Len(q)], u)
<1>3. SameSteps(w.todo, v.todo)
  <2>1. SameSteps(w.todo, t.todo)
    BY <1>1 DEF Alike
  <2> HIDE DEF w
  <2>2. IsSeq(Then(Tell(k, y), T)) /\ IsSeq(Then(Tell(k, x), T)) /\ Len(Then(Tell(k, y), T)) = Len(Then(Tell(k, x), T))
    BY ThenIs
  <2>3. SameSteps(T, T) /\ SameStep(Tell(k, x), Tell(k, y))
    BY SameSelf, SameTells
  <2>4. SameSteps(Then(Tell(k, x), T), Then(Tell(k, y), T))
    BY <2>3, SameThen
  <2>5. v.todo = Then(Tell(k, y), T)
    OBVIOUS
  <2>6. SameSteps(t.todo, v.todo)
    BY <2>4, <2>5
  <2> HIDE DEF Then
  <2>7. \A a, b, c : SameSteps(a, b) /\ SameSteps(b, c) => SameSteps(a, c)
    BY DEF SameSteps, SameStep
  <2> QED BY <2>1, <2>6, <2>7
<1>4. Alike(w, v)
  BY <1>1, <1>3 DEF Alike
<1>5. Due(v.todo) => \A i \in 0 .. Len(q) : h[i].disk = v.disk
  BY <1>1, <1>2
<1> QED BY <1>1, <1>4, <1>5 DEF Follows

(* The leader has collected a message.                                     *)
LEMMA FollowsCollected ==
    ASSUME NEW s, NEW u, NEW q, NEW t, NEW z, Follows(s, u, q, t, z),
           NEW k, NEW x, NEW T, IsSeq(T), t.todo = Then(Tell(k, x), T), u # <<>>, NEW v,
           v = [todo |-> T, disk |-> t.disk, recs |-> t.recs]
    PROVE  Head(u).kind = k /\ q = <<>> /\ Follows(s, Tail(u), q, v, z)
<1>1. PICK h : /\ Past(h, s, q, z) /\ Alike(Untold(h[Len(q)], u), t)
               /\ Due(t.todo) => \A i \in 0 .. Len(q) : h[i].disk = t.disk
  BY DEF Follows
<1>2. Due(v.todo) <=> Due(t.todo)
  BY DueIs, StepFacts
<1>3. IsSeq(u) /\ IsSeq(q) /\ q = <<>>
  BY DEF Follows
<1> DEFINE R == h[Len(q)].todo
           w == Untold(h[Len(q)], u)
<1>4. IsSeq(R)
  <2>1. Len(q) \in 0 .. Len(q)
    BY <1>3, SeqFacts
  <2> QED BY <1>1, <2>1 DEF Past, Kept, Typed
<1> HIDE DEF R
<1>5. /\ Cat(AsTells(u), R) = Then(Tell(Head(u).kind, Head(u).arg), Cat(AsTells(Tail(u)), R))
      /\ IsSeq(Tail(u)) /\ IsSeq(Cat(AsTells(Tail(u)), R))
  BY <1>3, <1>4, TellsHead
<1>6. SameSteps(Cat(AsTells(u), R), t.todo)
  BY <1>1 DEF Alike, Untold, R
<1> DEFINE a == Cat(AsTells(u), R)
           b == Cat(AsTells(Tail(u)), R)
           c == Tell(Head(u).kind, Head(u).arg)
<1>7. a = Then(c, b) /\ IsSeq(b)
  BY <1>5
<1> HIDE DEF a, b
<1>8. Head(a) = c /\ Tail(a) = b /\ a # <<>>
  BY <1>7, ThenIs
<1>9. SameStep(Head(a), Head(t.todo)) /\ SameSteps(Tail(a), Tail(t.todo))
  BY <1>6, <1>8, SameHead DEF a
<1>10. Head(t.todo) = Tell(k, x) /\ Tail(t.todo) = T
  BY ThenIs
<1>11. Head(u).kind = k
  BY <1>8, <1>9, <1>10, StepFacts DEF SameStep
<1>12. SameSteps(b, T)
  BY <1>8, <1>9, <1>10
<1>13. Alike(Untold(h[Len(q)], Tail(u)), v)
  BY <1>1, <1>12 DEF Alike, Untold, b, R
<1>14. Due(v.todo) => \A i \in 0 .. Len(q) : h[i].disk = v.disk
  BY <1>1, <1>2
<1> QED BY <1>1, <1>3, <1>5, <1>11, <1>13, <1>14 DEF Follows

(* What the server tells next, it has told.                                *)
LEMMA FollowsTells ==
    ASSUME NEW s, NEW u, NEW q, NEW t, NEW z, Follows(s, u, q, t, z),
           NEW k, NEW x, NEW R, IsSeq(R), s.todo = Then(Tell(k, x), R), NEW v,
           v = [todo |-> R, disk |-> s.disk, recs |-> s.recs]
    PROVE  Follows(v, Append(u, Msg(k, x)), q, t, z)
<1>1. PICK h : /\ Past(h, s, q, z) /\ Alike(Untold(h[Len(q)], u), t)
               /\ Due(t.todo) => \A i \in 0 .. Len(q) : h[i].disk = t.disk
  BY DEF Follows
<1>2. IsSeq(u) /\ IsSeq(q)
  BY DEF Follows
<1>3. Head(s.todo) = Tell(k, x) /\ s.todo # <<>> /\ Tail(s.todo) = R
  BY ThenIs
<1>4. q = <<>> /\ Len(q) = 0
  <2>1. Hearing(s.todo).do = "tell"
    BY <1>3, StepFacts DEF Hearing
  <2>2. q = <<>>
    BY <2>1, FollowsKept DEF Heeds, Takes
  <2> QED BY <2>2, EmptyIsSeq
<1> DEFINE g == [i \in 0 .. 0 |-> v]
<1>5. h[0] = s /\ g[0] = v
  BY <1>1 DEF Past
<1> HIDE DEF g
<1>6. Kept(v, z)
  <2>1. Kept(s, z)
    BY FollowsKept
  <2>2. Typed(R, TodoKinds)
    BY <1>3, <2>1, TypedTail DEF Kept
  <2> QED BY <2>1, <2>2 DEF Kept
<1>7. Past(g, v, q, z)
  BY <1>4, <1>5, <1>6 DEF Past
<1>8. Cat(AsTells(Append(u, Msg(k, x))), R) = Cat(AsTells(u), s.todo)
  BY <1>2, TellsAppend, StepFacts
<1>9. Alike(Untold(g[Len(q)], Append(u, Msg(k, x))), t)
  BY <1>1, <1>4, <1>5, <1>8 DEF Alike, Untold
<1>10. Due(t.todo) => \A i \in 0 .. Len(q) : g[i].disk = t.disk
  BY <1>1, <1>4, <1>5
<1>11. IsSeq(Append(u, Msg(k, x)))
  BY <1>2, AppendIs
<1> QED BY <1>2, <1>4, <1>7, <1>9, <1>10, <1>11 DEF Follows

(* More files, or fewer, have been uploaded.                               *)
LEMMA FollowsSent ==
    ASSUME NEW s, NEW u, NEW q, NEW t, NEW z, Follows(s, u, q, t, z), NEW y,
           \A f \in Files : y[f] # Missing => y[f] = z[f] \/ (Due(t.todo) /\ y[f] = t.disk[f])
    PROVE  Follows(s, u, q, t, y)
<1>1. PICK h : /\ Past(h, s, q, z) /\ Alike(Untold(h[Len(q)], u), t)
               /\ Due(t.todo) => \A i \in 0 .. Len(q) : h[i].disk = t.disk
  BY DEF Follows
<1>2. ASSUME NEW i \in 0 .. Len(q) PROVE Kept(h[i], y)
  <2>1. Kept(h[i], z)
    BY <1>1 DEF Past
  <2>2. Due(t.todo) => h[i].disk = t.disk
    BY <1>1
  <2> QED BY <2>1, <2>2 DEF Kept
<1>3. Past(h, s, q, y)
  BY <1>1, <1>2 DEF Past
<1> QED BY <1>1, <1>3 DEF Follows

(* While the leader waits for a message, the server has told all.          *)
LEMMA FollowsIdle ==
    ASSUME NEW s, NEW u, NEW q, NEW t, NEW z, Follows(s, u, q, t, z),
           t.todo = <<>> \/ Head(t.todo).do = "hear"
    PROVE  /\ u = <<>>
           /\ \E h : /\ Past(h, s, q, z) /\ Alike(h[Len(q)], t)
                     /\ Due(t.todo) => \A i \in 0 .. Len(q) : h[i].disk = t.disk
<1>1. PICK h : /\ Past(h, s, q, z) /\ Alike(Untold(h[Len(q)], u), t)
               /\ Due(t.todo) => \A i \in 0 .. Len(q) : h[i].disk = t.disk
  BY DEF Follows
<1>2. IsSeq(u) /\ IsSeq(q)
  BY DEF Follows
<1> DEFINE R == h[Len(q)].todo
<1>3. IsSeq(R)
  <2>1. Len(q) \in 0 .. Len(q)
    BY <1>2, SeqFacts
  <2> QED BY <1>1, <2>1 DEF Past, Kept, Typed
<1>4. SameSteps(Cat(AsTells(u), R), t.todo)
  BY <1>1 DEF Alike, Untold
<1> HIDE DEF R
<1>5. u = <<>>
  <2> SUFFICES ASSUME u # <<>> PROVE FALSE
    OBVIOUS
  <2> DEFINE a == Cat(AsTells(u), R)
  <2>1. a # <<>> /\ Head(a).do = "tell"
    BY <1>2, <1>3, TellsHead
  <2>2. SameSteps(a, t.todo)
    BY <1>4
  <2> HIDE DEF a
  <2>3. t.todo # <<>> /\ SameStep(Head(a), Head(t.todo))
    BY <2>1, <2>2, SameHead
  <2> QED BY <2>1, <2>3 DEF SameStep
<1>6. SameSteps(R, t.todo)
  BY <1>3, <1>4, <1>5, TellsEmpty, CatEmpty
<1>7. Alike(h[Len(q)], t)
  BY <1>1, <1>6 DEF Alike, Untold, R
<1> QED BY <1>1, <1>5, <1>7

(* What the server is about to tell is what the leader has told.           *)
Echoes(u, y) ==
    /\ IsSeq(u) /\ IsSeq(y) /\ Len(u) <= Len(y)
    /\ \A i \in 1 .. Len(u) : y[i].do = "tell" /\ y[i].kind = u[i].kind

(* So of one that follows.                                                 *)
LEMMA FollowsEchoes ==
    ASSUME NEW s, NEW u, NEW q, NEW t, NEW z, Follows(s, u, q, t, z)
    PROVE  Echoes(u, t.todo)
<1>1. PICK h : Past(h, s, q, z) /\ Alike(Untold(h[Len(q)], u), t)
  BY DEF Follows
<1>2. IsSeq(u) /\ IsSeq(q)
  BY DEF Follows
<1> DEFINE R == h[Len(q)].todo
           a == AsTells(u)
           y == t.todo
<1>3. IsSeq(R)
  <2>1. Len(q) \in 0 .. Len(q)
    BY <1>2, SeqFacts
  <2> QED BY <1>1, <2>1 DEF Past, Kept, Typed
<1>4. SameSteps(Cat(a, R), y)
  BY <1>1 DEF Alike, Untold
<1>5. /\ IsSeq(a) /\ Len(a) = Len(u)
      /\ \A i \in 1 .. Len(u) : a[i] = Tell(u[i].kind, u[i].arg)
  BY <1>2, TellsAre
<1> HIDE DEF R, a, y
<1>6. /\ Len(Cat(a, R)) = Len(a) + Len(R)
      /\ \A i \in 1 .. Len(a) : Cat(a, R)[i] = a[i]
  BY <1>3, <1>5, CatIs
<1>7. Len(R) \in Nat /\ Len(u) \in Nat
  BY <1>2, <1>3, SeqFacts
<1>8. IsSeq(y) /\ Len(y) = Len(u) + Len(R)
  BY <1>4, <1>5, <1>6 DEF SameSteps
<1>9. Len(u) <= Len(y)
  BY <1>7, <1>8
<1>10. ASSUME NEW i \in 1 .. Len(u) PROVE y[i].do = "tell" /\ y[i].kind = u[i].kind
  <2>1. i \in 1 .. Len(Cat(a, R)) /\ Cat(a, R)[i] = Tell(u[i].kind, u[i].arg)
    BY <1>5, <1>6, <1>7
  <2>2. SameStep(Cat(a, R)[i], y[i])
    BY <1>4, <2>1 DEF SameSteps
  <2> QED BY <2>1, <2>2, StepFacts DEF SameStep
<1>11. Echoes(u, y)
  BY <1>2, <1>8, <1>9, <1>10 DEF Echoes
<1> QED BY <1>11 DEF y

(* It hears the next message.                                              *)
LEMMA FollowsReads ==
    ASSUME NEW s, NEW u, NEW q, NEW t, NEW z, Follows(s, u, q, t, z), q # <<>>
    PROVE  Follows(Turned(s, Head(q)), u, Tail(q), t, z)
<1>1. PICK h : /\ Past(h, s, q, z) /\ Alike(Untold(h[Len(q)], u), t)
               /\ Due(t.todo) => \A i \in 0 .. Len(q) : h[i].disk = t.disk
  BY DEF Follows
<1>2. IsSeq(u) /\ IsSeq(q) /\ u = <<>>
  BY DEF Follows
<1> DEFINE p == Tail(q)
           n == Len(p)
           g == [i \in 0 .. n |-> h[i + 1]]
<1>3. q = Then(Head(q), p) /\ IsSeq(p) /\ Head(q) = q[1]
  BY <1>2, HeadTail
<1>4. n \in Nat
  BY <1>3, SeqFacts
<1>5. Len(q) = n + 1 /\ \A i \in 1 .. n : q[i + 1] = p[i]
  BY <1>3, ThenIs
<1>6. \A i \in 0 .. n : g[i] = h[i + 1]
  OBVIOUS
<1> HIDE DEF g, n
<1>7. g[0] = Turned(s, Head(q))
  <2>1. 1 \in 1 .. Len(q) /\ 1 - 1 = 0 /\ 0 \in 0 .. n /\ 0 + 1 = 1
    BY <1>4, <1>5
  <2>2. h[1] = Turned(h[1 - 1], q[1]) /\ h[0] = s
    BY <1>1, <2>1 DEF Past
  <2>3. g[0] = h[0 + 1]
    BY <1>6, <2>1
  <2> QED BY <1>3, <2>1, <2>2, <2>3
<1>8. ASSUME NEW i \in 1 .. n PROVE Heeds(Hearing(g[i - 1].todo), p[i]) /\ g[i] = Turned(g[i - 1], p[i])
  <2>1. i + 1 \in 1 .. Len(q) /\ (i + 1) - 1 = i /\ i - 1 \in 0 .. n /\ i \in 0 .. n /\ (i - 1) + 1 = i
    BY <1>4, <1>5
  <2>2. Heeds(Hearing(h[i].todo), q[i + 1]) /\ h[i + 1] = Turned(h[i], q[i + 1])
    BY <1>1, <2>1 DEF Past
  <2>3. g[i - 1] = h[i] /\ g[i] = h[i + 1] /\ q[i + 1] = p[i]
    BY <1>5, <1>6, <2>1
  <2> QED BY <2>2, <2>3
<1>9. ASSUME NEW i \in 0 .. n PROVE Kept(g[i], z) /\ (Due(t.todo) => g[i].disk = t.disk)
  <2>1. i + 1 \in 0 .. Len(q) /\ g[i] = h[i + 1]
    BY <1>4, <1>5, <1>6
  <2> QED BY <1>1, <2>1 DEF Past
<1>10. Past(g, Turned(s, Head(q)), p, z)
  BY <1>7, <1>8, <1>9 DEF Past, n
<1>11. g[n] = h[Len(q)]
  BY <1>4, <1>5, <1>6
<1>12. Alike(Untold(g[Len(p)], u), t)
  BY <1>1, <1>11 DEF n
<1> QED BY <1>2, <1>3, <1>9, <1>10, <1>12 DEF Follows, n

(* The leader hears a message, and repeats it.                             *)
LEMMA FollowsHears ==
    ASSUME NEW s, NEW u, NEW q, NEW t, NEW z, Follows(s, u, q, t, z),
           t.todo = <<>> \/ Head(t.todo).do = "hear", Sane(t.recs),
           NEW m, Heeds(Hearing(t.todo), m), Hearing(t.todo).kind = "mtime" => Hearing(t.todo).arg \in Files,
           Kept(Turned(t, m), z),
           Due(Turned(t, m).todo) => m.kind = "COMPLETE" /\ q = <<>>
    PROVE  Follows(s, <<>>, Append(q, m), Turned(t, m), z)
<1>1. PICK h : Past(h, s, q, z) /\ Alike(h[Len(q)], t)
  BY FollowsIdle
<1>2. IsSeq(q)
  BY DEF Follows
<1> DEFINE n == Len(q)
           p == Append(q, m)
           v == Turned(t, m)
           x == Turned(h[n], m)
           g == [i \in 0 .. n + 1 |-> IF i = n + 1 THEN x ELSE h[i]]
<1>3. n \in Nat
  BY <1>2, SeqFacts
<1>4. IsSeq(p) /\ Len(p) = n + 1 /\ p[n + 1] = m /\ \A i \in 1 .. n : p[i] = q[i]
  <2> HIDE DEF v, x, g
  <2>1. IsSeq(Append(q, m)) /\ Len(Append(q, m)) = Len(q) + 1 /\ Append(q, m)[Len(q) + 1] = m
    BY <1>2, AppendIs
  <2>2. \A i \in 1 .. Len(q) : Append(q, m)[i] = q[i]
    BY <1>2, AppendIs
  <2> QED BY <2>1, <2>2
<1>5. g[n + 1] = x /\ \A i \in 0 .. n : g[i] = h[i]
  BY <1>3
<1> HIDE DEF g, p
<1>6. Kept(h[n], z)
  BY <1>1, <1>3 DEF Past
<1>7. Alike(x, v) /\ Heeds(Hearing(h[n].todo), m) /\ Sane(x.recs)
  BY <1>1, <1>6, TurnedAlike DEF Kept
<1>8. Typed(x.todo, TodoKinds)
  <2> DEFINE k == Hearing(h[n].todo)
             N == NextSteps(k, m, h[n].disk, h[n].recs)
  <2>1. Typed(N, TodoKinds)
    BY <1>6, <1>7, NextTyped DEF Heeds, Kept, Sane
  <2>2. Typed(Left(h[n].todo), TodoKinds)
    BY <1>6, TypedTail, TypedThen DEF Left, Kept
  <2> HIDE DEF N
  <2>3. Typed(Cat(N, Left(h[n].todo)), TodoKinds)
    BY <2>1, <2>2, TypedCat
  <2> QED BY <2>3 DEF Turned, N
<1>9. Kept(x, z)
  <2>1. x.disk = v.disk
    BY <1>7 DEF Alike
  <2> HIDE DEF x, v
  <2>2. Kept(v, z)
    BY DEF v
  <2> QED BY <1>7, <1>8, <2>1, <2>2 DEF Kept
<1> HIDE DEF x, v
<1>10. ASSUME NEW i \in 1 .. n + 1 PROVE Heeds(Hearing(g[i - 1].todo), p[i]) /\ g[i] = Turned(g[i - 1], p[i])
  <2>1. CASE i = n + 1
    <3>1. i - 1 = n /\ g[n] = h[n] /\ p[i] = m /\ g[i] = x
      BY <1>3, <1>4, <1>5, <2>1
    <3> QED BY <1>7, <3>1 DEF x
  <2>2. CASE i # n + 1
    <3>1. i \in 1 .. n /\ i - 1 \in 0 .. n /\ i \in 0 .. n
      BY <1>3, <2>2
    <3>2. p[i] = q[i] /\ g[i] = h[i] /\ g[i - 1] = h[i - 1]
      BY <1>4, <1>5, <3>1
    <3> QED BY <1>1, <3>1, <3>2 DEF Past
  <2> QED BY <2>1, <2>2
<1>11. ASSUME NEW i \in 0 .. n + 1 PROVE Kept(g[i], z)
  <2>1. CASE i = n + 1
    BY <1>5, <1>9, <2>1
  <2>2. CASE i # n + 1
    <3>1. i \in 0 .. n
      BY <1>3, <2>2
    <3> QED BY <1>1, <1>5, <3>1 DEF Past
  <2> QED BY <2>1, <2>2
<1>12. Past(g, s, p, z)
  <2>1. g[0] = s
    BY <1>1, <1>3, <1>5 DEF Past
  <2> QED BY <1>4, <1>10, <1>11, <2>1 DEF Past
<1>13. Alike(Untold(g[Len(p)], <<>>), v)
  <2>1. g[Len(p)] = x
    BY <1>4, <1>5
  <2>2. Cat(AsTells(<<>>), x.todo) = x.todo
    BY <1>8, TellsEmpty, CatEmpty DEF Typed
  <2> QED BY <1>7, <2>1, <2>2 DEF Alike, Untold
<1>14. ASSUME Due(v.todo) PROVE \A i \in 0 .. Len(p) : g[i].disk = v.disk
  <2>1. m.kind = "COMPLETE" /\ q = <<>>
    BY <1>14 DEF v
  <2>2. n = 0
    BY <2>1, EmptyIsSeq
  <2>3. v.disk = t.disk
    <3>1. Hearing(t.todo).kind \notin {"name", "part"}
      BY <2>1 DEF Heeds, Takes
    <3> QED BY <3>1 DEF v, Turned, NextDisk
  <2>4. g[0].disk = v.disk
    BY <1>1, <1>5, <2>2, <2>3 DEF Alike
  <2>5. g[1].disk = v.disk
    BY <1>5, <1>7, <2>2 DEF Alike
  <2> QED BY <1>4, <2>2, <2>4, <2>5
<1>15. IsSeq(<<>>)
  BY EmptyIsSeq
<1> QED BY <1>4, <1>12, <1>13, <1>14, <1>15 DEF Follows, p, v

(* The leader collects a message of kind k of each server of B.            *)
Roster(B) == IsSeq(B) /\ \A i, j \in DOMAIN B : B[i] = B[j] => i = j
Asks(k, B) == [n \in 1 .. Len(B) |-> Step("collect", k, B[n])]

(* As many steps, each to collect from one server.                         *)
LEMMA AsksAre ==
    ASSUME NEW k, NEW B, IsSeq(B)
    PROVE  /\ IsSeq(Asks(k, B)) /\ Len(Asks(k, B)) = Len(B)
           /\ \A i \in 1 .. Len(B) : Asks(k, B)[i] = Step("collect", k, B[i])
           /\ Asks(k, B) = <<>> <=> B = <<>>
<1> DEFINE n == Len(B)
           a == Asks(k, B)
<1>1. n \in Nat
  BY SeqFacts
<1>2. /\ DOMAIN a = 1 .. n /\ a = [i \in 1 .. n |-> a[i]]
      /\ \A i \in 1 .. n : a[i] = Step("collect", k, B[i])
  BY DEF Asks
<1>3. IsSeq(a) /\ Len(a) = n
  BY <1>1, <1>2, MadeSeq
<1>4. a = <<>> <=> B = <<>>
  <2> HIDE DEF a
  <2> QED BY <1>3, SeqFacts
<1> QED BY <1>2, <1>3, <1>4

(* To collect from b first.                                                *)
LEMMA AsksThen ==
    ASSUME NEW k, NEW B, IsSeq(B), NEW b
    PROVE  Asks(k, Then(b, B)) = Then(Step("collect", k, b), Asks(k, B))
<1> DEFINE s == Asks(k, Then(b, B))
           a == Asks(k, B)
           t == Then(Step("collect", k, b), a)
           C == Then(b, B)
<1>1. IsSeq(C) /\ Len(C) = Len(B) + 1 /\ C[1] = b /\ \A i \in 1 .. Len(B) : C[i + 1] = B[i]
  BY ThenIs
<1>2. IsSeq(a) /\ Len(a) = Len(B) /\ \A i \in 1 .. Len(B) : a[i] = Step("collect", k, B[i])
  BY AsksAre
<1>3. IsSeq(s) /\ Len(s) = Len(C) /\ \A i \in 1 .. Len(C) : s[i] = Step("collect", k, C[i])
  <2> HIDE DEF C
  <2> QED BY <1>1, AsksAre DEF C
<1> HIDE DEF a, s, C
<1>4. IsSeq(t) /\ Len(t) = Len(a) + 1 /\ t[1] = Step("collect", k, b) /\ \A i \in 1 .. Len(a) : t[i + 1] = a[i]
  BY <1>2, ThenIs
<1> HIDE DEF t
<1>5. Len(B) \in Nat
  BY SeqFacts
<1>6. ASSUME NEW i \in 1 .. Len(s) PROVE s[i] = t[i]
  <2>1. CASE i = 1
    BY <1>1, <1>3, <1>4, <1>5, <2>1
  <2>2. CASE i # 1
    <3> DEFINE j == i - 1
    <3>1. j \in 1 .. Len(B) /\ i = j + 1
      BY <1>1, <1>3, <1>5, <2>2
    <3> HIDE DEF j
    <3>2. C[i] = B[j] /\ t[i] = a[j] /\ a[j] = Step("collect", k, B[j])
      BY <1>1, <1>2, <1>4, <3>1
    <3> QED BY <1>3, <3>2
  <2> QED BY <2>1, <2>2
<1>7. Len(s) = Len(t)
  BY <1>1, <1>2, <1>3, <1>4
<1>8. s = t
  BY <1>3, <1>4, <1>6, <1>7, SeqsEqual
<1> QED BY <1>8 DEF s, t, a, C

(* To collect from the first of B, and then from the others.               *)
LEMMA AsksHead ==
    ASSUME NEW k, NEW B, Roster(B), B # <<>>
    PROVE  /\ Asks(k, B) = Then(Step("collect", k, Head(B)), Asks(k, Tail(B)))
           /\ Roster(Tail(B)) /\ IsSeq(Asks(k, Tail(B)))
           /\ Head(B) \in Elems(B) /\ Elems(Tail(B)) = Elems(B) \ {Head(B)}
<1> DEFINE C == Tail(B)
           b == Head(B)
<1>1. B = Then(b, C) /\ IsSeq(C) /\ b = B[1] /\ IsSeq(B)
  BY HeadTail DEF Roster
<1> HIDE DEF C, b
<1>2. Asks(k, B) = Then(Step("collect", k, b), Asks(k, C)) /\ IsSeq(Asks(k, C))
  BY <1>1, AsksThen, AsksAre
<1>3. Len(B) = Len(C) + 1 /\ \A i \in 1 .. Len(C) : B[i + 1] = C[i]
  BY <1>1, ThenIs
<1>4. DOMAIN B = 1 .. Len(B) /\ DOMAIN C = 1 .. Len(C) /\ Len(C) \in Nat
  BY <1>1, SeqFacts
<1>5. \A i, j \in 1 .. Len(B) : B[i] = B[j] => i = j
  BY <1>4 DEF Roster
<1>6. ASSUME NEW i \in 1 .. Len(C), NEW j \in 1 .. Len(C), C[i] = C[j] PROVE i = j
  <2>1. i + 1 \in 1 .. Len(B) /\ j + 1 \in 1 .. Len(B) /\ B[i + 1] = B[j + 1]
    BY <1>3, <1>4, <1>6
  <2>2. i + 1 = j + 1
    BY <1>5, <2>1
  <2> QED BY <2>2
<1>7. Roster(C)
  BY <1>1, <1>4, <1>6 DEF Roster
<1>8. Elems(C) \subseteq Elems(B) \ {b}
  <2> SUFFICES ASSUME NEW i \in 1 .. Len(C) PROVE C[i] \in Elems(B) \ {b}
    BY <1>4 DEF Elems
  <2>1. i + 1 \in 1 .. Len(B) /\ B[i + 1] = C[i] /\ i + 1 # 1 /\ 1 \in 1 .. Len(B)
    BY <1>3, <1>4
  <2> QED BY <1>1, <1>4, <1>5, <2>1 DEF Elems
<1>9. Elems(B) \ {b} \subseteq Elems(C)
  <2> SUFFICES ASSUME NEW i \in 1 .. Len(B), B[i] # b PROVE B[i] \in Elems(C)
    BY <1>4 DEF Elems
  <2> DEFINE j == i - 1
  <2>1. j \in 1 .. Len(C) /\ i = j + 1
    BY <1>1, <1>3, <1>4
  <2> HIDE DEF j
  <2> QED BY <1>3, <1>4, <2>1 DEF Elems
<1>10. b \in Elems(B)
  BY <1>1, <1>3, <1>4 DEF Elems
<1> QED BY <1>2, <1>7, <1>8, <1>9, <1>10 DEF C, b

(* The servers that are not crossed out, each once.                        *)
LEMMA CollectsAre ==
    ASSUME ProtocolAssumption, NEW k
    PROVE  \E B : Roster(B) /\ Elems(B) = BackupSet \cap linked /\ Collects(k) = Asks(k, B)
<1> DEFINE n == Len(Backups)
           F == [j \in Nat |-> IF Backups[j] \in linked THEN <<Step("collect", k, Backups[j])>> ELSE <<>>]
<1>1. IsSeq(Backups)
  BY SeqsAre DEF ProtocolAssumption
<1>2. n \in Nat /\ DOMAIN Backups = 1 .. n
  BY <1>1, SeqFacts
<1>3. \A i, j \in 1 .. n : Backups[i] = Backups[j] => i = j
  BY <1>2 DEF ProtocolAssumption, IsInjective
<1>4. \A j \in Nat : IsSeq(F[j])
  BY TuplesAreSeqs, EmptyIsSeq
<1>5. Collects(k) = Run(F, 0, n)
  <2>1. Slice(F, 0, n) = [j \in 1 .. n |-> F[j]]
    BY <1>2 DEF Slice
  <2>2. [j \in 1 .. n |-> F[j]]
        = [j \in DOMAIN Backups |-> IF Backups[j] \in linked THEN <<Step("collect", k, Backups[j])>> ELSE <<>>]
    BY <1>2
  <2> HIDE DEF F
  <2> QED BY <2>1, <2>2 DEF Run, Collects
<1>6. \A j \in Nat : F[j] = IF Backups[j] \in linked THEN <<Step("collect", k, Backups[j])>> ELSE <<>>
  OBVIOUS
<1> HIDE DEF F, n
<1> DEFINE Among(B, j) == Roster(B) /\ Elems(B) = {Backups[i] : i \in j + 1 .. n} \cap linked /\ Run(F, j, n) = Asks(k, B)
           S == {i \in Nat : i <= n => \E B : Among(B, n - i)}
<1>7. 0 \in S
  <2>1. Run(F, n, n) = <<>> /\ Asks(k, <<>>) = <<>>
    BY <1>2, RunEnd, AsksAre, EmptyIsSeq
  <2>2. Roster(<<>>) /\ Elems(<<>>) = {}
    BY EmptyIsSeq DEF Roster, Elems
  <2>3. n - 0 = n /\ n + 1 .. n = {}
    BY <1>2
  <2>4. Among(<<>>, n)
    BY <2>1, <2>2, <2>3
  <2> QED BY <2>3, <2>4
<1>8. ASSUME NEW i \in Nat, i \in S PROVE i + 1 \in S
  <2> SUFFICES ASSUME i + 1 <= n PROVE \E B : Among(B, n - (i + 1))
    OBVIOUS
  <2> DEFINE j == n - (i + 1)
  <2>1. j \in Nat /\ j < n /\ j + 1 = n - i /\ j + 1 \in 1 .. n /\ j + 1 \in Nat
    BY <1>2
  <2>2. PICK B : Among(B, j + 1)
    BY <1>2, <1>8, <2>1
  <2> HIDE DEF j
  <2> DEFINE b == Backups[j + 1]
  <2>3. Run(F, j, n) = Cat(F[j + 1], Asks(k, B))
    BY <1>2, <1>4, <2>1, <2>2, RunStep
  <2>4. IsSeq(B) /\ IsSeq(Asks(k, B))
    BY <2>2, AsksAre DEF Roster
  <2>5. {Backups[x] : x \in j + 1 .. n} = {Backups[x] : x \in (j + 1) + 1 .. n} \cup {b}
    BY <1>2, <2>1
  <2>6. CASE b \notin linked
    <3>1. Run(F, j, n) = Asks(k, B)
      <4>1. F[j + 1] = <<>>
        BY <1>6, <2>1, <2>6
      <4> QED BY <2>3, <2>4, <4>1, CatEmpty
    <3>2. Among(B, j)
      BY <2>2, <2>5, <2>6, <3>1
    <3> QED BY <3>2 DEF j
  <2>7. CASE b \in linked
    <3> DEFINE C == Then(b, B)
    <3>1. IsSeq(C) /\ Len(C) = Len(B) + 1 /\ C[1] = b /\ \A x \in 1 .. Len(B) : C[x + 1] = B[x]
      BY <2>4, ThenIs
    <3>2. Run(F, j, n) = Asks(k, C)
      <4>1. F[j + 1] = <<Step("collect", k, b)>>
        BY <1>6, <2>1, <2>7
      <4> QED BY <2>3, <2>4, <4>1, AsksThen DEF Then
    <3> HIDE DEF C
    <3>3. DOMAIN C = 1 .. Len(C) /\ DOMAIN B = 1 .. Len(B) /\ Len(B) \in Nat
      BY <2>4, <3>1, SeqFacts
    <3>4. Elems(C) = Elems(B) \cup {b}
      <4>1. Elems(C) \subseteq Elems(B) \cup {b}
        <5> SUFFICES ASSUME NEW x \in 1 .. Len(C), x # 1 PROVE C[x] \in Elems(B)
          BY <3>1, <3>3 DEF Elems
        <5> DEFINE y == x - 1
        <5>1. y \in 1 .. Len(B) /\ x = y + 1
          BY <3>1, <3>3
        <5> HIDE DEF y
        <5> QED BY <3>1, <3>3, <5>1 DEF Elems
      <4>2. b \in Elems(C)
        BY <3>1, <3>3 DEF Elems
      <4>3. ASSUME NEW x \in 1 .. Len(B) PROVE B[x] \in Elems(C)
        <5>1. x + 1 \in 1 .. Len(C) /\ C[x + 1] = B[x]
          BY <3>1, <3>3
        <5> QED BY <3>3, <5>1 DEF Elems
      <4>4. Elems(B) \subseteq Elems(C)
        BY <3>3, <4>3 DEF Elems
      <4> QED BY <4>1, <4>2, <4>4
    <3>5. b \notin Elems(B)
      <4> SUFFICES ASSUME b \in Elems(B) PROVE FALSE
        OBVIOUS
      <4>1. PICK x \in (j + 1) + 1 .. n : b = Backups[x]
        BY <2>2
      <4>2. x \in 1 .. n /\ j + 1 \in 1 .. n /\ x # j + 1
        BY <1>2, <2>1
      <4> QED BY <1>3, <4>1, <4>2
    <3>6. ASSUME NEW x \in 1 .. Len(C), NEW y \in 1 .. Len(C), C[x] = C[y] PROVE x = y
      <4>1. \A z \in 1 .. Len(C) : z # 1 => z - 1 \in 1 .. Len(B) /\ C[z] = B[z - 1]
        <5> SUFFICES ASSUME NEW z \in 1 .. Len(C), z # 1 PROVE z - 1 \in 1 .. Len(B) /\ C[z] = B[z - 1]
          OBVIOUS
        <5> DEFINE w == z - 1
        <5>1. w \in 1 .. Len(B) /\ z = w + 1
          BY <3>1, <3>3
        <5> HIDE DEF w
        <5>2. C[z] = B[w]
          BY <3>1, <5>1
        <5> QED BY <5>1, <5>2 DEF w
      <4>2. \A z \in 1 .. Len(C) : z # 1 => C[z] # b
        BY <3>3, <3>5, <4>1 DEF Elems
      <4>3. CASE x = 1 \/ y = 1
        BY <3>1, <3>6, <4>2, <4>3
      <4>4. CASE x # 1 /\ y # 1
        <5>1. B[x - 1] = B[y - 1] /\ x - 1 \in DOMAIN B /\ y - 1 \in DOMAIN B
          BY <3>3, <3>6, <4>1, <4>4
        <5>2. x - 1 = y - 1
          BY <2>2, <5>1 DEF Roster
        <5> QED BY <5>2
      <4> QED BY <4>3, <4>4
    <3>7. Roster(C)
      BY <3>1, <3>3, <3>6 DEF Roster
    <3>8. Among(C, j)
      BY <2>2, <2>5, <2>7, <3>2, <3>4, <3>7
    <3> QED BY <3>8 DEF j
  <2> QED BY <2>6, <2>7
<1>9. Nat \subseteq S
  BY <1>7, <1>8, Inductive
<1>10. n \in S
  BY <1>2, <1>9
<1>11. PICK B : Among(B, 0)
  <2>1. n <= n /\ n - n = 0
    BY <1>2
  <2>2. \E B : Among(B, n - n)
    BY <1>10, <2>1
  <2> QED BY <2>1, <2>2
<1>12. {Backups[i] : i \in 0 + 1 .. n} = BackupSet
  BY <1>2 DEF BackupSet
<1> QED BY <1>5, <1>11, <1>12

(* The leader, that collects messages of kind k from the servers B before  *)
(* it does T; for b, among them or not, it has still to tell one.          *)
Lead(T) == [todo |-> T, disk |-> disk[Leader], recs |-> recs[Leader]]
Ahead(k, B, T, b) == IF b \in Elems(B) THEN Then(Say(k), T) ELSE T

(* listServer waits for a message of b, and b for one that is not repeated.*)
Stalled(b, k, B) ==
    /\ b \in Elems(B) /\ up[b] = <<>> /\ down[b] = <<>> /\ k = "any"
    /\ todo[b] # <<>> /\ Head(todo[b]).do = "hear" /\ Kept(At(b), sent)
    /\ disk[b] = disk[Leader] /\ Elems(recs[b]) = Elems(recs[Leader]) /\ Len(recs[b]) = Len(recs[Leader])

(* A server that runs does as the leader, and waits for messages where the *)
(* leader does, but for a size; one that is gone had told no more.         *)
Prompt(b, B, T) ==
    T # <<>> /\ Head(T).do = "hear" /\ Head(T).kind # "size" /\ b \notin Elems(B) => down[b] = <<>>
Runs(b, k, B, T) ==
    /\ Prompt(b, B, T)
    /\ \/ Follows(At(b), up[b], down[b], Lead(Ahead(k, B, T, b)), sent)
       \/ Stalled(b, k, B)
Crashed(b, k, B, T) ==
    /\ todo[b] = <<>> /\ recs[b] = <<>>
    /\ b \in linked => Echoes(up[b], Ahead(k, B, T, b))
Backed(k, B, T) == \A b \in BackupSet : IF b \in alive THEN Runs(b, k, B, T) ELSE Crashed(b, k, B, T)

(* What the leader does is what it collects and then T; the client and it  *)
(* are in the middle of an exchange, of which it has not yet heard E.      *)
Leads(k, B, T) ==
    /\ todo[Leader] = Cat(Asks(k, B), T) /\ Roster(B) /\ Elems(B) \subseteq linked
    /\ Kept(Lead(T), sent)
Messages(E) == \A i \in DOMAIN E : E[i] = Msg(E[i].kind, E[i].arg)
Talks(E, T) ==
    /\ ~killed => E = down[Leader]
    /\ Messages(E) /\ Talk(World, E, plan, up[Leader], T)

Shape ==
    /\ Arrays /\ Known(World, recs[Leader], local) /\ Typed(plan, StepKinds)
    /\ fetched \in KnownCopies /\ seen \subseteq Files
    /\ alive \subseteq linked /\ linked \subseteq BackupSet /\ killed \in BOOLEAN
Agrees(E, k, B, T) == Leads(k, B, T) /\ Talks(E, T) /\ Backed(k, B, T)
Inv == Shape /\ \E E, k, B, T : Agrees(E, k, B, T)

(* A directory has copies of its files.                                    *)
LEMMA CopiesKnown ==
    \A d \in Directories : /\ d \in [Files -> KnownCopies]
                           /\ \A f \in Files : d[f] \in Copies(f)
<1> SUFFICES ASSUME NEW d \in Directories
             PROVE  d \in [Files -> KnownCopies] /\ \A f \in Files : d[f] \in Copies(f)
  OBVIOUS
<1>1. d = [f \in Files |-> d[f]] /\ \A f \in Files : d[f] \in Copies(f)
  BY DEF Directories
<1>2. \A f \in Files : d[f] \in KnownCopies
  <2> SUFFICES ASSUME NEW f \in Files PROVE d[f] \in KnownCopies
    OBVIOUS
  <2> QED BY <1>1, CopiesAre, MissingIs
<1> QED BY <1>1, <1>2

(* The leader is none of the other servers.                                *)
LEMMA NotLeader == ASSUME ProtocolAssumption PROVE Leader \notin BackupSet /\ Servers = {Leader} \cup BackupSet
BY DEF ProtocolAssumption, BackupSet, Range, Servers

(* The world that Protocol is in.                                          *)
LEMMA OurWorld ==
    /\ World = WorldOf(disk[Leader], sent, fetched)
    /\ World.disk = disk[Leader] /\ World.sent = sent /\ World.fetched = fetched
    /\ Arrays => IsWorld(World)
<1>1. World = WorldOf(disk[Leader], sent, fetched)
  BY DEF World, WorldOf
<1>2. World.disk = disk[Leader] /\ World.sent = sent /\ World.fetched = fetched
  BY DEF World
<1>3. Arrays => disk[Leader] \in [Files -> KnownCopies]
  BY DEF Arrays, Servers
<1> QED BY <1>1, <1>2, <1>3 DEF IsWorld

(* When a session begins, every server has the files and the records of the*)
(* leader, and the client is about to give its name.                       *)
THEOREM InitInv == ASSUME ProtocolAssumption, Init PROVE Inv
<1>1. PICK start \in Directories : /\ disk = [s \in Servers |-> start]
                                   /\ recs \in [Servers -> Orders(Present(start))]
  BY DEF Init
<1> DEFINE T == <<Ack("user"), Say("LOGIN_OK")>>
<1>2. /\ local \in Directories /\ plan = <<Say("user"), Ack("LOGIN_OK")>> \o SyncClient
      /\ todo = [s \in Servers |-> T] /\ down = [s \in Servers |-> <<>>] /\ up = [s \in Servers |-> <<>>]
      /\ fetched = Missing /\ seen = {} /\ sent = [f \in Files |-> Missing]
      /\ alive = BackupSet /\ linked = BackupSet /\ killed = FALSE
  BY DEF Init
<1>3. Leader \in Servers /\ BackupSet \subseteq Servers
  BY DEF Servers
<1>4. start \in [Files -> KnownCopies] /\ \A f \in Files : start[f] \in Copies(f)
  BY CopiesKnown
<1>5. Arrays
  BY <1>1, <1>2, <1>4 DEF Arrays, PerServer
<1>6. \A s \in Servers : Sane(recs[s]) /\ Elems(recs[s]) = Present(start) /\ Len(recs[s]) = Cardinality(Present(start))
  <2> SUFFICES ASSUME NEW s \in Servers
               PROVE  Sane(recs[s]) /\ Elems(recs[s]) = Present(start) /\ Len(recs[s]) = Cardinality(Present(start))
    OBVIOUS
  <2>1. recs[s] \in Orders(Present(start)) /\ Present(start) \in SUBSET Files
    BY <1>1 DEF Present
  <2> QED BY <2>1, OrdersAre
<1>7. sent \in Directories
  BY <1>2 DEF Directories, Copies
<1>8. plan = LoginStart
  <2>1. plan = Cat(<<Say("user"), Ack("LOGIN_OK")>>, <<Say("SYNC"), Hear("number", "sync")>>)
    BY <1>2 DEF Cat, SyncClient
  <2>2. IsSeq(<<Say("SYNC"), Hear("number", "sync")>>)
    BY TuplesAreSeqs
  <2>3. plan = Then(Say("user"), Then(Ack("LOGIN_OK"), <<Say("SYNC"), Hear("number", "sync")>>))
    <3> HIDE DEF T
    <3> QED BY <2>1, <2>2, CatTuples
  <2>4. <<Say("SYNC"), Hear("number", "sync")>> = Then(Say("SYNC"), Then(Hear("number", "sync"), <<>>))
    BY Tuples
  <2> QED BY <2>3, <2>4 DEF LoginStart, SyncStart, SyncHear
<1>9. IsSeq(T) /\ T = Then(Ack("user"), Then(Say("LOGIN_OK"), <<>>))
  BY Tuples, TuplesAreSeqs
<1>10. Typed(plan, StepKinds) /\ Typed(T, TodoKinds)
  <2>1. "tell" \in StepKinds /\ "hear" \in StepKinds /\ "tell" \in TodoKinds /\ "hear" \in TodoKinds
    BY DEF StepKinds, TodoKinds
  <2>2. \A D : "tell" \in D /\ "hear" \in D => \A k, x : IsStep(Tell(k, x), D) /\ IsStep(Hear(k, x), D) /\ IsStep(Say(k), D) /\ IsStep(Ack(k), D)
    BY StepsAre
  <2>3. Typed(T, TodoKinds)
    <3>1. IsStep(Ack("user"), TodoKinds) /\ IsStep(Say("LOGIN_OK"), TodoKinds)
      BY <2>1, <2>2
    <3>2. Typed(Then(Say("LOGIN_OK"), <<>>), TodoKinds)
      BY <3>1, TypedThen
    <3>3. Typed(Then(Ack("user"), Then(Say("LOGIN_OK"), <<>>)), TodoKinds)
      BY <3>1, <3>2, TypedThen
    <3> QED BY <1>9, <3>3
  <2>4. Typed(SyncHear, StepKinds)
    BY <2>1, <2>2, TypedThen DEF SyncHear
  <2>5. Typed(SyncStart, StepKinds)
    BY <2>1, <2>2, <2>4, TypedThen DEF SyncStart
  <2>6. Typed(LoginStart, StepKinds)
    BY <2>1, <2>2, <2>5, TypedThen DEF LoginStart
  <2> QED BY <1>8, <2>3, <2>6
<1> HIDE DEF T
<1>11. \A s \in Servers : disk[s] = start /\ todo[s] = T /\ down[s] = <<>> /\ up[s] = <<>>
  BY <1>1, <1>2
<1>12. Known(World, recs[Leader], local)
  <2>1. OnDisk(World, recs[Leader])
    <3>1. Sane(recs[Leader]) /\ Elems(recs[Leader]) = Present(start)
      BY <1>3, <1>6
    <3>2. \A k \in DOMAIN recs[Leader] : recs[Leader][k] \in Present(start)
      BY <3>1 DEF Elems
    <3>3. World.disk = start
      BY <1>3, <1>11, OurWorld
    <3> QED BY <3>1, <3>2, <3>3 DEF OnDisk, Sane, Present
  <2> QED BY <1>2, <1>5, <1>7, <2>1, OurWorld DEF Known
<1>13. Shape
  BY <1>2, <1>5, <1>10, <1>12, MissingIs DEF Shape
<1>14. \A s \in Servers : Kept(At(s), sent)
  BY <1>2, <1>4, <1>6, <1>10, <1>11 DEF Kept, At
<1>15. Roster(<<>>) /\ Elems(<<>>) = {} /\ Asks("any", <<>>) = <<>>
  BY EmptyIsSeq, AsksAre DEF Roster, Elems
<1>16. Lead(T) = At(Leader)
  BY <1>3, <1>11 DEF Lead, At
<1>17. Leads("any", <<>>, T)
  <2>1. todo[Leader] = Cat(<<>>, T)
    BY <1>3, <1>9, <1>11, CatEmpty
  <2> QED BY <1>3, <1>14, <1>15, <1>16, <2>1 DEF Leads
<1>18. Talks(<<>>, T)
  <2>1. AllWhole(World)
    BY <1>3, <1>4, <1>11, OurWorld DEF AllWhole
  <2>2. Exchange(World, plan, T)
    BY <1>8, <1>9, <2>1 DEF Exchange, ClientTurn, TellsUser
  <2>3. IsSeq(plan) /\ IsSeq(<<>>) /\ Cat(AsTells(<<>>), plan) = plan
    BY <1>8, OthersAre, EmptyIsSeq, TellsEmpty, CatEmpty
  <2>4. Talk(World, <<>>, plan, <<>>, T)
    BY <1>9, <2>2, <2>3 DEF Talk
  <2>5. up[Leader] = <<>> /\ down[Leader] = <<>>
    BY <1>3, <1>11
  <2>6. DOMAIN <<>> = {}
    OBVIOUS
  <2> QED BY <2>4, <2>5, <2>6 DEF Talks, Messages
<1>19. Backed("any", <<>>, T)
  <2> SUFFICES ASSUME NEW b \in BackupSet PROVE Runs(b, "any", <<>>, T)
    BY <1>2 DEF Backed
  <2>1. b \in Servers /\ up[b] = <<>> /\ down[b] = <<>> /\ Ahead("any", <<>>, T, b) = T
    BY <1>3, <1>11, <1>15 DEF Ahead
  <2>2. Alike(At(b), Lead(T))
    BY <1>3, <1>6, <1>9, <1>11, <2>1, SameSelf DEF Alike, At, Lead
  <2>3. Follows(At(b), <<>>, <<>>, Lead(T), sent)
    BY <1>14, <2>1, <2>2, FollowsStart
  <2> QED BY <2>1, <2>3 DEF Runs, Prompt
<1>20. Agrees(<<>>, "any", <<>>, T)
  BY <1>17, <1>18, <1>19 DEF Agrees
<1> QED BY <1>13, <1>20 DEF Inv

(* What the leader has still to tell b does not make a time due.           *)
LEMMA AheadIs ==
    ASSUME NEW k, NEW B, NEW T, IsSeq(T), NEW b
    PROVE  IsSeq(Ahead(k, B, T, b)) /\ (Due(Ahead(k, B, T, b)) <=> Due(T))
<1>1. IsSeq(Then(Say(k), T)) /\ (Due(Then(Say(k), T)) <=> Due(T))
  BY ThenIs, DueIs, StepFacts
<1> QED BY <1>1 DEF Ahead

(* An upload is acknowledged when all that run have the whole file.        *)
LEMMA BackedSent ==
    ASSUME NEW k, NEW B, NEW T, Leads(k, B, T), Backed(k, B, T),
           UNCHANGED <<todo, disk, recs, alive, linked>>,
           \A b \in BackupSet : down'[b] = down[b] /\ up'[b] = up[b],
           \A f \in Files : sent'[f] # Missing => sent'[f] = sent[f] \/ (Due(T) /\ sent'[f] = disk[Leader][f])
    PROVE  Leads(k, B, T)' /\ Backed(k, B, T)'
<1>1. Kept(Lead(T), sent) /\ IsSeq(T)
  BY DEF Leads, Kept, Lead, Typed
<1>2. \A f \in Files : sent'[f] # Missing => sent'[f] = disk[Leader][f]
  BY <1>1 DEF Kept, Lead
<1>3. Lead(T)' = Lead(T) /\ \A b : At(b)' = At(b)
  BY DEF Lead, At
<1>4. Kept(Lead(T), sent')
  BY <1>1, <1>2 DEF Kept, Lead
<1>5. Leads(k, B, T)'
  BY <1>3, <1>4 DEF Leads
<1>6. ASSUME NEW b \in BackupSet, b \in alive PROVE Runs(b, k, B, T)'
  <2> DEFINE Y == Ahead(k, B, T, b)
  <2>1. Runs(b, k, B, T)
    BY <1>6 DEF Backed
  <2>2. Prompt(b, B, T)'
    BY <1>6, <2>1 DEF Runs, Prompt
  <2>3. IsSeq(Y) /\ (Due(Y) <=> Due(T))
    BY <1>1, AheadIs
  <2>4. Lead(Y)' = Lead(Y) /\ Lead(Y).todo = Y /\ Lead(Y).disk = disk[Leader]
    BY DEF Lead
  <2> HIDE DEF Y
  <2>5. ASSUME Follows(At(b), up[b], down[b], Lead(Y), sent) PROVE Follows(At(b), up[b], down[b], Lead(Y), sent')
    BY <2>3, <2>4, <2>5, FollowsSent
  <2>6. ASSUME Stalled(b, k, B) PROVE Stalled(b, k, B)'
    <3>1. At(b).disk = disk[Leader] /\ Kept(At(b), sent)
      BY <2>6 DEF Stalled, At
    <3>2. Kept(At(b), sent')
      BY <1>2, <3>1 DEF Kept
    <3> QED BY <1>3, <1>6, <2>6, <3>2 DEF Stalled
  <2>7. CASE Follows(At(b), up[b], down[b], Lead(Y), sent)
    BY <1>3, <1>6, <2>2, <2>4, <2>5, <2>7 DEF Runs, Y
  <2>8. CASE Stalled(b, k, B)
    BY <2>2, <2>6, <2>8 DEF Runs
  <2> QED BY <2>1, <2>7, <2>8 DEF Runs, Y
<1>7. ASSUME NEW b \in BackupSet, b \notin alive PROVE Crashed(b, k, B, T)'
  BY <1>7 DEF Backed, Crashed
<1> QED BY <1>5, <1>6, <1>7 DEF Backed

(* A step of the client: only what it does with the leader changes.        *)
LEMMA ClientStep ==
    ASSUME ProtocolAssumption, Shape, NEW E, NEW k, NEW B, NEW T, Agrees(E, k, B, T),
           UNCHANGED <<todo, disk, recs, links>>,
           \E x : down' = [down EXCEPT ![Leader] = x], \E x : up' = [up EXCEPT ![Leader] = x],
           sent' \in Directories, local' \in Directories, fetched' \in KnownCopies, seen' \subseteq Files,
           Typed(plan', StepKinds),
           \A f \in Files : sent'[f] # Missing => sent'[f] = sent[f] \/ (Due(T) /\ sent'[f] = disk[Leader][f]),
           NEW F, Messages(F), ~killed => F = down'[Leader],
           Talk(WorldOf(disk[Leader], sent', fetched'), F, plan', up'[Leader], T)
    PROVE  Inv'
<1>1. Leads(k, B, T) /\ Backed(k, B, T)
  BY DEF Agrees
<1>2. \A b \in BackupSet : down'[b] = down[b] /\ up'[b] = up[b]
  <2>1. PerServer(down) /\ PerServer(up)
    BY DEF Shape, Arrays
  <2> QED BY <2>1, NotLeader DEF PerServer
<1>3. Leads(k, B, T)' /\ Backed(k, B, T)'
  BY <1>1, <1>2, BackedSent DEF links
<1>4. World' = WorldOf(disk[Leader], sent', fetched')
  BY DEF World, WorldOf
<1>5. Talks(F, T)'
  BY <1>4 DEF Talks, links
<1>6. Arrays'
  BY DEF Shape, Arrays, PerServer
<1>7. Known(World, recs[Leader], local)'
  <2>1. OnDisk(World, recs[Leader])
    BY DEF Shape, Known
  <2>2. World'.disk = World.disk /\ World'.sent = sent' /\ World'.fetched = fetched'
    BY DEF World
  <2>3. OnDisk(World', recs[Leader])
    BY <2>1, <2>2 DEF OnDisk
  <2>4. World'.disk \in [Files -> KnownCopies]
    BY <2>2, OurWorld DEF Shape, Known, IsWorld
  <2>5. IsWorld(World')
    BY <1>4, <2>2, <2>4 DEF IsWorld, WorldOf, World
  <2> QED BY <2>2, <2>3, <2>5 DEF Known
<1>8. Shape'
  BY <1>6, <1>7 DEF Shape, links
<1> QED BY <1>3, <1>5, <1>8 DEF Inv, Agrees

(* An array that is given a new entry for the leader, or none.             *)
LEMMA LeaderKept ==
    ASSUME NEW f, PerServer(f)
    PROVE  \E x : f = [f EXCEPT ![Leader] = x]
<1>1. Leader \in Servers
  BY DEF Servers
<1>2. f = [s \in Servers |-> f[s]]
  BY DEF PerServer
<1>3. f = [f EXCEPT ![Leader] = f[Leader]]
  BY <1>1, <1>2
<1> QED BY <1>3

(* The client writes: what it has told is under way, or it is lost with a  *)
(* leader that is killed.                                                  *)
LEMMA ClientTellsInv ==
    ASSUME ProtocolAssumption, Inv, ClientTells
    PROVE  Inv'
<1>1. Shape /\ plan # <<>> /\ Head(plan).do = "tell"
  BY DEF Inv, ClientTells
<1>2. PICK E, k, B, T : Agrees(E, k, B, T)
  BY DEF Inv
<1> DEFINE y == Head(plan).kind
           x == Head(plan).arg
           F == Append(E, Msg(y, x))
<1>3. Typed(plan, StepKinds) /\ Known(World, recs[Leader], local) /\ Arrays
  BY <1>1 DEF Shape
<1>4. Typed(Tail(plan), StepKinds) /\ IsStep(Head(plan), StepKinds)
  BY <1>1, <1>3, TypedTail
<1>5. Head(plan) = Tell(y, x)
  BY <1>1, <1>4 DEF IsStep, Tell
<1>6. Talk(World, E, plan, up[Leader], T) /\ Messages(E) /\ (~killed => E = down[Leader])
  BY <1>2 DEF Agrees, Talks
<1> HIDE DEF y, x
<1>7. Talk(World, F, Tail(plan), up[Leader], T)
  BY <1>1, <1>3, <1>5, <1>6, TalkTells
<1>8. Messages(F)
  <2>1. IsSeq(E)
    BY <1>6 DEF Talk
  <2>2. /\ IsSeq(F) /\ Len(F) = Len(E) + 1 /\ F[Len(E) + 1] = Msg(y, x)
        /\ \A i \in 1 .. Len(E) : F[i] = E[i]
    BY <2>1, AppendIs
  <2>3. DOMAIN F = 1 .. Len(E) + 1 /\ DOMAIN E = 1 .. Len(E) /\ Len(E) \in Nat
    BY <2>1, <2>2, SeqFacts
  <2>4. Msg(y, x).kind = y /\ Msg(y, x).arg = x
    BY StepFacts
  <2> HIDE DEF F
  <2>5. ASSUME NEW i \in DOMAIN F PROVE F[i] = Msg(F[i].kind, F[i].arg)
    <3>1. CASE i = Len(E) + 1
      BY <2>2, <2>4, <3>1
    <3>2. CASE i \in 1 .. Len(E)
      BY <1>6, <2>2, <2>3, <3>2 DEF Messages
    <3> QED BY <2>3, <3>1, <3>2
  <2> QED BY <2>5 DEF Messages
<1>9. (\E z : down' = [down EXCEPT ![Leader] = z]) /\ (~killed => F = down'[Leader])
  <2>1. CASE killed
    BY <1>3, <2>1, LeaderKept DEF ClientTells, Arrays
  <2>2. CASE ~killed
    <3>1. down' = [down EXCEPT ![Leader] = F]
      BY <1>6, <2>2 DEF ClientTells, y, x
    <3>2. PerServer(down) /\ Leader \in Servers
      BY <1>3 DEF Arrays, Servers
    <3>3. down'[Leader] = F
      BY <3>1, <3>2 DEF PerServer
    <3> QED BY <3>1, <3>3
  <2> QED BY <2>1, <2>2
<1>10. \E z : up' = [up EXCEPT ![Leader] = z]
  BY <1>3, LeaderKept DEF ClientTells, Arrays
<1>11. UNCHANGED <<todo, disk, recs, links, local, fetched, seen, sent>> /\ up' = up /\ plan' = Tail(plan)
  BY DEF ClientTells, server
<1>12. Talk(WorldOf(disk[Leader], sent', fetched'), F, plan', up'[Leader], T)
  BY <1>7, <1>11, OurWorld
<1>13. sent \in Directories /\ local \in Directories /\ fetched \in KnownCopies /\ seen \subseteq Files
  BY <1>1, OurWorld DEF Shape, Known
<1> HIDE DEF F
<1> QED BY <1>1, <1>2, <1>4, <1>8, <1>9, <1>10, <1>11, <1>12, <1>13, ClientStep

(* A command, or an upload of the sync thread, begins.                     *)
LEMMA Begins ==
    ASSUME ProtocolAssumption, Inv, plan = <<>> \/ Head(plan).do = "rest",
           Starts(WorldOf(disk[Leader], sent', fetched), plan'),
           sent' \in Directories, \A f \in Files : sent'[f] = sent[f] \/ sent'[f] = Missing,
           local' \in Directories, seen' \subseteq Files, UNCHANGED <<fetched, server, down, up, links>>
    PROVE  Inv'
<1>1. Shape
  BY DEF Inv
<1>2. PICK E, k, B, T : Agrees(E, k, B, T)
  BY DEF Inv
<1>3. Known(World, recs[Leader], local) /\ Arrays /\ fetched \in KnownCopies
  BY <1>1 DEF Shape
<1>4. Talk(World, E, plan, up[Leader], T) /\ Messages(E) /\ (~killed => E = down[Leader])
  BY <1>2 DEF Agrees, Talks
<1> DEFINE v == WorldOf(disk[Leader], sent', fetched)
<1>5. Spare(World, v)
  BY OurWorld DEF Spare, WorldOf
<1>6. Starts(v, plan')
  OBVIOUS
<1> HIDE DEF v
<1>7. \A v1, K1 : Spare(World, v1) /\ Starts(v1, K1) => Talk(v1, E, K1, up[Leader], T)
  BY <1>3, <1>4, TalkBegins
<1>8. Talk(v, E, plan', up[Leader], T)
  BY <1>5, <1>6, <1>7
<1>9. Typed(plan', StepKinds)
  BY <1>6, StartsTyped
<1>10. (\E z : down' = [down EXCEPT ![Leader] = z]) /\ \E z : up' = [up EXCEPT ![Leader] = z]
  BY <1>3, LeaderKept DEF Arrays
<1>11. UNCHANGED <<todo, disk, recs, links, fetched, up, down>>
  BY DEF server
<1>12. Talk(WorldOf(disk[Leader], sent', fetched'), E, plan', up'[Leader], T)
  BY <1>8, <1>11 DEF v
<1> QED BY <1>1, <1>2, <1>3, <1>4, <1>9, <1>10, <1>11, <1>12, ClientStep

(* The client forgets an upload: the file is changed or deleted since.     *)
LEMMA SentForgotten ==
    ASSUME sent \in Directories, NEW f \in Files, sent' = [sent EXCEPT ![f] = Missing]
    PROVE  /\ sent' \in Directories /\ sent'[f] = Missing
           /\ \A g \in Files : sent'[g] = sent[g] \/ sent'[g] = Missing
<1>1. sent \in [Files -> UNION {Copies(g) : g \in Files}] /\ \A g \in Files : sent[g] \in Copies(g)
  BY DEF Directories
<1>2. Missing \in Copies(f)
  BY DEF Copies
<1>3. sent' \in [Files -> UNION {Copies(g) : g \in Files}]
  BY <1>1, <1>2
<1>4. \A g \in Files : sent'[g] = IF g = f THEN Missing ELSE sent[g]
  BY <1>1
<1> QED BY <1>1, <1>2, <1>3, <1>4 DEF Directories

(* What is the same for all commands.                                      *)
LEMMA CommandIs ==
    ASSUME NEW n, NEW P, Command(n, P)
    PROVE  /\ plan = <<>> /\ plan' = P /\ seen' = {}
           /\ UNCHANGED <<local, fetched, server, down, up, links>>
BY DEF Command, Idle

(* The client begins to upload a file.                                     *)
LEMMA UploadInv ==
    ASSUME ProtocolAssumption, Inv, NEW f \in Files, NEW c \in Versions[f], Upload(f, c)
    PROVE  Inv'
<1>1. sent \in Directories /\ local \in Directories
  BY OurWorld DEF Inv, Shape, Known
<1>2. plan' = SendFile(f, Whole(c)) /\ sent' = [sent EXCEPT ![f] = Missing]
  BY CommandIs DEF Upload
<1>3. sent' \in Directories /\ sent'[f] = Missing /\ \A g \in Files : sent'[g] = sent[g] \/ sent'[g] = Missing
  BY <1>1, <1>2, SentForgotten
<1>4. Whole(c) \in Copies(f) \ {Missing} /\ Whole(c).len \in Nat
  <2>1. c \in Contents /\ Size[c] \in Nat
    BY DEF ProtocolAssumption
  <2>2. Whole(c).len = Size[c] /\ Missing.len = -1
    BY DEF Whole, Copy, Missing
  <2>3. Whole(c) \in Copies(f)
    BY DEF Copies
  <2> QED BY <2>1, <2>2, <2>3
<1>5. plan' = PutStart(f, Whole(c), <<>>)
  <2>1. IsSeq(SendFile(f, Whole(c))) /\ Cat(SendFile(f, Whole(c)), <<>>) = PutStart(f, Whole(c), <<>>)
    BY <1>4, SendFileIs, EmptyIsSeq
  <2>2. Cat(SendFile(f, Whole(c)), <<>>) = SendFile(f, Whole(c))
    BY <2>1, CatEmpty
  <2> QED BY <1>2, <2>1, <2>2
<1>6. Starts(WorldOf(disk[Leader], sent', fetched), plan')
  <2>1. WorldOf(disk[Leader], sent', fetched).sent = sent'
    BY DEF WorldOf
  <2> QED BY <1>3, <1>4, <1>5, <2>1 DEF Starts
<1>7. plan = <<>> /\ seen' \subseteq Files /\ UNCHANGED <<local, fetched, server, down, up, links>>
  BY CommandIs DEF Upload
<1> QED BY <1>1, <1>3, <1>6, <1>7, Begins

(* A command that sends no file.                                           *)
LEMMA CommandInv ==
    ASSUME ProtocolAssumption, Inv, NEW n, NEW P, Command(n, P),
           \/ UNCHANGED sent
           \/ \E f \in Files : sent' = [sent EXCEPT ![f] = Missing],
           Starts(WorldOf(disk[Leader], sent', fetched), P)
    PROVE  Inv'
<1>1. sent \in Directories /\ local \in Directories
  BY OurWorld DEF Inv, Shape, Known
<1>2. /\ plan = <<>> /\ plan' = P /\ seen' \subseteq Files
      /\ UNCHANGED <<local, fetched, server, down, up, links>>
  BY CommandIs
<1>3. sent' \in Directories /\ \A g \in Files : sent'[g] = sent[g] \/ sent'[g] = Missing
  BY <1>1, SentForgotten
<1> QED BY <1>1, <1>2, <1>3, Begins

(* The scripts of Protocol are those of ProtocolScripts.                   *)
LEMMA ShortScripts ==
    /\ SyncClient = SyncStart /\ ListServerCommand = ListStart /\ CloseConnection = EndStart
    /\ \A f : /\ DeleteFile(f) = DeleteStart(f)
              /\ LockFile(f) = LockStart("LOCK", f) /\ UnlockFile(f) = LockStart("UNLOCK", f)
<1>1. SyncClient = SyncStart
  BY Tuples DEF SyncClient, SyncStart, SyncHear
<1>2. ListServerCommand = ListStart
  BY Tuples DEF ListServerCommand, ListStart, ListHear
<1>3. CloseConnection = EndStart
  <2> DEFINE g == Step("gone", "END", None)
  <2>1. CloseConnection = <<Say("END"), g>> /\ EndStart = Then(Say("END"), <<g>>)
    BY DEF CloseConnection, EndStart, Gone
  <2> HIDE DEF g
  <2>2. <<Say("END"), g>> = Then(Say("END"), Then(g, <<>>)) /\ <<g>> = Then(g, <<>>)
    BY Tuples
  <2> QED BY <2>1, <2>2
<1>4. ASSUME NEW f PROVE DeleteFile(f) = DeleteStart(f)
  BY Tuples DEF DeleteFile, DeleteStart, NameGone
<1>5. ASSUME NEW f PROVE LockFile(f) = LockStart("LOCK", f)
  BY Tuples DEF LockFile, LockStart, LockAck, NameLock, HearLock
<1>6. ASSUME NEW f PROVE UnlockFile(f) = LockStart("UNLOCK", f)
  BY Tuples DEF UnlockFile, LockStart, LockAck, NameLock, HearLock
<1> QED BY <1>1, <1>2, <1>3, <1>4, <1>5, <1>6

(* So every command.                                                       *)
LEMMA CommandsInv ==
    ASSUME ProtocolAssumption, Inv
    PROVE  /\ Sync \/ List \/ Exit => Inv'
           /\ \A f \in Files : Download(f) \/ Delete(f) \/ Lock(f) \/ Unlock(f) => Inv'
<1> DEFINE v == WorldOf(disk[Leader], sent', fetched)
<1>1. ASSUME Sync PROVE Inv'
  <2>1. Starts(v, SyncClient)
    BY ShortScripts DEF Starts
  <2> QED BY <1>1, <2>1, CommandInv DEF Sync
<1>2. ASSUME List PROVE Inv'
  <2>1. Starts(v, ListServerCommand)
    BY ShortScripts DEF Starts
  <2> QED BY <1>2, <2>1, CommandInv DEF List
<1>3. ASSUME Exit PROVE Inv'
  <2>1. Starts(v, CloseConnection)
    BY ShortScripts DEF Starts
  <2> QED BY <1>3, <2>1, CommandInv DEF Exit
<1>4. ASSUME NEW f \in Files, Download(f) PROVE Inv'
  <2>1. IsSeq(GetFile(f, "cwd")) /\ Cat(GetFile(f, "cwd"), <<>>) = GetStart(<<f, "cwd">>, <<>>)
    BY GetFileIs, EmptyIsSeq
  <2>2. Cat(GetFile(f, "cwd"), <<>>) = GetFile(f, "cwd")
    BY <2>1, CatEmpty
  <2>3. Starts(v, GetFile(f, "cwd"))
    BY <2>1, <2>2 DEF Starts
  <2> QED BY <1>4, <2>3, CommandInv DEF Download
<1>5. ASSUME NEW f \in Files, Delete(f) PROVE Inv'
  <2>1. sent \in Directories
    BY OurWorld DEF Inv, Shape, Known
  <2>2. sent' = [sent EXCEPT ![f] = Missing]
    BY <1>5 DEF Delete
  <2>3. sent'[f] = Missing
    BY <2>1, <2>2, SentForgotten
  <2>4. v.sent = sent'
    BY DEF WorldOf
  <2>5. Starts(v, DeleteFile(f))
    BY <2>3, <2>4, ShortScripts DEF Starts
  <2> QED BY <1>5, <2>2, <2>5, CommandInv DEF Delete
<1>6. ASSUME NEW f \in Files, Lock(f) PROVE Inv'
  <2>1. Starts(v, LockFile(f))
    BY ShortScripts DEF Starts
  <2> QED BY <1>6, <2>1, CommandInv DEF Lock
<1>7. ASSUME NEW f \in Files, Unlock(f) PROVE Inv'
  <2>1. Starts(v, UnlockFile(f))
    BY ShortScripts DEF Starts
  <2> QED BY <1>7, <2>1, CommandInv DEF Unlock
<1> QED BY <1>1, <1>2, <1>3, <1>4, <1>5, <1>6, <1>7

(* The user changes a file of the client.                                  *)
LEMMA EditInv ==
    ASSUME ProtocolAssumption, Inv, NEW f \in Files, Edit(f)
    PROVE  Inv'
<1>1. sent \in Directories /\ local \in Directories /\ plan = <<>> /\ Shape
  BY OurWorld DEF Inv, Shape, Known, Edit, Idle
<1>2. UNCHANGED <<plan, fetched, seen, sent, server, down, up, links>>
  BY DEF Edit
<1>3. local' \in Directories
  <2>1. local \in [Files -> UNION {Copies(g) : g \in Files}] /\ \A g \in Files : local[g] \in Copies(g)
    BY <1>1 DEF Directories
  <2>2. PICK c \in Copies(f) : local' = [local EXCEPT ![f] = c]
    BY DEF Edit
  <2>3. local' \in [Files -> UNION {Copies(g) : g \in Files}]
    BY <2>1, <2>2
  <2>4. \A g \in Files : local'[g] = IF g = f THEN c ELSE local[g]
    BY <2>1, <2>2
  <2> QED BY <2>1, <2>2, <2>3, <2>4 DEF Directories
<1>4. Starts(WorldOf(disk[Leader], sent', fetched), plan')
  BY <1>1, <1>2 DEF Starts
<1>5. seen' \subseteq Files /\ sent' \in Directories
  BY <1>1, <1>2 DEF Shape
<1> QED BY <1>1, <1>2, <1>3, <1>4, <1>5, Begins

(* The sync thread goes on to the files the server has not named.          *)
LEMMA SyncRestInv ==
    ASSUME ProtocolAssumption, Inv, SyncRest
    PROVE  Inv'
<1>1. sent \in Directories /\ local \in Directories /\ Shape
  BY OurWorld DEF Inv, Shape, Known
<1>2. plan # <<>> /\ Head(plan).do = "rest" /\ UNCHANGED <<local, fetched, server, down, up, links>>
  BY DEF SyncRest
<1>3. plan = Rest
  <2>1. PICK E, k, B, T : Agrees(E, k, B, T)
    BY DEF Inv
  <2>2. Talk(World, E, plan, up[Leader], T) /\ Known(World, recs[Leader], local)
    BY <1>1, <2>1 DEF Agrees, Talks, Shape
  <2> QED BY <1>2, <2>2, TalkBegins
<1>4. ASSUME NEW f \in Present(local) \ seen, plan' = SendFile(f, local[f]) \o plan,
             seen' = seen \cup {f}, sent' = [sent EXCEPT ![f] = Missing]
      PROVE  Inv'
  <2>1. f \in Files /\ local[f] # Missing /\ local[f] \in Copies(f)
    BY <1>1, <1>4 DEF Present, Directories
  <2>2. sent' \in Directories /\ sent'[f] = Missing /\ \A g \in Files : sent'[g] = sent[g] \/ sent'[g] = Missing
    BY <1>1, <1>4, <2>1, SentForgotten
  <2>3. local[f].len \in Nat
    BY <2>1, CopiesAre
  <2>4. plan' = PutStart(f, local[f], Rest)
    <3>1. IsSeq(Rest)
      BY LastSeqs
    <3>2. Cat(SendFile(f, local[f]), Rest) = PutStart(f, local[f], Rest)
      BY <2>3, <3>1, SendFileIs
    <3>3. plan' = Cat(SendFile(f, local[f]), Rest)
      BY <1>3, <1>4 DEF Cat
    <3> QED BY <3>2, <3>3
  <2>5. WorldOf(disk[Leader], sent', fetched).sent = sent'
    BY DEF WorldOf
  <2>6. Starts(WorldOf(disk[Leader], sent', fetched), plan')
    BY <2>1, <2>2, <2>4, <2>5 DEF Starts
  <2>7. seen' \subseteq Files
    BY <1>1, <1>4, <2>1 DEF Shape
  <2> QED BY <1>1, <1>2, <2>2, <2>6, <2>7, Begins
<1>5. ASSUME plan' = Tail(plan), UNCHANGED <<seen, sent>> PROVE Inv'
  <2>1. plan' = <<>>
    BY <1>3, <1>5, Tuples, ThenIs, EmptyIsSeq DEF Rest
  <2>2. Starts(WorldOf(disk[Leader], sent', fetched), plan')
    BY <2>1 DEF Starts
  <2>3. seen' \subseteq Files
    BY <1>1, <1>5 DEF Shape
  <2> QED BY <1>1, <1>2, <1>5, <2>2, <2>3, Begins
<1> QED BY <1>4, <1>5 DEF SyncRest

(* What is told before does not matter to what is due.                     *)
LEMMA DueCat ==
    ASSUME NEW T, IsSeq(T), NEW q, AllTells(q)
    PROVE  Due(Cat(q, T)) <=> Due(T)
<1> DEFINE S == {n \in Nat : \A p : AllTells(p) /\ Len(p) = n => (Due(Cat(p, T)) <=> Due(T))}
<1>1. 0 \in S
  <2>1. ASSUME NEW p, AllTells(p), Len(p) = 0 PROVE Due(Cat(p, T)) <=> Due(T)
    <3>1. IsSeq(p)
      BY <2>1 DEF AllTells
    <3>2. p = <<>>
      BY <2>1, <3>1, SeqFacts
    <3> QED BY <3>2, CatEmpty
  <2> QED BY <2>1
<1>2. ASSUME NEW n \in Nat, n \in S PROVE n + 1 \in S
  <2>1. ASSUME NEW p, AllTells(p), Len(p) = n + 1 PROVE Due(Cat(p, T)) <=> Due(T)
    <3>1. IsSeq(p) /\ p # <<>>
      BY <2>1, EmptyIsSeq DEF AllTells
    <3> DEFINE a == Head(p)
               t == Tail(p)
    <3>2. p = Then(a, t) /\ IsSeq(t)
      BY <3>1, HeadTail
    <3> HIDE DEF a, t
    <3>3. a.do = "tell" /\ AllTells(t)
      BY <2>1, <3>2, AllTellsThen
    <3>4. Len(t) = n
      <4>1. Len(p) = Len(t) + 1 /\ Len(t) \in Nat
        BY <3>2, ThenIs, SeqFacts
      <4> QED BY <2>1, <4>1
    <3>5. Cat(p, T) = Then(a, Cat(t, T)) /\ IsSeq(Cat(t, T))
      BY <3>2, ThenCat, CatIs
    <3>6. Due(Then(a, Cat(t, T))) <=> Due(Cat(t, T))
      BY <3>3, <3>5, DueIs
    <3> QED BY <1>2, <3>3, <3>4, <3>5, <3>6
  <2> QED BY <1>2, <2>1
<1>3. Nat \subseteq S
  <2> HIDE DEF S
  <2> QED BY <1>1, <1>2, Inductive
<1>4. Len(q) \in Nat
  BY SeqFacts DEF AllTells
<1> QED BY <1>3, <1>4

(* What the client gets is what it waits for.                              *)
LEMMA HearsFacts ==
    ASSUME Inv, NEW k, NEW steps, ClientHears(k, steps), NEW E, NEW j, NEW B, NEW T, Agrees(E, j, B, T)
    PROVE  /\ Head(plan) = Hear(k, Context) /\ Typed(Tail(plan), StepKinds) /\ IsSeq(T)
           /\ Fair(World, k, Context, Heard, Cat(AsTells(Tail(up[Leader])), T))
           /\ k = "COMPLETE_ACK" => Due(T)
<1> DEFINE u == up[Leader]
<1>1. /\ plan # <<>> /\ Head(plan).do = "hear" /\ Head(plan).kind = k
      /\ u # <<>>
  BY DEF ClientHears
<1>2. Typed(plan, StepKinds) /\ Known(World, recs[Leader], local)
  BY DEF Inv, Shape
<1>3. Talk(World, E, plan, u, T)
  BY DEF Agrees, Talks
<1>4. IsSeq(u) /\ IsSeq(T)
  BY <1>3 DEF Talk
<1>5. Typed(Tail(plan), StepKinds) /\ IsStep(Head(plan), StepKinds)
  BY <1>1, <1>2, TypedTail
<1>6. Head(plan) = Hear(k, Context)
  BY <1>1, <1>5 DEF IsStep, Hear, Context
<1> HIDE DEF u
<1>7. Fair(World, Head(plan).kind, Head(plan).arg, Head(u).arg, Cat(AsTells(Tail(u)), T))
  BY <1>1, <1>2, <1>3, TalkHears
<1>8. Fair(World, k, Context, Heard, Cat(AsTells(Tail(u)), T))
  BY <1>1, <1>7 DEF Context, Heard, u
<1>9. ASSUME k = "COMPLETE_ACK" PROVE Due(T)
  <2>1. Due(Cat(AsTells(Tail(u)), T))
    BY <1>8, <1>9 DEF Fair
  <2>2. IsSeq(Tail(u))
    BY <1>1, <1>4, HeadTail
  <2>3. AllTells(AsTells(Tail(u)))
    BY <2>2, TellsAre
  <2> QED BY <1>4, <2>1, <2>3, DueCat
<1> QED BY <1>4, <1>5, <1>6, <1>8, <1>9 DEF u

(* What the client waits for, without the exchange.                        *)
LEMMA HearsFair ==
    ASSUME Inv, NEW k, NEW steps, ClientHears(k, steps)
    PROVE  /\ Head(plan) = Hear(k, Context) /\ \E T1 : Fair(World, k, Context, Heard, T1)
           /\ plan # <<>> /\ sent \in Directories /\ local \in Directories /\ fetched \in KnownCopies /\ seen \subseteq Files
<1>1. PICK E, j, B, T : Agrees(E, j, B, T)
  BY DEF Inv
<1>2. /\ Head(plan) = Hear(k, Context)
      /\ Fair(World, k, Context, Heard, Cat(AsTells(Tail(up[Leader])), T))
  BY <1>1, HearsFacts
<1>3. plan # <<>>
  BY DEF ClientHears
<1>4. sent \in Directories /\ local \in Directories /\ fetched \in KnownCopies /\ seen \subseteq Files
  BY OurWorld DEF Inv, Shape, Known
<1> QED BY <1>2, <1>3, <1>4

(* The client reads an answer and goes on with steps.                      *)
LEMMA HearsInv ==
    ASSUME ProtocolAssumption, Inv, NEW k, NEW steps, ClientHears(k, steps),
           Replies(World, local, Hear(k, Context), Msg(k, Heard), WorldOf(disk[Leader], sent', fetched'), steps),
           sent' \in Directories, local' \in Directories, fetched' \in KnownCopies, seen' \subseteq Files,
           \A f \in Files : \/ sent'[f] = sent[f] \/ sent'[f] = Missing
                            \/ k = "COMPLETE_ACK" /\ f = Context[1] /\ sent'[f] = Context[2]
    PROVE  Inv'
<1> DEFINE u == up[Leader]
           v == WorldOf(disk[Leader], sent', fetched')
<1>1. PICK E, j, B, T : Agrees(E, j, B, T)
  BY DEF Inv
<1>2. /\ Head(plan) = Hear(k, Context) /\ Typed(Tail(plan), StepKinds)
      /\ Fair(World, k, Context, Heard, Cat(AsTells(Tail(u)), T))
      /\ k = "COMPLETE_ACK" => Due(T)
  BY <1>1, HearsFacts
<1>3. Shape /\ Known(World, recs[Leader], local) /\ Arrays
  BY DEF Inv, Shape
<1>4. Talk(World, E, plan, u, T) /\ Messages(E) /\ (~killed => E = down[Leader])
  BY <1>1 DEF Agrees, Talks
<1>5. /\ plan # <<>> /\ Head(plan).do = "hear" /\ Head(plan).kind = k /\ Head(plan).arg = Context
      /\ u # <<>> /\ Head(u).arg = Heard
      /\ up' = [up EXCEPT ![Leader] = Tail(u)] /\ plan' = Cat(steps, Tail(plan))
      /\ UNCHANGED <<server, down, links>>
  BY DEF ClientHears, Context, Heard, Cat
<1>6. Replies(World, local, Hear(k, Context), Msg(k, Heard), v, steps)
  OBVIOUS
<1>7. k = "COMPLETE_ACK" => Context[1] \in Files /\ Context[2] = disk[Leader][Context[1]]
  BY <1>2, OurWorld DEF Fair
<1> HIDE DEF u, v
<1>8. \A v1, s1 : Replies(World, local, Hear(k, Context), Msg(k, Heard), v1, s1) =>
                     IsSeq(s1) /\ Talk(v1, E, Cat(s1, Tail(plan)), Tail(u), T)
  BY <1>3, <1>4, <1>5, TalkHears
<1>9. Talk(v, E, plan', Tail(u), T)
  BY <1>5, <1>6, <1>8
<1>10. Typed(plan', StepKinds)
  <2>1. Typed(steps, StepKinds)
    <3>1. local \in Directories
      BY <1>3 DEF Known
    <3> QED BY <1>2, <1>6, <3>1, RepliesTyped
  <2> QED BY <1>2, <1>5, <2>1, TypedCat
<1>11. up'[Leader] = Tail(u) /\ UNCHANGED <<todo, disk, recs, down>>
  <2>1. Leader \in Servers /\ up = [s \in Servers |-> up[s]]
    BY <1>3 DEF Servers, Arrays, PerServer
  <2> QED BY <1>5, <2>1 DEF server
<1>12. \A f \in Files : sent'[f] # Missing => sent'[f] = sent[f] \/ (Due(T) /\ sent'[f] = disk[Leader][f])
  BY <1>2, <1>7
<1>13. Talk(WorldOf(disk[Leader], sent', fetched'), E, plan', up'[Leader], T)
  BY <1>9, <1>11 DEF v
<1>14. \E z : down' = [down EXCEPT ![Leader] = z]
  BY <1>3, <1>11, LeaderKept DEF Arrays
<1>15. \E z : up' = [up EXCEPT ![Leader] = z]
  BY <1>5
<1>16. ~killed => E = down'[Leader]
  BY <1>4, <1>11
<1> QED BY <1>1, <1>3, <1>4, <1>5, <1>10, <1>11, <1>12, <1>13, <1>14, <1>15, <1>16, ClientStep

(* An answer that changes nothing but what the client has still to do.     *)
LEMMA HearsOnly ==
    ASSUME ProtocolAssumption, Inv, NEW k, NEW steps, ClientHears(k, steps), UNCHANGED <<local, fetched, sent>>,
           Replies(World, local, Hear(k, Context), Msg(k, Heard), World, steps), seen' \subseteq Files
    PROVE  Inv'
<1>1. sent \in Directories /\ local \in Directories /\ fetched \in KnownCopies
  BY HearsFair
<1>2. World = WorldOf(disk[Leader], sent', fetched')
  BY OurWorld
<1>3. Replies(World, local, Hear(k, Context), Msg(k, Heard), WorldOf(disk[Leader], sent', fetched'), steps)
  BY <1>2
<1> QED BY <1>1, <1>3, HearsInv

(* Acknowledgements, sizes, numbers and records.                           *)
LEMMA AnswersInv ==
    ASSUME ProtocolAssumption, Inv, ClientHearsAck \/ DownloadSize \/ ListNumber \/ SyncNumber \/ SyncRecord
    PROVE  Inv'
<1>1. CASE ClientHearsAck
  <2>1. PICK k \in ClientAcks : ClientHears(k, <<>>)
    BY <1>1 DEF ClientHearsAck, ClientAcks
  <2>2. Head(plan) = Hear(k, Context) /\ seen \subseteq Files
    BY <2>1, HearsFair
  <2>3. Hear(k, Context).kind = k
    BY StepFacts
  <2>4. Replies(World, local, Hear(k, Context), Msg(k, Heard), World, <<>>)
    BY <2>3 DEF Replies
  <2>5. UNCHANGED <<local, fetched, seen, sent>>
    BY <1>1 DEF ClientHearsAck
  <2> QED BY <2>1, <2>2, <2>4, <2>5, HearsOnly
<1>2. CASE DownloadSize
  <2> DEFINE steps == GetFileBody(Context[1], Context[2], Heard)
             h == Hear("size", Context)
             m == Msg("size", Heard)
  <2>1. ClientHears("size", steps) /\ UNCHANGED <<local, fetched, seen, sent>>
    BY <1>2 DEF DownloadSize
  <2>2. h.kind = "size" /\ h.arg = Context /\ m.arg = Heard
    BY StepFacts
  <2>3. Replies(World, local, h, m, World, steps)
    BY <2>2 DEF Replies
  <2>4. seen \subseteq Files
    BY <2>1, HearsFair
  <2> QED BY <2>1, <2>3, <2>4, HearsOnly
<1>3. CASE ListNumber
  <2> DEFINE steps == Times(Heard, ListTurn)
             h == Hear("number", Context)
             m == Msg("number", Heard)
  <2>1. ClientHears("number", steps) /\ Context = "list" /\ UNCHANGED <<local, fetched, seen, sent>>
    BY <1>3 DEF ListNumber, ListTurn
  <2>2. h.kind = "number" /\ h.arg = Context /\ m.arg = Heard
    BY StepFacts
  <2>3. Replies(World, local, h, m, World, steps)
    BY <2>1, <2>2 DEF Replies
  <2>4. seen \subseteq Files
    BY <2>1, HearsFair
  <2> QED BY <2>1, <2>3, <2>4, HearsOnly
<1>4. CASE SyncNumber
  <2> DEFINE steps == <<Say("NUMBER_ACK")>> \o Times(Heard, <<Ack("record")>>) \o Rest
             h == Hear("number", Context)
             m == Msg("number", Heard)
  <2>1. ClientHears("number", steps) /\ Context = "sync" /\ UNCHANGED <<local, fetched, seen, sent>>
    BY <1>4 DEF SyncNumber, Rest
  <2>2. h.kind = "number" /\ h.arg = Context /\ m.arg = Heard
    BY StepFacts
  <2>3. Replies(World, local, h, m, World, steps)
    BY <2>1, <2>2 DEF Replies
  <2>4. seen \subseteq Files
    BY <2>1, HearsFair
  <2> QED BY <2>1, <2>3, <2>4, HearsOnly
<1>5. CASE SyncRecord
  <2> DEFINE steps == <<Say("GET_FILE_ACK"), Hear("mtime", Heard)>>
             h == Hear("record", Context)
             m == Msg("record", Heard)
  <2>1. ClientHears("record", steps) /\ seen' = seen \cup {Heard} /\ UNCHANGED <<local, fetched, sent>>
    BY <1>5 DEF SyncRecord
  <2>2. h.kind = "record" /\ h.arg = Context /\ m.arg = Heard
    BY StepFacts
  <2>3. Replies(World, local, h, m, World, steps)
    BY <2>2 DEF Replies
  <2>4. seen' \subseteq Files
    <3>1. seen \subseteq Files /\ \E T1 : Fair(World, "record", Context, Heard, T1)
      BY <2>1, HearsFair
    <3> QED BY <2>1, <3>1 DEF Fair
  <2> QED BY <2>1, <2>3, <2>4, HearsOnly
<1> QED BY <1>1, <1>2, <1>3, <1>4, <1>5

(* The upload of a file is acknowledged.                                   *)
LEMMA UploadCompletesInv ==
    ASSUME ProtocolAssumption, Inv, UploadCompletes
    PROVE  Inv'
<1> DEFINE h == Hear("COMPLETE_ACK", Context)
           f == Context[1]
           c == Context[2]
           v == WorldOf(disk[Leader], sent', fetched')
<1>1. ClientHears("COMPLETE_ACK", <<>>) /\ sent' = [sent EXCEPT ![f] = c] /\ UNCHANGED <<local, fetched, seen>>
  BY DEF UploadCompletes
<1>2. /\ \E T1 : Fair(World, "COMPLETE_ACK", Context, Heard, T1)
      /\ sent \in Directories /\ local \in Directories /\ fetched \in KnownCopies /\ seen \subseteq Files
  BY <1>1, HearsFair
<1>3. f \in Files /\ c \in Copies(f)
  BY <1>2 DEF Fair
<1>4. h.kind = "COMPLETE_ACK" /\ h.arg = Context
  BY StepFacts
<1>5. World.disk = disk[Leader] /\ World.sent = sent /\ World.fetched = fetched
  BY OurWorld
<1>6. Replies(World, local, h, Msg("COMPLETE_ACK", Heard), v, <<>>)
  BY <1>1, <1>4, <1>5 DEF Replies
<1> HIDE DEF h, f, c, v
<1>7. sent \in [Files -> UNION {Copies(g) : g \in Files}] /\ \A g \in Files : sent[g] \in Copies(g)
  BY <1>2 DEF Directories
<1>8. sent' \in [Files -> UNION {Copies(g) : g \in Files}]
  BY <1>1, <1>3, <1>7
<1>9. \A g \in Files : sent'[g] = IF g = f THEN c ELSE sent[g]
  BY <1>1, <1>7
<1>10. sent' \in Directories
  BY <1>3, <1>7, <1>8, <1>9 DEF Directories
<1> QED BY <1>1, <1>2, <1>6, <1>9, <1>10, HearsInv DEF h, f, c, v

(* What the client is fetching.                                            *)
LEMMA DownloadInv ==
    ASSUME ProtocolAssumption, Inv, DownloadBegins \/ DownloadPart \/ DownloadCompletes
    PROVE  Inv'
<1> DEFINE v == WorldOf(disk[Leader], sent', fetched')
<1>1. World.disk = disk[Leader] /\ World.sent = sent /\ World.fetched = fetched
  BY OurWorld
<1>2. CASE DownloadBegins
  <2> DEFINE h == Hear("EXISTS", Context)
             m == Msg("EXISTS", Heard)
             steps == <<Hear("size", Context)>>
  <2>1. ClientHears("EXISTS", steps) /\ fetched' = Copy(None, 0) /\ UNCHANGED <<local, seen, sent>>
    BY <1>2 DEF DownloadBegins
  <2>2. h.kind = "EXISTS" /\ h.arg = Context
    BY StepFacts
  <2>3. Replies(World, local, h, m, v, steps)
    BY <1>1, <2>1, <2>2 DEF Replies
  <2>4. sent \in Directories /\ local \in Directories /\ seen \subseteq Files
    BY <2>1, HearsFair
  <2>5. fetched' \in KnownCopies
    BY <2>1, MissingIs
  <2> HIDE DEF steps
  <2> QED BY <2>1, <2>3, <2>4, <2>5, HearsInv
<1>3. CASE DownloadPart
  <2> DEFINE h == Hear("part", Context)
             m == Msg("part", Heard)
  <2>1. ClientHears("part", <<>>) /\ fetched' = Copy(Heard.of, fetched.len + Context) /\ UNCHANGED <<local, seen, sent>>
    BY <1>3 DEF DownloadPart
  <2>2. h.kind = "part" /\ h.arg = Context /\ m.arg = Heard
    BY StepFacts
  <2>3. Replies(World, local, h, m, v, <<>>)
    BY <1>1, <2>1, <2>2 DEF Replies
  <2>4. /\ sent \in Directories /\ local \in Directories /\ seen \subseteq Files
        /\ \E T1 : Fair(World, "part", Context, Heard, T1)
    BY <2>1, HearsFair
  <2>5. fetched' \in KnownCopies
    BY <1>1, <2>1, <2>4 DEF Fair
  <2> QED BY <2>1, <2>3, <2>4, <2>5, HearsInv
<1>4. CASE DownloadCompletes
  <2> DEFINE h == Hear("COMPLETE", Context)
             m == Msg("COMPLETE", Heard)
             f == Context[1]
  <2>1. /\ ClientHears("COMPLETE", <<>>) /\ fetched' = Missing /\ UNCHANGED <<seen, sent>>
        /\ local' = IF Context[2] = "cwd" THEN local ELSE [local EXCEPT ![f] = fetched]
    BY <1>4 DEF DownloadCompletes
  <2>2. h.kind = "COMPLETE" /\ h.arg = Context
    BY StepFacts
  <2>3. Replies(World, local, h, m, v, <<>>)
    BY <1>1, <2>1, <2>2 DEF Replies
  <2>4. /\ sent \in Directories /\ local \in Directories /\ seen \subseteq Files
        /\ \E T1 : Fair(World, "COMPLETE", Context, Heard, T1)
    BY <2>1, HearsFair
  <2>5. fetched' \in KnownCopies
    BY <2>1, MissingIs
  <2>6. f \in Files /\ fetched \in Copies(f)
    BY <1>1, <2>4 DEF Fair
  <2>7. local' \in Directories
    <3>1. local \in [Files -> UNION {Copies(g) : g \in Files}] /\ \A g \in Files : local[g] \in Copies(g)
      BY <2>4 DEF Directories
    <3> HIDE DEF f
    <3>2. CASE Context[2] = "cwd"
      BY <2>1, <2>4, <3>2
    <3>3. CASE local' = [local EXCEPT ![f] = fetched]
      <4>1. local' \in [Files -> UNION {Copies(g) : g \in Files}]
        BY <2>6, <3>1, <3>3
      <4>2. \A g \in Files : local'[g] = IF g = f THEN fetched ELSE local[g]
        BY <3>1, <3>3
      <4> QED BY <2>6, <3>1, <4>1, <4>2 DEF Directories
    <3> QED BY <2>1, <3>2, <3>3
  <2> QED BY <2>1, <2>3, <2>4, <2>5, <2>7, HearsInv
<1> QED BY <1>2, <1>3, <1>4

(* By the time of a file the client decides to get it, to send its own,    *)
(* or to do neither.                                                       *)
LEMMA DecidesInv ==
    ASSUME ProtocolAssumption, Inv, SyncDecides
    PROVE  Inv'
<1> DEFINE h == Hear("mtime", Context)
           m == Msg("mtime", Heard)
           v == WorldOf(disk[Leader], sent', fetched')
<1>1. World.disk = disk[Leader] /\ World.sent = sent /\ World.fetched = fetched
  BY OurWorld
<1>2. h.kind = "mtime" /\ h.arg = Context
  BY StepFacts
<1>3. UNCHANGED <<local, fetched, seen>>
  BY DEF SyncDecides
<1>4. ASSUME NEW steps, ClientHears("mtime", steps), UNCHANGED sent,
             steps = GetFile(Context, "sync_dir") \/ steps = <<Say("SYNC_OK")>>
      PROVE  Inv'
  <2>1. Replies(World, local, h, m, World, steps)
    BY <1>2, <1>4 DEF Replies
  <2>2. seen \subseteq Files
    BY <1>4, HearsFair
  <2> QED BY <1>3, <1>4, <2>1, <2>2, HearsOnly
<1>5. ASSUME ClientHears("mtime", SendFile(Context, local[Context])), local[Context] # Missing,
             sent' = [sent EXCEPT ![Context] = Missing]
      PROVE  Inv'
  <2> DEFINE steps == SendFile(Context, local[Context])
  <2>1. ClientHears("mtime", steps)
    BY <1>5
  <2>2. Replies(World, local, h, m, v, steps)
    BY <1>1, <1>2, <1>3, <1>5 DEF Replies
  <2> HIDE DEF steps
  <2>3. /\ sent \in Directories /\ local \in Directories /\ seen \subseteq Files /\ fetched \in KnownCopies
        /\ \E T1 : Fair(World, "mtime", Context, Heard, T1)
    BY <2>1, HearsFair
  <2>4. Context \in Files
    BY <2>3 DEF Fair
  <2>5. sent' \in Directories /\ \A g \in Files : sent'[g] = sent[g] \/ sent'[g] = Missing
    BY <1>5, <2>3, <2>4, SentForgotten
  <2> QED BY <1>3, <2>1, <2>2, <2>3, <2>5, HearsInv
<1> QED BY <1>4, <1>5 DEF SyncDecides

(* Every step of the client.                                               *)
LEMMA ClientInv ==
    ASSUME ProtocolAssumption, Inv, Client
    PROVE  Inv'
BY ClientTellsInv, SyncRestInv, AnswersInv, UploadCompletesInv, DownloadInv, DecidesInv DEF Client

(* What is told first.                                                     *)
LEMMA TypedTells ==
    ASSUME NEW D, NEW T, Typed(T, D), T # <<>>, Head(T).do = "tell"
    PROVE  \E k, x, R : T = Then(Tell(k, x), R) /\ Typed(R, D) /\ IsSeq(R) /\ Head(T) = Tell(k, x) /\ R = Tail(T)
<1>1. Typed(Tail(T), D) /\ IsStep(Head(T), D) /\ IsSeq(T)
  BY TypedTail DEF Typed
<1>2. Head(T) = Tell(Head(T).kind, Head(T).arg)
  BY <1>1 DEF IsStep, Tell
<1>3. T = Then(Head(T), Tail(T)) /\ IsSeq(Tail(T))
  BY <1>1, HeadTail
<1> QED BY <1>1, <1>2, <1>3

(* A step of the servers that leaves the leader's files as they are.       *)
LEMMA ShapeKept ==
    ASSUME Shape, Arrays', UNCHANGED client, disk'[Leader] = disk[Leader], recs'[Leader] = recs[Leader],
           alive' \subseteq linked', linked' \subseteq linked, killed' \in BOOLEAN
    PROVE  Shape' /\ World' = World
<1>1. UNCHANGED <<plan, local, fetched, seen, sent>>
  BY DEF client
<1>2. World' = World
  BY <1>1 DEF World
<1>3. Known(World', recs'[Leader], local')
  BY <1>1, <1>2 DEF Shape
<1> QED BY <1>1, <1>2, <1>3 DEF Shape

(* When the leader's next step is not to collect, it collects nothing.     *)
LEMMA CollectsNone ==
    ASSUME NEW k, NEW B, NEW T, Leads(k, B, T),
           todo[Leader] = <<>> \/ Head(todo[Leader]).do # "collect"
    PROVE  /\ B = <<>> /\ Elems(B) = {} /\ todo[Leader] = T /\ Typed(T, TodoKinds) /\ At(Leader) = Lead(T)
           /\ \A b : Ahead(k, B, T, b) = T /\ ~Stalled(b, k, B)
<1>1. Roster(B) /\ todo[Leader] = Cat(Asks(k, B), T) /\ Typed(T, TodoKinds) /\ IsSeq(T) /\ IsSeq(B)
  BY DEF Leads, Kept, Lead, Typed, Roster
<1>2. B = <<>>
  <2>1. ASSUME B # <<>> PROVE FALSE
    <3> DEFINE a == Step("collect", k, Head(B))
               R == Asks(k, Tail(B))
    <3>1. Asks(k, B) = Then(a, R) /\ IsSeq(R)
      BY <1>1, <2>1, AsksHead
    <3>2. a.do = "collect"
      BY DEF Step
    <3> HIDE DEF a, R
    <3>3. todo[Leader] = Then(a, Cat(R, T)) /\ IsSeq(Cat(R, T))
      BY <1>1, <3>1, ThenCat, CatIs
    <3>4. todo[Leader] # <<>> /\ Head(todo[Leader]) = a
      BY <3>3, ThenIs
    <3> QED BY <3>2, <3>4
  <2> QED BY <2>1
<1>3. Elems(B) = {}
  <2>1. Len(B) = 0 /\ DOMAIN B = 1 .. Len(B)
    BY <1>1, <1>2, SeqFacts
  <2> QED BY <2>1 DEF Elems
<1>4. todo[Leader] = T
  <2>1. Asks(k, B) = <<>>
    BY <1>1, <1>2, AsksAre
  <2> QED BY <1>1, <2>1, CatEmpty
<1>5. At(Leader) = Lead(T)
  BY <1>4 DEF At, Lead
<1> QED BY <1>1, <1>2, <1>3, <1>4, <1>5 DEF Ahead, Stalled

(* And when it is, it collects from the first of B.                        *)
LEMMA CollectsFirst ==
    ASSUME NEW k, NEW B, NEW T, Leads(k, B, T), todo[Leader] # <<>>, Head(todo[Leader]).do = "collect"
    PROVE  /\ B # <<>> /\ Head(todo[Leader]) = Step("collect", k, Head(B)) /\ Roster(Tail(B))
           /\ Head(B) \in Elems(B) /\ Elems(Tail(B)) = Elems(B) \ {Head(B)}
           /\ Tail(todo[Leader]) = Cat(Asks(k, Tail(B)), T)
<1>1. Roster(B) /\ todo[Leader] = Cat(Asks(k, B), T) /\ Typed(T, TodoKinds) /\ IsSeq(T) /\ IsSeq(B)
  BY DEF Leads, Kept, Lead, Typed, Roster
<1>2. B # <<>>
  <2>1. ASSUME B = <<>> PROVE FALSE
    <3>1. Asks(k, B) = <<>>
      BY <1>1, <2>1, AsksAre
    <3>2. todo[Leader] = T
      BY <1>1, <3>1, CatEmpty
    <3>3. IsStep(Head(T), TodoKinds)
      BY <1>1, <3>2, TypedTail
    <3> QED BY <3>2, <3>3 DEF IsStep, TodoKinds
  <2> QED BY <2>1
<1> DEFINE a == Step("collect", k, Head(B))
           R == Asks(k, Tail(B))
<1>3. /\ Asks(k, B) = Then(a, R) /\ IsSeq(R) /\ Roster(Tail(B))
      /\ Head(B) \in Elems(B) /\ Elems(Tail(B)) = Elems(B) \ {Head(B)}
  BY <1>1, <1>2, AsksHead
<1> HIDE DEF a, R
<1>4. todo[Leader] = Then(a, Cat(R, T)) /\ IsSeq(Cat(R, T))
  BY <1>1, <1>3, ThenCat, CatIs
<1>5. Head(todo[Leader]) = a /\ Tail(todo[Leader]) = Cat(R, T)
  BY <1>4, ThenIs
<1> QED BY <1>2, <1>3, <1>5 DEF a, R

(* What is told, from message to message.                                  *)
LEMMA EchoesAre ==
    /\ \A y : IsSeq(y) => Echoes(<<>>, y)
    /\ \A u, y : Echoes(u, y) /\ (y = <<>> \/ Head(y).do # "tell") => u = <<>>
    /\ \A u, k, x, z, R : IsSeq(R) /\ Echoes(u, Then(Tell(k, x), R)) => Echoes(u, Then(Tell(k, z), R))
    /\ \A u, a, R : IsSeq(R) /\ u # <<>> /\ Echoes(u, Then(a, R)) => Echoes(Tail(u), R)
<1>1. ASSUME NEW y, IsSeq(y) PROVE Echoes(<<>>, y)
  <2>1. Len(y) \in Nat
    BY <1>1, SeqFacts
  <2> QED BY <1>1, <2>1, EmptyIsSeq DEF Echoes
<1>2. ASSUME NEW u, NEW y, Echoes(u, y), y = <<>> \/ Head(y).do # "tell" PROVE u = <<>>
  <2>1. IsSeq(u) /\ IsSeq(y) /\ Len(u) <= Len(y) /\ \A i \in 1 .. Len(u) : y[i].do = "tell"
    BY <1>2 DEF Echoes
  <2>2. Len(u) \in Nat /\ Len(y) \in Nat /\ (u = <<>> <=> Len(u) = 0) /\ (y = <<>> <=> Len(y) = 0)
    BY <2>1, SeqFacts
  <2>3. ASSUME u # <<>> PROVE FALSE
    <3>1. 1 \in 1 .. Len(u) /\ y # <<>>
      BY <2>1, <2>2, <2>3
    <3>2. Head(y) = y[1]
      BY <2>1, <3>1, HeadTail
    <3> QED BY <1>2, <2>1, <3>1, <3>2
  <2> QED BY <2>3
<1>3. ASSUME NEW u, NEW k, NEW x, NEW z, NEW R, IsSeq(R), Echoes(u, Then(Tell(k, x), R))
      PROVE  Echoes(u, Then(Tell(k, z), R))
  <2> DEFINE y == Then(Tell(k, x), R)
             v == Then(Tell(k, z), R)
  <2>1. /\ IsSeq(y) /\ Len(y) = Len(R) + 1 /\ y[1] = Tell(k, x) /\ \A i \in 1 .. Len(R) : y[i + 1] = R[i]
    BY <1>3, ThenIs
  <2>2. /\ IsSeq(v) /\ Len(v) = Len(R) + 1 /\ v[1] = Tell(k, z) /\ \A i \in 1 .. Len(R) : v[i + 1] = R[i]
    BY <1>3, ThenIs
  <2>3. IsSeq(u) /\ Len(u) <= Len(y) /\ \A i \in 1 .. Len(u) : y[i].do = "tell" /\ y[i].kind = u[i].kind
    BY <1>3 DEF Echoes
  <2> HIDE DEF y, v
  <2>4. Len(u) \in Nat /\ Len(R) \in Nat
    BY <1>3, <2>3, SeqFacts
  <2>5. ASSUME NEW i \in 1 .. Len(u) PROVE v[i].do = "tell" /\ v[i].kind = u[i].kind
    <3>1. CASE i = 1
      BY <2>1, <2>2, <2>3, <3>1, StepFacts
    <3>2. CASE i # 1
      <4>1. i - 1 \in 1 .. Len(R) /\ (i - 1) + 1 = i
        BY <2>1, <2>3, <2>4, <3>2
      <4> QED BY <2>1, <2>2, <2>3, <4>1
    <3> QED BY <3>1, <3>2
  <2> QED BY <2>1, <2>2, <2>3, <2>5 DEF Echoes, v
<1>4. ASSUME NEW u, NEW a, NEW R, IsSeq(R), u # <<>>, Echoes(u, Then(a, R)) PROVE Echoes(Tail(u), R)
  <2> DEFINE y == Then(a, R)
             v == Tail(u)
             m == Head(u)
  <2>1. /\ IsSeq(y) /\ Len(y) = Len(R) + 1 /\ \A i \in 1 .. Len(R) : y[i + 1] = R[i]
    BY <1>4, ThenIs
  <2>2. IsSeq(u) /\ Len(u) <= Len(y) /\ \A i \in 1 .. Len(u) : y[i].do = "tell" /\ y[i].kind = u[i].kind
    BY <1>4 DEF Echoes
  <2>3. u = Then(m, v) /\ IsSeq(v)
    BY <1>4, <2>2, HeadTail
  <2> HIDE DEF y, v, m
  <2>4. Len(u) = Len(v) + 1 /\ \A i \in 1 .. Len(v) : u[i + 1] = v[i]
    BY <2>3, ThenIs
  <2>5. Len(v) \in Nat /\ Len(R) \in Nat
    BY <1>4, <2>3, SeqFacts
  <2>6. ASSUME NEW i \in 1 .. Len(v) PROVE R[i].do = "tell" /\ R[i].kind = v[i].kind
    <3>1. i + 1 \in 1 .. Len(u) /\ i \in 1 .. Len(R)
      BY <2>1, <2>2, <2>4, <2>5
    <3> QED BY <2>1, <2>2, <2>4, <3>1
  <2>7. Len(v) <= Len(R)
    BY <2>1, <2>2, <2>4, <2>5
  <2> QED BY <1>4, <2>3, <2>6, <2>7 DEF Echoes, v
<1> QED BY <1>1, <1>2, <1>3, <1>4

(* The leader writes to the client, and will collect the same of every     *)
(* server it has not crossed out.                                          *)
LEMMA LeaderTellsInv ==
    ASSUME ProtocolAssumption, Inv, ServerTells(Leader)
    PROVE  Inv'
<1>1. Shape /\ Arrays /\ Known(World, recs[Leader], local)
  BY DEF Inv, Shape
<1>2. PICK E, j, B0, T : Agrees(E, j, B0, T)
  BY DEF Inv
<1>3. Leads(j, B0, T) /\ Talks(E, T) /\ Backed(j, B0, T)
  BY <1>2 DEF Agrees
<1>4. /\ ~killed /\ todo[Leader] # <<>> /\ Head(todo[Leader]).do = "tell"
      /\ UNCHANGED <<client, down, disk, recs, links>>
  BY DEF ServerTells, Running
<1>5. /\ B0 = <<>> /\ Elems(B0) = {} /\ todo[Leader] = T /\ Typed(T, TodoKinds)
      /\ \A b : Ahead(j, B0, T, b) = T /\ ~Stalled(b, j, B0)
  BY <1>3, <1>4, CollectsNone
<1>6. PICK k, x, R : /\ T = Then(Tell(k, x), R) /\ Typed(R, TodoKinds) /\ IsSeq(R)
                     /\ Head(T) = Tell(k, x) /\ R = Tail(T)
  BY <1>4, <1>5, TypedTells
<1>7. PICK B : Roster(B) /\ Elems(B) = BackupSet \cap linked /\ Collects(k) = Asks(k, B)
  BY CollectsAre
<1>8. PICK u : u = up[Leader]
  OBVIOUS
<1>8a. /\ up' = [up EXCEPT ![Leader] = Append(u, Msg(k, x))]
       /\ todo' = [todo EXCEPT ![Leader] = Cat(Asks(k, B), R)]
  <2>1. Head(todo[Leader]).kind = k /\ Head(todo[Leader]).arg = x /\ Msg(k, x).kind = k
    BY <1>5, <1>6, StepFacts
  <2>2. /\ up' = [up EXCEPT ![Leader] = Append(up[Leader], Msg(k, x))]
        /\ todo' = [todo EXCEPT ![Leader] = Collects(k) \o Tail(todo[Leader])]
    BY <2>1 DEF ServerTells
  <2> QED BY <1>5, <1>6, <1>7, <1>8, <2>2 DEF Cat
<1>9. Leader \in Servers /\ Leader \notin BackupSet /\ \A b \in BackupSet : b \in Servers /\ b # Leader
  BY NotLeader
<1>10. /\ PerServer(todo') /\ todo'[Leader] = Cat(Asks(k, B), R) /\ \A b \in BackupSet : todo'[b] = todo[b]
       /\ PerServer(up') /\ up'[Leader] = Append(u, Msg(k, x)) /\ \A b \in BackupSet : up'[b] = up[b]
  <2>1. PerServer(todo) /\ PerServer(up)
    BY <1>1 DEF Arrays
  <2>2. PerServer(todo') /\ todo'[Leader] = Cat(Asks(k, B), R) /\ \A b \in Servers : b # Leader => todo'[b] = todo[b]
    BY <1>9, <1>8a, <2>1 DEF PerServer
  <2>3. PerServer(up') /\ up'[Leader] = Append(u, Msg(k, x)) /\ \A b \in Servers : b # Leader => up'[b] = up[b]
    BY <1>9, <1>8a, <2>1 DEF PerServer
  <2> QED BY <1>9, <2>2, <2>3
<1>11. UNCHANGED <<down, disk, recs, sent, plan, alive, linked, killed, client>>
  BY <1>4 DEF links, client
<1>12. Shape' /\ World' = World
  <2>1. Arrays'
    BY <1>1, <1>10, <1>11 DEF Arrays
  <2> QED BY <1>1, <1>11, <2>1, ShapeKept DEF Shape
<1>13. Leads(k, B, R)'
  <2>1. Kept(Lead(T), sent) /\ linked \subseteq BackupSet
    BY <1>1, <1>3 DEF Leads, Shape
  <2>2. Kept(Lead(R), sent)
    BY <1>6, <2>1 DEF Kept, Lead
  <2>3. Lead(R)' = Lead(R)
    BY <1>11 DEF Lead
  <2> QED BY <1>7, <1>10, <1>11, <2>2, <2>3 DEF Leads
<1>14. Talks(E, R)'
  <2>1. Talk(World, E, plan, u, T) /\ Messages(E) /\ (~killed => E = down[Leader])
    BY <1>3, <1>8 DEF Talks
  <2>2. Talk(World, E, plan, Append(u, Msg(k, x)), R)
    BY <1>1, <1>4, <1>5, <1>6, <2>1, TalkSays
  <2> QED BY <1>10, <1>11, <1>12, <2>1, <2>2 DEF Talks
<1>15. ASSUME NEW b \in BackupSet, b \in alive PROVE Runs(b, k, B, R)'
  <2>1. Runs(b, j, B0, T)
    BY <1>3, <1>15 DEF Backed
  <2>2. Follows(At(b), up[b], down[b], Lead(T), sent)
    BY <1>5, <2>1 DEF Runs
  <2>3. b \in Elems(B)
    BY <1>1, <1>7, <1>15 DEF Shape
  <2>9. PICK v : v = Lead(Then(Say(k), R))
    OBVIOUS
  <2>4. v = [todo |-> Then(Tell(k, None), R), disk |-> Lead(T).disk, recs |-> Lead(T).recs]
    BY <2>9 DEF Lead, Say
  <2>5. Lead(T).todo = Then(Tell(k, x), R)
    BY <1>6 DEF Lead
  <2>6. Lead(Then(Say(k), R))' = v /\ At(b)' = At(b) /\ Ahead(k, B, R, b) = Then(Say(k), R)
    BY <1>10, <1>11, <1>15, <2>3, <2>9 DEF Lead, At, Ahead
  <2>7. Follows(At(b), up[b], down[b], v, sent)
    BY <1>6, <2>2, <2>4, <2>5, FollowsTold
  <2>8. Prompt(b, B, R)'
    BY <2>3 DEF Prompt
  <2> QED BY <1>10, <1>11, <1>15, <2>6, <2>7, <2>8 DEF Runs
<1>16. ASSUME NEW b \in BackupSet, b \notin alive PROVE Crashed(b, k, B, R)'
  <2>1. todo[b] = <<>> /\ recs[b] = <<>> /\ (b \in linked => Echoes(up[b], T))
    BY <1>3, <1>5, <1>16 DEF Backed, Crashed
  <2>2. ASSUME b \in linked PROVE Echoes(up[b], Ahead(k, B, R, b))
    <3>1. Ahead(k, B, R, b) = Then(Tell(k, None), R)
      BY <1>7, <1>16, <2>2 DEF Ahead, Say
    <3>2. Echoes(up[b], Then(Tell(k, x), R))
      BY <1>6, <2>1, <2>2
    <3> QED BY <1>6, <3>1, <3>2, EchoesAre
  <2> QED BY <1>10, <1>11, <1>16, <2>1, <2>2 DEF Crashed
<1>17. Backed(k, B, R)'
  BY <1>11, <1>15, <1>16 DEF Backed
<1> QED BY <1>12, <1>13, <1>14, <1>17 DEF Inv, Agrees

(* The leader collects a message, or finds that no more will come.         *)
LEMMA CollectIs ==
    ASSUME NEW b \in BackupSet, Collect(b), PerServer(todo), PerServer(up), Leader \in Servers, b \in Servers,
           NEW R, Tail(todo[Leader]) = R
    PROVE  /\ ~killed /\ todo[Leader] # <<>> /\ Head(todo[Leader]).do = "collect" /\ Head(todo[Leader]).arg = b
           /\ \/ up[b] # <<>> /\ up'[b] = Tail(up[b]) /\ linked' = linked
              \/ up[b] = <<>> /\ b \notin alive /\ linked' \in {linked, linked \ {b}} /\ up' = up
           /\ PerServer(todo') /\ PerServer(up') /\ todo'[Leader] = R
           /\ \A s \in Servers : (s # Leader => todo'[s] = todo[s]) /\ (s # b => up'[s] = up[s])
           /\ UNCHANGED <<client, down, disk, recs, alive, killed>>
<1>1. /\ ~killed /\ todo[Leader] # <<>> /\ Head(todo[Leader]).do = "collect" /\ Head(todo[Leader]).arg = b
      /\ UNCHANGED <<client, down, disk, recs, alive, killed>>
  BY DEF Collect, Running
<1>2. todo' = [todo EXCEPT ![Leader] = R]
  BY DEF Collect
<1>3. PerServer(todo') /\ todo'[Leader] = R /\ \A s \in Servers : s # Leader => todo'[s] = todo[s]
  BY <1>2 DEF PerServer
<1>4. /\ \/ up[b] # <<>> /\ up'[b] = Tail(up[b]) /\ linked' = linked
         \/ up[b] = <<>> /\ b \notin alive /\ linked' \in {linked, linked \ {b}} /\ up' = up
      /\ PerServer(up') /\ \A s \in Servers : s # b => up'[s] = up[s]
  <2>1. CASE up[b] # <<>> /\ up' = [up EXCEPT ![b] = Tail(@)] /\ linked' = linked
    BY <2>1 DEF PerServer
  <2>2. CASE up[b] = <<>> /\ b \notin alive /\ linked' \in {linked, linked \ {b}} /\ up' = up
    BY <2>2
  <2> QED BY <2>1, <2>2 DEF Collect
<1> QED BY <1>1, <1>3, <1>4

(* So the leader collects, from one server after the other.                *)
LEMMA CollectInv ==
    ASSUME ProtocolAssumption, Inv, NEW b \in BackupSet, Collect(b)
    PROVE  Inv'
<1>1. Shape /\ Arrays /\ alive \subseteq linked
  BY DEF Inv, Shape
<1>2. PICK E, k, B, T : Agrees(E, k, B, T)
  BY DEF Inv
<1>3. Leads(k, B, T) /\ Talks(E, T) /\ Backed(k, B, T)
  BY <1>2 DEF Agrees
<1>4. Leader \in Servers /\ Leader \notin BackupSet /\ \A c \in BackupSet : c \in Servers /\ c # Leader
  BY NotLeader
<1>5. PICK R : R = Tail(todo[Leader])
  OBVIOUS
<1>6. /\ todo[Leader] # <<>> /\ Head(todo[Leader]).do = "collect" /\ Head(todo[Leader]).arg = b
      /\ \/ up[b] # <<>> /\ up'[b] = Tail(up[b]) /\ linked' = linked
         \/ up[b] = <<>> /\ b \notin alive /\ linked' \in {linked, linked \ {b}} /\ up' = up
      /\ PerServer(todo') /\ PerServer(up') /\ todo'[Leader] = R
      /\ \A s \in Servers : (s # Leader => todo'[s] = todo[s]) /\ (s # b => up'[s] = up[s])
      /\ UNCHANGED <<client, down, disk, recs, alive, killed>>
  BY <1>1, <1>4, <1>5, CollectIs DEF Arrays
<1>7. PICK D : D = Tail(B)
  OBVIOUS
<1>8. Head(B) = b /\ Roster(D) /\ b \in Elems(B) /\ Elems(D) = Elems(B) \ {b} /\ R = Cat(Asks(k, D), T)
  <2>1. Step("collect", k, Head(B)).arg = Head(B)
    BY DEF Step
  <2> QED BY <1>3, <1>5, <1>6, <1>7, <2>1, CollectsFirst
<1>9. UNCHANGED <<down, disk, recs, sent, plan, alive, killed, client>>
  BY <1>6 DEF client
<1>10. alive' \subseteq linked' /\ linked' \subseteq linked /\ linked \ {b} \subseteq linked'
  BY <1>1, <1>6
<1>11. Shape' /\ World' = World
  <2>1. Arrays'
    BY <1>1, <1>6, <1>9 DEF Arrays
  <2> QED BY <1>1, <1>9, <1>10, <2>1, ShapeKept DEF Shape
<1>12. Leads(k, D, T)' /\ IsSeq(T)
  <2>1. Kept(Lead(T), sent) /\ Elems(B) \subseteq linked
    BY <1>3 DEF Leads
  <2>2. Lead(T)' = Lead(T)
    BY <1>9 DEF Lead
  <2>3. IsSeq(T)
    BY <2>1 DEF Kept, Lead, Typed
  <2> QED BY <1>6, <1>8, <1>9, <1>10, <2>1, <2>2, <2>3 DEF Leads
<1>13. Talks(E, T)'
  BY <1>3, <1>4, <1>6, <1>9, <1>11 DEF Talks
<1>14. \A c \in BackupSet : At(c)' = At(c)
  BY <1>4, <1>6, <1>9 DEF At
<1>15. \A Y : Lead(Y)' = Lead(Y)
  BY <1>9 DEF Lead
<1>16. ASSUME NEW c \in BackupSet, c \in alive PROVE Runs(c, k, D, T)'
  <2>1. Runs(c, k, B, T)
    BY <1>3, <1>16 DEF Backed
  <2>2. CASE c = b
    <3>1. up[b] # <<>> /\ up'[b] = Tail(up[b])
      BY <1>6, <1>16, <2>2
    <3>2. PICK t : t = Lead(Then(Say(k), T))
      OBVIOUS
    <3>3. Follows(At(b), up[b], down[b], t, sent)
      BY <1>8, <2>1, <2>2, <3>1, <3>2 DEF Runs, Stalled, Ahead
    <3>4. t.todo = Then(Tell(k, None), T) /\ Lead(T) = [todo |-> T, disk |-> t.disk, recs |-> t.recs]
      BY <3>2 DEF Lead, Say
    <3>5. down[b] = <<>> /\ Follows(At(b), Tail(up[b]), down[b], Lead(T), sent)
      BY <1>12, <3>1, <3>3, <3>4, FollowsCollected
    <3>6. Ahead(k, D, T, b) = T
      BY <1>8 DEF Ahead
    <3>7. Prompt(b, D, T)'
      BY <1>9, <3>5 DEF Prompt
    <3> QED BY <1>9, <1>14, <1>15, <2>2, <3>1, <3>5, <3>6, <3>7 DEF Runs
  <2>3. CASE c # b
    <3>1. (c \in Elems(D) <=> c \in Elems(B)) /\ up'[c] = up[c] /\ todo'[c] = todo[c]
      BY <1>4, <1>6, <1>8, <2>3
    <3>2. Ahead(k, D, T, c) = Ahead(k, B, T, c)
      BY <3>1 DEF Ahead
    <3>3. Prompt(c, D, T)'
      BY <1>9, <2>1, <3>1 DEF Runs, Prompt
    <3>4. ASSUME Stalled(c, k, B) PROVE Stalled(c, k, D)'
      BY <1>9, <1>14, <3>1, <3>4 DEF Stalled
    <3>5. ASSUME Follows(At(c), up[c], down[c], Lead(Ahead(k, B, T, c)), sent)
          PROVE  Follows(At(c), up[c], down[c], Lead(Ahead(k, D, T, c)), sent)'
      BY <1>9, <1>14, <1>15, <3>1, <3>2, <3>5
    <3> QED BY <2>1, <3>3, <3>4, <3>5 DEF Runs
  <2> QED BY <2>2, <2>3
<1>17. ASSUME NEW c \in BackupSet, c \notin alive PROVE Crashed(c, k, D, T)'
  <2>1. todo[c] = <<>> /\ recs[c] = <<>> /\ (c \in linked => Echoes(up[c], Ahead(k, B, T, c)))
    BY <1>3, <1>17 DEF Backed, Crashed
  <2>2. todo'[c] = <<>> /\ recs'[c] = <<>>
    BY <1>4, <1>6, <1>9, <1>17, <2>1
  <2>3. ASSUME c \in linked' PROVE Echoes(up'[c], Ahead(k, D, T, c))
    <3>1. Echoes(up[c], Ahead(k, B, T, c))
      BY <1>10, <2>1, <2>3
    <3>2. CASE c = b
      <4>1. Ahead(k, B, T, b) = Then(Say(k), T) /\ Ahead(k, D, T, b) = T
        BY <1>8 DEF Ahead
      <4>2. Echoes(up[b], Then(Say(k), T))
        BY <3>1, <3>2, <4>1
      <4>3. CASE up[b] # <<>> /\ up'[b] = Tail(up[b])
        BY <1>12, <3>2, <4>1, <4>2, <4>3, EchoesAre
      <4>4. CASE up'[b] = <<>>
        BY <1>12, <3>2, <4>1, <4>4, EchoesAre
      <4> QED BY <1>6, <4>3, <4>4
    <3>3. CASE c # b
      <4>1. (c \in Elems(D) <=> c \in Elems(B)) /\ up'[c] = up[c]
        BY <1>4, <1>6, <1>8, <3>3
      <4> QED BY <3>1, <4>1 DEF Ahead
    <3> QED BY <3>2, <3>3
  <2> QED BY <2>2, <2>3 DEF Crashed, Ahead
<1>18. Backed(k, D, T)'
  BY <1>9, <1>16, <1>17 DEF Backed
<1> QED BY <1>11, <1>12, <1>13, <1>18 DEF Inv, Agrees

(* The messages after the next.                                            *)
LEMMA MessagesTail ==
    ASSUME NEW E, IsSeq(E), E # <<>>, Messages(E)
    PROVE  IsSeq(Tail(E)) /\ Messages(Tail(E)) /\ Head(E) = Msg(Head(E).kind, Head(E).arg)
<1> DEFINE a == Head(E)
           t == Tail(E)
<1>1. E = Then(a, t) /\ IsSeq(t) /\ a = E[1]
  BY HeadTail
<1> HIDE DEF a, t
<1>2. Len(E) = Len(t) + 1 /\ \A i \in 1 .. Len(t) : E[i + 1] = t[i]
  BY <1>1, ThenIs
<1>3. Len(t) \in Nat /\ DOMAIN t = 1 .. Len(t) /\ DOMAIN E = 1 .. Len(E)
  BY <1>1, SeqFacts
<1>4. ASSUME NEW i \in DOMAIN t PROVE t[i] = Msg(t[i].kind, t[i].arg)
  <2>1. i + 1 \in DOMAIN E
    BY <1>2, <1>3
  <2> QED BY <1>2, <1>3, <2>1 DEF Messages
<1>5. a = Msg(a.kind, a.arg)
  BY <1>1, <1>2, <1>3 DEF Messages
<1> QED BY <1>1, <1>4, <1>5 DEF Messages, a, t

(* The leader hears m: what it does, and what becomes of its files.        *)
LEMMA LeaderTurns ==
    ASSUME Shape, NEW E, NEW k, NEW B, NEW T, Agrees(E, k, B, T), ~killed, down[Leader] # <<>>,
           NEW m, m = Head(down[Leader]), Hearing(todo[Leader]).do = "hear"
    PROVE  /\ B = <<>> /\ Elems(B) = {} /\ todo[Leader] = T /\ Typed(T, TodoKinds) /\ At(Leader) = Lead(T)
           /\ \A b : Ahead(k, B, T, b) = T /\ ~Stalled(b, k, B)
           /\ E = down[Leader] /\ IsSeq(Tail(E)) /\ Messages(Tail(E))
           /\ up[Leader] = <<>> /\ (T = <<>> \/ Head(T).do = "hear")
           /\ \E U : /\ U = Cat(NextSteps(Hearing(T), m, disk[Leader], recs[Leader]), Left(T))
                     /\ Turns(World, recs[Leader], m, T, U)
                     /\ Talk(WorldOf(NextDisk(Hearing(T), m, disk[Leader]), sent, fetched), Tail(E), plan, <<>>, U)
<1>1. Leads(k, B, T) /\ Talks(E, T)
  BY DEF Agrees
<1>2. todo[Leader] = <<>> \/ Head(todo[Leader]).do # "collect"
  BY DEF Hearing
<1>3. /\ B = <<>> /\ Elems(B) = {} /\ todo[Leader] = T /\ Typed(T, TodoKinds) /\ At(Leader) = Lead(T)
      /\ \A b : Ahead(k, B, T, b) = T /\ ~Stalled(b, k, B)
  BY <1>1, <1>2, CollectsNone
<1>4. E = down[Leader] /\ Messages(E) /\ Talk(World, E, plan, up[Leader], T)
  BY <1>1 DEF Talks
<1>5. IsSeq(E) /\ E # <<>> /\ m = Head(E)
  BY <1>4 DEF Talk
<1>6. IsSeq(Tail(E)) /\ Messages(Tail(E)) /\ m = Msg(m.kind, m.arg)
  BY <1>4, <1>5, MessagesTail
<1>7. Known(World, recs[Leader], local)
  BY DEF Shape
<1>8. World.disk = disk[Leader] /\ World.sent = sent /\ World.fetched = fetched
  BY OurWorld
<1>9. PICK y, x : m = Msg(y, x) /\ Head(E) = Msg(y, x)
  BY <1>5, <1>6
<1>10. /\ up[Leader] = <<>> /\ (T # <<>> => Head(T).do = "hear")
       /\ LET h == Hearing(T)
              U == Cat(NextSteps(h, Msg(y, x), World.disk, recs[Leader]), Left(T))
          IN  /\ Turns(World, recs[Leader], Msg(y, x), T, U)
              /\ Talk(WorldOf(NextDisk(h, Msg(y, x), World.disk), World.sent, World.fetched), Tail(E), plan, up[Leader], U)
  BY <1>4, <1>5, <1>7, <1>9, TalkTurns
<1> QED BY <1>3, <1>4, <1>6, <1>8, <1>9, <1>10

(* It is in order afterwards.                                              *)
LEMMA TurnKept ==
    ASSUME Shape, NEW T, Kept(Lead(T), sent), NEW m, NEW U, Turns(World, recs[Leader], m, T, U), Takes(Hearing(T), m),
           NEW t, t = Turned(Lead(T), m)
    PROVE  /\ Heeds(Hearing(T), m) /\ (Hearing(T).kind = "mtime" => Hearing(T).arg \in Files)
           /\ t.todo = U /\ Kept(t, sent) /\ Sane(recs[Leader])
           /\ \A g \in Elems(t.recs) : g \in Files /\ t.disk[g] # Missing
<1> DEFINE h == Hearing(T)
           d == disk[Leader]
           r == recs[Leader]
<1>1. World.disk = d /\ World.sent = sent
  BY OurWorld
<1>2. d \in [Files -> KnownCopies] /\ Sane(r) /\ Typed(T, TodoKinds) /\ \A f \in Files : sent[f] # Missing => d[f] = sent[f]
  BY DEF Kept, Lead
<1>3. U = Cat(NextSteps(h, m, d, r), Left(T)) /\ Moves(World, h, m, NextDisk(h, m, d))
  BY <1>1 DEF Turns
<1>4. t = [todo |-> Cat(NextSteps(h, m, d, r), Left(T)), disk |-> NextDisk(h, m, d), recs |-> NextRecs(h, m, d, r)]
  BY DEF Turned, Lead
<1> HIDE DEF h
<1>5. /\ NextDisk(h, m, d) \in [Files -> KnownCopies]
      /\ \A g \in Files : sent[g] # Missing => NextDisk(h, m, d)[g] = d[g]
      /\ \A g \in Files : d[g] # Missing /\ NextDisk(h, m, d)[g] = Missing => h = Hear("name", "DELETE") /\ m.arg = g
      /\ h.kind = "mtime" => h.arg \in Files /\ d[h.arg] # Missing
      /\ h.kind = "name" => m.arg \in Files
      /\ h.kind = "size" => m.arg \in Nat
  BY <1>1, <1>3 DEF Moves
<1>6. Heeds(h, m)
  BY <1>5 DEF Heeds, h
<1>7. /\ Sane(NextRecs(h, m, d, r))
      /\ \A g \in Elems(NextRecs(h, m, d, r)) :
            /\ g \in Elems(r) \/ (h.kind = "mtime" /\ g = h.arg)
            /\ h.kind = "name" /\ h.arg = "DELETE" /\ d[m.arg] # Missing => g # m.arg
  <2>1. Sane(r) /\ (h.kind = "mtime" => h.arg \in Files)
    BY <1>2, <1>5
  <2> HIDE DEF d, r
  <2> QED BY <2>1, NextRecsAre
<1>8. Typed(U, TodoKinds)
  <2>1. Typed(NextSteps(h, m, d, r), TodoKinds)
    <3>1. IsSeq(r) /\ Takes(h, m)
      BY <1>2 DEF Sane, h
    <3> QED BY <1>2, <1>5, <3>1, NextTyped
  <2>2. Typed(Left(T), TodoKinds)
    <3>1. CASE T = <<>>
      BY <1>2, <3>1 DEF Left
    <3>2. CASE T # <<>>
      <4>1. Typed(Tail(T), TodoKinds)
        BY <1>2, <3>2, TypedTail
      <4> QED BY <3>2, <4>1 DEF Left
    <3> QED BY <3>1, <3>2
  <2> QED BY <1>3, <2>1, <2>2, TypedCat
<1>9. Kept(t, sent)
  BY <1>2, <1>3, <1>4, <1>5, <1>7, <1>8 DEF Kept
<1>10. ASSUME NEW g \in Elems(t.recs) PROVE g \in Files /\ t.disk[g] # Missing
  <2>1. \A f \in Elems(r) : f \in Files /\ d[f] # Missing
    <3>1. OnDisk(World, r)
      BY DEF Shape, Known
    <3> QED BY <1>1, <3>1 DEF OnDisk, Elems
  <2>2. g \in Elems(NextRecs(h, m, d, r))
    BY <1>4
  <2>3. g \in Files /\ d[g] # Missing
    BY <1>5, <1>7, <2>1, <2>2
  <2>4. ASSUME NextDisk(h, m, d)[g] = Missing PROVE FALSE
    <3>1. h = Hear("name", "DELETE") /\ m.arg = g
      BY <1>5, <2>3, <2>4
    <3>2. h.kind = "name" /\ h.arg = "DELETE"
      BY <3>1, StepFacts
    <3> QED BY <1>7, <2>2, <2>3, <3>1, <3>2
  <2> QED BY <1>4, <2>3, <2>4
<1> QED BY <1>2, <1>3, <1>4, <1>5, <1>6, <1>9, <1>10 DEF h

(* What changes when the leader hears a message.                           *)
LEMMA LeaderHearsIs ==
    ASSUME ProtocolAssumption, Arrays, HearsNext(Leader), NEW m, m = Head(down[Leader]), NEW t, t = Turned(At(Leader), m)
    PROVE  /\ ~killed /\ down[Leader] # <<>> /\ Takes(Hearing(todo[Leader]), m)
           /\ PerServer(down') /\ PerServer(todo') /\ PerServer(disk') /\ PerServer(recs')
           /\ down'[Leader] = Tail(down[Leader]) /\ todo'[Leader] = t.todo
           /\ disk'[Leader] = t.disk /\ recs'[Leader] = t.recs
           /\ \A b \in BackupSet :
                 /\ down'[b] = IF b \in linked \cap alive THEN Append(down[b], m) ELSE down[b]
                 /\ todo'[b] = todo[b] /\ disk'[b] = disk[b] /\ recs'[b] = recs[b]
           /\ linked' \subseteq linked /\ linked \cap alive \subseteq linked'
           /\ UNCHANGED <<client, up, alive, killed>>
<1>1. Leader \in Servers /\ Leader \notin BackupSet /\ \A c \in BackupSet : c \in Servers /\ c # Leader
  BY NotLeader
<1>2. /\ ~killed /\ down[Leader] # <<>> /\ Takes(Hearing(todo[Leader]), m)
      /\ down' = Repeated(Leader, m)
      /\ todo' = [todo EXCEPT ![Leader] = t.todo]
      /\ disk' = [disk EXCEPT ![Leader] = t.disk]
      /\ recs' = [recs EXCEPT ![Leader] = t.recs]
      /\ UNCHANGED <<client, up, alive, killed>>
  BY DEF HearsNext, Running
<1>3. PerServer(todo) /\ PerServer(disk) /\ PerServer(recs)
  BY DEF Arrays
<1>4. PerServer(todo') /\ todo'[Leader] = t.todo /\ \A b \in BackupSet : todo'[b] = todo[b]
  BY <1>1, <1>2, <1>3 DEF PerServer
<1>5. PerServer(disk') /\ disk'[Leader] = t.disk /\ \A b \in BackupSet : disk'[b] = disk[b]
  BY <1>1, <1>2, <1>3 DEF PerServer
<1>6. PerServer(recs') /\ recs'[Leader] = t.recs /\ \A b \in BackupSet : recs'[b] = recs[b]
  BY <1>1, <1>2, <1>3 DEF PerServer
<1>7. /\ PerServer(down') /\ down'[Leader] = Tail(down[Leader])
      /\ \A b \in BackupSet : down'[b] = IF b \in linked \cap alive THEN Append(down[b], m) ELSE down[b]
  <2>1. down' = [x \in Servers |-> IF x = Leader THEN Tail(down[x])
                                   ELSE IF x \in linked \cap alive THEN Append(down[x], m)
                                   ELSE down[x]]
    BY <1>2 DEF Repeated
  <2> QED BY <1>1, <2>1 DEF PerServer
<1>8. linked' \subseteq linked /\ linked \cap alive \subseteq linked'
  BY DEF HearsNext
<1> QED BY <1>2, <1>4, <1>5, <1>6, <1>7, <1>8

(* The leader hears a message of the client, does what it asks for, and    *)
(* repeats it.                                                             *)
LEMMA LeaderHearsInv ==
    ASSUME ProtocolAssumption, Inv, HearsNext(Leader)
    PROVE  Inv'
<1>1. Shape /\ Arrays /\ alive \subseteq linked /\ linked \subseteq BackupSet
  BY DEF Inv, Shape
<1>2. PICK E, k, B, T : Agrees(E, k, B, T)
  BY DEF Inv
<1>3. Leads(k, B, T) /\ Talks(E, T) /\ Backed(k, B, T)
  BY <1>2 DEF Agrees
<1>4. PICK m, t : m = Head(down[Leader]) /\ t = Turned(At(Leader), m)
  OBVIOUS
<1>5. /\ ~killed /\ down[Leader] # <<>> /\ Takes(Hearing(todo[Leader]), m)
      /\ PerServer(down') /\ PerServer(todo') /\ PerServer(disk') /\ PerServer(recs')
      /\ down'[Leader] = Tail(down[Leader]) /\ todo'[Leader] = t.todo
      /\ disk'[Leader] = t.disk /\ recs'[Leader] = t.recs
      /\ \A b \in BackupSet :
            /\ down'[b] = IF b \in linked \cap alive THEN Append(down[b], m) ELSE down[b]
            /\ todo'[b] = todo[b] /\ disk'[b] = disk[b] /\ recs'[b] = recs[b]
      /\ linked' \subseteq linked /\ linked \cap alive \subseteq linked'
      /\ UNCHANGED <<client, up, alive, killed>>
  BY <1>1, <1>4, LeaderHearsIs
<1>6. Hearing(todo[Leader]).do = "hear"
  BY <1>5 DEF Takes
<1>7. /\ B = <<>> /\ Elems(B) = {} /\ todo[Leader] = T /\ At(Leader) = Lead(T)
      /\ \A b : Ahead(k, B, T, b) = T /\ ~Stalled(b, k, B)
      /\ E = down[Leader] /\ IsSeq(Tail(E)) /\ Messages(Tail(E))
      /\ up[Leader] = <<>> /\ (T = <<>> \/ Head(T).do = "hear")
  BY <1>1, <1>2, <1>4, <1>5, <1>6, LeaderTurns
<1>8. PICK U : /\ Turns(World, recs[Leader], m, T, U)
               /\ Talk(WorldOf(NextDisk(Hearing(T), m, disk[Leader]), sent, fetched), Tail(E), plan, <<>>, U)
  BY <1>1, <1>2, <1>4, <1>5, <1>6, LeaderTurns
<1>9. t = Turned(Lead(T), m) /\ Kept(Lead(T), sent) /\ Takes(Hearing(T), m)
  BY <1>3, <1>4, <1>5, <1>7 DEF Leads
<1>10. /\ Heeds(Hearing(T), m) /\ (Hearing(T).kind = "mtime" => Hearing(T).arg \in Files)
       /\ t.todo = U /\ Kept(t, sent) /\ Sane(recs[Leader])
       /\ \A g \in Elems(t.recs) : g \in Files /\ t.disk[g] # Missing
  BY <1>1, <1>8, <1>9, TurnKept
<1>11. Speaks(U, m.kind) /\ IsSeq(U)
  BY <1>8 DEF Turns
<1>12. UNCHANGED <<sent, plan, fetched, local, seen, up, alive, killed>>
  BY <1>5 DEF client
<1>13. t.disk = NextDisk(Hearing(T), m, disk[Leader]) /\ t = [todo |-> U, disk |-> t.disk, recs |-> t.recs]
  BY <1>9, <1>10 DEF Turned, Lead
<1>14. World' = WorldOf(t.disk, sent, fetched)
  BY <1>5, <1>12 DEF World, WorldOf
<1>15. Shape'
  <2>1. Leader \in Servers /\ \A s \in Servers : s = Leader \/ s \in BackupSet
    BY NotLeader
  <2>2. disk' \in [Servers -> [Files -> KnownCopies]]
    <3>1. t.disk \in [Files -> KnownCopies]
      BY <1>10 DEF Kept
    <3>2. disk \in [Servers -> [Files -> KnownCopies]]
      BY <1>1 DEF Arrays
    <3>3. \A s \in Servers : disk'[s] \in [Files -> KnownCopies]
      BY <1>5, <2>1, <3>1, <3>2
    <3>4. disk' = [s \in Servers |-> disk'[s]]
      BY <1>5 DEF PerServer
    <3> QED BY <3>3, <3>4
  <2>3. Arrays'
    BY <1>1, <1>5, <1>12, <2>2 DEF Arrays
  <2>4. World'.disk = t.disk /\ World'.sent = sent
    BY <1>14 DEF WorldOf
  <2>5. OnDisk(World', recs'[Leader])
    <3>1. IsSeq(t.recs)
      BY <1>10 DEF Kept, Sane
    <3> QED BY <1>5, <1>10, <2>4, <3>1 DEF OnDisk, Elems
  <2>6. IsWorld(World')
    <3>1. t.disk \in [Files -> KnownCopies]
      BY <1>10 DEF Kept
    <3> QED BY <1>14, <3>1 DEF IsWorld, WorldOf
  <2>7. sent \in Directories /\ local \in Directories
    BY <1>1, OurWorld DEF Shape, Known
  <2>8. Known(World', recs'[Leader], local')
    BY <1>12, <2>4, <2>5, <2>6, <2>7 DEF Known
  <2> QED BY <1>1, <1>5, <1>12, <2>3, <2>8 DEF Shape
<1>16. Leads(k, <<>>, U)'
  <2>1. Asks(k, <<>>) = <<>> /\ Roster(<<>>) /\ Elems(<<>>) = {}
    BY <1>3, <1>7, AsksAre DEF Leads, Roster
  <2>2. Cat(Asks(k, <<>>), U) = U
    BY <1>11, <2>1, CatEmpty
  <2>3. Lead(U)' = t
    BY <1>5, <1>13 DEF Lead
  <2> QED BY <1>5, <1>10, <1>12, <2>1, <2>2, <2>3 DEF Leads
<1>17. Talks(Tail(E), U)'
  BY <1>5, <1>7, <1>8, <1>12, <1>13, <1>14 DEF Talks
<1>18. ASSUME NEW b \in BackupSet, b \in alive PROVE Runs(b, k, <<>>, U)'
  <2>1. Prompt(b, B, T) /\ Follows(At(b), up[b], down[b], Lead(T), sent)
    BY <1>3, <1>7, <1>18 DEF Backed, Runs
  <2>2. PICK l : l = Lead(T)
    OBVIOUS
  <2>3. l.todo = T /\ l.recs = recs[Leader]
    BY <2>2 DEF Lead
  <2>4. up[b] = <<>>
    BY <1>7, <2>1, <2>2, <2>3, FollowsIdle
  <2>5. ASSUME Due(t.todo) PROVE m.kind = "COMPLETE" /\ down[b] = <<>>
    <3>1. m.kind = "COMPLETE"
      BY <1>10, <1>11, <2>5 DEF Speaks
    <3>2. Hearing(T).kind = "COMPLETE"
      BY <1>9, <3>1 DEF Takes, CommandKinds, AnswerKinds
    <3>3. T # <<>> /\ Hearing(T) = Head(T)
      BY <3>2, StepFacts DEF Hearing
    <3>4. Head(T).do = "hear" /\ Head(T).kind # "size" /\ b \notin Elems(B)
      BY <1>7, <3>2, <3>3
    <3> QED BY <2>1, <3>1, <3>3, <3>4 DEF Prompt
  <2>6. Follows(At(b), <<>>, Append(down[b], m), Turned(l, m), sent)
    <3>1. Follows(At(b), up[b], down[b], l, sent) /\ (l.todo = <<>> \/ Head(l.todo).do = "hear") /\ Sane(l.recs)
      BY <1>7, <1>10, <2>1, <2>2, <2>3
    <3>2. Heeds(Hearing(l.todo), m) /\ (Hearing(l.todo).kind = "mtime" => Hearing(l.todo).arg \in Files)
      BY <1>10, <2>3
    <3>3. Turned(l, m) = t
      BY <1>9, <2>2
    <3> QED BY <1>10, <2>5, <3>1, <3>2, <3>3, FollowsHears
  <2>7. Lead(U)' = t /\ t = Turned(l, m) /\ At(b)' = At(b) /\ Ahead(k, <<>>, U, b) = U
    BY <1>5, <1>7, <1>9, <1>13, <2>2 DEF Lead, At, Ahead
  <2>8. down'[b] = Append(down[b], m) /\ up'[b] = <<>>
    BY <1>1, <1>5, <1>12, <1>18, <2>4
  <2>9. Prompt(b, <<>>, U)'
    BY <1>11 DEF Prompt, Speaks
  <2> QED BY <1>12, <2>6, <2>7, <2>8, <2>9 DEF Runs
<1>19. ASSUME NEW b \in BackupSet, b \notin alive PROVE Crashed(b, k, <<>>, U)'
  <2>1. todo[b] = <<>> /\ recs[b] = <<>> /\ (b \in linked => Echoes(up[b], T))
    BY <1>3, <1>7, <1>19 DEF Backed, Crashed
  <2>2. ASSUME b \in linked' PROVE Echoes(up[b], Ahead(k, <<>>, U, b))
    <3>1. Echoes(up[b], T)
      BY <1>5, <2>1, <2>2
    <3>2. up[b] = <<>>
      <4>1. T = <<>> \/ Head(T).do # "tell"
        BY <1>7
      <4> QED BY <3>1, <4>1, EchoesAre
    <3> QED BY <1>7, <1>11, <3>2, EchoesAre DEF Ahead
  <2>3. todo'[b] = <<>> /\ recs'[b] = <<>> /\ up'[b] = up[b]
    BY <1>5, <1>12, <1>19, <2>1
  <2> QED BY <2>2, <2>3 DEF Crashed, Ahead
<1>20. Backed(k, <<>>, U)'
  BY <1>12, <1>18, <1>19 DEF Backed
<1> QED BY <1>15, <1>16, <1>17, <1>20 DEF Inv, Agrees

(* listServer of the leader hears that the client has the name of a file,  *)
(* does not repeat it, and waits for a message of the others all the same. *)
LEMMA LeaderNamesInv ==
    ASSUME ProtocolAssumption, Inv, HearFileNameAck(Leader)
    PROVE  Inv'
<1>1. Shape /\ Arrays /\ alive \subseteq linked /\ linked \subseteq BackupSet
  BY DEF Inv, Shape
<1>2. PICK E, j, B0, T : Agrees(E, j, B0, T)
  BY DEF Inv
<1>3. Leads(j, B0, T) /\ Talks(E, T) /\ Backed(j, B0, T)
  BY <1>2 DEF Agrees
<1>4. PICK m : m = Head(down[Leader])
  OBVIOUS
<1>5. /\ Hearing(todo[Leader]).do = "hear" /\ Hearing(todo[Leader]).kind = "FILENAME_ACK"
      /\ ~killed /\ down[Leader] # <<>> /\ m.kind = "FILENAME_ACK"
      /\ down' = [down EXCEPT ![Leader] = Tail(down[Leader])]
      /\ todo' = [todo EXCEPT ![Leader] = Cat(Collects("any"), Tail(todo[Leader]))]
      /\ UNCHANGED <<client, up, disk, recs, links>>
  BY <1>4, HearingIs DEF HearFileNameAck, Running, Cat
<1>6. /\ B0 = <<>> /\ Elems(B0) = {} /\ todo[Leader] = T /\ Typed(T, TodoKinds)
      /\ \A b : Ahead(j, B0, T, b) = T /\ ~Stalled(b, j, B0)
      /\ E = down[Leader] /\ IsSeq(Tail(E)) /\ Messages(Tail(E))
      /\ up[Leader] = <<>> /\ (T = <<>> \/ Head(T).do = "hear")
  BY <1>1, <1>2, <1>4, <1>5, LeaderTurns
<1>7. PICK U : /\ U = Cat(NextSteps(Hearing(T), m, disk[Leader], recs[Leader]), Left(T))
               /\ Talk(WorldOf(NextDisk(Hearing(T), m, disk[Leader]), sent, fetched), Tail(E), plan, <<>>, U)
  BY <1>1, <1>2, <1>4, <1>5, LeaderTurns
<1>8. Hearing(T).kind = "FILENAME_ACK" /\ T # <<>> /\ Hearing(T) = Head(T)
  BY <1>5, <1>6, StepFacts DEF Hearing
<1>9. Typed(Tail(T), TodoKinds) /\ IsSeq(Tail(T))
  BY <1>6, <1>8, TypedTail DEF Typed
<1>10. PICK R : R = Tail(T)
  OBVIOUS
<1>11. Talk(World, Tail(E), plan, <<>>, R)
  <2>1. NextSteps(Hearing(T), m, disk[Leader], recs[Leader]) = <<>>
    BY <1>8 DEF NextSteps
  <2>2. U = R
    BY <1>7, <1>8, <1>9, <1>10, <2>1, CatEmpty DEF Left
  <2>3. NextDisk(Hearing(T), m, disk[Leader]) = disk[Leader]
    BY <1>8 DEF NextDisk
  <2> QED BY <1>7, <2>2, <2>3, OurWorld
<1>12. PICK B : Roster(B) /\ Elems(B) = BackupSet \cap linked /\ Collects("any") = Asks("any", B)
  BY CollectsAre
<1>13. Leader \in Servers /\ Leader \notin BackupSet /\ \A b \in BackupSet : b \in Servers /\ b # Leader
  BY NotLeader
<1>14. /\ PerServer(todo') /\ todo'[Leader] = Cat(Asks("any", B), R) /\ \A b \in BackupSet : todo'[b] = todo[b]
       /\ PerServer(down') /\ down'[Leader] = Tail(E) /\ \A b \in BackupSet : down'[b] = down[b]
  <2>1. PerServer(todo) /\ PerServer(down)
    BY <1>1 DEF Arrays
  <2>2. todo' = [todo EXCEPT ![Leader] = Cat(Asks("any", B), R)] /\ down' = [down EXCEPT ![Leader] = Tail(E)]
    BY <1>5, <1>6, <1>10, <1>12
  <2>3. PerServer(todo') /\ todo'[Leader] = Cat(Asks("any", B), R) /\ \A b \in Servers : b # Leader => todo'[b] = todo[b]
    BY <1>13, <2>1, <2>2 DEF PerServer
  <2>4. PerServer(down') /\ down'[Leader] = Tail(E) /\ \A b \in Servers : b # Leader => down'[b] = down[b]
    BY <1>13, <2>1, <2>2 DEF PerServer
  <2> QED BY <1>13, <2>3, <2>4
<1>15. UNCHANGED <<up, disk, recs, sent, plan, alive, linked, killed, client>>
  BY <1>5 DEF links, client
<1>16. Shape' /\ World' = World
  <2>1. Arrays'
    BY <1>1, <1>14, <1>15 DEF Arrays
  <2> QED BY <1>1, <1>15, <2>1, ShapeKept DEF Shape
<1>17. Leads("any", B, R)'
  <2>1. Kept(Lead(T), sent)
    BY <1>3 DEF Leads
  <2>2. Kept(Lead(R), sent)
    BY <1>9, <1>10, <2>1 DEF Kept, Lead
  <2>3. Lead(R)' = Lead(R)
    BY <1>15 DEF Lead
  <2> QED BY <1>12, <1>14, <1>15, <2>2, <2>3 DEF Leads
<1>18. Talks(Tail(E), R)'
  BY <1>6, <1>11, <1>14, <1>15, <1>16 DEF Talks
<1>19. ASSUME NEW b \in BackupSet, b \in alive PROVE Runs(b, "any", B, R)'
  <2>1. Prompt(b, B0, T) /\ Follows(At(b), up[b], down[b], Lead(T), sent)
    BY <1>3, <1>6, <1>19 DEF Backed, Runs
  <2>2. down[b] = <<>>
    BY <1>6, <1>8, <2>1 DEF Prompt
  <2>3. PICK l, s : l = Lead(T) /\ s = At(b)
    OBVIOUS
  <2>4. l.todo = T /\ l.recs = recs[Leader] /\ l.disk = disk[Leader] /\ s.todo = todo[b] /\ s.disk = disk[b] /\ s.recs = recs[b]
    BY <2>3 DEF Lead, At
  <2>5. Follows(s, up[b], down[b], l, sent)
    BY <2>1, <2>3
  <2>6. up[b] = <<>> /\ \E h : Past(h, s, down[b], sent) /\ Alike(h[Len(down[b])], l)
    BY <1>6, <2>4, <2>5, FollowsIdle
  <2>7. Alike(s, l)
    BY <2>2, <2>6, EmptyIsSeq DEF Past
  <2>8. Kept(s, sent)
    BY <2>5, FollowsKept
  <2>9. todo[b] # <<>> /\ Head(todo[b]).do = "hear"
    <3>1. SameSteps(todo[b], T)
      BY <2>4, <2>7 DEF Alike
    <3>2. todo[b] # <<>>
      BY <1>8, <3>1, SameEmpty
    <3>3. SameStep(Head(todo[b]), Head(T))
      BY <3>1, <3>2, SameHead
    <3> QED BY <1>6, <1>8, <3>2, <3>3 DEF SameStep
  <2>10. b \in Elems(B)
    BY <1>1, <1>12, <1>19
  <2>11. disk[b] = disk[Leader] /\ Elems(recs[b]) = Elems(recs[Leader]) /\ Len(recs[b]) = Len(recs[Leader])
    BY <2>4, <2>7 DEF Alike
  <2>12. At(b)' = s
    BY <1>14, <1>15, <1>19, <2>3 DEF At
  <2>13. Stalled(b, "any", B)'
    BY <1>14, <1>15, <1>19, <2>2, <2>6, <2>8, <2>9, <2>10, <2>11, <2>12 DEF Stalled
  <2>14. Prompt(b, B, R)'
    BY <2>10 DEF Prompt
  <2> QED BY <2>13, <2>14 DEF Runs
<1>20. ASSUME NEW b \in BackupSet, b \notin alive PROVE Crashed(b, "any", B, R)'
  <2>1. todo[b] = <<>> /\ recs[b] = <<>> /\ (b \in linked => Echoes(up[b], T))
    BY <1>3, <1>6, <1>20 DEF Backed, Crashed
  <2>2. ASSUME b \in linked PROVE Echoes(up[b], Ahead("any", B, R, b))
    <3>1. up[b] = <<>>
      <4>1. T = <<>> \/ Head(T).do # "tell"
        BY <1>6
      <4> QED BY <2>1, <2>2, <4>1, EchoesAre
    <3>2. IsSeq(Ahead("any", B, R, b))
      BY <1>9, <1>10, AheadIs
    <3> QED BY <3>1, <3>2, EchoesAre
  <2>3. todo'[b] = <<>> /\ recs'[b] = <<>> /\ up'[b] = up[b]
    BY <1>14, <1>15, <1>20, <2>1
  <2> QED BY <1>15, <2>2, <2>3 DEF Crashed, Ahead
<1>21. Backed("any", B, R)'
  BY <1>15, <1>19, <1>20 DEF Backed
<1> QED BY <1>16, <1>17, <1>18, <1>21 DEF Inv, Agrees

(* A step of one of the other servers.                                     *)
LEMMA BackupStep ==
    ASSUME ProtocolAssumption, Shape, NEW E, NEW k, NEW B, NEW T, Agrees(E, k, B, T),
           NEW b \in BackupSet, UNCHANGED <<client, linked, killed>>,
           PerServer(todo'), PerServer(down'), PerServer(up'), PerServer(disk'), PerServer(recs'),
           \A s \in Servers : s # b => /\ todo'[s] = todo[s] /\ down'[s] = down[s] /\ up'[s] = up[s]
                                       /\ disk'[s] = disk[s] /\ recs'[s] = recs[s],
           disk'[b] \in [Files -> KnownCopies],
           \/ alive' = alive /\ b \in alive /\ Runs(b, k, B, T)'
           \/ alive' = alive \ {b} /\ Crashed(b, k, B, T)'
    PROVE  Inv'
<1>1. Leader \in Servers /\ Leader \notin BackupSet /\ \A c \in BackupSet : c \in Servers /\ c # Leader
  BY NotLeader
<1>2. Leads(k, B, T) /\ Talks(E, T) /\ Backed(k, B, T)
  BY DEF Agrees
<1>3. Leader # b
  BY <1>1
<1>4. UNCHANGED <<plan, local, fetched, seen, sent>>
  BY DEF client
<1>5. Shape' /\ World' = World
  <2>1. disk' \in [Servers -> [Files -> KnownCopies]]
    <3>1. disk \in [Servers -> [Files -> KnownCopies]]
      BY DEF Shape, Arrays
    <3>2. \A s \in Servers : disk'[s] \in [Files -> KnownCopies]
      BY <3>1
    <3>3. disk' = [s \in Servers |-> disk'[s]]
      BY DEF PerServer
    <3> QED BY <3>2, <3>3
  <2>2. Arrays'
    BY <2>1 DEF Arrays
  <2>3. alive' \subseteq linked' /\ linked' \subseteq linked /\ killed' \in BOOLEAN
    BY DEF Shape
  <2> QED BY <1>1, <1>3, <2>2, <2>3, ShapeKept
<1>6. \A Y : Lead(Y)' = Lead(Y)
  BY <1>1, <1>3 DEF Lead
<1>7. Leads(k, B, T)'
  BY <1>1, <1>2, <1>3, <1>4, <1>6 DEF Leads
<1>8. Talks(E, T)'
  BY <1>1, <1>2, <1>3, <1>4, <1>5 DEF Talks
<1>9. ASSUME NEW c \in BackupSet, c # b
      PROVE  /\ c \in alive' <=> c \in alive
             /\ Runs(c, k, B, T) => Runs(c, k, B, T)'
             /\ Crashed(c, k, B, T) => Crashed(c, k, B, T)'
  <2>1. /\ todo'[c] = todo[c] /\ down'[c] = down[c] /\ up'[c] = up[c]
        /\ disk'[c] = disk[c] /\ recs'[c] = recs[c]
    BY <1>1, <1>9
  <2>2. disk'[Leader] = disk[Leader] /\ recs'[Leader] = recs[Leader]
    BY <1>1, <1>3
  <2>3. At(c)' = At(c) /\ Lead(Ahead(k, B, T, c))' = Lead(Ahead(k, B, T, c))
    BY <1>6, <2>1 DEF At, Ahead
  <2>4. Prompt(c, B, T) => Prompt(c, B, T)'
    BY <2>1 DEF Prompt
  <2>5. Stalled(c, k, B) => Stalled(c, k, B)'
    BY <1>4, <2>1, <2>2, <2>3 DEF Stalled
  <2>6. Follows(At(c), up[c], down[c], Lead(Ahead(k, B, T, c)), sent)
        => Follows(At(c), up[c], down[c], Lead(Ahead(k, B, T, c)), sent)'
    BY <1>4, <2>1, <2>3
  <2>7. Crashed(c, k, B, T) => Crashed(c, k, B, T)'
    BY <2>1 DEF Crashed
  <2>8. c \in alive' <=> c \in alive
    BY <1>9
  <2> QED BY <2>4, <2>5, <2>6, <2>7, <2>8 DEF Runs
<1>10. Backed(k, B, T)'
  <2>1. ASSUME NEW c \in BackupSet PROVE IF c \in alive' THEN Runs(c, k, B, T)' ELSE Crashed(c, k, B, T)'
    <3>1. CASE c = b
      BY <3>1
    <3>2. CASE c # b
      BY <1>2, <1>9, <3>2 DEF Backed
    <3> QED BY <3>1, <3>2
  <2> QED BY <2>1 DEF Backed
<1> QED BY <1>5, <1>7, <1>8, <1>10 DEF Inv, Agrees

(* A server writes to the leader what the leader has told the client.      *)
LEMMA BackupTellsInv ==
    ASSUME ProtocolAssumption, Inv, NEW b \in BackupSet, ServerTells(b)
    PROVE  Inv'
<1>1. Shape /\ Arrays
  BY DEF Inv, Shape
<1>2. PICK E, k, B, T : Agrees(E, k, B, T)
  BY DEF Inv
<1>3. b \in Servers /\ b # Leader
  BY NotLeader
<1>4. /\ b \in alive /\ todo[b] # <<>> /\ Head(todo[b]).do = "tell"
      /\ UNCHANGED <<client, down, disk, recs, links>>
  BY <1>3 DEF ServerTells, Running
<1>5. Runs(b, k, B, T) /\ Kept(Lead(T), sent)
  BY <1>2, <1>4 DEF Agrees, Backed, Leads
<1>6. PICK s, l : s = At(b) /\ l = Lead(Ahead(k, B, T, b))
  OBVIOUS
<1>7. s.todo = todo[b] /\ s.disk = disk[b] /\ s.recs = recs[b]
  BY <1>6 DEF At
<1>8. Prompt(b, B, T) /\ Follows(s, up[b], down[b], l, sent)
  BY <1>4, <1>5, <1>6 DEF Runs, Stalled
<1>9. Kept(s, sent)
  BY <1>8, FollowsKept
<1>10. PICK y, x, R : /\ todo[b] = Then(Tell(y, x), R) /\ Typed(R, TodoKinds) /\ IsSeq(R)
                      /\ Head(todo[b]) = Tell(y, x) /\ R = Tail(todo[b])
  <2>1. Typed(todo[b], TodoKinds)
    BY <1>7, <1>9 DEF Kept
  <2> QED BY <1>4, <2>1, TypedTells
<1>11. PICK v : v = [todo |-> R, disk |-> s.disk, recs |-> s.recs]
  OBVIOUS
<1>12. Follows(v, Append(up[b], Msg(y, x)), down[b], l, sent)
  BY <1>7, <1>8, <1>10, <1>11, FollowsTells
<1>13. up' = [up EXCEPT ![b] = Append(up[b], Msg(y, x))] /\ todo' = [todo EXCEPT ![b] = R]
  <2>1. Head(todo[b]).kind = y /\ Head(todo[b]).arg = x
    BY <1>10, StepFacts
  <2>2. /\ up' = [up EXCEPT ![b] = Append(up[b], Msg(y, x))]
        /\ todo' = [todo EXCEPT ![b] = Cat(<<>>, Tail(todo[b]))]
    BY <1>3, <2>1 DEF ServerTells, Cat
  <2>3. Cat(<<>>, R) = R
    BY <1>10, CatEmpty
  <2> QED BY <1>10, <2>2, <2>3
<1>14. /\ PerServer(todo') /\ todo'[b] = R /\ \A c \in Servers : c # b => todo'[c] = todo[c]
       /\ PerServer(up') /\ up'[b] = Append(up[b], Msg(y, x)) /\ \A c \in Servers : c # b => up'[c] = up[c]
  <2>1. PerServer(todo) /\ PerServer(up)
    BY <1>1 DEF Arrays
  <2>2. PerServer(todo') /\ todo'[b] = R /\ \A c \in Servers : c # b => todo'[c] = todo[c]
    BY <1>3, <1>13, <2>1 DEF PerServer
  <2>3. PerServer(up') /\ up'[b] = Append(up[b], Msg(y, x)) /\ \A c \in Servers : c # b => up'[c] = up[c]
    BY <1>3, <1>13, <2>1 DEF PerServer
  <2> QED BY <2>2, <2>3
<1>15. UNCHANGED <<down, disk, recs, sent, alive, linked, killed, client>>
  BY <1>4 DEF links, client
<1>16. PerServer(down') /\ PerServer(disk') /\ PerServer(recs') /\ disk'[b] \in [Files -> KnownCopies]
  BY <1>1, <1>3, <1>15 DEF Arrays
<1>17. Runs(b, k, B, T)'
  <2>1. At(b)' = v /\ Lead(Ahead(k, B, T, b))' = l
    BY <1>6, <1>7, <1>11, <1>14, <1>15 DEF At, Lead, Ahead
  <2>2. Prompt(b, B, T)'
    BY <1>8, <1>15 DEF Prompt
  <2> QED BY <1>12, <1>14, <1>15, <2>1, <2>2 DEF Runs
<1> QED BY <1>1, <1>2, <1>4, <1>14, <1>15, <1>16, <1>17, BackupStep

(* It reads what the leader has repeated.                                  *)
LEMMA BackupHearsInv ==
    ASSUME ProtocolAssumption, Inv, NEW b \in BackupSet, HearsNext(b)
    PROVE  Inv'
<1>1. Shape /\ Arrays
  BY DEF Inv, Shape
<1>2. PICK E, k, B, T : Agrees(E, k, B, T)
  BY DEF Inv
<1>3. b \in Servers /\ b # Leader
  BY NotLeader
<1>4. PICK v : v = Turned(At(b), Head(down[b]))
  OBVIOUS
<1>5. /\ b \in alive /\ down[b] # <<>>
      /\ down' = [down EXCEPT ![b] = Tail(down[b])]
      /\ todo' = [todo EXCEPT ![b] = v.todo]
      /\ disk' = [disk EXCEPT ![b] = v.disk]
      /\ recs' = [recs EXCEPT ![b] = v.recs]
      /\ UNCHANGED <<client, up, alive, linked, killed>>
  BY <1>3, <1>4 DEF HearsNext, Running, Repeated
<1>6. Runs(b, k, B, T)
  BY <1>2, <1>5 DEF Agrees, Backed
<1>7. PICK s, l : s = At(b) /\ l = Lead(Ahead(k, B, T, b))
  OBVIOUS
<1>8. Prompt(b, B, T) /\ Follows(s, up[b], down[b], l, sent)
  BY <1>5, <1>6, <1>7 DEF Runs, Stalled
<1>9. Follows(v, up[b], Tail(down[b]), l, sent)
  BY <1>4, <1>5, <1>7, <1>8, FollowsReads
<1>10. Kept(v, sent)
  BY <1>9, FollowsKept
<1>11. PerServer(todo) /\ PerServer(down) /\ PerServer(disk) /\ PerServer(recs) /\ PerServer(up)
  BY <1>1 DEF Arrays
<1>12. PerServer(todo') /\ todo'[b] = v.todo /\ \A c \in Servers : c # b => todo'[c] = todo[c]
  BY <1>3, <1>5, <1>11 DEF PerServer
<1>13. PerServer(down') /\ down'[b] = Tail(down[b]) /\ \A c \in Servers : c # b => down'[c] = down[c]
  BY <1>3, <1>5, <1>11 DEF PerServer
<1>14. PerServer(disk') /\ disk'[b] = v.disk /\ \A c \in Servers : c # b => disk'[c] = disk[c]
  BY <1>3, <1>5, <1>11 DEF PerServer
<1>15. PerServer(recs') /\ recs'[b] = v.recs /\ \A c \in Servers : c # b => recs'[c] = recs[c]
  BY <1>3, <1>5, <1>11 DEF PerServer
<1>16. UNCHANGED <<sent, up>>
  BY <1>5 DEF client
<1>17. Runs(b, k, B, T)'
  <2>1. v = [todo |-> v.todo, disk |-> v.disk, recs |-> v.recs]
    BY <1>4 DEF Turned
  <2>2. At(b)' = v
    BY <1>12, <1>14, <1>15, <2>1 DEF At
  <2>3. Lead(Ahead(k, B, T, b))' = l
    <3>1. Leader \in Servers
      BY NotLeader
    <3>2. disk'[Leader] = disk[Leader] /\ recs'[Leader] = recs[Leader]
      BY <1>3, <1>14, <1>15, <3>1
    <3> QED BY <1>7, <3>2 DEF Lead, Ahead
  <2>4. Prompt(b, B, T)'
    BY <1>5, <1>8 DEF Prompt
  <2> QED BY <1>9, <1>13, <1>16, <2>2, <2>3, <2>4 DEF Runs
<1>18. disk'[b] \in [Files -> KnownCopies] /\ PerServer(up')
  BY <1>10, <1>11, <1>14, <1>16 DEF Kept
<1>19. \A c \in Servers : c # b => /\ todo'[c] = todo[c] /\ down'[c] = down[c] /\ up'[c] = up[c]
                                  /\ disk'[c] = disk[c] /\ recs'[c] = recs[c]
  BY <1>12, <1>13, <1>14, <1>15, <1>16
<1>20. /\ PerServer(todo') /\ PerServer(down') /\ PerServer(up') /\ PerServer(disk') /\ PerServer(recs')
       /\ UNCHANGED <<client, linked, killed>> /\ alive' = alive /\ b \in alive
  BY <1>5, <1>12, <1>13, <1>14, <1>15, <1>18
<1> QED BY <1>1, <1>2, <1>17, <1>18, <1>19, <1>20, BackupStep

(* What holds of a server that runs, whether or not listServer holds it up.*)
LEMMA RunsIs ==
    ASSUME NEW b, NEW k, NEW B, NEW T, Runs(b, k, B, T)
    PROVE  /\ Kept(At(b), sent) /\ At(b).todo = todo[b] /\ At(b).disk = disk[b] /\ At(b).recs = recs[b]
           /\ down[b] # <<>> => Heeds(Hearing(todo[b]), Head(down[b]))
<1>1. At(b).todo = todo[b] /\ At(b).disk = disk[b] /\ At(b).recs = recs[b]
  BY DEF At
<1>2. CASE Stalled(b, k, B)
  BY <1>1, <1>2 DEF Stalled
<1>3. CASE Follows(At(b), up[b], down[b], Lead(Ahead(k, B, T, b)), sent)
  BY <1>1, <1>3, FollowsKept
<1> QED BY <1>2, <1>3 DEF Runs

(* A message that is taken was waited for, and is not FILENAME_ACK.        *)
LEMMA TakesIs ==
    ASSUME NEW h, NEW m, Takes(h, m)
    PROVE  h.do = "hear" /\ h.kind # "FILENAME_ACK"
BY DEF Takes, Acks

(* It never hears that the client has the name of a file.                  *)
LEMMA BackupNames ==
    ASSUME Inv, NEW b \in BackupSet, b # Leader, HearFileNameAck(b)
    PROVE  FALSE
<1>1. PICK E, k, B, T : Agrees(E, k, B, T)
  BY DEF Inv
<1>2. Hearing(todo[b]).kind = "FILENAME_ACK" /\ b \in alive /\ down[b] # <<>>
  BY HearingIs DEF HearFileNameAck, Running
<1>3. Runs(b, k, B, T)
  BY <1>1, <1>2 DEF Agrees, Backed
<1>4. Takes(Hearing(todo[b]), Head(down[b]))
  BY <1>2, <1>3, RunsIs DEF Heeds
<1> QED BY <1>2, <1>4, TakesIs

(* One of the other servers crashes.                                       *)
LEMMA CrashInv ==
    ASSUME ProtocolAssumption, Inv, NEW b \in BackupSet, Crash(b)
    PROVE  Inv'
<1>1. Shape /\ Arrays
  BY DEF Inv, Shape
<1>2. PICK E, k, B, T : Agrees(E, k, B, T)
  BY DEF Inv
<1>3. b \in Servers /\ b # Leader
  BY NotLeader
<1>4. PICK d : d = [f \in Files |-> Missing]
  OBVIOUS
<1>5. /\ b \in alive /\ alive' = alive \ {b}
      /\ todo' = [todo EXCEPT ![b] = <<>>] /\ down' = [down EXCEPT ![b] = <<>>]
      /\ up' = up \/ up' = [up EXCEPT ![b] = <<>>]
      /\ disk' = [disk EXCEPT ![b] = d] /\ recs' = [recs EXCEPT ![b] = <<>>]
      /\ UNCHANGED <<client, linked, killed>>
  BY <1>4 DEF Crash
<1>6. PerServer(todo) /\ PerServer(down) /\ PerServer(disk) /\ PerServer(recs) /\ PerServer(up)
  BY <1>1 DEF Arrays
<1>7. PerServer(todo') /\ todo'[b] = <<>> /\ \A c \in Servers : c # b => todo'[c] = todo[c]
  BY <1>3, <1>5, <1>6 DEF PerServer
<1>8. PerServer(down') /\ \A c \in Servers : c # b => down'[c] = down[c]
  BY <1>3, <1>5, <1>6 DEF PerServer
<1>9. PerServer(disk') /\ disk'[b] = d /\ \A c \in Servers : c # b => disk'[c] = disk[c]
  BY <1>3, <1>5, <1>6 DEF PerServer
<1>10. PerServer(recs') /\ recs'[b] = <<>> /\ \A c \in Servers : c # b => recs'[c] = recs[c]
  BY <1>3, <1>5, <1>6 DEF PerServer
<1>11. PerServer(up') /\ (up'[b] = up[b] \/ up'[b] = <<>>) /\ \A c \in Servers : c # b => up'[c] = up[c]
  <2>1. CASE up' = up
    BY <1>6, <2>1
  <2>2. CASE up' = [up EXCEPT ![b] = <<>>]
    BY <1>3, <1>6, <2>2 DEF PerServer
  <2> QED BY <1>5, <2>1, <2>2
<1>12. disk'[b] \in [Files -> KnownCopies]
  BY <1>4, <1>9, MissingIs
<1>13. Crashed(b, k, B, T)'
  <2>1. Runs(b, k, B, T) /\ IsSeq(T)
    BY <1>2, <1>5 DEF Agrees, Backed, Leads, Kept, Lead, Typed
  <2>2. PICK Y : Y = Ahead(k, B, T, b)
    OBVIOUS
  <2>3. IsSeq(Y)
    BY <2>1, <2>2, AheadIs
  <2>4. Echoes(<<>>, Y)
    BY <2>3, EchoesAre
  <2>5. Echoes(up[b], Y)
    <3>1. CASE Stalled(b, k, B)
      BY <2>4, <3>1 DEF Stalled
    <3>2. CASE Follows(At(b), up[b], down[b], Lead(Y), sent)
      <4>1. PICK l : l = Lead(Y)
        OBVIOUS
      <4>2. l.todo = Y
        BY <4>1 DEF Lead
      <4> QED BY <3>2, <4>1, <4>2, FollowsEchoes
    <3> QED BY <2>1, <2>2, <3>1, <3>2 DEF Runs
  <2>6. Echoes(up'[b], Y)
    BY <1>11, <2>4, <2>5
  <2> QED BY <1>7, <1>10, <2>2, <2>6 DEF Crashed, Ahead
<1>14. \A c \in Servers : c # b => /\ todo'[c] = todo[c] /\ down'[c] = down[c] /\ up'[c] = up[c]
                                  /\ disk'[c] = disk[c] /\ recs'[c] = recs[c]
  BY <1>7, <1>8, <1>9, <1>10, <1>11
<1>15. /\ PerServer(todo') /\ PerServer(down') /\ PerServer(up') /\ PerServer(disk') /\ PerServer(recs')
       /\ UNCHANGED <<client, linked, killed>> /\ alive' = alive \ {b}
  BY <1>5, <1>7, <1>8, <1>9, <1>10, <1>11
<1> QED BY <1>1, <1>2, <1>12, <1>13, <1>14, <1>15, BackupStep

(* The leader is killed: what it has not heard is lost with it.            *)
LEMMA KilledInv ==
    ASSUME Inv, LeaderKilled
    PROVE  Inv'
<1>1. Shape /\ Arrays
  BY DEF Inv, Shape
<1>2. PICK E, k, B, T : Agrees(E, k, B, T)
  BY DEF Inv
<1>3. killed' = TRUE /\ UNCHANGED <<client, todo, down, up, disk, recs, alive, linked>>
  BY DEF LeaderKilled
<1>4. UNCHANGED <<plan, sent>>
  BY <1>3 DEF client
<1>5. Shape' /\ World' = World
  <2>1. Arrays'
    BY <1>1, <1>3 DEF Arrays
  <2>2. alive' \subseteq linked' /\ linked' \subseteq linked /\ killed' \in BOOLEAN
    BY <1>1, <1>3 DEF Shape
  <2> QED BY <1>1, <1>3, <2>1, <2>2, ShapeKept
<1>6. (\A Y : Lead(Y)' = Lead(Y)) /\ \A b : At(b)' = At(b)
  BY <1>3 DEF Lead, At
<1>7. Leads(k, B, T)'
  BY <1>2, <1>3, <1>4, <1>6 DEF Agrees, Leads
<1>8. Talks(E, T)'
  BY <1>2, <1>3, <1>4, <1>5 DEF Agrees, Talks
<1>9. ASSUME NEW b \in BackupSet
      PROVE  Runs(b, k, B, T)' = Runs(b, k, B, T) /\ Crashed(b, k, B, T)' = Crashed(b, k, B, T)
  <2>1. Prompt(b, B, T)' = Prompt(b, B, T)
    BY <1>3 DEF Prompt
  <2>2. Stalled(b, k, B)' = Stalled(b, k, B)
    BY <1>3, <1>4, <1>6 DEF Stalled
  <2>3. Lead(Ahead(k, B, T, b))' = Lead(Ahead(k, B, T, b)) /\ At(b)' = At(b)
    BY <1>6 DEF Ahead
  <2>4. Runs(b, k, B, T)' = Runs(b, k, B, T)
    BY <1>3, <1>4, <2>1, <2>2, <2>3 DEF Runs
  <2>5. Crashed(b, k, B, T)' = Crashed(b, k, B, T)
    BY <1>3 DEF Crashed, Ahead
  <2> QED BY <2>4, <2>5
<1>10. Backed(k, B, T)'
  BY <1>2, <1>3, <1>9 DEF Agrees, Backed
<1> QED BY <1>5, <1>7, <1>8, <1>10 DEF Inv, Agrees

(* A server that does not write reads.                                     *)
LEMMA ServerHearing ==
    ASSUME NEW s, Server(s)
    PROVE  ServerTells(s) \/ (Running(s) /\ down[s] # <<>> /\ Hearing(todo[s]).do = "hear")
<1>1. ASSUME NEW kinds, NEW k, NEW steps, ServerHears(s, kinds, k, steps)
      PROVE  Running(s) /\ down[s] # <<>> /\ Hearing(todo[s]).do = "hear"
  BY <1>1, HearingIs DEF ServerHears, Reads
<1>2. CASE HearCommand(s)
  BY <1>1, <1>2 DEF HearCommand
<1>3. CASE HearAck(s)
  BY <1>1, <1>3 DEF HearAck
<1>4. CASE ReceiveName(s) \/ SendName(s) \/ DeleteName(s) \/ LockName(s)
  BY <1>1, <1>4 DEF ReceiveName, SendName, DeleteName, LockName, HearsName
<1>5. CASE ReceiveSize(s) \/ ReceivePart(s) \/ ReceiveTime(s)
  BY <1>1, <1>5 DEF ReceiveSize, ReceivePart, ReceiveTime
<1>6. CASE HearFileNameAck(s)
  BY <1>6, HearingIs DEF HearFileNameAck
<1> QED BY <1>2, <1>3, <1>4, <1>5, <1>6 DEF Server

(* The name of a file is one.                                              *)
LEMMA NamesAreFiles ==
    ASSUME ProtocolAssumption, Inv, NEW s \in Servers, Running(s), down[s] # <<>>, Hearing(todo[s]).do = "hear",
           Hearing(todo[s]).kind = "name"
    PROVE  Head(down[s]).arg \in Files
<1>1. PICK E, k, B, T : Agrees(E, k, B, T)
  BY DEF Inv
<1>2. Shape
  BY DEF Inv
<1>3. CASE s = Leader
  <2>1. PICK m : m = Head(down[Leader])
    OBVIOUS
  <2>2. ~killed
    BY <1>3 DEF Running
  <2>3. todo[Leader] = T /\ \E U : Turns(World, recs[Leader], m, T, U)
    BY <1>1, <1>2, <1>3, <2>1, <2>2, LeaderTurns
  <2>4. Hearing(T).kind = "name" => m.arg \in Files
    BY <2>3 DEF Turns, Moves
  <2> QED BY <1>3, <2>1, <2>3, <2>4
<1>4. CASE s # Leader
  <2>1. s \in BackupSet /\ s \in alive
    BY <1>4, NotLeader DEF Running
  <2>2. Runs(s, k, B, T)
    BY <1>1, <2>1 DEF Agrees, Backed
  <2>3. Heeds(Hearing(todo[s]), Head(down[s]))
    BY <2>2, RunsIs
  <2> QED BY <2>3 DEF Heeds
<1> QED BY <1>3, <1>4

(* Every step of a server.                                                 *)
LEMMA ServerInv ==
    ASSUME ProtocolAssumption, Inv, NEW s \in Servers, Server(s)
    PROVE  Inv'
<1>1. ServerTells(s) \/ HearsNext(s) \/ HearFileNameAck(s)
  <2>1. Arrays
    BY DEF Inv, Shape
  <2>2. ServerTells(s) \/ (Running(s) /\ down[s] # <<>> /\ Hearing(todo[s]).do = "hear")
    BY ServerHearing
  <2>3. CASE ServerTells(s)
    BY <2>3
  <2>4. CASE Running(s) /\ down[s] # <<>> /\ Hearing(todo[s]).do = "hear"
    <3>1. Hearing(todo[s]).kind = "name" => Head(down[s]).arg \in Files
      BY <2>4, NamesAreFiles
    <3> QED BY <2>1, <3>1, ServerNext
  <2> QED BY <2>2, <2>3, <2>4
<1>2. CASE s = Leader
  BY <1>1, <1>2, LeaderTellsInv, LeaderHearsInv, LeaderNamesInv
<1>3. CASE s # Leader
  <2>1. s \in BackupSet
    BY <1>3, NotLeader
  <2> QED BY <1>1, <1>3, <2>1, BackupTellsInv, BackupHearsInv, BackupNames
<1> QED BY <1>2, <1>3

(* A step that changes nothing.                                            *)
LEMMA StutterInv ==
    ASSUME ProtocolAssumption, Inv, UNCHANGED vars
    PROVE  Inv'
<1>1. Shape
  BY DEF Inv
<1>2. PICK E, k, B, T : Agrees(E, k, B, T)
  BY DEF Inv
<1>3. UNCHANGED <<plan, todo, down, up, disk, recs, local, fetched, seen, sent, alive, linked, killed>>
  BY DEF vars
<1>4. UNCHANGED <<todo, disk, recs, links>>
  BY <1>3 DEF links
<1>5. (\E x : down' = [down EXCEPT ![Leader] = x]) /\ \E x : up' = [up EXCEPT ![Leader] = x]
  BY <1>1, <1>3, LeaderKept DEF Shape, Arrays
<1>6. /\ sent' \in Directories /\ local' \in Directories /\ fetched' \in KnownCopies /\ seen' \subseteq Files
      /\ Typed(plan', StepKinds)
  BY <1>1, <1>3, OurWorld DEF Shape, Known
<1>7. Talk(World, E, plan, up[Leader], T) /\ Messages(E) /\ (~killed => E = down[Leader])
  BY <1>2 DEF Agrees, Talks
<1>8. Talk(WorldOf(disk[Leader], sent', fetched'), E, plan', up'[Leader], T) /\ (~killed => E = down'[Leader])
  BY <1>3, <1>7, OurWorld
<1>9. \A f \in Files : sent'[f] = sent[f]
  BY <1>3
<1> QED BY <1>1, <1>2, <1>4, <1>5, <1>6, <1>7, <1>8, <1>9, ClientStep

(* Every step of the session keeps the invariant.                          *)
THEOREM NextInv ==
    ASSUME ProtocolAssumption, Inv, [Next]_vars
    PROVE  Inv'
<1>1. CASE Client
  BY <1>1, ClientInv
<1>2. CASE Sync \/ List \/ Exit
  BY <1>2, CommandsInv
<1>3. ASSUME NEW f \in Files, Download(f) \/ Delete(f) \/ Lock(f) \/ Unlock(f)
      PROVE  Inv'
  BY <1>3, CommandsInv
<1>4. ASSUME NEW f \in Files, Edit(f) PROVE Inv'
  BY <1>4, EditInv
<1>5. ASSUME NEW f \in Files, NEW c \in Versions[f], Upload(f, c) PROVE Inv'
  BY <1>5, UploadInv
<1>6. ASSUME NEW s \in Servers, Server(s) PROVE Inv'
  BY <1>6, ServerInv
<1>7. ASSUME NEW b \in BackupSet, Collect(b) PROVE Inv'
  BY <1>7, CollectInv
<1>8. ASSUME NEW b \in BackupSet, Crash(b) PROVE Inv'
  BY <1>8, CrashInv
<1>9. CASE LeaderKilled
  BY <1>9, KilledInv
<1>10. CASE UNCHANGED vars
  BY <1>10, StutterInv
<1> QED BY <1>1, <1>2, <1>3, <1>4, <1>5, <1>6, <1>7, <1>8, <1>9, <1>10 DEF Next

(* In every state of every session the client, the leader and the servers  *)
(* are in the middle of one exchange.                                      *)
THEOREM Invariance == Safety => []Inv
<1>1. Init => Inv
  BY InitInv, ProtocolAssumption
<1>2. Inv /\ [Next]_vars => Inv'
  BY NextInv, ProtocolAssumption
<1> QED BY <1>1, <1>2, PTL DEF Safety

(* The steps and the records of every server.                              *)
LEMMA Everyone ==
    ASSUME Inv, NEW s \in Servers
    PROVE  Typed(todo[s], StepKinds) /\ Sane(recs[s])
<1>1. PICK E, k, B, T : Agrees(E, k, B, T)
  BY DEF Inv
<1>2. \A t : Typed(t, TodoKinds) => Typed(t, StepKinds)
  BY DEF Typed, IsStep, TodoKinds, StepKinds
<1>3. CASE s = Leader
  <2>1. Kept(Lead(T), sent) /\ Roster(B) /\ todo[Leader] = Cat(Asks(k, B), T)
    BY <1>1 DEF Agrees, Leads
  <2>2. Typed(T, StepKinds) /\ Sane(recs[Leader])
    BY <1>2, <2>1 DEF Kept, Lead
  <2>3. Typed(Asks(k, B), StepKinds)
    <3>1. /\ IsSeq(Asks(k, B)) /\ Len(Asks(k, B)) = Len(B)
          /\ \A i \in 1 .. Len(B) : Asks(k, B)[i] = Step("collect", k, B[i])
      BY <2>1, AsksAre DEF Roster
    <3>2. DOMAIN Asks(k, B) = 1 .. Len(B)
      BY <3>1, SeqFacts
    <3>3. \A y : IsStep(Step("collect", k, y), StepKinds)
      BY DEF IsStep, Step, StepKinds
    <3> QED BY <3>1, <3>2, <3>3 DEF Typed
  <2> QED BY <1>3, <2>1, <2>2, <2>3, TypedCat
<1>4. CASE s # Leader /\ s \in alive
  <2>1. s \in BackupSet
    BY <1>4 DEF Servers
  <2>2. Runs(s, k, B, T)
    BY <1>1, <1>4, <2>1 DEF Agrees, Backed
  <2>3. Kept(At(s), sent) /\ At(s).todo = todo[s] /\ At(s).recs = recs[s]
    BY <2>2, RunsIs
  <2> QED BY <1>2, <2>3 DEF Kept
<1>5. CASE s # Leader /\ s \notin alive
  <2>1. s \in BackupSet
    BY <1>5 DEF Servers
  <2>2. todo[s] = <<>> /\ recs[s] = <<>>
    BY <1>1, <1>5, <2>1 DEF Agrees, Backed, Crashed
  <2>3. Typed(<<>>, StepKinds)
    BY TypedThen
  <2>4. IsSeq(<<>>) /\ DOMAIN <<>> = {}
    BY EmptyIsSeq
  <2>5. Sane(<<>>)
    BY <2>4 DEF Sane
  <2> QED BY <2>2, <2>3, <2>5
<1> QED BY <1>3, <1>4, <1>5

(* So the variables have their types,                                      *)
LEMMA TypesHold ==
    ASSUME ProtocolAssumption, Inv
    PROVE  TypeOK
<1>1. Shape /\ sent \in Directories /\ local \in Directories
  BY OurWorld DEF Inv, Shape, Known
<1>2. \A j \in DOMAIN plan : plan[j].do \in StepKinds
  BY <1>1 DEF Shape, Typed, IsStep
<1>3. \A s \in Servers : \A j \in DOMAIN todo[s] : todo[s][j].do \in StepKinds
  BY Everyone DEF Typed, IsStep
<1>4. disk \in [Servers -> [Files -> KnownCopies]]
  BY <1>1 DEF Shape, Arrays
<1>5. ASSUME NEW s \in Servers
      PROVE  (\A j \in DOMAIN recs[s] : recs[s][j] \in Files) /\ Len(recs[s]) <= Cardinality(Files)
  <2>1. Sane(recs[s])
    BY Everyone
  <2> QED BY <2>1, SaneFits DEF Sane
<1>6. alive \subseteq BackupSet /\ linked \subseteq BackupSet /\ killed \in BOOLEAN
      /\ fetched \in KnownCopies /\ seen \subseteq Files
  BY <1>1 DEF Shape
<1> QED BY <1>1, <1>2, <1>3, <1>4, <1>5, <1>6 DEF TypeOK

(* A message that is taken is the one that is waited for.                  *)
LEMMA FitsTaken ==
    ASSUME NEW h, NEW q, q # <<>> => Takes(h, Head(q)) \/ (h.kind = "FILENAME_ACK" /\ Head(q).kind = "FILENAME_ACK")
    PROVE  Fits(h, q)
BY DEF Fits, Takes

(* nobody reads a message it does not wait for,                            *)
LEMMA InStepHolds ==
    ASSUME ProtocolAssumption, Inv
    PROVE  InStep
<1>1. Shape /\ Known(World, recs[Leader], local) /\ alive \subseteq linked /\ linked \subseteq BackupSet
  BY DEF Inv, Shape
<1>2. PICK E, k, B, T : Agrees(E, k, B, T)
  BY DEF Inv
<1>3. Leads(k, B, T) /\ Backed(k, B, T)
  BY <1>2 DEF Agrees
<1>4. ASSUME plan # <<>> PROVE Fits(Head(plan), up[Leader])
  <2>1. ASSUME Head(plan).do = "hear", up[Leader] # <<>> PROVE Head(up[Leader]).kind = Head(plan).kind
    <3>1. Talk(World, E, plan, up[Leader], T)
      BY <1>2 DEF Agrees, Talks
    <3> QED BY <1>1, <1>4, <2>1, <3>1, TalkHears
  <2> QED BY <2>1 DEF Fits
<1>5. ASSUME NEW s \in Servers, Running(s) PROVE Fits(Awaits(s), down[s])
  <2>1. ASSUME Hearing(todo[s]).do = "hear", down[s] # <<>>
        PROVE  \/ Takes(Hearing(todo[s]), Head(down[s]))
               \/ Hearing(todo[s]).kind = "FILENAME_ACK" /\ Head(down[s]).kind = "FILENAME_ACK"
    <3>1. CASE s = Leader
      <4>1. PICK m : m = Head(down[Leader])
        OBVIOUS
      <4>2. ~killed
        BY <1>5, <3>1 DEF Running
      <4>3. todo[Leader] = T /\ \E U : Turns(World, recs[Leader], m, T, U)
        BY <1>1, <1>2, <2>1, <3>1, <4>1, <4>2, LeaderTurns
      <4> QED BY <3>1, <4>1, <4>3 DEF Turns
    <3>2. CASE s # Leader
      <4>1. s \in BackupSet /\ s \in alive
        BY <1>5, <3>2 DEF Running, Servers
      <4>2. Runs(s, k, B, T)
        BY <1>3, <4>1 DEF Backed
      <4> QED BY <2>1, <4>2, RunsIs DEF Heeds
    <3> QED BY <3>1, <3>2
  <2>2. CASE Hearing(todo[s]).do = "hear"
    BY <2>1, <2>2, HearingIs, FitsTaken
  <2>3. CASE Hearing(todo[s]).do # "hear"
    BY <2>3, HearingIs DEF Fits
  <2> QED BY <2>2, <2>3
<1>6. ASSUME NEW b \in BackupSet, Awaits(Leader).do = "collect", Awaits(Leader).arg = b,
             Awaits(Leader).kind # "any", up[b] # <<>>
      PROVE  Head(up[b]).kind = Awaits(Leader).kind
  <2>1. todo[Leader] # <<>> /\ Awaits(Leader) = Head(todo[Leader])
    BY <1>6, StepFacts DEF Awaits
  <2>2. Head(todo[Leader]) = Step("collect", k, Head(B)) /\ Head(B) \in Elems(B)
    BY <1>3, <1>6, <2>1, CollectsFirst
  <2>3. Awaits(Leader).kind = k /\ b \in Elems(B)
    BY <1>6, <2>1, <2>2 DEF Step
  <2>4. PICK Y, l : Y = Then(Say(k), T) /\ l = Lead(Y) /\ Y = Ahead(k, B, T, b)
    BY <2>3 DEF Ahead
  <2>5. IsSeq(T) /\ l.todo = Then(Tell(k, None), T)
    BY <1>3, <2>4 DEF Leads, Kept, Lead, Typed, Say
  <2>6. CASE b \in alive
    <3>1. Follows(At(b), up[b], down[b], l, sent)
      BY <1>3, <1>6, <2>4, <2>6 DEF Backed, Runs, Stalled
    <3>2. PICK v : v = [todo |-> T, disk |-> l.disk, recs |-> l.recs]
      OBVIOUS
    <3> QED BY <1>6, <2>3, <2>5, <3>1, <3>2, FollowsCollected
  <2>7. CASE b \notin alive
    <3>1. b \in linked
      BY <1>3, <2>3 DEF Leads
    <3>2. Echoes(up[b], Then(Tell(k, None), T))
      BY <1>3, <2>4, <2>5, <2>7, <3>1 DEF Backed, Crashed, Say
    <3>3. IsSeq(up[b]) /\ \A i \in 1 .. Len(up[b]) : Then(Tell(k, None), T)[i].kind = up[b][i].kind
      BY <3>2 DEF Echoes
    <3>4. 1 \in 1 .. Len(up[b]) /\ Head(up[b]) = up[b][1]
      <4>1. Len(up[b]) \in Nat /\ Len(up[b]) # 0
        BY <1>6, <3>3, SeqFacts
      <4> QED BY <1>6, <3>3, <4>1, HeadTail
    <3>5. Then(Tell(k, None), T)[1] = Tell(k, None)
      BY <2>5, ThenIs
    <3> QED BY <2>3, <3>3, <3>4, <3>5, StepFacts
  <2> QED BY <2>6, <2>7
<1> QED BY <1>4, <1>5, <1>6 DEF InStep

(* uploads are kept,                                                       *)
LEMMA AcknowledgedHolds ==
    ASSUME ProtocolAssumption, Inv
    PROVE  Acknowledged
<1>1. PICK E, k, B, T : Agrees(E, k, B, T)
  BY DEF Inv
<1>2. alive \subseteq BackupSet
  BY DEF Inv, Shape
<1>3. ASSUME NEW f \in Files, sent[f] # Missing PROVE disk[Leader][f] = sent[f]
  BY <1>1, <1>3 DEF Agrees, Leads, Kept, Lead
<1>4. ASSUME NEW f \in Files, sent[f] # Missing, NEW s \in alive PROVE disk[s][f] = sent[f]
  <2>1. Runs(s, k, B, T)
    BY <1>1, <1>2, <1>4 DEF Agrees, Backed
  <2>2. Kept(At(s), sent) /\ At(s).disk = disk[s]
    BY <2>1, RunsIs
  <2> QED BY <1>4, <2>2 DEF Kept
<1> QED BY <1>3, <1>4 DEF Acknowledged

(* the servers agree between two commands,                                 *)
LEMMA ReplicatedHolds ==
    ASSUME ProtocolAssumption, Inv
    PROVE  Replicated
<1>1. PICK E, k, B, T : Agrees(E, k, B, T)
  BY DEF Inv
<1>2. alive \subseteq BackupSet
  BY DEF Inv, Shape
<1>3. ASSUME todo[Leader] = <<>>, NEW b \in alive, down[b] = <<>>
      PROVE  /\ todo[b] = <<>> /\ up[b] = <<>> /\ disk[b] = disk[Leader]
             /\ Elems(recs[b]) = Elems(recs[Leader])
  <2>1. Runs(b, k, B, T) /\ Leads(k, B, T)
    BY <1>1, <1>2, <1>3 DEF Agrees, Backed
  <2>2. T = <<>> /\ Ahead(k, B, T, b) = T /\ ~Stalled(b, k, B)
    BY <1>3, <2>1, CollectsNone
  <2>3. PICK s, l : s = At(b) /\ l = Lead(T)
    OBVIOUS
  <2>4. /\ l.todo = <<>> /\ l.disk = disk[Leader] /\ l.recs = recs[Leader]
        /\ s.todo = todo[b] /\ s.disk = disk[b] /\ s.recs = recs[b]
    BY <2>2, <2>3 DEF At, Lead
  <2>5. Follows(s, up[b], down[b], l, sent)
    BY <2>1, <2>2, <2>3 DEF Runs
  <2>6. up[b] = <<>> /\ \E h : Past(h, s, down[b], sent) /\ Alike(h[Len(down[b])], l)
    BY <2>4, <2>5, FollowsIdle
  <2>7. Alike(s, l)
    BY <1>3, <2>6, EmptyIsSeq DEF Past
  <2>8. todo[b] = <<>>
    BY <2>4, <2>7, SameEmpty DEF Alike
  <2> QED BY <2>4, <2>6, <2>7, <2>8 DEF Alike
<1> QED BY <1>3 DEF Replicated, Elems

(* and downloads are whole.                                                *)
LEMMA DownloadsHold ==
    ASSUME ProtocolAssumption, Inv
    PROVE  DownloadsWhole
<1>1. PICK E, k, B, T : Agrees(E, k, B, T)
  BY DEF Inv
<1>2. Known(World, recs[Leader], local)
  BY DEF Inv, Shape
<1>3. ASSUME plan # <<>>, Head(plan) = Hear("COMPLETE", Context)
      PROVE  fetched = disk[Leader][Context[1]] /\ fetched # Missing
  <2>1. Head(plan).do = "hear" /\ Head(plan).kind = "COMPLETE" /\ Head(plan).arg = Context
    BY <1>3, StepFacts
  <2>2. Talk(World, E, plan, up[Leader], T)
    BY <1>1 DEF Agrees, Talks
  <2>3. Well(World, Head(plan))
    BY <1>2, <1>3, <2>1, <2>2, TalkWell
  <2> QED BY <2>1, <2>3, OurWorld DEF Well
<1> QED BY <1>3 DEF DownloadsWhole

(* The variables keep their types, whatever is uploaded, fetched, deleted  *)
(* or synchronised and whichever servers crash.                            *)
THEOREM TypeCorrect == Safety => []TypeOK
<1>1. Inv => TypeOK
  BY TypesHold, ProtocolAssumption
<1> QED BY <1>1, Invariance, PTL

(* No one ever reads a message other than the one it waits for: not the    *)
(* client, not the leader, not a server that hears the client through the  *)
(* leader, nor the leader when it collects the answers of the servers.     *)
THEOREM AlwaysInStep == Safety => []InStep
<1>1. Inv => InStep
  BY InStepHolds, ProtocolAssumption
<1> QED BY <1>1, Invariance, PTL

(* An upload that send_file of the client has returned from is whole on    *)
(* the leader and on every other server that runs.                         *)
THEOREM UploadsKept == Safety => []Acknowledged
<1>1. Inv => Acknowledged
  BY AcknowledgedHolds, ProtocolAssumption
<1> QED BY <1>1, Invariance, PTL

(* Between two commands, a server that has read all it was told has the    *)
(* files and the records of the leader, and nothing left to answer.        *)
THEOREM ServersAgree == Safety => []Replicated
<1>1. Inv => Replicated
  BY ReplicatedHolds, ProtocolAssumption
<1> QED BY <1>1, Invariance, PTL

(* get_file of the client has the leader's file when it is told that it is *)
(* complete.                                                               *)
THEOREM DownloadsComplete == Safety => []DownloadsWhole
<1>1. Inv => DownloadsWhole
  BY DownloadsHold, ProtocolAssumption
<1> QED BY <1>1, Invariance, PTL
===============================================================================
