--------------------------- MODULE ProtocolExchange ---------------------------
(***************************************************************************)
(* The exchange of the client and the leader in Protocol: Talk(w, E, P, A, *)
(* T) says that a client with plan P, a leader with the steps T still to   *)
(* do, the messages E on the way to the leader and A on the way back are   *)
(* in the middle of one exchange, in the world w.  The lemmas say that it  *)
(* begins so, that each step of either keeps it, and that the one who      *)
(* reads then finds the message it waits for.                              *)
(***************************************************************************)
EXTENDS ProtocolScripts

(* What the exchange is about: the leader's copies, what was uploaded, and *)
(* what was fetched.                                                       *)
World == [disk |-> disk[Leader], sent |-> sent, fetched |-> fetched]
AllWhole(w) == \A g \in Files : w.disk[g] \in Copies(g)

(* The beginning of a command, or what is between two of the sync thread.  *)
Starts(w, P) ==
    \/ P \in {<<>>, Rest, SyncStart, ListStart, EndStart}
    \/ \E f \in Files :
          \/ P = GetStart(<<f, "cwd">>, <<>>)
          \/ \E k \in {"LOCK", "UNLOCK"} : P = LockStart(k, f)
          \/ w.sent[f] = Missing /\ P = DeleteStart(f)
          \/ /\ w.sent[f] = Missing
             /\ \E c \in Copies(f) \ {Missing}, K \in {<<>>, Rest} : P = PutStart(f, c, K)

(* What comes after a file: a loop over records or entries, or nothing.    *)
OnDisk(w, r) == IsSeq(r) /\ \A k \in DOMAIN r : r[k] \in Files /\ w.disk[r[k]] # Missing
Loops(w, K, L) ==
    \/ L = <<>> /\ K \in {<<>>, Rest}
    \/ \E r : \E j \in 0 .. Len(r) :
          /\ OnDisk(w, r)
          /\ K = Cat(Run(ReadRecord, j, Len(r)), Rest)
          /\ L = Cat(Run(SentRecord(r), j, Len(r)), <<>>)
    \/ \E n \in Nat : \E j \in 0 .. n :
          /\ K = Cat(Run(ReadEntry, j, n), <<>>)
          /\ L = Cat(Run(SentEntry, j, n), <<>>)

After(w, K, L) == Loops(w, K, L) \/ (L = <<>> /\ Starts(w, K))

(* A command that begins is a sequence of steps.                           *)
LEMMA StartsAreSeqs == ASSUME NEW w, NEW P, Starts(w, P) PROVE IsSeq(P)
<1>1. IsSeq(<<>>) /\ IsSeq(Rest)
  BY LastSeqs
<1>2. CASE P \in {<<>>, Rest, SyncStart, ListStart, EndStart}
  BY <1>1, <1>2, OthersAre
<1>3. ASSUME NEW f \in Files, P = GetStart(<<f, "cwd">>, <<>>) PROVE IsSeq(P)
  <2> DEFINE x == <<f, "cwd">>
  <2>1. 0 \in Nat /\ Iterations(0) \in Nat /\ 0 <= Iterations(0) /\ P = GetStart(x, <<>>)
    BY <1>3, IterationsIs
  <2> HIDE DEF x
  <2> QED BY <1>1, <2>1, GetIs
<1>4. ASSUME NEW f \in Files, NEW k, P = LockStart(k, f) \/ P = DeleteStart(f) PROVE IsSeq(P)
  BY <1>4, OthersAre
<1>5. ASSUME NEW f \in Files, NEW c \in Copies(f) \ {Missing}, NEW K \in {<<>>, Rest}, P = PutStart(f, c, K)
      PROVE  IsSeq(P)
  <2>1. c.len \in Nat /\ 0 <= Iterations(c.len)
    BY CopiesAre, IterationsIs
  <2> QED BY <1>1, <1>5, <2>1, PutIs
<1> QED BY <1>2, <1>3, <1>4, <1>5 DEF Starts

(* A turn of a loop, or none.                                              *)
LEMMA LoopsAre ==
    ASSUME NEW w, NEW K, NEW L, Loops(w, K, L)
    PROVE  /\ IsSeq(K) /\ IsSeq(L)
           /\ \/ L = <<>> /\ K \in {<<>>, Rest}
              \/ \E g \in Files : \E K1, L1 :
                    /\ w.disk[g] # Missing /\ Loops(w, K1, L1) /\ IsSeq(K1) /\ IsSeq(L1)
                    /\ K = Then(Ack("record"), K1)
                    /\ L = Then(Tell("record", g), Then(Ack("GET_FILE_ACK"),
                                Then(Tell("mtime", g), Then(Ack("answer"), L1))))
              \/ \E K1, L1 :
                    /\ Loops(w, K1, L1) /\ IsSeq(K1) /\ IsSeq(L1)
                    /\ K = Then(Ack("entry"), Then(Say("FILENAME_ACK"), Then(Ack("info"), Then(Say("FILE_OK"), K1))))
                    /\ L = Then(Say("entry"), Then(Ack("FILENAME_ACK"), Then(Say("info"), Then(Ack("FILE_OK"), L1))))
<1>1. IsSeq(<<>>) /\ IsSeq(Rest)
  BY LastSeqs
<1>2. CASE L = <<>> /\ K \in {<<>>, Rest}
  BY <1>1, <1>2
<1>3. ASSUME NEW r, NEW j \in 0 .. Len(r), OnDisk(w, r),
             K = Cat(Run(ReadRecord, j, Len(r)), Rest),
             L = Cat(Run(SentRecord(r), j, Len(r)), <<>>)
      PROVE  /\ IsSeq(K) /\ IsSeq(L)
             /\ \/ L = <<>> /\ K \in {<<>>, Rest}
                \/ \E g \in Files : \E K1, L1 :
                    /\ w.disk[g] # Missing /\ Loops(w, K1, L1) /\ IsSeq(K1) /\ IsSeq(L1)
                    /\ K = Then(Ack("record"), K1)
                    /\ L = Then(Tell("record", g), Then(Ack("GET_FILE_ACK"),
                                Then(Tell("mtime", g), Then(Ack("answer"), L1))))
  <2>1. Len(r) \in Nat /\ DOMAIN r = 1 .. Len(r) /\ j \in Nat /\ j <= Len(r)
    BY <1>3, SeqFacts DEF OnDisk
  <2>2. IsSeq(K) /\ IsSeq(L)
    BY <1>1, <1>3, <2>1, RecordsRead, RecordsSent
  <2>3. CASE j = Len(r)
    <3>1. K = Rest /\ L = <<>>
      BY <1>1, <1>3, <2>1, <2>3, RecordsRead, RecordsSent
    <3> QED BY <2>2, <3>1
  <2>4. CASE j < Len(r)
    <3> DEFINE g == r[j + 1]
               K1 == Cat(Run(ReadRecord, j + 1, Len(r)), Rest)
               L1 == Cat(Run(SentRecord(r), j + 1, Len(r)), <<>>)
    <3>1. j + 1 \in 1 .. Len(r) /\ j + 1 \in Nat /\ j + 1 <= Len(r) /\ j + 1 \in 0 .. Len(r)
      BY <2>1, <2>4
    <3>2. g \in Files /\ w.disk[g] # Missing
      BY <1>3, <2>1, <3>1 DEF OnDisk
    <3>3. IsSeq(K1) /\ K = Then(Ack("record"), K1)
      BY <1>1, <1>3, <2>1, <2>4, <3>1, RecordsRead
    <3>4. /\ IsSeq(L1)
          /\ L = Then(Tell("record", g), Then(Ack("GET_FILE_ACK"), Then(Tell("mtime", g), Then(Ack("answer"), L1))))
      BY <1>1, <1>3, <2>1, <2>4, <3>1, RecordsSent
    <3>5. Loops(w, K1, L1)
      BY <1>3, <3>1 DEF Loops
    <3> HIDE DEF g, K1, L1
    <3> QED BY <2>2, <3>2, <3>3, <3>4, <3>5
  <2>5. j = Len(r) \/ j < Len(r)
    <3> DEFINE m == Len(r)
    <3>1. m \in Nat /\ j \in Nat /\ j <= m
      BY <2>1
    <3> HIDE DEF m
    <3>2. j = m \/ j < m
      BY <3>1
    <3> QED BY <3>2 DEF m
  <2> QED BY <2>3, <2>4, <2>5
<1>4. ASSUME NEW n \in Nat, NEW j \in 0 .. n,
             K = Cat(Run(ReadEntry, j, n), <<>>),
             L = Cat(Run(SentEntry, j, n), <<>>)
      PROVE  /\ IsSeq(K) /\ IsSeq(L)
             /\ \/ L = <<>> /\ K \in {<<>>, Rest}
                \/ \E K1, L1 :
                    /\ Loops(w, K1, L1) /\ IsSeq(K1) /\ IsSeq(L1)
                    /\ K = Then(Ack("entry"), Then(Say("FILENAME_ACK"), Then(Ack("info"), Then(Say("FILE_OK"), K1))))
                    /\ L = Then(Say("entry"), Then(Ack("FILENAME_ACK"), Then(Say("info"), Then(Ack("FILE_OK"), L1))))
  <2>1. j \in Nat /\ j <= n
    OBVIOUS
  <2>2. IsSeq(K) /\ IsSeq(L)
    BY <1>1, <1>4, <2>1, EntriesRead, EntriesSent
  <2>3. CASE j = n
    <3>1. K = <<>> /\ L = <<>>
      BY <1>1, <1>4, <2>1, <2>3, EntriesRead, EntriesSent
    <3> QED BY <2>2, <3>1
  <2>4. CASE j < n
    <3> DEFINE K1 == Cat(Run(ReadEntry, j + 1, n), <<>>)
               L1 == Cat(Run(SentEntry, j + 1, n), <<>>)
    <3>1. j + 1 \in Nat /\ j + 1 <= n /\ j + 1 \in 0 .. n
      BY <2>1, <2>4
    <3>2. /\ IsSeq(K1)
          /\ K = Then(Ack("entry"), Then(Say("FILENAME_ACK"), Then(Ack("info"), Then(Say("FILE_OK"), K1))))
      BY <1>1, <1>4, <2>1, <2>4, <3>1, EntriesRead
    <3>3. /\ IsSeq(L1)
          /\ L = Then(Say("entry"), Then(Ack("FILENAME_ACK"), Then(Say("info"), Then(Ack("FILE_OK"), L1))))
      BY <1>1, <1>4, <2>1, <2>4, <3>1, EntriesSent
    <3>4. Loops(w, K1, L1)
      BY <3>1 DEF Loops
    <3> HIDE DEF K1, L1
    <3> QED BY <2>2, <3>2, <3>3, <3>4
  <2> QED BY <2>1, <2>3, <2>4
<1> QED BY <1>2, <1>3, <1>4 DEF Loops

(* Neither depends on more than which files the leader has, and which may  *)
(* be lost or overwritten.                                                 *)
LEMMA LoopsKept ==
    ASSUME NEW w, NEW v, \A g \in Files : w.disk[g] # Missing => v.disk[g] # Missing,
           NEW K, NEW L, Loops(w, K, L)
    PROVE  Loops(v, K, L)
<1>1. \A r : OnDisk(w, r) => OnDisk(v, r)
  BY DEF OnDisk
<1> QED BY <1>1 DEF Loops

(* Nor what comes after a file at all.                                     *)
LEMMA AfterKept ==
    ASSUME NEW w, NEW v, \A g \in Files : w.disk[g] # Missing => v.disk[g] # Missing,
           \A g \in Files : w.sent[g] = Missing => v.sent[g] = Missing,
           NEW K, NEW L, After(w, K, L)
    PROVE  After(v, K, L)
<1>1. Starts(w, K) => Starts(v, K)
  BY DEF Starts
<1> QED BY <1>1, LoopsKept DEF After

(* What comes after a file is a sequence on either side.                   *)
LEMMA AfterIs == ASSUME NEW w, NEW K, NEW L, After(w, K, L) PROVE IsSeq(K) /\ IsSeq(L)
BY LoopsAre, StartsAreSeqs, LastSeqs DEF After

(* What a server hears that has t still to do, what it then does, and      *)
(* what becomes of its files and records.                                  *)
Hearing(t) == IF t = <<>> THEN Ack("command") ELSE Head(t)
Left(t) == IF t = <<>> THEN <<>> ELSE Tail(t)
Acks == {"user", "SIZE_ACK", "PART_RECEIVED", "COMPLETE", "COMPLETE_ACK",
         "NUMBER_ACK", "GET_FILE_ACK", "FILE_OK"}
Purposes == {"SEND_FILE", "GET_FILE", "DELETE", "LOCK", "UNLOCK"}
Takes(h, m) ==
    /\ h.do = "hear"
    /\ \/ h.kind = "command" /\ m.kind \in CommandKinds
       \/ h.kind = "answer" /\ m.kind \in AnswerKinds
       \/ h.kind \in Acks \cup {"size", "part", "mtime"} /\ m.kind = h.kind
       \/ h.kind = "name" /\ m.kind = "name" /\ h.arg \in Purposes
Named(k, d, f) ==
    IF k = "SEND_FILE" THEN <<Hear("size", f)>>
    ELSE IF k = "GET_FILE" THEN <<Say("EXISTS")>> \o SendFileBody(d[f])
    ELSE IF k = "DELETE" THEN <<>>
    ELSE <<Say("answer")>>
NextSteps(h, m, d, r) ==
    IF h.kind \in {"command", "answer"} THEN Handler(r, m.kind)
    ELSE IF h.kind = "size" THEN ReceiveFileBody(h.arg, m.arg)
    ELSE IF h.kind = "name" THEN Named(h.arg, d, m.arg)
    ELSE <<>>
NextDisk(h, m, d) ==
    IF h.kind = "name" /\ h.arg = "SEND_FILE" THEN [d EXCEPT ![m.arg] = Copy(None, 0)]
    ELSE IF h.kind = "name" /\ h.arg = "DELETE" THEN [d EXCEPT ![m.arg] = Missing]
    ELSE IF h.kind = "part" THEN [d EXCEPT ![h.arg[1]] = Copy(m.arg.of, d[h.arg[1]].len + h.arg[2])]
    ELSE d
NextRecs(h, m, d, r) ==
    IF h.kind = "mtime" THEN Assigned(r, h.arg)
    ELSE IF /\ h.kind = "name" /\ h.arg = "DELETE" /\ d[m.arg] # Missing
            /\ \E k \in DOMAIN r : r[k] = m.arg
         THEN Forgotten(r, m.arg)
    ELSE r
-----------------------------------------------------------------------------
(* Where a client and a leader may be that have P and T still to do, when  *)
(* nothing is under way.  First, what the client may be about to tell.     *)
Received(w, f, c, j) ==
    /\ f \in Files /\ c \in Copies(f) \ {Missing} /\ j \in 0 .. Iterations(c.len)
    /\ \A g \in Files \ {f} : w.disk[g] \in Copies(g)
    /\ w.disk[f] = Copy(c.of, Sofar(c.len, j)) /\ w.sent[f] = Missing
Places == {"cwd", "sync_dir"}
Fetched(w, x, c, j) ==
    /\ AllWhole(w)
    /\ x \in Files \X Places /\ c = w.disk[x[1]] /\ c # Missing /\ j \in 0 .. Iterations(c.len)
    /\ w.fetched = Copy(c.of, Sofar(c.len, j))
ToPut(w, f, c, K, L) ==
    /\ AllWhole(w) /\ Loops(w, K, L)
    /\ f \in Files /\ c \in Copies(f) \ {Missing} /\ w.sent[f] = Missing
ToGet(w, x, K, L) ==
    /\ AllWhole(w) /\ Loops(w, K, L)
    /\ x \in Files \X Places /\ (w.disk[x[1]] = Missing => L = <<>>)
ToSync(w, f, K, L) ==
    /\ AllWhole(w) /\ Loops(w, K, L)
    /\ f \in Files /\ w.disk[f] # Missing

TellsUser(w, P, T) ==
    /\ AllWhole(w)
    /\ P = LoginStart /\ T = Then(Ack("user"), Then(Say("LOGIN_OK"), <<>>))
TellsCommand(w, P, T) ==
    AllWhole(w) /\ Starts(w, P) /\ P \notin {<<>>, Rest} /\ T = <<>>
TellsName(w, P, T) == \E f, c, K, L :
    ToPut(w, f, c, K, L) /\ P = PutName(f, c, K) /\ T = Then(Hear("name", "SEND_FILE"), L)
TellsSize(w, P, T) == \E f, c, K, L :
    /\ Received(w, f, c, 0) /\ Loops(w, K, L)
    /\ P = PutSize(f, c, K) /\ T = Then(Hear("size", f), L)
TellsPart(w, P, T) == \E f, c, j, K, L :
    /\ Received(w, f, c, j) /\ Loops(w, K, L)
    /\ P = PutParts(f, c, j, K) /\ T = ReadParts(f, c.len, j, L)
TellsTime(w, P, T) == \E f, K, L :
    /\ AllWhole(w) /\ After(w, K, L) /\ f \in Files /\ w.disk[f] # Missing
    /\ P = PutTime(f, K) /\ T = ReadTime(f, L)
TellsGetName(w, P, T) == \E x, K, L :
    ToGet(w, x, K, L) /\ P = GetName(x, K) /\ T = Then(Hear("name", "GET_FILE"), L)
TellsSizeAck(w, P, T) == \E x, c, K, L :
    /\ Fetched(w, x, c, 0) /\ Loops(w, K, L)
    /\ P = Then(Say("SIZE_ACK"), GetParts(x, c.len, 0, K))
    /\ T = Then(Ack("SIZE_ACK"), GiveParts(c, 0, L))
TellsPartAck(w, P, T) == \E x, c, j, K, L :
    /\ Fetched(w, x, c, j) /\ Loops(w, K, L)
    /\ P = Then(Say("PART_RECEIVED"), GetParts(x, c.len, j, K))
    /\ T = Then(Ack("PART_RECEIVED"), GiveParts(c, j, L))
TellsRecordAck(w, P, T) == \E f, K, L :
    /\ ToSync(w, f, K, L)
    /\ P = Then(Say("GET_FILE_ACK"), Then(Hear("mtime", f), K))
    /\ T = Then(Ack("GET_FILE_ACK"), Then(Tell("mtime", f), Then(Ack("answer"), L)))
AnswersGet(w, P, T) == \E f, K, L :
    ToSync(w, f, K, L) /\ P = GetStart(<<f, "sync_dir">>, K) /\ T = Then(Ack("answer"), L)
AnswersSend(w, P, T) == \E f, c, K, L :
    ToPut(w, f, c, K, L) /\ P = PutStart(f, c, K) /\ T = Then(Ack("answer"), L)
TellsGone(w, P, T) == \E f, K :
    /\ AllWhole(w) /\ f \in Files /\ w.sent[f] = Missing /\ Starts(w, K)
    /\ P = NameGone(f, K) /\ T = Then(Hear("name", "DELETE"), <<>>)
TellsLock(w, P, T) == \E f, k :
    /\ AllWhole(w) /\ f \in Files /\ k \in {"LOCK", "UNLOCK"}
    /\ P = NameLock(f) /\ T = Then(Hear("name", k), <<>>)
TellsEntryAck(w, P, T) == \E K, L :
    /\ AllWhole(w) /\ Loops(w, K, L)
    /\ P = Then(Say("FILENAME_ACK"), Then(Ack("info"), Then(Say("FILE_OK"), K)))
    /\ T = Then(Ack("FILENAME_ACK"), Then(Say("info"), Then(Ack("FILE_OK"), L)))
TellsLast(w, P, T) == \E k, K, L :
    /\ AllWhole(w) /\ After(w, K, L)
    /\ \/ k \in {"COMPLETE_ACK", "NUMBER_ACK", "FILE_OK"} /\ T = Then(Ack(k), L)
       \/ k = "SYNC_OK" /\ T = Then(Ack("answer"), L)
    /\ P = Then(Say(k), K)

ClientTurn(w, P, T) ==
    \/ TellsUser(w, P, T) \/ TellsCommand(w, P, T) \/ TellsName(w, P, T) \/ TellsSize(w, P, T)
    \/ TellsPart(w, P, T) \/ TellsTime(w, P, T) \/ TellsGetName(w, P, T) \/ TellsSizeAck(w, P, T)
    \/ TellsPartAck(w, P, T) \/ TellsRecordAck(w, P, T) \/ AnswersGet(w, P, T) \/ AnswersSend(w, P, T)
    \/ TellsGone(w, P, T) \/ TellsLock(w, P, T) \/ TellsEntryAck(w, P, T) \/ TellsLast(w, P, T)

(* Then, what the client may be waiting for.                               *)
HearsLogin(w, P, T) ==
    AllWhole(w) /\ P = Then(Ack("LOGIN_OK"), SyncStart) /\ T = Then(Say("LOGIN_OK"), <<>>)
HearsTurn(w, P, T) == AllWhole(w) /\ Loops(w, P, T) /\ T # <<>>
HearsSendAck(w, P, T) == \E f, c, K, L :
    /\ ToPut(w, f, c, K, L)
    /\ P = Then(Ack("SEND_FILE_ACK"), PutName(f, c, K))
    /\ T = Then(Say("SEND_FILE_ACK"), Then(Hear("name", "SEND_FILE"), L))
HearsSizeAck(w, P, T) == \E f, c, K, L :
    /\ Received(w, f, c, 0) /\ Loops(w, K, L)
    /\ P = Then(Ack("SIZE_ACK"), PutParts(f, c, 0, K))
    /\ T = Then(Say("SIZE_ACK"), ReadParts(f, c.len, 0, L))
HearsPartAck(w, P, T) == \E f, c, j, K, L :
    /\ Received(w, f, c, j) /\ Loops(w, K, L)
    /\ P = Then(Ack("PART_RECEIVED"), PutParts(f, c, j, K))
    /\ T = Then(Say("PART_RECEIVED"), ReadParts(f, c.len, j, L))
HearsCompleteAck(w, P, T) == \E f, c, K, L :
    /\ Received(w, f, c, Iterations(c.len)) /\ Loops(w, K, L)
    /\ P = Then(Hear("COMPLETE_ACK", <<f, c>>), PutTime(f, K))
    /\ T = Then(Say("COMPLETE_ACK"), ReadTime(f, L))
HearsGetAck(w, P, T) == \E x, K, L :
    /\ ToGet(w, x, K, L)
    /\ P = Then(Ack("GET_FILE_ACK"), GetName(x, K))
    /\ T = Then(Say("GET_FILE_ACK"), Then(Hear("name", "GET_FILE"), L))
HearsExists(w, P, T) == \E x, K, L :
    /\ ToGet(w, x, K, L)
    /\ P = Then(Hear("EXISTS", x), K)
    /\ T = Then(Say("EXISTS"), GiveBody(w.disk[x[1]], L))
HearsSize(w, P, T) == \E x, c, K, L :
    Fetched(w, x, c, 0) /\ Loops(w, K, L) /\ P = Then(Hear("size", x), K) /\ T = GiveSize(c, L)
HearsPart(w, P, T) == \E x, c, j, K, L :
    Fetched(w, x, c, j) /\ Loops(w, K, L) /\ P = GetParts(x, c.len, j, K) /\ T = GiveParts(c, j, L)
HearsTime(w, P, T) == \E f, K, L :
    /\ ToSync(w, f, K, L)
    /\ P = Then(Hear("mtime", f), K) /\ T = Then(Tell("mtime", f), Then(Ack("answer"), L))
HearsDeleteAck(w, P, T) == \E f :
    /\ AllWhole(w) /\ f \in Files /\ w.sent[f] = Missing
    /\ P = Then(Ack("DELETE_ACK"), NameGone(f, <<>>))
    /\ T = Then(Say("DELETE_ACK"), Then(Hear("name", "DELETE"), <<>>))
HearsLockAck(w, P, T) == \E f, k :
    /\ AllWhole(w) /\ f \in Files /\ k \in {"LOCK", "UNLOCK"}
    /\ P = Then(Ack(LockAck(k)), NameLock(f))
    /\ T = Then(Say(LockAck(k)), Then(Hear("name", k), <<>>))
HearsAnswer(w, P, T) == AllWhole(w) /\ P = HearLock /\ T = Then(Say("answer"), <<>>)
HearsNumber(w, P, T) == \E r :
    /\ AllWhole(w) /\ OnDisk(w, r) /\ P = SyncHear
    /\ T = Then(Tell("number", Len(r)), Then(Ack("NUMBER_ACK"), Run(SentRecord(r), 0, Len(r))))
HearsListAck(w, P, T) == \E n \in Nat :
    /\ AllWhole(w) /\ P = Then(Ack("LIST_ACK"), ListHear)
    /\ T = Then(Say("LIST_ACK"), Then(Tell("number", n), Run(SentEntry, 0, n)))
HearsEntries(w, P, T) == \E n \in Nat :
    AllWhole(w) /\ P = ListHear /\ T = Then(Tell("number", n), Run(SentEntry, 0, n))
HearsInfo(w, P, T) == \E K, L :
    /\ AllWhole(w) /\ Loops(w, K, L)
    /\ P = Then(Ack("info"), Then(Say("FILE_OK"), K))
    /\ T = Then(Say("info"), Then(Ack("FILE_OK"), L))

LeaderTurn(w, P, T) ==
    \/ HearsLogin(w, P, T) \/ HearsTurn(w, P, T) \/ HearsSendAck(w, P, T) \/ HearsSizeAck(w, P, T)
    \/ HearsPartAck(w, P, T) \/ HearsCompleteAck(w, P, T) \/ HearsGetAck(w, P, T) \/ HearsExists(w, P, T)
    \/ HearsSize(w, P, T) \/ HearsPart(w, P, T) \/ HearsTime(w, P, T) \/ HearsDeleteAck(w, P, T)
    \/ HearsLockAck(w, P, T) \/ HearsAnswer(w, P, T) \/ HearsNumber(w, P, T) \/ HearsListAck(w, P, T)
    \/ HearsEntries(w, P, T) \/ HearsInfo(w, P, T)

(* And when neither has anything to tell: between two commands, at the     *)
(* end, and when the file to download is not there.                        *)
Quiet(w, P, T) ==
    /\ AllWhole(w)
    /\ \/ P \in {<<>>, Rest} /\ T = <<>>
       \/ P = Gone /\ T = Gone
       \/ \E x, K : IsSeq(K) /\ P = Then(Hear("size", x), K) /\ T = <<>>

Exchange(w, P, T) == ClientTurn(w, P, T) \/ LeaderTurn(w, P, T) \/ Quiet(w, P, T)

(* After a file the client and the leader fit as before it.                *)
LEMMA AfterExchange ==
    ASSUME NEW w, NEW K, NEW L, AllWhole(w), After(w, K, L)
    PROVE  Exchange(w, K, L)
<1>1. CASE Loops(w, K, L) /\ L # <<>>
  BY <1>1 DEF Exchange, LeaderTurn, HearsTurn
<1>2. CASE K \in {<<>>, Rest} /\ L = <<>>
  BY <1>2 DEF Exchange, Quiet
<1>3. CASE L = <<>> /\ Starts(w, K) /\ K \notin {<<>>, Rest}
  BY <1>3 DEF Exchange, ClientTurn, TellsCommand
<1>4. CASE Loops(w, K, L) /\ L = <<>>
  <2>1. K \in {<<>>, Rest}
    <3>1. ASSUME NEW a, NEW s, IsSeq(s) PROVE Then(a, s) # <<>> /\ IsSeq(Then(a, s))
      BY <3>1, ThenIs
    <3> QED BY <1>4, <3>1, LoopsAre
  <2> QED BY <1>2, <1>4, <2>1
<1> QED BY <1>1, <1>2, <1>3, <1>4 DEF After
-----------------------------------------------------------------------------
(* S is T from its first step on that is not to tell something.            *)
AllTells(q) == IsSeq(q) /\ \A i \in DOMAIN q : q[i].do = "tell"
Until(T, S) ==
    /\ IsSeq(S) /\ (S # <<>> => Head(S).do # "tell")
    /\ \E q : AllTells(q) /\ T = Cat(q, S)

(* Nothing to tell, and one thing more to tell.                            *)
LEMMA AllTellsThen ==
    /\ AllTells(<<>>)
    /\ \A a, q : IsSeq(q) => (AllTells(Then(a, q)) <=> a.do = "tell" /\ AllTells(q))
<1>1. AllTells(<<>>)
  BY EmptyIsSeq, SeqFacts DEF AllTells
<1>2. ASSUME NEW a, NEW q, IsSeq(q) PROVE AllTells(Then(a, q)) <=> a.do = "tell" /\ AllTells(q)
  <2> DEFINE t == Then(a, q)
  <2>1. IsSeq(t) /\ Len(t) = Len(q) + 1 /\ t[1] = a /\ \A i \in 1 .. Len(q) : t[i + 1] = q[i]
    BY <1>2, ThenIs
  <2> HIDE DEF t
  <2>2. Len(q) \in Nat /\ DOMAIN q = 1 .. Len(q) /\ DOMAIN t = 1 .. Len(q) + 1
    BY <1>2, <2>1, SeqFacts
  <2>3. ASSUME AllTells(t) PROVE a.do = "tell" /\ AllTells(q)
    <3>1. 1 \in DOMAIN t /\ \A i \in DOMAIN q : i + 1 \in DOMAIN t
      BY <2>2
    <3> QED BY <1>2, <2>1, <2>2, <2>3, <3>1 DEF AllTells
  <2>4. ASSUME a.do = "tell", AllTells(q) PROVE AllTells(t)
    <3>1. ASSUME NEW i \in DOMAIN t PROVE t[i].do = "tell"
      <4>1. CASE i = 1
        BY <2>1, <2>4, <4>1
      <4>2. CASE i # 1
        <5>1. i - 1 \in 1 .. Len(q) /\ (i - 1) + 1 = i
          BY <2>2, <4>2
        <5> QED BY <2>1, <2>2, <2>4, <5>1 DEF AllTells
      <4> QED BY <4>1, <4>2
    <3> QED BY <2>1, <3>1 DEF AllTells
  <2> QED BY <2>3, <2>4 DEF t
<1> QED BY <1>1, <1>2

(* A step to tell is passed over; at another Until stops.                  *)
LEMMA UntilThen ==
    ASSUME NEW a, NEW U, IsSeq(U)
    PROVE  /\ a.do = "tell" => \A S : Until(Then(a, U), S) <=> Until(U, S)
           /\ a.do # "tell" => \A S : Until(Then(a, U), S) <=> S = Then(a, U)
<1>1. IsSeq(Then(a, U)) /\ Head(Then(a, U)) = a /\ Then(a, U) # <<>>
  BY ThenIs
<1>2. ASSUME NEW S, Until(Then(a, U), S)
      PROVE  \/ S = Then(a, U) /\ a.do # "tell"
             \/ a.do = "tell" /\ Until(U, S)
  <2>1. PICK q : AllTells(q) /\ Then(a, U) = Cat(q, S) /\ IsSeq(S) /\ (S # <<>> => Head(S).do # "tell")
    BY <1>2 DEF Until
  <2>2. CASE q = <<>>
    BY <1>1, <2>1, <2>2, CatEmpty
  <2>3. CASE q # <<>>
    <3> DEFINE b == Head(q)
               p == Tail(q)
    <3>1. q = Then(b, p) /\ IsSeq(p)
      BY <2>1, <2>3, HeadTail DEF AllTells
    <3> HIDE DEF b, p
    <3>2. b.do = "tell" /\ AllTells(p)
      BY <2>1, <3>1, AllTellsThen
    <3>3. Then(a, U) = Then(b, Cat(p, S)) /\ IsSeq(Cat(p, S))
      BY <2>1, <3>1, ThenCat, CatIs
    <3>4. a = b /\ U = Cat(p, S)
      BY <3>3, ThenOne
    <3> QED BY <2>1, <3>2, <3>4 DEF Until
  <2> QED BY <2>2, <2>3
<1>3. ASSUME NEW S, Until(U, S), a.do = "tell" PROVE Until(Then(a, U), S)
  <2>1. PICK q : AllTells(q) /\ U = Cat(q, S) /\ IsSeq(S) /\ (S # <<>> => Head(S).do # "tell")
    BY <1>3 DEF Until
  <2>2. AllTells(Then(a, q)) /\ Then(a, U) = Cat(Then(a, q), S)
    BY <1>3, <2>1, AllTellsThen, ThenCat DEF AllTells
  <2> QED BY <2>1, <2>2 DEF Until
<1>4. ASSUME a.do # "tell" PROVE Until(Then(a, U), Then(a, U))
  BY <1>1, <1>4, AllTellsThen, CatEmpty DEF Until
<1> QED BY <1>2, <1>3, <1>4

(* There is nothing behind nothing.                                        *)
LEMMA UntilEmpty == \A S : Until(<<>>, S) <=> S = <<>>
<1>1. ASSUME NEW S, Until(<<>>, S) PROVE S = <<>>
  BY <1>1, CatIs DEF Until, AllTells
<1>2. Until(<<>>, <<>>)
  BY EmptyIsSeq, CatEmpty, AllTellsThen DEF Until
<1> QED BY <1>1, <1>2

(* The next message that is waited for is the time of a file.              *)
Due(T) == \E S : Until(T, S) /\ S # <<>> /\ Head(S).do = "hear" /\ Head(S).kind = "mtime"

(* A time is due behind steps that tell, and at the step that waits for it.*)
LEMMA DueIs ==
    /\ ~Due(<<>>)
    /\ \A a, U : IsSeq(U) => /\ a.do = "tell" => (Due(Then(a, U)) <=> Due(U))
                             /\ a.do # "tell" => (Due(Then(a, U)) <=> a.do = "hear" /\ a.kind = "mtime")
<1>1. ~Due(<<>>)
  BY UntilEmpty DEF Due
<1>2. ASSUME NEW a, NEW U, IsSeq(U)
      PROVE /\ a.do = "tell" => (Due(Then(a, U)) <=> Due(U))
            /\ a.do # "tell" => (Due(Then(a, U)) <=> a.do = "hear" /\ a.kind = "mtime")
  <2>1. Head(Then(a, U)) = a /\ Then(a, U) # <<>>
    BY <1>2, ThenIs
  <2> QED BY <1>2, <2>1, UntilThen DEF Due
<1> QED BY <1>1, <1>2

WorldOf(d, s, t) == [disk |-> d, sent |-> s, fetched |-> t]
IsWorld(w) == w = WorldOf(w.disk, w.sent, w.fetched) /\ w.disk \in [Files -> KnownCopies]

(* What a message may do to the leader's copies.                           *)
Moves(w, h, m, d) ==
    /\ d \in [Files -> KnownCopies]
    /\ \A g \in Files : w.sent[g] # Missing => d[g] = w.disk[g]
    /\ \A g \in Files : w.disk[g] # Missing /\ d[g] = Missing => h = Hear("name", "DELETE") /\ m.arg = g
    /\ h.kind = "mtime" => h.arg \in Files /\ w.disk[h.arg] # Missing
    /\ h.kind = "name" => m.arg \in Files
    /\ h.kind = "size" => m.arg \in Nat

(* What the leader goes on with: it waits for nothing but the size that    *)
(* follows a name; a time is due once a file is complete.                  *)
Speaks(U, k) ==
    /\ U # <<>> => Head(U).do # "hear" \/ Head(U).kind = "size"
    /\ Due(U) => k = "COMPLETE"

(* The leader, that has h and then T1 to do, hears what the client has to  *)
(* tell, before P1, and goes on with U.                                    *)
Serves(w, r, P, T, k, a, P1, h, T1, U) ==
    LET m == Msg(k, a)
        d == NextDisk(h, m, w.disk)
    IN  /\ IsSeq(P1) /\ IsSeq(T1) /\ IsSeq(U)
        /\ P = Then(Tell(k, a), P1)
        /\ T = Then(h, T1) \/ (T = <<>> /\ T1 = <<>> /\ h = Ack("command"))
        /\ Takes(h, m) \/ (h = Ack("FILENAME_ACK") /\ k = "FILENAME_ACK")
        /\ U = Cat(NextSteps(h, m, w.disk, r), T1)
        /\ Exchange(WorldOf(d, w.sent, w.fetched), P1, U)
        /\ Moves(w, h, m, d) /\ Speaks(U, k)

(* The fields of steps and messages.                                       *)
LEMMA StepFacts ==
    /\ \A k, x : Tell(k, x).do = "tell" /\ Tell(k, x).kind = k /\ Tell(k, x).arg = x
    /\ \A k, x : Hear(k, x).do = "hear" /\ Hear(k, x).kind = k /\ Hear(k, x).arg = x
    /\ \A k : Say(k) = Tell(k, None) /\ Ack(k) = Hear(k, None)
    /\ \A k, x : Msg(k, x).kind = k /\ Msg(k, x).arg = x
BY DEF Tell, Hear, Say, Ack, Step, Msg

(* A leader in a loop speaks next, and waits for no time.                  *)
LEMMA LoopSpeaks ==
    ASSUME NEW w, NEW K, NEW L, Loops(w, K, L)
    PROVE  IsSeq(K) /\ IsSeq(L) /\ (L # <<>> => Head(L).do = "tell") /\ ~Due(L)
<1>1. ASSUME NEW a, NEW s, IsSeq(s) PROVE IsSeq(Then(a, s)) /\ Head(Then(a, s)) = a
  BY <1>1, ThenIs
<1>2. IsSeq(K) /\ IsSeq(L)
  BY LoopsAre
<1>3. CASE L = <<>>
  BY <1>2, <1>3, DueIs
<1>4. ASSUME NEW a, NEW b, NEW s, IsSeq(s), L = Then(a, Then(b, s)), a.do = "tell", b.do = "hear", b.kind # "mtime"
      PROVE  IsSeq(K) /\ IsSeq(L) /\ (L # <<>> => Head(L).do = "tell") /\ ~Due(L)
  <2>1. IsSeq(Then(b, s)) /\ Head(L) = a
    BY <1>1, <1>4
  <2>2. ~Due(Then(b, s))
    BY <1>4, DueIs
  <2>3. ~Due(L)
    BY <1>4, <2>1, <2>2, DueIs
  <2> QED BY <1>2, <1>4, <2>1, <2>3
<1>5. ASSUME NEW g \in Files, NEW K1, NEW L1, IsSeq(L1),
             L = Then(Tell("record", g), Then(Ack("GET_FILE_ACK"), Then(Tell("mtime", g), Then(Ack("answer"), L1))))
      PROVE  IsSeq(K) /\ IsSeq(L) /\ (L # <<>> => Head(L).do = "tell") /\ ~Due(L)
  <2>1. IsSeq(Then(Tell("mtime", g), Then(Ack("answer"), L1)))
    BY <1>1, <1>5
  <2> QED BY <1>4, <1>5, <2>1 DEF Tell, Ack, Hear, Step
<1>6. ASSUME NEW K1, NEW L1, IsSeq(L1),
             L = Then(Say("entry"), Then(Ack("FILENAME_ACK"), Then(Say("info"), Then(Ack("FILE_OK"), L1))))
      PROVE  IsSeq(K) /\ IsSeq(L) /\ (L # <<>> => Head(L).do = "tell") /\ ~Due(L)
  <2>1. IsSeq(Then(Say("info"), Then(Ack("FILE_OK"), L1)))
    BY <1>1, <1>6
  <2> QED BY <1>4, <1>6, <2>1 DEF Say, Tell, Ack, Hear, Step
<1> QED BY <1>3, <1>5, <1>6, LoopsAre

(* So does a leader after a file.                                          *)
LEMMA AfterSpeaks ==
    ASSUME NEW w, NEW K, NEW L, After(w, K, L)
    PROVE  IsSeq(K) /\ IsSeq(L) /\ (L # <<>> => Head(L).do = "tell") /\ ~Due(L)
BY LoopSpeaks, StartsAreSeqs, LastSeqs, DueIs DEF After

(* Messages that leave the files as they are.                              *)
LEMMA Stays ==
    ASSUME NEW w, IsWorld(w), NEW h, NEW m, h.kind \notin {"name", "part", "mtime"},
           h.kind = "size" => m.arg \in Nat
    PROVE  /\ NextDisk(h, m, w.disk) = w.disk /\ Moves(w, h, m, w.disk)
           /\ WorldOf(w.disk, w.sent, w.fetched) = w
BY DEF IsWorld, NextDisk, Moves

(* An acknowledgement, after which L1 is left of the leader's steps.       *)
LEMMA ServesAck ==
    ASSUME NEW w, IsWorld(w), NEW r, NEW P, NEW T, NEW k, NEW P1, NEW L,
           IsSeq(P1), IsSeq(L), P = Then(Say(k), P1), T = Then(Ack(k), L),
           k \in Acks \cup {"FILENAME_ACK"}, Exchange(w, P1, L),
           L # <<>> => Head(L).do = "tell", Due(L) => k = "COMPLETE"
    PROVE  Serves(w, r, P, T, k, None, P1, Ack(k), L, L)
<1> DEFINE h == Ack(k)
           m == Msg(k, None)
<1>1. h.kind = k /\ h.do = "hear" /\ m.kind = k /\ Say(k) = Tell(k, None)
  BY DEF Ack, Hear, Step, Msg, Say
<1>2. k \notin {"name", "part", "mtime", "command", "answer", "size"}
  BY DEF Acks
<1>3. NextSteps(h, m, w.disk, r) = <<>>
  BY <1>1, <1>2 DEF NextSteps
<1>4. Takes(h, m) \/ (h = Ack("FILENAME_ACK") /\ k = "FILENAME_ACK")
  BY <1>1, <1>2 DEF Takes
<1>5. L = Cat(<<>>, L)
  BY CatEmpty
<1>6. NextDisk(h, m, w.disk) = w.disk /\ Moves(w, h, m, w.disk) /\ WorldOf(w.disk, w.sent, w.fetched) = w
  BY <1>1, <1>2, Stays
<1>7. Speaks(L, k)
  BY DEF Speaks
<1> HIDE DEF h, m
<1> QED BY <1>1, <1>3, <1>4, <1>5, <1>6, <1>7 DEF Serves, h, m

(* The leader takes the name of the user, and lets it in.                  *)
LEMMA ServesUser ==
    ASSUME NEW w, IsWorld(w), NEW r, NEW P, NEW T, TellsUser(w, P, T)
    PROVE  \E k, a, P1, h, T1, U : Serves(w, r, P, T, k, a, P1, h, T1, U)
<1> DEFINE P1 == Then(Ack("LOGIN_OK"), SyncStart)
           L == Then(Say("LOGIN_OK"), <<>>)
<1>1. IsSeq(P1) /\ IsSeq(L) /\ L # <<>> /\ Head(L) = Say("LOGIN_OK")
  BY ThenIs, OthersAre, LastSeqs
<1>2. P = Then(Say("user"), P1) /\ T = Then(Ack("user"), L) /\ AllWhole(w)
  BY DEF TellsUser, LoginStart
<1>3. Exchange(w, P1, L)
  BY <1>2 DEF Exchange, LeaderTurn, HearsLogin
<1>4. ~Due(L) /\ Head(L).do = "tell"
  BY <1>1, LastSeqs, DueIs DEF Say, Tell, Step
<1> HIDE DEF P1, L
<1>5. Serves(w, r, P, T, "user", None, P1, Ack("user"), L, L)
  BY <1>1, <1>2, <1>3, <1>4, ServesAck DEF Acks
<1> QED BY <1>5

(* A command, or what sync_server takes for one.                           *)
LEMMA ServesCommand ==
    ASSUME NEW w, IsWorld(w), NEW r, NEW P, NEW T, NEW k, NEW P1, NEW h, NEW L, NEW U,
           IsSeq(P1), IsSeq(L), IsSeq(U), P = Then(Say(k), P1),
           \/ T = <<>> /\ L = <<>> /\ h = Ack("command") /\ k \in CommandKinds
           \/ T = Then(h, L) /\ h = Ack("answer") /\ k \in AnswerKinds,
           U = Cat(Handler(r, k), L), Exchange(w, P1, U),
           U # <<>> => Head(U).do # "hear", ~Due(U)
    PROVE  Serves(w, r, P, T, k, None, P1, h, L, U)
<1> DEFINE m == Msg(k, None)
<1>1. h.do = "hear" /\ h.kind \in {"command", "answer"} /\ m.kind = k /\ Say(k) = Tell(k, None)
  BY StepFacts
<1>2. NextSteps(h, m, w.disk, r) = Handler(r, k)
  BY <1>1 DEF NextSteps
<1>3. Takes(h, m)
  BY StepFacts, <1>1 DEF Takes
<1>4. NextDisk(h, m, w.disk) = w.disk /\ Moves(w, h, m, w.disk) /\ WorldOf(w.disk, w.sent, w.fetched) = w
  BY <1>1, Stays
<1>5. Speaks(U, k)
  BY DEF Speaks
<1>6. T = Then(h, L) \/ (T = <<>> /\ L = <<>> /\ h = Ack("command"))
  OBVIOUS
<1> HIDE DEF m
<1> QED BY <1>1, <1>2, <1>3, <1>4, <1>5, <1>6 DEF Serves, m

(* A command whose handler answers and waits for a name.                   *)
LEMMA ServesNamed ==
    ASSUME NEW w, IsWorld(w), NEW r, NEW P, NEW T, NEW k, NEW P1, NEW h, NEW L, NEW y,
           IsSeq(P1), IsSeq(L), P = Then(Say(k), P1),
           \/ T = <<>> /\ L = <<>> /\ h = Ack("command") /\ k \in CommandKinds
           \/ T = Then(h, L) /\ h = Ack("answer") /\ k \in AnswerKinds,
           Handler(r, k) = <<Say(y), Hear("name", k)>>,
           Exchange(w, P1, Then(Say(y), Then(Hear("name", k), L)))
    PROVE  \E U : Serves(w, r, P, T, k, None, P1, h, L, U)
<1> DEFINE V == Then(Hear("name", k), L)
           U == Then(Say(y), V)
<1>1. IsSeq(V) /\ IsSeq(U) /\ Head(U) = Say(y)
  BY ThenIs
<1>2. U = Cat(Handler(r, k), L)
  BY CatTuples
<1>3. Head(U).do # "hear"
  BY <1>1, StepFacts
<1>4. ~Due(V) /\ ~Due(U)
  BY <1>1, StepFacts, DueIs
<1> HIDE DEF U, V
<1>5. Exchange(w, P1, U)
  BY DEF U, V
<1>6. Serves(w, r, P, T, k, None, P1, h, L, U)
  BY <1>1, <1>2, <1>3, <1>4, <1>5, ServesCommand
<1> QED BY <1>6

Served(w, r, P, T) == \E k, a, P1, h, T1, U : Serves(w, r, P, T, k, a, P1, h, T1, U)

(* What the leader does on each command.                                   *)
LEMMA HandlerIs ==
    /\ \A r : Handler(r, "SEND_FILE") = <<Say("SEND_FILE_ACK"), Hear("name", "SEND_FILE")>>
    /\ \A r : Handler(r, "GET_FILE") = <<Say("GET_FILE_ACK"), Hear("name", "GET_FILE")>>
    /\ \A r : Handler(r, "DELETE") = <<Say("DELETE_ACK"), Hear("name", "DELETE")>>
    /\ \A r : Handler(r, "LOCK") = <<Say("LOCK_ACK"), Hear("name", "LOCK")>>
    /\ \A r : Handler(r, "UNLOCK") = <<Say("UNLOCK_ACK"), Hear("name", "UNLOCK")>>
    /\ \A r : Handler(r, "SYNC") = SyncServer(r)
    /\ \A r : Handler(r, "LIST") = <<Say("LIST_ACK"), Tell("number", Len(r))>> \o Times(Len(r), ListedFile)
    /\ \A r : Handler(r, "SYNC_OK") = <<>>
    /\ \A r : Handler(r, "END") = Gone
BY DEF Handler, Gone

(* The commands, one by one.                                               *)
LEMMA ServesSync ==
    ASSUME NEW w, IsWorld(w), AllWhole(w), NEW r, OnDisk(w, r)
    PROVE  Served(w, r, SyncStart, <<>>)
<1> DEFINE V == Then(Ack("NUMBER_ACK"), Run(SentRecord(r), 0, Len(r)))
           U == Then(Tell("number", Len(r)), V)
<1>1. IsSeq(r) /\ IsSeq(SyncHear) /\ SyncStart = Then(Say("SYNC"), SyncHear)
  BY OthersAre DEF OnDisk, SyncStart
<1>2. IsSeq(Run(SentRecord(r), 0, Len(r))) /\ SyncServer(r) = U
  BY <1>1, SyncServerIs
<1>3. IsSeq(V) /\ IsSeq(U) /\ Head(U) = Tell("number", Len(r))
  BY <1>2, ThenIs
<1>4. U = Cat(Handler(r, "SYNC"), <<>>)
  BY <1>2, <1>3, CatEmpty, HandlerIs
<1>5. ~Due(V) /\ ~Due(U)
  BY <1>2, <1>3, StepFacts, DueIs
<1>6. Exchange(w, SyncHear, U)
  BY DEF Exchange, LeaderTurn, HearsNumber
<1> HIDE DEF U, V
<1>7. Head(U).do # "hear" /\ "SYNC" \in CommandKinds
  BY <1>3, StepFacts DEF CommandKinds
<1>8. IsSeq(<<>>)
  BY LastSeqs
<1>9. Serves(w, r, SyncStart, <<>>, "SYNC", None, SyncHear, Ack("command"), <<>>, U)
  BY <1>1, <1>3, <1>4, <1>5, <1>6, <1>7, <1>8, ServesCommand
<1> QED BY <1>9 DEF Served

(* LIST: the number of the records, and an entry for each.                 *)
LEMMA ServesList ==
    ASSUME NEW w, IsWorld(w), AllWhole(w), NEW r, OnDisk(w, r)
    PROVE  Served(w, r, ListStart, <<>>)
<1> DEFINE n == Len(r)
           R == Run(SentEntry, 0, n)
           V == Then(Tell("number", n), R)
           U == Then(Say("LIST_ACK"), V)
           P1 == Then(Ack("LIST_ACK"), ListHear)
<1>1. n \in Nat /\ IsSeq(P1) /\ ListStart = Then(Say("LIST"), P1)
  BY SeqFacts, OthersAre, ThenIs DEF OnDisk, ListStart
<1>2. IsSeq(R) /\ Times(n, ListedFile) = R /\ R = Cat(R, <<>>)
  BY <1>1, ListsAre, CatEmpty
<1>3. IsSeq(V) /\ IsSeq(U) /\ Head(U) = Say("LIST_ACK")
  BY <1>2, ThenIs
<1>4. U = Cat(Handler(r, "LIST"), <<>>)
  <2>1. Handler(r, "LIST") = Cat(<<Say("LIST_ACK"), Tell("number", n)>>, R)
    BY <1>2, HandlerIs DEF Cat
  <2>2. Handler(r, "LIST") = U
    BY <1>2, <2>1, CatTuples
  <2> QED BY <1>3, <2>2, CatEmpty
<1>5. ~Due(R)
  <2>1. n <= n /\ 0 <= n
    BY <1>1
  <2>2. CASE 0 < n
    <3> DEFINE R1 == Cat(Run(SentEntry, 0 + 1, n), <<>>)
    <3>1. IsSeq(R1)
      BY <1>1, <2>2, EntriesSent, LastSeqs
    <3>2. R = Then(Say("entry"), Then(Ack("FILENAME_ACK"), Then(Say("info"), Then(Ack("FILE_OK"), R1))))
      BY <1>1, <1>2, <2>1, <2>2, EntriesSent, LastSeqs
    <3> HIDE DEF R1, R
    <3>3. IsSeq(Then(Say("info"), Then(Ack("FILE_OK"), R1)))
      BY <3>1, ThenIs
    <3>4. IsSeq(Then(Ack("FILENAME_ACK"), Then(Say("info"), Then(Ack("FILE_OK"), R1))))
      BY <3>3, ThenIs
    <3> QED BY <3>2, <3>3, <3>4, StepFacts, DueIs
  <2>3. CASE n = 0
    <3>1. R = <<>>
      BY <2>3, RunEnd
    <3> QED BY <3>1, DueIs
  <2> QED BY <1>1, <2>2, <2>3
<1>6. Exchange(w, P1, U)
  BY <1>1 DEF Exchange, LeaderTurn, HearsListAck
<1> HIDE DEF R
<1>7. ~Due(V) /\ ~Due(U)
  BY <1>2, <1>3, <1>5, StepFacts, DueIs
<1> HIDE DEF U, V, P1
<1>8. Head(U).do # "hear" /\ "LIST" \in CommandKinds
  BY <1>3, StepFacts DEF CommandKinds
<1>9. IsSeq(<<>>)
  BY LastSeqs
<1>10. Serves(w, r, ListStart, <<>>, "LIST", None, P1, Ack("command"), <<>>, U)
  BY <1>1, <1>3, <1>4, <1>6, <1>7, <1>8, <1>9, ServesCommand
<1> QED BY <1>10 DEF Served

(* END: the leader leaves, and so does the client.                         *)
LEMMA ServesEnd ==
    ASSUME NEW w, IsWorld(w), AllWhole(w), NEW r
    PROVE  Served(w, r, EndStart, <<>>)
<1>1. IsSeq(Gone) /\ EndStart = Then(Say("END"), Gone) /\ IsSeq(<<>>)
  BY LastSeqs DEF EndStart
<1>2. Gone = Cat(Handler(r, "END"), <<>>)
  BY <1>1, HandlerIs, CatEmpty
<1>3. Exchange(w, Gone, Gone)
  BY DEF Exchange, Quiet
<1>4. Gone = Then(Step("gone", "END", None), <<>>)
  BY Tuples DEF Gone
<1>5. Head(Gone).do # "hear" /\ ~Due(Gone)
  <2>1. Head(Gone) = Step("gone", "END", None)
    BY <1>1, <1>4, ThenIs
  <2> QED BY <1>1, <1>4, <2>1, DueIs DEF Step
<1>6. "END" \in CommandKinds
  BY DEF CommandKinds
<1>7. Serves(w, r, EndStart, <<>>, "END", None, Gone, Ack("command"), <<>>, Gone)
  BY <1>1, <1>2, <1>3, <1>5, <1>6, ServesCommand
<1> QED BY <1>7 DEF Served

(* A file asked for by the user, or in answer to sync_server.              *)
LEMMA ServesGet ==
    ASSUME NEW w, IsWorld(w), NEW r, NEW x, NEW K, NEW L, NEW T, ToGet(w, x, K, L),
           (T = <<>> /\ L = <<>>) \/ T = Then(Ack("answer"), L)
    PROVE  Served(w, r, GetStart(x, K), T)
<1> DEFINE P1 == Then(Ack("GET_FILE_ACK"), GetName(x, K))
           h == IF T = <<>> THEN Ack("command") ELSE Ack("answer")
<1>1. IsSeq(K) /\ IsSeq(L)
  BY LoopsAre DEF ToGet
<1>2. IsSeq(GetName(x, K))
  BY <1>1, ThenIs DEF GetName
<1>3. IsSeq(P1) /\ GetStart(x, K) = Then(Say("GET_FILE"), P1)
  BY <1>2, ThenIs DEF GetStart
<1>4. Exchange(w, P1, Then(Say("GET_FILE_ACK"), Then(Hear("name", "GET_FILE"), L)))
  BY DEF Exchange, LeaderTurn, HearsGetAck
<1>5. Then(Ack("answer"), L) # <<>>
  BY <1>1, ThenIs
<1>6. "GET_FILE" \in CommandKinds \cap AnswerKinds
  BY DEF CommandKinds, AnswerKinds
<1> HIDE DEF P1
<1>7. \/ T = <<>> /\ L = <<>> /\ h = Ack("command") /\ "GET_FILE" \in CommandKinds
      \/ T = Then(h, L) /\ h = Ack("answer") /\ "GET_FILE" \in AnswerKinds
  BY <1>5, <1>6
<1> HIDE DEF h
<1>8. \E U : Serves(w, r, GetStart(x, K), T, "GET_FILE", None, P1, h, L, U)
  BY <1>1, <1>3, <1>4, <1>7, HandlerIs, ServesNamed
<1> QED BY <1>8 DEF Served

(* And one to be sent.                                                     *)
LEMMA ServesPut ==
    ASSUME NEW w, IsWorld(w), NEW r, NEW f, NEW c, NEW K, NEW L, NEW T, ToPut(w, f, c, K, L),
           (T = <<>> /\ L = <<>>) \/ T = Then(Ack("answer"), L)
    PROVE  Served(w, r, PutStart(f, c, K), T)
<1> DEFINE P1 == Then(Ack("SEND_FILE_ACK"), PutName(f, c, K))
           h == IF T = <<>> THEN Ack("command") ELSE Ack("answer")
<1>1. IsSeq(K) /\ IsSeq(L) /\ c.len \in Nat
  BY LoopsAre, CopiesAre DEF ToPut
<1>2. IsSeq(PutName(f, c, K))
  <2>1. 0 \in Nat /\ 0 <= Iterations(c.len)
    BY <1>1, IterationsIs
  <2> QED BY <1>1, <2>1, PutIs
<1>3. IsSeq(P1) /\ PutStart(f, c, K) = Then(Say("SEND_FILE"), P1)
  BY <1>2, ThenIs DEF PutStart
<1>4. Exchange(w, P1, Then(Say("SEND_FILE_ACK"), Then(Hear("name", "SEND_FILE"), L)))
  BY DEF Exchange, LeaderTurn, HearsSendAck
<1>5. Then(Ack("answer"), L) # <<>>
  BY <1>1, ThenIs
<1>6. "SEND_FILE" \in CommandKinds \cap AnswerKinds
  BY DEF CommandKinds, AnswerKinds
<1> HIDE DEF P1
<1>7. \/ T = <<>> /\ L = <<>> /\ h = Ack("command") /\ "SEND_FILE" \in CommandKinds
      \/ T = Then(h, L) /\ h = Ack("answer") /\ "SEND_FILE" \in AnswerKinds
  BY <1>5, <1>6
<1> HIDE DEF h
<1>8. \E U : Serves(w, r, PutStart(f, c, K), T, "SEND_FILE", None, P1, h, L, U)
  BY <1>1, <1>3, <1>4, <1>7, HandlerIs, ServesNamed
<1> QED BY <1>8 DEF Served

(* LOCK and UNLOCK: the name of the file comes next.                       *)
LEMMA ServesLock ==
    ASSUME NEW w, IsWorld(w), AllWhole(w), NEW r, NEW f \in Files, NEW k \in {"LOCK", "UNLOCK"}
    PROVE  Served(w, r, LockStart(k, f), <<>>)
<1> DEFINE P1 == Then(Ack(LockAck(k)), NameLock(f))
<1>1. IsSeq(P1) /\ IsSeq(<<>>) /\ LockStart(k, f) = Then(Say(k), P1)
  BY OthersAre, LastSeqs, ThenIs DEF LockStart
<1>2. Exchange(w, P1, Then(Say(LockAck(k)), Then(Hear("name", k), <<>>)))
  BY DEF Exchange, LeaderTurn, HearsLockAck
<1>3. k \in CommandKinds /\ Handler(r, k) = <<Say(LockAck(k)), Hear("name", k)>>
  BY HandlerIs DEF CommandKinds, LockAck
<1> HIDE DEF P1
<1>4. \E U : Serves(w, r, LockStart(k, f), <<>>, k, None, P1, Ack("command"), <<>>, U)
  BY <1>1, <1>2, <1>3, ServesNamed
<1> QED BY <1>4 DEF Served

(* DELETE: the name of the file comes next.                                *)
LEMMA ServesDelete ==
    ASSUME NEW w, IsWorld(w), AllWhole(w), NEW r, NEW f \in Files, w.sent[f] = Missing
    PROVE  Served(w, r, DeleteStart(f), <<>>)
<1> DEFINE P1 == Then(Ack("DELETE_ACK"), NameGone(f, <<>>))
<1>1. IsSeq(P1) /\ IsSeq(<<>>) /\ DeleteStart(f) = Then(Say("DELETE"), P1)
  BY OthersAre, LastSeqs, ThenIs DEF DeleteStart
<1>2. Exchange(w, P1, Then(Say("DELETE_ACK"), Then(Hear("name", "DELETE"), <<>>)))
  BY DEF Exchange, LeaderTurn, HearsDeleteAck
<1>3. "DELETE" \in CommandKinds
  BY DEF CommandKinds
<1> HIDE DEF P1
<1>4. \E U : Serves(w, r, DeleteStart(f), <<>>, "DELETE", None, P1, Ack("command"), <<>>, U)
  BY <1>1, <1>2, <1>3, HandlerIs, ServesNamed
<1> QED BY <1>4 DEF Served

(* Whatever command the client begins with.                                *)
LEMMA ServesAll ==
    ASSUME NEW w, IsWorld(w), NEW r, OnDisk(w, r), NEW P, NEW T, TellsCommand(w, P, T)
    PROVE  Served(w, r, P, T)
<1>1. AllWhole(w) /\ Starts(w, P) /\ P \notin {<<>>, Rest} /\ T = <<>>
  BY DEF TellsCommand
<1>2. Loops(w, <<>>, <<>>) /\ Loops(w, Rest, <<>>)
  BY DEF Loops
<1>3. ASSUME NEW f \in Files, P = GetStart(<<f, "cwd">>, <<>>) PROVE Served(w, r, P, T)
  <2>1. ToGet(w, <<f, "cwd">>, <<>>, <<>>)
    BY <1>1, <1>2 DEF ToGet, Places
  <2> QED BY <1>1, <1>3, <2>1, ServesGet
<1>4. ASSUME NEW f \in Files, w.sent[f] = Missing, NEW c \in Copies(f) \ {Missing}, NEW K \in {<<>>, Rest},
             P = PutStart(f, c, K)
      PROVE  Served(w, r, P, T)
  <2>1. ToPut(w, f, c, K, <<>>)
    BY <1>1, <1>2, <1>4 DEF ToPut
  <2> QED BY <1>1, <1>4, <2>1, ServesPut
<1> QED BY <1>1, <1>3, <1>4, ServesSync, ServesList, ServesEnd, ServesLock, ServesDelete DEF Starts

(* The fields of a world.                                                  *)
LEMMA WorldIs ==
    ASSUME NEW d, NEW s, NEW t
    PROVE  WorldOf(d, s, t).disk = d /\ WorldOf(d, s, t).sent = s /\ WorldOf(d, s, t).fetched = t
BY DEF WorldOf

(* The leader creates the file.                                            *)
LEMMA ServesName ==
    ASSUME NEW w, IsWorld(w), NEW r, NEW P, NEW T, TellsName(w, P, T)
    PROVE  Served(w, r, P, T)
<1>1. PICK f, c, K, L : ToPut(w, f, c, K, L) /\ P = PutName(f, c, K) /\ T = Then(Hear("name", "SEND_FILE"), L)
  BY DEF TellsName
<1>2. IsSeq(K) /\ IsSeq(L) /\ f \in Files /\ c \in Copies(f) \ {Missing} /\ c.len \in Nat /\ AllWhole(w)
      /\ w.sent[f] = Missing /\ Loops(w, K, L)
  BY <1>1, LoopsAre, CopiesAre DEF ToPut
<1> DEFINE h == Hear("name", "SEND_FILE")
           m == Msg("name", f)
           d == [w.disk EXCEPT ![f] = Copy(None, 0)]
           v == WorldOf(d, w.sent, w.fetched)
           P1 == PutSize(f, c, K)
           U == Then(Hear("size", f), L)
<1>3. IsSeq(P1) /\ P = Then(Tell("name", f), P1)
  <2>1. 0 \in Nat /\ 0 <= Iterations(c.len)
    BY <1>2, IterationsIs
  <2> QED BY <1>1, <1>2, <2>1, PutIs DEF PutName
<1>4. IsSeq(U) /\ Head(U) = Hear("size", f)
  BY <1>2, ThenIs
<1>5. NextDisk(h, m, w.disk) = d
  BY StepFacts DEF NextDisk
<1>6. U = Cat(NextSteps(h, m, w.disk, r), L)
  <2>1. NextSteps(h, m, w.disk, r) = <<Hear("size", f)>>
    BY StepFacts DEF NextSteps, Named
  <2> QED BY <1>2, <2>1, CatTuples
<1>7. Takes(h, m)
  BY StepFacts DEF Takes, Purposes
<1>8. d \in [Files -> KnownCopies] /\ d[f] = Copy(None, 0) /\ \A g \in Files \ {f} : d[g] = w.disk[g]
  BY <1>2, MissingIs DEF IsWorld
<1>9. Copy(None, 0) # Missing
  BY MissingIs
<1>10. v.disk = d /\ v.sent = w.sent /\ v.fetched = w.fetched
  BY WorldIs
<1> HIDE DEF d, v, h, m
<1>11. Moves(w, h, m, d)
  <2>1. h.kind # "mtime" /\ h.kind # "size" /\ m.arg = f
    BY StepFacts DEF h, m
  <2> QED BY <1>2, <1>8, <1>9, <2>1 DEF Moves
<1>12. Speaks(U, "name")
  <2>1. ~Due(U)
    BY <1>2, StepFacts, DueIs
  <2> QED BY <1>4, <2>1, StepFacts DEF Speaks
<1>13. Loops(v, K, L)
  <2>1. \A g \in Files : w.disk[g] # Missing => v.disk[g] # Missing
    BY <1>8, <1>9, <1>10
  <2> QED BY <1>2, <2>1, LoopsKept
<1>14. Received(v, f, c, 0)
  <2>1. Sofar(c.len, 0) = 0 /\ 0 \in 0 .. Iterations(c.len)
    <3>1. 0 \in Nat /\ Iterations(c.len) \in Nat
      BY <1>2, IterationsIs
    <3>2. 0 <= Iterations(c.len)
      BY <3>1
    <3> QED BY <1>2, <3>1, <3>2, SofarIs
  <2>2. Copy(c.of, 0) = Copy(None, 0)
    BY MissingIs
  <2>3. \A g \in Files \ {f} : v.disk[g] \in Copies(g)
    BY <1>2, <1>8, <1>10 DEF AllWhole
  <2> QED BY <1>2, <1>8, <1>10, <2>1, <2>2, <2>3 DEF Received
<1>15. Exchange(v, P1, U)
  BY <1>13, <1>14 DEF Exchange, ClientTurn, TellsSize
<1>16. Serves(w, r, P, T, "name", f, P1, h, L, U)
  <2> HIDE DEF P1, U
  <2> QED BY <1>1, <1>2, <1>3, <1>4, <1>5, <1>6, <1>7, <1>11, <1>12, <1>15 DEF Serves, h, m, v
<1> QED BY <1>16 DEF Served

(* A file of which all parts are there.                                    *)
LEMMA ReadAll ==
    ASSUME NEW f, NEW n \in Nat, NEW L, IsSeq(L)
    PROVE  ReadParts(f, n, Iterations(n), L) = ReadEnd(f, L)
<1> DEFINE i == Iterations(n)
<1>1. i \in Nat /\ IsSeq(ReadEnd(f, L))
  BY IterationsIs, ThenIs DEF ReadEnd, ReadTime
<1>2. Run(ReadPart(f, n), i, i) = <<>> /\ ReadParts(f, n, i, L) = Cat(Run(ReadPart(f, n), i, i), ReadEnd(f, L))
  <2>1. ReadParts(f, n, i, L) = Cat(Run(ReadPart(f, n), i, i), ReadEnd(f, L))
    BY DEF ReadParts
  <2> HIDE DEF i
  <2> QED BY <1>1, <2>1, RunEnd
<1> QED BY <1>1, <1>2, CatEmpty

(* While parts are read no time is due.                                    *)
LEMMA ReadSpeaks ==
    ASSUME NEW f, NEW n \in Nat, NEW j \in Nat, j <= Iterations(n), NEW L, IsSeq(L)
    PROVE  ~Due(ReadParts(f, n, j, L))
<1>1. Iterations(n) \in Nat
  BY IterationsIs
<1>2. CASE j = Iterations(n)
  <2>1. ReadParts(f, n, j, L) = ReadEnd(f, L)
    BY <1>2, ReadAll
  <2>2. IsSeq(Then(Say("COMPLETE_ACK"), ReadTime(f, L)))
    BY ThenIs DEF ReadTime
  <2> QED BY <2>1, <2>2, StepFacts, DueIs DEF ReadEnd
<1>3. CASE j < Iterations(n)
  <2> DEFINE V == Then(Say("PART_RECEIVED"), ReadParts(f, n, j + 1, L))
  <2>1. j + 1 \in Nat /\ j + 1 <= Iterations(n)
    BY <1>1, <1>3
  <2>2. IsSeq(V)
    BY <2>1, ReadIs, ThenIs
  <2>3. ReadParts(f, n, j, L) = Then(Hear("part", <<f, PartSize(n, j + 1)>>), V)
    BY <1>3, ReadIs
  <2> QED BY <2>2, <2>3, StepFacts, DueIs
<1> QED BY <1>1, <1>2, <1>3

(* A leader that sends a file speaks next, and waits for no time.          *)
LEMMA GiveSpeaks ==
    ASSUME NEW c, c.len \in Nat, NEW j \in Nat, j <= Iterations(c.len), NEW L, IsSeq(L)
    PROVE  /\ IsSeq(GiveParts(c, j, L)) /\ GiveParts(c, j, L) # <<>>
           /\ Head(GiveParts(c, j, L)).do = "tell" /\ ~Due(GiveParts(c, j, L))
<1>1. Iterations(c.len) \in Nat /\ IsSeq(GiveParts(c, j, L))
  BY IterationsIs, GiveIs
<1>2. ASSUME NEW k, NEW x, NEW y, NEW U, IsSeq(U), y # "mtime",
             GiveParts(c, j, L) = Then(Tell(k, x), Then(Ack(y), U))
      PROVE  /\ GiveParts(c, j, L) # <<>>
             /\ Head(GiveParts(c, j, L)).do = "tell" /\ ~Due(GiveParts(c, j, L))
  <2>1. IsSeq(Then(Ack(y), U)) /\ ~Due(Then(Ack(y), U))
    BY <1>2, ThenIs, StepFacts, DueIs
  <2>2. ~Due(Then(Tell(k, x), Then(Ack(y), U)))
    BY <2>1, StepFacts, DueIs
  <2> QED BY <1>2, <2>1, <2>2, ThenIs, StepFacts
<1>3. CASE j = Iterations(c.len)
  <2>1. GiveParts(c, j, L) = GiveEnd(L)
    BY <1>3, GiveIs
  <2> QED BY <1>1, <1>2, <2>1, StepFacts DEF GiveEnd
<1>4. CASE j < Iterations(c.len)
  <2>1. j + 1 \in Nat /\ j + 1 <= Iterations(c.len)
    BY <1>1, <1>4
  <2>2. IsSeq(GiveParts(c, j + 1, L))
    BY <2>1, GiveIs
  <2>3. GiveParts(c, j, L) = Then(Tell("part", Copy(c.of, PartSize(c.len, j + 1))),
                                  Then(Ack("PART_RECEIVED"), GiveParts(c, j + 1, L)))
    BY <1>4, GiveIs
  <2> QED BY <1>1, <1>2, <2>2, <2>3
<1> QED BY <1>1, <1>3, <1>4

(* The leader takes the size of a file, and asks for its parts.            *)
LEMMA ServesSize ==
    ASSUME NEW w, IsWorld(w), NEW r, NEW P, NEW T, TellsSize(w, P, T)
    PROVE  Served(w, r, P, T)
<1>1. PICK f, c, K, L : /\ Received(w, f, c, 0) /\ Loops(w, K, L)
                        /\ P = PutSize(f, c, K) /\ T = Then(Hear("size", f), L)
  BY DEF TellsSize
<1>2. IsSeq(K) /\ IsSeq(L) /\ f \in Files /\ c \in Copies(f) \ {Missing} /\ c.len \in Nat
  BY <1>1, LoopsAre, CopiesAre DEF Received
<1> DEFINE h == Hear("size", f)
           m == Msg("size", c.len)
           P1 == Then(Ack("SIZE_ACK"), PutParts(f, c, 0, K))
           V == ReadParts(f, c.len, 0, L)
           U == Then(Say("SIZE_ACK"), V)
<1>3. 0 \in Nat /\ 0 <= Iterations(c.len)
  BY <1>2, IterationsIs
<1>4. IsSeq(PutParts(f, c, 0, K)) /\ IsSeq(V)
  BY <1>2, <1>3, PutIs, ReadIs
<1>5. IsSeq(P1) /\ P = Then(Tell("size", c.len), P1) /\ IsSeq(U) /\ Head(U) = Say("SIZE_ACK")
  BY <1>1, <1>4, ThenIs DEF PutSize
<1>6. U = Cat(NextSteps(h, m, w.disk, r), L)
  <2>1. NextSteps(h, m, w.disk, r) = ReceiveFileBody(f, c.len)
    BY StepFacts DEF NextSteps
  <2> QED BY <1>2, <2>1, ReceiveFileBodyIs
<1>7. Takes(h, m)
  BY StepFacts DEF Takes
<1>8. NextDisk(h, m, w.disk) = w.disk /\ Moves(w, h, m, w.disk) /\ WorldOf(w.disk, w.sent, w.fetched) = w
  <2>1. h.kind = "size" /\ m.arg = c.len
    BY StepFacts
  <2> HIDE DEF h, m
  <2> QED BY <1>2, <2>1, Stays
<1>9. Exchange(w, P1, U)
  BY <1>1 DEF Exchange, LeaderTurn, HearsSizeAck
<1>10. ~Due(V)
  BY <1>2, <1>3, ReadSpeaks
<1> HIDE DEF V
<1>11. Speaks(U, "size")
  BY <1>4, <1>5, <1>10, StepFacts, DueIs DEF Speaks
<1> HIDE DEF h, m, P1, U
<1>12. Serves(w, r, P, T, "size", c.len, P1, h, L, U)
  BY <1>1, <1>2, <1>5, <1>6, <1>7, <1>8, <1>9, <1>11 DEF Serves, h, m
<1> QED BY <1>12 DEF Served

(* A part is appended; when there are no more, the file is complete.       *)
LEMMA ServesPart ==
    ASSUME NEW w, IsWorld(w), NEW r, NEW P, NEW T, TellsPart(w, P, T)
    PROVE  Served(w, r, P, T)
<1>1. PICK f, c, j, K, L : /\ Received(w, f, c, j) /\ Loops(w, K, L)
                           /\ P = PutParts(f, c, j, K) /\ T = ReadParts(f, c.len, j, L)
  BY DEF TellsPart
<1>2. IsSeq(K) /\ IsSeq(L) /\ f \in Files /\ c \in Copies(f) \ {Missing} /\ c.len \in Nat
  BY <1>1, LoopsAre, CopiesAre DEF Received
<1>3. j \in Nat /\ j <= Iterations(c.len) /\ Iterations(c.len) \in Nat
  BY <1>1, <1>2, IterationsIs DEF Received
<1>4. CASE j = Iterations(c.len)
  <2> DEFINE P1 == Then(Hear("COMPLETE_ACK", <<f, c>>), PutTime(f, K))
             U == Then(Say("COMPLETE_ACK"), ReadTime(f, L))
  <2>1. IsSeq(PutTime(f, K)) /\ IsSeq(ReadTime(f, L))
    BY <1>2, ThenIs DEF PutTime, ReadTime
  <2>2. IsSeq(P1) /\ IsSeq(U) /\ Head(U) = Say("COMPLETE_ACK")
    BY <2>1, ThenIs
  <2>3. P = Then(Say("COMPLETE"), P1)
    BY <1>1, <1>2, <1>3, <1>4, PutIs DEF PutEnd
  <2>4. T = Then(Ack("COMPLETE"), U)
    <3>1. ReadParts(f, c.len, j, L) = ReadEnd(f, L)
      BY <1>2, <1>4, ReadAll
    <3> QED BY <1>1, <3>1 DEF ReadEnd
  <2>5. Exchange(w, P1, U)
    BY <1>1, <1>4 DEF Exchange, LeaderTurn, HearsCompleteAck
  <2>6. Head(U).do = "tell" /\ "COMPLETE" \in Acks
    BY <2>2, StepFacts DEF Acks
  <2> HIDE DEF P1, U
  <2>7. Serves(w, r, P, T, "COMPLETE", None, P1, Ack("COMPLETE"), U, U)
    BY <2>2, <2>3, <2>4, <2>5, <2>6, ServesAck
  <2> QED BY <2>7 DEF Served
<1>5. CASE j < Iterations(c.len)
  <2> DEFINE n == PartSize(c.len, j + 1)
             a == Copy(c.of, n)
             h == Hear("part", <<f, n>>)
             m == Msg("part", a)
             e == Copy(c.of, Sofar(c.len, j + 1))
             d == [w.disk EXCEPT ![f] = e]
             v == WorldOf(d, w.sent, w.fetched)
             P2 == PutParts(f, c, j + 1, K)
             P1 == Then(Ack("PART_RECEIVED"), P2)
             L2 == ReadParts(f, c.len, j + 1, L)
             L1 == Then(Say("PART_RECEIVED"), L2)
  <2>1. j + 1 \in Nat /\ j + 1 <= Iterations(c.len) /\ j + 1 \in 0 .. Iterations(c.len)
    BY <1>3, <1>5
  <2>2. IsSeq(P2) /\ IsSeq(L2) /\ ~Due(L2)
    BY <1>2, <2>1, PutIs, ReadIs, ReadSpeaks
  <2>3. IsSeq(P1) /\ IsSeq(L1) /\ Head(L1) = Say("PART_RECEIVED")
    BY <2>2, ThenIs
  <2>4. P = Then(Tell("part", a), P1)
    BY <1>1, <1>2, <1>3, <1>5, PutIs
  <2>5. T = Then(h, L1)
    BY <1>1, <1>2, <1>3, <1>5, ReadIs
  <2>6. /\ n \in 1 .. c.len /\ Sofar(c.len, j) \in 0 .. c.len /\ Sofar(c.len, j + 1) \in 0 .. c.len
        /\ Sofar(c.len, j + 1) = Sofar(c.len, j) + n
    BY <1>2, <1>3, <1>5, <2>1, SofarIs
  <2>7. a.of = c.of /\ w.disk[f] = Copy(c.of, Sofar(c.len, j)) /\ w.disk[f].len = Sofar(c.len, j)
    BY <1>1, <1>2, <2>6, CopiesAre, MissingIs DEF Received
  <2>8. e \in KnownCopies /\ e # Missing /\ w.sent[f] = Missing
    BY <1>1, <1>2, <2>6, CopiesAre, MissingIs DEF Received
  <2>9. d \in [Files -> KnownCopies] /\ d[f] = e /\ \A g \in Files \ {f} : d[g] = w.disk[g]
    <3> HIDE DEF e
    <3> QED BY <1>2, <2>8 DEF IsWorld
  <2>10. v.disk = d /\ v.sent = w.sent /\ v.fetched = w.fetched
    BY WorldIs
  <2>11. NextDisk(h, m, w.disk) = d
    <3>1. h.kind = "part" /\ h.arg[1] = f /\ h.arg[2] = n /\ m.arg = a
      BY StepFacts
    <3> HIDE DEF h, m, a, n
    <3> QED BY <2>6, <2>7, <3>1 DEF NextDisk
  <2>12. NextSteps(h, m, w.disk, r) = <<>> /\ Takes(h, m)
    BY StepFacts DEF NextSteps, Takes
  <2>13. L1 = Cat(<<>>, L1)
    BY <2>3, CatEmpty
  <2>14. h.kind = "part"
    BY StepFacts
  <2> HIDE DEF d, v, h, m, e, a
  <2>15. Moves(w, h, m, d)
    BY <2>8, <2>9, <2>14 DEF Moves
  <2>16. Speaks(L1, "part")
    BY <2>2, <2>3, StepFacts, DueIs DEF Speaks
  <2>17. Loops(v, K, L)
    <3>1. \A g \in Files : w.disk[g] # Missing => v.disk[g] # Missing
      BY <2>8, <2>9, <2>10
    <3> QED BY <1>1, <3>1, LoopsKept
  <2>18. Received(v, f, c, j + 1)
    BY <1>1, <1>2, <2>1, <2>9, <2>10 DEF Received, e
  <2>19. Exchange(v, P1, L1)
    BY <2>17, <2>18 DEF Exchange, LeaderTurn, HearsPartAck
  <2> HIDE DEF P1, L1
  <2>20. Serves(w, r, P, T, "part", a, P1, h, L1, L1)
    BY <2>3, <2>4, <2>5, <2>11, <2>12, <2>13, <2>15, <2>16, <2>19 DEF Serves, h, m, v
  <2> QED BY <2>20 DEF Served
<1> QED BY <1>3, <1>4, <1>5

(* The leader records the time of a file, which ends the upload.           *)
LEMMA ServesTime ==
    ASSUME NEW w, IsWorld(w), NEW r, NEW P, NEW T, TellsTime(w, P, T)
    PROVE  Served(w, r, P, T)
<1>1. PICK f, K, L : /\ AllWhole(w) /\ After(w, K, L) /\ f \in Files /\ w.disk[f] # Missing
                     /\ P = PutTime(f, K) /\ T = ReadTime(f, L)
  BY DEF TellsTime
<1>2. IsSeq(K) /\ IsSeq(L) /\ (L # <<>> => Head(L).do = "tell") /\ ~Due(L)
  BY <1>1, AfterSpeaks
<1> DEFINE h == Hear("mtime", f)
           m == Msg("mtime", f)
<1>3. P = Then(Tell("mtime", f), K) /\ T = Then(h, L)
  BY <1>1 DEF PutTime, ReadTime
<1>4. Exchange(w, K, L)
  BY <1>1, AfterExchange
<1>5. NextSteps(h, m, w.disk, r) = <<>> /\ Takes(h, m) /\ NextDisk(h, m, w.disk) = w.disk
  BY StepFacts DEF NextSteps, Takes, NextDisk
<1>6. Moves(w, h, m, w.disk)
  <2>1. h.kind = "mtime" /\ h.arg = f
    BY StepFacts
  <2> HIDE DEF h
  <2> QED BY <1>1, <2>1 DEF Moves, IsWorld
<1>7. WorldOf(w.disk, w.sent, w.fetched) = w /\ L = Cat(<<>>, L)
  BY <1>2, CatEmpty DEF IsWorld
<1>8. Speaks(L, "mtime")
  BY <1>2 DEF Speaks
<1> HIDE DEF h, m
<1>9. Serves(w, r, P, T, "mtime", f, K, h, L, L)
  BY <1>2, <1>3, <1>4, <1>5, <1>6, <1>7, <1>8 DEF Serves, m
<1> QED BY <1>9 DEF Served

(* The leader announces the file, and sends it if it is there.             *)
LEMMA ServesGetName ==
    ASSUME NEW w, IsWorld(w), NEW r, NEW P, NEW T, TellsGetName(w, P, T)
    PROVE  Served(w, r, P, T)
<1>1. PICK x, K, L : ToGet(w, x, K, L) /\ P = GetName(x, K) /\ T = Then(Hear("name", "GET_FILE"), L)
  BY DEF TellsGetName
<1> DEFINE f == x[1]
           c == w.disk[f]
           h == Hear("name", "GET_FILE")
           m == Msg("name", f)
           P1 == Then(Hear("EXISTS", x), K)
           V == GiveBody(c, L)
           U == Then(Say("EXISTS"), V)
<1>2. IsSeq(K) /\ IsSeq(L) /\ f \in Files /\ c \in Copies(f) /\ ~Due(L)
  BY <1>1, LoopSpeaks DEF ToGet, AllWhole
<1>3. c # Missing => c.len \in Nat
  BY <1>2, CopiesAre
<1>4. IsSeq(V) /\ ~Due(V)
  <2>1. CASE c = Missing
    BY <1>2, <2>1 DEF GiveBody
  <2>2. CASE c # Missing
    <3>1. 0 \in Nat /\ 0 <= Iterations(c.len) /\ V = GiveSize(c, L)
      BY <1>3, <2>2, IterationsIs DEF GiveBody
    <3>2. IsSeq(GiveParts(c, 0, L)) /\ IsSeq(V)
      BY <1>2, <1>3, <2>2, <3>1, GiveIs
    <3>3. IsSeq(Then(Ack("SIZE_ACK"), GiveParts(c, 0, L))) /\ ~Due(Then(Ack("SIZE_ACK"), GiveParts(c, 0, L)))
      BY <3>2, ThenIs, StepFacts, DueIs
    <3>4. ~Due(GiveSize(c, L))
      BY <3>3, StepFacts, DueIs DEF GiveSize
    <3> QED BY <3>1, <3>2, <3>4
  <2> QED BY <2>1, <2>2
<1> HIDE DEF V
<1>5. IsSeq(P1) /\ IsSeq(U) /\ Head(U) = Say("EXISTS") /\ P = Then(Tell("name", f), P1)
  BY <1>1, <1>2, <1>4, ThenIs DEF GetName
<1>6. U = Cat(NextSteps(h, m, w.disk, r), L)
  <2>1. NextSteps(h, m, w.disk, r) = Cat(<<Say("EXISTS")>>, SendFileBody(c))
    BY StepFacts DEF NextSteps, Named, Cat
  <2>2. IsSeq(SendFileBody(c)) /\ Cat(SendFileBody(c), L) = V
    BY <1>2, <1>3, SendFileBodyIs DEF V
  <2>3. NextSteps(h, m, w.disk, r) = Then(Say("EXISTS"), SendFileBody(c))
    BY <2>1, <2>2, CatTuples
  <2> QED BY <1>2, <2>2, <2>3, ThenCat
<1>7. Takes(h, m) /\ NextDisk(h, m, w.disk) = w.disk
  BY StepFacts DEF Takes, Purposes, NextDisk
<1>8. Moves(w, h, m, w.disk)
  <2>1. h.kind = "name" /\ m.arg = f
    BY StepFacts
  <2> HIDE DEF h, m
  <2> QED BY <1>2, <2>1 DEF Moves, IsWorld
<1>9. WorldOf(w.disk, w.sent, w.fetched) = w
  BY DEF IsWorld
<1>10. Speaks(U, "name")
  BY <1>4, <1>5, StepFacts, DueIs DEF Speaks
<1>11. Exchange(w, P1, U)
  BY <1>1 DEF Exchange, LeaderTurn, HearsExists, V
<1> HIDE DEF P1, U, h, m, f
<1>12. Serves(w, r, P, T, "name", f, P1, h, L, U)
  BY <1>1, <1>2, <1>5, <1>6, <1>7, <1>8, <1>9, <1>10, <1>11 DEF Serves, h, m
<1> QED BY <1>12 DEF Served

(* The client acknowledges the size and the parts.                         *)
LEMMA ServesParts ==
    ASSUME NEW w, IsWorld(w), NEW r, NEW x, NEW c, NEW j, NEW K, NEW L, Fetched(w, x, c, j), Loops(w, K, L),
           NEW k \in {"SIZE_ACK", "PART_RECEIVED"}, NEW P, NEW T,
           P = Then(Say(k), GetParts(x, c.len, j, K)), T = Then(Ack(k), GiveParts(c, j, L))
    PROVE  Served(w, r, P, T)
<1>1. IsSeq(K) /\ IsSeq(L) /\ c.len \in Nat
  BY LoopsAre, CopiesAre DEF Fetched, AllWhole
<1>2. j \in Nat /\ j <= Iterations(c.len)
  BY <1>1, IterationsIs DEF Fetched
<1> DEFINE P1 == GetParts(x, c.len, j, K)
           U == GiveParts(c, j, L)
<1>3. IsSeq(P1)
  BY <1>1, <1>2, GetIs
<1>4. IsSeq(U) /\ Head(U).do = "tell" /\ ~Due(U)
  BY <1>1, <1>2, GiveSpeaks
<1>5. Exchange(w, P1, U)
  BY DEF Exchange, LeaderTurn, HearsPart
<1> HIDE DEF P1, U
<1>6. Serves(w, r, P, T, k, None, P1, Ack(k), U, U)
  BY <1>3, <1>4, <1>5, ServesAck DEF Acks, P1, U
<1> QED BY <1>6 DEF Served

(* The leader gives the time of a record that the client has taken.        *)
LEMMA ServesRecordAck ==
    ASSUME NEW w, IsWorld(w), NEW r, NEW P, NEW T, TellsRecordAck(w, P, T)
    PROVE  Served(w, r, P, T)
<1>1. PICK f, K, L :
         /\ ToSync(w, f, K, L)
         /\ P = Then(Say("GET_FILE_ACK"), Then(Hear("mtime", f), K))
         /\ T = Then(Ack("GET_FILE_ACK"), Then(Tell("mtime", f), Then(Ack("answer"), L)))
  BY DEF TellsRecordAck
<1> DEFINE P1 == Then(Hear("mtime", f), K)
           V == Then(Ack("answer"), L)
           U == Then(Tell("mtime", f), V)
<1>2. IsSeq(K) /\ IsSeq(L)
  BY <1>1, LoopsAre DEF ToSync
<1>3. IsSeq(P1) /\ IsSeq(V) /\ IsSeq(U) /\ Head(U) = Tell("mtime", f)
  BY <1>2, ThenIs
<1>4. ~Due(V) /\ ~Due(U)
  BY <1>2, <1>3, StepFacts, DueIs
<1>5. Exchange(w, P1, U)
  BY <1>1 DEF Exchange, LeaderTurn, HearsTime
<1>6. Head(U).do = "tell" /\ "GET_FILE_ACK" \in Acks
  BY <1>3, StepFacts DEF Acks
<1> HIDE DEF V
<1>7. P = Then(Say("GET_FILE_ACK"), P1) /\ T = Then(Ack("GET_FILE_ACK"), U)
  BY <1>1 DEF V
<1> HIDE DEF P1, U
<1>8. Serves(w, r, P, T, "GET_FILE_ACK", None, P1, Ack("GET_FILE_ACK"), U, U)
  BY <1>3, <1>4, <1>5, <1>6, <1>7, ServesAck
<1> QED BY <1>8 DEF Served

(* The leader removes the file, if it is there.                            *)
LEMMA ServesGone ==
    ASSUME NEW w, IsWorld(w), NEW r, NEW P, NEW T, TellsGone(w, P, T)
    PROVE  Served(w, r, P, T)
<1>1. PICK f, K :
         /\ AllWhole(w) /\ f \in Files /\ w.sent[f] = Missing /\ Starts(w, K)
         /\ P = NameGone(f, K) /\ T = Then(Hear("name", "DELETE"), <<>>)
  BY DEF TellsGone
<1> DEFINE h == Hear("name", "DELETE")
           m == Msg("name", f)
           d == [w.disk EXCEPT ![f] = Missing]
           v == WorldOf(d, w.sent, w.fetched)
<1>2. IsSeq(K) /\ IsSeq(<<>>) /\ P = Then(Tell("name", f), K)
  BY <1>1, StartsAreSeqs, LastSeqs DEF NameGone
<1>3. d \in [Files -> KnownCopies] /\ d[f] = Missing /\ \A g \in Files \ {f} : d[g] = w.disk[g]
  BY <1>1, MissingIs DEF IsWorld
<1>4. v.disk = d /\ v.sent = w.sent /\ v.fetched = w.fetched
  BY WorldIs
<1>5. /\ NextDisk(h, m, w.disk) = d /\ NextSteps(h, m, w.disk, r) = <<>> /\ Takes(h, m)
      /\ h.kind = "name" /\ m.arg = f
  BY StepFacts DEF NextDisk, NextSteps, Named, Takes, Purposes
<1> HIDE DEF d, v, m
<1>6. Moves(w, h, m, d)
  <2>1. h.kind # "mtime"
    BY <1>5
  <2> HIDE DEF h
  <2> QED BY <1>1, <1>3, <1>5, <2>1 DEF Moves, h
<1>7. Exchange(v, K, <<>>)
  <2>1. AllWhole(v)
    BY <1>1, <1>3, <1>4 DEF AllWhole, Copies
  <2>2. Starts(v, K)
    BY <1>1, <1>4 DEF Starts
  <2> QED BY <2>1, <2>2, AfterExchange DEF After
<1>8. <<>> = Cat(<<>>, <<>>) /\ Speaks(<<>>, "name")
  BY CatEmpty, LastSeqs, DueIs DEF Speaks
<1> HIDE DEF h
<1>9. Serves(w, r, P, T, "name", f, K, h, <<>>, <<>>)
  BY <1>1, <1>2, <1>5, <1>6, <1>7, <1>8 DEF Serves, h, m, v
<1> QED BY <1>9 DEF Served

(* The leader takes the name of a file to lock, and answers.               *)
LEMMA ServesLockName ==
    ASSUME NEW w, IsWorld(w), NEW r, NEW P, NEW T, TellsLock(w, P, T)
    PROVE  Served(w, r, P, T)
<1>1. PICK f, k :
         /\ AllWhole(w) /\ f \in Files /\ k \in {"LOCK", "UNLOCK"}
         /\ P = NameLock(f) /\ T = Then(Hear("name", k), <<>>)
  BY DEF TellsLock
<1> DEFINE h == Hear("name", k)
           m == Msg("name", f)
           U == Then(Say("answer"), <<>>)
<1>2. IsSeq(HearLock) /\ IsSeq(<<>>) /\ P = Then(Tell("name", f), HearLock)
  BY <1>1, OthersAre, LastSeqs DEF NameLock
<1>3. IsSeq(U) /\ Head(U) = Say("answer")
  BY <1>2, ThenIs
<1>4. /\ NextDisk(h, m, w.disk) = w.disk /\ NextSteps(h, m, w.disk, r) = <<Say("answer")>>
      /\ Takes(h, m) /\ h.kind = "name" /\ m.arg = f /\ h.arg = k
  BY <1>1, StepFacts DEF NextDisk, NextSteps, Named, Takes, Purposes
<1>5. U = Cat(NextSteps(h, m, w.disk, r), <<>>)
  BY <1>2, <1>4, CatTuples
<1>6. Moves(w, h, m, w.disk)
  <2> HIDE DEF h, m
  <2> QED BY <1>1, <1>4 DEF Moves, IsWorld
<1>7. WorldOf(w.disk, w.sent, w.fetched) = w
  BY DEF IsWorld
<1>8. Exchange(w, HearLock, U)
  BY <1>1 DEF Exchange, LeaderTurn, HearsAnswer
<1>9. Speaks(U, "name")
  BY <1>2, <1>3, StepFacts, DueIs DEF Speaks
<1> HIDE DEF U, h
<1>10. Serves(w, r, P, T, "name", f, HearLock, h, <<>>, U)
  BY <1>1, <1>2, <1>3, <1>4, <1>5, <1>6, <1>7, <1>8, <1>9 DEF Serves, h
<1> QED BY <1>10 DEF Served

(* The leader gives more of an entry whose name the client has taken.      *)
LEMMA ServesEntryAck ==
    ASSUME NEW w, IsWorld(w), NEW r, NEW P, NEW T, TellsEntryAck(w, P, T)
    PROVE  Served(w, r, P, T)
<1>1. PICK K, L :
         /\ AllWhole(w) /\ Loops(w, K, L)
         /\ P = Then(Say("FILENAME_ACK"), Then(Ack("info"), Then(Say("FILE_OK"), K)))
         /\ T = Then(Ack("FILENAME_ACK"), Then(Say("info"), Then(Ack("FILE_OK"), L)))
  BY DEF TellsEntryAck
<1> DEFINE P2 == Then(Say("FILE_OK"), K)
           P1 == Then(Ack("info"), P2)
           V == Then(Ack("FILE_OK"), L)
           U == Then(Say("info"), V)
<1>2. IsSeq(K) /\ IsSeq(L)
  BY <1>1, LoopsAre
<1>3. IsSeq(P2) /\ IsSeq(V)
  BY <1>2, ThenIs
<1>4. IsSeq(P1) /\ IsSeq(U) /\ Head(U) = Say("info") /\ ~Due(V)
  <2>1. ~Due(V)
    BY <1>2, StepFacts, DueIs
  <2> QED BY <1>3, <2>1, ThenIs
<1>5. ~Due(U) /\ Head(U).do = "tell"
  BY <1>3, <1>4, StepFacts, DueIs
<1>6. Exchange(w, P1, U)
  BY <1>1 DEF Exchange, LeaderTurn, HearsInfo
<1>7. P = Then(Say("FILENAME_ACK"), P1) /\ T = Then(Ack("FILENAME_ACK"), U)
  BY <1>1
<1> HIDE DEF P1, U
<1>8. Serves(w, r, P, T, "FILENAME_ACK", None, P1, Ack("FILENAME_ACK"), U, U)
  BY <1>4, <1>5, <1>6, <1>7, ServesAck
<1> QED BY <1>8 DEF Served

(* The last acknowledgement of a file, a record, a number or an entry.     *)
LEMMA ServesLast ==
    ASSUME NEW w, IsWorld(w), NEW r, NEW P, NEW T, TellsLast(w, P, T)
    PROVE  Served(w, r, P, T)
<1>1. PICK k, K, L :
         /\ AllWhole(w) /\ After(w, K, L)
         /\ \/ k \in {"COMPLETE_ACK", "NUMBER_ACK", "FILE_OK"} /\ T = Then(Ack(k), L)
            \/ k = "SYNC_OK" /\ T = Then(Ack("answer"), L)
         /\ P = Then(Say(k), K)
  BY DEF TellsLast
<1>2. IsSeq(K) /\ IsSeq(L) /\ (L # <<>> => Head(L).do = "tell") /\ ~Due(L)
  BY <1>1, AfterSpeaks
<1>3. Exchange(w, K, L)
  BY <1>1, AfterExchange
<1>4. CASE k \in {"COMPLETE_ACK", "NUMBER_ACK", "FILE_OK"} /\ T = Then(Ack(k), L)
  <2>1. k \in Acks
    BY <1>4 DEF Acks
  <2>2. Serves(w, r, P, T, k, None, K, Ack(k), L, L)
    BY <1>1, <1>2, <1>3, <1>4, <2>1, ServesAck
  <2> QED BY <2>2 DEF Served
<1>5. CASE k = "SYNC_OK" /\ T = Then(Ack("answer"), L)
  <2>1. "SYNC_OK" \in AnswerKinds /\ L = Cat(Handler(r, "SYNC_OK"), L)
    BY <1>2, HandlerIs, CatEmpty DEF AnswerKinds
  <2>2. Serves(w, r, P, T, k, None, K, Ack("answer"), L, L)
    BY <1>1, <1>2, <1>3, <1>5, <2>1, ServesCommand
  <2> QED BY <2>2 DEF Served
<1> QED BY <1>1, <1>4, <1>5

(* All that the client may have told is what the leader waits for.         *)
LEMMA ServesClient ==
    ASSUME NEW w, IsWorld(w), NEW r, OnDisk(w, r), NEW P, NEW T, ClientTurn(w, P, T)
    PROVE  Served(w, r, P, T)
<1>1. CASE TellsSizeAck(w, P, T)
  BY <1>1, ServesParts DEF TellsSizeAck
<1>2. CASE TellsPartAck(w, P, T)
  BY <1>2, ServesParts DEF TellsPartAck
<1>3. CASE AnswersGet(w, P, T)
  <2>1. PICK f, K, L : ToSync(w, f, K, L) /\ P = GetStart(<<f, "sync_dir">>, K) /\ T = Then(Ack("answer"), L)
    BY <1>3 DEF AnswersGet
  <2>2. ToGet(w, <<f, "sync_dir">>, K, L)
    BY <2>1 DEF ToSync, ToGet, Places
  <2> QED BY <2>1, <2>2, ServesGet
<1>4. CASE AnswersSend(w, P, T)
  BY <1>4, ServesPut DEF AnswersSend
<1> QED BY <1>1, <1>2, <1>3, <1>4, ServesUser, ServesAll, ServesName, ServesSize, ServesPart, ServesTime,
           ServesGetName, ServesRecordAck, ServesGone, ServesLockName, ServesEntryAck, ServesLast
        DEF ClientTurn, Served

(* What the client goes on with that waits for h and gets m, and what      *)
(* becomes of what it has uploaded and is fetching; l are its own copies.  *)
ClientAcks == {"LOGIN_OK", "SEND_FILE_ACK", "SIZE_ACK", "PART_RECEIVED", "GET_FILE_ACK",
               "LIST_ACK", "DELETE_ACK", "LOCK_ACK", "UNLOCK_ACK", "answer", "entry", "info"}
ListTurn == <<Ack("entry"), Say("FILENAME_ACK"), Ack("info"), Say("FILE_OK")>>
Replies(w, l, h, m, v, steps) ==
    \/ h.kind \in ClientAcks /\ steps = <<>> /\ v = w
    \/ /\ h.kind = "COMPLETE_ACK" /\ steps = <<>>
       /\ v = WorldOf(w.disk, [w.sent EXCEPT ![h.arg[1]] = h.arg[2]], w.fetched)
    \/ h.kind = "EXISTS" /\ steps = <<Hear("size", h.arg)>> /\ v = WorldOf(w.disk, w.sent, Copy(None, 0))
    \/ h.kind = "size" /\ steps = GetFileBody(h.arg[1], h.arg[2], m.arg) /\ v = w
    \/ h.kind = "part" /\ steps = <<>> /\ v = WorldOf(w.disk, w.sent, Copy(m.arg.of, w.fetched.len + h.arg))
    \/ h.kind = "COMPLETE" /\ steps = <<>> /\ v = WorldOf(w.disk, w.sent, Missing)
    \/ h.kind = "number" /\ h.arg = "list" /\ steps = Times(m.arg, ListTurn) /\ v = w
    \/ /\ h.kind = "number" /\ h.arg = "sync" /\ v = w
       /\ steps = <<Say("NUMBER_ACK")>> \o Times(m.arg, <<Ack("record")>>) \o Rest
    \/ h.kind = "record" /\ steps = <<Say("GET_FILE_ACK"), Hear("mtime", m.arg)>> /\ v = w
    \/ h.kind = "mtime" /\ \/ steps = GetFile(h.arg, "sync_dir") /\ v = w
                           \/ /\ steps = SendFile(h.arg, l[h.arg]) /\ l[h.arg] # Missing
                              /\ v = WorldOf(w.disk, [w.sent EXCEPT ![h.arg] = Missing], w.fetched)
                           \/ steps = <<Say("SYNC_OK")>> /\ v = w

(* What holds of a message and of the step that waits for it.              *)
Fair(w, k, x, y, T1) ==
    /\ k = "COMPLETE_ACK" => x[1] \in Files /\ x[2] = w.disk[x[1]] /\ x[2] \in Copies(x[1]) /\ Due(T1)
    /\ k = "part" => Copy(y.of, w.fetched.len + x) \in KnownCopies
    /\ k = "COMPLETE" => /\ x[1] \in Files /\ w.fetched = w.disk[x[1]]
                         /\ w.fetched \in Copies(x[1]) \ {Missing}
    /\ k \in {"size", "number"} => y \in Nat
    /\ k = "record" => y \in Files
    /\ k = "mtime" => x \in Files

(* The client, that has P to do, gets what it waits for, k about x, from   *)
(* the leader, that has T to do; it goes on, and they still fit.           *)
Answers(w, l, P, T, k, x, y, P1, T1) ==
    /\ IsSeq(P1) /\ IsSeq(T1) /\ P = Then(Hear(k, x), P1) /\ T = Then(Tell(k, y), T1)
    /\ Fair(w, k, x, y, T1)
    /\ \A v, steps : Replies(w, l, Hear(k, x), Msg(k, y), v, steps) =>
                        IsSeq(steps) /\ Exchange(v, Cat(steps, P1), T1)
Answered(w, l, P, T) == \E k, x, y, P1, T1 : Answers(w, l, P, T, k, x, y, P1, T1)

(* An acknowledgement changes nothing of the client.                       *)
LEMMA RepliesAck ==
    ASSUME NEW w, NEW l, NEW k \in ClientAcks, NEW x, NEW y, NEW v, NEW steps,
           Replies(w, l, Hear(k, x), Msg(k, y), v, steps)
    PROVE  steps = <<>> /\ v = w
<1> DEFINE h == Hear(k, x)
           m == Msg(k, y)
<1>1. h.kind = k /\ h.arg = x /\ m.arg = y
  BY StepFacts
<1>2. Replies(w, l, h, m, v, steps)
  OBVIOUS
<1> HIDE DEF h, m
<1> QED BY <1>1, <1>2 DEF Replies, ClientAcks

(* COMPLETE_ACK: the file has been uploaded.                               *)
LEMMA RepliesComplete ==
    ASSUME NEW w, NEW l, NEW x, NEW y, NEW v, NEW steps,
           Replies(w, l, Hear("COMPLETE_ACK", x), Msg("COMPLETE_ACK", y), v, steps)
    PROVE  steps = <<>> /\ v = WorldOf(w.disk, [w.sent EXCEPT ![x[1]] = x[2]], w.fetched)
<1> DEFINE h == Hear("COMPLETE_ACK", x)
           m == Msg("COMPLETE_ACK", y)
<1>1. h.kind = "COMPLETE_ACK" /\ h.arg = x /\ m.arg = y
  BY StepFacts
<1>2. Replies(w, l, h, m, v, steps)
  OBVIOUS
<1> HIDE DEF h, m
<1> QED BY <1>1, <1>2 DEF Replies, ClientAcks

(* EXISTS: the client creates the file, and waits for its size.            *)
LEMMA RepliesExists ==
    ASSUME NEW w, NEW l, NEW x, NEW y, NEW v, NEW steps,
           Replies(w, l, Hear("EXISTS", x), Msg("EXISTS", y), v, steps)
    PROVE  steps = <<Hear("size", x)>> /\ v = WorldOf(w.disk, w.sent, Copy(None, 0))
<1> DEFINE h == Hear("EXISTS", x)
           m == Msg("EXISTS", y)
<1>1. h.kind = "EXISTS" /\ h.arg = x /\ m.arg = y
  BY StepFacts
<1>2. Replies(w, l, h, m, v, steps)
  OBVIOUS
<1> HIDE DEF h, m
<1> QED BY <1>1, <1>2 DEF Replies, ClientAcks

(* The size of a file to get: as many parts follow.                        *)
LEMMA RepliesSize ==
    ASSUME NEW w, NEW l, NEW x, NEW y, NEW v, NEW steps,
           Replies(w, l, Hear("size", x), Msg("size", y), v, steps)
    PROVE  steps = GetFileBody(x[1], x[2], y) /\ v = w
<1> DEFINE h == Hear("size", x)
           m == Msg("size", y)
<1>1. h.kind = "size" /\ h.arg = x /\ m.arg = y
  BY StepFacts
<1>2. Replies(w, l, h, m, v, steps)
  OBVIOUS
<1> HIDE DEF h, m
<1> QED BY <1>1, <1>2 DEF Replies, ClientAcks

(* A part is written after those before it.                                *)
LEMMA RepliesPart ==
    ASSUME NEW w, NEW l, NEW x, NEW y, NEW v, NEW steps,
           Replies(w, l, Hear("part", x), Msg("part", y), v, steps)
    PROVE  steps = <<>> /\ v = WorldOf(w.disk, w.sent, Copy(y.of, w.fetched.len + x))
<1> DEFINE h == Hear("part", x)
           m == Msg("part", y)
<1>1. h.kind = "part" /\ h.arg = x /\ m.arg = y
  BY StepFacts
<1>2. Replies(w, l, h, m, v, steps)
  OBVIOUS
<1> HIDE DEF h, m
<1> QED BY <1>1, <1>2 DEF Replies, ClientAcks

(* COMPLETE: the file has been fetched.                                    *)
LEMMA RepliesEnd ==
    ASSUME NEW w, NEW l, NEW x, NEW y, NEW v, NEW steps,
           Replies(w, l, Hear("COMPLETE", x), Msg("COMPLETE", y), v, steps)
    PROVE  steps = <<>> /\ v = WorldOf(w.disk, w.sent, Missing)
<1> DEFINE h == Hear("COMPLETE", x)
           m == Msg("COMPLETE", y)
<1>1. h.kind = "COMPLETE" /\ h.arg = x /\ m.arg = y
  BY StepFacts
<1>2. Replies(w, l, h, m, v, steps)
  OBVIOUS
<1> HIDE DEF h, m
<1> QED BY <1>1, <1>2 DEF Replies, ClientAcks

(* The number of entries: as many follow.                                  *)
LEMMA RepliesList ==
    ASSUME NEW w, NEW l, NEW y, NEW v, NEW steps,
           Replies(w, l, Hear("number", "list"), Msg("number", y), v, steps)
    PROVE  steps = Times(y, ListTurn) /\ v = w
<1> DEFINE h == Hear("number", "list")
           m == Msg("number", y)
<1>1. h.kind = "number" /\ h.arg = "list" /\ m.arg = y
  BY StepFacts
<1>2. Replies(w, l, h, m, v, steps)
  OBVIOUS
<1> HIDE DEF h, m
<1> QED BY <1>1, <1>2 DEF Replies, ClientAcks, Cat

(* The number of records: as many follow, and then the sync thread rests.  *)
LEMMA RepliesSync ==
    ASSUME NEW w, NEW l, NEW y, NEW v, NEW steps,
           Replies(w, l, Hear("number", "sync"), Msg("number", y), v, steps)
    PROVE  steps = Cat(Cat(<<Say("NUMBER_ACK")>>, Times(y, <<Ack("record")>>)), Rest) /\ v = w
<1> DEFINE h == Hear("number", "sync")
           m == Msg("number", y)
<1>1. h.kind = "number" /\ h.arg = "sync" /\ m.arg = y
  BY StepFacts
<1>2. Replies(w, l, h, m, v, steps)
  OBVIOUS
<1> HIDE DEF h, m
<1> QED BY <1>1, <1>2 DEF Replies, ClientAcks, Cat

(* A record: the client asks for its time.                                 *)
LEMMA RepliesRecord ==
    ASSUME NEW w, NEW l, NEW x, NEW y, NEW v, NEW steps,
           Replies(w, l, Hear("record", x), Msg("record", y), v, steps)
    PROVE  steps = <<Say("GET_FILE_ACK"), Hear("mtime", y)>> /\ v = w
<1> DEFINE h == Hear("record", x)
           m == Msg("record", y)
<1>1. h.kind = "record" /\ h.arg = x /\ m.arg = y
  BY StepFacts
<1>2. Replies(w, l, h, m, v, steps)
  OBVIOUS
<1> HIDE DEF h, m
<1> QED BY <1>1, <1>2 DEF Replies, ClientAcks

(* The time of a record: the client gets the file, sends its own, or       *)
(* neither.                                                                *)
LEMMA RepliesTime ==
    ASSUME NEW w, NEW l, NEW x, NEW y, NEW v, NEW steps,
           Replies(w, l, Hear("mtime", x), Msg("mtime", y), v, steps)
    PROVE  \/ steps = GetFile(x, "sync_dir") /\ v = w
           \/ /\ steps = SendFile(x, l[x]) /\ l[x] # Missing
              /\ v = WorldOf(w.disk, [w.sent EXCEPT ![x] = Missing], w.fetched)
           \/ steps = <<Say("SYNC_OK")>> /\ v = w
<1> DEFINE h == Hear("mtime", x)
           m == Msg("mtime", y)
<1>1. h.kind = "mtime" /\ h.arg = x /\ m.arg = y
  BY StepFacts
<1>2. Replies(w, l, h, m, v, steps)
  OBVIOUS
<1> HIDE DEF h, m
<1> QED BY <1>1, <1>2 DEF Replies, ClientAcks

(* What the leader tells that changes nothing of the client.               *)
LEMMA AnswersAck ==
    ASSUME NEW w, NEW l, NEW k \in ClientAcks, NEW P, NEW T, NEW P1, NEW T1, IsSeq(P1), IsSeq(T1),
           P = Then(Ack(k), P1), T = Then(Say(k), T1), Exchange(w, P1, T1)
    PROVE  Answered(w, l, P, T)
<1>1. P = Then(Hear(k, None), P1) /\ T = Then(Tell(k, None), T1)
  BY StepFacts
<1>2. Fair(w, k, None, None, T1)
  BY DEF Fair, ClientAcks
<1>3. ASSUME NEW v, NEW steps, Replies(w, l, Hear(k, None), Msg(k, None), v, steps)
      PROVE  IsSeq(steps) /\ Exchange(v, Cat(steps, P1), T1)
  <2>1. steps = <<>> /\ v = w
    BY <1>3, RepliesAck
  <2> QED BY <2>1, CatEmpty, LastSeqs
<1>4. Answers(w, l, P, T, k, None, None, P1, T1)
  BY <1>1, <1>2, <1>3 DEF Answers
<1> QED BY <1>4 DEF Answered

(* The simple ones.                                                        *)
LEMMA AnsweredAck ==
    ASSUME NEW w, NEW l, NEW P, NEW T,
           \/ HearsLogin(w, P, T) \/ HearsSendAck(w, P, T) \/ HearsSizeAck(w, P, T) \/ HearsPartAck(w, P, T)
           \/ HearsGetAck(w, P, T) \/ HearsDeleteAck(w, P, T) \/ HearsLockAck(w, P, T)
           \/ HearsAnswer(w, P, T) \/ HearsListAck(w, P, T) \/ HearsInfo(w, P, T)
    PROVE  Answered(w, l, P, T)
<1>1. ASSUME NEW a, NEW s, IsSeq(s) PROVE IsSeq(Then(a, s))
  BY <1>1, ThenIs
<1>2. IsSeq(<<>>)
  BY LastSeqs
<1>3. CASE HearsLogin(w, P, T)
  <2>1. AllWhole(w) /\ P = Then(Ack("LOGIN_OK"), SyncStart) /\ T = Then(Say("LOGIN_OK"), <<>>)
    BY <1>3 DEF HearsLogin
  <2>2. Exchange(w, SyncStart, <<>>)
    BY <2>1, AfterExchange DEF After, Starts
  <2> QED BY <1>2, <2>1, <2>2, AnswersAck, OthersAre DEF ClientAcks
<1>4. CASE HearsSendAck(w, P, T)
  <2>1. PICK f, c, K, L :
           /\ ToPut(w, f, c, K, L)
           /\ P = Then(Ack("SEND_FILE_ACK"), PutName(f, c, K))
           /\ T = Then(Say("SEND_FILE_ACK"), Then(Hear("name", "SEND_FILE"), L))
    BY <1>4 DEF HearsSendAck
  <2> DEFINE P1 == PutName(f, c, K)
             T1 == Then(Hear("name", "SEND_FILE"), L)
  <2>2. IsSeq(K) /\ IsSeq(L) /\ c.len \in Nat /\ 0 \in Nat /\ 0 <= Iterations(c.len)
    BY <2>1, LoopsAre, CopiesAre, IterationsIs DEF ToPut
  <2>3. IsSeq(P1) /\ IsSeq(T1)
    BY <1>1, <2>2, PutIs
  <2>4. Exchange(w, P1, T1)
    BY <2>1 DEF Exchange, ClientTurn, TellsName
  <2> HIDE DEF P1, T1
  <2> QED BY <2>1, <2>3, <2>4, AnswersAck DEF ClientAcks, P1, T1
<1>5. CASE HearsSizeAck(w, P, T)
  <2>1. PICK f, c, K, L :
           /\ Received(w, f, c, 0) /\ Loops(w, K, L)
           /\ P = Then(Ack("SIZE_ACK"), PutParts(f, c, 0, K))
           /\ T = Then(Say("SIZE_ACK"), ReadParts(f, c.len, 0, L))
    BY <1>5 DEF HearsSizeAck
  <2> DEFINE P1 == PutParts(f, c, 0, K)
             T1 == ReadParts(f, c.len, 0, L)
  <2>2. IsSeq(K) /\ IsSeq(L) /\ c.len \in Nat /\ 0 \in Nat /\ 0 <= Iterations(c.len)
    BY <2>1, LoopsAre, CopiesAre, IterationsIs DEF Received
  <2>3. IsSeq(P1) /\ IsSeq(T1)
    BY <2>2, PutIs, ReadIs
  <2>4. Exchange(w, P1, T1)
    BY <2>1 DEF Exchange, ClientTurn, TellsPart
  <2> HIDE DEF P1, T1
  <2> QED BY <2>1, <2>3, <2>4, AnswersAck DEF ClientAcks, P1, T1
<1>6. CASE HearsPartAck(w, P, T)
  <2>1. PICK f, c, j, K, L :
           /\ Received(w, f, c, j) /\ Loops(w, K, L)
           /\ P = Then(Ack("PART_RECEIVED"), PutParts(f, c, j, K))
           /\ T = Then(Say("PART_RECEIVED"), ReadParts(f, c.len, j, L))
    BY <1>6 DEF HearsPartAck
  <2> DEFINE P1 == PutParts(f, c, j, K)
             T1 == ReadParts(f, c.len, j, L)
  <2>2. IsSeq(K) /\ IsSeq(L) /\ c.len \in Nat /\ j \in Nat /\ j <= Iterations(c.len)
    <3>1. IsSeq(K) /\ IsSeq(L) /\ c.len \in Nat
      BY <2>1, LoopsAre, CopiesAre DEF Received
    <3> QED BY <2>1, <3>1, IterationsIs DEF Received
  <2>3. IsSeq(P1) /\ IsSeq(T1)
    BY <2>2, PutIs, ReadIs
  <2>4. Exchange(w, P1, T1)
    BY <2>1 DEF Exchange, ClientTurn, TellsPart
  <2> HIDE DEF P1, T1
  <2> QED BY <2>1, <2>3, <2>4, AnswersAck DEF ClientAcks, P1, T1
<1>7. CASE HearsGetAck(w, P, T)
  <2>1. PICK x, K, L :
           /\ ToGet(w, x, K, L)
           /\ P = Then(Ack("GET_FILE_ACK"), GetName(x, K))
           /\ T = Then(Say("GET_FILE_ACK"), Then(Hear("name", "GET_FILE"), L))
    BY <1>7 DEF HearsGetAck
  <2> DEFINE P1 == GetName(x, K)
             T1 == Then(Hear("name", "GET_FILE"), L)
  <2>2. IsSeq(K) /\ IsSeq(L)
    BY <2>1, LoopsAre DEF ToGet
  <2>3. IsSeq(P1) /\ IsSeq(T1)
    BY <1>1, <2>2 DEF GetName
  <2>4. Exchange(w, P1, T1)
    BY <2>1 DEF Exchange, ClientTurn, TellsGetName
  <2> HIDE DEF P1, T1
  <2> QED BY <2>1, <2>3, <2>4, AnswersAck DEF ClientAcks, P1, T1
<1>8. CASE HearsDeleteAck(w, P, T)
  <2>1. PICK f :
           /\ AllWhole(w) /\ f \in Files /\ w.sent[f] = Missing
           /\ P = Then(Ack("DELETE_ACK"), NameGone(f, <<>>))
           /\ T = Then(Say("DELETE_ACK"), Then(Hear("name", "DELETE"), <<>>))
    BY <1>8 DEF HearsDeleteAck
  <2> DEFINE P1 == NameGone(f, <<>>)
             T1 == Then(Hear("name", "DELETE"), <<>>)
  <2>2. IsSeq(P1) /\ IsSeq(T1)
    BY <1>1, <1>2, OthersAre
  <2>3. Exchange(w, P1, T1)
    BY <2>1 DEF Exchange, ClientTurn, TellsGone, Starts
  <2> HIDE DEF P1, T1
  <2> QED BY <2>1, <2>2, <2>3, AnswersAck DEF ClientAcks, P1, T1
<1>9. CASE HearsLockAck(w, P, T)
  <2>1. PICK f, k :
           /\ AllWhole(w) /\ f \in Files /\ k \in {"LOCK", "UNLOCK"}
           /\ P = Then(Ack(LockAck(k)), NameLock(f))
           /\ T = Then(Say(LockAck(k)), Then(Hear("name", k), <<>>))
    BY <1>9 DEF HearsLockAck
  <2> DEFINE P1 == NameLock(f)
             T1 == Then(Hear("name", k), <<>>)
  <2>2. IsSeq(P1) /\ IsSeq(T1) /\ LockAck(k) \in ClientAcks
    BY <1>1, <1>2, OthersAre DEF LockAck, ClientAcks
  <2>3. Exchange(w, P1, T1)
    BY <2>1 DEF Exchange, ClientTurn, TellsLock
  <2> HIDE DEF P1, T1
  <2> QED BY <2>1, <2>2, <2>3, AnswersAck DEF P1, T1
<1>10. CASE HearsAnswer(w, P, T)
  <2>1. AllWhole(w) /\ P = Then(Ack("answer"), <<>>) /\ T = Then(Say("answer"), <<>>)
    BY <1>10 DEF HearsAnswer, HearLock
  <2>2. Exchange(w, <<>>, <<>>)
    BY <2>1, AfterExchange DEF After, Starts
  <2> QED BY <1>2, <2>1, <2>2, AnswersAck DEF ClientAcks
<1>11. CASE HearsListAck(w, P, T)
  <2>1. PICK n \in Nat :
           /\ AllWhole(w) /\ P = Then(Ack("LIST_ACK"), ListHear)
           /\ T = Then(Say("LIST_ACK"), Then(Tell("number", n), Run(SentEntry, 0, n)))
    BY <1>11 DEF HearsListAck
  <2> DEFINE T1 == Then(Tell("number", n), Run(SentEntry, 0, n))
  <2>2. IsSeq(T1)
    BY <1>1, ListsAre
  <2>3. Exchange(w, ListHear, T1)
    BY <2>1 DEF Exchange, LeaderTurn, HearsEntries
  <2> HIDE DEF T1
  <2> QED BY <2>1, <2>2, <2>3, OthersAre, AnswersAck DEF ClientAcks, T1
<1>12. CASE HearsInfo(w, P, T)
  <2>1. PICK K, L :
           /\ AllWhole(w) /\ Loops(w, K, L)
           /\ P = Then(Ack("info"), Then(Say("FILE_OK"), K))
           /\ T = Then(Say("info"), Then(Ack("FILE_OK"), L))
    BY <1>12 DEF HearsInfo
  <2> DEFINE P1 == Then(Say("FILE_OK"), K)
             T1 == Then(Ack("FILE_OK"), L)
  <2>2. IsSeq(P1) /\ IsSeq(T1)
    BY <1>1, <2>1, LoopsAre
  <2>3. Exchange(w, P1, T1)
    BY <2>1 DEF Exchange, ClientTurn, TellsLast, After
  <2> HIDE DEF P1, T1
  <2> QED BY <2>1, <2>2, <2>3, AnswersAck DEF ClientAcks, P1, T1
<1> QED BY <1>3, <1>4, <1>5, <1>6, <1>7, <1>8, <1>9, <1>10, <1>11, <1>12

(* The leader has all of an upload: what was acknowledged is on its disk.  *)
LEMMA AnsweredComplete ==
    ASSUME NEW w, IsWorld(w), w.sent \in Directories, NEW l, NEW P, NEW T, HearsCompleteAck(w, P, T)
    PROVE  Answered(w, l, P, T)
<1>1. PICK f, c, K, L :
         /\ Received(w, f, c, Iterations(c.len)) /\ Loops(w, K, L)
         /\ P = Then(Hear("COMPLETE_ACK", <<f, c>>), PutTime(f, K))
         /\ T = Then(Say("COMPLETE_ACK"), ReadTime(f, L))
  BY DEF HearsCompleteAck
<1> DEFINE x == <<f, c>>
           P1 == PutTime(f, K)
           T1 == ReadTime(f, L)
           v == WorldOf(w.disk, [w.sent EXCEPT ![f] = c], w.fetched)
<1>2. IsSeq(K) /\ IsSeq(L) /\ f \in Files /\ c \in Copies(f) \ {Missing} /\ c.len \in Nat
  BY <1>1, LoopsAre, CopiesAre DEF Received
<1>3. IsSeq(P1) /\ IsSeq(T1) /\ T = Then(Tell("COMPLETE_ACK", None), T1)
  BY <1>1, <1>2, ThenIs, StepFacts DEF PutTime, ReadTime
<1>4. Due(T1)
  BY <1>2, StepFacts, DueIs DEF ReadTime
<1>5. w.disk[f] = c /\ AllWhole(w)
  <2>1. Iterations(c.len) \in Nat
    BY <1>2, IterationsIs
  <2>2. Sofar(c.len, Iterations(c.len)) = c.len
    BY <1>2, <2>1, SofarIs
  <2>3. w.disk[f] = c
    BY <1>1, <1>2, <2>2, CopiesAre DEF Received
  <2> QED BY <1>1, <1>2, <2>3 DEF AllWhole, Received
<1>6. Fair(w, "COMPLETE_ACK", x, None, T1)
  BY <1>2, <1>4, <1>5 DEF Fair
<1>7. v.disk = w.disk
  BY WorldIs
<1>8. Exchange(v, P1, T1)
  <2>1. Loops(v, K, L)
    BY <1>1, <1>7, LoopsKept
  <2>2. TellsTime(v, P1, T1)
    BY <1>2, <1>5, <1>7, <2>1 DEF TellsTime, After, AllWhole
  <2> QED BY <2>2 DEF Exchange, ClientTurn
<1> HIDE DEF P1, T1
<1>9. ASSUME NEW u, NEW steps, Replies(w, l, Hear("COMPLETE_ACK", x), Msg("COMPLETE_ACK", None), u, steps)
      PROVE  IsSeq(steps) /\ Exchange(u, Cat(steps, P1), T1)
  <2>1. steps = <<>> /\ u = WorldOf(w.disk, [w.sent EXCEPT ![x[1]] = x[2]], w.fetched)
    <3> HIDE DEF x
    <3> QED BY <1>9, RepliesComplete
  <2>2. u = v
    BY <2>1
  <2> HIDE DEF v
  <2> QED BY <1>3, <1>8, <2>1, <2>2, CatEmpty, LastSeqs
<1> HIDE DEF x
<1>10. P = Then(Hear("COMPLETE_ACK", x), P1)
  BY <1>1 DEF x, P1
<1>11. Answers(w, l, P, T, "COMPLETE_ACK", x, None, P1, T1)
  BY <1>3, <1>6, <1>9, <1>10 DEF Answers
<1> QED BY <1>11 DEF Answered

(* The leader announces a file, and sends it if it has it.                 *)
LEMMA AnsweredExists ==
    ASSUME NEW w, IsWorld(w), NEW l, NEW P, NEW T, HearsExists(w, P, T)
    PROVE  Answered(w, l, P, T)
<1>1. PICK x, K, L :
         /\ ToGet(w, x, K, L)
         /\ P = Then(Hear("EXISTS", x), K)
         /\ T = Then(Say("EXISTS"), GiveBody(w.disk[x[1]], L))
  BY DEF HearsExists
<1> DEFINE c == w.disk[x[1]]
           T1 == GiveBody(c, L)
           v == WorldOf(w.disk, w.sent, Copy(None, 0))
           P1 == Then(Hear("size", x), K)
<1>2. IsSeq(K) /\ IsSeq(L) /\ x[1] \in Files /\ c \in Copies(x[1]) /\ (c # Missing => c.len \in Nat)
      /\ Loops(w, K, L) /\ AllWhole(w)
  BY <1>1, LoopsAre, CopiesAre DEF ToGet, AllWhole
<1>3. IsSeq(T1) /\ T = Then(Tell("EXISTS", None), T1)
  <2>1. CASE c = Missing
    BY <1>1, <1>2, <2>1, StepFacts DEF GiveBody
  <2>2. CASE c # Missing
    <3>1. 0 \in Nat /\ 0 <= Iterations(c.len)
      BY <1>2, <2>2, IterationsIs
    <3>2. IsSeq(GiveSize(c, L))
      BY <1>2, <2>2, <3>1, GiveIs
    <3> QED BY <1>1, <2>2, <3>2, StepFacts DEF GiveBody
  <2> QED BY <2>1, <2>2
<1>4. Fair(w, "EXISTS", x, None, T1)
  BY DEF Fair
<1>5. v.disk = w.disk /\ v.fetched = Copy(None, 0)
  BY WorldIs
<1>6. Loops(v, K, L) /\ AllWhole(v)
  BY <1>2, <1>5, LoopsKept DEF AllWhole
<1>7. Exchange(v, P1, T1)
  <2>1. CASE c = Missing
    <3>1. T1 = <<>>
      BY <1>1, <2>1 DEF ToGet, GiveBody
    <3>2. Quiet(v, P1, T1)
      BY <1>2, <1>6, <3>1 DEF Quiet
    <3> QED BY <3>2 DEF Exchange
  <2>2. CASE c # Missing
    <3>1. Sofar(c.len, 0) = 0 /\ 0 \in 0 .. Iterations(c.len)
      <4>1. 0 \in Nat /\ Iterations(c.len) \in Nat
        BY <1>2, <2>2, IterationsIs
      <4>2. 0 <= Iterations(c.len)
        BY <4>1
      <4> QED BY <1>2, <2>2, <4>1, <4>2, SofarIs
    <3>2. Copy(c.of, 0) = Copy(None, 0)
      BY MissingIs
    <3>3. Fetched(v, x, c, 0)
      BY <1>1, <1>2, <1>5, <1>6, <2>2, <3>1, <3>2 DEF Fetched, ToGet
    <3>4. T1 = GiveSize(c, L)
      BY <2>2 DEF GiveBody
    <3>5. HearsSize(v, P1, T1)
      BY <1>6, <3>3, <3>4 DEF HearsSize
    <3> QED BY <3>5 DEF Exchange, LeaderTurn
  <2> QED BY <2>1, <2>2
<1> HIDE DEF T1
<1>8. ASSUME NEW u, NEW steps, Replies(w, l, Hear("EXISTS", x), Msg("EXISTS", None), u, steps)
      PROVE  IsSeq(steps) /\ Exchange(u, Cat(steps, K), T1)
  <2>1. steps = <<Hear("size", x)>> /\ u = v
    BY <1>8, RepliesExists
  <2> HIDE DEF v
  <2> QED BY <1>2, <1>7, <2>1, CatTuples, TuplesAreSeqs
<1>9. Answers(w, l, P, T, "EXISTS", x, None, K, T1)
  BY <1>1, <1>2, <1>3, <1>4, <1>8 DEF Answers
<1> QED BY <1>9 DEF Answered

(* The leader tells the size of a file.                                    *)
LEMMA AnsweredSize ==
    ASSUME NEW w, IsWorld(w), NEW l, NEW P, NEW T, HearsSize(w, P, T)
    PROVE  Answered(w, l, P, T)
<1>1. PICK x, c, K, L :
         Fetched(w, x, c, 0) /\ Loops(w, K, L) /\ P = Then(Hear("size", x), K) /\ T = GiveSize(c, L)
  BY DEF HearsSize
<1> DEFINE T1 == Then(Ack("SIZE_ACK"), GiveParts(c, 0, L))
           P1 == Then(Say("SIZE_ACK"), GetParts(x, c.len, 0, K))
<1>2. IsSeq(K) /\ IsSeq(L) /\ c.len \in Nat /\ x = <<x[1], x[2]>>
  BY <1>1, LoopsAre, CopiesAre DEF Fetched, AllWhole
<1>3. 0 \in Nat /\ 0 <= Iterations(c.len)
  BY <1>2, IterationsIs
<1>4. IsSeq(T1) /\ T = Then(Tell("size", c.len), T1)
  BY <1>1, <1>2, <1>3, GiveIs, ThenIs DEF GiveSize
<1>5. Fair(w, "size", x, c.len, T1)
  BY <1>2 DEF Fair
<1>6. Exchange(w, P1, T1)
  BY <1>1 DEF Exchange, ClientTurn, TellsSizeAck
<1> HIDE DEF T1
<1>7. ASSUME NEW u, NEW steps, Replies(w, l, Hear("size", x), Msg("size", c.len), u, steps)
      PROVE  IsSeq(steps) /\ Exchange(u, Cat(steps, K), T1)
  <2>1. steps = GetFileBody(x[1], x[2], c.len) /\ u = w
    BY <1>7, RepliesSize
  <2>2. IsSeq(steps) /\ Cat(steps, K) = P1
    BY <1>2, <2>1, GetFileBodyIs
  <2> QED BY <1>6, <2>1, <2>2
<1>8. Answers(w, l, P, T, "size", x, c.len, K, T1)
  BY <1>1, <1>2, <1>4, <1>5, <1>7 DEF Answers
<1> QED BY <1>8 DEF Answered

(* The leader tells a part, or that the file is complete.                  *)
LEMMA AnsweredPart ==
    ASSUME NEW w, IsWorld(w), NEW l, NEW P, NEW T, HearsPart(w, P, T)
    PROVE  Answered(w, l, P, T)
<1>1. PICK x, c, j, K, L :
         Fetched(w, x, c, j) /\ Loops(w, K, L) /\ P = GetParts(x, c.len, j, K) /\ T = GiveParts(c, j, L)
  BY DEF HearsPart
<1>2. /\ IsSeq(K) /\ IsSeq(L) /\ AllWhole(w) /\ x \in Files \X Places /\ x[1] \in Files
      /\ c = w.disk[x[1]] /\ c \in Copies(x[1]) \ {Missing} /\ c.len \in Nat
      /\ w.fetched = Copy(c.of, Sofar(c.len, j))
  BY <1>1, LoopsAre, CopiesAre DEF Fetched, AllWhole
<1>3. j \in Nat /\ j <= Iterations(c.len) /\ Iterations(c.len) \in Nat
  BY <1>1, <1>2, IterationsIs DEF Fetched
<1>4. CASE j = Iterations(c.len)
  <2> DEFINE P1 == Then(Say("COMPLETE_ACK"), K)
             T1 == Then(Ack("COMPLETE_ACK"), L)
             v == WorldOf(w.disk, w.sent, Missing)
  <2>1. IsSeq(P1) /\ IsSeq(T1)
    BY <1>2, ThenIs
  <2>2. P = Then(Hear("COMPLETE", x), P1)
    BY <1>1, <1>2, <1>3, <1>4, GetIs DEF GetEnd
  <2>3. T = Then(Tell("COMPLETE", None), T1)
    <3>1. T = GiveEnd(L)
      BY <1>1, <1>2, <1>3, <1>4, GiveIs
    <3> QED BY <3>1, StepFacts DEF GiveEnd
  <2>4. w.fetched = c
    <3>1. Sofar(c.len, Iterations(c.len)) = c.len
      BY <1>2, <1>3, SofarIs
    <3> QED BY <1>2, <1>4, <3>1, CopiesAre
  <2>5. Fair(w, "COMPLETE", x, None, T1)
    BY <1>2, <2>4 DEF Fair
  <2>6. Exchange(v, P1, T1)
    <3>1. v.disk = w.disk
      BY WorldIs
    <3>2. Loops(v, K, L) /\ AllWhole(v)
      BY <1>1, <1>2, <3>1, LoopsKept DEF AllWhole
    <3>3. TellsLast(v, P1, T1)
      BY <3>2 DEF TellsLast, After
    <3> QED BY <3>3 DEF Exchange, ClientTurn
  <2> HIDE DEF P1, T1
  <2>7. ASSUME NEW u, NEW steps, Replies(w, l, Hear("COMPLETE", x), Msg("COMPLETE", None), u, steps)
        PROVE  IsSeq(steps) /\ Exchange(u, Cat(steps, P1), T1)
    <3>1. steps = <<>> /\ u = v
      BY <2>7, RepliesEnd
    <3> HIDE DEF v
    <3> QED BY <2>1, <2>6, <3>1, CatEmpty, LastSeqs
  <2>8. Answers(w, l, P, T, "COMPLETE", x, None, P1, T1)
    BY <2>1, <2>2, <2>3, <2>5, <2>7 DEF Answers
  <2> QED BY <2>8 DEF Answered
<1>5. CASE j < Iterations(c.len)
  <2> DEFINE n == PartSize(c.len, j + 1)
             a == Copy(c.of, n)
             e == Copy(c.of, Sofar(c.len, j + 1))
             P1 == Then(Say("PART_RECEIVED"), GetParts(x, c.len, j + 1, K))
             T1 == Then(Ack("PART_RECEIVED"), GiveParts(c, j + 1, L))
             v == WorldOf(w.disk, w.sent, e)
  <2>1. j + 1 \in Nat /\ j + 1 <= Iterations(c.len) /\ j + 1 \in 0 .. Iterations(c.len)
    BY <1>3, <1>5
  <2>2. IsSeq(P1) /\ IsSeq(T1)
    <3>1. IsSeq(GetParts(x, c.len, j + 1, K)) /\ IsSeq(GiveParts(c, j + 1, L))
      BY <1>2, <2>1, GetIs, GiveIs
    <3> QED BY <3>1, ThenIs
  <2>3. P = Then(Hear("part", n), P1)
    BY <1>1, <1>2, <1>3, <1>5, GetIs
  <2>4. T = Then(Tell("part", a), T1)
    BY <1>1, <1>2, <1>3, <1>5, GiveIs
  <2>5. /\ n \in 1 .. c.len /\ Sofar(c.len, j) \in 0 .. c.len /\ Sofar(c.len, j + 1) \in 0 .. c.len
        /\ Sofar(c.len, j + 1) = Sofar(c.len, j) + n
    BY <1>2, <1>3, <1>5, <2>1, SofarIs
  <2>6. a.of = c.of /\ w.fetched.len = Sofar(c.len, j) /\ e \in KnownCopies
    BY <1>2, <2>5, CopiesAre, MissingIs
  <2>7. Copy(a.of, w.fetched.len + n) = e
    BY <2>5, <2>6
  <2>8. Fair(w, "part", n, a, T1)
    <3> HIDE DEF n, a, e
    <3> QED BY <2>6, <2>7 DEF Fair
  <2>9. Exchange(v, P1, T1)
    <3>1. v.disk = w.disk /\ v.fetched = e
      BY WorldIs
    <3> HIDE DEF v, P1, T1, e
    <3>2. Loops(v, K, L) /\ AllWhole(v)
      BY <1>1, <1>2, <3>1, LoopsKept DEF AllWhole
    <3>3. Fetched(v, x, c, j + 1)
      BY <1>2, <2>1, <3>1, <3>2 DEF Fetched, e
    <3>4. TellsPartAck(v, P1, T1)
      BY <3>2, <3>3 DEF TellsPartAck, P1, T1
    <3> QED BY <3>4 DEF Exchange, ClientTurn
  <2> HIDE DEF P1, T1, a, e, n
  <2>10. ASSUME NEW u, NEW steps, Replies(w, l, Hear("part", n), Msg("part", a), u, steps)
        PROVE  IsSeq(steps) /\ Exchange(u, Cat(steps, P1), T1)
    <3>1. steps = <<>> /\ u = WorldOf(w.disk, w.sent, Copy(a.of, w.fetched.len + n))
      BY <2>10, RepliesPart
    <3>2. u = v
      BY <2>7, <3>1
    <3> HIDE DEF v
    <3> QED BY <2>2, <2>9, <3>1, <3>2, CatEmpty, LastSeqs
  <2>11. Answers(w, l, P, T, "part", n, a, P1, T1)
    BY <2>2, <2>3, <2>4, <2>8, <2>10 DEF Answers
  <2> QED BY <2>11 DEF Answered
<1> QED BY <1>3, <1>4, <1>5

(* The client decides by the time of a file.                               *)
LEMMA AnsweredTime ==
    ASSUME NEW w, IsWorld(w), w.sent \in Directories, NEW l \in Directories, NEW P, NEW T, HearsTime(w, P, T)
    PROVE  Answered(w, l, P, T)
<1>1. PICK f, K, L :
         /\ ToSync(w, f, K, L)
         /\ P = Then(Hear("mtime", f), K) /\ T = Then(Tell("mtime", f), Then(Ack("answer"), L))
  BY DEF HearsTime
<1> DEFINE T1 == Then(Ack("answer"), L)
<1>2. IsSeq(K) /\ IsSeq(L) /\ f \in Files /\ AllWhole(w) /\ Loops(w, K, L) /\ IsSeq(T1)
  BY <1>1, LoopsAre, ThenIs DEF ToSync
<1>3. Fair(w, "mtime", f, f, T1)
  BY <1>2 DEF Fair
<1>4. ASSUME NEW u, NEW steps, Replies(w, l, Hear("mtime", f), Msg("mtime", f), u, steps)
      PROVE  IsSeq(steps) /\ Exchange(u, Cat(steps, K), T1)
  <2>1. \/ steps = GetFile(f, "sync_dir") /\ u = w
        \/ /\ steps = SendFile(f, l[f]) /\ l[f] # Missing
           /\ u = WorldOf(w.disk, [w.sent EXCEPT ![f] = Missing], w.fetched)
        \/ steps = <<Say("SYNC_OK")>> /\ u = w
    BY <1>4, RepliesTime
  <2>2. CASE steps = GetFile(f, "sync_dir") /\ u = w
    <3>1. IsSeq(steps) /\ Cat(steps, K) = GetStart(<<f, "sync_dir">>, K)
      BY <1>2, <2>2, GetFileIs
    <3>2. AnswersGet(w, Cat(steps, K), T1)
      BY <1>1, <3>1 DEF AnswersGet
    <3> QED BY <2>2, <3>1, <3>2 DEF Exchange, ClientTurn
  <2>3. CASE /\ steps = SendFile(f, l[f]) /\ l[f] # Missing
             /\ u = WorldOf(w.disk, [w.sent EXCEPT ![f] = Missing], w.fetched)
    <3> DEFINE c == l[f]
    <3>1. c \in Copies(f) \ {Missing} /\ c.len \in Nat
      BY <1>2, <2>3, CopiesAre DEF Directories
    <3>2. IsSeq(steps) /\ Cat(steps, K) = PutStart(f, c, K)
      BY <1>2, <2>3, <3>1, SendFileIs
    <3>3. u.disk = w.disk /\ u.sent[f] = Missing
      <4>1. u.disk = w.disk /\ u.sent = [w.sent EXCEPT ![f] = Missing]
        BY <2>3, WorldIs
      <4> QED BY <1>2, <4>1 DEF Directories
    <3> HIDE DEF c
    <3>4. Loops(u, K, L)
      BY <1>2, <3>3, LoopsKept
    <3>5. ToPut(u, f, c, K, L)
      BY <1>2, <3>1, <3>3, <3>4 DEF ToPut, AllWhole
    <3>6. AnswersSend(u, Cat(steps, K), T1)
      BY <3>2, <3>5 DEF AnswersSend
    <3> QED BY <3>2, <3>6 DEF Exchange, ClientTurn
  <2>4. CASE steps = <<Say("SYNC_OK")>> /\ u = w
    <3>1. IsSeq(steps) /\ Cat(steps, K) = Then(Say("SYNC_OK"), K)
      BY <1>2, <2>4, CatTuples, TuplesAreSeqs
    <3>2. TellsLast(w, Cat(steps, K), T1)
      BY <1>2, <3>1 DEF TellsLast, After
    <3> QED BY <2>4, <3>1, <3>2 DEF Exchange, ClientTurn
  <2> QED BY <2>1, <2>2, <2>3, <2>4
<1> HIDE DEF T1
<1>5. P = Then(Hear("mtime", f), K) /\ T = Then(Tell("mtime", f), T1)
  BY <1>1 DEF T1
<1>6. Answers(w, l, P, T, "mtime", f, f, K, T1)
  BY <1>2, <1>3, <1>4, <1>5 DEF Answers
<1> QED BY <1>6 DEF Answered

(* The leader tells of the next entry or record.                           *)
LEMMA AnsweredTurn ==
    ASSUME NEW w, IsWorld(w), NEW l, NEW P, NEW T, HearsTurn(w, P, T)
    PROVE  Answered(w, l, P, T)
<1>1. AllWhole(w) /\ Loops(w, P, T) /\ T # <<>>
  BY DEF HearsTurn
<1>2. ASSUME NEW g \in Files, NEW K, NEW L, w.disk[g] # Missing, Loops(w, K, L), IsSeq(K), IsSeq(L),
             P = Then(Ack("record"), K),
             T = Then(Tell("record", g), Then(Ack("GET_FILE_ACK"), Then(Tell("mtime", g), Then(Ack("answer"), L))))
      PROVE  Answered(w, l, P, T)
  <2> DEFINE T1 == Then(Ack("GET_FILE_ACK"), Then(Tell("mtime", g), Then(Ack("answer"), L)))
             P1 == Then(Say("GET_FILE_ACK"), Then(Hear("mtime", g), K))
  <2>1. IsSeq(T1)
    BY <1>2, ThenIs
  <2>2. Fair(w, "record", None, g, T1)
    BY DEF Fair
  <2>3. Exchange(w, P1, T1)
    BY <1>1, <1>2 DEF Exchange, ClientTurn, TellsRecordAck, ToSync
  <2> HIDE DEF T1
  <2>4. ASSUME NEW u, NEW steps, Replies(w, l, Hear("record", None), Msg("record", g), u, steps)
        PROVE  IsSeq(steps) /\ Exchange(u, Cat(steps, K), T1)
    <3>1. steps = <<Say("GET_FILE_ACK"), Hear("mtime", g)>> /\ u = w
      BY <2>4, RepliesRecord
    <3>2. IsSeq(steps) /\ Cat(steps, K) = P1
      BY <1>2, <3>1, CatTuples, TuplesAreSeqs
    <3> QED BY <2>3, <3>1, <3>2
  <2>5. P = Then(Hear("record", None), K) /\ T = Then(Tell("record", g), T1)
    BY <1>2, StepFacts DEF T1
  <2>6. Answers(w, l, P, T, "record", None, g, K, T1)
    BY <1>2, <2>1, <2>2, <2>4, <2>5 DEF Answers
  <2> QED BY <2>6 DEF Answered
<1>3. ASSUME NEW K, NEW L, Loops(w, K, L), IsSeq(K), IsSeq(L),
             P = Then(Ack("entry"), Then(Say("FILENAME_ACK"), Then(Ack("info"), Then(Say("FILE_OK"), K)))),
             T = Then(Say("entry"), Then(Ack("FILENAME_ACK"), Then(Say("info"), Then(Ack("FILE_OK"), L))))
      PROVE  Answered(w, l, P, T)
  <2> DEFINE P1 == Then(Say("FILENAME_ACK"), Then(Ack("info"), Then(Say("FILE_OK"), K)))
             T1 == Then(Ack("FILENAME_ACK"), Then(Say("info"), Then(Ack("FILE_OK"), L)))
  <2>1. IsSeq(P1) /\ IsSeq(T1)
    BY <1>3, ThenIs
  <2>2. Exchange(w, P1, T1)
    BY <1>1, <1>3 DEF Exchange, ClientTurn, TellsEntryAck
  <2>3. P = Then(Ack("entry"), P1) /\ T = Then(Say("entry"), T1)
    BY <1>3
  <2> HIDE DEF P1, T1
  <2> QED BY <2>1, <2>2, <2>3, AnswersAck DEF ClientAcks
<1> QED BY <1>1, <1>2, <1>3, LoopsAre

(* The number of records or entries: as many turns.                        *)
LEMMA AnsweredNumber ==
    ASSUME NEW w, IsWorld(w), NEW l, NEW P, NEW T, HearsNumber(w, P, T)
    PROVE  Answered(w, l, P, T)
<1>1. PICK r :
         /\ AllWhole(w) /\ OnDisk(w, r) /\ P = SyncHear
         /\ T = Then(Tell("number", Len(r)), Then(Ack("NUMBER_ACK"), Run(SentRecord(r), 0, Len(r))))
  BY DEF HearsNumber
<1> DEFINE n == Len(r)
           K == Cat(Run(ReadRecord, 0, n), Rest)
           L == Run(SentRecord(r), 0, n)
           T1 == Then(Ack("NUMBER_ACK"), L)
           P1 == Then(Say("NUMBER_ACK"), K)
<1>2. n \in Nat /\ 0 \in 0 .. n /\ IsSeq(r)
  <2>1. n \in Nat /\ IsSeq(r)
    BY <1>1, SeqFacts DEF OnDisk
  <2> HIDE DEF n
  <2> QED BY <2>1
<1>3. IsSeq(L) /\ L = Cat(L, <<>>) /\ IsSeq(T1)
  BY <1>2, SyncServerIs, CatEmpty, ThenIs
<1>4. Times(n, <<Ack("record")>>) = Run(ReadRecord, 0, n) /\ IsSeq(Run(ReadRecord, 0, n))
  BY <1>2, ListsAre
<1>5. Exchange(w, P1, T1)
  <2>1. Loops(w, K, L)
    BY <1>1, <1>2, <1>3 DEF Loops
  <2>2. TellsLast(w, P1, T1)
    BY <1>1, <2>1 DEF TellsLast, After
  <2> QED BY <2>2 DEF Exchange, ClientTurn
<1>6. Fair(w, "number", "sync", n, T1)
  BY <1>2 DEF Fair
<1> HIDE DEF n, L
<1>7. ASSUME NEW u, NEW steps, Replies(w, l, Hear("number", "sync"), Msg("number", n), u, steps)
      PROVE  IsSeq(steps) /\ Exchange(u, Cat(steps, <<>>), T1)
  <2>1. steps = Cat(Cat(<<Say("NUMBER_ACK")>>, Times(n, <<Ack("record")>>)), Rest) /\ u = w
    BY <1>7, RepliesSync
  <2>2. IsSeq(<<Say("NUMBER_ACK")>>) /\ IsSeq(Rest)
    BY TuplesAreSeqs, LastSeqs
  <2>3. steps = Cat(<<Say("NUMBER_ACK")>>, K) /\ IsSeq(K)
    BY <1>4, <2>1, <2>2, Assoc, CatIs
  <2> HIDE DEF K
  <2>4. steps = P1
    BY <2>3, CatTuples
  <2>5. IsSeq(P1)
    BY <2>3, ThenIs
  <2> HIDE DEF P1, T1
  <2> QED BY <1>5, <2>1, <2>4, <2>5, CatEmpty
<1>8. P = Then(Hear("number", "sync"), <<>>) /\ T = Then(Tell("number", n), T1)
  BY <1>1 DEF SyncHear, n, L
<1> HIDE DEF T1
<1>9. Answers(w, l, P, T, "number", "sync", n, <<>>, T1)
  BY <1>3, <1>6, <1>7, <1>8, LastSeqs DEF Answers
<1> QED BY <1>9 DEF Answered

(* And for list_server.                                                    *)
LEMMA AnsweredEntries ==
    ASSUME NEW w, IsWorld(w), NEW l, NEW P, NEW T, HearsEntries(w, P, T)
    PROVE  Answered(w, l, P, T)
<1>1. PICK n \in Nat : AllWhole(w) /\ P = ListHear /\ T = Then(Tell("number", n), Run(SentEntry, 0, n))
  BY DEF HearsEntries
<1> DEFINE K == Run(ReadEntry, 0, n)
           L == Run(SentEntry, 0, n)
<1>2. 0 \in 0 .. n
  OBVIOUS
<1>3. IsSeq(K) /\ IsSeq(L) /\ Times(n, ListTurn) = K /\ K = Cat(K, <<>>) /\ L = Cat(L, <<>>)
  BY ListsAre, CatEmpty DEF ListTurn
<1>4. Exchange(w, K, L)
  <2>1. Loops(w, K, L)
    BY <1>2, <1>3 DEF Loops
  <2> QED BY <1>1, <2>1, AfterExchange DEF After
<1>5. Fair(w, "number", "list", n, L)
  BY DEF Fair
<1> HIDE DEF K, L
<1>6. ASSUME NEW u, NEW steps, Replies(w, l, Hear("number", "list"), Msg("number", n), u, steps)
      PROVE  IsSeq(steps) /\ Exchange(u, Cat(steps, <<>>), L)
  <2>1. steps = K /\ u = w
    BY <1>3, <1>6, RepliesList
  <2> QED BY <1>3, <1>4, <2>1
<1>7. P = Then(Hear("number", "list"), <<>>) /\ T = Then(Tell("number", n), L)
  BY <1>1 DEF ListHear, L
<1>8. Answers(w, l, P, T, "number", "list", n, <<>>, L)
  BY <1>3, <1>5, <1>6, <1>7, LastSeqs DEF Answers
<1> QED BY <1>8 DEF Answered

(* All that the leader may have told is what the client waits for.         *)
LEMMA AnsweredAll ==
    ASSUME NEW w, IsWorld(w), w.sent \in Directories, NEW l \in Directories, NEW P, NEW T, LeaderTurn(w, P, T)
    PROVE  Answered(w, l, P, T)
BY AnsweredAck, AnsweredComplete, AnsweredExists, AnsweredSize, AnsweredPart, AnsweredTime, AnsweredTurn,
   AnsweredNumber, AnsweredEntries DEF LeaderTurn

(* What is told before the first other step, and what follows, is unique.  *)
LEMMA UntilShort ==
    ASSUME NEW q1, NEW q2, AllTells(q1), AllTells(q2), NEW S1, NEW S2, IsSeq(S1), IsSeq(S2),
           S1 # <<>> => Head(S1).do # "tell", Cat(q1, S1) = Cat(q2, S2)
    PROVE  Len(q2) <= Len(q1)
<1> SUFFICES ASSUME Len(q1) < Len(q2) PROVE FALSE
  <2>1. Len(q1) \in Nat /\ Len(q2) \in Nat
    BY SeqFacts DEF AllTells
  <2> QED BY <2>1
<1>1. IsSeq(q1) /\ IsSeq(q2)
  BY DEF AllTells
<1>2. Len(q1) \in Nat /\ Len(q2) \in Nat /\ Len(S1) \in Nat /\ Len(S2) \in Nat /\ DOMAIN q2 = 1 .. Len(q2)
      /\ (S1 = <<>> <=> Len(S1) = 0)
  BY <1>1, SeqFacts
<1>3. Len(q1) + Len(S1) = Len(q2) + Len(S2)
  <2>1. Len(Cat(q1, S1)) = Len(q1) + Len(S1)
    BY <1>1, CatIs
  <2>2. Len(Cat(q2, S2)) = Len(q2) + Len(S2)
    BY <1>1, CatIs
  <2> QED BY <2>1, <2>2
<1>4. Len(S1) > 0 /\ 1 \in 1 .. Len(S1) /\ Len(q1) + 1 \in 1 .. Len(q2)
  BY <1>2, <1>3
<1>5. Cat(q1, S1)[Len(q1) + 1] = S1[1]
  BY <1>1, <1>4, CatIs
<1>6. Cat(q2, S2)[Len(q1) + 1] = q2[Len(q1) + 1]
  BY <1>1, <1>4, CatIs
<1>7. S1 # <<>> /\ Head(S1) = S1[1]
  BY <1>2, <1>4, HeadTail
<1>8. q2[Len(q1) + 1].do = "tell"
  BY <1>2, <1>4 DEF AllTells
<1> QED BY <1>5, <1>6, <1>7, <1>8

(* Both parts are.                                                         *)
LEMMA UntilOne ==
    ASSUME NEW q1, NEW q2, AllTells(q1), AllTells(q2), NEW S1, NEW S2, IsSeq(S1), IsSeq(S2),
           S1 # <<>> => Head(S1).do # "tell", S2 # <<>> => Head(S2).do # "tell", Cat(q1, S1) = Cat(q2, S2)
    PROVE  q1 = q2 /\ S1 = S2
<1>1. IsSeq(q1) /\ IsSeq(q2)
  BY DEF AllTells
<1>2. Len(q1) \in Nat /\ Len(q2) \in Nat /\ Len(S1) \in Nat /\ Len(S2) \in Nat
  BY <1>1, SeqFacts
<1>3. Len(q2) <= Len(q1) /\ Len(q1) <= Len(q2)
  BY UntilShort
<1>4. Len(q1) = Len(q2)
  BY <1>2, <1>3
<1>5. Len(q1) + Len(S1) = Len(q2) + Len(S2)
  <2>1. Len(Cat(q1, S1)) = Len(q1) + Len(S1)
    BY <1>1, CatIs
  <2>2. Len(Cat(q2, S2)) = Len(q2) + Len(S2)
    BY <1>1, CatIs
  <2> QED BY <2>1, <2>2
<1>6. Len(S1) = Len(S2)
  BY <1>2, <1>4, <1>5
<1>7. \A i \in 1 .. Len(q1) : q1[i] = q2[i]
  BY <1>1, <1>4, CatIs
<1>8. ASSUME NEW i \in 1 .. Len(S1) PROVE S1[i] = S2[i]
  <2>1. Cat(q1, S1)[Len(q1) + i] = S1[i]
    BY <1>1, CatIs
  <2>2. Cat(q2, S2)[Len(q2) + i] = S2[i]
    BY <1>1, <1>6, CatIs
  <2> QED BY <1>4, <2>1, <2>2
<1> QED BY <1>1, <1>4, <1>6, <1>7, <1>8, SeqsEqual

(* h is the first step of P that is not to tell.                           *)
First(P, h) == \E S : Until(P, S) /\ S # <<>> /\ h = Head(S)

(* The first such step, from step to step.                                 *)
LEMMA FirstIs ==
    /\ \A h : ~First(<<>>, h)
    /\ \A a, U, h : IsSeq(U) => (First(Then(a, U), h) <=> IF a.do = "tell" THEN First(U, h) ELSE h = a)
<1>1. ASSUME NEW h PROVE ~First(<<>>, h)
  BY UntilEmpty DEF First
<1>2. ASSUME NEW a, NEW U, NEW h, IsSeq(U)
      PROVE  First(Then(a, U), h) <=> IF a.do = "tell" THEN First(U, h) ELSE h = a
  <2>1. Then(a, U) # <<>> /\ Head(Then(a, U)) = a
    BY <1>2, ThenIs
  <2>2. CASE a.do = "tell"
    BY <1>2, <2>2, UntilThen DEF First
  <2>3. CASE a.do # "tell"
    BY <1>2, <2>1, <2>3, UntilThen DEF First
  <2> QED BY <2>2, <2>3
<1> QED BY <1>1, <1>2

(* The client is in the middle of a command: P comes to a step that waits, *)
(* or to the end; when it waits for the end of a file it has all of it.    *)
Well(w, h) ==
    h.kind = "COMPLETE" =>
        h.arg[1] \in Files /\ w.fetched = w.disk[h.arg[1]] /\ w.fetched \in Copies(h.arg[1]) \ {Missing}
Busy(w, P) ==
    /\ IsSeq(P) /\ \E h : First(P, h)
    /\ \A h : First(P, h) => h.do \in {"hear", "gone"} /\ Well(w, h)

(* One step more before it, or that step itself.                           *)
LEMMA BusyThen ==
    ASSUME NEW w, NEW a, NEW U,
           \/ a.do = "tell" /\ Busy(w, U)
           \/ a.do \in {"hear", "gone"} /\ Well(w, a) /\ IsSeq(U)
    PROVE  Busy(w, Then(a, U))
<1>1. IsSeq(U)
  BY DEF Busy
<1>2. IsSeq(Then(a, U))
  BY <1>1, ThenIs
<1>3. CASE a.do = "tell" /\ Busy(w, U)
  BY <1>1, <1>2, <1>3, FirstIs DEF Busy
<1>4. CASE a.do \in {"hear", "gone"} /\ Well(w, a) /\ IsSeq(U)
  <2>1. a.do # "tell"
    BY <1>4
  <2>2. \A h : First(Then(a, U), h) <=> h = a
    BY <1>1, <2>1, FirstIs
  <2> QED BY <1>2, <1>4, <2>2 DEF Busy
<1> QED BY <1>3, <1>4

(* A client that waits for anything but the end of a file ...              *)
LEMMA BusyHear ==
    ASSUME NEW w, NEW k, NEW x, k # "COMPLETE", NEW U, IsSeq(U)
    PROVE  /\ Busy(w, Then(Hear(k, x), U))
           /\ \A j, y : Busy(w, Then(Tell(j, y), Then(Hear(k, x), U)))
<1> DEFINE a == Hear(k, x)
<1>1. a.do = "hear" /\ a.kind = k
  BY StepFacts
<1> HIDE DEF a
<1>2. Well(w, a)
  BY <1>1 DEF Well
<1>3. Busy(w, Then(a, U))
  BY <1>1, <1>2, BusyThen
<1>4. ASSUME NEW j, NEW y PROVE Busy(w, Then(Tell(j, y), Then(a, U)))
  <2>1. Tell(j, y).do = "tell"
    BY StepFacts
  <2> QED BY <1>3, <2>1, BusyThen
<1> QED BY <1>3, <1>4 DEF a

(* ... as for an acknowledgement ...                                       *)
LEMMA BusyAck ==
    ASSUME NEW w, NEW k, k # "COMPLETE", NEW U, IsSeq(U)
    PROVE  /\ Busy(w, Then(Ack(k), U))
           /\ \A j : Busy(w, Then(Say(j), Then(Ack(k), U)))
           /\ \A j, y : Busy(w, Then(Tell(j, y), Then(Ack(k), U)))
BY BusyHear, StepFacts

(* ... or that uploads a file is in the middle of a command.               *)
LEMMA PutBusy ==
    ASSUME NEW w, NEW f, NEW c, c.len \in Nat, NEW j \in Nat, j <= Iterations(c.len), NEW K, IsSeq(K)
    PROVE  /\ Busy(w, PutParts(f, c, j, K)) /\ Busy(w, PutSize(f, c, K))
           /\ Busy(w, PutName(f, c, K)) /\ Busy(w, PutStart(f, c, K))
<1>1. 0 \in Nat /\ 0 <= Iterations(c.len) /\ Iterations(c.len) \in Nat
  BY IterationsIs
<1>2. IsSeq(PutTime(f, K)) /\ IsSeq(PutParts(f, c, 0, K)) /\ IsSeq(PutName(f, c, K))
  BY <1>1, PutIs
<1>3. Busy(w, PutParts(f, c, j, K))
  <2>1. CASE j = Iterations(c.len)
    <3>1. PutParts(f, c, j, K) = PutEnd(f, c, K)
      BY <2>1, PutIs
    <3>2. Busy(w, Then(Tell("COMPLETE", None), Then(Hear("COMPLETE_ACK", <<f, c>>), PutTime(f, K))))
      BY <1>2, BusyHear
    <3> QED BY <3>1, <3>2, StepFacts DEF PutEnd
  <2>2. CASE j < Iterations(c.len)
    <3>1. j + 1 \in Nat /\ j + 1 <= Iterations(c.len)
      BY <1>1, <2>2
    <3>2. IsSeq(PutParts(f, c, j + 1, K))
      BY <3>1, PutIs
    <3>3. PutParts(f, c, j, K) = Then(Tell("part", Copy(c.of, PartSize(c.len, j + 1))),
                                      Then(Ack("PART_RECEIVED"), PutParts(f, c, j + 1, K)))
      BY <2>2, PutIs
    <3> QED BY <3>2, <3>3, BusyAck
  <2> QED BY <1>1, <2>1, <2>2
<1>4. Busy(w, PutSize(f, c, K))
  BY <1>2, BusyAck DEF PutSize
<1>5. Busy(w, PutName(f, c, K))
  BY <1>4, BusyThen, StepFacts DEF PutName
<1>6. Busy(w, PutStart(f, c, K))
  BY <1>2, BusyAck DEF PutStart
<1> QED BY <1>3, <1>4, <1>5, <1>6

(* So is one that gets a file, of which it has all when it waits for its   *)
(* end.                                                                    *)
LEMMA GetBusy ==
    ASSUME NEW w, NEW x, NEW c, NEW j, Fetched(w, x, c, j), NEW K, IsSeq(K)
    PROVE  IsSeq(GetParts(x, c.len, j, K)) /\ Busy(w, GetParts(x, c.len, j, K))
<1>1. /\ x[1] \in Files /\ c = w.disk[x[1]] /\ c \in Copies(x[1]) \ {Missing} /\ c.len \in Nat
      /\ w.fetched = Copy(c.of, Sofar(c.len, j))
  BY CopiesAre DEF Fetched, AllWhole
<1>2. j \in Nat /\ j <= Iterations(c.len) /\ Iterations(c.len) \in Nat
  BY <1>1, IterationsIs DEF Fetched
<1>3. IsSeq(GetParts(x, c.len, j, K))
  BY <1>1, <1>2, GetIs
<1>4. CASE j = Iterations(c.len)
  <2>1. w.fetched = c
    <3>1. Sofar(c.len, Iterations(c.len)) = c.len
      BY <1>1, <1>2, SofarIs
    <3> QED BY <1>1, <1>4, <3>1, CopiesAre
  <2> DEFINE a == Hear("COMPLETE", x)
             U == Then(Say("COMPLETE_ACK"), K)
  <2>2. a.do = "hear" /\ a.arg = x
    BY StepFacts
  <2> HIDE DEF a
  <2>3. Well(w, a)
    BY <1>1, <2>1, <2>2 DEF Well
  <2>4. IsSeq(U)
    BY ThenIs
  <2> HIDE DEF U
  <2>5. Busy(w, Then(a, U))
    BY <2>2, <2>3, <2>4, BusyThen
  <2>6. GetParts(x, c.len, j, K) = Then(a, U)
    BY <1>1, <1>2, <1>4, GetIs DEF GetEnd, a, U
  <2> QED BY <1>3, <2>5, <2>6
<1>5. CASE j < Iterations(c.len)
  <2> DEFINE U == Then(Say("PART_RECEIVED"), GetParts(x, c.len, j + 1, K))
  <2>1. j + 1 \in Nat /\ j + 1 <= Iterations(c.len)
    BY <1>2, <1>5
  <2>2. IsSeq(U)
    BY <1>1, <2>1, GetIs, ThenIs
  <2>3. GetParts(x, c.len, j, K) = Then(Hear("part", PartSize(c.len, j + 1)), U)
    BY <1>1, <1>2, <1>5, GetIs
  <2> HIDE DEF U
  <2> QED BY <1>3, <2>2, <2>3, BusyHear
<1> QED BY <1>2, <1>3, <1>4, <1>5

(* So is one in a loop, if there are turns left.                           *)
LEMMA LoopsBusy ==
    ASSUME NEW w, NEW K, NEW L, Loops(w, K, L)
    PROVE  (K \in {<<>>, Rest} /\ L = <<>>) \/ Busy(w, K)
<1>1. ASSUME NEW g \in Files, NEW K1, IsSeq(K1), K = Then(Ack("record"), K1) PROVE Busy(w, K)
  BY <1>1, BusyAck
<1>2. ASSUME NEW K1, IsSeq(K1),
             K = Then(Ack("entry"), Then(Say("FILENAME_ACK"), Then(Ack("info"), Then(Say("FILE_OK"), K1))))
      PROVE  Busy(w, K)
  <2>1. IsSeq(Then(Say("FILENAME_ACK"), Then(Ack("info"), Then(Say("FILE_OK"), K1))))
    BY <1>2, ThenIs
  <2> QED BY <1>2, <2>1, BusyAck
<1> QED BY <1>1, <1>2, LoopsAre

(* So is one that begins a command.                                        *)
LEMMA StartsBusy ==
    ASSUME NEW w, NEW P, Starts(w, P)
    PROVE  P \in {<<>>, Rest} \/ Busy(w, P)
<1>1. IsSeq(<<>>) /\ IsSeq(Rest) /\ IsSeq(Gone) /\ IsSeq(ListHear) /\ \A f : IsSeq(NameLock(f)) /\ IsSeq(NameGone(f, <<>>))
  BY LastSeqs, OthersAre
<1>2. Busy(w, SyncStart)
  BY <1>1, BusyHear, StepFacts DEF SyncStart, SyncHear
<1>3. Busy(w, ListStart)
  BY <1>1, BusyAck DEF ListStart
<1>4. Busy(w, EndStart)
  <2> DEFINE a == Step("gone", "END", None)
  <2>1. a.do = "gone" /\ a.kind = "END"
    BY DEF Step
  <2>2. Gone = Then(a, <<>>)
    BY Tuples DEF Gone
  <2> HIDE DEF a
  <2>3. Well(w, a)
    BY <2>1 DEF Well
  <2>4. Busy(w, Gone)
    BY <1>1, <2>1, <2>2, <2>3, BusyThen
  <2> QED BY <2>4, BusyThen, StepFacts DEF EndStart
<1>5. ASSUME NEW f PROVE Busy(w, GetStart(<<f, "cwd">>, <<>>))
  <2> DEFINE x == <<f, "cwd">>
  <2>1. IsSeq(GetName(x, <<>>))
    BY <1>1, ThenIs DEF GetName
  <2> HIDE DEF x
  <2>2. Busy(w, GetStart(x, <<>>))
    BY <2>1, BusyAck DEF GetStart
  <2> QED BY <2>2 DEF x
<1>6. ASSUME NEW f, NEW k PROVE Busy(w, LockStart(k, f))
  <2>1. LockAck(k) # "COMPLETE"
    BY DEF LockAck
  <2> QED BY <1>1, <2>1, BusyAck DEF LockStart
<1>7. ASSUME NEW f PROVE Busy(w, DeleteStart(f))
  BY <1>1, BusyAck DEF DeleteStart
<1>8. ASSUME NEW f \in Files, NEW c \in Copies(f) \ {Missing}, NEW K \in {<<>>, Rest} PROVE Busy(w, PutStart(f, c, K))
  <2>1. c.len \in Nat /\ 0 \in Nat /\ 0 <= Iterations(c.len)
    BY CopiesAre, IterationsIs
  <2> QED BY <1>1, <2>1, PutBusy
<1> QED BY <1>2, <1>3, <1>4, <1>5, <1>6, <1>7, <1>8 DEF Starts

(* After a file it is between two commands, or still in one.               *)
LEMMA AfterBusy ==
    ASSUME NEW w, NEW K, NEW L, After(w, K, L)
    PROVE  (K \in {<<>>, Rest} /\ L = <<>>) \/ Busy(w, K)
BY LoopsBusy, StartsBusy DEF After

(* The client is between two commands, or about to be once it has told q:  *)
(* it may begin another, whatever of its uploads it forgets.               *)
Spare(w, v) ==
    /\ v.disk = w.disk /\ v.fetched = w.fetched
    /\ \A g \in Files : w.sent[g] = Missing => v.sent[g] = Missing
Open(w, P, T) == \E q, K :
    /\ AllTells(q) /\ K \in {<<>>, Rest} /\ P = Cat(q, K)
    /\ \A v, K1 : Spare(w, v) /\ Starts(v, K1) => Exchange(v, Cat(q, K1), T)

(* One thing is left to tell of a command.                                 *)
LEMMA OpenOne ==
    ASSUME NEW w, NEW a, a.do = "tell", NEW P, NEW K \in {<<>>, Rest}, NEW T, P = Then(a, K),
           \A v, K1 : Spare(w, v) /\ Starts(v, K1) => Exchange(v, Then(a, K1), T)
    PROVE  Open(w, P, T)
<1>1. IsSeq(K) /\ IsSeq(<<>>) /\ IsSeq(<<a>>) /\ <<a>> = Then(a, <<>>)
  BY LastSeqs, TuplesAreSeqs, Tuples
<1>2. AllTells(<<a>>)
  BY <1>1, AllTellsThen
<1>3. P = Cat(<<a>>, K)
  BY <1>1, CatTuples
<1>4. ASSUME NEW v, NEW K1, Spare(w, v), Starts(v, K1) PROVE Exchange(v, Cat(<<a>>, K1), T)
  <2>1. IsSeq(K1)
    BY <1>4, StartsAreSeqs
  <2>2. Cat(<<a>>, K1) = Then(a, K1)
    BY <2>1, CatTuples
  <2> QED BY <1>4, <2>2
<1> QED BY <1>2, <1>3, <1>4 DEF Open

(* The time of a file ends its upload, perhaps the command.                *)
LEMMA OpenTime ==
    ASSUME NEW w, NEW P, NEW T, TellsTime(w, P, T)
    PROVE  Busy(w, P) \/ Open(w, P, T)
<1>1. PICK f, K, L :
         /\ AllWhole(w) /\ After(w, K, L) /\ f \in Files /\ w.disk[f] # Missing
         /\ P = PutTime(f, K) /\ T = ReadTime(f, L)
  BY DEF TellsTime
<1> DEFINE a == Tell("mtime", f)
<1>2. a.do = "tell" /\ \A K1 : PutTime(f, K1) = Then(a, K1)
  BY StepFacts DEF PutTime
<1> HIDE DEF a
<1>3. CASE Busy(w, K)
  BY <1>1, <1>2, <1>3, BusyThen
<1>4. CASE K \in {<<>>, Rest} /\ L = <<>>
  <2>1. ASSUME NEW v, NEW K1, Spare(w, v), Starts(v, K1) PROVE Exchange(v, Then(a, K1), T)
    <3>1. TellsTime(v, PutTime(f, K1), T)
      BY <1>1, <1>4, <2>1 DEF TellsTime, After, AllWhole, Spare
    <3> QED BY <1>2, <3>1 DEF Exchange, ClientTurn
  <2> QED BY <1>1, <1>2, <1>4, <2>1, OpenOne
<1> QED BY <1>1, <1>3, <1>4, AfterBusy

(* The name of the file to delete ends that command.                       *)
LEMMA OpenGone ==
    ASSUME NEW w, NEW P, NEW T, TellsGone(w, P, T)
    PROVE  Busy(w, P) \/ Open(w, P, T)
<1>1. PICK f, K :
         /\ AllWhole(w) /\ f \in Files /\ w.sent[f] = Missing /\ Starts(w, K)
         /\ P = NameGone(f, K) /\ T = Then(Hear("name", "DELETE"), <<>>)
  BY DEF TellsGone
<1> DEFINE a == Tell("name", f)
<1>2. a.do = "tell" /\ \A K1 : NameGone(f, K1) = Then(a, K1)
  BY StepFacts DEF NameGone
<1> HIDE DEF a
<1>3. CASE Busy(w, K)
  BY <1>1, <1>2, <1>3, BusyThen
<1>4. CASE K \in {<<>>, Rest}
  <2>1. ASSUME NEW v, NEW K1, Spare(w, v), Starts(v, K1) PROVE Exchange(v, Then(a, K1), T)
    <3>1. TellsGone(v, NameGone(f, K1), T)
      BY <1>1, <2>1 DEF TellsGone, AllWhole, Spare
    <3> QED BY <1>2, <3>1 DEF Exchange, ClientTurn
  <2> QED BY <1>1, <1>2, <1>4, <2>1, OpenOne
<1> QED BY <1>1, <1>3, <1>4, StartsBusy

(* A last acknowledgement may end one.                                     *)
LEMMA OpenLast ==
    ASSUME NEW w, NEW P, NEW T, TellsLast(w, P, T)
    PROVE  Busy(w, P) \/ Open(w, P, T)
<1>1. PICK k, K, L :
         /\ AllWhole(w) /\ After(w, K, L)
         /\ \/ k \in {"COMPLETE_ACK", "NUMBER_ACK", "FILE_OK"} /\ T = Then(Ack(k), L)
            \/ k = "SYNC_OK" /\ T = Then(Ack("answer"), L)
         /\ P = Then(Say(k), K)
  BY DEF TellsLast
<1>2. Say(k).do = "tell"
  BY StepFacts
<1>3. CASE Busy(w, K)
  BY <1>1, <1>2, <1>3, BusyThen
<1>4. CASE K \in {<<>>, Rest} /\ L = <<>>
  <2>1. ASSUME NEW v, NEW K1, Spare(w, v), Starts(v, K1) PROVE Exchange(v, Then(Say(k), K1), T)
    <3>1. AllWhole(v) /\ After(v, K1, L)
      BY <1>1, <1>4, <2>1 DEF After, AllWhole, Spare
    <3>2. TellsLast(v, Then(Say(k), K1), T)
      BY <1>1, <3>1 DEF TellsLast
    <3> QED BY <3>2 DEF Exchange, ClientTurn
  <2> QED BY <1>1, <1>2, <1>4, <2>1, OpenOne
<1> QED BY <1>1, <1>3, <1>4, AfterBusy

(* When nothing is to be told the client is between two, or waits.         *)
LEMMA OpenQuiet ==
    ASSUME NEW w, NEW P, NEW T, Quiet(w, P, T)
    PROVE  Busy(w, P) \/ Open(w, P, T)
<1>1. IsSeq(<<>>) /\ IsSeq(Rest)
  BY LastSeqs
<1>2. CASE P \in {<<>>, Rest} /\ T = <<>>
  <2>1. AllTells(<<>>) /\ P = Cat(<<>>, P)
    BY <1>1, <1>2, AllTellsThen, CatEmpty
  <2>2. ASSUME NEW v, NEW K1, Spare(w, v), Starts(v, K1) PROVE Exchange(v, Cat(<<>>, K1), T)
    <3>1. Cat(<<>>, K1) = K1
      BY <2>2, StartsAreSeqs, CatEmpty
    <3>2. AllWhole(v) /\ After(v, K1, T)
      BY <1>2, <2>2 DEF Quiet, Spare, AllWhole, After
    <3> QED BY <3>1, <3>2, AfterExchange
  <2> QED BY <1>2, <2>1, <2>2 DEF Open
<1>3. CASE P = Gone
  <2> DEFINE a == Step("gone", "END", None)
  <2>1. a.do = "gone" /\ a.kind = "END"
    BY DEF Step
  <2>2. Gone = Then(a, <<>>)
    BY Tuples DEF Gone
  <2> HIDE DEF a
  <2>3. Well(w, a)
    BY <2>1 DEF Well
  <2> QED BY <1>1, <1>3, <2>1, <2>2, <2>3, BusyThen
<1>4. ASSUME NEW x, NEW K, IsSeq(K), P = Then(Hear("size", x), K) PROVE Busy(w, P)
  BY <1>4, BusyHear
<1> QED BY <1>2, <1>3, <1>4 DEF Quiet

(* So wherever it is the turn of the client.                               *)
LEMMA ClientBusy ==
    ASSUME NEW w, NEW P, NEW T, ClientTurn(w, P, T)
    PROVE  Busy(w, P) \/ Open(w, P, T)
<1>1. IsSeq(<<>>) /\ IsSeq(SyncStart) /\ IsSeq(HearLock)
  BY LastSeqs, OthersAre
<1>2. \A a, s : IsSeq(s) => IsSeq(Then(a, s))
  BY ThenIs
<1>3. \A K, L : Loops(w, K, L) => IsSeq(K) /\ IsSeq(L)
  BY LoopsAre
<1>4. CASE TellsUser(w, P, T)
  BY <1>1, <1>4, BusyAck DEF TellsUser, LoginStart
<1>5. CASE TellsCommand(w, P, T)
  BY <1>5, StartsBusy DEF TellsCommand
<1>6. ASSUME NEW f \in Files, NEW c \in Copies(f) \ {Missing}, NEW K, IsSeq(K), NEW j \in 0 .. Iterations(c.len),
             P \in {PutName(f, c, K), PutSize(f, c, K), PutParts(f, c, j, K), PutStart(f, c, K)}
      PROVE  Busy(w, P)
  <2>1. c.len \in Nat /\ Iterations(c.len) \in Nat /\ j \in Nat /\ j <= Iterations(c.len)
    BY CopiesAre, IterationsIs
  <2> QED BY <1>6, <2>1, PutBusy
<1>7. \A f \in Files : \A c \in Copies(f) \ {Missing} : 0 \in 0 .. Iterations(c.len)
  BY CopiesAre, IterationsIs
<1>8. CASE TellsName(w, P, T)
  BY <1>3, <1>6, <1>7, <1>8 DEF TellsName, ToPut
<1>9. CASE TellsSize(w, P, T)
  BY <1>3, <1>6, <1>7, <1>9 DEF TellsSize, Received
<1>10. CASE TellsPart(w, P, T)
  BY <1>3, <1>6, <1>10 DEF TellsPart, Received
<1>11. CASE TellsTime(w, P, T)
  BY <1>11, OpenTime
<1>12. CASE TellsGetName(w, P, T)
  BY <1>3, <1>12, BusyHear DEF TellsGetName, ToGet, GetName
<1>13. CASE TellsSizeAck(w, P, T)
  <2>1. PICK x, c, K, L : Fetched(w, x, c, 0) /\ Loops(w, K, L) /\ P = Then(Say("SIZE_ACK"), GetParts(x, c.len, 0, K))
    BY <1>13 DEF TellsSizeAck
  <2>2. IsSeq(K)
    BY <1>3, <2>1
  <2> QED BY <2>1, <2>2, GetBusy, BusyThen, StepFacts
<1>14. CASE TellsPartAck(w, P, T)
  <2>1. PICK x, c, j, K, L : Fetched(w, x, c, j) /\ Loops(w, K, L) /\ P = Then(Say("PART_RECEIVED"), GetParts(x, c.len, j, K))
    BY <1>14 DEF TellsPartAck
  <2>2. IsSeq(K)
    BY <1>3, <2>1
  <2> QED BY <2>1, <2>2, GetBusy, BusyThen, StepFacts
<1>15. CASE TellsRecordAck(w, P, T)
  <2>1. PICK f, K, L : Loops(w, K, L) /\ P = Then(Tell("GET_FILE_ACK", None), Then(Hear("mtime", f), K))
    BY <1>15, StepFacts DEF TellsRecordAck, ToSync
  <2> QED BY <1>3, <2>1, BusyHear
<1>16. CASE AnswersGet(w, P, T)
  <2>1. PICK x, K, L : Loops(w, K, L) /\ P = GetStart(x, K)
    BY <1>16 DEF AnswersGet, ToSync
  <2>2. IsSeq(GetName(x, K))
    BY <1>2, <1>3, <2>1 DEF GetName
  <2> QED BY <2>1, <2>2, BusyAck DEF GetStart
<1>17. CASE AnswersSend(w, P, T)
  BY <1>3, <1>6, <1>7, <1>17 DEF AnswersSend, ToPut
<1>18. CASE TellsGone(w, P, T)
  BY <1>18, OpenGone
<1>19. CASE TellsLock(w, P, T)
  BY <1>1, <1>19, BusyAck DEF TellsLock, NameLock, HearLock
<1>20. CASE TellsEntryAck(w, P, T)
  <2>1. PICK K, L : Loops(w, K, L) /\ P = Then(Say("FILENAME_ACK"), Then(Ack("info"), Then(Say("FILE_OK"), K)))
    BY <1>20 DEF TellsEntryAck
  <2>2. IsSeq(Then(Say("FILE_OK"), K))
    BY <1>2, <1>3, <2>1
  <2> QED BY <2>1, <2>2, BusyAck
<1>21. CASE TellsLast(w, P, T)
  BY <1>21, OpenLast
<1> QED BY <1>4, <1>5, <1>8, <1>9, <1>10, <1>11, <1>12, <1>13, <1>14, <1>15, <1>16, <1>17, <1>18, <1>19, <1>20, <1>21
        DEF ClientTurn

(* A client that waits for the leader is in a command.                     *)
LEMMA LeaderBusy ==
    ASSUME NEW w, NEW l, NEW P, NEW T, Answered(w, l, P, T)
    PROVE  Busy(w, P)
<1>1. PICK k, x, y, P1, T1 : /\ IsSeq(P1) /\ P = Then(Hear(k, x), P1)
                             /\ Fair(w, k, x, y, T1)
  BY DEF Answered, Answers
<1> DEFINE a == Hear(k, x)
<1>2. a.do = "hear" /\ a.kind = k /\ a.arg = x
  BY StepFacts
<1> HIDE DEF a
<1>3. Well(w, a)
  BY <1>1, <1>2 DEF Fair, Well
<1>4. Busy(w, Then(a, P1))
  BY <1>1, <1>2, <1>3, BusyThen
<1> QED BY <1>1, <1>4 DEF a

(* The client can begin another command where it is between two, and has   *)
(* told q; and it has the whole of a file that it waits for the end of.    *)
LEMMA Pause ==
    ASSUME NEW w, NEW P, NEW T, Busy(w, P) \/ Open(w, P, T),
           NEW q, NEW S, AllTells(q), IsSeq(S), S # <<>> => Head(S).do # "tell", P = Cat(q, S)
    PROVE  \/ /\ S \in {<<>>, Rest}
              /\ \A v, K1 : Spare(w, v) /\ Starts(v, K1) => Exchange(v, Cat(q, K1), T)
           \/ S # <<>> /\ Head(S).do \in {"hear", "gone"} /\ Well(w, Head(S))
<1>1. CASE Busy(w, P)
  <2>1. PICK h : First(P, h)
    BY <1>1 DEF Busy
  <2>2. PICK S2, q2 : AllTells(q2) /\ P = Cat(q2, S2) /\ S2 # <<>> /\ h = Head(S2) /\ IsSeq(S2) /\ Head(S2).do # "tell"
    BY <2>1 DEF First, Until
  <2>3. S = S2
    BY <2>2, UntilOne
  <2> QED BY <1>1, <2>1, <2>2, <2>3 DEF Busy
<1>2. CASE Open(w, P, T)
  <2>1. PICK q2, K :
           /\ AllTells(q2) /\ K \in {<<>>, Rest} /\ P = Cat(q2, K)
           /\ \A v, K1 : Spare(w, v) /\ Starts(v, K1) => Exchange(v, Cat(q2, K1), T)
    BY <1>2 DEF Open
  <2>2. IsSeq(K) /\ (K # <<>> => Head(K).do # "tell")
    <3>1. Rest = Then(Step("rest", "sync", None), <<>>)
      BY Tuples DEF Rest
    <3>2. IsSeq(Rest) /\ Head(Rest) = Step("rest", "sync", None)
      BY <3>1, LastSeqs, ThenIs
    <3>3. Head(Rest).do = "rest"
      BY <3>2 DEF Step
    <3> QED BY <2>1, <3>2, <3>3, LastSeqs
  <2>3. q = q2 /\ S = K
    BY <2>1, <2>2, UntilOne
  <2> QED BY <2>1, <2>3
<1> QED BY <1>1, <1>2

(* One element more at the end.                                            *)
LEMMA AppendIs ==
    ASSUME NEW s, IsSeq(s), NEW a
    PROVE  /\ IsSeq(Append(s, a)) /\ Append(s, a) = Cat(s, <<a>>) /\ Len(Append(s, a)) = Len(s) + 1
           /\ Append(s, a) # <<>>
           /\ \A i \in 1 .. Len(s) : Append(s, a)[i] = s[i]
           /\ Append(s, a)[Len(s) + 1] = a
<1> DEFINE S == {s[i] : i \in DOMAIN s} \cup {a}
<1>1. s \in Seq(S) /\ a \in S
  BY SeqMonotonic DEF IsSeq
<1> HIDE DEF S
<1>2. /\ Append(s, a) \in Seq(S) /\ Len(Append(s, a)) = Len(s) + 1
      /\ \A i \in 1 .. Len(s) : Append(s, a)[i] = s[i]
      /\ Append(s, a)[Len(s) + 1] = a
  BY <1>1, AppendProperties
<1>3. IsSeq(Append(s, a)) /\ Append(s, a) # <<>>
  <2>1. IsSeq(Append(s, a))
    BY <1>2, SeqsAre
  <2>2. Len(s) \in Nat
    BY SeqFacts
  <2> QED BY <1>2, <2>1, <2>2, SeqFacts
<1>4. Append(s, a) = s \o <<a>>
  BY <1>1, AppendIsConcat
<1> QED BY <1>2, <1>3, <1>4 DEF Cat

(* Messages under way are what their writer had to tell.                   *)
AsTells(q) == [i \in 1 .. Len(q) |-> Tell(q[i].kind, q[i].arg)]

(* As many, and of the same kinds and contents.                            *)
LEMMA TellsAre ==
    ASSUME NEW q, IsSeq(q)
    PROVE  /\ AllTells(AsTells(q)) /\ IsSeq(AsTells(q)) /\ Len(AsTells(q)) = Len(q)
           /\ \A i \in 1 .. Len(q) : AsTells(q)[i] = Tell(q[i].kind, q[i].arg)
           /\ AsTells(q) = <<>> <=> q = <<>>
<1> DEFINE t == AsTells(q)
<1>1. Len(q) \in Nat /\ DOMAIN t = 1 .. Len(q) /\ t = [i \in 1 .. Len(q) |-> t[i]]
      /\ \A i \in 1 .. Len(q) : t[i] = Tell(q[i].kind, q[i].arg)
  BY SeqFacts DEF AsTells
<1> HIDE DEF t
<1>2. IsSeq(t) /\ Len(t) = Len(q)
  BY <1>1, MadeSeq
<1>3. AllTells(t)
  BY <1>1, <1>2, StepFacts DEF AllTells
<1>4. t = <<>> <=> q = <<>>
  BY <1>2, SeqFacts
<1> QED BY <1>1, <1>2, <1>3, <1>4 DEF t

(* No messages.                                                            *)
LEMMA TellsEmpty == AsTells(<<>>) = <<>>
BY TellsAre, EmptyIsSeq

(* The next message, and the others.                                       *)
LEMMA TellsThen ==
    ASSUME NEW q, IsSeq(q), q # <<>>
    PROVE  /\ AsTells(q) = Then(Tell(Head(q).kind, Head(q).arg), AsTells(Tail(q)))
           /\ IsSeq(Tail(q)) /\ IsSeq(AsTells(Tail(q)))
<1> DEFINE r == Tail(q)
           a == Tell(Head(q).kind, Head(q).arg)
           t == AsTells(q)
           u == AsTells(r)
           v == Then(a, u)
<1>1. q = Then(Head(q), r) /\ IsSeq(r) /\ Head(q) = q[1]
  BY HeadTail
<1>2. Len(q) = Len(r) + 1 /\ (\A i \in 1 .. Len(r) : q[i + 1] = r[i]) /\ Len(r) \in Nat
  <2> HIDE DEF r
  <2>1. Len(Then(Head(q), r)) = Len(r) + 1 /\ (\A i \in 1 .. Len(r) : Then(Head(q), r)[i + 1] = r[i])
    BY <1>1, ThenIs
  <2> QED BY <1>1, <2>1, SeqFacts
<1>3. IsSeq(t) /\ Len(t) = Len(q) /\ \A i \in 1 .. Len(q) : t[i] = Tell(q[i].kind, q[i].arg)
  BY TellsAre
<1>4. IsSeq(u) /\ Len(u) = Len(r) /\ \A i \in 1 .. Len(r) : u[i] = Tell(r[i].kind, r[i].arg)
  <2> HIDE DEF r
  <2> QED BY <1>1, TellsAre
<1> HIDE DEF t, u, r
<1>5. IsSeq(v) /\ Len(v) = Len(u) + 1 /\ v[1] = a /\ \A i \in 1 .. Len(u) : v[i + 1] = u[i]
  <2> HIDE DEF a
  <2> QED BY <1>4, ThenIs
<1>6. v[1] = Tell(q[1].kind, q[1].arg)
  BY <1>1, <1>5
<1> HIDE DEF v, a
<1>7. ASSUME NEW i \in 1 .. Len(t) PROVE t[i] = v[i]
  <2>1. CASE i = 1
    BY <1>3, <1>6, <2>1
  <2>2. CASE i # 1
    <3>1. i - 1 \in 1 .. Len(r) /\ (i - 1) + 1 = i
      BY <1>2, <1>3, <2>2
    <3> QED BY <1>2, <1>3, <1>4, <1>5, <3>1
  <2> QED BY <2>1, <2>2
<1>8. t = v
  BY <1>2, <1>3, <1>4, <1>5, <1>7, SeqsEqual
<1> QED BY <1>1, <1>4, <1>8 DEF v, u, r, a, t

(* One message more is one step less.                                      *)
LEMMA TellsAppend ==
    ASSUME NEW q, IsSeq(q), NEW m, NEW s, IsSeq(s)
    PROVE  Cat(AsTells(Append(q, m)), s) = Cat(AsTells(q), Then(Tell(m.kind, m.arg), s))
<1> DEFINE p == Append(q, m)
           a == Tell(m.kind, m.arg)
           t == AsTells(p)
           u == AsTells(q)
<1>1. /\ IsSeq(p) /\ Len(p) = Len(q) + 1 /\ Len(q) \in Nat
      /\ \A i \in 1 .. Len(q) : p[i] = q[i]
      /\ p[Len(q) + 1] = m
  <2>1. Len(q) \in Nat
    BY SeqFacts
  <2> QED BY <2>1, AppendIs
<1> HIDE DEF p
<1>2. IsSeq(t) /\ Len(t) = Len(p) /\ \A i \in 1 .. Len(p) : t[i] = Tell(p[i].kind, p[i].arg)
  BY <1>1, TellsAre
<1>3. IsSeq(u) /\ Len(u) = Len(q) /\ \A i \in 1 .. Len(q) : u[i] = Tell(q[i].kind, q[i].arg)
  BY TellsAre
<1>4. IsSeq(<<a>>) /\ Len(<<a>>) = 1 /\ <<a>>[1] = a
  BY OneIsSeq
<1>5. t[Len(q) + 1] = a
  BY <1>1, <1>2
<1> HIDE DEF t, u
<1> DEFINE o == <<a>>
<1>6. IsSeq(o) /\ Len(o) = 1 /\ o[1] = a
  BY <1>4
<1> HIDE DEF o, a
<1>7. /\ IsSeq(Cat(u, o)) /\ Len(Cat(u, o)) = Len(u) + 1
      /\ \A i \in 1 .. Len(u) : Cat(u, o)[i] = u[i]
      /\ \A i \in 1 .. 1 : Cat(u, o)[Len(u) + i] = o[i]
  <2>1. /\ IsSeq(Cat(u, o)) /\ Len(Cat(u, o)) = Len(u) + Len(o)
        /\ \A i \in 1 .. Len(u) : Cat(u, o)[i] = u[i]
        /\ \A i \in 1 .. Len(o) : Cat(u, o)[Len(u) + i] = o[i]
    <3>1. IsSeq(u) /\ IsSeq(o)
      BY <1>3, <1>6
    <3> QED BY <3>1, CatIs
  <2> QED BY <1>6, <2>1
<1> DEFINE c == Cat(u, o)
<1>8. c[Len(q) + 1] = a /\ \A i \in 1 .. Len(q) : c[i] = t[i]
  <2>1. 1 \in 1 .. 1
    OBVIOUS
  <2>2. c[Len(u) + 1] = a
    BY <1>6, <1>7, <2>1
  <2>3. \A i \in 1 .. Len(q) : i \in 1 .. Len(p)
    BY <1>1
  <2>4. ASSUME NEW i \in 1 .. Len(q) PROVE c[i] = t[i]
    BY <1>1, <1>2, <1>3, <1>7, <2>3
  <2> QED BY <1>3, <2>2, <2>4
<1>9. c = t
  <2>1. IsSeq(c) /\ Len(c) = Len(q) + 1 /\ Len(t) = Len(q) + 1
    BY <1>1, <1>2, <1>3, <1>7
  <2>2. \A i \in 1 .. Len(q) + 1 : i \in 1 .. Len(q) \/ i = Len(q) + 1
    BY <1>1
  <2>3. \A i \in 1 .. Len(c) : c[i] = t[i]
    BY <1>5, <1>8, <2>1, <2>2
  <2> HIDE DEF c
  <2> QED BY <1>2, <2>1, <2>3, SeqsEqual
<1>10. Cat(Cat(u, o), s) = Cat(u, Cat(o, s)) /\ Cat(o, s) = Then(a, s)
  BY <1>3, <1>6, Assoc DEF Then, o
<1> QED BY <1>9, <1>10 DEF t, u, p, a

(* What is known of an exchange wherever it is.                            *)
Known(w, r, l) == IsWorld(w) /\ w.sent \in Directories /\ l \in Directories /\ OnDisk(w, r)

(* When nothing is to be told nobody tells.                                *)
LEMMA QuietIs ==
    ASSUME NEW w, NEW P, NEW T, Quiet(w, P, T)
    PROVE  /\ IsSeq(P) /\ IsSeq(T)
           /\ P # <<>> => Head(P).do # "tell"
           /\ T # <<>> => Head(T).do \notin {"tell", "hear"}
<1>1. IsSeq(<<>>) /\ IsSeq(Rest) /\ IsSeq(Gone)
  BY LastSeqs
<1>2. Rest = Then(Step("rest", "sync", None), <<>>) /\ Gone = Then(Step("gone", "END", None), <<>>)
  BY Tuples DEF Rest, Gone
<1>3. Head(Rest) = Step("rest", "sync", None) /\ Head(Gone) = Step("gone", "END", None)
  BY <1>1, <1>2, ThenIs
<1>4. Head(Rest).do = "rest" /\ Head(Gone).do = "gone"
  BY <1>3 DEF Step
<1>5. ASSUME NEW x, NEW K, IsSeq(K), P = Then(Hear("size", x), K) PROVE IsSeq(P) /\ Head(P).do # "tell"
  BY <1>5, ThenIs, StepFacts
<1> QED BY <1>1, <1>4, <1>5 DEF Quiet

(* A client that the leader serves tells; the leader waits.                *)
LEMMA ServedIs ==
    ASSUME NEW w, NEW r, NEW P, NEW T, Served(w, r, P, T)
    PROVE  /\ IsSeq(P) /\ IsSeq(T) /\ P # <<>> /\ Head(P).do = "tell"
           /\ T # <<>> => Head(T).do = "hear"
<1>1. PICK k, a, P1, h, T1, U :
         /\ IsSeq(P1) /\ IsSeq(T1)
         /\ P = Then(Tell(k, a), P1)
         /\ T = Then(h, T1) \/ T = <<>>
         /\ Takes(h, Msg(k, a)) \/ h = Ack("FILENAME_ACK")
  BY DEF Served, Serves
<1>2. h.do = "hear"
  BY <1>1, StepFacts DEF Takes
<1>3. IsSeq(P) /\ P # <<>> /\ Head(P) = Tell(k, a)
  BY <1>1, ThenIs
<1>4. IsSeq(T) /\ (T # <<>> => Head(T) = h)
  BY <1>1, ThenIs, EmptyIsSeq
<1> QED BY <1>2, <1>3, <1>4, StepFacts

(* A leader that the client waits for tells; the client waits.             *)
LEMMA AnsweredIs ==
    ASSUME NEW w, NEW l, NEW P, NEW T, Answered(w, l, P, T)
    PROVE  /\ IsSeq(P) /\ IsSeq(T) /\ P # <<>> /\ Head(P).do = "hear" /\ T # <<>> /\ Head(T).do = "tell"
<1>1. PICK k, x, y, P1, T1 : IsSeq(P1) /\ IsSeq(T1) /\ P = Then(Hear(k, x), P1) /\ T = Then(Tell(k, y), T1)
  BY DEF Answered, Answers
<1>2. IsSeq(P) /\ P # <<>> /\ Head(P) = Hear(k, x) /\ IsSeq(T) /\ T # <<>> /\ Head(T) = Tell(k, y)
  BY <1>1, ThenIs
<1> QED BY <1>2, StepFacts

(* Wherever they are, only one of the two tells, and the other waits for   *)
(* just that.                                                              *)
LEMMA Exchanged ==
    ASSUME NEW w, NEW r, NEW l, Known(w, r, l), NEW P, NEW T, Exchange(w, P, T)
    PROVE  /\ IsSeq(P) /\ IsSeq(T) /\ (Busy(w, P) \/ Open(w, P, T))
           /\ P # <<>> /\ Head(P).do = "tell" => Served(w, r, P, T)
           /\ T # <<>> /\ Head(T).do = "tell" => Answered(w, l, P, T)
           /\ ~(P # <<>> /\ Head(P).do = "tell" /\ T # <<>> /\ Head(T).do = "tell")
<1>1. CASE ClientTurn(w, P, T)
  <2>1. Served(w, r, P, T)
    BY <1>1, ServesClient DEF Known
  <2>2. Busy(w, P) \/ Open(w, P, T)
    BY <1>1, ClientBusy
  <2> QED BY <2>1, <2>2, ServedIs
<1>2. CASE LeaderTurn(w, P, T)
  <2>1. Answered(w, l, P, T)
    BY <1>2, AnsweredAll DEF Known
  <2>2. Busy(w, P)
    BY <2>1, LeaderBusy
  <2> QED BY <2>1, <2>2, AnsweredIs
<1>3. CASE Quiet(w, P, T)
  BY <1>3, OpenQuiet, QuietIs
<1> QED BY <1>1, <1>2, <1>3 DEF Exchange
-----------------------------------------------------------------------------
(* The same while messages are under way: the client has p still to do,    *)
(* and has told the leader e that the leader has not heard, or the leader, *)
(* that has T still to do, has told the client u.                          *)
Talk(w, e, p, u, T) ==
    /\ IsSeq(p) /\ IsSeq(T) /\ IsSeq(e) /\ IsSeq(u)
    /\ \/ u = <<>> /\ Exchange(w, Cat(AsTells(e), p), T)
       \/ e = <<>> /\ Exchange(w, p, Cat(AsTells(u), T))

(* One is ahead of the other, or neither.                                  *)
LEMMA TalkOne ==
    ASSUME NEW w, NEW e, NEW p, NEW u, NEW T, Talk(w, e, p, u, T)
    PROVE  \/ u = <<>> /\ Exchange(w, Cat(AsTells(e), p), T)
           \/ e = <<>> /\ u # <<>> /\ Exchange(w, p, Cat(AsTells(u), T))
<1>1. CASE e = <<>> /\ u = <<>> /\ Exchange(w, p, Cat(AsTells(u), T))
  BY <1>1, TellsEmpty, CatEmpty DEF Talk
<1> QED BY <1>1 DEF Talk

(* The next message under way is what was to be told first.                *)
LEMMA TellsHead ==
    ASSUME NEW q, IsSeq(q), q # <<>>, NEW s, IsSeq(s)
    PROVE  /\ Cat(AsTells(q), s) = Then(Tell(Head(q).kind, Head(q).arg), Cat(AsTells(Tail(q)), s))
           /\ IsSeq(Tail(q)) /\ IsSeq(Cat(AsTells(Tail(q)), s))
           /\ Cat(AsTells(q), s) # <<>> /\ Head(Cat(AsTells(q), s)).do = "tell"
<1> DEFINE a == Tell(Head(q).kind, Head(q).arg)
           t == AsTells(Tail(q))
<1>1. AsTells(q) = Then(a, t) /\ IsSeq(Tail(q)) /\ IsSeq(t)
  BY TellsThen
<1>2. a.do = "tell"
  BY StepFacts
<1> HIDE DEF a, t
<1>3. Cat(AsTells(q), s) = Then(a, Cat(t, s)) /\ IsSeq(Cat(t, s))
  BY <1>1, ThenCat, CatIs
<1>4. Head(Then(a, Cat(t, s))) = a /\ Then(a, Cat(t, s)) # <<>>
  BY <1>3, ThenIs
<1> QED BY <1>1, <1>2, <1>3, <1>4 DEF a, t

(* The client writes its next message.                                     *)
LEMMA TalkTells ==
    ASSUME NEW w, NEW r, NEW l, Known(w, r, l), NEW e, NEW p, NEW u, NEW T, Talk(w, e, p, u, T),
           NEW k, NEW x, p # <<>>, Head(p) = Tell(k, x)
    PROVE  Talk(w, Append(e, Msg(k, x)), Tail(p), u, T)
<1> DEFINE m == Msg(k, x)
<1>1. IsSeq(p) /\ IsSeq(T) /\ IsSeq(e) /\ IsSeq(u) /\ Head(p).do = "tell"
  BY StepFacts DEF Talk
<1>2. p = Then(Tell(k, x), Tail(p)) /\ IsSeq(Tail(p))
  BY <1>1, HeadTail
<1>3. u = <<>> /\ Exchange(w, Cat(AsTells(e), p), T)
  <2> SUFFICES ASSUME u # <<>>, Exchange(w, p, Cat(AsTells(u), T)) PROVE FALSE
    BY TalkOne
  <2> QED BY <1>1, Exchanged, TellsHead
<1>4. m.kind = k /\ m.arg = x
  BY StepFacts
<1>5. IsSeq(Append(e, m))
  BY <1>1, AppendIs
<1> HIDE DEF m
<1>6. Cat(AsTells(Append(e, m)), Tail(p)) = Cat(AsTells(e), p)
  BY <1>1, <1>2, <1>4, TellsAppend
<1> QED BY <1>1, <1>2, <1>3, <1>5, <1>6 DEF Talk, m

(* The client begins another command, whatever is still under way.         *)
LEMMA TalkBegins ==
    ASSUME NEW w, NEW r, NEW l, Known(w, r, l), NEW e, NEW p, NEW u, NEW T, Talk(w, e, p, u, T),
           p = <<>> \/ Head(p).do = "rest"
    PROVE  /\ p \in {<<>>, Rest}
           /\ \A v, K1 : Spare(w, v) /\ Starts(v, K1) => Talk(v, e, K1, u, T)
<1>1. IsSeq(p) /\ IsSeq(T) /\ IsSeq(e) /\ IsSeq(u) /\ (p # <<>> => Head(p).do = "rest")
  BY DEF Talk
<1>2. AllTells(<<>>) /\ AllTells(AsTells(e))
  BY <1>1, AllTellsThen, TellsAre
<1>3. \A v, K1 : Starts(v, K1) => IsSeq(K1)
  BY StartsAreSeqs
<1>4. CASE u = <<>> /\ Exchange(w, Cat(AsTells(e), p), T)
  <2> DEFINE P == Cat(AsTells(e), p)
  <2>1. Busy(w, P) \/ Open(w, P, T)
    BY <1>4, Exchanged
  <2>2. P = Cat(AsTells(e), p)
    OBVIOUS
  <2> HIDE DEF P
  <2>3. /\ p \in {<<>>, Rest}
        /\ \A v, K1 : Spare(w, v) /\ Starts(v, K1) => Exchange(v, Cat(AsTells(e), K1), T)
    BY <1>1, <1>2, <2>1, <2>2, Pause
  <2> QED BY <1>1, <1>3, <1>4, <2>3 DEF Talk
<1>5. CASE e = <<>> /\ Exchange(w, p, Cat(AsTells(u), T))
  <2> DEFINE T1 == Cat(AsTells(u), T)
  <2>1. Busy(w, p) \/ Open(w, p, T1)
    BY <1>5, Exchanged
  <2>2. p = Cat(<<>>, p)
    BY <1>1, CatEmpty
  <2> HIDE DEF T1
  <2>3. /\ p \in {<<>>, Rest}
        /\ \A v, K1 : Spare(w, v) /\ Starts(v, K1) => Exchange(v, Cat(<<>>, K1), T1)
    BY <1>1, <1>2, <2>1, <2>2, Pause
  <2>4. \A v, K1 : Spare(w, v) /\ Starts(v, K1) => Exchange(v, K1, T1)
    BY <1>3, <2>3, CatEmpty
  <2> QED BY <1>1, <1>3, <1>5, <2>3, <2>4 DEF Talk, T1
<1> QED BY <1>4, <1>5, TalkOne

(* The client reads a message: the one it waits for, and it goes on.       *)
LEMMA TalkHears ==
    ASSUME NEW w, NEW r, NEW l, Known(w, r, l), NEW e, NEW p, NEW u, NEW T, Talk(w, e, p, u, T),
           p # <<>>, Head(p).do = "hear", u # <<>>
    PROVE  LET k == Head(p).kind
               x == Head(p).arg
               y == Head(u).arg
           IN  /\ Head(u).kind = k /\ Fair(w, k, x, y, Cat(AsTells(Tail(u)), T))
               /\ \A v, steps : Replies(w, l, Hear(k, x), Msg(k, y), v, steps) =>
                                   IsSeq(steps) /\ Talk(v, e, Cat(steps, Tail(p)), Tail(u), T)
<1>1. e = <<>> /\ Exchange(w, p, Cat(AsTells(u), T)) /\ IsSeq(p) /\ IsSeq(u) /\ IsSeq(T) /\ IsSeq(e)
  BY TalkOne DEF Talk
<1> DEFINE T0 == Cat(AsTells(u), T)
           V == Cat(AsTells(Tail(u)), T)
           b == Tell(Head(u).kind, Head(u).arg)
<1>2. T0 = Then(b, V) /\ IsSeq(V) /\ T0 # <<>> /\ Head(T0).do = "tell" /\ IsSeq(Tail(u))
  BY <1>1, TellsHead
<1>3. b.kind = Head(u).kind /\ b.arg = Head(u).arg
  BY StepFacts
<1>4. p = Then(Head(p), Tail(p)) /\ IsSeq(Tail(p))
  BY <1>1, HeadTail
<1> HIDE DEF b, T0, V
<1>5. Answered(w, l, p, T0)
  BY <1>1, <1>2, Exchanged DEF T0
<1>6. PICK k, x, y, P1, T1 :
         /\ IsSeq(P1) /\ IsSeq(T1) /\ p = Then(Hear(k, x), P1) /\ T0 = Then(Tell(k, y), T1)
         /\ Fair(w, k, x, y, T1)
         /\ \A v, steps : Replies(w, l, Hear(k, x), Msg(k, y), v, steps) =>
                            IsSeq(steps) /\ Exchange(v, Cat(steps, P1), T1)
  BY <1>5 DEF Answered, Answers
<1>7. Head(p) = Hear(k, x) /\ Tail(p) = P1
  BY <1>6, ThenIs
<1>8. b = Tell(k, y) /\ V = T1
  BY <1>2, <1>6, ThenOne
<1>9. Head(u).kind = k /\ Head(u).arg = y /\ Head(p).kind = k /\ Head(p).arg = x
  BY <1>3, <1>7, <1>8, StepFacts
<1>10. ASSUME NEW v, NEW steps, Replies(w, l, Hear(k, x), Msg(k, y), v, steps)
       PROVE  IsSeq(steps) /\ Talk(v, e, Cat(steps, Tail(p)), Tail(u), T)
  <2>1. IsSeq(steps) /\ Exchange(v, Cat(steps, Tail(p)), V)
    BY <1>6, <1>7, <1>8, <1>10
  <2>2. IsSeq(Cat(steps, Tail(p)))
    BY <1>4, <2>1, CatIs
  <2> QED BY <1>1, <1>2, <2>1, <2>2 DEF Talk, V
<1>11. Fair(w, k, x, y, V)
  BY <1>6, <1>8
<1> QED BY <1>9, <1>10, <1>11 DEF V

(* The leader writes its next message.                                     *)
LEMMA TalkSays ==
    ASSUME NEW w, NEW r, NEW l, Known(w, r, l), NEW e, NEW p, NEW u, NEW T, Talk(w, e, p, u, T),
           NEW k, NEW x, T # <<>>, Head(T) = Tell(k, x)
    PROVE  Talk(w, e, p, Append(u, Msg(k, x)), Tail(T))
<1> DEFINE m == Msg(k, x)
<1>1. IsSeq(p) /\ IsSeq(T) /\ IsSeq(e) /\ IsSeq(u) /\ Head(T).do = "tell"
  BY StepFacts DEF Talk
<1>2. T = Then(Tell(k, x), Tail(T)) /\ IsSeq(Tail(T))
  BY <1>1, HeadTail
<1>3. e = <<>> /\ Exchange(w, p, Cat(AsTells(u), T))
  <2>1. CASE u = <<>> /\ Exchange(w, Cat(AsTells(e), p), T)
    <3>1. ASSUME e # <<>> PROVE FALSE
      <4> DEFINE P == Cat(AsTells(e), p)
      <4>1. P # <<>> /\ Head(P).do = "tell" /\ Exchange(w, P, T)
        BY <1>1, <2>1, <3>1, TellsHead
      <4> HIDE DEF P
      <4> QED BY <1>1, <4>1, Exchanged
    <3> QED BY <1>1, <2>1, <3>1, TellsEmpty, CatEmpty
  <2> QED BY <2>1, TalkOne
<1>4. m.kind = k /\ m.arg = x
  BY StepFacts
<1>5. IsSeq(Append(u, m))
  BY <1>1, AppendIs
<1> HIDE DEF m
<1>6. Cat(AsTells(Append(u, m)), Tail(T)) = Cat(AsTells(u), T)
  BY <1>1, <1>2, <1>4, TellsAppend
<1> QED BY <1>1, <1>2, <1>3, <1>5, <1>6 DEF Talk, m

(* The leader hears m, and goes on with U.                                 *)
Turns(w, r, m, T, U) ==
    LET h == Hearing(T) IN
    /\ Takes(h, m) \/ (T # <<>> /\ h.kind = "FILENAME_ACK" /\ m.kind = "FILENAME_ACK")
    /\ U = Cat(NextSteps(h, m, w.disk, r), Left(T))
    /\ IsSeq(U) /\ Moves(w, h, m, NextDisk(h, m, w.disk)) /\ Speaks(U, m.kind)

(* The leader reads a message: the one it waits for, and it goes on.       *)
LEMMA TalkTurns ==
    ASSUME NEW w, NEW r, NEW l, Known(w, r, l), NEW e, NEW p, NEW u, NEW T, Talk(w, e, p, u, T),
           NEW k, NEW x, e # <<>>, Head(e) = Msg(k, x)
    PROVE  /\ u = <<>> /\ (T # <<>> => Head(T).do = "hear")
           /\ LET m == Msg(k, x)
                  h == Hearing(T)
                  U == Cat(NextSteps(h, m, w.disk, r), Left(T))
              IN  /\ Turns(w, r, m, T, U)
                  /\ Talk(WorldOf(NextDisk(h, m, w.disk), w.sent, w.fetched), Tail(e), p, u, U)
<1> DEFINE m == Msg(k, x)
           P1 == Cat(AsTells(Tail(e)), p)
           b == Tell(Head(e).kind, Head(e).arg)
           P == Cat(AsTells(e), p)
<1>1. u = <<>> /\ Exchange(w, P, T) /\ IsSeq(p) /\ IsSeq(u) /\ IsSeq(T) /\ IsSeq(e)
  BY TalkOne DEF Talk
<1>2. P = Then(b, P1) /\ IsSeq(P1) /\ P # <<>> /\ Head(P).do = "tell" /\ IsSeq(Tail(e))
  BY <1>1, TellsHead
<1>3. b = Tell(k, x)
  BY StepFacts
<1> HIDE DEF b, P, P1
<1>4. Served(w, r, P, T)
  BY <1>1, <1>2, Exchanged
<1>5. T # <<>> => Head(T).do = "hear"
  BY <1>4, ServedIs
<1>6. PICK k0, a, P0, h, T1, U : Serves(w, r, P, T, k0, a, P0, h, T1, U)
  BY <1>4 DEF Served
<1>7. /\ IsSeq(P0) /\ IsSeq(T1) /\ IsSeq(U)
      /\ P = Then(Tell(k0, a), P0)
      /\ T = Then(h, T1) \/ (T = <<>> /\ T1 = <<>> /\ h = Ack("command"))
  BY <1>6 DEF Serves
<1>8. Tell(k0, a) = Tell(k, x) /\ P0 = P1
  <2>1. Then(Tell(k0, a), P0) = Then(Tell(k, x), P1)
    BY <1>2, <1>3, <1>7
  <2> QED BY <1>2, <1>7, <2>1, ThenOne
<1>9. k0 = k /\ a = x
  BY <1>8, StepFacts
<1>10. Msg(k0, a) = m
  BY <1>9
<1> HIDE DEF m
<1>11. Takes(h, m) \/ (h = Ack("FILENAME_ACK") /\ k = "FILENAME_ACK")
  BY <1>6, <1>9, <1>10 DEF Serves
<1>12. /\ U = Cat(NextSteps(h, m, w.disk, r), T1)
       /\ Exchange(WorldOf(NextDisk(h, m, w.disk), w.sent, w.fetched), P1, U)
       /\ Moves(w, h, m, NextDisk(h, m, w.disk)) /\ Speaks(U, k)
  BY <1>6, <1>8, <1>9, <1>10 DEF Serves
<1>13. Hearing(T) = h /\ Left(T) = T1
  <2>1. CASE T = Then(h, T1)
    <3>1. T # <<>> /\ Head(T) = h /\ Tail(T) = T1
      BY <1>7, <2>1, ThenIs
    <3> QED BY <3>1 DEF Hearing, Left
  <2>2. CASE T = <<>> /\ T1 = <<>> /\ h = Ack("command")
    BY <2>2 DEF Hearing, Left
  <2> QED BY <1>7, <2>1, <2>2
<1>14. m.kind = k
  BY StepFacts DEF m
<1>15. Takes(h, m) \/ (T # <<>> /\ h.kind = "FILENAME_ACK" /\ m.kind = "FILENAME_ACK")
  <2>1. CASE h = Ack("FILENAME_ACK") /\ k = "FILENAME_ACK"
    <3>1. h.kind = "FILENAME_ACK" /\ Ack("command").kind = "command"
      BY <2>1, StepFacts
    <3>2. T # <<>>
      BY <1>13, <3>1 DEF Hearing
    <3> QED BY <1>14, <2>1, <3>1, <3>2
  <2> QED BY <1>11, <2>1
<1>16. Turns(w, r, m, T, U)
  BY <1>7, <1>12, <1>13, <1>14, <1>15 DEF Turns
<1>17. Talk(WorldOf(NextDisk(h, m, w.disk), w.sent, w.fetched), Tail(e), p, u, U)
  BY <1>1, <1>2, <1>7, <1>12 DEF Talk, P1
<1> QED BY <1>1, <1>5, <1>12, <1>13, <1>16, <1>17 DEF m

(* A client that waits for the end of a file has all of it.                *)
LEMMA TalkWell ==
    ASSUME NEW w, NEW r, NEW l, Known(w, r, l), NEW e, NEW p, NEW u, NEW T, Talk(w, e, p, u, T),
           p # <<>>, Head(p).do = "hear"
    PROVE  Well(w, Head(p))
<1>1. IsSeq(p) /\ IsSeq(e) /\ IsSeq(u) /\ IsSeq(T)
  BY DEF Talk
<1>2. p \notin {<<>>, Rest}
  <2>1. Rest = Then(Step("rest", "sync", None), <<>>)
    BY Tuples DEF Rest
  <2>2. Head(Rest) = Step("rest", "sync", None)
    BY <2>1, LastSeqs, ThenIs
  <2>3. Head(Rest).do = "rest"
    BY <2>2 DEF Step
  <2> QED BY <2>3
<1>3. CASE u = <<>> /\ Exchange(w, Cat(AsTells(e), p), T)
  <2> DEFINE P == Cat(AsTells(e), p)
  <2>1. (Busy(w, P) \/ Open(w, P, T)) /\ AllTells(AsTells(e))
    BY <1>1, <1>3, Exchanged, TellsAre
  <2>2. P = Cat(AsTells(e), p)
    OBVIOUS
  <2> HIDE DEF P
  <2> QED BY <1>1, <1>2, <2>1, <2>2, Pause
<1>4. CASE e = <<>> /\ Exchange(w, p, Cat(AsTells(u), T))
  <2> DEFINE T1 == Cat(AsTells(u), T)
  <2>1. Busy(w, p) \/ Open(w, p, T1)
    BY <1>4, Exchanged
  <2>2. p = Cat(<<>>, p) /\ AllTells(<<>>)
    BY <1>1, CatEmpty, AllTellsThen
  <2> HIDE DEF T1
  <2> QED BY <1>1, <1>2, <2>1, <2>2, Pause
<1> QED BY <1>3, <1>4, TalkOne

(* Sequences of steps, of kinds D.                                         *)
IsStep(a, D) == a = Step(a.do, a.kind, a.arg) /\ a.do \in D
Typed(s, D) == IsSeq(s) /\ \A i \in DOMAIN s : IsStep(s[i], D)
TodoKinds == {"tell", "hear", "gone"}

(* Steps that tell and that wait.                                          *)
LEMMA StepsAre ==
    ASSUME NEW D, "tell" \in D, "hear" \in D
    PROVE  /\ \A k, x : IsStep(Tell(k, x), D) /\ IsStep(Hear(k, x), D)
           /\ \A k : IsStep(Say(k), D) /\ IsStep(Ack(k), D)
BY DEF IsStep, Tell, Hear, Say, Ack, Step

(* A step more.                                                            *)
LEMMA TypedThen ==
    ASSUME NEW D
    PROVE  /\ Typed(<<>>, D)
           /\ \A a, s : IsStep(a, D) /\ Typed(s, D) => Typed(Then(a, s), D)
<1>1. Typed(<<>>, D)
  BY EmptyIsSeq, SeqFacts DEF Typed
<1>2. ASSUME NEW a, NEW s, IsStep(a, D), Typed(s, D) PROVE Typed(Then(a, s), D)
  <2> DEFINE t == Then(a, s)
  <2>1. IsSeq(s)
    BY <1>2 DEF Typed
  <2>2. IsSeq(t) /\ Len(t) = Len(s) + 1 /\ t[1] = a /\ (\A i \in 1 .. Len(s) : t[i + 1] = s[i])
    BY <2>1, ThenIs
  <2> HIDE DEF t
  <2>3. DOMAIN s = 1 .. Len(s) /\ Len(s) \in Nat /\ DOMAIN t = 1 .. Len(t)
    BY <2>1, <2>2, SeqFacts
  <2>4. ASSUME NEW i \in DOMAIN t PROVE IsStep(t[i], D)
    <3>1. CASE i = 1
      BY <1>2, <2>2, <3>1
    <3>2. CASE i # 1
      <4>1. i - 1 \in 1 .. Len(s) /\ (i - 1) + 1 = i
        BY <2>2, <2>3, <3>2
      <4>2. t[i] = s[i - 1] /\ i - 1 \in DOMAIN s
        BY <2>2, <2>3, <4>1
      <4> QED BY <1>2, <4>2 DEF Typed
    <3> QED BY <3>1, <3>2
  <2> QED BY <2>2, <2>4 DEF Typed, t
<1> QED BY <1>1, <1>2

(* One sequence of steps after the other.                                  *)
LEMMA TypedCat ==
    ASSUME NEW D, NEW s, NEW t, Typed(s, D), Typed(t, D)
    PROVE  Typed(Cat(s, t), D)
<1> DEFINE c == Cat(s, t)
<1>1. IsSeq(s) /\ IsSeq(t)
  BY DEF Typed
<1>2. /\ IsSeq(c) /\ Len(c) = Len(s) + Len(t)
      /\ \A i \in 1 .. Len(s) : c[i] = s[i]
      /\ \A i \in 1 .. Len(t) : c[Len(s) + i] = t[i]
  BY <1>1, CatIs
<1> HIDE DEF c
<1>3. /\ Len(s) \in Nat /\ Len(t) \in Nat /\ DOMAIN s = 1 .. Len(s)
      /\ DOMAIN t = 1 .. Len(t) /\ DOMAIN c = 1 .. Len(c)
  BY <1>1, <1>2, SeqFacts
<1>4. ASSUME NEW i \in DOMAIN c PROVE IsStep(c[i], D)
  <2>1. CASE i <= Len(s)
    <3>1. i \in 1 .. Len(s)
      BY <1>3, <2>1
    <3>2. c[i] = s[i] /\ i \in DOMAIN s
      BY <1>2, <1>3, <3>1
    <3> QED BY <3>2 DEF Typed
  <2>2. CASE i > Len(s)
    <3>1. i - Len(s) \in 1 .. Len(t) /\ Len(s) + (i - Len(s)) = i
      BY <1>2, <1>3, <2>2
    <3>2. c[i] = t[i - Len(s)] /\ i - Len(s) \in DOMAIN t
      BY <1>2, <1>3, <3>1
    <3> QED BY <3>2 DEF Typed
  <2> QED BY <1>3, <2>1, <2>2
<1> QED BY <1>2, <1>4 DEF Typed, c

(* A step less.                                                            *)
LEMMA TypedTail ==
    ASSUME NEW D, NEW s, Typed(s, D), s # <<>>
    PROVE  Typed(Tail(s), D) /\ IsStep(Head(s), D)
<1> DEFINE t == Tail(s)
           u == Then(Head(s), t)
<1>1. IsSeq(s) /\ s = u /\ IsSeq(t) /\ Head(s) = s[1]
  BY HeadTail DEF Typed
<1> HIDE DEF t
<1>2. Len(u) = Len(t) + 1 /\ \A i \in 1 .. Len(t) : u[i + 1] = t[i]
  BY <1>1, ThenIs
<1> HIDE DEF u
<1>3. Len(t) \in Nat /\ DOMAIN t = 1 .. Len(t) /\ DOMAIN s = 1 .. Len(s)
  BY <1>1, SeqFacts
<1>4. \A i \in 1 .. Len(t) : i + 1 \in DOMAIN s
  BY <1>1, <1>2, <1>3
<1>5. \A i \in DOMAIN t : IsStep(t[i], D)
  BY <1>1, <1>2, <1>3, <1>4 DEF Typed
<1>6. IsStep(s[1], D)
  <2>1. 1 \in DOMAIN s
    BY <1>1, <1>2, <1>3
  <2> QED BY <2>1 DEF Typed
<1> QED BY <1>1, <1>5, <1>6 DEF Typed, t

(* A loop of turns made of steps.                                          *)
LEMMA TypedRun ==
    ASSUME NEW D, NEW F, NEW n \in Nat, NEW s, Typed(s, D), \A k \in Nat : Typed(F[k], D)
    PROVE  Typed(Cat(Run(F, 0, n), s), D)
<1> DEFINE G(i) == Cat(Run(F, n - i, n), s)
           S == {i \in Nat : i <= n => Typed(G(i), D)}
<1>1. IsSeq(s) /\ \A k \in Nat : IsSeq(F[k])
  BY DEF Typed
<1>2. 0 \in S
  <2>1. n - 0 = n /\ n <= n
    OBVIOUS
  <2>2. Cat(Run(F, n, n), s) = s
    BY <1>1, RunEnd, CatEmpty
  <2> QED BY <2>1, <2>2
<1>3. ASSUME NEW i \in Nat, i \in S PROVE i + 1 \in S
  <2> SUFFICES ASSUME i + 1 <= n PROVE Typed(G(i + 1), D)
    OBVIOUS
  <2> DEFINE j == n - (i + 1)
  <2>1. j \in Nat /\ j < n /\ j + 1 = n - i /\ j + 1 \in Nat /\ j + 1 <= n /\ i <= n
    OBVIOUS
  <2>2. Typed(Cat(Run(F, j + 1, n), s), D)
    BY <1>3, <2>1
  <2> HIDE DEF j
  <2>3. Cat(Run(F, j, n), s) = Cat(F[j + 1], Cat(Run(F, j + 1, n), s))
    <3>1. Run(F, j, n) = Cat(F[j + 1], Run(F, j + 1, n))
      BY <1>1, <2>1, RunStep
    <3>2. IsSeq(Run(F, j + 1, n)) /\ IsSeq(F[j + 1])
      BY <1>1, <2>1, RunIs
    <3> QED BY <1>1, <3>1, <3>2, Assoc
  <2>4. Typed(Cat(Run(F, j, n), s), D)
    <3>1. Typed(F[j + 1], D)
      BY <2>1
    <3> QED BY <2>2, <2>3, <3>1, TypedCat
  <2> QED BY <2>4 DEF j
<1>4. Nat \subseteq S
  BY <1>2, <1>3, Inductive
<1>5. n \in S /\ n <= n /\ n - n = 0
  BY <1>4
<1> QED BY <1>5

(* Tuples of steps.                                                        *)
LEMMA TypedTuples ==
    ASSUME NEW D
    PROVE  /\ \A a : IsStep(a, D) => Typed(<<a>>, D)
           /\ \A a, b : IsStep(a, D) /\ IsStep(b, D) => Typed(<<a, b>>, D)
           /\ \A a, b, c, d : IsStep(a, D) /\ IsStep(b, D) /\ IsStep(c, D) /\ IsStep(d, D) => Typed(<<a, b, c, d>>, D)
<1>1. Typed(<<>>, D) /\ \A a, s : IsStep(a, D) /\ Typed(s, D) => Typed(Then(a, s), D)
  BY TypedThen
<1>2. ASSUME NEW a, IsStep(a, D) PROVE Typed(<<a>>, D)
  <2>1. <<a>> = Then(a, <<>>)
    BY Tuples
  <2> QED BY <1>1, <1>2, <2>1
<1>3. ASSUME NEW a, NEW b, IsStep(a, D), IsStep(b, D) PROVE Typed(<<a, b>>, D)
  <2>1. <<a, b>> = Then(a, <<b>>)
    BY TuplesAreSeqs, Tuples
  <2> QED BY <1>1, <1>2, <1>3, <2>1
<1>4. ASSUME NEW a, NEW b, NEW c, NEW d, IsStep(a, D), IsStep(b, D), IsStep(c, D), IsStep(d, D)
      PROVE  Typed(<<a, b, c, d>>, D)
  <2>1. <<a, b, c, d>> = Then(a, Then(b, Then(c, Then(d, <<>>))))
    BY Tuples
  <2>2. Typed(Then(c, Then(d, <<>>)), D)
    BY <1>1, <1>4
  <2> QED BY <1>1, <1>4, <2>1, <2>2
<1> QED BY <1>2, <1>3, <1>4

(* All that a process goes on with is made of steps.                       *)
LEMMA PutTyped ==
    ASSUME NEW D, "tell" \in D, "hear" \in D, NEW f, NEW c, c.len \in Nat, NEW K, Typed(K, D)
    PROVE  Typed(PutStart(f, c, K), D)
<1>1. \A a, s : IsStep(a, D) /\ Typed(s, D) => Typed(Then(a, s), D)
  BY TypedThen
<1>2. \A k, x : IsStep(Tell(k, x), D) /\ IsStep(Hear(k, x), D)
  BY StepsAre
<1>3. \A k : IsStep(Say(k), D) /\ IsStep(Ack(k), D)
  BY StepsAre
<1>4. Typed(PutEnd(f, c, K), D)
  BY <1>1, <1>2, <1>3 DEF PutEnd, PutTime
<1>5. \A k \in Nat : Typed(SentPart(c)[k], D)
  <2>1. ASSUME NEW k \in Nat PROVE Typed(SentPart(c)[k], D)
    <3>1. SentPart(c)[k] = <<Tell("part", Copy(c.of, PartSize(c.len, k))), Ack("PART_RECEIVED")>>
      BY DEF SentPart
    <3> QED BY <1>2, <1>3, <3>1, TypedTuples
  <2> QED BY <2>1
<1>6. Typed(PutParts(f, c, 0, K), D)
  <2>1. Iterations(c.len) \in Nat
    BY IterationsIs
  <2> QED BY <1>4, <1>5, <2>1, TypedRun DEF PutParts
<1>7. Typed(PutSize(f, c, K), D)
  BY <1>1, <1>2, <1>3, <1>6 DEF PutSize
<1> QED BY <1>1, <1>2, <1>3, <1>7 DEF PutStart, PutName

(* To get a file,                                                          *)
LEMMA GetTyped ==
    ASSUME NEW D, "tell" \in D, "hear" \in D, NEW x, NEW K, Typed(K, D)
    PROVE  Typed(GetStart(x, K), D) /\ \A n \in Nat : Typed(GetParts(x, n, 0, K), D)
<1>1. \A a, s : IsStep(a, D) /\ Typed(s, D) => Typed(Then(a, s), D)
  BY TypedThen
<1>2. \A k, y : IsStep(Tell(k, y), D) /\ IsStep(Hear(k, y), D)
  BY StepsAre
<1>3. \A k : IsStep(Say(k), D) /\ IsStep(Ack(k), D)
  BY StepsAre
<1>4. Typed(GetName(x, K), D)
  BY <1>1, <1>2 DEF GetName
<1>5. Typed(GetStart(x, K), D)
  BY <1>1, <1>3, <1>4 DEF GetStart
<1>6. ASSUME NEW n \in Nat PROVE Typed(GetParts(x, n, 0, K), D)
  <2>1. Typed(GetEnd(x, K), D)
    BY <1>1, <1>2, <1>3 DEF GetEnd
  <2>2. ASSUME NEW k \in Nat PROVE Typed(GotPart(n)[k], D)
    <3>1. GotPart(n)[k] = <<Hear("part", PartSize(n, k)), Say("PART_RECEIVED")>>
      BY DEF GotPart
    <3> QED BY <1>2, <1>3, <3>1, TypedTuples
  <2>3. Iterations(n) \in Nat
    BY IterationsIs
  <2> QED BY <2>1, <2>2, <2>3, TypedRun DEF GetParts
<1> QED BY <1>5, <1>6

(* to read one,                                                            *)
LEMMA ReadTyped ==
    ASSUME NEW D, "tell" \in D, "hear" \in D, NEW f, NEW n \in Nat, NEW L, Typed(L, D)
    PROVE  Typed(ReadParts(f, n, 0, L), D)
<1>1. \A a, s : IsStep(a, D) /\ Typed(s, D) => Typed(Then(a, s), D)
  BY TypedThen
<1>2. \A k, y : IsStep(Tell(k, y), D) /\ IsStep(Hear(k, y), D)
  BY StepsAre
<1>3. \A k : IsStep(Say(k), D) /\ IsStep(Ack(k), D)
  BY StepsAre
<1>4. Typed(ReadEnd(f, L), D)
  BY <1>1, <1>2, <1>3 DEF ReadEnd, ReadTime
<1>5. ASSUME NEW k \in Nat PROVE Typed(ReadPart(f, n)[k], D)
  <2>1. ReadPart(f, n)[k] = <<Hear("part", <<f, PartSize(n, k)>>), Say("PART_RECEIVED")>>
    BY DEF ReadPart
  <2> QED BY <1>2, <1>3, <2>1, TypedTuples
<1>6. Iterations(n) \in Nat
  BY IterationsIs
<1> QED BY <1>4, <1>5, <1>6, TypedRun DEF ReadParts

(* to send one,                                                            *)
LEMMA GiveTyped ==
    ASSUME NEW D, "tell" \in D, "hear" \in D, NEW c, c # Missing => c.len \in Nat, NEW L, Typed(L, D)
    PROVE  Typed(GiveBody(c, L), D)
<1>1. \A a, s : IsStep(a, D) /\ Typed(s, D) => Typed(Then(a, s), D)
  BY TypedThen
<1>2. \A k, y : IsStep(Tell(k, y), D) /\ IsStep(Hear(k, y), D)
  BY StepsAre
<1>3. \A k : IsStep(Say(k), D) /\ IsStep(Ack(k), D)
  BY StepsAre
<1>4. CASE c # Missing
  <2>1. Typed(GiveEnd(L), D)
    BY <1>1, <1>3 DEF GiveEnd
  <2>2. ASSUME NEW k \in Nat PROVE Typed(SentPart(c)[k], D)
    <3>1. SentPart(c)[k] = <<Tell("part", Copy(c.of, PartSize(c.len, k))), Ack("PART_RECEIVED")>>
      BY DEF SentPart
    <3> QED BY <1>2, <1>3, <3>1, TypedTuples
  <2>3. Iterations(c.len) \in Nat
    BY <1>4, IterationsIs
  <2>4. Typed(GiveParts(c, 0, L), D)
    BY <2>1, <2>2, <2>3, TypedRun DEF GiveParts
  <2>5. Typed(GiveSize(c, L), D)
    BY <1>1, <1>2, <1>3, <2>4 DEF GiveSize
  <2> QED BY <1>4, <2>5 DEF GiveBody
<1> QED BY <1>4 DEF GiveBody

(* to go through entries or records,                                       *)
LEMMA LoopsTyped ==
    ASSUME NEW D, "tell" \in D, "hear" \in D, NEW n \in Nat
    PROVE  /\ Typed(Run(SentEntry, 0, n), D) /\ Typed(Run(ReadEntry, 0, n), D) /\ Typed(Run(ReadRecord, 0, n), D)
           /\ \A r : Typed(Run(SentRecord(r), 0, n), D)
<1>1. \A k, y : IsStep(Tell(k, y), D)
  BY StepsAre
<1>2. \A k : IsStep(Say(k), D) /\ IsStep(Ack(k), D)
  BY StepsAre
<1>3. ASSUME NEW F, \A k \in Nat : Typed(F[k], D) PROVE Typed(Run(F, 0, n), D)
  <2>1. Typed(<<>>, D) /\ \A k \in Nat : IsSeq(F[k])
    BY <1>3, TypedThen DEF Typed
  <2>2. IsSeq(Run(F, 0, n))
    BY <2>1, RunIs
  <2>3. Typed(Cat(Run(F, 0, n), <<>>), D)
    BY <1>3, <2>1, TypedRun
  <2> QED BY <2>2, <2>3, CatEmpty
<1>4. ASSUME NEW k \in Nat PROVE Typed(SentEntry[k], D) /\ Typed(ReadEntry[k], D) /\ Typed(ReadRecord[k], D)
  <2>1. SentEntry[k] = <<Say("entry"), Ack("FILENAME_ACK"), Say("info"), Ack("FILE_OK")>>
    BY DEF SentEntry, ListedFile
  <2>2. ReadEntry[k] = <<Ack("entry"), Say("FILENAME_ACK"), Ack("info"), Say("FILE_OK")>>
    BY DEF ReadEntry
  <2>3. ReadRecord[k] = <<Ack("record")>>
    BY DEF ReadRecord
  <2>4. Typed(SentEntry[k], D)
    BY <1>2, <2>1, TypedTuples
  <2>5. Typed(ReadEntry[k], D)
    BY <1>2, <2>2, TypedTuples
  <2>6. Typed(ReadRecord[k], D)
    BY <1>2, <2>3, TypedTuples
  <2> QED BY <2>4, <2>5, <2>6
<1>5. ASSUME NEW r, NEW k \in Nat PROVE Typed(SentRecord(r)[k], D)
  <2>1. SentRecord(r)[k] = <<Tell("record", r[k]), Ack("GET_FILE_ACK"), Tell("mtime", r[k]), Ack("answer")>>
    BY DEF SentRecord, SyncedFile
  <2> QED BY <1>1, <1>2, <2>1, TypedTuples
<1>6. \A r : Typed(Run(SentRecord(r), 0, n), D)
  BY <1>3, <1>5
<1>7. Typed(Run(SentEntry, 0, n), D)
  BY <1>3, <1>4
<1>8. Typed(Run(ReadEntry, 0, n), D)
  BY <1>3, <1>4
<1>9. Typed(Run(ReadRecord, 0, n), D)
  BY <1>3, <1>4
<1> QED BY <1>6, <1>7, <1>8, <1>9

(* to begin a command,                                                     *)
LEMMA StartsTyped ==
    ASSUME NEW w, NEW P, Starts(w, P)
    PROVE  Typed(P, StepKinds)
<1>0. "tell" \in StepKinds /\ "hear" \in StepKinds /\ "rest" \in StepKinds /\ "gone" \in StepKinds
  BY DEF StepKinds
<1>1. Typed(<<>>, StepKinds) /\ \A a, s : IsStep(a, StepKinds) /\ Typed(s, StepKinds) => Typed(Then(a, s), StepKinds)
  BY TypedThen
<1>2. \A k, y : IsStep(Tell(k, y), StepKinds) /\ IsStep(Hear(k, y), StepKinds)
  BY <1>0, StepsAre
<1>3. \A k : IsStep(Say(k), StepKinds) /\ IsStep(Ack(k), StepKinds)
  BY <1>0, StepsAre
<1>4. Typed(Rest, StepKinds) /\ Typed(Gone, StepKinds)
  <2>1. IsStep(Step("rest", "sync", None), StepKinds) /\ IsStep(Step("gone", "END", None), StepKinds)
    BY <1>0 DEF IsStep, Step
  <2> QED BY <2>1, TypedTuples DEF Rest, Gone
<1>5. Typed(SyncStart, StepKinds)
  BY <1>1, <1>2, <1>3 DEF SyncStart, SyncHear
<1>6. Typed(ListStart, StepKinds)
  BY <1>1, <1>2, <1>3 DEF ListStart, ListHear
<1>7. Typed(EndStart, StepKinds)
  BY <1>1, <1>3, <1>4 DEF EndStart
<1>8. ASSUME NEW f, P = GetStart(<<f, "cwd">>, <<>>) PROVE Typed(P, StepKinds)
  <2> DEFINE x == <<f, "cwd">>
  <2>1. P = GetStart(x, <<>>)
    BY <1>8
  <2> HIDE DEF x
  <2> QED BY <1>0, <1>1, <2>1, GetTyped
<1>9. ASSUME NEW f, NEW k, P = LockStart(k, f) PROVE Typed(P, StepKinds)
  <2>1. Typed(NameLock(f), StepKinds)
    BY <1>1, <1>2, <1>3 DEF NameLock, HearLock
  <2> QED BY <1>1, <1>3, <1>9, <2>1 DEF LockStart
<1>10. ASSUME NEW f, P = DeleteStart(f) PROVE Typed(P, StepKinds)
  <2>1. Typed(NameGone(f, <<>>), StepKinds)
    BY <1>1, <1>2 DEF NameGone
  <2> QED BY <1>1, <1>3, <1>10, <2>1 DEF DeleteStart
<1>11. ASSUME NEW f \in Files, NEW c \in Copies(f) \ {Missing}, NEW K \in {<<>>, Rest}, P = PutStart(f, c, K)
       PROVE  Typed(P, StepKinds)
  <2>1. c.len \in Nat
    BY CopiesAre
  <2> QED BY <1>0, <1>1, <1>4, <1>11, <2>1, PutTyped
<1> QED BY <1>1, <1>4, <1>5, <1>6, <1>7, <1>8, <1>9, <1>10, <1>11 DEF Starts

(* to go on when the leader has answered,                                  *)
LEMMA RepliesTyped ==
    ASSUME NEW w, NEW l \in Directories, NEW k, NEW x, NEW y, NEW T1, Fair(w, k, x, y, T1),
           NEW v, NEW steps, Replies(w, l, Hear(k, x), Msg(k, y), v, steps)
    PROVE  Typed(steps, StepKinds)
<1>0. "tell" \in StepKinds /\ "hear" \in StepKinds /\ "rest" \in StepKinds
  BY DEF StepKinds
<1>1. Typed(<<>>, StepKinds) /\ \A a, s : IsStep(a, StepKinds) /\ Typed(s, StepKinds) => Typed(Then(a, s), StepKinds)
  BY TypedThen
<1>2. \A j, z : IsStep(Tell(j, z), StepKinds) /\ IsStep(Hear(j, z), StepKinds)
  BY <1>0, StepsAre
<1>3. \A j : IsStep(Say(j), StepKinds) /\ IsStep(Ack(j), StepKinds)
  BY <1>0, StepsAre
<1> DEFINE h == Hear(k, x)
           m == Msg(k, y)
<1>4. h.kind = k /\ h.arg = x /\ m.arg = y /\ Replies(w, l, h, m, v, steps)
  BY StepFacts
<1> HIDE DEF h, m
<1>5. CASE steps = <<>>
  BY <1>1, <1>5
<1>6. CASE steps = <<Hear("size", x)>>
  BY <1>2, <1>6, TypedTuples
<1>7. CASE k = "size" /\ steps = GetFileBody(x[1], x[2], y)
  <2> DEFINE f == x[1]
             p == x[2]
             z == <<f, p>>
  <2>1. y \in Nat /\ steps = GetFileBody(f, p, y)
    BY <1>7 DEF Fair
  <2> HIDE DEF f, p
  <2>2. IsSeq(steps) /\ Cat(steps, <<>>) = Then(Say("SIZE_ACK"), GetParts(z, y, 0, <<>>))
    BY <2>1, LastSeqs, GetFileBodyIs
  <2> HIDE DEF z
  <2>3. Typed(GetParts(z, y, 0, <<>>), StepKinds)
    BY <1>0, <1>1, <2>1, GetTyped
  <2>4. Typed(Cat(steps, <<>>), StepKinds)
    BY <1>1, <1>3, <2>2, <2>3
  <2> QED BY <2>2, <2>4, CatEmpty
<1>8. CASE k = "number" /\ steps = Times(y, ListTurn)
  <2>1. y \in Nat
    BY <1>8 DEF Fair
  <2>2. steps = Run(ReadEntry, 0, y)
    BY <1>8, <2>1, ListsAre DEF ListTurn
  <2> QED BY <1>0, <2>1, <2>2, LoopsTyped
<1>9. CASE k = "number" /\ steps = <<Say("NUMBER_ACK")>> \o Times(y, <<Ack("record")>>) \o Rest
  <2>1. y \in Nat
    BY <1>9 DEF Fair
  <2> DEFINE A == <<Say("NUMBER_ACK")>>
             B == Run(ReadRecord, 0, y)
  <2>2. Times(y, <<Ack("record")>>) = B
    BY <2>1, ListsAre
  <2>3. steps = Cat(Cat(A, B), Rest)
    BY <1>9, <2>2 DEF Cat
  <2>4. Typed(A, StepKinds)
    BY <1>3, TypedTuples
  <2>5. Typed(B, StepKinds)
    BY <1>0, <2>1, LoopsTyped
  <2>6. Typed(Rest, StepKinds)
    <3>1. IsStep(Step("rest", "sync", None), StepKinds)
      BY <1>0 DEF IsStep, Step
    <3> QED BY <3>1, TypedTuples DEF Rest
  <2> HIDE DEF A, B
  <2> QED BY <2>3, <2>4, <2>5, <2>6, TypedCat
<1>10. CASE steps = <<Say("GET_FILE_ACK"), Hear("mtime", y)>>
  BY <1>2, <1>3, <1>10, TypedTuples
<1>11. CASE steps = GetFile(x, "sync_dir")
  <2> DEFINE z == <<x, "sync_dir">>
  <2>1. IsSeq(steps) /\ Cat(steps, <<>>) = GetStart(z, <<>>)
    BY <1>11, LastSeqs, GetFileIs
  <2> HIDE DEF z
  <2>2. Typed(Cat(steps, <<>>), StepKinds)
    BY <1>0, <1>1, <2>1, GetTyped
  <2> QED BY <2>1, <2>2, CatEmpty
<1>12. CASE k = "mtime" /\ steps = SendFile(x, l[x]) /\ l[x] # Missing
  <2> DEFINE c == l[x]
  <2>1. x \in Files /\ c \in Copies(x) \ {Missing}
    BY <1>12 DEF Fair, Directories
  <2>2. c.len \in Nat /\ steps = SendFile(x, c)
    BY <1>12, <2>1, CopiesAre
  <2> HIDE DEF c
  <2>3. IsSeq(steps) /\ Cat(steps, <<>>) = PutStart(x, c, <<>>)
    BY <2>2, LastSeqs, SendFileIs
  <2>4. Typed(Cat(steps, <<>>), StepKinds)
    BY <1>0, <1>1, <2>2, <2>3, PutTyped
  <2> QED BY <2>3, <2>4, CatEmpty
<1>13. CASE steps = <<Say("SYNC_OK")>>
  BY <1>3, <1>13, TypedTuples
<1> QED BY <1>4, <1>5, <1>6, <1>7, <1>8, <1>9, <1>10, <1>11, <1>12, <1>13 DEF Replies

(* and to serve what the client asks for.                                  *)
LEMMA NextTyped ==
    ASSUME NEW h, NEW m, Takes(h, m), h.kind = "size" => m.arg \in Nat, h.kind = "name" => m.arg \in Files,
           NEW d \in [Files -> KnownCopies], NEW r, IsSeq(r)
    PROVE  Typed(NextSteps(h, m, d, r), TodoKinds)
<1> DEFINE D == TodoKinds
           N == NextSteps(h, m, d, r)
<1>0. "tell" \in D /\ "hear" \in D /\ "gone" \in D
  BY DEF TodoKinds
<1> HIDE DEF D
<1>1. Typed(<<>>, D) /\ \A a, s : IsStep(a, D) /\ Typed(s, D) => Typed(Then(a, s), D)
  BY TypedThen
<1>2. \A j, z : IsStep(Tell(j, z), D) /\ IsStep(Hear(j, z), D)
  BY <1>0, StepsAre
<1>3. \A j : IsStep(Say(j), D) /\ IsStep(Ack(j), D)
  BY <1>0, StepsAre
<1>4. CASE h.kind \in {"command", "answer"}
  <2>1. m.kind \in CommandKinds \cup AnswerKinds /\ N = Handler(r, m.kind)
    BY <1>4 DEF Takes, NextSteps, Acks
  <2> DEFINE n == Len(r)
  <2>2. n \in Nat
    BY SeqFacts
  <2>3. CASE m.kind \in {"SEND_FILE", "GET_FILE", "DELETE", "LOCK", "UNLOCK"}
    <3>1. PICK j : N = <<Say(j), Hear("name", m.kind)>>
      BY <2>1, <2>3, HandlerIs
    <3> QED BY <1>2, <1>3, <3>1, TypedTuples DEF D
  <2>4. CASE m.kind = "SYNC"
    <3>1. N = Then(Tell("number", n), Then(Ack("NUMBER_ACK"), Run(SentRecord(r), 0, n)))
      BY <2>1, <2>4, HandlerIs, SyncServerIs
    <3> HIDE DEF n
    <3>2. Typed(Run(SentRecord(r), 0, n), D)
      BY <1>0, <2>2, LoopsTyped
    <3> QED BY <1>1, <1>2, <1>3, <3>1, <3>2 DEF D
  <2>5. CASE m.kind = "LIST"
    <3> DEFINE A == <<Say("LIST_ACK"), Tell("number", n)>>
               B == Run(SentEntry, 0, n)
    <3>1. N = Cat(A, B)
      BY <2>1, <2>2, <2>5, HandlerIs, ListsAre DEF Cat
    <3>2. Typed(B, D)
      <4> HIDE DEF n
      <4> QED BY <1>0, <2>2, LoopsTyped
    <3>3. Typed(A, D)
      BY <1>2, <1>3, TypedTuples
    <3> HIDE DEF A, B, N
    <3>4. Typed(N, D)
      BY <3>1, <3>2, <3>3, TypedCat
    <3> QED BY <3>4 DEF N, D
  <2>6. CASE m.kind = "SYNC_OK"
    BY <1>1, <2>1, <2>6, HandlerIs DEF D
  <2>7. CASE m.kind = "END"
    <3>1. IsStep(Step("gone", "END", None), D)
      BY <1>0 DEF IsStep, Step
    <3> QED BY <2>1, <2>7, <3>1, HandlerIs, TypedTuples DEF Gone, D
  <2> QED BY <2>1, <2>3, <2>4, <2>5, <2>6, <2>7 DEF CommandKinds, AnswerKinds
<1>5. CASE h.kind = "size"
  <2>1. N = ReceiveFileBody(h.arg, m.arg) /\ m.arg \in Nat
    BY <1>5 DEF NextSteps
  <2> DEFINE f == h.arg
             n == m.arg
  <2>2. N = ReceiveFileBody(f, n) /\ n \in Nat
    BY <2>1
  <2> HIDE DEF f, n, N
  <2>3. IsSeq(N) /\ Cat(N, <<>>) = Then(Say("SIZE_ACK"), ReadParts(f, n, 0, <<>>))
    BY <2>2, LastSeqs, ReceiveFileBodyIs
  <2>4. Typed(ReadParts(f, n, 0, <<>>), D)
    BY <1>0, <1>1, <2>2, ReadTyped
  <2>5. Typed(Cat(N, <<>>), D)
    BY <1>1, <1>3, <2>3, <2>4
  <2>6. Typed(N, D)
    BY <2>3, <2>5, CatEmpty
  <2> QED BY <2>6 DEF N, D
<1>6. CASE h.kind = "name"
  <2>1. N = Named(h.arg, d, m.arg) /\ m.arg \in Files
    BY <1>6 DEF NextSteps
  <2> DEFINE c == d[m.arg]
  <2>2. c \in KnownCopies
    BY <2>1
  <2>3. c # Missing => c.len \in Nat
    <3> HIDE DEF c
    <3> QED BY <2>2, MissingIs, ProtocolAssumption DEF KnownCopies, Copy
  <2>4. CASE h.arg = "SEND_FILE"
    BY <1>2, <2>1, <2>4, TypedTuples DEF Named, D
  <2>5. CASE h.arg = "GET_FILE"
    <3>1. N = <<Say("EXISTS")>> \o SendFileBody(c)
      BY <2>1, <2>5 DEF Named
    <3> HIDE DEF c, N
    <3>2. IsSeq(SendFileBody(c)) /\ Cat(SendFileBody(c), <<>>) = GiveBody(c, <<>>)
      BY <2>3, LastSeqs, SendFileBodyIs
    <3>3. Typed(GiveBody(c, <<>>), D)
      BY <1>0, <1>1, <2>3, GiveTyped
    <3>4. Typed(SendFileBody(c), D)
      BY <3>2, <3>3, CatEmpty
    <3>5. N = Then(Say("EXISTS"), SendFileBody(c))
      BY <3>1 DEF Then, Cat
    <3>6. Typed(N, D)
      BY <1>1, <1>3, <3>4, <3>5
    <3> QED BY <3>6 DEF N, D
  <2>6. CASE h.arg \notin {"SEND_FILE", "GET_FILE"}
    <3>1. N = <<>> \/ N = <<Say("answer")>>
      BY <2>1, <2>6 DEF Named
    <3> QED BY <1>1, <1>3, <3>1, TypedTuples DEF D
  <2> QED BY <2>4, <2>5, <2>6
<1>7. CASE h.kind \notin {"command", "answer", "size", "name"}
  BY <1>1, <1>7 DEF NextSteps, D
<1> QED BY <1>4, <1>5, <1>6, <1>7
===============================================================================
