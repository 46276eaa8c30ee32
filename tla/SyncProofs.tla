----------------------------- MODULE SyncProofs -----------------------------
(***************************************************************************)
(* What the synchronisation keeps for the only client of a user, proved    *)
(* for any number of clients, edits and restarts and any bound of time.    *)
(***************************************************************************)
EXTENDS Sync, TLAPS

(* Only the clients that run are in the middle of a sync, and the time     *)
(* they are about to send is one that has been.                            *)
Busy ==
    /\ \A c \in Clients \ on : op[c] = Quiet
    /\ \A c \in Clients : op[c].phase \in {"send", "upload"} => op[c].time \in 0 .. now

(* What has been read of the times, of the record or of the file, is never *)
(* later than the time of the only client's file, and what is equal to it  *)
(* has been read since the last edit.                                      *)
Behind(c) ==
    /\ op[c].phase \notin {"get", "fetch"}
    /\ op[c].phase \in {"told", "send", "upload"} => op[c].time <= copy[c].time
    /\ op[c].phase = "told" => 0 < op[c].time
    /\ rec <= copy[c].time
AtOne(c) ==
    /\ op[c].phase = "upload" /\ op[c].time = copy[c].time => op[c].content = copy[c].content
    /\ op[c].phase \in {"idle", "told"} /\ copy[c] # Missing /\ rec = copy[c].time
            => stored = copy[c].content

IInv ==
    /\ TypeOK /\ Busy
    /\ Undisturbed => \A c \in on : Behind(c) /\ (~hasty => AtOne(c))

LEMMA InitInv == Init => IInv
  BY BoundsAssumption, SummersAssumption
  DEF Init, IInv, TypeOK, Busy, Undisturbed, Behind, AtOne, Missing, Quiet, Contents, Heard

(* The types, and who is in the middle of what.                            *)
LEMMA TypeStep ==
    ASSUME TypeOK, Busy, [Next]_vars
    PROVE  TypeOK' /\ Busy'
<1> USE BoundsAssumption, SummersAssumption
<1>1. CASE UNCHANGED vars
  BY <1>1 DEF TypeOK, Busy, vars, world
<1>2. CASE Tick
  BY <1>2 DEF TypeOK, Busy, Tick, world, Contents, Heard
<1>3. CASE Restart
  BY <1>3 DEF TypeOK, Busy, Restart, world, Contents, Heard, Quiet
<1>4. ASSUME NEW c \in Clients, Edit(c) PROVE TypeOK' /\ Busy'
  <2>1. edits + 1 \in Contents /\ edits' \in 0 .. MaxEdits /\ now' = now
    BY <1>4 DEF TypeOK, Edit, Contents
  <2>2. [content |-> edits + 1, time |-> now] \in [content : Contents, time : 0 .. now]
    BY <2>1 DEF TypeOK
  <2>3. copy' \in [Clients -> [content : Contents, time : 0 .. now]]
    BY <1>4, <2>2 DEF TypeOK, Edit
  <2> QED BY <1>4, <2>1, <2>3 DEF TypeOK, Busy, Edit, world
<1>5. ASSUME NEW c \in Clients, SyncBegins(c) PROVE TypeOK' /\ Busy'
  <2>1. CASE rec # 0 /\ \E t \in convertTimeString(rec) : Enters(c, "told", t, 0)
    <3>1. PICK t \in convertTimeString(rec) : Enters(c, "told", t, 0)
      BY <2>1
    <3>2. t \in Heard /\ 0 \in Contents
      <4>1. /\ rec \in Int /\ 1 <= rec /\ rec <= MaxTime /\ MaxTime \in Int
            /\ t = rec - MaxTime - 1 \/ t = rec \/ t = rec + MaxTime + 1
        BY <2>1 DEF TypeOK, convertTimeString
      <4>2. 0 - MaxTime <= t /\ t <= 2 * MaxTime + 2 /\ t \in Int
        BY <4>1
      <4> QED BY <4>2 DEF Heard, Contents
    <3> QED BY <1>5, <3>1, <3>2 DEF TypeOK, Busy, SyncBegins, Enters, world
  <2>2. CASE Enters(c, "send", copy[c].time, 0)
    <3>1. copy[c].time \in Heard /\ copy[c].time \in 0 .. now /\ 0 \in Contents
      BY DEF TypeOK, Heard, Contents
    <3> QED BY <1>5, <2>2, <3>1, SMTT(30) DEF TypeOK, Busy, SyncBegins, Enters, world
  <2> QED BY <1>5, <2>1, <2>2 DEF SyncBegins
<1>6. ASSUME NEW c \in Clients, Decide(c) PROVE TypeOK' /\ Busy'
  <2>1. copy[c].time \in Heard /\ copy[c].time \in 0 .. now /\ 0 \in Heard /\ 0 \in Contents
    BY DEF TypeOK, Heard, Contents
  <2>2. \A x \in {"get", "send", "idle"}, y \in {0, copy[c].time} :
            op' = [op EXCEPT ![c] = [phase |-> x, time |-> y, content |-> 0]]
                => op' \in [Clients -> [phase : {"idle", "told", "send", "upload", "get", "fetch"},
                                       time : Heard, content : Contents]]
    BY <2>1 DEF TypeOK
  <2>3. /\ op' \in [Clients -> [phase : {"idle", "told", "send", "upload", "get", "fetch"},
                               time : Heard, content : Contents]]
        /\ UNCHANGED <<now, edits, copy, stored, storedAt, rec, world, restarts>>
    BY <1>6, <2>2 DEF Decide, Enters, Quiet
  <2>4. TypeOK'
    BY <2>3 DEF TypeOK, world
  <2>5. Busy'
    BY <1>6, <2>1, <2>3 DEF TypeOK, Busy, Decide, Enters, Quiet, world
  <2> QED BY <2>4, <2>5
<1>7. ASSUME NEW c \in Clients, SendContent(c) PROVE TypeOK' /\ Busy'
  BY <1>7 DEF TypeOK, Busy, SendContent, Enters, world, Contents, Heard, Quiet, Short
<1>8. ASSUME NEW c \in Clients, SendEnd(c) PROVE TypeOK' /\ Busy'
  BY <1>8 DEF TypeOK, Busy, SendEnd, world, Contents, Heard, Quiet, Short
<1>9. ASSUME NEW c \in Clients, GetContent(c) PROVE TypeOK' /\ Busy'
  BY <1>9 DEF TypeOK, Busy, GetContent, Enters, world, Contents, Heard, Quiet, Short
<1>10. ASSUME NEW c \in Clients, GetEnd(c) PROVE TypeOK' /\ Busy'
  BY <1>10 DEF TypeOK, Busy, GetEnd, world, Contents, Heard, Quiet, Short
<1> QED BY <1>1, <1>2, <1>3, <1>4, <1>5, <1>6, <1>7, <1>8, <1>9, <1>10 DEF Next, SyncStep

(* Only the one client that runs is in the middle of a sync.               *)
LEMMA OneClient ==
    ASSUME TypeOK, Busy, Undisturbed, NEW c \in on, NEW d \in Clients, op[d] # Quiet
    PROVE  d = c
  BY DEF Busy, Undisturbed

(* What is undisturbed has been so before.                                 *)
LEMMA UndisturbedBefore ==
    ASSUME TypeOK, [Next]_vars, Undisturbed'
    PROVE  Undisturbed /\ on' = on /\ hasty' = hasty /\ ~Restart
  BY BoundsAssumption
  DEF TypeOK, Undisturbed, Next, vars, world, Tick, Restart, SyncStep, Edit, SyncBegins, Decide,
      SendContent, SendEnd, GetContent, GetEnd

(* The only client stays behind nothing, and at one with the server.       *)
LEMMA AloneStep ==
    ASSUME IInv, [Next]_vars, Undisturbed', NEW c \in on'
    PROVE  (Behind(c) /\ (~hasty => AtOne(c)))'
<1> USE BoundsAssumption
<1>0. /\ Undisturbed /\ on' = on /\ hasty' = hasty /\ ~Restart /\ c \in on /\ c \in Clients
      /\ TypeOK /\ Busy /\ Behind(c) /\ (~hasty => AtOne(c))
  BY UndisturbedBefore DEF IInv, TypeOK
<1>1. /\ copy[c] \in [content : Contents, time : 0 .. now] /\ rec \in 0 .. now /\ now \in Nat
      /\ op[c] \in [phase : {"idle", "told", "send", "upload", "get", "fetch"},
                    time : Heard, content : Contents]
      /\ Heard \subseteq Int /\ Contents \subseteq Int /\ edits \in Nat /\ ~summer
      /\ DOMAIN copy = Clients /\ DOMAIN op = Clients
  BY <1>0 DEF TypeOK, Heard, Contents, Undisturbed
<1>t. copy[c].time \in Nat /\ copy[c].time <= now /\ op[c].time \in Int /\ rec \in Nat /\ rec <= now
      /\ now \in Nat
  <2>1. copy[c].time \in 0 .. now /\ op[c].time \in Heard
    BY <1>1
  <2>2. op[c].time \in Int
    BY <2>1 DEF Heard
  <2> QED BY <1>1, <2>1, <2>2
<1>2. ASSUME NEW d \in Clients, op[d] # Quiet PROVE d = c
  BY <1>0, <1>2, OneClient
<1>3. CASE UNCHANGED vars \/ Tick
  BY <1>0, <1>3 DEF Behind, AtOne, Tick, vars, world
<1>4. ASSUME NEW d \in Clients, Edit(d) PROVE (Behind(c) /\ (~hasty => AtOne(c)))'
  <2>1. d = c
    BY <1>0, <1>4 DEF Edit, Undisturbed
  <2>2. copy'[c] = [content |-> edits + 1, time |-> now] /\ rec' = rec /\ op' = op
    BY <1>1, <1>4, <2>1 DEF Edit
  <2>3. Behind(c)'
    <3>1. copy'[c].time = now /\ op'[c] = op[c] /\ rec' = rec
      BY <2>2
    <3>2. op[c].phase \in {"told", "send", "upload"} => op[c].time <= now
      BY <1>0, <1>t DEF Behind
    <3> QED BY <1>0, <1>t, <3>1, <3>2 DEF Behind
  <2>4. ASSUME ~hasty PROVE rec < now /\ (op[c].phase = "upload" => op[c].time < now)
    <3>1. copy[c].time < now
      BY <1>0, <1>4, <2>1, <2>4 DEF Edit
    <3> QED BY <1>0, <1>t, <3>1 DEF Behind
  <2>5. ASSUME ~hasty PROVE AtOne(c)'
    <3>1. copy'[c].time = now /\ op'[c] = op[c] /\ rec' = rec
      BY <2>2
    <3> QED BY <1>t, <2>4, <2>5, <3>1 DEF AtOne
  <2> QED BY <1>0, <2>3, <2>5
<1>5. ASSUME NEW d \in Clients, SyncBegins(d) PROVE (Behind(c) /\ (~hasty => AtOne(c)))'
  <2>1. d = c
    BY <1>0, <1>5 DEF SyncBegins, Undisturbed
  <2>2. convertTimeString(rec) = {rec}
    BY <1>1 DEF convertTimeString
  <2>3. op[c].phase = "idle" /\ copy' = copy /\ rec' = rec /\ stored' = stored
    BY <1>5, <2>1 DEF SyncBegins, Quiet
  <2>4. \/ rec # 0 /\ op'[c] = [phase |-> "told", time |-> rec, content |-> 0]
        \/ op'[c] = [phase |-> "send", time |-> copy[c].time, content |-> 0]
    BY <1>1, <1>5, <2>1, <2>2 DEF SyncBegins, Enters
  <2>5. rec # 0 => 0 < rec
    BY <1>t
  <2> QED BY <1>0, <1>1, <2>3, <2>4, <2>5 DEF Behind, AtOne
<1>6. ASSUME NEW d \in Clients, Decide(d) PROVE (Behind(c) /\ (~hasty => AtOne(c)))'
  <2>1. d = c BY <1>2, <1>6 DEF Decide, Quiet
  <2>2. op[c].phase = "told" /\ op[c].time <= copy[c].time /\ 0 < op[c].time
    BY <1>0, <1>t, <1>6, <2>1 DEF Decide, Behind
  <2>3. copy' = copy /\ rec' = rec /\ stored' = stored
    BY <1>6 DEF Decide
  <2>4. ~Outdated(c)
    <3>1. copy[c].time # 0 /\ ~(copy[c].time < op[c].time)
      BY <1>t, <2>2
    <3> QED BY <3>1 DEF Outdated, Missing
  <2>5. op'[c] \in {[phase |-> "send", time |-> copy[c].time, content |-> 0], Quiet}
    BY <1>1, <1>6, <2>1, <2>4 DEF Decide, Enters
  <2> QED BY <1>0, <1>t, <2>2, <2>3, <2>5 DEF Behind, AtOne, Quiet
<1>7. ASSUME NEW d \in Clients, SendContent(d) PROVE (Behind(c) /\ (~hasty => AtOne(c)))'
  <2>1. d = c BY <1>2, <1>7 DEF SendContent, Quiet
  <2> QED BY <1>0, <1>1, <1>7, <2>1 DEF Behind, AtOne, SendContent, Enters, world
<1>8. ASSUME NEW d \in Clients, SendEnd(d) PROVE (Behind(c) /\ (~hasty => AtOne(c)))'
  <2>1. d = c BY <1>2, <1>8 DEF SendEnd, Quiet
  <2>2. Uploading = {c}
    BY <1>2, <1>8, <2>1 DEF Uploading, SendEnd, Quiet
  <2> QED BY <1>0, <1>1, <1>8, <2>1, <2>2 DEF Behind, AtOne, SendEnd, world, Quiet
<1>9. ASSUME NEW d \in Clients, GetContent(d) \/ GetEnd(d) PROVE FALSE
  BY <1>0, <1>2, <1>9 DEF GetContent, GetEnd, Quiet, Behind
<1> QED BY <1>0, <1>3, <1>4, <1>5, <1>6, <1>7, <1>8, <1>9 DEF Next, SyncStep

LEMMA Step == IInv /\ [Next]_vars => IInv'
  BY TypeStep, AloneStep DEF IInv

LEMMA Invariance == Safety => []IInv
  BY InitInv, Step, PTL DEF Safety

(* Theorem: the variables keep their types.                                *)
THEOREM TypesKept == Safety => []TypeOK
<1>1. IInv => TypeOK
  BY DEF IInv
<1> QED BY Invariance, <1>1, PTL

(* Theorem: no download overwrites what the only client has, whenever its  *)
(* user writes and however often (sync_client, dropboxClient.cpp:158-185). *)
THEOREM AloneNeverFetches == Safety => []NothingToFetch
<1>1. IInv => NothingToFetch
  BY DEF IInv, NothingToFetch, Behind, Undisturbed
<1> QED BY Invariance, <1>1, PTL

(* Theorem: for the only client, who does not write twice in a second,     *)
(* equal times are those of equal files, and sync_client may do nothing.   *)
THEOREM EqualTimesSuffice == Safety => []EqualTimesEqualFiles
<1>1. IInv => EqualTimesEqualFiles
  BY DEF IInv, EqualTimesEqualFiles, AtOne, Quiet, Undisturbed
<1> QED BY Invariance, <1>1, PTL
=============================================================================
