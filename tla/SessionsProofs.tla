--------------------------- MODULE SessionsProofs ---------------------------
(***************************************************************************)
(* Proofs about Sessions, for every set of users and descriptors and every *)
(* limit.  The inductive invariant adds to the types that a session's user *)
(* has an entry, that slots account for sessions, and that only a closing  *)
(* thread has used up its attempts.  The accounting is not inductive       *)
(* alone: a login that creates an entry overwrites the slots of its user,  *)
(* who must have no session then.                                          *)
(***************************************************************************)
EXTENDS Sessions, FiniteSetTheorems, TLAPS

(* The fifth failed read in a row is the last.                             *)
AttemptsLeft ==
    \A s \in Sockets : conn[s] # "closing" => attempts[s] < MaxAttempts

Inv == TypeOK /\ AttemptsLeft /\ UserEntryExists /\ SlotAccounting

-----------------------------------------------------------------------------
(* Sessions and slots of a user are finite sets, so they can be counted.   *)
LEMMA CountableSets ==
    ASSUME NEW u \in Users
    PROVE  /\ IsFiniteSet(Live(u)) /\ IsFiniteSet(UsedSlots(u))
           /\ Cardinality(Live(u)) \in Nat /\ Cardinality(UsedSlots(u)) \in Nat
           /\ Cardinality(UsedSlots(u)) <= MaxConnections
<1>1. IsFiniteSet(Slots) /\ Cardinality(Slots) = MaxConnections
  BY FS_Interval, MaxConnectionsAssumption DEF Slots
<1>2. UsedSlots(u) \in SUBSET Slots
  BY DEF UsedSlots
<1>3. IsFiniteSet(UsedSlots(u)) /\ Cardinality(UsedSlots(u)) <= MaxConnections
  BY <1>1, <1>2, FS_Subset
<1>4. Live(u) \in SUBSET Sockets
  BY DEF Live
<1>5. IsFiniteSet(Live(u))
  BY <1>4, FS_Subset, SocketsAssumption
<1> QED
  BY <1>3, <1>5, FS_CardinalityType

(* The same in the state after a step.                                     *)
LEMMA CountableSetsAfter ==
    ASSUME NEW u \in Users
    PROVE  IsFiniteSet(Live(u)') /\ Cardinality(Live(u)') \in Nat
<1>1. Live(u)' \in SUBSET Sockets
  BY DEF Live
<1> QED
  BY <1>1, FS_Subset, FS_CardinalityType, SocketsAssumption

(* Two sets that grow by one element each keep their order by size.        *)
LEMMA GrowBoth ==
    ASSUME NEW S, NEW T, IsFiniteSet(S), IsFiniteSet(T),
           Cardinality(S) <= Cardinality(T), NEW x, NEW y, y \notin T
    PROVE  Cardinality(S \cup {x}) <= Cardinality(T \cup {y})
<1>1. Cardinality(S) \in Nat /\ Cardinality(T) \in Nat
  BY FS_CardinalityType
<1>2. Cardinality(T \cup {y}) = Cardinality(T) + 1
  BY FS_AddElement
<1>3. Cardinality(S \cup {x}) \in {Cardinality(S), Cardinality(S) + 1}
  BY FS_AddElement
<1> QED
  BY <1>1, <1>2, <1>3

(* So do two sets of which the smaller loses one element and the larger    *)
(* one at the most.                                                        *)
LEMMA ShrinkBoth ==
    ASSUME NEW S, NEW T, IsFiniteSet(S), IsFiniteSet(T),
           Cardinality(S) <= Cardinality(T), NEW x, NEW y, x \in S
    PROVE  Cardinality(S \ {x}) <= Cardinality(T \ {y})
<1>1. Cardinality(S) \in Nat /\ Cardinality(T) \in Nat
  BY FS_CardinalityType
<1>2. Cardinality(S \ {x}) = Cardinality(S) - 1
  BY FS_RemoveElement
<1>3. Cardinality(T \ {y}) \in {Cardinality(T), Cardinality(T) - 1}
  BY FS_RemoveElement
<1> QED
  BY <1>1, <1>2, <1>3

(* A step that starts no session and touches no slot keeps the accounts.   *)
LEMMA QuietStep ==
    ASSUME SlotAccounting, UNCHANGED devices,
           \A u \in Users : Live(u)' \subseteq Live(u)
    PROVE  SlotAccounting'
<1> SUFFICES ASSUME NEW u \in Users
             PROVE  Cardinality(Live(u)') <= Cardinality(UsedSlots(u)')
  BY DEF SlotAccounting
<1>1. UsedSlots(u)' = UsedSlots(u)
  BY DEF UsedSlots
<1>2. Cardinality(Live(u)') <= Cardinality(Live(u))
  BY CountableSets, FS_Subset
<1>3. Cardinality(Live(u)) <= Cardinality(UsedSlots(u))
  BY DEF SlotAccounting
<1> QED
  BY <1>1, <1>2, <1>3, CountableSets, CountableSetsAfter

(* logOutClient by a live session that stops being one: its user loses     *)
(* exactly that session, and no slot or slot 0.                            *)
LEMMA LogOutStep ==
    ASSUME TypeOK, SlotAccounting,
           NEW s \in Sockets, conn[s] = "serving", user[s] \in Users,
           LogOutClient(s), Goto(s, "closing"), UNCHANGED user
    PROVE  SlotAccounting'
<1> SUFFICES ASSUME NEW u \in Users
             PROVE  Cardinality(Live(u)') <= Cardinality(UsedSlots(u)')
  BY DEF SlotAccounting
<1>1. Cardinality(Live(u)) <= Cardinality(UsedSlots(u))
  BY DEF SlotAccounting
<1>2. CASE u # user[s]
  <2>1. Live(u)' = Live(u)
    BY <1>2 DEF Live, Goto, TypeOK
  <2>2. UsedSlots(u)' = UsedSlots(u)
    BY <1>2 DEF UsedSlots, LogOutClient, TypeOK
  <2> QED
    BY <1>1, <2>1, <2>2
<1>3. CASE u = user[s]
  <2>1. Live(u)' = Live(u) \ {s} /\ s \in Live(u)
    BY <1>3 DEF Live, Goto, TypeOK
  <2>2. UsedSlots(u)' = UsedSlots(u) \/ UsedSlots(u)' = UsedSlots(u) \ {0}
    <3>1. CASE \E j \in Slots : devices[u][j] = s
      <4>1. devices' = [devices EXCEPT ![u][0] = Free]
        BY <1>3, <3>1 DEF LogOutClient, TypeOK
      <4>2. \A j \in Slots : devices'[u][j] = IF j = 0 THEN Free ELSE devices[u][j]
        BY <4>1 DEF TypeOK
      <4> QED
        BY <4>2 DEF UsedSlots, Free
    <3>2. CASE ~ \E j \in Slots : devices[u][j] = s
      <4>1. \A j \in Slots : devices'[u][j] = devices[u][j]
        BY <1>3, <3>2 DEF LogOutClient, TypeOK
      <4> QED
        BY <4>1 DEF UsedSlots
    <3> QED
      BY <3>1, <3>2
  <2>3. Cardinality(Live(u) \ {s}) <= Cardinality(UsedSlots(u))
    <3>1. Cardinality(Live(u) \ {s}) = Cardinality(Live(u)) - 1
      BY <2>1, CountableSets, FS_RemoveElement
    <3> QED
      BY <1>1, <3>1, CountableSets
  <2>4. Cardinality(Live(u) \ {s}) <= Cardinality(UsedSlots(u) \ {0})
    BY <1>1, <2>1, CountableSets, ShrinkBoth
  <2> QED
    BY <2>1, <2>2, <2>3, <2>4
<1> QED
  BY <1>2, <1>3

(* A login: one session more, and one slot more, for its user.             *)
LEMMA LogInStep ==
    ASSUME Inv, NEW s \in Sockets, NEW u \in Users,
           LogInNewUser(s, u) \/ LogInOldUser(s, u)
    PROVE  SlotAccounting'
<1> USE DEF Inv
<1> SUFFICES ASSUME NEW v \in Users
             PROVE  Cardinality(Live(v)') <= Cardinality(UsedSlots(v)')
  BY DEF SlotAccounting
<1>1. Cardinality(Live(v)) <= Cardinality(UsedSlots(v))
  BY DEF SlotAccounting
<1>2. s \in Int /\ s > 0 /\ 0 \in Slots
  BY SocketsAssumption, MaxConnectionsAssumption DEF Slots
<1>3. /\ user' = [user EXCEPT ![s] = u]
      /\ conn' = [conn EXCEPT ![s] = "granted"]
      /\ conn[s] = "login"
  BY DEF LogInNewUser, LogInOldUser, Goto
<1>4. CASE v # u
  <2>1. Live(v)' = Live(v)
    BY <1>3, <1>4 DEF Live, TypeOK
  <2>2. devices'[v] = devices[v]
    BY <1>4 DEF LogInNewUser, LogInOldUser, TypeOK
  <2> QED
    BY <1>1, <2>1, <2>2 DEF UsedSlots
<1>5. CASE v = u /\ LogInNewUser(s, u)
  <2>1. Live(u) = {}
    BY <1>5 DEF Live, UserEntryExists, LogInNewUser
  <2>2. Live(u)' = Live(u) \cup {s}
    BY <1>3 DEF Live, TypeOK
  <2>3. UsedSlots(u)' = {0}
    <3>1. devices'[u] = [j \in Slots |-> IF j = 0 THEN s ELSE Free]
      BY <1>5 DEF LogInNewUser, TypeOK
    <3> QED
      BY <1>2, <3>1 DEF UsedSlots, Free
  <2>4. Cardinality({s}) = 1 /\ Cardinality({0}) = 1
    BY FS_Singleton
  <2> QED
    BY <1>5, <2>1, <2>2, <2>3, <2>4
<1>6. CASE v = u /\ LogInOldUser(s, u)
  <2>1. PICK j \in Slots \ UsedSlots(u) : devices' = [devices EXCEPT ![u][j] = s]
    BY <1>6 DEF LogInOldUser
  <2>2. Live(u)' = Live(u) \cup {s}
    BY <1>3 DEF Live, TypeOK
  <2>3. UsedSlots(u)' = UsedSlots(u) \cup {j}
    <3>1. \A i \in Slots : devices'[u][i] = IF i = j THEN s ELSE devices[u][i]
      BY <2>1 DEF TypeOK
    <3> QED
      BY <1>2, <2>1, <3>1 DEF UsedSlots
  <2>4. Cardinality(Live(u) \cup {s}) <= Cardinality(UsedSlots(u) \cup {j})
    BY <1>1, <1>6, <2>1, CountableSets, GrowBoth
  <2> QED
    BY <1>6, <2>2, <2>3, <2>4
<1> QED
  BY <1>4, <1>5, <1>6
-----------------------------------------------------------------------------
(* The mark of a free slot is an integer.                                  *)
LEMMA FreeInt == Free \in Int
BY DEF Free

(* The entries of a freshly started server have the type of devices.       *)
LEMMA RecoveredType ==
    ASSUME NEW dirs, NEW garbage \in [Slots -> StackWords \cup {Free}]
    PROVE  RecoveredDevices(dirs, garbage) \in [Users -> [Slots -> Int]]
<1>1. \A j \in Slots : garbage[j] \in Int
  <2>1. \A j \in Slots : garbage[j] \in StackWords \cup {Free}
    OBVIOUS
  <2>2. \A w \in StackWords \cup {Free} : w \in Int
    BY StackWordsAssumption, FreeInt
  <2> QED
    BY <2>1, <2>2
<1>2. Free \in Int
  BY DEF Free
<1> QED
  BY <1>1, <1>2 DEF RecoveredDevices

(* With no session at all, every slot is accounted for.                    *)
LEMMA NoSessionAccounts ==
    ASSUME \A u \in Users : Live(u) = {}
    PROVE  SlotAccounting
<1> SUFFICES ASSUME NEW u \in Users
             PROVE  Cardinality(Live(u)) <= Cardinality(UsedSlots(u))
  BY DEF SlotAccounting
<1>1. Cardinality(Live(u)) = 0
  BY FS_EmptySet
<1> QED
  BY <1>1, CountableSets

(* The invariant holds when the server starts.                             *)
LEMMA InitInv == Init => Inv
<1> SUFFICES ASSUME Init PROVE Inv
  OBVIOUS
<1>1. TypeOK
  <2>1. devices \in [Users -> [Slots -> Int]]
    BY RecoveredType DEF Init
  <2> QED
    BY <2>1, MaxAttemptsAssumption DEF Init, TypeOK, ConnStates
<1>2. UserEntryExists
  BY DEF Init, UserEntryExists
<1>3. SlotAccounting
  BY NoSessionAccounts DEF Init, Live
<1>4. AttemptsLeft
  BY MaxAttemptsAssumption DEF Init, AttemptsLeft
<1> QED
  BY <1>1, <1>2, <1>3, <1>4 DEF Inv
-----------------------------------------------------------------------------
(* Every step keeps the types.  That logOutClient and sync_server work for  *)
(* a user at all is what UserEntryExists adds.                             *)
LEMMA StepTypeOK == Inv /\ [Next]_vars => TypeOK'
<1> SUFFICES ASSUME Inv, [Next]_vars PROVE TypeOK'
  OBVIOUS
<1> USE DEF Inv, TypeOK, ConnStates
<1>1. \A s \in Sockets : s \in Int
  BY SocketsAssumption
<1>2. 0 \in Slots /\ Free \in Int
  BY MaxConnectionsAssumption DEF Slots, Free
<1>3. \A s \in Sockets : conn[s] = "serving" => user[s] \in Users
  BY DEF UserEntryExists
<1>4. ASSUME NEW s \in Sockets, LogOutClient(s), user[s] \in Users
      PROVE  devices' \in [Users -> [Slots -> Int]]
  BY <1>2, <1>4 DEF LogOutClient
<1>5. ASSUME NEW s \in Sockets, Accept(s) \/ PeerDies(s) PROVE TypeOK'
  BY <1>5 DEF Accept, PeerDies, Goto
<1>6. ASSUME NEW s \in Sockets, LogIn(s) PROVE TypeOK'
  <2>1. PICK u \in Users : LogInNewUser(s, u) \/ LogInOldUser(s, u) \/ RefuseLogIn(s, u)
    BY <1>6 DEF LogIn
  <2>2. devices' \in [Users -> [Slots -> Int]]
    BY <1>1, <1>2, <2>1 DEF LogInNewUser, LogInOldUser, RefuseLogIn
  <2> QED
    BY <2>1, <2>2 DEF LogInNewUser, LogInOldUser, RefuseLogIn, Goto
<1>7. ASSUME NEW s \in Sockets, UserIdFails(s) \/ ReplyLogin(s) \/ ReplyFails(s)
      PROVE  TypeOK'
  BY <1>7 DEF UserIdFails, ReplyLogin, ReplyFails, Goto
<1>8. ASSUME NEW s \in Sockets, Command(s) PROVE TypeOK'
  BY <1>3, <1>8, MaxAttemptsAssumption DEF Command
<1>9. ASSUME NEW s \in Sockets, EndOfSession(s) PROVE TypeOK'
  BY <1>3, <1>4, <1>9 DEF EndOfSession, Goto
<1>10. ASSUME NEW s \in Sockets, ReadError(s) PROVE TypeOK'
  <2>1. attempts[s] + 1 \in 0 .. MaxAttempts
    BY <1>10, MaxAttemptsAssumption DEF ReadError, AttemptsLeft
  <2> QED
    BY <1>3, <1>4, <1>10, <2>1 DEF ReadError, Goto
<1>11. ASSUME NEW s \in Sockets, Unparsable(s) \/ Close(s) PROVE TypeOK'
  BY <1>11, MaxAttemptsAssumption DEF Unparsable, Close, Goto
<1>12. ASSUME Restart PROVE TypeOK'
  BY <1>12, RecoveredType, MaxAttemptsAssumption DEF Restart, Recovered
<1>13. CASE UNCHANGED vars
  BY <1>13 DEF vars
<1> QED
  BY <1>5, <1>6, <1>7, <1>8, <1>9, <1>10, <1>11, <1>12, <1>13 DEF Next, Thread

(* Every step keeps the attempts of a thread in the loop below the limit.  *)
LEMMA StepAttemptsLeft == Inv /\ [Next]_vars => AttemptsLeft'
<1> SUFFICES ASSUME Inv, [Next]_vars, NEW s \in Sockets, conn'[s] # "closing"
             PROVE  attempts'[s] < MaxAttempts
  BY DEF AttemptsLeft
<1> USE MaxAttemptsAssumption DEF Inv, TypeOK, AttemptsLeft
<1>1. ASSUME NEW t \in Sockets, Accept(t) \/ PeerDies(t) PROVE attempts'[s] < MaxAttempts
  BY <1>1 DEF Accept, PeerDies, Goto
<1>2. ASSUME NEW t \in Sockets, LogIn(t) PROVE attempts'[s] < MaxAttempts
  BY <1>2 DEF LogIn, LogInNewUser, LogInOldUser, RefuseLogIn, Goto
<1>3. ASSUME NEW t \in Sockets, UserIdFails(t) \/ ReplyLogin(t) \/ ReplyFails(t)
      PROVE  attempts'[s] < MaxAttempts
  BY <1>3 DEF UserIdFails, ReplyLogin, ReplyFails, Goto
<1>4. ASSUME NEW t \in Sockets, Command(t) \/ EndOfSession(t) \/ ReadError(t)
      PROVE  attempts'[s] < MaxAttempts
  BY <1>4 DEF Command, EndOfSession, ReadError, Goto
<1>5. ASSUME NEW t \in Sockets, Unparsable(t) \/ Close(t)
      PROVE  attempts'[s] < MaxAttempts
  BY <1>5 DEF Unparsable, Close, Goto
<1>6. ASSUME Restart PROVE attempts'[s] < MaxAttempts
  BY <1>6 DEF Restart
<1>7. CASE UNCHANGED vars
  BY <1>7 DEF vars
<1> QED
  BY <1>1, <1>2, <1>3, <1>4, <1>5, <1>6, <1>7 DEF Next, Thread

(* Every step keeps a session's user known: entries are only added, and    *)
(* the start of a new server, which may drop some, ends every session.     *)
LEMMA StepUserEntryExists == Inv /\ [Next]_vars => UserEntryExists'
<1> SUFFICES ASSUME Inv, [Next]_vars, NEW s \in Sockets,
                    conn'[s] \in {"granted", "serving"}
             PROVE  user'[s] \in known'
  BY DEF UserEntryExists
<1> USE DEF Inv, TypeOK, UserEntryExists
<1>1. ASSUME NEW t \in Sockets, Accept(t) \/ PeerDies(t) PROVE user'[s] \in known'
  BY <1>1 DEF Accept, PeerDies, Goto
<1>2. ASSUME NEW t \in Sockets, LogIn(t) PROVE user'[s] \in known'
  BY <1>2 DEF LogIn, LogInNewUser, LogInOldUser, RefuseLogIn, Goto
<1>3. ASSUME NEW t \in Sockets, UserIdFails(t) \/ ReplyLogin(t) \/ ReplyFails(t)
      PROVE  user'[s] \in known'
  BY <1>3 DEF UserIdFails, ReplyLogin, ReplyFails, Goto
<1>4. ASSUME NEW t \in Sockets, Command(t) \/ EndOfSession(t) \/ ReadError(t)
      PROVE  user'[s] \in known'
  BY <1>4 DEF Command, EndOfSession, ReadError, Goto
<1>5. ASSUME NEW t \in Sockets, Unparsable(t) \/ Close(t) PROVE user'[s] \in known'
  BY <1>5 DEF Unparsable, Close, Goto
<1>6. ASSUME Restart PROVE user'[s] \in known'
  BY <1>6 DEF Restart
<1>7. CASE UNCHANGED vars
  BY <1>7 DEF vars
<1> QED
  BY <1>1, <1>2, <1>3, <1>4, <1>5, <1>6, <1>7 DEF Next, Thread

(* Every step keeps the accounts: most start no session and touch no slot, *)
(* and the others are the two lemmas above.                                *)
LEMMA StepSlotAccounting == Inv /\ [Next]_vars => SlotAccounting'
<1> SUFFICES ASSUME Inv, [Next]_vars PROVE SlotAccounting'
  OBVIOUS
<1>1. ASSUME UNCHANGED devices, \A u \in Users : Live(u)' \subseteq Live(u)
      PROVE  SlotAccounting'
  BY <1>1, QuietStep DEF Inv
<1>2. ASSUME NEW s \in Sockets, Accept(s) \/ PeerDies(s) PROVE SlotAccounting'
  <2>1. UNCHANGED devices /\ \A u \in Users : Live(u)' \subseteq Live(u)
    BY <1>2 DEF Accept, PeerDies, Goto, Live, Inv, TypeOK
  <2> QED
    BY <1>1, <2>1
<1>3. ASSUME NEW s \in Sockets, LogIn(s) PROVE SlotAccounting'
  <2>1. PICK u \in Users : LogInNewUser(s, u) \/ LogInOldUser(s, u) \/ RefuseLogIn(s, u)
    BY <1>3 DEF LogIn
  <2>2. CASE RefuseLogIn(s, u)
    <3>1. UNCHANGED devices /\ \A v \in Users : Live(v)' \subseteq Live(v)
      BY <2>2 DEF RefuseLogIn, Goto, Live, Inv, TypeOK
    <3> QED
      BY <1>1, <3>1
  <2> QED
    BY <2>1, <2>2, LogInStep
<1>4. ASSUME NEW s \in Sockets, UserIdFails(s) \/ ReplyLogin(s) \/ ReplyFails(s)
      PROVE  SlotAccounting'
  <2>1. UNCHANGED devices /\ \A u \in Users : Live(u)' \subseteq Live(u)
    BY <1>4 DEF UserIdFails, ReplyLogin, ReplyFails, Goto, Live, Inv, TypeOK
  <2> QED
    BY <1>1, <2>1
<1>5. ASSUME NEW s \in Sockets, Command(s) \/ Unparsable(s) \/ Close(s)
      PROVE  SlotAccounting'
  <2>1. UNCHANGED devices /\ \A u \in Users : Live(u)' \subseteq Live(u)
    BY <1>5, NoUserAssumption DEF Command, Unparsable, Close, Goto, Live, Inv, TypeOK
  <2> QED
    BY <1>1, <2>1
<1>6. ASSUME NEW s \in Sockets, conn[s] = "serving", LogOutClient(s),
             Goto(s, "closing"), UNCHANGED user
      PROVE  SlotAccounting'
  <2>1. user[s] \in Users
    BY <1>6 DEF Inv, UserEntryExists, TypeOK
  <2> QED
    BY <1>6, <2>1, LogOutStep DEF Inv
<1>7. ASSUME NEW s \in Sockets, EndOfSession(s) PROVE SlotAccounting'
  BY <1>6, <1>7 DEF EndOfSession
<1>8. ASSUME NEW s \in Sockets, ReadError(s) PROVE SlotAccounting'
  <2>1. CASE UNCHANGED <<devices, conn>>
    <3>1. UNCHANGED devices /\ \A u \in Users : Live(u)' \subseteq Live(u)
      BY <1>8, <2>1 DEF ReadError, Live
    <3> QED
      BY <1>1, <3>1
  <2> QED
    BY <1>6, <1>8, <2>1 DEF ReadError
<1>9. ASSUME Restart PROVE SlotAccounting'
  <2>1. \A u \in Users : Live(u)' = {}
    BY <1>9 DEF Restart, Live
  <2> SUFFICES ASSUME NEW u \in Users
               PROVE  Cardinality(Live(u)') <= Cardinality(UsedSlots(u)')
    BY DEF SlotAccounting
  <2>2. Cardinality(Live(u)') = 0
    BY <2>1, FS_EmptySet
  <2>3. Cardinality(UsedSlots(u)') \in Nat
    <3>1. UsedSlots(u)' \in SUBSET Slots /\ IsFiniteSet(Slots)
      BY FS_Interval, MaxConnectionsAssumption DEF UsedSlots, Slots
    <3> QED
      BY <3>1, FS_Subset, FS_CardinalityType
  <2> QED
    BY <2>2, <2>3
<1>10. CASE UNCHANGED vars
  <2>1. UNCHANGED devices /\ \A u \in Users : Live(u)' \subseteq Live(u)
    BY <1>10 DEF vars, Live
  <2> QED
    BY <1>1, <2>1
<1> QED
  BY <1>2, <1>3, <1>4, <1>5, <1>7, <1>8, <1>9, <1>10 DEF Next, Thread
-----------------------------------------------------------------------------
(* The conjunction is inductive, so it holds of every reachable state,     *)
(* whatever the schedule and whatever the fairness.                        *)
THEOREM Invariance == Safety => []Inv
<1>1. Inv /\ [Next]_vars => Inv'
  BY StepTypeOK, StepAttemptsLeft, StepUserEntryExists, StepSlotAccounting DEF Inv
<1> QED
  BY InitInv, <1>1, PTL DEF Safety

(* Type correctness of the session table.                                  *)
THEOREM TypeCorrect == Safety => []TypeOK
BY Invariance, PTL DEF Inv

(* logOutClient never looks up a user who has no entry.                    *)
THEOREM EntriesExist == Safety => []UserEntryExists
BY Invariance, PTL DEF Inv

(* Every live session is paid for by a used slot of its user.              *)
THEOREM SlotsAccount == Safety => []SlotAccounting
BY Invariance, PTL DEF Inv

(* logInClient's limit holds: no user ever has more than MaxConnections    *)
(* live sessions, although logOutClient may clear another session's slot.  *)
THEOREM LimitHolds == Safety => []ConnectionLimit
<1>1. Inv => ConnectionLimit
  <2> SUFFICES ASSUME Inv, NEW u \in Users PROVE Cardinality(Live(u)) <= MaxConnections
    BY DEF ConnectionLimit
  <2>1. Cardinality(Live(u)) <= Cardinality(UsedSlots(u))
    BY DEF Inv, SlotAccounting
  <2> QED
    BY <2>1, CountableSets, MaxConnectionsAssumption
<1> QED
  BY Invariance, <1>1, PTL
=============================================================================
