------------------------------ MODULE FileLock ------------------------------
(***************************************************************************)
(* What lockFile and unlockFile promise: "a exclusão mútua distribuída     *)
(* para um arquivo".  A file is locked by one session at the most, and is  *)
(* granted to another only after that one has given it up or ended.  The   *)
(* queues that bring this about are in FileTable, which implements this    *)
(* specification as long as no file is deleted.                            *)
(***************************************************************************)
CONSTANTS Files, Sessions

VARIABLE locked  \* <<s, f>>: session s has the lock of file f

Init == locked = {}

(* Only a file that nobody has locked is granted; asking again for a lock  *)
(* one has changes nothing.                                                *)
Grant(s, f) ==
    /\ \A t \in Sessions : <<t, f>> \in locked => t = s
    /\ locked' = locked \cup {<<s, f>>}

Release(s, f) == locked' = locked \ {<<s, f>>}

(* A session ends, or all of them do with the server.                      *)
Leave(s) == locked' = {p \in locked : p[1] # s}
Reset == locked' = {}

Next ==
    \/ \E s \in Sessions : Leave(s) \/ \E f \in Files : Grant(s, f) \/ Release(s, f)
    \/ Reset

Spec == Init /\ [][Next]_locked
=============================================================================
