---------------------------- MODULE MCFileTable -----------------------------
(* Model values and bounds for checking FileTable.                         *)
EXTENDS FileTable

CONSTANTS a, b, c, long, cut

(* Names shorter than MAXNAME read as themselves; the long one reads as    *)
(* "cut" after an upload and after a recovery.                             *)
AsWritten == [n \in Names |-> IF n = long THEN cut ELSE n]

(* The bound of the run that deletes files: once locks are asked for, one  *)
(* session works, on a and b.                                              *)
NoLocks ==
    /\ store = [i \in Slots |-> 0]
    /\ wants = [s \in Sockets |-> NoName]
    /\ holds = {} /\ misled = {}
OneLocker ==
    \/ NoLocks
    \/ /\ Cardinality(on \cup UNION {Members(lock[i]) : i \in Slots}) <= 1
       /\ disk \subseteq {a, b}
       /\ \A i \in Used : name[i] \in {a, b}
=============================================================================
