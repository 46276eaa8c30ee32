------------------------------ MODULE MCProtocol ------------------------------
(* Values for checking Protocol.                                           *)
EXTENDS Protocol

CONSTANTS a, b, x, y, z, s1, s2, s3

(* With parts of two bytes: an empty content, one whose last part is full, *)
(* and one whose last part is not.                                         *)
Sizes == [c \in Contents |-> CASE c = x -> 0 [] c = y -> 4 [] c = z -> 3]

TwoVersions == [f \in Files |-> IF f = a THEN {x, y} ELSE {z}]

OneBackup == <<s2>>
TwoBackups == <<s2, s3>>
=============================================================================
