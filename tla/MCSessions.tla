----------------------------- MODULE MCSessions -----------------------------
(* The instance of Sessions for TLC.  Descriptors are stored as integers,  *)
(* since a slot is free or used by the sign of what it holds.              *)
EXTENDS Sessions
=============================================================================
