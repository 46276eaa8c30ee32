------------------------------- MODULE MCProxy -------------------------------
(* The instance of Proxy for TLC.  The last server of the list, which the  *)
(* proxy never keeps a connection to, does not crash.                      *)
EXTENDS Proxy

AllButLast == 1 .. N - 1
==============================================================================
