------------------------------- MODULE MCSync -------------------------------
(* Instances of Sync for TLC.                                              *)
EXTENDS Sync

AnyZone == BOOLEAN
NoSummer == {FALSE}
=============================================================================
