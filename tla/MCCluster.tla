------------------------------ MODULE MCCluster ------------------------------
(* Scenarios for checking Cluster; servers are list positions.             *)
EXTENDS Cluster

(* Settled leaders crash; leaders crash at any moment and closes race; two *)
(* threads of a server dial at the same time; clients log in and log off   *)
(* and settled servers crash, any of them or the leaders only.             *)
CrashScenarios ==
    {{"clients"}, {"clients", "busy", "late", "early"}, {"busy", "overlap"},
     {"clients", "many", "logoff", "backup"}, {"clients", "many", "logoff"}}

LogoffScenarios == {{"clients", "logoff"}}
=============================================================================
