---------------------------- MODULE HandleLocksMC ----------------------------
(* Instances of HandleLocks for TLC.                                        *)
EXTENDS HandleLocks, TLC

CONSTANTS env1, conn1, stmt1, stmt2, desc1

MCParent == (env1 :> Global) @@ (conn1 :> env1) @@ (stmt1 :> conn1)
            @@ (stmt2 :> conn1) @@ (desc1 :> conn1)
=============================================================================
