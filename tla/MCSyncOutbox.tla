---------------------------- MODULE MCSyncOutbox ----------------------------
(* Instances of SyncOutbox for TLC. *)
EXTENDS SyncOutbox

\* One priority row among bulk rows of which the server refuses two, one more
\* than a drain may quarantine.
ConstPriority == {2}
ConstPoison == {1, 4}
ConstInvalid == {3}
ConstNone == {}

\* Faults of the network, of either store and of the process, the repairs, and
\* a stop and resumption of the uplink.
ConstFaults == {"restart", "timeout", "lost", "storage", "insert", "observe",
                "release", "requeue", "sync"}

\* Everything that may change which token is stored, valid or enabled.
ConstAccount == {"pair", "sync", "save", "restart", "check", "revoke", "restrict"}

ConstInsert == {"insert"}
ConstCheck == {"revoke", "pair", "check"}
=============================================================================
