------------------------------ MODULE MCDBLock ------------------------------
(* The instance of the database lock that TLC checks: a thread that only reads, *)
(* and the two that write.  Each cfg gives them their roles.                    *)
EXTENDS DBLock

CONSTANTS render, main, worker

MCThreads == {render, main, worker}
=============================================================================
