------------------------------ MODULE MCDaemon ------------------------------
(* TLC instances of Daemon: clients that log in, list and leave while      *)
(* devices are published, providers come and go, and the daemon stops.     *)
EXTENDS Daemon

\* The process has ended.
Terminated == main = "exited" /\ UNCHANGED vars

MCSpec == Init /\ [][Next \/ Terminated]_vars /\ Fairness
MCSafetySpec == Init /\ [][Next \/ Terminated]_vars
=============================================================================
