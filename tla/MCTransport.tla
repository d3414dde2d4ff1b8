---------------------------- MODULE MCTransport ----------------------------
(* TLC instances of Transport: two attempts, of two devices or of one.     *)
EXTENDS Transport

\* Every attempt is over, and so is its dial goroutine, unless the library is
\* still at work; a scan whose device never advertises may be left over.
Terminated ==
    /\ \A a \in Attempts : /\ caller[a] \in {"closed", "failed", "notFound"}
                           /\ dial[a] \in {"none", "dialing", "discover", "done"}
    /\ UNCHANGED vars

MCSpec == Init /\ [][Next \/ Terminated]_vars /\ Fairness
=============================================================================
