------------------------- MODULE MCProviderManager -------------------------
(* TLC instances of ProviderManager: requests that overlap each other, a   *)
(* run that is stopping, and shutdown.                                     *)
EXTENDS ProviderManager

\* Run has returned and every request has been answered: the only state the
\* daemon may rest in.
Terminated == /\ pc = "stopped"
              /\ \A c \in Callers : call[c].at = "idle"
              /\ UNCHANGED vars

MCNext == Next \/ Terminated

MCSafetySpec == Init /\ [][MCNext]_vars
MCSpec == Init /\ [][MCNext]_vars /\ Fairness
=============================================================================
