----------------------------- MODULE MCProvider -----------------------------
(* TLC instance of Provider: configuration files that are complete, sparse *)
(* or refused, and every combination of account settings.                  *)
EXTENDS Provider

\* Periods that are all missing, negative, or set to v.  A poll period of 30
\* does not fit into the Duration of the run and comes out negative.
All(defaults, v) == [k \in DOMAIN defaults |-> v]

Dev1(named, mac, v) ==
    [named |-> named, mac |-> mac, periods |-> All(DeviceDefaults, v)]

Base == [type |-> "eco-ble", jsonDir |-> FALSE, periods |-> All(ProviderDefaults, 0),
         devices |-> <<Dev1(TRUE, TRUE, 0), Dev1(TRUE, TRUE, 7), Dev1(TRUE, TRUE, 7)>>,
         userID |-> FALSE, password |-> TRUE, ident |-> "email", region |-> ""]

\* Every combination of account settings, with the devices of Base.
Accounts ==
    { [Base EXCEPT !.userID = u, !.password = p, !.ident = i, !.region = r] :
        u \in BOOLEAN, p \in BOOLEAN, i \in {"none", "blank", "email", "phone"},
        r \in {"", "auto", "api-e", "api-cn", "moon"} }

\* Every type and every completeness of periods and devices.
Files ==
    { [Base EXCEPT !.type = t, !.jsonDir = j, !.periods = All(ProviderDefaults, v),
                   !.devices = ds, !.userID = TRUE] :
        t \in {"", "mock", "json-dir", "eco-ble", "ble"}, j \in BOOLEAN,
        v \in {-1, 0, 5, 30},
        ds \in { <<>>, <<Dev1(TRUE, TRUE, -1)>>, <<Dev1(TRUE, FALSE, 0)>>,
                 <<Dev1(FALSE, TRUE, 0)>>,
                 <<Dev1(TRUE, TRUE, 0), Dev1(TRUE, FALSE, 0)>> } }

MCRawConfigs == Accounts \cup Files

\* Run has returned, or the process has panicked.
Terminated == stage \in {"returned", "panicked"} /\ UNCHANGED vars

MCSpec == Init /\ [][Next \/ Terminated]_vars /\ Fairness
=============================================================================
