--------------------------- MODULE RunnerContract ---------------------------
(***************************************************************************)
(* What the provider manager relies on of one call of a provider's Run     *)
(* (the Runner interface): while it runs it upserts any device as WAIT or  *)
(* live, also after its context was cancelled; it returns nil or           *)
(* context.Canceled only if its context is done, and another error at any  *)
(* time; once it has returned it writes nothing any more.                  *)
(***************************************************************************)
CONSTANT Devices

VARIABLES
    store,    \* "WAIT" or "LIVE" for each device
    runner,   \* "running" or "returned"
    result,   \* "none", then "canceled" (or nil) or "failed"
    ctxDone   \* the context of the call is done

vars == <<store, runner, result, ctxDone>>

Init ==
    /\ store = [d \in Devices |-> "WAIT"]
    /\ runner = "running" /\ result = "none"
    /\ ctxDone = FALSE

Publish ==
    /\ runner = "running"
    /\ \E d \in Devices, v \in {"WAIT", "LIVE"} : store' = [store EXCEPT ![d] = v]
    /\ UNCHANGED <<runner, result>>

Return ==
    /\ runner = "running"
    /\ \/ ctxDone /\ result' = "canceled"
       \/ result' = "failed"
    /\ runner' = "returned"
    /\ UNCHANGED store

Cancel == ~ctxDone /\ ctxDone' = TRUE /\ UNCHANGED <<store, runner, result>>

Next == \/ (Publish \/ Return) /\ UNCHANGED ctxDone
        \/ Cancel

Spec == Init /\ [][Next]_vars
=============================================================================
