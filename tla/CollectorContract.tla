------------------------- MODULE CollectorContract -------------------------
(***************************************************************************)
(* What the provider manager promises to the readers of the store,         *)
(* whatever requests, failures and retries it goes through: live data is   *)
(* written only while a provider runs, and a provider is started only when *)
(* every device is served as WAIT, so that nothing a provider has          *)
(* published outlives it into the next one.                                *)
(***************************************************************************)
CONSTANT Devices

VARIABLES
    on,      \* a provider is running
    shown    \* "WAIT" or "LIVE" for each device

vars == <<on, shown>>

Init == on = FALSE /\ shown = [d \in Devices |-> "WAIT"]

Start ==
    /\ ~on /\ \A d \in Devices : shown[d] = "WAIT"
    /\ on' = TRUE
    /\ UNCHANGED shown

Publish ==
    /\ on
    /\ \E d \in Devices, v \in {"WAIT", "LIVE"} : shown' = [shown EXCEPT ![d] = v]
    /\ UNCHANGED on

Stop == on /\ on' = FALSE /\ UNCHANGED shown

\* The manager marks a device, with or without a provider.
Mark ==
    /\ \E d \in Devices : shown' = [shown EXCEPT ![d] = "WAIT"]
    /\ UNCHANGED on

Next == Start \/ Publish \/ Stop \/ Mark

Spec == Init /\ [][Next]_vars
=============================================================================
