--------------------------- MODULE DeviceContract ---------------------------
(***************************************************************************)
(* What the device goroutines of the eco-ble provider promise to           *)
(* Provider.Run and to the readers of the store, without scans,            *)
(* handshakes, packets and timers:                                         *)
(*  - live data comes from an open connection only, and a device that lost *)
(*    its connection is served as WAIT before it is connected to again;    *)
(*  - a goroutine ends only when its context is done, and its session has  *)
(*    no connection then; until then it tries again, whatever happens.     *)
(* Session implements this for one device; Provider runs a set of them.    *)
(* A connection is one that Connect has returned to a session.  The link   *)
(* of a Connect that was cancelled or timed out is not the goroutine's: it *)
(* may be up for a while after the goroutine has ended (Transport).        *)
(***************************************************************************)
CONSTANT Devices

VARIABLES
    served,     \* what the store serves for each device: "WAIT" or "LIVE"
    connOpen,   \* whether its session has an open BLE connection
    gr,         \* its goroutine: "none", "running" or "done"
    ctxDone     \* the provider's context is done

vars == <<served, connOpen, gr, ctxDone>>

Init ==
    /\ served = [d \in Devices |-> "WAIT"]
    /\ connOpen = [d \in Devices |-> FALSE]
    /\ gr = [d \in Devices |-> "running"]
    /\ ctxDone = FALSE

\* A new session has a connection.
Connect(d) ==
    /\ gr[d] = "running" /\ ~connOpen[d] /\ served[d] = "WAIT"
    /\ connOpen' = [connOpen EXCEPT ![d] = TRUE]
    /\ UNCHANGED <<served, gr>>

\* A packet with a reading.
Serve(d) ==
    /\ gr[d] = "running" /\ connOpen[d]
    /\ served' = [served EXCEPT ![d] = "LIVE"]
    /\ UNCHANGED <<connOpen, gr>>

\* The start of the goroutine, a stale device, a failed session.
Wait(d) ==
    /\ gr[d] = "running"
    /\ served' = [served EXCEPT ![d] = "WAIT"]
    /\ UNCHANGED <<connOpen, gr>>

\* The deferred Close of a session.
Disconnect(d) ==
    /\ gr[d] = "running" /\ connOpen[d]
    /\ connOpen' = [connOpen EXCEPT ![d] = FALSE]
    /\ UNCHANGED <<served, gr>>

\* runDevice returns.
Finish(d) ==
    /\ gr[d] = "running" /\ ctxDone /\ ~connOpen[d]
    /\ gr' = [gr EXCEPT ![d] = "done"]
    /\ UNCHANGED <<served, connOpen>>

\* What the goroutine of d may do, in any order.
Step(d) == Connect(d) \/ Serve(d) \/ Wait(d) \/ Disconnect(d) \/ Finish(d)

Cancel ==
    /\ ~ctxDone
    /\ ctxDone' = TRUE
    /\ UNCHANGED <<served, connOpen, gr>>

Next == \/ (\E d \in Devices : Step(d)) /\ UNCHANGED ctxDone
        \/ Cancel

Spec == Init /\ [][Next]_vars
=============================================================================
