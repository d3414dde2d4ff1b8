----------------------------- MODULE Transport -----------------------------
(***************************************************************************)
(* FindByMAC and Connect of internal/ecoflow/transport_tinygo.go, as a     *)
(* session uses them: find the device, connect, use the connection, close. *)
(* Each operation starts a goroutine that calls the blocking Bluetooth     *)
(* library and that may outlive the operation.                             *)
(*                                                                         *)
(* Attempts are the attempts of all sessions of the process.  On Linux     *)
(* each has an adapter object of its own (adapter_linux.go), so they share *)
(* nothing but the context that cancels them.  The library is modelled by  *)
(* what this code relies on: Scan blocks and calls back until StopScan is  *)
(* called on its adapter, StopScan does nothing when no scan is on, and    *)
(* Connect blocks until it has a connection or an error.                   *)
(***************************************************************************)
EXTENDS Naturals

CONSTANT Attempts

VARIABLES
    caller,    \* where the session is in the attempt
    scan,      \* the goroutine that runs adapter.Scan
    matched,   \* channel matches, of capacity one, holds a discovery
    dial,      \* the goroutine of connectWithTimeout
    conn,      \* the connection of the attempt
    expired,   \* the timeout of connectCtx has passed
    ctxDone    \* the context of the sessions is done

vars == <<caller, scan, matched, dial, conn, expired, ctxDone>>

Init ==
    /\ caller = [a \in Attempts |-> "idle"]
    /\ scan = [a \in Attempts |-> "none"]
    /\ matched = [a \in Attempts |-> FALSE]
    /\ dial = [a \in Attempts |-> "none"]
    /\ conn = [a \in Attempts |-> "none"]
    /\ expired = [a \in Attempts |-> FALSE]
    /\ ctxDone = FALSE

At(var, a, from, to) == var[a] = from /\ var' = [var EXCEPT ![a] = to]

----------------------------------------------------------------------------
(* FindByMAC.                                                              *)

\* The adapter is enabled and the scan goroutine started, or it fails.
BeginFind(a) ==
    /\ \/ At(caller, a, "idle", "find") /\ scan' = [scan EXCEPT ![a] = "starting"]
       \/ At(caller, a, "idle", "failed") /\ UNCHANGED scan
    /\ UNCHANGED <<matched, dial, conn, expired, ctxDone>>

\* The goroutine gets to call adapter.Scan, which scans or fails.
ScanStart(a) ==
    /\ \/ At(scan, a, "starting", "on")
       \/ At(scan, a, "starting", "error")
    /\ UNCHANGED <<caller, matched, dial, conn, expired, ctxDone>>

\* The callback for the wanted address: the discovery is queued unless one
\* is already there.
ScanMatch(a) ==
    /\ At(scan, a, "on", "matched")
    /\ matched' = [matched EXCEPT ![a] = TRUE]
    /\ UNCHANGED <<caller, dial, conn, expired, ctxDone>>

\* The callback's StopScan, and with it the end of Scan: errCh gets nil.
ScanStop(a) ==
    /\ At(scan, a, "matched", "ended")
    /\ UNCHANGED <<caller, matched, dial, conn, expired, ctxDone>>

\* What the caller's StopScan does to the scan: it ends the one that is on.
StopScan(a) ==
    scan' = [scan EXCEPT ![a] = IF @ \in {"on", "matched"} THEN "ended" ELSE @]

\* The matches case.
FindMatch(a) ==
    /\ At(caller, a, "find", "found")
    /\ matched[a]
    /\ matched' = [matched EXCEPT ![a] = FALSE]
    /\ UNCHANGED <<scan, dial, conn, expired, ctxDone>>

\* Mutant of FindScanEnded: a queued match is not looked for.
FindScanEndedBlind(a) ==
    /\ At(caller, a, "find", "notFound")
    /\ scan[a] \in {"ended", "error"}
    /\ scan' = [scan EXCEPT ![a] = "none"]
    /\ UNCHANGED <<matched, dial, conn, expired, ctxDone>>

\* The errCh case: the scan is over, but its match may still be queued.
FindScanEnded(a) ==
    /\ scan[a] \in {"ended", "error"}
    /\ scan' = [scan EXCEPT ![a] = "none"]
    /\ \/ /\ matched[a]
          /\ At(caller, a, "find", "found")
          /\ matched' = [matched EXCEPT ![a] = FALSE]
       \/ /\ ~matched[a]
          /\ At(caller, a, "find", "notFound")
          /\ UNCHANGED matched
    /\ UNCHANGED <<dial, conn, expired, ctxDone>>

\* The ctx.Done and timer cases: the timer may fire at any time.
FindGiveUp(a) ==
    /\ At(caller, a, "find", "failed")
    /\ StopScan(a)
    /\ UNCHANGED <<matched, dial, conn, expired, ctxDone>>

----------------------------------------------------------------------------
(* Connect.                                                                *)

\* connectWithTimeout begins, unless the context is done already or the
\* adapter cannot be enabled.
BeginConnect(a) ==
    /\ \/ /\ ~ctxDone
          /\ At(caller, a, "found", "connect")
          /\ dial' = [dial EXCEPT ![a] = "dialing"]
       \/ /\ At(caller, a, "found", "failed")
          /\ UNCHANGED dial
    /\ UNCHANGED <<scan, matched, conn, expired, ctxDone>>

\* connectCtx: cancelled with its parent, by its timeout, and by the deferred
\* cancel when connectWithTimeout has returned.
ConnectCtxDone(a) == ctxDone \/ expired[a] \/ caller[a] # "connect"

\* adapter.Connect returns, at last: the link is up, or there is an error.
adapterConnect(a) ==
    /\ \/ At(dial, a, "dialing", "discover") /\ conn' = [conn EXCEPT ![a] = "open"]
       \/ At(dial, a, "dialing", "offerError") /\ UNCHANGED conn
    /\ UNCHANGED <<caller, scan, matched, expired, ctxDone>>

\* The discovery of services over the open link ends: the connection can be
\* used, or it is disconnected and there is an error.
newTinygoConnection(a) ==
    /\ \/ At(dial, a, "discover", "offer") /\ UNCHANGED conn
       \/ At(dial, a, "discover", "offerError") /\ conn' = [conn EXCEPT ![a] = "closed"]
    /\ UNCHANGED <<caller, scan, matched, expired, ctxDone>>

\* Mutant of Handoff: the channel is buffered, so that the goroutine may leave
\* the connection in it when nobody receives any more.
HandoffBuffered(a) ==
    /\ \/ At(dial, a, "offer", "done")
          /\ caller' = [caller EXCEPT ![a] = IF @ = "connect" THEN "open" ELSE @]
       \/ At(dial, a, "offerError", "done")
          /\ caller' = [caller EXCEPT ![a] = IF @ = "connect" THEN "failed" ELSE @]
    /\ UNCHANGED <<scan, matched, conn, expired, ctxDone>>

\* The unbuffered channel: goroutine and caller meet, both in their selects.
Handoff(a) ==
    /\ \/ At(dial, a, "offer", "done") /\ At(caller, a, "connect", "open")
       \/ At(dial, a, "offerError", "done") /\ At(caller, a, "connect", "failed")
    /\ UNCHANGED <<scan, matched, conn, expired, ctxDone>>

\* Mutant of DialAbandoned: a late connection is dropped without closing it.
DialAbandonedLeaks(a) ==
    /\ ConnectCtxDone(a)
    /\ \/ At(dial, a, "offer", "done") \/ At(dial, a, "offerError", "done")
    /\ UNCHANGED <<caller, scan, matched, conn, expired, ctxDone>>

\* The goroutine's other case: nobody waits for the result any more.
DialAbandoned(a) ==
    /\ ConnectCtxDone(a)
    /\ \/ At(dial, a, "offer", "done") /\ conn' = [conn EXCEPT ![a] = "closed"]
       \/ At(dial, a, "offerError", "done") /\ UNCHANGED conn
    /\ UNCHANGED <<caller, scan, matched, expired, ctxDone>>

Expire(a) ==
    /\ caller[a] = "connect" /\ ~expired[a]
    /\ expired' = [expired EXCEPT ![a] = TRUE]
    /\ UNCHANGED <<caller, scan, matched, dial, conn, ctxDone>>

\* Mutant of ConnectGiveUp: the caller waits on its parent context.
ConnectGiveUpOnCancel(a) ==
    /\ ctxDone
    /\ At(caller, a, "connect", "failed")
    /\ UNCHANGED <<scan, matched, dial, conn, expired, ctxDone>>

\* The caller's other case: cancelled or timed out.
ConnectGiveUp(a) ==
    /\ ctxDone \/ expired[a]
    /\ At(caller, a, "connect", "failed")
    /\ UNCHANGED <<scan, matched, dial, conn, expired, ctxDone>>

\* The session's deferred conn.Close.
Close(a) ==
    /\ At(caller, a, "open", "closed")
    /\ conn' = [conn EXCEPT ![a] = "closed"]
    /\ UNCHANGED <<scan, matched, dial, expired, ctxDone>>

Cancel ==
    /\ ~ctxDone
    /\ ctxDone' = TRUE
    /\ UNCHANGED <<caller, scan, matched, dial, conn, expired>>

----------------------------------------------------------------------------

\* The session's steps of an attempt, and those of its two goroutines.
CallerStep(a) == \/ FindMatch(a) \/ FindScanEnded(a) \/ FindGiveUp(a)
                 \/ BeginConnect(a) \/ ConnectGiveUp(a)
ScanStep(a) == ScanStart(a) \/ ScanStop(a)
DialStep(a) == Handoff(a) \/ DialAbandoned(a)

Next == \/ \E a \in Attempts : \/ BeginFind(a) \/ CallerStep(a) \/ Close(a)
                               \/ ScanStep(a) \/ ScanMatch(a) \/ DialStep(a)
                               \/ adapterConnect(a) \/ newTinygoConnection(a)
                               \/ Expire(a)
        \/ Cancel

\* Goroutines are scheduled, timers fire (FindGiveUp, Expire), and a session
\* whose context is done closes its connection (Session!CancelEnds); one whose
\* context is not done may go on for ever.  The device need not advertise, and
\* neither the library's Connect nor its service discovery need return.
Fairness ==
    \A a \in Attempts : /\ WF_vars(CallerStep(a)) /\ WF_vars(ctxDone /\ Close(a))
                        /\ WF_vars(ScanStep(a)) /\ WF_vars(DialStep(a))
                        /\ WF_vars(Expire(a))

Spec == Init /\ [][Next]_vars /\ Fairness

----------------------------------------------------------------------------
(* Properties.                                                             *)

\* Types: the steps of the session and of the two goroutines.
TypeOK ==
    /\ caller \in [Attempts -> {"idle", "find", "found", "notFound", "connect",
                                "open", "closed", "failed"}]
    /\ scan \in [Attempts -> {"none", "starting", "on", "matched", "ended", "error"}]
    /\ matched \in [Attempts -> BOOLEAN]
    /\ dial \in [Attempts -> {"none", "dialing", "discover", "offer", "offerError", "done"}]
    /\ conn \in [Attempts -> {"none", "open", "closed"}]
    /\ expired \in [Attempts -> BOOLEAN]
    /\ ctxDone \in BOOLEAN

\* The goroutine of connectWithTimeout has the connection in its hands.
Dialing(a) == dial[a] \in {"discover", "offer"}

\* An open connection has exactly one owner: the session it was handed to, or
\* the goroutine that discovers its services or offers it.  Nobody else could
\* close it, so none is leaked when the timeout or a cancellation races the
\* connection, or when its services are not those of a device.
OneOwner ==
    \A a \in Attempts :
        /\ conn[a] = "open" <=> caller[a] = "open" \/ Dialing(a)
        /\ ~(caller[a] = "open" /\ Dialing(a))

\* A device that was found is not reported missing: when FindByMAC fails
\* because the scan ended, no discovery is waiting in matches.
FoundIsReported ==
    \A a \in Attempts : caller[a] = "notFound" => ~matched[a]

\* A connection that nobody wants any more, because the context is done or
\* Connect has given up, is closed in the end, once the library has returned
\* it.
ConnectionsEnd ==
    \A a \in Attempts :
        conn[a] = "open" /\ dial[a] # "discover" /\ (ctxDone \/ caller[a] = "failed")
            ~> conn[a] = "closed"

\* FindByMAC and Connect return, whatever the library and the device do.
OperationsReturn ==
    \A a \in Attempts :
        caller[a] \in {"find", "connect"} ~> caller[a] \notin {"find", "connect"}
=============================================================================
