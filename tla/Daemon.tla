------------------------------- MODULE Daemon -------------------------------
(***************************************************************************)
(* The process (cmd/ecoflow-ble-nutd/main.go): main loads the              *)
(* configuration, fills the store with every device as WAIT, starts the    *)
(* provider manager and the web server as goroutines, runs the NUT server  *)
(* and exits when that returns.  The manager with its provider is its      *)
(* contract, CollectorContract, which ProviderManager implements, and the  *)
(* BLE connections its sessions hold: a provider joins its sessions before *)
(* it returns, and a session closes its connection.  Links of abandoned    *)
(* dials (Transport) are no session's and are not counted.                 *)
(***************************************************************************)
EXTENDS NutServer

VARIABLES
    main,   \* where main is
    at,     \* the device NewProviderManager's loop is at
    code,   \* the exit code
    web,    \* the web server's goroutine
    on,     \* a provider is running
    ble     \* a session of the provider holds an open BLE connection

mainVars == <<main, at, code>>
vars == <<auth, ups, listener, srv, failure, conn, ctxDone, main, at, code,
          web, on, ble>>

Collector == INSTANCE CollectorContract WITH shown <- ups

Init ==
    /\ auth \in [username : BOOLEAN, password : BOOLEAN]
    /\ ups = <<>>
    /\ listener = "none" /\ srv = "listen" /\ failure = "none"
    /\ conn = [c \in Clients |-> Closed]
    /\ ctxDone = FALSE
    /\ main = "load" /\ at = 1 /\ code = 0
    /\ web = "none"
    /\ on = FALSE /\ ble = FALSE

----------------------------------------------------------------------------
(* main.                                                                   *)

\* config.Load: the process ends at once if it fails.
LoadConfig ==
    /\ main = "load"
    /\ \/ main' = "mark" /\ UNCHANGED <<code, failure>>
       \/ main' = "exited" /\ code' = 1 /\ failure' = "config"
    /\ UNCHANGED <<auth, ups, listener, srv, conn, ctxDone, at, web, on, ble>>

\* One iteration of MarkDevicesWaiting in NewProviderManager; after the last
\* one, the goroutines are started.
MarkNext ==
    /\ main = "mark"
    /\ \/ /\ at \in Devices
          /\ ups' = [d \in 1..at |-> "WAIT"]
          /\ at' = at + 1
          /\ UNCHANGED <<main, web>>
       \/ /\ at = NumDevices + 1
          /\ main' = "serve" /\ web' = "starting"
          /\ UNCHANGED <<ups, at>>
    /\ UNCHANGED <<auth, srvVars, conn, ctxDone, code, on, ble>>

\* The NUT server's Run, which main calls.
RunNut ==
    /\ main = "serve"
    /\ Listen \/ AcceptFails \/ AfterAccept
    /\ UNCHANGED <<mainVars, web, on, ble>>

\* It has returned, and so does main: the process ends with everything else
\* as it is.
Exit ==
    /\ main = "serve" /\ srv \in {"nil", "error"}
    /\ main' = "exited"
    /\ code' = IF srv = "error" THEN 1 ELSE 0
    /\ UNCHANGED <<nutVars, at, web, on, ble>>

----------------------------------------------------------------------------
(* The other goroutines.                                                   *)

\* A goroutine of the running process; connections are only made once the
\* NUT server listens.
Alive == main = "serve"

Nut ==
    /\ Alive
    /\ \E c \in Clients : Serve(c)
    /\ UNCHANGED <<mainVars, web, on, ble>>

CloseOnDone ==
    /\ Alive
    /\ CloseListener
    /\ UNCHANGED <<mainVars, web, on, ble>>

\* web.Run: not configured, or serving, or its listener fails, now or later.
RunWeb ==
    /\ Alive
    /\ \/ web = "starting" /\ web' \in {"off", "serving", "failed"}
       \/ web = "serving" /\ web' = "failed"
       \/ web = "serving" /\ ctxDone /\ web' = "off"
    /\ UNCHANGED <<nutVars, mainVars, on, ble>>

\* main's goroutine calls stop when web.Run has returned an error.
WebStop ==
    /\ Alive /\ web = "failed"
    /\ web' = "off" /\ ctxDone' = TRUE
    /\ UNCHANGED <<auth, ups, srvVars, conn, mainVars, on, ble>>

\* SIGINT or SIGTERM, once NotifyContext is in place.
Signal ==
    /\ main \in {"mark", "serve"} /\ ~ctxDone
    /\ ctxDone' = TRUE
    /\ UNCHANGED <<auth, ups, srvVars, conn, mainVars, web, on, ble>>

\* The manager and its provider.  A run may begin just as the context is
\* cancelled: nothing orders the two.
Collect ==
    /\ Alive
    /\ \/ Collector!Start /\ UNCHANGED ble
       \/ Collector!Publish /\ UNCHANGED ble
       \/ Collector!Mark /\ UNCHANGED ble
       \/ Collector!Stop /\ ~ble /\ UNCHANGED ble
       \/ on /\ ble' = ~ble /\ UNCHANGED <<on, ups>>
    /\ UNCHANGED <<auth, srvVars, conn, ctxDone, mainVars, web>>

Main == LoadConfig \/ MarkNext \/ RunNut \/ Exit

Next == Main \/ Nut \/ CloseOnDone \/ RunWeb \/ WebStop \/ Signal \/ Collect

\* main is scheduled: it loads, listens, and goes on when Accept fails, which
\* it does on a closed listener.  So are the goroutines that wait for the
\* context or for the web server's error.  Nobody has to connect, and Accept
\* on an open listener need not fail.
Fairness ==
    /\ WF_vars(LoadConfig) /\ WF_vars(MarkNext) /\ WF_vars(Exit)
    /\ WF_vars(RunNut /\ (srv # "accept" \/ listener = "closed"))
    /\ WF_vars(CloseOnDone) /\ WF_vars(WebStop)

Spec == Init /\ [][Next]_vars /\ Fairness

----------------------------------------------------------------------------
(* Properties.                                                             *)

\* The exit code tells failure from shutdown: 1 only if the configuration,
\* the listener or Accept failed, never because shutdown closed the listener
\* under Accept; 0 only after a shutdown.  (A failed web server is one.)
ExitCodeHonest ==
    main = "exited" => /\ code = 1 => failure \in {"config", "listen", "accept"}
                       /\ code = 0 => ctxDone

\* Shutdown ends the process, however many clients stay connected and
\* whatever the collector and the web server are doing.
ShutdownExits == ctxDone ~> main = "exited"

\* SECURITY.md: cancellation leaves no active connection behind.  Here the
\* cancellation is the orderly shutdown of the process.
ExitClosesConnections == main = "exited" /\ code = 0 => ~ble
=============================================================================
