----------------------------- MODULE NutServer -----------------------------
(***************************************************************************)
(* The NUT server of internal/nut/server.go: Run accepts connections until *)
(* its listener is closed, and a goroutine per connection answers commands *)
(* from the UPS store (internal/state), which others are writing.          *)
(*                                                                         *)
(* A device is known by its number; the order of the names is that of the  *)
(* numbers.  Modelled are the commands that take several steps or leave    *)
(* something behind: PASSWORD, the control commands and LIST UPS.  The     *)
(* others (VER, PING, GET, LIST VAR, whatever is malformed) read at most   *)
(* one device in one critical section and change nothing.  USERNAME is one *)
(* of them: it tells the client whether the name is the configured one,    *)
(* and no later command depends on it.                                     *)
(***************************************************************************)
EXTENDS Naturals, Sequences, FiniteSets

CONSTANTS
    NumDevices,   \* length of cfg.Devices
    Clients       \* concurrent connections

ASSUME NutAssumption == NumDevices \in Nat \ {0}

Devices == 1..NumDevices

VARIABLES
    auth,      \* which of auth.username and auth.password are configured
    ups,       \* the store: a function from the devices it holds
    listener,  \* "none", "open" or "closed"
    srv,       \* where Server.Run is
    failure,   \* the error that ended it, or kept the daemon from starting
    conn,      \* the connections
    ctxDone    \* the daemon's context is done

srvVars == <<listener, srv, failure>>
nutVars == <<auth, ups, listener, srv, failure, conn, ctxDone>>

\* No connection.  sent is history, which no code looks at: the client has
\* sent the configured password.
Closed == [at |-> "closed", authed |-> FALSE, todo |-> <<>>, lines |-> <<>>,
           sent |-> FALSE]

\* Mutant of Names: the order of the map, here the opposite one.
NamesUnsorted ==
    LET Before(d) == {e \in DOMAIN ups : e > d}
    IN  [i \in 1..Cardinality(DOMAIN ups) |->
           CHOOSE d \in DOMAIN ups : Cardinality(Before(d)) = i - 1]

\* The store's Names: what it holds, sorted.  The i-th name is the one with
\* i - 1 others before it.
Names ==
    LET Before(d) == {e \in DOMAIN ups : e < d}
    IN  [i \in 1..Cardinality(DOMAIN ups) |->
           CHOOSE d \in DOMAIN ups : Cardinality(Before(d)) = i - 1]

----------------------------------------------------------------------------
(* Server.Run.                                                             *)

Listen ==
    /\ srv = "listen"
    /\ \/ listener' = "open" /\ srv' = "accept" /\ UNCHANGED failure
       \/ srv' = "error" /\ failure' = "listen" /\ UNCHANGED listener
    /\ UNCHANGED <<auth, ups, conn, ctxDone>>

\* Mutant of Accept: authed is the server's, not the connection's.
AcceptSharesAuth(c) ==
    /\ srv = "accept" /\ listener = "open"
    /\ conn[c].at = "closed"
    /\ conn' = [conn EXCEPT ![c] =
                  [Closed EXCEPT !.at = "idle",
                                 !.authed = \/ ~auth.username /\ ~auth.password
                                            \/ \E e \in Clients : conn[e].authed]]
    /\ UNCHANGED <<auth, ups, srvVars, ctxDone>>

\* A connection is accepted and its handler started.
Accept(c) ==
    /\ srv = "accept" /\ listener = "open"
    /\ conn[c].at = "closed"
    /\ conn' = [conn EXCEPT ![c] =
                  [Closed EXCEPT !.at = "idle",
                                 !.authed = ~auth.username /\ ~auth.password]]
    /\ UNCHANGED <<auth, ups, srvVars, ctxDone>>

\* Accept returns an error: the listener was closed, or something else went
\* wrong (for example, no file descriptor was left).
AcceptFails ==
    /\ srv = "accept"
    /\ failure' = IF listener = "closed" THEN "closed" ELSE "accept"
    /\ srv' = "failed"
    /\ UNCHANGED <<auth, ups, listener, conn, ctxDone>>

\* Mutant of AfterAccept: the context is not looked at.
AfterAcceptBlind ==
    /\ srv = "failed"
    /\ srv' = "error"
    /\ listener' = "closed"
    /\ UNCHANGED <<auth, ups, failure, conn, ctxDone>>

\* ctx.Err() decides between nil and the error; the deferred Close follows.
AfterAccept ==
    /\ srv = "failed"
    /\ srv' = IF ctxDone THEN "nil" ELSE "error"
    /\ listener' = "closed"
    /\ UNCHANGED <<auth, ups, failure, conn, ctxDone>>

\* Mutant of CloseListener: it waits until the clients have left.
CloseListenerWhenIdle ==
    /\ ctxDone /\ listener = "open"
    /\ \A c \in Clients : conn[c].at = "closed"
    /\ listener' = "closed"
    /\ UNCHANGED <<auth, ups, srv, failure, conn, ctxDone>>

\* The goroutine that waits for the context.
CloseListener ==
    /\ ctxDone /\ listener = "open"
    /\ listener' = "closed"
    /\ UNCHANGED <<auth, ups, srv, failure, conn, ctxDone>>

----------------------------------------------------------------------------
(* handle and command, for the connection c.                               *)

Handle(c, r) ==
    /\ conn[c].at = "idle"
    /\ conn' = [conn EXCEPT ![c] = r]
    /\ UNCHANGED <<auth, ups, srvVars, ctxDone>>

\* PASSWORD: any password will do if none is configured.
Password(c) ==
    \E right \in {FALSE, auth.password} :
        Handle(c, [conn[c] EXCEPT
                     !.sent   = @ \/ right,
                     !.authed = @ \/ ~auth.password \/ right])

\* LOGIN, PRIMARY, MASTER and FSD are granted.
Control(c) == conn[c].authed /\ Handle(c, [conn[c] EXCEPT !.at = "granted"])

\* LIST UPS takes the names first.
ListUPS(c) == Handle(c, [conn[c] EXCEPT !.at = "list", !.todo = Names, !.lines = <<>>])

\* Then it gets one device after the other; 0 is a device that is not there.
\* After the last one the answer is written ("listed").
ListNext(c) ==
    /\ conn[c].at = "list"
    /\ LET q == conn[c]
           d == Head(q.todo)
       IN conn' = [conn EXCEPT ![c] =
            IF q.todo = <<>> THEN [q EXCEPT !.at = "listed"]
            ELSE [q EXCEPT !.todo  = Tail(@),
                           !.lines = Append(@, IF d \in DOMAIN ups THEN d ELSE 0)]]
    /\ UNCHANGED <<auth, ups, srvVars, ctxDone>>

\* The client has read the answer.
Read(c) ==
    /\ conn[c].at \in {"listed", "granted"}
    /\ conn' = [conn EXCEPT ![c].at = "idle", ![c].lines = <<>>]
    /\ UNCHANGED <<auth, ups, srvVars, ctxDone>>

\* LOGOUT, QUIT, or the connection breaks.
Quit(c) == Handle(c, Closed)

Serve(c) == Accept(c) \/ Password(c) \/ Control(c) \/ ListUPS(c)
            \/ ListNext(c) \/ Read(c) \/ Quit(c)

----------------------------------------------------------------------------
(* Properties.                                                             *)

\* An answer to LIST UPS names every configured device once and in order,
\* although names and devices are read in critical sections of their own
\* while the collector replaces entries of the store.
ListComplete ==
    \A c \in Clients :
        conn[c].at = "listed" => conn[c].lines = [d \in Devices |-> d]

\* When a password is configured, a control command succeeds only on a
\* connection that itself has sent it, whatever other connections have done
\* before or at the same time.  (Of the configured credentials that is all
\* the server requires: never the user name, and with a user name alone any
\* password does.)
ControlNeedsPassword ==
    \A c \in Clients :
        auth.password /\ conn[c].at = "granted" => conn[c].sent
=============================================================================
