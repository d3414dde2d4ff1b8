---------------------------- MODULE DaemonProofs ----------------------------
(***************************************************************************)
(* Proofs about Daemon and the NUT server it runs, for any number of       *)
(* devices and of concurrent clients.                                      *)
(***************************************************************************)
EXTENDS Daemon, FiniteSetTheorems, TLAPS

\* A connection and its handler's locals.
Connection == [at : {"closed", "idle", "list", "listed", "granted"}, authed : BOOLEAN,
               todo : Seq(Nat), lines : Seq(Nat), sent : BOOLEAN]

\* Types of what main, the NUT server and its handlers keep.
TypeOK ==
    /\ auth \in [username : BOOLEAN, password : BOOLEAN]
    /\ conn \in [Clients -> Connection]
    /\ at \in 1..(NumDevices + 1)
    /\ ctxDone \in BOOLEAN

\* NewProviderManager fills the store before a goroutine reads it, and later
\* writes replace entries only.
StoreFilled ==
    /\ main \in {"load", "mark"} => DOMAIN ups = 1..(at - 1)
    /\ main = "serve" => DOMAIN ups = Devices

\* What LIST UPS has written and what it has yet to write are together the
\* devices, in order.
ListProgress(r) ==
    /\ r.at = "list" =>
         /\ Len(r.lines) + Len(r.todo) = NumDevices
         /\ \A i \in 1..Len(r.lines) : r.lines[i] = i
         /\ \A i \in 1..Len(r.todo) : r.todo[i] = Len(r.lines) + i
    /\ r.at = "listed" =>
         Len(r.lines) = NumDevices /\ \A i \in 1..Len(r.lines) : r.lines[i] = i

\* When a password is configured, a connection is authenticated by what it
\* has sent itself; a control command is granted to an authenticated one only.
AuthEarned(r) ==
    /\ auth.password /\ r.authed => r.sent
    /\ r.at = "granted" => r.authed

\* Main calls the server's Run last.  The server's error is its own, and only
\* shutdown closes its listener under it.
FailureHonest ==
    /\ listener = "closed" /\ srv \in {"listen", "accept"} => ctxDone
    /\ failure = "closed" => ctxDone
    /\ srv = "failed" => failure \in {"closed", "accept"}
    /\ srv = "error" => failure \in {"listen", "accept"}
    /\ srv = "nil" => ctxDone
    /\ main \in {"load", "mark"} => srv = "listen"
    /\ main # "exited" => code = 0

\* The inductive invariant.
IInv == /\ TypeOK /\ StoreFilled /\ FailureHonest /\ ExitCodeHonest
        /\ \A c \in Clients : ListProgress(conn[c]) /\ AuthEarned(conn[c])

----------------------------------------------------------------------------

\* Names is the sorted list of what the store holds.
LEMMA NamesSorted ==
    ASSUME DOMAIN ups = Devices
    PROVE  Names = [i \in Devices |-> i]
<1> DEFINE Before(d) == {e \in DOMAIN ups : e < d}
<1> HIDE DEF Before
<1>1. NumDevices \in Nat /\ NumDevices > 0
  BY NutAssumption
<1>2. Cardinality(DOMAIN ups) = NumDevices
  <2>1. 1 \in Int /\ NumDevices \in Int
    BY <1>1
  <2>2. Cardinality(1..NumDevices) = IF 1 > NumDevices THEN 0 ELSE NumDevices - 1 + 1
    BY <2>1, FS_Interval
  <2>3. QED
    BY <1>1, <2>2 DEF Devices
<1>3. ASSUME NEW d \in Devices PROVE Cardinality(Before(d)) = d - 1
  <2>1. d \in Int /\ d >= 1 /\ d <= NumDevices
    BY <1>1, <1>3 DEF Devices
  <2>2. Before(d) = 1..(d - 1)
    BY <1>1, <2>1 DEF Before, Devices
  <2>3. 1 \in Int /\ d - 1 \in Int
    BY <2>1
  <2>4. Cardinality(1..(d - 1)) = IF 1 > d - 1 THEN 0 ELSE d - 1 - 1 + 1
    BY <2>3, FS_Interval
  <2>5. QED
    BY <2>1, <2>2, <2>4
<1>4. ASSUME NEW i \in Devices
      PROVE  (CHOOSE d \in DOMAIN ups : Cardinality(Before(d)) = i - 1) = i
  <2>1. \A d \in DOMAIN ups : Cardinality(Before(d)) = i - 1 <=> d = i
    BY <1>1, <1>3, <1>4 DEF Devices
  <2>2. i \in DOMAIN ups
    BY <1>4
  <2>3. QED
    BY <2>1, <2>2
<1>5. QED
  BY <1>2, <1>4 DEF Names, Before, Devices

\* The process starts within the invariant.
LEMMA InitIInv == Init => IInv
<1> SUFFICES ASSUME Init PROVE IInv
  OBVIOUS
<1>1. <<>> \in Seq(Nat) /\ Len(<<>>) = 0 /\ DOMAIN <<>> = {}
  OBVIOUS
<1>2. TypeOK
  <2>1. Closed \in Connection
    BY <1>1 DEF Closed, Connection
  <2>2. conn \in [Clients -> Connection]
    BY <2>1 DEF Init
  <2>3. ctxDone \in BOOLEAN
    BY Zenon DEF Init
  <2>4. QED
    BY <2>2, <2>3, NutAssumption DEF Init, TypeOK
<1>3. StoreFilled
  BY <1>1 DEF Init, StoreFilled
<1>4. FailureHonest /\ ExitCodeHonest
  BY DEF Init, FailureHonest, ExitCodeHonest
<1>5. \A c \in Clients : ListProgress(conn[c]) /\ AuthEarned(conn[c])
  BY DEF Init, Closed, ListProgress, AuthEarned
<1>6. QED
  BY <1>2, <1>3, <1>4, <1>5 DEF IInv

\* A step of the handler of c that leaves the record r keeps the invariant if
\* r does.
LEMMA HandlerStep ==
    ASSUME IInv, NEW c \in Clients, NEW r \in Connection,
           conn' = [conn EXCEPT ![c] = r],
           UNCHANGED <<auth, ups, listener, srv, failure, ctxDone, main, at, code>>,
           ListProgress(r), AuthEarned(r)
    PROVE  IInv'
<1>1. TypeOK' /\ StoreFilled' /\ FailureHonest' /\ ExitCodeHonest'
  BY DEF IInv, TypeOK, StoreFilled, FailureHonest, ExitCodeHonest
<1>2. ASSUME NEW d \in Clients PROVE ListProgress(conn'[d]) /\ AuthEarned(conn'[d])
  BY DEF IInv, TypeOK
<1>3. \A d \in Clients : AuthEarned(conn'[d]) => AuthEarned(conn[d])'
  BY DEF AuthEarned
<1>4. \A d \in Clients : ListProgress(conn'[d]) => ListProgress(conn[d])'
  BY DEF ListProgress
<1>5. QED
  BY <1>1, <1>2, <1>3, <1>4 DEF IInv

\* LIST UPS moves the next device from what is to be listed to the lines.
LEMMA ListMoves ==
    ASSUME NEW todo \in Seq(Nat), NEW lines \in Seq(Nat), todo # <<>>,
           Len(lines) + Len(todo) = NumDevices,
           \A i \in 1..Len(lines) : lines[i] = i,
           \A i \in 1..Len(todo) : todo[i] = Len(lines) + i
    PROVE  /\ Head(todo) = Len(lines) + 1
           /\ Head(todo) \in 1..NumDevices
           /\ Tail(todo) \in Seq(Nat)
           /\ Append(lines, Head(todo)) \in Seq(Nat)
           /\ Len(Append(lines, Head(todo))) = Len(lines) + 1
           /\ Len(Tail(todo)) = Len(todo) - 1
           /\ Len(Append(lines, Head(todo))) + Len(Tail(todo)) = NumDevices
           /\ \A i \in 1..(Len(lines) + 1) : Append(lines, Head(todo))[i] = i
           /\ \A i \in 1..(Len(todo) - 1) : Tail(todo)[i] = Len(lines) + 1 + i
<1>1. Len(lines) \in Nat /\ Len(todo) \in Nat /\ Len(todo) > 0 /\ NumDevices \in Nat
  BY NutAssumption
<1>2. Head(todo) = Len(lines) + 1
  BY <1>1
<1>3. Head(todo) \in 1..NumDevices /\ Head(todo) \in Nat
  BY <1>1, <1>2
<1>4. Tail(todo) \in Seq(Nat) /\ Len(Tail(todo)) = Len(todo) - 1
  BY <1>1
<1>5. /\ Append(lines, Head(todo)) \in Seq(Nat)
      /\ Len(Append(lines, Head(todo))) = Len(lines) + 1
  BY <1>1, <1>3
<1>6. ASSUME NEW i \in 1..(Len(lines) + 1) PROVE Append(lines, Head(todo))[i] = i
  BY <1>1, <1>2, <1>3, <1>6
<1>7. ASSUME NEW i \in 1..(Len(todo) - 1) PROVE Tail(todo)[i] = Len(lines) + 1 + i
  <2>1. Tail(todo)[i] = todo[i + 1] /\ i + 1 \in 1..Len(todo)
    BY <1>1, <1>4, <1>7
  <2>2. todo[i + 1] = Len(lines) + (i + 1)
    BY <2>1
  <2>3. QED
    BY <1>1, <1>7, <2>1, <2>2
<1>8. Len(Append(lines, Head(todo))) + Len(Tail(todo)) = NumDevices
  <2>1. ASSUME NEW a \in Nat, NEW b \in Nat PROVE (a + 1) + (b - 1) = a + b
    BY <2>1
  <2>2. (Len(lines) + 1) + (Len(todo) - 1) = NumDevices
    BY <1>1, <2>1, Zenon
  <2>3. QED
    BY <1>4, <1>5, <2>2, Zenon
<1>9. QED
  BY <1>2, <1>3, <1>4, <1>5, <1>6, <1>7, <1>8

\* What a client does, and what its handler answers, keeps the invariant.
LEMMA ServeStep ==
    ASSUME IInv, NEW c \in Clients, Serve(c), main = "serve",
           UNCHANGED <<main, at, code>>
    PROVE  IInv'
<1> DEFINE q == conn[c]
<1>1. q \in Connection /\ conn \in [Clients -> Connection] /\ NumDevices \in Nat
  BY NutAssumption DEF IInv, TypeOK
<1>2. ListProgress(q) /\ AuthEarned(q)
  BY DEF IInv
<1>3. <<>> \in Seq(Nat) /\ Len(<<>>) = 0
  OBVIOUS
<1>4. CASE Accept(c)
  <2> DEFINE r == [Closed EXCEPT !.at = "idle", !.authed = ~auth.username /\ ~auth.password]
  <2>1. (~auth.username /\ ~auth.password) \in BOOLEAN
    BY Zenon
  <2>2. r \in Connection /\ ListProgress(r)
    BY <1>3, <2>1 DEF Connection, Closed, ListProgress
  <2>3. AuthEarned(r)
    BY DEF Closed, AuthEarned
  <2>4. QED
    BY <1>4, <2>2, <2>3, HandlerStep DEF Accept, srvVars
<1>5. CASE Password(c)
  <2>1. PICK p \in {FALSE, auth.password} :
          Handle(c, [conn[c] EXCEPT !.sent   = @ \/ p,
                                    !.authed = @ \/ ~auth.password \/ p])
    BY <1>5 DEF Password
  <2> DEFINE b == q.authed \/ ~auth.password \/ p
             s == q.sent \/ p
             r == [q EXCEPT !.sent = s, !.authed = b]
  <2>2. b \in BOOLEAN /\ s \in BOOLEAN
    BY Zenon
  <2>3. r.authed = b /\ r.sent = s
    BY <1>1 DEF Connection
  <2>4. auth.password /\ b => s
    BY <1>2, Zenon DEF AuthEarned
  <2>5. q.at = "idle" /\ r.at = "idle"
    BY <1>1, <2>1 DEF Handle, Connection
  <2>6. AuthEarned(r)
    BY <2>3, <2>4, <2>5, Zenon DEF AuthEarned
  <2>7. ListProgress(r)
    BY <2>5 DEF ListProgress
  <2>8. r \in Connection
    BY <1>1, <2>2 DEF Connection
  <2>9. conn' = [conn EXCEPT ![c] = r] /\ UNCHANGED <<auth, ups, listener, srv, failure, ctxDone>>
    BY <1>1, <2>1 DEF Handle, srvVars
  <2> HIDE DEF r
  <2>10. QED
    BY <2>6, <2>7, <2>8, <2>9, HandlerStep
<1>6. CASE Control(c)
  <2> DEFINE r == [q EXCEPT !.at = "granted"]
  <2>1. r \in Connection /\ ListProgress(r) /\ AuthEarned(r)
    BY <1>1, <1>2, <1>6 DEF Control, Connection, ListProgress, AuthEarned
  <2>2. QED
    BY <1>6, <2>1, HandlerStep DEF Control, Handle, srvVars
<1>7. CASE ListUPS(c)
  <2> DEFINE r == [q EXCEPT !.at = "list", !.todo = Names, !.lines = <<>>]
  <2>1. Names = [i \in Devices |-> i]
    BY NamesSorted DEF IInv, StoreFilled
  <2>2. Names \in Seq(Nat) /\ Len(Names) = NumDevices /\ \A i \in 1..NumDevices : Names[i] = i
    BY <1>1, <2>1 DEF Devices
  <2>3. r \in Connection /\ AuthEarned(r)
    BY <1>1, <1>2, <1>3, <2>2 DEF Connection, AuthEarned
  <2>4. r.at = "list" /\ r.todo = Names /\ r.lines = <<>>
    BY <1>1 DEF Connection
  <2>5. ListProgress(r)
    BY <1>1, <1>3, <2>2, <2>4 DEF ListProgress
  <2>6. QED
    BY <1>7, <2>3, <2>5, HandlerStep DEF ListUPS, Handle, srvVars
<1>8. CASE ListNext(c)
  <2>1. /\ q.todo \in Seq(Nat) /\ q.lines \in Seq(Nat) /\ q.at = "list"
        /\ Len(q.lines) + Len(q.todo) = NumDevices
        /\ \A i \in 1..Len(q.lines) : q.lines[i] = i
        /\ \A i \in 1..Len(q.todo) : q.todo[i] = Len(q.lines) + i
    BY <1>1, <1>2, <1>8 DEF ListNext, Connection, ListProgress
  <2>2. CASE q.todo = <<>>
    <3> DEFINE r == [q EXCEPT !.at = "listed"]
    <3>1. r \in Connection /\ AuthEarned(r) /\ r.at = "listed" /\ r.lines = q.lines
      BY <1>1, <1>2, <2>1 DEF Connection, AuthEarned
    <3>2. Len(q.lines) = NumDevices
      BY <1>1, <1>3, <2>1, <2>2
    <3>3. ListProgress(r)
      BY <2>1, <3>1, <3>2 DEF ListProgress
    <3>4. QED
      BY <1>8, <2>2, <3>1, <3>3, HandlerStep DEF ListNext, srvVars
  <2>3. CASE q.todo # <<>>
    <3>1. /\ Head(q.todo) = Len(q.lines) + 1
          /\ Head(q.todo) \in 1..NumDevices
          /\ Tail(q.todo) \in Seq(Nat)
          /\ Append(q.lines, Head(q.todo)) \in Seq(Nat)
          /\ Len(Append(q.lines, Head(q.todo))) = Len(q.lines) + 1
          /\ Len(Tail(q.todo)) = Len(q.todo) - 1
          /\ Len(Append(q.lines, Head(q.todo))) + Len(Tail(q.todo)) = NumDevices
          /\ \A i \in 1..(Len(q.lines) + 1) : Append(q.lines, Head(q.todo))[i] = i
          /\ \A i \in 1..(Len(q.todo) - 1) : Tail(q.todo)[i] = Len(q.lines) + 1 + i
      BY <1>1, <2>1, <2>3, ListMoves
    <3>2. Head(q.todo) \in DOMAIN ups
      BY <3>1 DEF IInv, StoreFilled, Devices
    <3> DEFINE r == [q EXCEPT !.todo = Tail(q.todo), !.lines = Append(q.lines, Head(q.todo))]
    <3>3. UNCHANGED <<auth, ups, listener, srv, failure, ctxDone>>
      BY <1>8 DEF ListNext, srvVars
    <3>4. conn' = [conn EXCEPT ![c] =
                     [q EXCEPT !.todo  = Tail(q.todo),
                               !.lines = Append(q.lines,
                                                IF Head(q.todo) \in DOMAIN ups
                                                THEN Head(q.todo) ELSE 0)]]
      BY <1>8, <2>3 DEF ListNext
    <3>5. conn' = [conn EXCEPT ![c] = r]
      BY <3>2, <3>4, Zenon
    <3>6. r \in Connection
      BY <1>1, <3>1 DEF Connection
    <3>7. r.todo = Tail(q.todo) /\ r.lines = Append(q.lines, Head(q.todo)) /\ r.at = "list"
      BY <1>1, <2>1 DEF Connection
    <3>8. Len(r.lines) + Len(r.todo) = NumDevices
      BY <3>1, <3>7, Zenon
    <3>9. ListProgress(r)
      BY <3>1, <3>7, <3>8 DEF ListProgress
    <3>10. AuthEarned(r)
      BY <1>1, <1>2, <2>1 DEF AuthEarned, Connection
    <3> HIDE DEF r
    <3>11. QED
      BY <3>3, <3>5, <3>6, <3>9, <3>10, HandlerStep
  <2>4. QED
    BY <2>2, <2>3
<1>9. CASE Read(c)
  <2> DEFINE r == [q EXCEPT !.at = "idle", !.lines = <<>>]
  <2>1. r \in Connection /\ ListProgress(r) /\ AuthEarned(r)
    BY <1>1, <1>2, <1>3 DEF Connection, ListProgress, AuthEarned
  <2>2. conn' = [conn EXCEPT ![c] = r]
    BY <1>1, <1>9 DEF Read, Connection
  <2>3. QED
    BY <1>9, <2>1, <2>2, HandlerStep DEF Read, srvVars
<1>10. CASE Quit(c)
  <2>1. Closed \in Connection /\ ListProgress(Closed) /\ AuthEarned(Closed)
    BY <1>3 DEF Closed, Connection, ListProgress, AuthEarned
  <2>2. QED
    BY <1>10, <2>1, HandlerStep DEF Quit, Handle, srvVars
<1>11. QED
  BY <1>4, <1>5, <1>6, <1>7, <1>8, <1>9, <1>10 DEF Serve

\* Steps of main, of the NUT server's Run and of the other goroutines keep
\* the parts about the store, the listener and the exit code, and leave every
\* connection alone.
LEMMA ProcessStep ==
    ASSUME IInv, LoadConfig \/ MarkNext \/ RunNut \/ Exit \/ CloseOnDone \/ RunWeb
                   \/ WebStop \/ Signal \/ Collect \/ UNCHANGED vars
    PROVE  /\ TypeOK' /\ StoreFilled' /\ FailureHonest' /\ ExitCodeHonest'
           /\ UNCHANGED <<auth, conn>>
<1>1. UNCHANGED <<auth, conn>>
  BY DEF LoadConfig, MarkNext, RunNut, Listen, AcceptFails, AfterAccept, Exit, CloseOnDone,
         CloseListener, RunWeb, WebStop, Signal, Collect, vars, nutVars
<1>2. ctxDone' \in BOOLEAN /\ (ctxDone => ctxDone')
  BY Zenon DEF IInv, TypeOK, LoadConfig, MarkNext, RunNut, Listen, AcceptFails, AfterAccept,
         Exit, CloseOnDone, CloseListener, RunWeb, WebStop, Signal, Collect, vars, nutVars
<1>3. at' \in 1..(NumDevices + 1)
  BY NutAssumption
  DEF IInv, TypeOK, Devices, LoadConfig, MarkNext, RunNut, Exit, CloseOnDone, RunWeb,
      WebStop, Signal, Collect, vars, mainVars
<1>4. StoreFilled'
  <2>1. CASE MarkNext
    BY <2>1, NutAssumption DEF MarkNext, IInv, TypeOK, StoreFilled, Devices
  <2>2. CASE Collect
    <3>1. DOMAIN ups' = DOMAIN ups
      BY <2>2 DEF Collect, Collector!Start, Collector!Publish, Collector!Mark, Collector!Stop
    <3>2. QED
      BY <2>2, <3>1 DEF Collect, mainVars, IInv, StoreFilled
  <2>3. CASE UNCHANGED <<ups, at>> /\ main' \in {main, "exited"}
    BY <2>3 DEF IInv, StoreFilled
  <2>4. CASE LoadConfig
    BY <2>4 DEF LoadConfig, IInv, StoreFilled
  <2>5. QED
    BY <2>1, <2>2, <2>3, <2>4
    DEF RunNut, Listen, AcceptFails, AfterAccept, Exit, CloseOnDone, CloseListener, RunWeb,
        WebStop, Signal, vars, nutVars, mainVars
<1>5. FailureHonest' /\ ExitCodeHonest'
  <2> USE DEF FailureHonest, ExitCodeHonest
  <2>1. CASE LoadConfig
    BY <2>1 DEF LoadConfig, IInv
  <2>2. CASE RunNut
    BY <2>2 DEF RunNut, Listen, AcceptFails, AfterAccept, mainVars, IInv
  <2>3. CASE Exit
    BY <2>3 DEF Exit, nutVars, IInv
  <2>4. CASE CloseOnDone
    BY <2>4 DEF CloseOnDone, Alive, CloseListener, mainVars, IInv
  <2>5. CASE UNCHANGED <<listener, srv, failure, code>>
             /\ main # "exited" /\ main' \in {main, "serve"}
    BY <1>2, <2>5 DEF IInv
  <2>6. CASE UNCHANGED vars
    BY <2>6 DEF vars, IInv
  <2>7. QED
    BY <2>1, <2>2, <2>3, <2>4, <2>5, <2>6
    DEF MarkNext, RunWeb, WebStop, Signal, Collect, Alive, nutVars, srvVars, mainVars
<1>6. QED
  BY <1>1, <1>2, <1>3, <1>4, <1>5 DEF IInv, TypeOK

\* Every step keeps the invariant.
LEMMA StepIInv == IInv /\ [Next]_vars => IInv'
<1> SUFFICES ASSUME IInv, [Next]_vars PROVE IInv'
  OBVIOUS
<1>1. CASE Nut
  <2>1. PICK c \in Clients : Serve(c)
    BY <1>1 DEF Nut
  <2>2. QED
    BY <1>1, <2>1, ServeStep DEF Nut, Alive, mainVars
<1>2. CASE LoadConfig \/ MarkNext \/ RunNut \/ Exit \/ CloseOnDone \/ RunWeb
             \/ WebStop \/ Signal \/ Collect \/ UNCHANGED vars
  <2>1. /\ TypeOK' /\ StoreFilled' /\ FailureHonest' /\ ExitCodeHonest'
        /\ UNCHANGED <<auth, conn>>
    BY <1>2, ProcessStep
  <2>2. \A c \in Clients : ListProgress(conn[c])' /\ AuthEarned(conn[c])'
    BY <2>1 DEF IInv, ListProgress, AuthEarned
  <2>3. QED
    BY <2>1, <2>2 DEF IInv
<1>3. QED
  BY <1>1, <1>2 DEF Next, Main

\* The invariant holds in every reachable state.
THEOREM Invariance == Spec => []IInv
<1>1. QED
  BY InitIInv, StepIInv, PTL DEF Spec

\* Every answer to LIST UPS names all devices once and in order, for any
\* number of devices and however many clients list while the store is written.
THEOREM ListSafe == Spec => []ListComplete
<1>1. IInv => ListComplete
  <2> SUFFICES ASSUME IInv, NEW c \in Clients, conn[c].at = "listed"
               PROVE  conn[c].lines = [d \in Devices |-> d]
    BY DEF ListComplete
  <2>1. conn[c].lines \in Seq(Nat)
    BY DEF IInv, TypeOK, Connection
  <2>2. Len(conn[c].lines) = NumDevices /\ \A i \in 1..Len(conn[c].lines) : conn[c].lines[i] = i
    BY DEF IInv, ListProgress
  <2>3. QED
    BY <2>1, <2>2 DEF Devices
<1>2. QED
  BY Invariance, <1>1, PTL

\* With a password configured, no connection is granted a control command by
\* what another one has sent, or without having sent the password itself.
THEOREM ControlSafe == Spec => []ControlNeedsPassword
<1>1. IInv => ControlNeedsPassword
  BY DEF IInv, AuthEarned, ControlNeedsPassword
<1>2. QED
  BY Invariance, <1>1, PTL

\* The exit code tells a failure from a shutdown, whenever it comes.
THEOREM ExitSafe == Spec => []ExitCodeHonest
<1>1. IInv => ExitCodeHonest
  BY DEF IInv
<1>2. QED
  BY Invariance, <1>1, PTL
=============================================================================
