-------------------------- MODULE TransportProofs --------------------------
(***************************************************************************)
(* Proofs about Transport, for any set of attempts.                        *)
(***************************************************************************)
EXTENDS Transport, TLAPS

\* How far the dial goroutine of an attempt can be, by where the session is.
DialPlace ==
    \A a \in Attempts :
        /\ caller[a] \in {"idle", "find", "found", "notFound"} => dial[a] = "none"
        /\ caller[a] \in {"open", "closed"} => dial[a] = "done"

\* A queued discovery belongs to a scan that has called back.
MatchPlace ==
    \A a \in Attempts : caller[a] = "notFound" => scan[a] = "none" /\ ~matched[a]

\* The inductive invariant.
IInv == TypeOK /\ DialPlace /\ OneOwner /\ MatchPlace

\* Before any attempt there is no goroutine and no connection.
LEMMA InitIInv == Init => IInv
<1> SUFFICES ASSUME Init PROVE IInv
  OBVIOUS
<1>1. TypeOK
  BY DEF Init, TypeOK
<1>2. DialPlace
  BY DEF Init, DialPlace
<1>3. OneOwner
  BY DEF Init, OneOwner, Dialing
<1>4. MatchPlace
  BY DEF Init, MatchPlace
<1>5. QED
  BY <1>1, <1>2, <1>3, <1>4 DEF IInv

\* Every step of a session, of a goroutine or of the environment keeps the
\* invariant.
LEMMA StepIInv == IInv /\ [Next]_vars => IInv'
<1> SUFFICES ASSUME IInv, [Next]_vars PROVE IInv'
  OBVIOUS
<1> USE DEF IInv, TypeOK, DialPlace, OneOwner, Dialing, MatchPlace, At
<1>1. ASSUME NEW a \in Attempts, BeginFind(a) PROVE IInv'
  BY <1>1 DEF BeginFind
<1>2. ASSUME NEW a \in Attempts, FindMatch(a) PROVE IInv'
  BY <1>2 DEF FindMatch
<1>3. ASSUME NEW a \in Attempts, FindScanEnded(a) PROVE IInv'
  <2>1. TypeOK'
    <3>1. /\ scan' = [scan EXCEPT ![a] = "none"]
          /\ UNCHANGED <<dial, conn, expired, ctxDone>>
      BY <1>3 DEF FindScanEnded
    <3>2. \/ caller' = [caller EXCEPT ![a] = "found"]
          \/ caller' = [caller EXCEPT ![a] = "notFound"]
      BY <1>3 DEF FindScanEnded
    <3>3. matched' = [matched EXCEPT ![a] = FALSE] \/ matched' = matched
      BY <1>3 DEF FindScanEnded
    <3>4. QED
      BY <3>1, <3>2, <3>3
  <2>2. DialPlace' /\ OneOwner'
    BY <1>3 DEF FindScanEnded
  <2>3. MatchPlace'
    BY <1>3 DEF FindScanEnded
  <2>4. QED
    BY <2>1, <2>2, <2>3
<1>4. ASSUME NEW a \in Attempts, FindGiveUp(a) PROVE IInv'
  BY <1>4 DEF FindGiveUp, StopScan
<1>5. ASSUME NEW a \in Attempts, BeginConnect(a) PROVE IInv'
  BY <1>5 DEF BeginConnect
<1>6. ASSUME NEW a \in Attempts, ConnectGiveUp(a) PROVE IInv'
  BY <1>6 DEF ConnectGiveUp
<1>7. ASSUME NEW a \in Attempts, Close(a) PROVE IInv'
  BY <1>7 DEF Close
<1>8. ASSUME NEW a \in Attempts, ScanStart(a) PROVE IInv'
  BY <1>8 DEF ScanStart
<1>9. ASSUME NEW a \in Attempts, ScanStop(a) PROVE IInv'
  BY <1>9 DEF ScanStop
<1>10. ASSUME NEW a \in Attempts, ScanMatch(a) PROVE IInv'
  BY <1>10 DEF ScanMatch
<1>11. ASSUME NEW a \in Attempts, adapterConnect(a) PROVE IInv'
  BY <1>11 DEF adapterConnect
<1>12. ASSUME NEW a \in Attempts, Handoff(a) PROVE IInv'
  BY <1>12 DEF Handoff
<1>13. ASSUME NEW a \in Attempts, DialAbandoned(a) PROVE IInv'
  BY <1>13 DEF DialAbandoned
<1>14. ASSUME NEW a \in Attempts, Expire(a) PROVE IInv'
  BY <1>14 DEF Expire
<1>15. CASE Cancel
  BY <1>15 DEF Cancel
<1>16. CASE UNCHANGED vars
  BY <1>16 DEF vars
<1>17. ASSUME NEW a \in Attempts, newTinygoConnection(a) PROVE IInv'
  BY <1>17 DEF newTinygoConnection
<1>18. QED
  BY <1>1, <1>2, <1>3, <1>4, <1>5, <1>6, <1>7, <1>8, <1>9, <1>10, <1>11,
     <1>12, <1>13, <1>14, <1>15, <1>16, <1>17 DEF Next, CallerStep, ScanStep, DialStep

\* The invariant holds in every reachable state.
THEOREM Invariance == Spec => []IInv
  BY InitIInv, StepIInv, PTL DEF Spec

\* The unbuffered handoff leaves one owner of every open connection, and the
\* steps of session and goroutines keep their types.
THEOREM OwnerSafe == Spec => [](TypeOK /\ OneOwner)
<1>1. IInv => TypeOK /\ OneOwner
  BY DEF IInv
<1>2. QED
  BY Invariance, <1>1, PTL

\* FindByMAC never reports a discovered device as missing.
THEOREM FoundSafe == Spec => []FoundIsReported
<1>1. IInv => FoundIsReported
  BY DEF IInv, MatchPlace, FoundIsReported
<1>2. QED
  BY Invariance, <1>1, PTL
=============================================================================
