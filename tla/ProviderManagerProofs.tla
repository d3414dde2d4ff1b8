----------------------- MODULE ProviderManagerProofs -----------------------
(***************************************************************************)
(* Proofs about ProviderManager, for every number of devices and every set *)
(* of concurrent callers.                                                  *)
(***************************************************************************)
EXTENDS ProviderManager, TLAPS

Held == \E c \in Callers : call[c].holds = "current"

\* Where the provider goroutine is, relative to Run.
RunnerPlace ==
    /\ runner # "none" => pc = "active"
    /\ pc = "active" => runner # "none" /\ runCancel
    /\ Held => pc = "active"
    /\ \A c \in Callers : call[c].at \in {"idle", "signal"} => call[c].holds = "none"

\* A run whose Running flag was cleared while it lasts was cleared by a
\* Disable: the cancellation has happened or is in a caller's hands.  Unlike
\* CancelNeverLost this does not mention enabled, which Enable may have set
\* again.
CancelInHand == pc = "active" /\ ~running => RunCtxDone \/ Held

\* The inductive invariant.
IInv == /\ TypeOK
        /\ RunnerPlace
        /\ RunningIsHonest
        /\ CancelInHand
        /\ StatusCoherent
        /\ IdleShowsWait
        /\ NoLostWake

\* What the callers' records are made of.
LEMMA CallRecords ==
    /\ 1 \in Marks /\ Devices \subseteq Marks /\ NumDevices + 1 \in Marks
    /\ \A m \in Devices : m + 1 \in Marks
    /\ \A a \in {"idle", "mark", "cancel", "signal"} :
         [NoCall EXCEPT !.at = a] \in Call
    /\ NoCall \in Call
    /\ \A h \in {"none", "current", "spent"} :
         [at |-> "mark", mark |-> 1, holds |-> h] \in Call
<1>1. /\ 1 \in Marks /\ Devices \subseteq Marks /\ NumDevices + 1 \in Marks
      /\ \A m \in Devices : m + 1 \in Marks
  BY NumDevicesAssumption DEF Marks, Devices
<1>2. QED
  BY <1>1 DEF NoCall, Call

\* The initial state, built by NewProviderManager, satisfies the invariant.
LEMMA InitIInv == Init => IInv
<1> SUFFICES ASSUME Init PROVE IInv
  OBVIOUS
<1>1. TypeOK
  BY CallRecords DEF Init, TypeOK
<1>2. RunnerPlace /\ RunningIsHonest /\ CancelInHand /\ NoLostWake
  BY DEF Init, RunnerPlace, Held, RunningIsHonest, CancelInHand, NoLostWake, NoCall
<1>3. StatusCoherent /\ IdleShowsWait
  BY DEF Init, StatusCoherent, IdleShowsWait, AllWait
<1>4. QED
  BY <1>1, <1>2, <1>3 DEF IInv

\* Every step of Run, of a caller, of the provider and of the environment
\* keeps the types.
LEMMA TypeStep == TypeOK /\ [Next]_vars => TypeOK'
<1> SUFFICES ASSUME TypeOK, [Next]_vars PROVE TypeOK'
  OBVIOUS
<1> USE CallRecords DEF TypeOK, statusVars, runVars
<1>0. CASE setStopped
  BY <1>0 DEF setStopped
<1>1. CASE LoopTop
  BY <1>0, <1>1 DEF LoopTop
<1>2. CASE isEnabled
  BY <1>2 DEF isEnabled
<1>20. CASE TakeWake
  BY <1>20 DEF TakeWake
<1>3. CASE WaitDisabled
  BY <1>0, <1>3, <1>20 DEF WaitDisabled
<1>4. CASE WaitRetry
  BY <1>0, <1>4, <1>20 DEF WaitRetry
<1>5. CASE RunActiveStart
  BY <1>5 DEF RunActiveStart
<1>6. CASE RunActiveEnd
  BY <1>6 DEF RunActiveEnd, Call
<1>7. CASE AfterRun
  BY <1>0, <1>7 DEF AfterRun
<1>8. CASE RunMark
  BY <1>8 DEF RunMark
<1>9. CASE setRetrying
  BY <1>9 DEF setRetrying
<1>10. ASSUME NEW c \in Callers, Enable(c) PROVE TypeOK'
  BY <1>10 DEF Enable
<1>11. ASSUME NEW c \in Callers, Disable(c) PROVE TypeOK'
  <2> DEFINE new == [at |-> "mark", mark |-> 1,
                     holds |-> IF running /\ runCancel THEN "current" ELSE "none"]
  <2>1. new \in Call
    OBVIOUS
  <2>2. call' = [call EXCEPT ![c] = new]
    BY <1>11 DEF Disable
  <2>3. call' \in [Callers -> Call]
    BY <2>1, <2>2
  <2>4. enabled' \in BOOLEAN /\ running' \in BOOLEAN
    BY <1>11 DEF Disable
  <2>5. state' = "stopping" \/ state' = "disabled"
    BY <1>11 DEF Disable
  <2>6. UNCHANGED <<lastError, runVars, wake, pc, mark, store, ctxDone>>
    BY <1>11 DEF Disable
  <2> HIDE DEF new
  <2>7. QED
    BY <2>3, <2>4, <2>5, <2>6
<1>12. ASSUME NEW c \in Callers, DisableMark(c) PROVE TypeOK'
  BY <1>12 DEF DisableMark, Call
<1>13. ASSUME NEW c \in Callers, DisableCancel(c) PROVE TypeOK'
  BY <1>13 DEF DisableCancel
<1>14. ASSUME NEW c \in Callers, signalWake(c) PROVE TypeOK'
  BY <1>14 DEF signalWake
<1>15. CASE RunnerPublish
  BY <1>15 DEF RunnerPublish, Runner!Publish
<1>16. CASE RunnerReturn
  BY <1>16 DEF RunnerReturn, Runner!Return
<1>17. CASE Shutdown
  BY <1>17 DEF Shutdown
<1>18. CASE UNCHANGED vars
  BY <1>18 DEF vars
<1>19. QED
  BY <1>1, <1>2, <1>3, <1>4, <1>5, <1>6, <1>7, <1>8, <1>9, <1>10, <1>11,
     <1>12, <1>13, <1>14, <1>15, <1>16, <1>17, <1>18 DEF Next, Run, Caller

\* Whether a cancel function of the current run is held, after the record of
\* one caller was replaced.
LEMMA HeldUpdate ==
    ASSUME TypeOK, NEW c \in Callers, NEW r, call' = [call EXCEPT ![c] = r]
    PROVE  Held' <=> \/ r.holds = "current"
                     \/ \E o \in Callers \ {c} : call[o].holds = "current"
  BY DEF TypeOK, Held

\* The parts of the inductive invariant that go beyond types.
Parts == /\ RunnerPlace /\ RunningIsHonest /\ CancelInHand
         /\ StatusCoherent /\ IdleShowsWait /\ NoLostWake

\* Every step keeps them.
LEMMA PartsStep == IInv /\ [Next]_vars => Parts'
<1> SUFFICES ASSUME IInv, [Next]_vars PROVE Parts'
  OBVIOUS
<1> USE NumDevicesAssumption DEF IInv, TypeOK, statusVars, runVars
<1>1. CASE LoopTop
  <2>1. RunnerPlace' /\ RunningIsHonest' /\ CancelInHand'
    BY <1>1 DEF LoopTop, setStopped, RunnerPlace, Held, RunningIsHonest, CancelInHand, RunCtxDone
  <2>2. StatusCoherent' /\ IdleShowsWait' /\ NoLostWake'
    BY <1>1 DEF LoopTop, setStopped, RunnerPlace, RunningIsHonest, StatusCoherent, IdleShowsWait, AllWait, Devices, NoLostWake
  <2>3. QED
    BY <2>1, <2>2 DEF Parts
<1>2. CASE isEnabled
  <2>1. RunnerPlace' /\ RunningIsHonest' /\ CancelInHand'
    BY <1>2 DEF isEnabled, RunnerPlace, Held, RunningIsHonest, CancelInHand, RunCtxDone
  <2>2. StatusCoherent' /\ IdleShowsWait' /\ NoLostWake'
    BY <1>2 DEF isEnabled, RunnerPlace, RunningIsHonest, StatusCoherent, IdleShowsWait, AllWait, Devices, NoLostWake
  <2>3. QED
    BY <2>1, <2>2 DEF Parts
<1>3. CASE WaitDisabled
  <2>1. RunnerPlace' /\ RunningIsHonest' /\ CancelInHand'
    BY <1>3 DEF WaitDisabled, setStopped, TakeWake, RunnerPlace, Held, RunningIsHonest, CancelInHand, RunCtxDone
  <2>2. StatusCoherent' /\ IdleShowsWait' /\ NoLostWake'
    BY <1>3 DEF WaitDisabled, setStopped, TakeWake, RunnerPlace, RunningIsHonest, StatusCoherent, IdleShowsWait, AllWait, Devices, NoLostWake
  <2>3. QED
    BY <2>1, <2>2 DEF Parts
<1>4. CASE WaitRetry
  <2>1. RunnerPlace' /\ RunningIsHonest' /\ CancelInHand'
    BY <1>4 DEF WaitRetry, setStopped, TakeWake, RunnerPlace, Held, RunningIsHonest, CancelInHand, RunCtxDone
  <2>2. StatusCoherent' /\ IdleShowsWait' /\ NoLostWake'
    BY <1>4 DEF WaitRetry, setStopped, TakeWake, RunnerPlace, RunningIsHonest, StatusCoherent, IdleShowsWait, AllWait, Devices, NoLostWake
  <2>3. QED
    BY <2>1, <2>2 DEF Parts
<1>5. CASE RunActiveStart
  <2>1. RunnerPlace' /\ RunningIsHonest' /\ CancelInHand'
    BY <1>5 DEF RunActiveStart, RunnerPlace, Held, RunningIsHonest, CancelInHand, RunCtxDone
  <2>2. StatusCoherent' /\ IdleShowsWait' /\ NoLostWake'
    BY <1>5 DEF RunActiveStart, RunnerPlace, RunningIsHonest, StatusCoherent, IdleShowsWait, AllWait, Devices, NoLostWake
  <2>3. QED
    BY <2>1, <2>2 DEF Parts
<1>6. CASE RunActiveEnd
  <2>1. RunnerPlace' /\ RunningIsHonest' /\ CancelInHand'
    BY <1>6 DEF RunActiveEnd, RunnerPlace, Held, RunningIsHonest, CancelInHand, RunCtxDone
  <2>2. StatusCoherent' /\ IdleShowsWait' /\ NoLostWake'
    BY <1>6 DEF RunActiveEnd, RunnerPlace, RunningIsHonest, StatusCoherent, IdleShowsWait, AllWait, Devices, NoLostWake
  <2>3. QED
    BY <2>1, <2>2 DEF Parts
<1>7. CASE AfterRun
  <2>1. RunnerPlace' /\ RunningIsHonest' /\ CancelInHand'
    BY <1>7 DEF AfterRun, setStopped, RunnerPlace, Held, RunningIsHonest, CancelInHand, RunCtxDone
  <2>2. StatusCoherent' /\ IdleShowsWait' /\ NoLostWake'
    BY <1>7 DEF AfterRun, setStopped, RunnerPlace, RunningIsHonest, StatusCoherent, IdleShowsWait, AllWait, Devices, NoLostWake
  <2>3. QED
    BY <2>1, <2>2 DEF Parts
<1>8. CASE RunMark
  <2>1. RunnerPlace' /\ RunningIsHonest' /\ CancelInHand'
    BY <1>8 DEF RunMark, RunnerPlace, Held, RunningIsHonest, CancelInHand, RunCtxDone
  <2>2. StatusCoherent' /\ IdleShowsWait' /\ NoLostWake'
    BY <1>8 DEF RunMark, RunnerPlace, RunningIsHonest, StatusCoherent, IdleShowsWait, AllWait, Devices, NoLostWake
  <2>3. QED
    BY <2>1, <2>2 DEF Parts
<1>9. CASE setRetrying
  <2>1. RunnerPlace' /\ RunningIsHonest' /\ CancelInHand'
    BY <1>9 DEF setRetrying, RunnerPlace, Held, RunningIsHonest, CancelInHand, RunCtxDone
  <2>2. StatusCoherent' /\ IdleShowsWait' /\ NoLostWake'
    BY <1>9 DEF setRetrying, RunnerPlace, RunningIsHonest, StatusCoherent, IdleShowsWait, AllWait, Devices, NoLostWake
  <2>3. QED
    BY <2>1, <2>2 DEF Parts
<1>10. ASSUME NEW c \in Callers, Enable(c) PROVE Parts'
  <2> DEFINE new == [NoCall EXCEPT !.at = "signal"]
  <2>0. call' = [call EXCEPT ![c] = new]
    BY <1>10 DEF Enable, NoCall
  <2>1. Held' <=> new.holds = "current" \/ \E o \in Callers \ {c} : call[o].holds = "current"
    <3> HIDE DEF new
    <3>1. QED
      BY <2>0, HeldUpdate
  <2>2. RunnerPlace'
    BY <1>10, <2>1 DEF Enable, NoCall, RunnerPlace, RunningIsHonest, Held
  <2>3. CancelInHand'
    BY <1>10, <2>1 DEF Enable, NoCall, CancelInHand, RunCtxDone, RunnerPlace, RunningIsHonest, Held
  <2>4. RunningIsHonest'
    BY <1>10 DEF Enable, NoCall, RunningIsHonest, RunnerPlace
  <2>5. StatusCoherent'
    BY <1>10 DEF Enable, NoCall, StatusCoherent, RunningIsHonest
  <2>6. IdleShowsWait'
    BY <1>10 DEF Enable, NoCall, IdleShowsWait, AllWait, RunnerPlace, Devices
  <2>7. NoLostWake'
    BY <1>10 DEF Enable, NoCall, NoLostWake
  <2>8. QED
    BY <2>2, <2>3, <2>4, <2>5, <2>6, <2>7 DEF Parts
<1>11. ASSUME NEW c \in Callers, Disable(c) PROVE Parts'
  <2> DEFINE new == [at |-> "mark", mark |-> 1,
                     holds |-> IF running /\ runCancel THEN "current" ELSE "none"]
  <2>0. call' = [call EXCEPT ![c] = new]
    BY <1>11 DEF Disable
  <2>1. Held' <=> new.holds = "current" \/ \E o \in Callers \ {c} : call[o].holds = "current"
    <3> HIDE DEF new
    <3>1. QED
      BY <2>0, HeldUpdate
  <2>2. RunnerPlace'
    BY <1>11, <2>1 DEF Disable, RunnerPlace, RunningIsHonest, Held
  <2>3. CancelInHand'
    BY <1>11, <2>1 DEF Disable, CancelInHand, RunCtxDone, RunnerPlace, RunningIsHonest, Held
  <2>4. RunningIsHonest'
    BY <1>11 DEF Disable, RunningIsHonest, RunnerPlace
  <2>5. StatusCoherent'
    BY <1>11 DEF Disable, StatusCoherent, RunningIsHonest
  <2>6. IdleShowsWait'
    BY <1>11 DEF Disable, IdleShowsWait, AllWait, RunnerPlace, Devices
  <2>7. NoLostWake'
    BY <1>11 DEF Disable, NoLostWake
  <2>8. QED
    BY <2>2, <2>3, <2>4, <2>5, <2>6, <2>7 DEF Parts
<1>12. ASSUME NEW c \in Callers, DisableMark(c) PROVE Parts'
  <2>0. \A o \in Callers : call'[o].holds = call[o].holds
    BY <1>12 DEF DisableMark, Call
  <2>1. RunnerPlace'
    BY <1>12, <2>0 DEF DisableMark, RunnerPlace, Held, Call
  <2>2. RunningIsHonest'
    BY <1>12 DEF DisableMark, RunningIsHonest, RunnerPlace
  <2>3. CancelInHand'
    BY <1>12, <2>0 DEF DisableMark, CancelInHand, RunCtxDone, Held, RunnerPlace, RunningIsHonest
  <2>4. StatusCoherent'
    BY <1>12 DEF DisableMark, StatusCoherent, RunningIsHonest
  <2>5. IdleShowsWait'
    BY <1>12 DEF DisableMark, IdleShowsWait, AllWait, RunnerPlace, Devices
  <2>6. NoLostWake'
    BY <1>12 DEF DisableMark, NoLostWake
  <2>7. QED
    BY <2>1, <2>2, <2>3, <2>4, <2>5, <2>6 DEF Parts
<1>13. ASSUME NEW c \in Callers, DisableCancel(c) PROVE Parts'
  <2>1. RunnerPlace'
    BY <1>13 DEF DisableCancel, NoCall, RunnerPlace, Held
  <2>2. RunningIsHonest'
    BY <1>13 DEF DisableCancel, NoCall, RunningIsHonest, RunnerPlace
  <2>3. CancelInHand'
    BY <1>13 DEF DisableCancel, NoCall, CancelInHand, RunCtxDone, Held, RunnerPlace, RunningIsHonest
  <2>4. StatusCoherent'
    BY <1>13 DEF DisableCancel, NoCall, StatusCoherent, RunningIsHonest
  <2>5. IdleShowsWait'
    BY <1>13 DEF DisableCancel, NoCall, IdleShowsWait, AllWait, RunnerPlace, Devices
  <2>6. NoLostWake'
    BY <1>13 DEF DisableCancel, NoCall, NoLostWake
  <2>7. QED
    BY <2>1, <2>2, <2>3, <2>4, <2>5, <2>6 DEF Parts
<1>14. ASSUME NEW c \in Callers, signalWake(c) PROVE Parts'
  <2>1. RunnerPlace'
    BY <1>14 DEF signalWake, NoCall, RunnerPlace, Held
  <2>2. RunningIsHonest'
    BY <1>14 DEF signalWake, NoCall, RunningIsHonest, RunnerPlace
  <2>3. CancelInHand'
    BY <1>14 DEF signalWake, NoCall, CancelInHand, RunCtxDone, Held, RunnerPlace, RunningIsHonest
  <2>4. StatusCoherent'
    BY <1>14 DEF signalWake, NoCall, StatusCoherent, RunningIsHonest
  <2>5. IdleShowsWait'
    BY <1>14 DEF signalWake, NoCall, IdleShowsWait, AllWait, RunnerPlace, Devices
  <2>6. NoLostWake'
    BY <1>14 DEF signalWake, NoCall, NoLostWake
  <2>7. QED
    BY <2>1, <2>2, <2>3, <2>4, <2>5, <2>6 DEF Parts
<1>15. CASE RunnerPublish
  <2>1. RunnerPlace' /\ RunningIsHonest' /\ CancelInHand'
    BY <1>15 DEF RunnerPublish, Runner!Publish, RunnerPlace, Held, RunningIsHonest, CancelInHand, RunCtxDone
  <2>2. StatusCoherent' /\ IdleShowsWait' /\ NoLostWake'
    BY <1>15 DEF RunnerPublish, Runner!Publish, RunnerPlace, RunningIsHonest, StatusCoherent, IdleShowsWait, AllWait, Devices, NoLostWake
  <2>3. QED
    BY <2>1, <2>2 DEF Parts
<1>16. CASE RunnerReturn
  <2>1. RunnerPlace' /\ RunningIsHonest' /\ CancelInHand'
    BY <1>16 DEF RunnerReturn, Runner!Return, RunnerPlace, Held, RunningIsHonest, CancelInHand, RunCtxDone
  <2>2. StatusCoherent' /\ IdleShowsWait' /\ NoLostWake'
    BY <1>16 DEF RunnerReturn, Runner!Return, RunnerPlace, RunningIsHonest, StatusCoherent, IdleShowsWait, AllWait, Devices, NoLostWake
  <2>3. QED
    BY <2>1, <2>2 DEF Parts
<1>17. CASE Shutdown
  <2>1. RunnerPlace' /\ RunningIsHonest' /\ CancelInHand'
    BY <1>17 DEF Shutdown, RunnerPlace, Held, RunningIsHonest, CancelInHand, RunCtxDone
  <2>2. StatusCoherent' /\ IdleShowsWait' /\ NoLostWake'
    BY <1>17 DEF Shutdown, RunnerPlace, RunningIsHonest, StatusCoherent, IdleShowsWait, AllWait, Devices, NoLostWake
  <2>3. QED
    BY <2>1, <2>2 DEF Parts
<1>18. CASE UNCHANGED vars
  BY <1>18 DEF vars, Parts, AllWait, CancelInHand, Devices, Held, IdleShowsWait, NoLostWake, RunCtxDone, RunnerPlace, RunningIsHonest, StatusCoherent
<1>19. QED
  BY <1>1, <1>2, <1>3, <1>4, <1>5, <1>6, <1>7, <1>8, <1>9, <1>10, <1>11, <1>12, <1>13, <1>14, <1>15, <1>16, <1>17, <1>18 DEF Next, Run, Caller

\* The invariant holds in every reachable state.
THEOREM Invariance == Spec => []IInv
<1>1. IInv /\ [Next]_vars => IInv'
  BY TypeStep, PartsStep DEF IInv, Parts
<1>2. QED
  BY InitIInv, <1>1, PTL DEF Spec

\* Type correctness of the manager's status, goroutines and store.
THEOREM TypeCorrect == Spec => []TypeOK
<1>1. IInv => TypeOK
  BY DEF IInv
<1>2. QED
  BY Invariance, <1>1, PTL

\* However Enable and Disable overlap with each other and with a run that is
\* starting or ending, no cancellation is lost: a provider that runs although
\* the collector is disabled has been or will be cancelled.
THEOREM CancelSafe == Spec => []CancelNeverLost
<1>1. IInv => CancelNeverLost
  BY DEF IInv, TypeOK, RunnerPlace, RunningIsHonest, CancelInHand, Held,
         CancelNeverLost
<1>2. QED
  BY Invariance, <1>1, PTL

\* Status.Running says what the goroutines really do.
THEOREM StatusSafe == Spec => []RunningIsHonest
<1>1. IInv => RunningIsHonest
  BY DEF IInv
<1>2. QED
  BY Invariance, <1>1, PTL

\* Enabled and State agree whenever the lock is free, for any number of
\* overlapping requests.
THEOREM CoherentSafe == Spec => []StatusCoherent
<1>1. IInv => StatusCoherent
  BY DEF IInv
<1>2. QED
  BY Invariance, <1>1, PTL

\* Between two providers every device is served as WAIT.
THEOREM WaitSafe == Spec => []IdleShowsWait
<1>1. IInv => IdleShowsWait
  BY DEF IInv
<1>2. QED
  BY Invariance, <1>1, PTL

\* Run never sleeps through an Enable.
THEOREM WakeSafe == Spec => []NoLostWake
<1>1. IInv => NoLostWake
  BY DEF IInv
<1>2. QED
  BY Invariance, <1>1, PTL

\* A step of the manager is a step of a collector or changes neither the
\* store nor whether a provider runs.  Only the start of a provider needs the
\* invariant: RunActiveStart comes from a place where IdleShowsWait holds.
LEMMA CollectorStep ==
    IInv /\ [Next]_vars => [Collector!Next]_(Collector!vars)
<1> SUFFICES ASSUME IInv, [Next]_vars PROVE [Collector!Next]_(Collector!vars)
  OBVIOUS
<1> USE DEF Collector!vars, statusVars, runVars
<1>0. CASE setStopped \/ TakeWake
  BY <1>0 DEF setStopped, TakeWake
<1>1. CASE LoopTop \/ isEnabled \/ WaitDisabled \/ WaitRetry \/ AfterRun \/ setRetrying
  BY <1>0, <1>1 DEF LoopTop, isEnabled, WaitDisabled, WaitRetry, AfterRun, setRetrying
<1>2. CASE RunActiveStart
  <2>1. AllWait /\ runner # "running"
    BY <1>2 DEF RunActiveStart, IInv, IdleShowsWait, RunnerPlace
  <2>2. QED
    BY <1>2, <2>1 DEF RunActiveStart, AllWait, Collector!Next, Collector!Start
<1>3. CASE RunActiveEnd
  BY <1>3 DEF RunActiveEnd
<1>4. CASE RunMark
  BY <1>4 DEF RunMark, Collector!Next, Collector!Mark
<1>5. ASSUME NEW c \in Callers, Enable(c) \/ Disable(c)
      PROVE  [Collector!Next]_(Collector!vars)
  BY <1>5 DEF Enable, Disable
<1>6. ASSUME NEW c \in Callers, DisableMark(c)
      PROVE  [Collector!Next]_(Collector!vars)
  BY <1>6 DEF DisableMark, Collector!Next, Collector!Mark
<1>7. ASSUME NEW c \in Callers, DisableCancel(c) \/ signalWake(c)
      PROVE  [Collector!Next]_(Collector!vars)
  BY <1>7 DEF DisableCancel, signalWake
<1>8. CASE RunnerPublish
  BY <1>8 DEF RunnerPublish, Runner!Publish, Collector!Next, Collector!Publish
<1>9. CASE RunnerReturn
  BY <1>9 DEF RunnerReturn, Runner!Return, Collector!Next, Collector!Stop
<1>10. CASE Shutdown \/ UNCHANGED vars
  BY <1>10 DEF Shutdown, vars
<1>11. QED
  BY <1>1, <1>2, <1>3, <1>4, <1>5, <1>6, <1>7, <1>8, <1>9, <1>10 DEF Next, Run, Caller

\* The manager implements the contract the readers of the store rely on: no
\* device is live unless the current provider, or one that has just stopped,
\* has published it, for any number of devices and overlapping requests.
THEOREM CollectorRefinement == Spec => ImplementsCollector
<1>1. Init => Collector!Init
  BY DEF Init, Collector!Init
<1>2. QED
  BY <1>1, Invariance, CollectorStep, PTL DEF Spec, ImplementsCollector, Collector!Spec
=============================================================================
