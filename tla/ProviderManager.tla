-------------------------- MODULE ProviderManager --------------------------
(***************************************************************************)
(* The provider manager of internal/runtime/provider_manager.go: one Run   *)
(* goroutine starts, retries and stops the provider, while any number of   *)
(* HTTP handlers call Enable and Disable concurrently.  The manager owns a *)
(* mutex-protected status, the cancel function of the current run, a wake  *)
(* channel of capacity one, and shares the UPS store with the provider.    *)
(*                                                                         *)
(* A step is what one goroutine does between two points where another can  *)
(* interfere: a critical section of m.mu, one Upsert of the store, one     *)
(* channel operation, one cancellation.                                    *)
(*                                                                         *)
(* The provider itself is its contract, RunnerContract, which module       *)
(* Provider is shown to implement.                                         *)
(***************************************************************************)
EXTENDS Naturals

CONSTANTS
    NumDevices,   \* length of cfg.Devices
    Callers       \* concurrent HTTP requests to the enable/disable endpoints

\* config.Load refuses a configuration without devices.
ASSUME NumDevicesAssumption == NumDevices \in Nat \ {0}

VARIABLES
    enabled, running, state, lastError,   \* m.status, guarded by m.mu
    runCancel,     \* m.runCancel # nil (it is then the current run's)
    runCancelled,  \* the current run's cancel function has been called
    wake,          \* wakeCh holds its one token
    pc, mark,      \* where Run stands; the device its marking loop is at
    result,        \* the error of the last run, as setRetrying tells it apart
    runner,        \* the goroutine started by runActive
    call,          \* what each caller's Enable or Disable has left to do
    store,         \* the kind of ups.status each device is served with
    ctxDone        \* the daemon's context has been cancelled

statusVars == <<enabled, running, state, lastError>>
runVars    == <<runCancel, runCancelled, result, runner>>
vars == <<enabled, running, state, lastError, runCancel, runCancelled, wake,
          pc, mark, result, runner, call, store, ctxDone>>

Devices == 1..NumDevices
Marks   == 1..(NumDevices + 1)

\* runCtx.Err() # nil: runCtx is a child of the daemon's context.
RunCtxDone == runCancelled \/ ctxDone

----------------------------------------------------------------------------

\* A caller between two requests.  holds says whether the local variable
\* cancel of Disable is nil ("none"), the cancel function of the current run,
\* or that of a run that has ended since ("spent": calling it does nothing).
NoCall == [at |-> "idle", mark |-> 1, holds |-> "none"]

\* NewProviderManager, then Run is started by main.
Init ==
    /\ enabled = TRUE /\ running = FALSE
    /\ state = "starting" /\ lastError = "none"
    /\ runCancel = FALSE /\ runCancelled = FALSE
    /\ wake = FALSE
    /\ pc = "loop" /\ mark = 1
    /\ result = "none"
    /\ runner = "none"
    /\ call = [c \in Callers |-> NoCall]
    /\ store = [d \in Devices |-> "WAIT"]
    /\ ctxDone = FALSE

----------------------------------------------------------------------------
(* The Run goroutine.                                                      *)

\* setStopped, then Run returns.  Run gets here by observing ctx.Done, which
\* stays done, so observing it and taking the lock are one step.
setStopped ==
    /\ ctxDone
    /\ running' = FALSE /\ state' = "stopped" /\ runCancel' = FALSE
    /\ pc' = "stopped"
    /\ UNCHANGED <<enabled, lastError, runCancelled, wake, mark, result,
                   runner, call, store, ctxDone>>

\* The top of the loop: ctx.Err() is checked before anything else.
LoopTop ==
    /\ pc = "loop"
    /\ \/ setStopped
       \/ /\ ~ctxDone
          /\ pc' = "check"
          /\ UNCHANGED <<statusVars, runVars, wake, mark, call, store, ctxDone>>

isEnabled ==
    /\ pc = "check"
    /\ pc' = IF enabled THEN "activate" ELSE "wait"
    /\ UNCHANGED <<statusVars, runVars, wake, mark, call, store, ctxDone>>

\* waitForWake receives the token of wakeCh.
TakeWake ==
    /\ wake
    /\ wake' = FALSE
    /\ pc' = "loop"
    /\ UNCHANGED <<statusVars, runVars, mark, call, store, ctxDone>>

\* Mutant of WaitDisabled: the select lacks its ctx.Done case.
WaitDisabledDeaf ==
    /\ pc = "wait"
    /\ TakeWake

\* waitForWake without a delay: Run sleeps while the provider is disabled.
WaitDisabled ==
    /\ pc = "wait"
    /\ setStopped \/ TakeWake

\* waitForWake with retryDelay, which is always positive: the timer may fire.
WaitRetry ==
    /\ pc = "backoff"
    /\ \/ setStopped
       \/ TakeWake
       \/ /\ pc' = "loop"
          /\ UNCHANGED <<statusVars, runVars, wake, mark, call, store, ctxDone>>

\* Mutant of RunActiveStart: Enabled is not checked again under the lock.
RunActiveStartUnchecked ==
    /\ pc = "activate"
    /\ runCancel' = TRUE /\ runCancelled' = FALSE
    /\ running' = TRUE /\ state' = "running"
    /\ runner' = "running" /\ result' = "none"
    /\ pc' = "active"
    /\ UNCHANGED <<enabled, lastError, wake, mark, call, store, ctxDone>>

\* The first critical section of runActive and the go statement after it.
\* Enable, Disable or shutdown may have come since isEnabled.
RunActiveStart ==
    /\ pc = "activate"
    /\ \/ /\ ~enabled \/ ctxDone
          /\ result' = "canceled"
          /\ pc' = "returned"
          /\ UNCHANGED <<statusVars, runCancel, runCancelled, runner>>
       \/ /\ enabled /\ ~ctxDone
          /\ runCancel' = TRUE /\ runCancelled' = FALSE
          /\ running' = TRUE /\ state' = "running"
          /\ runner' = "running" /\ result' = "none"
          /\ pc' = "active"
          /\ UNCHANGED <<enabled, lastError>>
    /\ UNCHANGED <<wake, mark, call, store, ctxDone>>

\* The second critical section of runActive, entered when errCh delivers, and
\* its deferred cancel: what a Disable still holds has become a no-op.
RunActiveEnd ==
    /\ pc = "active" /\ runner = "returned"
    /\ runCancel' = FALSE /\ running' = FALSE
    /\ runner' = "none"
    /\ call' = [c \in Callers |->
                  IF call[c].holds = "current"
                  THEN [call[c] EXCEPT !.holds = "spent"] ELSE call[c]]
    /\ pc' = "returned"
    /\ UNCHANGED <<enabled, state, lastError, runCancelled, wake, mark,
                   result, store, ctxDone>>

\* Mutant of AfterRun: the devices are not marked after a run.
AfterRunUnmarked ==
    /\ pc = "returned"
    /\ \/ setStopped
       \/ /\ ~ctxDone
          /\ pc' = "retrying"
          /\ UNCHANGED <<statusVars, runVars, wake, mark, call, store, ctxDone>>

\* Run after runActive: shutdown leaves at once, without marking the devices.
AfterRun ==
    /\ pc = "returned"
    /\ \/ setStopped
       \/ /\ ~ctxDone
          /\ pc' = "mark" /\ mark' = 1
          /\ UNCHANGED <<statusVars, runVars, wake, call, store, ctxDone>>

\* One iteration of MarkDevicesWaiting, or its end, in Run.
RunMark ==
    /\ pc = "mark"
    /\ \/ /\ mark \in Devices
          /\ store' = [store EXCEPT ![mark] = "WAIT"]
          /\ mark' = mark + 1
          /\ UNCHANGED pc
       \/ /\ mark = NumDevices + 1
          /\ mark' = 1
          /\ pc' = "retrying"
          /\ UNCHANGED store
    /\ UNCHANGED <<statusVars, runVars, wake, call, ctxDone>>

\* Mutant of setRetrying: the state of a disabled provider is left as it is.
setRetryingKeepsState ==
    /\ pc = "retrying"
    /\ running' = FALSE
    /\ \/ /\ ~enabled
          /\ lastError' = "none"
          /\ pc' = "loop"
          /\ UNCHANGED state
       \/ /\ enabled
          /\ state' = "retrying"
          /\ lastError' = IF result = "failed" THEN "failed" ELSE "unexpected"
          /\ pc' = "backoff"
    /\ UNCHANGED <<enabled, runVars, wake, mark, call, store, ctxDone>>

\* setRetrying: disabled providers loop to sleep, enabled ones back off.  A
\* nil or cancelled error becomes "provider stopped unexpectedly".
setRetrying ==
    /\ pc = "retrying"
    /\ running' = FALSE
    /\ \/ /\ ~enabled
          /\ state' = "disabled" /\ lastError' = "none"
          /\ pc' = "loop"
       \/ /\ enabled
          /\ state' = "retrying"
          /\ lastError' = IF result = "failed" THEN "failed" ELSE "unexpected"
          /\ pc' = "backoff"
    /\ UNCHANGED <<enabled, runVars, wake, mark, call, store, ctxDone>>

Run == \/ LoopTop \/ isEnabled \/ WaitDisabled \/ WaitRetry \/ RunActiveStart
       \/ RunActiveEnd \/ AfterRun \/ RunMark \/ setRetrying

----------------------------------------------------------------------------
(* The callers: handleEnable and handleDisable of the web server.          *)

\* Mutant of Enable: the wake signal is forgotten.
EnableSilently(c) ==
    /\ call[c].at = "idle"
    /\ ~enabled
    /\ enabled' = TRUE /\ running' = FALSE /\ state' = "starting"
    /\ UNCHANGED <<lastError, runVars, wake, pc, mark, call, store, ctxDone>>

\* Enable up to its unlock; on an enabled provider it returns at once.
Enable(c) ==
    /\ call[c].at = "idle"
    /\ ~enabled
    /\ enabled' = TRUE /\ running' = FALSE /\ state' = "starting"
    /\ call' = [call EXCEPT ![c] = [NoCall EXCEPT !.at = "signal"]]
    /\ UNCHANGED <<lastError, runVars, wake, pc, mark, store, ctxDone>>

\* Mutant of Disable: the cancel function is not taken from a run.
DisableNoCancel(c) ==
    /\ call[c].at = "idle"
    /\ enabled
    /\ enabled' = FALSE /\ running' = FALSE
    /\ state' = IF running THEN "stopping" ELSE "disabled"
    /\ call' = [call EXCEPT ![c] = [NoCall EXCEPT !.at = "mark"]]
    /\ UNCHANGED <<lastError, runVars, wake, pc, mark, store, ctxDone>>

\* Disable up to its unlock: the cancel function is taken only if the status
\* says that a run is on.
Disable(c) ==
    /\ call[c].at = "idle"
    /\ enabled
    /\ enabled' = FALSE /\ running' = FALSE
    /\ state' = IF running THEN "stopping" ELSE "disabled"
    /\ call' = [call EXCEPT ![c] =
                  [at |-> "mark", mark |-> 1,
                   holds |-> IF running /\ runCancel THEN "current" ELSE "none"]]
    /\ UNCHANGED <<lastError, runVars, wake, pc, mark, store, ctxDone>>

\* One iteration of MarkDevicesWaiting, or its end, in Disable.
DisableMark(c) ==
    /\ call[c].at = "mark"
    /\ \/ /\ call[c].mark \in Devices
          /\ store' = [store EXCEPT ![call[c].mark] = "WAIT"]
          /\ call' = [call EXCEPT ![c].mark = @ + 1]
       \/ /\ call[c].mark = NumDevices + 1
          /\ call' = [call EXCEPT ![c].at = "cancel"]
          /\ UNCHANGED store
    /\ UNCHANGED <<statusVars, runVars, wake, pc, mark, ctxDone>>

\* Disable calls the cancel function it took, if any.
DisableCancel(c) ==
    /\ call[c].at = "cancel"
    /\ runCancelled' = (runCancelled \/ call[c].holds = "current")
    /\ call' = [call EXCEPT ![c] = [NoCall EXCEPT !.at = "signal"]]
    /\ UNCHANGED <<statusVars, runCancel, result, runner, wake, pc, mark,
                   store, ctxDone>>

\* signalWake, the last thing both do: a full channel is left as it is.
signalWake(c) ==
    /\ call[c].at = "signal"
    /\ wake' = TRUE
    /\ call' = [call EXCEPT ![c] = NoCall]
    /\ UNCHANGED <<statusVars, runVars, pc, mark, store, ctxDone>>

Caller(c) == DisableMark(c) \/ DisableCancel(c) \/ signalWake(c)

----------------------------------------------------------------------------
(* The provider and the environment.                                       *)

\* One call of a provider's Run, with the context of the current run.
Runner == INSTANCE RunnerContract WITH ctxDone <- RunCtxDone

\* The provider upserts one device.
RunnerPublish ==
    /\ Runner!Publish
    /\ UNCHANGED <<statusVars, runCancel, runCancelled, wake, pc, mark, call,
                   ctxDone>>

\* The provider's Run returns.
RunnerReturn ==
    /\ Runner!Return
    /\ UNCHANGED <<statusVars, runCancel, runCancelled, wake, pc, mark, call,
                   ctxDone>>

\* SIGINT, SIGTERM or a failed web server cancels the daemon's context.
Shutdown ==
    /\ ~ctxDone
    /\ ctxDone' = TRUE
    /\ UNCHANGED <<statusVars, runVars, wake, pc, mark, call, store>>

Next == \/ Run
        \/ \E c \in Callers : Enable(c) \/ Disable(c) \/ Caller(c)
        \/ RunnerPublish \/ RunnerReturn
        \/ Shutdown

\* Goroutines that can run are scheduled, a call that was begun is finished,
\* and a provider whose context is done returns.  Nobody has to call Enable or
\* Disable, publish, fail or shut down.
Fairness ==
    /\ WF_vars(Run)
    /\ \A c \in Callers : WF_vars(Caller(c))
    /\ WF_vars(RunnerReturn /\ RunCtxDone)

Spec == Init /\ [][Next]_vars /\ Fairness

----------------------------------------------------------------------------
(* Properties.                                                             *)

Call == [at : {"idle", "mark", "cancel", "signal"}, mark : Marks,
         holds : {"none", "current", "spent"}]

\* Every variable keeps its type: the statuses, the steps of Run and of the
\* callers, and the store of NewProviderManager's devices.
TypeOK ==
    /\ enabled \in BOOLEAN /\ running \in BOOLEAN
    /\ state \in {"starting", "running", "stopping", "disabled", "retrying",
                  "stopped"}
    /\ lastError \in {"none", "failed", "unexpected"}
    /\ runCancel \in BOOLEAN /\ runCancelled \in BOOLEAN /\ wake \in BOOLEAN
    /\ pc \in {"loop", "check", "wait", "activate", "active", "returned",
               "mark", "retrying", "backoff", "stopped"}
    /\ mark \in Marks
    /\ result \in {"none", "canceled", "failed"}
    /\ runner \in {"none", "running", "returned"}
    /\ call \in [Callers -> Call]
    /\ store \in [Devices -> {"WAIT", "LIVE"}]
    /\ ctxDone \in BOOLEAN

AllWait == \A d \in Devices : store[d] = "WAIT"

\* The cancellation of a run is never lost.  Disable takes the cancel function
\* only when Status.Running is set, and Enable clears Running, so a second
\* Disable of a run that is still stopping takes nothing: while a provider of
\* a disabled collector is running, its context is done or some Disable still
\* holds the cancel function it is going to call.
CancelNeverLost ==
    runner = "running" /\ ~enabled =>
        RunCtxDone \/ \E c \in Callers : call[c].holds = "current"

\* What Status reports as running is running: a provider goroutine exists, it
\* was not disabled, and Disable will find its cancel function in runCancel,
\* whatever Enable, Disable and the two critical sections of runActive do.
RunningIsHonest ==
    running => enabled /\ pc = "active" /\ runner # "none" /\ runCancel

\* Enabled and State agree at every unlock of m.mu, and a retrying provider
\* has an error to show.
StatusCoherent ==
    /\ enabled => state \in {"starting", "running", "retrying", "stopped"}
    /\ ~enabled => state \in {"stopping", "disabled", "stopped"}
    /\ state = "retrying" => lastError # "none"
    /\ state = "stopping" => pc \in {"active", "returned", "mark", "retrying"}

\* No device is served live data while Run is between two providers: before
\* the first one, while sleeping, backing off and deciding.  A late Disable
\* may still be marking then.  (After shutdown Run leaves without marking.)
IdleShowsWait ==
    /\ pc \in {"loop", "check", "wait", "activate", "retrying", "backoff"}
         => AllWait
    /\ pc = "mark" => \A d \in Devices : d < mark => store[d] = "WAIT"

\* No wake-up is lost: when Run sleeps without a timeout although the
\* provider is enabled, the token is in wakeCh or a caller is about to put it
\* there.  wakeCh holds one token for all callers, and Run may take the token
\* of an older call.
NoLostWake ==
    pc = "wait" /\ enabled =>
        wake \/ \E c \in Callers : call[c].at = "signal"

\* Disable takes effect: when the provider stays disabled, from some point on
\* no provider runs, every device is served as WAIT and State is "disabled".
DisableTakesEffect ==
    <>[](~enabled /\ ~ctxDone)
        => <>[](runner = "none" /\ AllWait /\ state = "disabled")

\* Enable takes effect: when the provider stays enabled, a provider is
\* started again and again, or goes on running.
EnableTakesEffect == <>[](enabled /\ ~ctxDone) => []<>running

\* Run returns after shutdown, from whatever it was doing.
ShutdownCompletes == ctxDone ~> pc = "stopped"

Collector == INSTANCE CollectorContract
                 WITH on <- (runner = "running"), shown <- store

\* The manager implements the contract of a collector: whatever overlapping
\* requests, failures and retries do, live data is written only by a running
\* provider, and Run starts the next provider only when every device is
\* served as WAIT again.
ImplementsCollector == Collector!Spec

\* What TestProviderManagerDisable waits for and asserts: once Status says
\* disabled and every Disable has returned, the devices are served as WAIT.
DisabledShowsWait ==
    ~enabled /\ state = "disabled" /\ (\A c \in Callers : call[c].at = "idle")
        => AllWait
=============================================================================
