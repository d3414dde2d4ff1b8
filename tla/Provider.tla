------------------------------ MODULE Provider ------------------------------
(***************************************************************************)
(* One call of a provider's Run, as the manager starts it: provider.New    *)
(* chooses the implementation by provider.type.                            *)
(*                                                                         *)
(* eco-ble (internal/ecoflow/provider.go) resolves the user id, if need be *)
(* by a login in the cloud, starts one goroutine per device, waits for its *)
(* context and joins the goroutines.  A goroutine is its contract,         *)
(* DeviceContract, which Session implements.  runDevice returns nil on     *)
(* every path, so nothing is ever sent to errCh, and the branch of Run's   *)
(* select that receives from it is dead code and not modelled.             *)
(*                                                                         *)
(* mock and json-dir publish the devices one by one, then wait for the     *)
(* next tick or their context.                                             *)
(*                                                                         *)
(* time.NewTicker panics if its period is not positive, which ends the     *)
(* process; here that ends Run ("panicked") and every goroutine with it.   *)
(***************************************************************************)
EXTENDS Config

CONSTANTS
    MaxDevices,   \* bound: the devices of a configuration
    RawConfigs    \* the configuration files considered

Devices == 1..MaxDevices

ASSUME ProviderAssumption ==
    /\ MaxDevices \in Nat \ {0}
    /\ RawConfigs \subseteq RawConfig
    /\ \A raw \in RawConfigs : DOMAIN raw.devices \subseteq Devices

VARIABLES
    cfg,       \* the loaded configuration, which never changes
    stage,     \* where Run is
    at,        \* the device its loop is at
    request,   \* the login request
    result,    \* what Run has returned
    served, connOpen, gr, ctxDone   \* see DeviceContract

runVars  == <<cfg, stage, at, request, result>>
devVars  == <<served, connOpen, gr>>
vars     == <<cfg, stage, at, request, result, served, connOpen, gr, ctxDone>>

Dev == INSTANCE DeviceContract

Configured == DOMAIN cfg.devices

\* main has loaded the configuration and the manager calls Run with every
\* device served as WAIT (CollectorContract!Start).
Init ==
    /\ \E raw \in RawConfigs : ~Refused(raw) /\ cfg = Load(raw)
    /\ stage = "new" /\ at = 1 /\ request = NoRequest /\ result = "none"
    /\ served = [d \in Devices |-> "WAIT"]
    /\ connOpen = [d \in Devices |-> FALSE]
    /\ gr = [d \in Devices |-> "none"]
    /\ ctxDone = FALSE

Return(r) == stage' = "returned" /\ result' = r

\* The period of every ticker, as mock.go, jsondir.go and provider.go compute it.
pollInterval == Duration(cfg.periods.poll)

\* provider.New, the checks before the provider does anything, and the ticker
\* of mock and json-dir.
New ==
    /\ stage = "new"
    /\ \/ cfg.type = "eco-ble" /\ stage' = "resolve" /\ UNCHANGED result
       \/ /\ cfg.type = "mock" \/ (cfg.type = "json-dir" /\ cfg.jsonDir)
          /\ stage' = IF pollInterval > 0 THEN "publish" ELSE "panicked"
          /\ UNCHANGED result
       \/ cfg.type = "json-dir" /\ ~cfg.jsonDir /\ Return("failed")
    /\ UNCHANGED <<cfg, at, request, devVars, ctxDone>>

----------------------------------------------------------------------------
(* eco-ble.                                                                *)

\* ResolveUserID up to the request: a configured user id is taken as it is.
ResolveUserID ==
    /\ stage = "resolve"
    /\ \/ cfg.userID /\ stage' = "spawn" /\ UNCHANGED <<result, request>>
       \/ ~cfg.userID /\ ~Askable(cfg) /\ Return("failed") /\ UNCHANGED request
       \/ /\ ~cfg.userID /\ Askable(cfg)
          /\ request' = Request(cfg)
          /\ stage' = "login" /\ UNCHANGED result
    /\ UNCHANGED <<cfg, at, devVars, ctxDone>>

\* The answer: a user id; or an HTTP error, the client's timeout, a refusal,
\* or an answer without a user id; or the request is cancelled.
Login ==
    /\ stage = "login"
    /\ \/ stage' = "spawn" /\ UNCHANGED result
       \/ Return("failed")
       \/ ctxDone /\ Return("canceled")
    /\ UNCHANGED <<cfg, at, request, devVars, ctxDone>>

\* One iteration of the loop that starts the goroutines, or its end.
Spawn ==
    /\ stage = "spawn"
    /\ \/ /\ at \in Configured
          /\ gr' = [gr EXCEPT ![at] = "running"]
          /\ at' = at + 1
          /\ UNCHANGED stage
       \/ /\ at \notin Configured
          /\ stage' = "select"
          /\ UNCHANGED <<gr, at>>
    /\ UNCHANGED <<cfg, request, result, served, connOpen, ctxDone>>

\* Mutant of Join: Run does not wait for done.
JoinSkipped ==
    /\ stage = "select" /\ ctxDone
    /\ Return("canceled")
    /\ UNCHANGED <<cfg, at, request, devVars, ctxDone>>

\* Mutant of Join: wg.Done is missed by a device that leaves while WAIT.
JoinMissesDone ==
    /\ stage = "select" /\ ctxDone
    /\ \A d \in Devices : gr[d] = "none" \/ (gr[d] = "done" /\ served[d] = "LIVE")
    /\ Return("canceled")
    /\ UNCHANGED <<cfg, at, request, devVars, ctxDone>>

\* ctx.Done, then done: every goroutine that was started has ended.
Join ==
    /\ stage = "select" /\ ctxDone
    /\ \A d \in Devices : gr[d] # "running"
    /\ Return("canceled")
    /\ UNCHANGED <<cfg, at, request, devVars, ctxDone>>

----------------------------------------------------------------------------
(* mock and json-dir.                                                      *)

\* One iteration of publish or poll, or its end.  json-dir leaves out a
\* device whose file cannot be read.
PublishNext ==
    /\ stage = "publish"
    /\ \/ /\ at \in Configured
          /\ \/ served' = [served EXCEPT ![at] = "LIVE"]
             \/ cfg.type = "json-dir" /\ UNCHANGED served
          /\ at' = at + 1
          /\ UNCHANGED stage
       \/ /\ at \notin Configured
          /\ stage' = "tick" /\ at' = 1
          /\ UNCHANGED served
    /\ UNCHANGED <<cfg, request, result, connOpen, gr, ctxDone>>

\* The select of both: ctx.Done.
Stop ==
    /\ stage = "tick" /\ ctxDone
    /\ Return("canceled")
    /\ UNCHANGED <<cfg, at, request, devVars, ctxDone>>

\* The select of both: the ticker.
Tick ==
    /\ stage = "tick"
    /\ stage' = "publish"
    /\ UNCHANGED <<cfg, at, request, result, devVars, ctxDone>>

----------------------------------------------------------------------------

Run == \/ New \/ ResolveUserID \/ Login \/ Spawn \/ Join
       \/ PublishNext

\* A step of one device's goroutine.  A session has made its ticker before it
\* serves anything.
Device(d) ==
    /\ stage # "panicked"
    /\ Dev!Step(d)
    /\ served'[d] = "LIVE" => pollInterval > 0
    /\ UNCHANGED <<runVars, ctxDone>>

\* A session that has authenticated makes its ticker.
NewTickerPanics ==
    /\ stage # "panicked"
    /\ pollInterval <= 0
    /\ \E d \in Devices : gr[d] = "running" /\ connOpen[d]
    /\ stage' = "panicked"
    /\ UNCHANGED <<cfg, at, request, result, devVars, ctxDone>>

\* The manager cancels the run, or the daemon shuts down.
Cancel == Dev!Cancel /\ UNCHANGED runVars

Next == \/ Run \/ Stop \/ Tick \/ (\E d \in Devices : Device(d))
        \/ NewTickerPanics \/ Cancel

\* Run is scheduled, the login has a timeout, the select of mock and json-dir
\* chooses ctx.Done when it is ready again and again, and a goroutine whose
\* context is done closes its connection and ends (Session!CancelEnds).
Fairness ==
    /\ WF_vars(Run) /\ SF_vars(Stop)
    /\ \A d \in Devices :
         /\ WF_vars(ctxDone /\ Dev!Disconnect(d) /\ Device(d))
         /\ SF_vars(Dev!Finish(d) /\ Device(d))

Spec == Init /\ [][Next]_vars /\ Fairness

----------------------------------------------------------------------------
(* Properties.                                                             *)

\* Types of Run's locals and of what it shares with its goroutines.
TypeOK ==
    /\ stage \in {"new", "resolve", "login", "spawn", "select", "publish",
                  "tick", "returned", "panicked"}
    /\ at \in 1..(MaxDevices + 1)
    /\ result \in {"none", "canceled", "failed"}
    /\ served \in [Devices -> {"WAIT", "LIVE"}]
    /\ connOpen \in [Devices -> BOOLEAN]
    /\ gr \in [Devices -> {"none", "running", "done"}]
    /\ ctxDone \in BOOLEAN

Runner == INSTANCE RunnerContract
    WITH store  <- served,
         runner <- IF stage = "returned" THEN "returned" ELSE "running"

\* All three providers keep the contract the manager relies on: they write
\* the store only between call and return, although the goroutines of
\* eco-ble are threads of their own, and report nil or context.Canceled only
\* when they were cancelled.
ImplementsRunner == Runner!Spec

\* A cancelled Run returns, from login, spawning, waiting or publishing,
\* whatever the goroutines are doing, unless the process has ended.
CancelReturns == ctxDone ~> stage \in {"returned", "panicked"}

\* The cloud is asked only without a configured user id, at a host that
\* exists, and is told a phone number exactly at api-cn: what Load, the trim
\* of the identifier and normalizeRegion leave to be asked fits together.
LoginAddressed ==
    stage = "login" =>
        /\ ~cfg.userID /\ cfg.ident \in {"email", "phone"} /\ cfg.password
        /\ request.region \in Regions
        /\ request.field = "phone" <=> request.region = "api-cn"

\* No provider panics at its ticker if the poll period of the file, given,
\* missing, zero or negative, fits into a Duration.  (Load sets no upper limit,
\* and a longer one wraps around: it may come out negative.)
TickerNeverPanics == cfg.periods.poll * Second <= MaxDuration => stage # "panicked"
=============================================================================
