--------------------------- MODULE ProviderProofs ---------------------------
(***************************************************************************)
(* Proofs about Provider, for every number of devices and every set of     *)
(* configuration files.                                                    *)
(***************************************************************************)
EXTENDS Provider, TLAPS

\* The loops of Run stay within the devices of the configuration.
ConfigFits == Configured \subseteq Devices

\* Only eco-ble has goroutines, and only once it has a user id.
GoroutinePlace ==
    stage \in {"new", "resolve", "login", "publish", "tick"}
        => \A d \in Devices : gr[d] = "none"

\* When Run has returned, every goroutine it has started has ended.
Joined == stage = "returned" => \A d \in Devices : gr[d] # "running"

\* The inductive invariant.
IInv == TypeOK /\ ConfigFits /\ GoroutinePlace /\ Joined

\* Load keeps the number of devices.
LEMMA LoadKeepsDevices ==
    ASSUME NEW raw \in RawConfig
    PROVE  DOMAIN Load(raw).devices = DOMAIN raw.devices
  BY DEF Load, RawConfig

\* The initial state satisfies the invariant.
LEMMA InitIInv == Init => IInv
<1> SUFFICES ASSUME Init PROVE IInv
  OBVIOUS
<1>1. ConfigFits
  <2>1. PICK raw \in RawConfigs : cfg = Load(raw)
    BY DEF Init
  <2>2. QED
    BY <2>1, LoadKeepsDevices, ProviderAssumption DEF ConfigFits, Configured
<1>2. TypeOK
  <2>1. at \in 1..(MaxDevices + 1)
    BY ProviderAssumption DEF Init
  <2>2. connOpen \in [Devices -> BOOLEAN] /\ ctxDone \in BOOLEAN
    BY Zenon DEF Init
  <2>3. QED
    BY <2>1, <2>2 DEF Init, TypeOK
<1>3. GoroutinePlace /\ Joined
  BY DEF Init, GoroutinePlace, Joined
<1>4. QED
  BY <1>1, <1>2, <1>3 DEF IInv

\* Every step of Run, of a goroutine and of the manager keeps it.
LEMMA StepIInv == IInv /\ [Next]_vars => IInv'
<1> SUFFICES ASSUME IInv, [Next]_vars PROVE IInv'
  OBVIOUS
<1> USE ProviderAssumption
    DEF IInv, TypeOK, ConfigFits, Configured, GoroutinePlace, Joined, Return,
        runVars, devVars, Devices
<1>1. CASE New
  BY <1>1 DEF New
<1>2. CASE ResolveUserID
  BY <1>2 DEF ResolveUserID
<1>3. CASE Login
  BY <1>3 DEF Login
<1>4. CASE Spawn
  BY <1>4 DEF Spawn
<1>5. CASE Join
  BY <1>5 DEF Join
<1>6. CASE PublishNext
  BY <1>6 DEF PublishNext
<1>7. CASE Stop
  BY <1>7 DEF Stop
<1>8. CASE Tick
  BY <1>8 DEF Tick
<1>9. ASSUME NEW d \in Devices, Device(d) PROVE IInv'
  <2>1. CASE Dev!Connect(d)
    BY <1>9, <2>1 DEF Device, Dev!Connect
  <2>2. CASE Dev!Serve(d) \/ Dev!Wait(d)
    BY <1>9, <2>2 DEF Device, Dev!Serve, Dev!Wait
  <2>3. CASE Dev!Disconnect(d)
    BY <1>9, <2>3 DEF Device, Dev!Disconnect
  <2>4. CASE Dev!Finish(d)
    BY <1>9, <2>4 DEF Device, Dev!Finish
  <2>5. QED
    BY <1>9, <2>1, <2>2, <2>3, <2>4 DEF Device, Dev!Step
<1>10. CASE Cancel
  BY <1>10 DEF Cancel, Dev!Cancel
<1>11. CASE UNCHANGED vars
  BY <1>11 DEF vars
<1>12. CASE NewTickerPanics
  BY <1>12 DEF NewTickerPanics
<1>13. QED
  BY <1>1, <1>2, <1>3, <1>4, <1>5, <1>6, <1>7, <1>8, <1>9, <1>10, <1>11, <1>12
  DEF Next, Run

\* The invariant holds in every reachable state.
THEOREM Invariance == Spec => []IInv
<1>1. QED
  BY InitIInv, StepIInv, PTL DEF Spec

\* Type correctness of Run's locals and of the goroutines' state.
THEOREM TypeCorrect == Spec => []TypeOK
<1>1. IInv => TypeOK
  BY DEF IInv
<1>2. QED
  BY Invariance, <1>1, PTL

\* A step of a provider is a step of the manager's contract, or changes
\* nothing the contract speaks of.  That a goroutine publishes only before
\* Run has returned is Joined.
LEMMA RunnerStep == IInv /\ [Next]_vars => [Runner!Next]_(Runner!vars)
<1> SUFFICES ASSUME IInv, [Next]_vars PROVE [Runner!Next]_(Runner!vars)
  OBVIOUS
<1> USE DEF Runner!vars, Return, runVars, devVars
<1>1. CASE New
  BY <1>1 DEF New, Runner!Next, Runner!Return
<1>2. CASE ResolveUserID
  BY <1>2 DEF ResolveUserID, Runner!Next, Runner!Return
<1>3. CASE Login
  BY <1>3 DEF Login, Runner!Next, Runner!Return
<1>4. CASE Spawn
  BY <1>4 DEF Spawn
<1>5. CASE Join \/ Stop
  BY <1>5 DEF Join, Stop, Runner!Next, Runner!Return
<1>6. CASE PublishNext
  BY <1>6 DEF PublishNext, IInv, ConfigFits, Runner!Next, Runner!Publish
<1>7. CASE Tick
  BY <1>7 DEF Tick
<1>8. ASSUME NEW d \in Devices, Device(d) PROVE [Runner!Next]_(Runner!vars)
  <2>1. stage # "returned"
    BY <1>8 DEF Device, Dev!Step, Dev!Connect, Dev!Serve, Dev!Wait, Dev!Disconnect,
                Dev!Finish, IInv, Joined
  <2>2. CASE Dev!Serve(d) \/ Dev!Wait(d)
    BY <1>8, <2>1, <2>2 DEF Device, Dev!Serve, Dev!Wait, Runner!Next, Runner!Publish
  <2>3. CASE Dev!Connect(d) \/ Dev!Disconnect(d) \/ Dev!Finish(d)
    BY <1>8, <2>3 DEF Device, Dev!Connect, Dev!Disconnect, Dev!Finish
  <2>4. QED
    BY <1>8, <2>2, <2>3 DEF Device, Dev!Step
<1>9. CASE Cancel
  BY <1>9 DEF Cancel, Dev!Cancel, Runner!Next, Runner!Cancel
<1>10. CASE UNCHANGED vars
  BY <1>10 DEF vars
<1>11. CASE NewTickerPanics
  <2>1. stage # "returned"
    BY <1>11 DEF NewTickerPanics, IInv, Joined
  <2>2. QED
    BY <1>11, <2>1 DEF NewTickerPanics
<1>12. QED
  BY <1>1, <1>2, <1>3, <1>4, <1>5, <1>6, <1>7, <1>8, <1>9, <1>10, <1>11 DEF Next, Run

\* Every provider implements the contract the manager relies on, for every
\* configuration and any number of devices.
THEOREM RunnerRefinement == Spec => ImplementsRunner
<1>1. Init => Runner!Init
  BY DEF Init, Runner!Init
<1>2. QED
  BY <1>1, Invariance, RunnerStep, PTL DEF Spec, ImplementsRunner, Runner!Spec

\* Load leaves a poll period that is positive, whatever the file says.
LEMMA LoadPoll ==
    ASSUME NEW raw \in RawConfig
    PROVE  Load(raw).periods.poll \in Int /\ Load(raw).periods.poll > 0
<1>1. raw.periods \in [DOMAIN ProviderDefaults -> Int]
  BY DEF RawConfig
<1>2. Load(raw).periods = Positive(raw.periods, ProviderDefaults)
  BY DEF Load, RawConfig
<1>3. "poll" \in DOMAIN ProviderDefaults /\ ProviderDefaults.poll = 15
  BY DEF ProviderDefaults
<1>4. Load(raw).periods.poll = IF raw.periods.poll <= 0 THEN 15 ELSE raw.periods.poll
  BY <1>2, <1>3 DEF Positive
<1>5. raw.periods.poll \in Int
  BY <1>1, <1>3
<1>6. QED
  BY <1>4, <1>5

\* A product that fits into a Duration does not wrap around.
LEMMA DurationFits ==
    ASSUME NEW s \in Int, s > 0, s * Second <= MaxDuration
    PROVE  Duration(s) = s * Second /\ s * Second > 0
<1> DEFINE x == s * Second
           h == MaxDuration + 1
<1>1. x \in Int /\ x > 0 /\ x < h /\ h \in Nat
  BY DurationAssumption
<1>2. Duration(s) = ((x + h) % (2 * h)) - h
  BY DurationAssumption DEF Duration
<1> HIDE DEF x, h
<1>3. x + h \in Nat /\ x + h < 2 * h
  BY <1>1
<1>4. (x + h) % (2 * h) = x + h
  <2>1. \A a, b \in Nat : a < b => a % b = a
    OBVIOUS
  <2>2. 2 * h \in Nat
    BY <1>1
  <2>3. QED
    BY <1>3, <2>1, <2>2
<1>5. Duration(s) = x /\ x > 0
  BY <1>1, <1>2, <1>4
<1>6. QED
  BY <1>5 DEF x

\* The configuration is one that Load returned, and only a ticker whose
\* period is not positive panics.
TickerInv ==
    /\ \E raw \in RawConfigs : cfg = Load(raw)
    /\ stage = "panicked" => ~(pollInterval > 0)

\* Whatever a configuration file sets as poll period, or leaves out, no
\* provider panics at its ticker, as long as the period fits into a Duration.
THEOREM TickerSafe == Spec => []TickerNeverPanics
<1>1. Init => TickerInv
  BY DEF Init, TickerInv
<1>2. IInv /\ TickerInv /\ [Next]_vars => TickerInv'
  <2> SUFFICES ASSUME IInv, TickerInv, [Next]_vars PROVE TickerInv'
    OBVIOUS
  <2>1. cfg' = cfg
    BY DEF Next, Run, New, ResolveUserID, Login, Spawn, Join, PublishNext, Stop, Tick,
           Device, NewTickerPanics, Cancel, runVars, vars
  <2>2. pollInterval' = pollInterval
    BY <2>1 DEF pollInterval
  <2>3. PICK raw \in RawConfigs : cfg = Load(raw)
    BY DEF TickerInv
  <2>4. pollInterval \in Int
    <3>1. cfg.periods.poll \in Int
      BY <2>3, LoadPoll, ProviderAssumption
    <3>2. QED
      BY <3>1, DurationAssumption DEF pollInterval, Duration
  <2>5. stage' = "panicked" => ~(pollInterval > 0)
    BY <2>4 DEF TickerInv, Next, Run, New, ResolveUserID, Login, Spawn, Join, PublishNext,
           Stop, Tick, Device, NewTickerPanics, Cancel, Return, runVars, vars
  <2>6. QED
    BY <2>1, <2>2, <2>3, <2>5 DEF TickerInv
<1>3. TickerInv => TickerNeverPanics
  <2> SUFFICES ASSUME TickerInv, cfg.periods.poll * Second <= MaxDuration,
                      stage = "panicked"
               PROVE  FALSE
    BY DEF TickerNeverPanics
  <2>1. PICK raw \in RawConfigs : cfg = Load(raw)
    BY DEF TickerInv
  <2>2. cfg.periods.poll \in Int /\ cfg.periods.poll > 0
    BY <2>1, LoadPoll, ProviderAssumption
  <2>3. pollInterval > 0
    BY <2>2, DurationFits DEF pollInterval
  <2>4. QED
    BY <2>3 DEF TickerInv
<1>4. QED
  BY <1>1, <1>2, <1>3, Invariance, PTL DEF Spec

\* The request fits the account: normalizeRegion leaves one of the hosts, and
\* api-cn exactly for a phone number that Request sends as one.
LEMMA RequestFits ==
    ASSUME NEW c, Askable(c)
    PROVE  /\ Request(c).region \in Regions
           /\ Request(c).field = "phone" <=> Request(c).region = "api-cn"
<1> DEFINE region == normalizeRegion(c.region, c.ident = "phone")
<1>1. region \in Regions /\ (region = "api-cn" => c.ident = "phone")
  BY DEF Askable, normalizeRegion, Regions
<1>2. /\ Request(c).region = region
      /\ Request(c).field = IF c.ident = "phone" /\ region = "api-cn" THEN "phone" ELSE "email"
  BY DEF Request
<1> HIDE DEF region
<1>3. QED
  BY <1>1, <1>2

\* The request that is under way is the one for the configuration.
RequestInv == stage = "login" => ~cfg.userID /\ Askable(cfg) /\ request = Request(cfg)

\* Whatever account settings a configuration file holds, the cloud is asked
\* with the field that its host expects, and only if it has to be.
THEOREM LoginSafe == Spec => []LoginAddressed
<1>1. Init => RequestInv
  BY DEF Init, RequestInv
<1>2. RequestInv /\ [Next]_vars => RequestInv'
  BY DEF RequestInv, Next, Run, New, ResolveUserID, Login, Spawn, Join, PublishNext, Stop,
         Tick, Device, NewTickerPanics, Cancel, Return, runVars, vars
<1>3. RequestInv => LoginAddressed
  <2> SUFFICES ASSUME RequestInv, stage = "login"
               PROVE  /\ ~cfg.userID /\ cfg.ident \in {"email", "phone"} /\ cfg.password
                      /\ request.region \in Regions
                      /\ request.field = "phone" <=> request.region = "api-cn"
    BY DEF LoginAddressed
  <2>1. ~cfg.userID /\ Askable(cfg) /\ request = Request(cfg)
    BY DEF RequestInv
  <2>2. cfg.ident \in {"email", "phone"} /\ cfg.password
    BY <2>1 DEF Askable
  <2>3. QED
    BY <2>1, <2>2, RequestFits
<1>4. QED
  BY <1>1, <1>2, <1>3, PTL DEF Spec
=============================================================================
