# TLA+ specification of ecoflow-ble-nutd

ecoflow-ble-nutd reads EcoFlow power stations over Bluetooth LE and serves them
as UPSes of a NUT server. This directory models the parts of the daemon in which
goroutines, timers, a lossy byte stream and partial data meet, from one Bluetooth
session up to the process, checks them with TLC on small instances, and proves with
TLAPS, for all values of the constants, the safety properties of every component and
that each implements the contract the next one up relies on. `PROJECT.json` maps every definition to the lines
it models, and lists runs, mutants, findings, hazards and theorems.

## Inventory

| Part | State | Operations | What is hard |
| --- | --- | --- | --- |
| provider manager, `internal/runtime` | status under a mutex, cancel function, `wakeCh` of capacity 1 | `Run`, `Enable`, `Disable`, `Status` | requests overlap each other, a run that is stopping, and shutdown |
| device session, `internal/ecoflow/provider.go` | connection, `rawCh`, assembler, stale flag, three clocks | scan, connect, key agreement, authentication, session loop, reconnect | callback thread, repeated replies, timers, a dozen ways out |
| BLE transport, `transport_tinygo.go` | channels of a scan and of a dial goroutine | `FindByMAC`, `Connect`, `Write`, `Close` | the blocking library outlives timeout and cancellation |
| frame assemblers, `frame.go` | a byte buffer | `Reassemble`, `Parse` | notifications cut frames anywhere |
| telemetry, `decode_v2.go`, `decode_v3.go`, `types.go` | last records, merged telemetry | `HandlePacket`, `Merge`, `liveVars` | partial, unordered messages; zero against missing |
| UPS store, `internal/state` | variables of each device under a lock | `Upsert`, `Get`, `Names`, `Snapshot` | written by the providers and the manager |
| providers, `internal/provider`, `Provider.Run` | a goroutine per device, a ticker | `New`, `Run` | all goroutines must be joined, on every way out |
| configuration, login, `internal/config`, `auth.go` | none | `Load`, `ResolveUserID` | zero and contradictory settings |
| NUT server, `internal/nut` | listener, `authed` per connection | `Run`, commands | clients read while providers write; shutdown under `Accept` |
| web server, `internal/web` | HTTP server | `Run`, enable, disable | its failure stops the daemon |
| daemon, `cmd/ecoflow-ble-nutd` | context, exit code | `main` | who is waited for at the end |
| session keys, protobuf bindings, deployment | none that changes at run time | | |

How they interact: `main` starts the manager, the web server and the NUT server
with one context. The manager runs one provider at a time in a goroutine and
cancels it through a child context; the eco-ble provider runs one session
goroutine per device. Providers and manager write the store, the two servers read
it, and the web server's handlers call `Enable` and `Disable`. A session calls the
transport, whose notification callback fills `rawCh`; chunks go through an
assembler, packets through a handler, telemetry into the store.

## Modules

The components meet at three contracts, abstract specifications that one module
implements and the next one up is built from:

| Contract | implemented by | used by |
| --- | --- | --- |
| `DeviceContract`: live data from an open connection only, WAIT before the next one, a goroutine ends only when cancelled and its session has no connection then | `Session` (TLC, proved) | `Provider` |
| `RunnerContract`: writes the store only between call and return, nil or `context.Canceled` only when cancelled | `Provider` (TLC, proved) | `ProviderManager` |
| `CollectorContract`: live data only while a provider runs, a provider starts only when all devices are WAIT | `ProviderManager` (TLC, proved) | `Daemon` |

So what `ProviderManager` assumes of a provider is not an assumption of its own: it
takes its runner's actions from `RunnerContract`, and `Provider` is shown to
implement that; likewise one level up and one level down.

**`ProviderManager`** — `Run` is a program counter (`pc`) with one action per
critical section, channel operation or `Upsert`; every caller has a record `call`
of what its `Enable` or `Disable` has left to do, including the cancel function it
holds. `holds = "spent"` is the cancel function of a run that has ended, whose call
does nothing. The provider is `RunnerContract`: it publishes for any device while it
runs, also after cancellation, and nothing after it has returned. `store` keeps
only whether a device is served as WAIT or live. Fields that nothing branches on
(time stamps, type, wording of errors) are left out; of `LastError` the model
keeps none, a provider's error, or "stopped unexpectedly".

**`Session`** — `runDevice` and `runSession` for one device. `phase` is where the
goroutine stands. A chunk is the sequence of messages its frames hold, an element
of a small set; `rawCh` is a bounded queue and a notification that finds it full
vanishes (`NotificationDropped`). That notification may have held a part of a frame
only, so the next frame may be used up to complete it (`Spliced`): frames of encrypt
type 7 have a checksum and the splice is refused; packets of types 0 and 1 may be in
the sentinel format, which has none behind the header, and then parse as anything. A
frame that begins in the chunk before a dropped one and ends behind it is the same case.
`work` is what is left of the chunk being processed, `pending` what
`finishAuthentication` has collected of a chunk, packet by packet, for the session loop;
`early` and `malformed` are history: a reading is among them that is not yet served; the
device has sent something malformed in this session. A write may
fail wherever the code writes. `freshAge`, `packetAge` and `tickAge` are the times
since `lastFresh`, `lastPacket` and the last tick, in seconds. Time passes only while
the loop has nothing to do: handling a message is taken to be short against a
second. The other timeouts may fire at any moment the goroutine waits for them.
The replies to time requests are not throttled in the model: throttling only
decides whether a write, which may fail, is made. A handshake reply repeated after
the key agreement decrypts to bytes that do not parse (type 7 decryption returns no
error): `ParsePacket` says no and the session skips it. The errors of `Reassemble` cannot occur: type 1 lengths
are block-aligned by construction, and type 7 decryption truncates to whole blocks.

**`Transport`** — `FindByMAC` and `connectWithTimeout` for a set of attempts, each
with its caller, scan goroutine and dial goroutine. The library is external: `Scan`
runs until `StopScan`, `StopScan` has no effect if no scan is on, `Connect` and the
service discovery behind it may never return. The link is open from the return of the
library's `Connect` on, before `newTinygoConnection` has looked at its services. Only the Linux build is modelled, where every call has an adapter object of
its own.

**`Telemetry`** — the v2 handler's three records and `snapshot`, v3 messages with
optional fields, `Merge`, `liveVars`, `lowBattery`. Readings are numbers; `None`
is a nil pointer. `said` is a history variable: what the device last reported since it
was last stale, and whether it has reported AC input in this session.

**`Config`, `Provider`** — `Config` is what `Load` makes of a file, reduced to the fields
something depends on, and what `ResolveUserID` makes of the account settings. `Duration`
is the product with `time.Second`, which wraps around; `Second` and `MaxDuration` are
constants, so that TLC meets the overflow with small numbers. A phone number
with another region configured than api-cn (api-e, say) goes to that region's host in the
e-mail field; `LoginAddressed` only excludes it as a phone number there. `Provider`
is one call of `Run`: `New` picks the type; eco-ble resolves the user id, spawns the
goroutines one by one, waits for its context and joins; mock and json-dir publish device
by device, then wait for ticker or context. `runDevice` returns nil on every path,
so the branch of `Run` that receives from `errCh` is dead and left out. `time.NewTicker`
panics on a period that is not positive: in `Run` of mock and json-dir, in a session of
eco-ble.

**`NutServer`, `Daemon`** — `NutServer` is the accept loop, the goroutine that closes the
listener, and a handler per connection. LIST UPS takes several steps, since it reads
names and devices in separate critical sections; commands that read one device and change
nothing are not actions, and USERNAME is one of those: no later command depends on it.
`sent` is history: the client has sent the configured password.
`Daemon` adds `main`, the web server's goroutine, signals, and the collector as its
contract with one more bit, whether a session of the provider holds a connection. A
provider that has returned has none, since it joins its sessions and each closes its own;
links of abandoned dials belong to no session and are not counted here, nor in
`DeviceContract` (see *Link after cancellation* below). The process ends with everything as it is.

**`Frames`** — the four assemblers. `Feed` begins a call with a
notification, `Iterate` is one iteration of the loop on the local `data`, and `busy`
says that the call goes on; an iteration is an operator without recursion, so that it
can be proved about. The handshake's `Parse` returns after every reply and is called
again by `waitForSimplePayload`, which is one loop too. Bytes, offsets and lengths are
those of the wire: the two header layouts chosen by the low nibble of the version, the
sentinel format without CRC16, version 4, padding to AES blocks, and the length limits.
The two checksums are parameters, since the assemblers only compare them; decryption keeps
lengths and is left out. `ParsePacket` is the check the session makes of every packet an
assembler returns, with `TotalLength` computed as there and not from `packetBodyLen`. `ReassembleAll` (all iterations on
a stream in one piece) and `AfterFrames` (what remains behind each frame of it) are the
references for a stream that comes in pieces, written as recursive functions.

`MC*` modules give TLC the constants and a stuttering step for the legitimate end
of the system; `*Proofs` modules hold the theorems.

## Runs

| Run | Instance | Shows |
| --- | --- | --- |
| `manager` | 2 devices, 2 callers | no lost cancellation or wake-up, honest and coherent status, WAIT between two providers, the collector's contract; the last Enable or Disable takes effect, shutdown completes |
| `manager_disabled_shows_wait` | 1 device, 2 callers | *violated*: State "disabled" with live data |
| `session_safety` | poll 2 s, stale 3 s, queue of 1, all encrypt types, 14 chunks | bounded staleness, no data without a session, connections closed, early readings served, repeated replies harmless and cut frames too where they have a checksum, the device's contract |
| `session_liveness` | poll 1 s, stale 2 s, queue of 1, type 7, well-formed chunks | cancellation ends everything, silent devices are retried |
| `session_live_is_authenticated` | type 0 | *violated*: live data without an authentication reply |
| `transport` | 2 attempts | one owner per connection, unwanted ones closed, matches not missed, operations return |
| `telemetry` | readings below, at, above the thresholds, both families | nothing vanishes, newest values, OL only if reported, LB shown |
| `telemetry_outage_shown` | v2 | *violated*: OL after the input power dropped to zero |
| `frames` | streams of two or three pieces, and noise, cut into notifications of up to 20 bytes | fragmentation invisible, clean streams complete, buffer bounded, what is cut out parses |
| `provider` | 3 devices, all account settings, types and degrees of completeness | the runner's contract, a cancelled Run returns, login addressed, tickers with positive periods |
| `daemon` | 2 devices, 2 clients, all auth settings | complete lists, control needs the connection's password, honest exit code, shutdown ends the process |
| `daemon_exit_closes_connections` | 1 device, 1 client | *violated*: the process ends with a connection not closed |

Bounds. Two callers are the two whose overlap matters, one of which may hold a spent
cancel function while the other acts; the proofs cover any number. Two devices let
marking, publishing and listing be interrupted halfway; three let a cancellation find
one goroutine finished, one connected and one not yet started. Two clients suffice for
one to be affected by the other's authentication. Poll and stale periods are chosen with
stale no multiple of poll, so that ticks and timeout fall apart; ages saturate
where no comparison tells more. A queue of one fills up and drops; repeated replies
come behind the awaited one in the same chunk or in the next, and the proofs cover any
capacity. Two attempts are independent on Linux and share the cancellation.
The streams of `frames` are put together from whole frames (the versions
2, 3, 4, 0x12 and 0x13 cover both layouts with and without CRC16, and the one the parser
refuses), frames whose payload holds prefixes or a whole frame, frames with a wrong length
or checksum, beginnings of frames and single bytes, and of every continuation of a
prefix by a few telling bytes; with 20 bytes a notification holds a frame and more.
The run's checksums are weak sums, so that false frames do occur. The length limits and
the other versions are left to the proofs, which hold for all bytes and any
checksum. In `provider` a Duration holds 25 seconds, so that a period of 30 overflows to a
negative one. The
configuration files are two families, every combination of account settings on good
devices, and every type with missing, negative and positive periods on good and bad
devices; `TickerSafe` is proved for all files.

Fairness. Goroutines that can run are scheduled (weak fairness of `Run`, of a
request that was begun, of the straight-line steps of a session, of the transport's
goroutines). A provider whose context is done returns: that is `CancelEnds` of
`Session` together with the fact that `FindByMAC` and `Connect` return
(`OperationsReturn`). In `Transport`, a session closes its connection when its context is
done; without a cancellation it may go on for ever, and no fairness says otherwise. A Go `select` chooses at random among ready cases, which is
strong fairness of the cases `ctx.Done`, timer and ticker. In `Provider` a goroutine
whose context is done closes its connection and ends, which is `CancelEnds` again, and
the login request has a timeout (20 s). In `Daemon`, `main` and the goroutines waiting
for the context or the web server's error are scheduled, and `Accept` fails on a closed
listener. Nobody has to call
Enable or Disable, send a notification, advertise or answer, and the library's
`Connect` and service discovery need not return. The writes of a session are assumed to return; the code
has no timeout for them.

## Findings

1. *Disabled but live* (`DisabledShowsWait`). Disable–Enable–Disable while one run
   is stopping: `Enable` clears `Running`, so the second `Disable` reports "disabled"
   although the old provider may publish once more. It heals when `Run` marks the
   devices after the run.
2. *Authentication step* (`LiveIsAuthenticated`). A chunk with any packet that parses
   ends the authentication step, with or without an authentication reply.
3. *Outage not shown* (`OutageShown`). The v2 handler takes zero input watts for a
   missing reading, so without an EMS record the device stays OL with its old
   input power.
4. *Exit does not wait* (`ExitClosesConnections`). `main` returns when the NUT server does;
   the manager's goroutine, and with it the deferred `Close` of every session, may not
   have run. What becomes of the link is then up to the system's Bluetooth service.
The code also departs from the docs in three places that no run states as a property; the
passing properties are worded so that they do not endorse it:

- *Link after cancellation*. `connectWithTimeout` (`transport_tinygo.go:102-115`) returns on
  cancellation while the library is still connecting; the link comes up later and is closed
  when the library has returned it, for which there is no limit, and not at all if the process
  ends first. `SECURITY.md:33` says that cancellation must not leave unintended active
  connections. `OneOwner` and `ConnectionsEnd` say only that somebody is to close such a link
  and does so once the library has returned; nothing says that none is up.
- *Old readings after a stale period*. `latestTelemetry` (`provider.go:152`) survives the
  stale transition, so one new reading brings the others back with a live status.
  `SECURITY.md:34` says that stale devices must not be presented as fresh.
  `V3ServesNewest` forgets what was reported before the stale period: it asks neither for the
  old readings nor for their absence.
- *User name not required*. The outcome of USERNAME is not kept (`nut/server.go:86-97`): with
  a user name and a password configured the password alone grants control commands, and with
  only a user name configured any password does. `SECURITY.md:31` and
  `docs/configuration.md:43` require the configured credentials. `ControlNeedsPassword` claims
  the password only, and nothing when none is configured.

Not findings, but worth knowing: the stale timeout is enforced with the granularity of
`poll_seconds` (`LiveIsRecent` is the bound that holds); a web server that fails ends
the daemon with exit code 0; and `Load` sets no upper limit on the periods, so that a
`poll_seconds` beyond 9223372036 may wrap around to a negative period, at which the ticker
panics (`TickerNeverPanics` excludes exactly these). The other periods overflow in the same
way to timeouts that fire at once; `Session` takes them to be positive.

## Proofs

`ProviderManagerProofs` proves, for every number of devices ≥ 1 (`config.Load` refuses
none) and every set of callers, `TypeOK`, `CancelNeverLost`, `RunningIsHonest`,
`StatusCoherent`, `IdleShowsWait` and `NoLostWake`. `CancelNeverLost` is not inductive:
it speaks of disabled providers only, and an Enable followed by a Disable brings a run
back into its scope. The invariant `IInv` adds `CancelInHand` (a run whose `Running`
flag is cleared while it lasts is cancelled, or a caller holds its cancel function,
enabled or not) and `RunnerPlace` (the goroutine exists exactly while `Run` waits for
it, and only then is a held cancel function current). The step from `CancelInHand` to
`CancelNeverLost` is `RunningIsHonest`: a disabled provider is not `Running`.
`TypeStep` proves the types per action, `PartsStep` the other conjuncts.
`CollectorRefinement` shows that every step of the manager is one of the collector's
contract: the only hard one is the start of a provider, whose guard is `IdleShowsWait`.

`ProviderProofs` proves for every number of devices and every set of configuration files
that `Run` implements the runner's contract (`RunnerRefinement`) and makes its tickers
with positive periods unless the file's overflows (`TickerSafe`). The goroutines are
threads, so the refinement needs the invariant: `GoroutinePlace` says that none runs
before spawning begins and `Joined`, from the guard of `Join`, that none runs after the
return; hence no goroutine publishes after it. `TickerSafe` rests on `LoadPoll`, that `Load`
leaves a positive poll period whatever the file holds, and on `DurationFits`, that the
product with a second does not wrap around when it fits.

`TransportProofs` proves for every set of attempts that an open connection has exactly
one owner, also while its services are discovered, and that a queued match is never
missed. `DialPlace` ties the dial goroutine
to the caller's position: without it the handoff could meet a caller that has given up.

`SessionProofs` proves the invariants of `Session` and its contract for all poll and
stale periods, queue capacities, encrypt types and chunks. The bounds on staleness and
silence are not inductive: they say nothing about when the loop will look at the clocks
next. `SinceLook` is the time since it last did, and `FreshAtLook`, `HeardAtLook` bound the
ages by what they were allowed to be at that tick plus `SinceLook`; a tick that is due
stops time, so at most one period is added (`RecentSafe`, `IdleSafe`). `ConnectionHeld`
and `NilIsCancelled` tie connection and result to the place in the code, without which
`DeviceRefinement` could not tell a goroutine that ends from one that gave up. `GoodKept`
says that, in a session in which nothing malformed was sent and no frame without a checksum
was cut (`Sound`), the messages stay good in the queue, in the assembler, in `pending` and in a chunk half
processed, the places from which a protocol error could come (`WellFormedSafe`).
`EarlyKept` says that a reading taken during the authentication is in `pending` or `work`
until it is served (`EarlySafe`); that `NothingLeft` of an earlier session is in either
keeps it inductive.

`TelemetryProofs` proves the properties of `Telemetry` for all readings and thresholds.
The invariant says what lies between a report and what is served: the store serves the
merged telemetry or nothing (`ServesLatest`), the merged telemetry of a v3 device agrees
with all that it said since it was last stale (`V3KeepsNewest`), every claim of AC input in a record was reported
(`InputWasReported`), and a v2 charge is one that a record still holds (`ChargeIsKept`).
The lemmas `MergeKeeps` and `SnapshotReads` say what `Merge` and `snapshot` return.

`DaemonProofs` proves, for any number of devices and clients, that LIST UPS is complete,
that control needs the connection's own password where one is configured, and that the
exit code is honest.
`ListProgress` says that the lines written and the names left are together the devices
in order; that needs `StoreFilled`, since the names come from the store, and the lemma
`NamesSorted` about how `Names` orders them.

`FramesProofs` proves for streams of any length, any bytes and any checksum functions that
what a packet assembler cuts out has the length the parser expects for every one of the
256 versions (`BodyLength`, `CutIsWhole`), that no assembler keeps as much
as a frame, and that every iteration that goes on consumes data, so that no input
can hold a session in the loop (`LoopEnds`). Everything rests on `IterationSound`, a lemma
about one iteration of each assembler on arbitrary data.

`FramesSplitProofs` proves that fragmentation is invisible and that clean streams are
decoded completely (`SplitSafe`, `CleanSafe`). The core is `IterationCut`: an iteration that
goes on would have done the same had more data been there, and one that stops keeps data
from which the next call comes to the result it would have come to. For a split prefix this
is what the buffered half is for; for data in front of the prefix, that it can be dropped.
The inductive invariant `SplitInv` speaks of a run of the loop on the stream in one
piece, as functions `tr` and `os` of the number of iterations: the assembler is where that
run has come to, and its buffer, though perhaps shorter, is alike for whatever follows. A
notification extends every `tr[i]`, an iteration prolongs the run. `RunIsAll` then shows
that the recursive function behind `ReassembleAll` exists and agrees with the run, and
`RunOfFrames` that the run takes the frames of a clean stream one by one. Where this
needs induction it is over a set of numbers (`Counting`, from the well-foundedness of
the naturals), which unlike the library's rules has no operator as a parameter.

`LoginSafe` (`ProviderProofs`) and `CoherentSafe` (`ProviderManagerProofs`) complete the
two older developments.

Left to TLC: the liveness properties, since fairness and ENABLED are out of the prover's
reach. Every invariant, action property and refinement that a passing run checks is
also proved. The inductive invariants were model-checked on the runs' instances before
they were proved, except `SplitInv`, which quantifies over functions; there TLC checks its
consequence `SplitInvariant`.

## Not modelled

- The generated protobuf bindings: some 34 000 of the 38 000 source lines, accessors and
  descriptors without control flow of the daemon's own. `Telemetry` models what the v3
  handler reads of them. They are why the mapped share of all lines is small; of the
  hand-written lines (some 3 900) about half are mapped.
- Session keys, ciphers, checksum arithmetic, the fields of a packet, `Encode`, the scan
  record: stateless arithmetic.
- Links of abandoned dials in `DeviceContract`, `Provider` and `Daemon`: they are
  `Transport`'s, and may outlive the operation (*Link after cancellation*).
- HTML, JSON and the access checks of the web server, formatting of NUT answers.
- NUT commands that read one device and change nothing.
- The parsing of configuration files and the HTTP exchange beyond its outcomes.
- Equal device names: devices are numbered, which supposes distinct names; `Load` does
  not check it.
- The Bluetooth library beyond how it is used, and adapters of systems other than Linux.

Hazards recorded without a property: a `StopScan` before the scan has begun leaves a
scan running; two bytes are skipped after a false prefix, so that a frame that begins
at the second one is lost; old readings come back after a stale period; Disable and Enable around one stop are reported as an
unexpected stop; equal device names; the exit code after a failed web server.

## Plan

1. Done: all components with state of their own, their contracts and composition; every
   safety and action property of a passing run, and all three refinements, proved.
2. Next: the composition of the proofs, that is, `Daemon`'s assumption that no session holds
   a connection when no provider runs as a theorem rather than a remark; shorter proofs for
   `FramesSplitProofs`, where encrypted frames and packets are treated one after the other.
