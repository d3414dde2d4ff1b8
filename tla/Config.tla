------------------------------- MODULE Config -------------------------------
(***************************************************************************)
(* What internal/config makes of a configuration file, and what            *)
(* internal/ecoflow/auth.go makes of its account settings before it asks   *)
(* the cloud.  A configuration is a record with the fields that something  *)
(* depends on:                                                             *)
(*   type      provider.type, "" if it is missing                          *)
(*   jsonDir   whether provider.json_dir is set                            *)
(*   periods   the provider's periods in seconds, 0 if missing             *)
(*   devices   a sequence of [named, mac, periods], the first two telling  *)
(*             whether name and mac are set                                *)
(*   userID, password   whether they are set                               *)
(*   ident     provider.auth.email: "none", "blank" (only white space),    *)
(*             "email" or "phone", as isPhoneIdentifier tells them apart   *)
(*   region    provider.auth.region, trimmed and in lower case             *)
(***************************************************************************)
EXTENDS Integers, Sequences, SequencesExt

CONSTANTS
    Second,       \* time.Second: 10^9 in the code
    MaxDuration   \* the largest time.Duration: 2^63 - 1 in the code

\* A Duration can hold a second.
ASSUME DurationAssumption ==
    Second \in Nat \ {0} /\ MaxDuration \in Nat /\ MaxDuration >= Second

Types   == {"mock", "json-dir", "eco-ble"}
Regions == {"api", "api-e", "api-a", "api-j", "api-r", "api-cn"}

\* Defaults of the provider's and of each device's settings.
ProviderDefaults == [scan |-> 8, connect |-> 20, reconnect |-> 10, poll |-> 15]
DeviceDefaults   == [lowBattery |-> 20, lowRuntime |-> 300, stale |-> 60]

\* The configuration files that can be read into the Config struct.
RawConfig ==
    [type : STRING, jsonDir : BOOLEAN,
     periods : [DOMAIN ProviderDefaults -> Int],
     devices : Seq([named : BOOLEAN, mac : BOOLEAN,
                    periods : [DOMAIN DeviceDefaults -> Int]]),
     userID : BOOLEAN, password : BOOLEAN,
     ident : {"none", "blank", "email", "phone"}, region : STRING]

\* time.Duration(seconds) * time.Second wraps around like every product of
\* integers of that width.
Duration(seconds) ==
    LET span == 2 * (MaxDuration + 1)
    IN  ((seconds * Second + MaxDuration + 1) % span) - (MaxDuration + 1)

\* Mutant of Positive: a zero is taken as given.
PositiveOrZero(values, defaults) ==
    [k \in DOMAIN defaults |-> IF values[k] < 0 THEN defaults[k] ELSE values[k]]

\* A value that is missing, zero or negative is replaced by its default.
Positive(values, defaults) ==
    [k \in DOMAIN defaults |-> IF values[k] <= 0 THEN defaults[k] ELSE values[k]]

\* The configuration Load returns, if it returns one.
Load(raw) ==
    [raw EXCEPT
        !.type    = IF @ = "" THEN "mock" ELSE @,
        !.periods = Positive(@, ProviderDefaults),
        !.region  = IF @ = "" THEN "auto" ELSE @,
        !.devices = [i \in DOMAIN raw.devices |->
                       [raw.devices[i] EXCEPT !.periods = Positive(@, DeviceDefaults)]]]

\* Load returns an error.
Refused(raw) ==
    LET c == Load(raw)
    IN \/ c.devices = <<>>
       \/ c.type \notin Types
       \/ \E d \in ToSet(c.devices) : ~d.named
       \/ /\ c.type = "eco-ble"
          /\ \/ \E d \in ToSet(c.devices) : ~d.mac
             \/ ~c.userID /\ (c.ident = "none" \/ ~c.password)

\* Mutant of normalizeRegion: an e-mail address is accepted for api-cn.
normalizeRegionUnchecked(region, isPhone) ==
    IF region \in {"", "auto"} THEN IF isPhone THEN "api-cn" ELSE "api"
    ELSE IF region \notin Regions THEN "error"
    ELSE region

\* The host to ask, or "error".  (baseURL knows the same regions.)
normalizeRegion(region, isPhone) ==
    IF region \in {"", "auto"} THEN IF isPhone THEN "api-cn" ELSE "api"
    ELSE IF region \notin Regions \/ (region = "api-cn" /\ ~isPhone) THEN "error"
    ELSE region

\* The account settings stand up to ResolveUserID: Load let a blank e-mail
\* address and any region pass.
Askable(c) ==
    /\ c.ident \in {"email", "phone"} /\ c.password
    /\ normalizeRegion(c.region, c.ident = "phone") # "error"

\* The login request: its host, and the field that carries the identifier.
Request(c) ==
    LET region == normalizeRegion(c.region, c.ident = "phone")
    IN  [region |-> region,
         field  |-> IF c.ident = "phone" /\ region = "api-cn" THEN "phone" ELSE "email"]

NoRequest == [region |-> "none", field |-> "none"]
=============================================================================
