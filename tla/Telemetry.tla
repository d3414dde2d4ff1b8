----------------------------- MODULE Telemetry -----------------------------
(***************************************************************************)
(* From packets to what the store serves: the v2 and v3 packet handlers    *)
(* (internal/ecoflow/decode_v2.go, decode_v3.go), Telemetry.Merge          *)
(* (types.go), and liveVars and lowBattery (provider.go), during one       *)
(* session of the device.                                                  *)
(*                                                                         *)
(* A v2 device sends three kinds of records (pd, ems, bms); the handler    *)
(* keeps the latest of each and takes a snapshot of all three after each.  *)
(* A v3 device sends messages in which any field may be missing.  Readings *)
(* are small numbers; None is the nil pointer of a Telemetry field.        *)
(***************************************************************************)
EXTENDS Naturals, Integers

CONSTANTS
    Families,           \* {"v2"}, {"v3"} or both
    Charges, Runtimes,  \* readings of the battery, 0 among them
    Watts,              \* readings of power, 0 among them
    LowBatteryPercent, LowRuntimeSeconds   \* the device's configuration

None == -1

\* Readings are what the wire formats carry, and config.Load makes both
\* thresholds positive.
ASSUME ReadingsAssumption ==
    /\ Charges \subseteq Nat /\ Runtimes \subseteq Nat /\ Watts \subseteq Nat
    /\ LowBatteryPercent \in Nat \ {0} /\ LowRuntimeSeconds \in Nat \ {0}

VARIABLES
    family,         \* the profile the serial prefix selects
    pd, ems, bms,   \* the v2 handler's last records, NoRecord at first
    latest,         \* latestTelemetry of runSession
    served,         \* the variables in the store
    said            \* history: what the device last reported of each reading
                    \* since it was last stale; and, since the session began,
                    \* whether it ever reported AC input

vars == <<family, pd, ems, bms, latest, served, said>>

\* The records of the wire, reduced to the fields snapshot reads.  ems.soc is
\* the rounded F32LCDShowSOC if that was positive, else LCDShowSOC if that is,
\* else None.
PD  == [soc : Charges, remain : Runtimes, win : Watts, wout : Watts]
EMS == [soc : Charges \cup {None}, remain : Runtimes, ups : BOOLEAN]
BMS == [soc : Charges, remain : Runtimes, win : Watts, wout : Watts]
NoRecord == [soc |-> None]

Readings == {"charge", "runtime", "input", "output"}

\* A Telemetry: four readings, and whether there is AC input.
Present == {"yes", "no", "unknown"}
Nothing == [charge |-> None, runtime |-> None, input |-> None,
            output |-> None, present |-> "unknown"]
Empty(t) == t = Nothing

YesNo(b) == IF b THEN "yes" ELSE "no"

----------------------------------------------------------------------------
(* The v2 handler.                                                         *)

Positive(v) == IF v > 0 THEN v ELSE None

\* The first of two readings that is there.
Prefer(a, b) == IF a # None THEN a ELSE b

\* snapshot over the three records, p, e and b, any of which may be missing.
\* Zero runtimes and zero watts count as missing, except pd's output.
snapshot(p, e, b) ==
    LET hasP == p # NoRecord
        hasE == e # NoRecord
        hasB == b # NoRecord
        eSoc == IF hasE THEN e.soc ELSE None
        bSoc == IF hasB THEN b.soc ELSE None
        pSoc == IF hasP THEN p.soc ELSE None
        eRem == IF hasE THEN Positive(e.remain) ELSE None
        bRem == IF hasB THEN Positive(b.remain) ELSE None
        pRem == IF hasP THEN Positive(p.remain) ELSE None
        input == Prefer(IF hasP THEN Positive(p.win) ELSE None,
                        IF hasB THEN Positive(b.win) ELSE None)
    IN [charge  |-> Prefer(eSoc, Prefer(bSoc, pSoc)),
        runtime |-> Prefer(eRem, Prefer(bRem, pRem)),
        input   |-> input,
        output  |-> Prefer(IF hasP THEN p.wout ELSE None,
                           IF hasB THEN Positive(b.wout) ELSE None),
        present |-> IF input # None THEN "yes"
                    ELSE IF hasE THEN YesNo(e.ups) ELSE "unknown"]

----------------------------------------------------------------------------
(* The v3 handlers.                                                        *)

\* A message: each reading and the AC charger flag may be missing.
V3Message == [charge : Charges \cup {None}, runtime : Runtimes \cup {None},
              input : Watts \cup {None}, output : Watts \cup {None},
              plug : Present]

\* telemetryFromProto, and dpuHeartbeatTelemetry, whose messages have no plug
\* flag: the flag decides on AC input, else the input power does.
telemetryFromProto(m) ==
    [charge |-> m.charge, runtime |-> m.runtime, input |-> m.input,
     output |-> m.output,
     present |-> IF m.plug # "unknown" THEN m.plug
                 ELSE IF m.input # None THEN YesNo(m.input > 0) ELSE "unknown"]

----------------------------------------------------------------------------
(* Merging and serving.                                                    *)

\* Mutant of Merge: the newer telemetry replaces the older one.
MergeReplaces(t, other) == other

\* Mutant of Merge: a reading that is there is never replaced.
MergeKeepsOldest(t, other) ==
    [charge  |-> Prefer(t.charge, other.charge),
     runtime |-> Prefer(t.runtime, other.runtime),
     input   |-> Prefer(t.input, other.input),
     output  |-> Prefer(t.output, other.output),
     present |-> IF other.present # "unknown" THEN other.present ELSE t.present]

\* Telemetry.Merge: what the newer one lacks is kept.
Merge(t, other) ==
    [charge  |-> Prefer(other.charge, t.charge),
     runtime |-> Prefer(other.runtime, t.runtime),
     input   |-> Prefer(other.input, t.input),
     output  |-> Prefer(other.output, t.output),
     present |-> IF other.present # "unknown" THEN other.present ELSE t.present]

\* Mutant of lowBattery: a reading at the threshold is not low.
lowBatteryStrict(t) ==
    \/ t.charge # None /\ t.charge < LowBatteryPercent
    \/ t.runtime # None /\ t.runtime < LowRuntimeSeconds

lowBattery(t) ==
    \/ t.charge # None /\ t.charge <= LowBatteryPercent
    \/ t.runtime # None /\ t.runtime <= LowRuntimeSeconds

\* Mutant of liveVars: not knowing about AC input counts as input.
liveVarsOptimistic(t) ==
    [charge |-> t.charge, runtime |-> t.runtime, input |-> t.input,
     output |-> t.output,
     status |-> IF t.present # "no" THEN "OL" ELSE "OB", lb |-> lowBattery(t)]

\* liveVars: ups.status is OL or OB, with LB appended when lb.
liveVars(t) ==
    [charge |-> t.charge, runtime |-> t.runtime, input |-> t.input,
     output |-> t.output,
     status |-> IF t.present = "yes" THEN "OL" ELSE "OB", lb |-> lowBattery(t)]

\* staleVars: no readings.
staleVars == [charge |-> None, runtime |-> None, input |-> None,
              output |-> None, status |-> "WAIT", lb |-> FALSE]

\* The rest of processPacket: empty telemetry changes nothing, other is
\* merged and served.
Process(t) ==
    \/ Empty(t) /\ UNCHANGED <<latest, served>>
    \/ /\ ~Empty(t)
       /\ latest' = Merge(latest, t)
       /\ served' = liveVars(latest')

----------------------------------------------------------------------------

\* A session begins: no record has been seen, the device is served as WAIT.
NothingSaid == [charge |-> None, runtime |-> None, input |-> None,
                output |-> None, acInput |-> FALSE]

Init ==
    /\ family \in Families
    /\ pd = NoRecord /\ ems = NoRecord /\ bms = NoRecord
    /\ latest = Nothing
    /\ served = staleVars
    /\ said = NothingSaid

\* HandlePacket of the v2 handler, one case per kind of record.
HandlePD(p) ==
    /\ family = "v2"
    /\ pd' = p
    /\ Process(snapshot(p, ems, bms))
    /\ said' = [said EXCEPT !.input = p.win, !.acInput = @ \/ p.win > 0]
    /\ UNCHANGED <<family, ems, bms>>

HandleEMS(e) ==
    /\ family = "v2"
    /\ ems' = e
    /\ Process(snapshot(pd, e, bms))
    /\ said' = [said EXCEPT !.acInput = @ \/ e.ups]
    /\ UNCHANGED <<family, pd, bms>>

HandleBMS(b) ==
    /\ family = "v2"
    /\ bms' = b
    /\ Process(snapshot(pd, ems, b))
    /\ said' = [said EXCEPT !.input = b.win, !.acInput = @ \/ b.win > 0]
    /\ UNCHANGED <<family, pd, ems>>

\* HandlePacket of the v3 handlers: the display upload of all four profiles
\* and the heartbeat of the DELTA Pro Ultra.
HandleV3(m) ==
    /\ family = "v3"
    /\ Process(telemetryFromProto(m))
    /\ said' = [charge  |-> Prefer(m.charge, said.charge),
                runtime |-> Prefer(m.runtime, said.runtime),
                input   |-> Prefer(m.input, said.input),
                output  |-> Prefer(m.output, said.output),
                acInput |-> said.acInput \/ m.plug = "yes" \/ m.input > 0]
    /\ UNCHANGED <<family, pd, ems, bms>>

\* The stale transition of the session loop: the readings are no longer
\* served, but latestTelemetry stays.
GoStale ==
    /\ served # staleVars
    /\ served' = staleVars
    /\ said' = [NothingSaid EXCEPT !.acInput = said.acInput]
    /\ UNCHANGED <<family, pd, ems, bms, latest>>

\* The session ends and another one begins with a new handler.
NewSession ==
    /\ latest # Nothing
    /\ pd' = NoRecord /\ ems' = NoRecord /\ bms' = NoRecord
    /\ latest' = Nothing
    /\ served' = staleVars
    /\ said' = NothingSaid
    /\ UNCHANGED family

Next == \/ \E p \in PD : HandlePD(p)
        \/ \E e \in EMS : HandleEMS(e)
        \/ \E b \in BMS : HandleBMS(b)
        \/ \E m \in V3Message : HandleV3(m)
        \/ GoStale
        \/ NewSession

Spec == Init /\ [][Next]_vars

----------------------------------------------------------------------------
(* Properties.                                                             *)

TelemetrySet == [charge : Charges \cup {None}, runtime : Runtimes \cup {None},
                 input : Watts \cup {None}, output : Watts \cup {None},
                 present : Present]

\* Types of the handler's records, the merged telemetry and the served
\* variables.
TypeOK ==
    /\ family \in Families
    /\ pd \in PD \cup {NoRecord} /\ ems \in EMS \cup {NoRecord}
    /\ bms \in BMS \cup {NoRecord}
    /\ latest \in TelemetrySet
    /\ served.status \in {"OL", "OB", "WAIT"} /\ served.lb \in BOOLEAN

\* A partial message discards nothing: as long as the device is not stale and
\* the session lasts, a reading that is served goes on being served.
ReadingsNeverVanish ==
    [][served'.status # "WAIT" =>
         \A r \in Readings : served[r] # None => served'[r] # None]_vars

\* What a v3 device has reported since it was last stale is served with the
\* newest value, over partial messages in any order.  Nothing is claimed of
\* readings from before the stale period: the code keeps latestTelemetry and
\* serves them again, which SECURITY.md says it should not.
V3ServesNewest ==
    family = "v3" /\ served.status # "WAIT" =>
        \A r \in Readings : said[r] # None => served[r] = said[r]

\* On line is never a guess: OL is served only if the device reported AC
\* input in this session, by watts, by the UPS flag or by the charger flag.
OnLineWasReported == served.status = "OL" => said.acInput

\* A low battery is shown: when the last charge or runtime that a v3 device
\* reported is at or below its threshold, or every charge that a v2 device's
\* records hold is, LB is served, whichever of several partial messages or
\* records brought the reading and in whatever order they came.
LowBatteryShown ==
    LET socs == {pd.soc, ems.soc, bms.soc} \ {None}
        low  == IF family = "v3"
                THEN \/ said.charge \in 0..LowBatteryPercent
                     \/ said.runtime \in 0..LowRuntimeSeconds
                ELSE socs # {} /\ socs \subseteq 0..LowBatteryPercent
    IN served.status # "WAIT" /\ low => served.lb

\* docs/nut-protocol.md, "no AC input | ups.status=OB": a device that last
\* reported zero input watts, in every record that reports them, and whose
\* UPS flag never said otherwise, is served as OB.
OutageShown ==
    /\ family = "v2" /\ served.status # "WAIT"
    /\ pd # NoRecord /\ pd.win = 0
    /\ bms = NoRecord \/ bms.win = 0
    /\ ems = NoRecord
    => served.status = "OB"
=============================================================================
