-------------------------- MODULE TelemetryProofs --------------------------
(***************************************************************************)
(* Proofs about Telemetry, for all readings and all thresholds.            *)
(***************************************************************************)
EXTENDS Telemetry, TLAPS

\* The store serves the merged telemetry or nothing, however many partial
\* messages and stale periods lie between.
ServesLatest == served \in {staleVars, liveVars(latest)}

\* What a v3 device last said of a reading is what Merge has kept of it.  Merge
\* may keep readings from before a stale period, of which said knows nothing.
V3KeepsNewest ==
    family = "v3" => \A r \in Readings : said[r] # None => latest[r] = said[r]

\* AC input that the merged telemetry or a kept record claims was reported.
InputWasReported ==
    /\ latest.present = "yes" => said.acInput
    /\ pd # NoRecord /\ pd.win > 0 => said.acInput
    /\ ems # NoRecord /\ ems.ups => said.acInput
    /\ bms # NoRecord /\ bms.win > 0 => said.acInput

\* The charge of a device that keeps records is the charge of one of them.
ChargeIsKept ==
    LET socs == {pd.soc, ems.soc, bms.soc} \ {None}
    IN  family # "v3" /\ socs # {} => latest.charge \in socs

\* Types, with those of the history variable.
SaidSet == [charge : Charges \cup {None}, runtime : Runtimes \cup {None},
            input : Watts \cup {None}, output : Watts \cup {None}, acInput : BOOLEAN]
Types == TypeOK /\ said \in SaidSet

\* The inductive invariant.
IInv == Types /\ ServesLatest /\ V3KeepsNewest /\ InputWasReported /\ ChargeIsKept

----------------------------------------------------------------------------
(* What the operators of the model return.                                 *)

\* A record of the wire is not the missing record.
LEMMA RecordIsThere ==
    /\ NoRecord \notin PD /\ NoRecord \notin EMS /\ NoRecord \notin BMS
    /\ NoRecord.soc = None
  BY DEF NoRecord, PD, EMS, BMS

\* None is not a reading.
LEMMA NoneIsNoReading == None \notin Charges /\ None \notin Runtimes /\ None \notin Watts
  BY ReadingsAssumption DEF None

\* Merge keeps the type of a telemetry, takes what the newer one has, and
\* keeps what it lacks.
LEMMA MergeKeeps ==
    ASSUME NEW t \in TelemetrySet, NEW u \in TelemetrySet
    PROVE  /\ Merge(t, u) \in TelemetrySet
           /\ \A r \in Readings : Merge(t, u)[r] = Prefer(u[r], t[r])
           /\ \A r \in Readings : t[r] # None => Merge(t, u)[r] # None
  BY DEF Merge, TelemetrySet, Prefer, Readings

\* snapshot returns a telemetry; its charge is one the records hold, if any
\* holds one; and it claims AC input only on behalf of a record that does.
LEMMA SnapshotReads ==
    ASSUME NEW p \in PD \cup {NoRecord}, NEW e \in EMS \cup {NoRecord},
           NEW b \in BMS \cup {NoRecord}
    PROVE  /\ snapshot(p, e, b) \in TelemetrySet
           /\ LET socs == {p.soc, e.soc, b.soc} \ {None}
              IN  IF socs = {} THEN snapshot(p, e, b).charge = None
                               ELSE snapshot(p, e, b).charge \in socs
           /\ snapshot(p, e, b).present = "yes" =>
                \/ p # NoRecord /\ p.win > 0
                \/ e # NoRecord /\ e.ups
                \/ b # NoRecord /\ b.win > 0
<1> DEFINE input == Prefer(IF p # NoRecord THEN Positive(p.win) ELSE None,
                           IF b # NoRecord THEN Positive(b.win) ELSE None)
<1>1. /\ p # NoRecord => p \in PD
      /\ e # NoRecord => e \in EMS
      /\ b # NoRecord => b \in BMS
  OBVIOUS
<1>2. /\ snapshot(p, e, b).charge \in Charges \cup {None}
      /\ LET socs == {p.soc, e.soc, b.soc} \ {None}
         IN  IF socs = {} THEN snapshot(p, e, b).charge = None
                          ELSE snapshot(p, e, b).charge \in socs
  BY <1>1, RecordIsThere, NoneIsNoReading DEF snapshot, Prefer, PD, EMS, BMS
<1>3. /\ snapshot(p, e, b).runtime \in Runtimes \cup {None}
      /\ snapshot(p, e, b).output \in Watts \cup {None}
  BY <1>1, NoneIsNoReading DEF snapshot, Prefer, Positive, PD, EMS, BMS
<1>4. /\ input \in Watts \cup {None}
      /\ input # None => \/ p # NoRecord /\ p.win > 0
                         \/ b # NoRecord /\ b.win > 0
  BY <1>1 DEF Prefer, Positive, PD, BMS
<1>5. /\ snapshot(p, e, b).input = input
      /\ snapshot(p, e, b).present = IF input # None THEN "yes"
                                     ELSE IF e # NoRecord THEN YesNo(e.ups) ELSE "unknown"
  BY DEF snapshot
<1>6. snapshot(p, e, b) \in TelemetrySet
  <2>1. snapshot(p, e, b).present \in Present
    BY <1>5 DEF YesNo, Present
  <2>2. snapshot(p, e, b) = [charge  |-> snapshot(p, e, b).charge,
                             runtime |-> snapshot(p, e, b).runtime,
                             input   |-> snapshot(p, e, b).input,
                             output  |-> snapshot(p, e, b).output,
                             present |-> snapshot(p, e, b).present]
    BY DEF snapshot
  <2>3. QED
    BY <1>2, <1>3, <1>4, <1>5, <2>1, <2>2 DEF TelemetrySet
<1>7. QED
  BY <1>2, <1>4, <1>5, <1>6 DEF YesNo

\* Whether the telemetry of a packet is empty or not, processPacket leaves the
\* merge of both behind, and serves it or goes on serving what it served.
LEMMA ProcessMerges ==
    ASSUME TypeOK, ServesLatest, NEW t \in TelemetrySet, Process(t)
    PROVE  /\ latest' = Merge(latest, t)
           /\ latest' \in TelemetrySet
           /\ ServesLatest'
           /\ served' = served \/ served' = liveVars(latest')
<1>1. latest \in TelemetrySet
  BY DEF TypeOK
<1>2. CASE Empty(t)
  <2>1. Merge(latest, t) = latest
    BY <1>1, <1>2 DEF Empty, Nothing, Merge, Prefer, TelemetrySet, Present
  <2>2. latest' = latest /\ served' = served
    BY <1>2 DEF Process
  <2>3. QED
    BY <1>1, <2>1, <2>2 DEF ServesLatest, liveVars, lowBattery
<1>3. CASE ~Empty(t)
  <2>1. latest' = Merge(latest, t) /\ served' = liveVars(latest')
    BY <1>3 DEF Process
  <2>2. QED
    BY <1>1, <2>1, MergeKeeps DEF ServesLatest
<1>4. QED
  BY <1>2, <1>3

\* Served variables have their types.
LEMMA ServedTypes ==
    ServesLatest => served.status \in {"OL", "OB", "WAIT"} /\ served.lb \in BOOLEAN
<1> SUFFICES ASSUME ServesLatest
             PROVE  served.status \in {"OL", "OB", "WAIT"} /\ served.lb \in BOOLEAN
  OBVIOUS
<1>1. lowBattery(latest) \in BOOLEAN
  BY Zenon DEF lowBattery
<1>2. CASE served = staleVars
  BY <1>2 DEF staleVars
<1>3. CASE served = liveVars(latest)
  BY <1>1, <1>3 DEF liveVars
<1>4. QED
  BY <1>2, <1>3 DEF ServesLatest

----------------------------------------------------------------------------
(* The invariant.                                                          *)

\* A session begins within the invariant.
LEMMA InitIInv == Init => IInv
<1> SUFFICES ASSUME Init PROVE IInv
  OBVIOUS
<1>1. ServesLatest
  BY DEF Init, ServesLatest
<1>2. Types
  BY <1>1, ServedTypes
  DEF Init, Types, TypeOK, Nothing, NothingSaid, TelemetrySet, Present,
      SaidSet
<1>3. V3KeepsNewest /\ InputWasReported /\ ChargeIsKept
  BY RecordIsThere
  DEF Init, V3KeepsNewest, InputWasReported, ChargeIsKept, Nothing, NothingSaid, Readings
<1>4. QED
  BY <1>1, <1>2, <1>3 DEF IInv

\* A record of a v2 device is merged with the other two: the charge stays one
\* that is kept, and AC input is claimed only if one of the three shows it.
LEMMA RecordStep ==
    ASSUME IInv, family = "v2", family' = family,
           pd' \in PD \cup {NoRecord}, ems' \in EMS \cup {NoRecord},
           bms' \in BMS \cup {NoRecord},
           Process(snapshot(pd', ems', bms')),
           said' \in SaidSet,
           said.acInput => said'.acInput,
           pd' # NoRecord /\ pd'.win > 0 => said'.acInput,
           ems' # NoRecord /\ ems'.ups => said'.acInput,
           bms' # NoRecord /\ bms'.win > 0 => said'.acInput
    PROVE  IInv'
<1> DEFINE t == snapshot(pd', ems', bms')
<1>1. /\ t \in TelemetrySet
      /\ LET socs == {pd'.soc, ems'.soc, bms'.soc} \ {None}
         IN  IF socs = {} THEN t.charge = None ELSE t.charge \in socs
      /\ t.present = "yes" => said'.acInput
  BY SnapshotReads
<1> HIDE DEF t
<1>2. /\ latest' = Merge(latest, t)
      /\ latest' \in TelemetrySet
      /\ ServesLatest'
  BY <1>1, ProcessMerges DEF IInv, Types, t
<1>3. ServesLatest' => (served.status \in {"OL", "OB", "WAIT"} /\ served.lb \in BOOLEAN)'
  BY ServedTypes, PTL
<1>4. Types'
  BY <1>2, <1>3 DEF IInv, Types, TypeOK
<1>5. InputWasReported'
  BY <1>1, <1>2 DEF IInv, InputWasReported, Merge
<1>6. ChargeIsKept'
  BY <1>1, <1>2 DEF ChargeIsKept, Merge, Prefer
<1>7. V3KeepsNewest'
  BY DEF V3KeepsNewest
<1>8. QED
  BY <1>2, <1>4, <1>5, <1>6, <1>7 DEF IInv

\* A partial message of a v3 device is merged: each reading is the last one
\* that was said, and AC input is claimed only by its flag or its watts.
LEMMA MessageStep == ASSUME IInv, NEW m \in V3Message, HandleV3(m) PROVE IInv'
<1> DEFINE t == telemetryFromProto(m)
<1>1. /\ t \in TelemetrySet
      /\ t.charge = m.charge /\ t.runtime = m.runtime
      /\ t.input = m.input /\ t.output = m.output
  BY DEF telemetryFromProto, TelemetrySet, V3Message, YesNo, Present
<1>2. t.present = "yes" => m.plug = "yes" \/ m.input > 0
  BY DEF telemetryFromProto, YesNo
<1> HIDE DEF t
<1>3. /\ latest' = Merge(latest, t)
      /\ latest' \in TelemetrySet
      /\ ServesLatest'
  BY <1>1, ProcessMerges DEF IInv, Types, HandleV3, t
<1>4. ServesLatest' => (served.status \in {"OL", "OB", "WAIT"} /\ served.lb \in BOOLEAN)'
  BY ServedTypes, PTL
<1>5. /\ family' = family /\ family = "v3"
      /\ pd' = pd /\ ems' = ems /\ bms' = bms
  BY DEF HandleV3
<1>6. /\ said'.charge = Prefer(m.charge, said.charge)
      /\ said'.runtime = Prefer(m.runtime, said.runtime)
      /\ said'.input = Prefer(m.input, said.input)
      /\ said'.output = Prefer(m.output, said.output)
  BY DEF HandleV3
<1>7. said'.acInput = (said.acInput \/ m.plug = "yes" \/ m.input > 0)
  BY DEF HandleV3
<1>8. said' \in SaidSet
  <2>1. said'.acInput \in BOOLEAN
    BY <1>7, Zenon
  <2>2. said' = [charge |-> said'.charge, runtime |-> said'.runtime,
                 input |-> said'.input, output |-> said'.output,
                 acInput |-> said'.acInput]
    BY DEF HandleV3
  <2>3. /\ said'.charge \in Charges \cup {None} /\ said'.runtime \in Runtimes \cup {None}
        /\ said'.input \in Watts \cup {None} /\ said'.output \in Watts \cup {None}
    BY <1>6 DEF IInv, Types, SaidSet, V3Message, Prefer
  <2>4. QED
    BY <2>1, <2>2, <2>3 DEF SaidSet
<1>9. Types'
  BY <1>3, <1>4, <1>5, <1>8 DEF IInv, Types, TypeOK
<1>10. V3KeepsNewest'
  BY <1>1, <1>3, <1>5, <1>6 DEF IInv, V3KeepsNewest, Readings, Merge, Prefer
<1>11. InputWasReported'
  <2>1. said.acInput \/ m.plug = "yes" \/ m.input > 0 => said'.acInput
    BY <1>7, Zenon
  <2>2. QED
    BY <1>2, <1>3, <1>5, <2>1 DEF IInv, InputWasReported, Merge
<1>12. ChargeIsKept'
  BY <1>5 DEF ChargeIsKept
<1>13. QED
  BY <1>3, <1>9, <1>10, <1>11, <1>12 DEF IInv

\* Every packet, stale period and new session keeps the invariant.
LEMMA StepIInv == IInv /\ [Next]_vars => IInv'
<1> SUFFICES ASSUME IInv, [Next]_vars PROVE IInv'
  OBVIOUS
<1>1. /\ pd \in PD \cup {NoRecord} /\ ems \in EMS \cup {NoRecord}
      /\ bms \in BMS \cup {NoRecord} /\ said \in SaidSet
      /\ InputWasReported
  BY DEF IInv, Types, TypeOK
<1>2. ASSUME NEW p \in PD, HandlePD(p) PROVE IInv'
  <2>1. /\ said'.acInput = (said.acInput \/ p.win > 0)
        /\ said' = [said EXCEPT !.input = p.win, !.acInput = said'.acInput]
    BY <1>1, <1>2 DEF HandlePD, SaidSet
  <2>2. said'.acInput \in BOOLEAN /\ (said.acInput \/ p.win > 0 => said'.acInput)
    BY <2>1, Zenon
  <2>3. said' \in SaidSet
    BY <1>1, <2>1, <2>2 DEF SaidSet, PD
  <2>4. QED
    BY <1>1, <1>2, <2>2, <2>3, RecordStep DEF HandlePD, InputWasReported
<1>3. ASSUME NEW e \in EMS, HandleEMS(e) PROVE IInv'
  <2>1. /\ said'.acInput = (said.acInput \/ e.ups)
        /\ said' = [said EXCEPT !.acInput = said'.acInput]
    BY <1>1, <1>3 DEF HandleEMS, SaidSet
  <2>2. said'.acInput \in BOOLEAN /\ (said.acInput \/ e.ups => said'.acInput)
    BY <2>1, Zenon
  <2>3. said' \in SaidSet
    BY <1>1, <2>1, <2>2 DEF SaidSet
  <2>4. QED
    BY <1>1, <1>3, <2>2, <2>3, RecordStep DEF HandleEMS, InputWasReported
<1>4. ASSUME NEW b \in BMS, HandleBMS(b) PROVE IInv'
  <2>1. /\ said'.acInput = (said.acInput \/ b.win > 0)
        /\ said' = [said EXCEPT !.input = b.win, !.acInput = said'.acInput]
    BY <1>1, <1>4 DEF HandleBMS, SaidSet
  <2>2. said'.acInput \in BOOLEAN /\ (said.acInput \/ b.win > 0 => said'.acInput)
    BY <2>1, Zenon
  <2>3. said' \in SaidSet
    BY <1>1, <2>1, <2>2 DEF SaidSet, BMS
  <2>4. QED
    BY <1>1, <1>4, <2>2, <2>3, RecordStep DEF HandleBMS, InputWasReported
<1>5. ASSUME NEW m \in V3Message, HandleV3(m) PROVE IInv'
  BY <1>5, MessageStep
<1>6. ASSUME UNCHANGED <<family, pd, ems, bms, latest, said>>, ServesLatest' PROVE IInv'
  <2>1. ServesLatest' => (served.status \in {"OL", "OB", "WAIT"} /\ served.lb \in BOOLEAN)'
    BY ServedTypes, PTL
  <2>2. Types'
    BY <1>6, <2>1 DEF IInv, Types, TypeOK
  <2>3. QED
    BY <1>6, <2>2 DEF IInv, V3KeepsNewest, InputWasReported, ChargeIsKept
<1>7. CASE GoStale
  <2>1. ServesLatest'
    BY <1>7 DEF GoStale, ServesLatest
  <2>2. ServesLatest' => (served.status \in {"OL", "OB", "WAIT"} /\ served.lb \in BOOLEAN)'
    BY ServedTypes, PTL
  <2>3. /\ said' \in SaidSet
        /\ said'.acInput = said.acInput
        /\ \A r \in Readings : said'[r] = None
    BY <1>1, <1>7 DEF GoStale, NothingSaid, SaidSet, Readings
  <2>4. Types'
    BY <1>7, <2>2, <2>1, <2>3 DEF GoStale, IInv, Types, TypeOK
  <2>5. (V3KeepsNewest /\ InputWasReported /\ ChargeIsKept)'
    BY <1>7, <2>3 DEF GoStale, IInv, V3KeepsNewest, InputWasReported, ChargeIsKept
  <2>6. QED
    BY <2>1, <2>4, <2>5 DEF IInv
<1>8. CASE NewSession
  <2>1. ServesLatest'
    BY <1>8 DEF NewSession, ServesLatest
  <2>2. ServesLatest' => (served.status \in {"OL", "OB", "WAIT"} /\ served.lb \in BOOLEAN)'
    BY ServedTypes, PTL
  <2>3. Types'
    BY <1>8, <2>1, <2>2
    DEF NewSession, IInv, Types, TypeOK, Nothing, NothingSaid, TelemetrySet, Present, SaidSet
  <2>4. (V3KeepsNewest /\ InputWasReported /\ ChargeIsKept)'
    BY <1>8, RecordIsThere
    DEF NewSession, V3KeepsNewest, InputWasReported, ChargeIsKept, Nothing, NothingSaid,
        Readings
  <2>5. QED
    BY <2>1, <2>3, <2>4 DEF IInv
<1>9. CASE UNCHANGED vars
  BY <1>6, <1>9 DEF vars, IInv, ServesLatest
<1>10. QED
  BY <1>2, <1>3, <1>4, <1>5, <1>7, <1>8, <1>9 DEF Next

\* The invariant holds in every reachable state.
THEOREM Invariance == Spec => []IInv
<1>1. QED
  BY InitIInv, StepIInv, PTL DEF Spec

\* Type correctness of the handlers' records and the served variables.
THEOREM TypeCorrect == Spec => []TypeOK
<1>1. IInv => TypeOK
  BY DEF IInv, Types
<1>2. QED
  BY Invariance, <1>1, PTL

----------------------------------------------------------------------------
(* What the readers of the store can rely on.                              *)

\* Every reading that a v3 device has reported since it was last stale is served
\* with the last value reported.
THEOREM NewestSafe == Spec => []V3ServesNewest
<1>1. IInv => V3ServesNewest
  BY DEF IInv, V3ServesNewest, ServesLatest, V3KeepsNewest, Readings, staleVars, liveVars
<1>2. QED
  BY Invariance, <1>1, PTL

\* OL is served only if the device has reported AC input in this session.
THEOREM OnLineSafe == Spec => []OnLineWasReported
<1>1. IInv => OnLineWasReported
  BY DEF IInv, OnLineWasReported, ServesLatest, InputWasReported, staleVars, liveVars
<1>2. QED
  BY Invariance, <1>1, PTL

\* A low battery is shown, at every threshold.
THEOREM LowBatterySafe == Spec => []LowBatteryShown
<1>1. IInv => LowBatteryShown
  <2> SUFFICES ASSUME IInv, served.status # "WAIT" PROVE LowBatteryShown
    BY DEF LowBatteryShown
  <2>1. served = liveVars(latest)
    BY DEF IInv, ServesLatest, staleVars
  <2>2. lowBattery(latest) => served.lb
    BY <2>1, Zenon DEF liveVars
  <2>3. CASE family = "v3"
    BY <2>2, <2>3
    DEF IInv, V3KeepsNewest, Readings, LowBatteryShown, lowBattery, None
  <2>4. CASE family # "v3"
    BY <2>2, <2>4 DEF IInv, ChargeIsKept, LowBatteryShown, lowBattery, None
  <2>5. QED
    BY <2>3, <2>4
<1>2. QED
  BY Invariance, <1>1, PTL

\* A reading that is served is served until the device is stale or the
\* session ends: no packet, however partial, takes it away.
THEOREM VanishSafe == Spec => ReadingsNeverVanish
<1>1. ASSUME IInv, [Next]_vars, served'.status # "WAIT",
             NEW r \in Readings, served[r] # None
      PROVE  served'[r] # None
  <2>1. served = liveVars(latest)
    BY <1>1 DEF IInv, ServesLatest, staleVars, Readings
  <2>2. latest \in TelemetrySet /\ latest[r] # None
    BY <1>1, <2>1 DEF liveVars, Readings, IInv, Types, TypeOK
  <2>3. ASSUME NEW t \in TelemetrySet, Process(t) PROVE served'[r] # None
    <3>1. /\ latest' = Merge(latest, t)
          /\ served' = served \/ served' = liveVars(latest')
      BY <1>1, <2>3, ProcessMerges DEF IInv, Types
    <3>2. latest'[r] # None
      BY <2>2, <2>3, <3>1, MergeKeeps
    <3>3. QED
      BY <1>1, <3>1, <3>2 DEF liveVars, Readings
  <2>4. CASE UNCHANGED vars
    BY <1>1, <2>4 DEF vars
  <2>5. CASE GoStale \/ NewSession
    BY <1>1, <2>5 DEF GoStale, NewSession, staleVars
  <2>6. pd \in PD \cup {NoRecord} /\ ems \in EMS \cup {NoRecord} /\ bms \in BMS \cup {NoRecord}
    BY <1>1 DEF IInv, Types, TypeOK
  <2>7. ASSUME NEW p \in PD, HandlePD(p) PROVE served'[r] # None
    BY <2>3, <2>6, <2>7, SnapshotReads DEF HandlePD
  <2>8. ASSUME NEW e \in EMS, HandleEMS(e) PROVE served'[r] # None
    BY <2>3, <2>6, <2>8, SnapshotReads DEF HandleEMS
  <2>9. ASSUME NEW b \in BMS, HandleBMS(b) PROVE served'[r] # None
    BY <2>3, <2>6, <2>9, SnapshotReads DEF HandleBMS
  <2>10. ASSUME NEW m \in V3Message, HandleV3(m) PROVE served'[r] # None
    <3>1. telemetryFromProto(m) \in TelemetrySet
      BY DEF telemetryFromProto, TelemetrySet, V3Message, YesNo, Present
    <3>2. QED
      BY <2>3, <2>10, <3>1 DEF HandleV3
  <2>11. QED
    BY <1>1, <2>4, <2>5, <2>7, <2>8, <2>9, <2>10 DEF Next
<1>2. IInv /\ [Next]_vars =>
        [served'.status # "WAIT" =>
            \A r \in Readings : served[r] # None => served'[r] # None]_vars
  BY <1>1
<1>3. QED
  BY Invariance, <1>2, PTL DEF Spec, ReadingsNeverVanish
=============================================================================
