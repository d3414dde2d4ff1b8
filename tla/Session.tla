------------------------------ MODULE Session ------------------------------
(***************************************************************************)
(* One device's goroutine of internal/ecoflow/provider.go: runDevice and   *)
(* the sessions it repeats.  A session scans for the device, connects,     *)
(* subscribes to its notifications, agrees on a key (encrypt type 7),      *)
(* authenticates, and then turns packets into telemetry until it fails, is *)
(* idle for too long, or is cancelled.                                     *)
(*                                                                         *)
(* The notification callback is a second thread of control: it puts chunks *)
(* into rawCh and drops them when rawCh is full.  A chunk is the sequence  *)
(* of messages whose frames it completes, as the assembler of the moment   *)
(* reads them (a chunk that completes no frame is the empty sequence).  A  *)
(* dropped notification may hold a part of a frame only; what the          *)
(* assembler then makes of the rest is in Spliced.  A message is one of    *)
(* Messages.                                                               *)
(*                                                                         *)
(* Time is counted in seconds.  Only the timers of the session loop are    *)
(* measured; the other timeouts (scan, connect, handshake, authentication, *)
(* reconnect delay) may fire whenever the goroutine waits for them.  Time  *)
(* passes only while the goroutine waits in the select of the session loop *)
(* with nothing to receive: handling a chunk or a tick takes no time.      *)
(***************************************************************************)
EXTENDS Naturals, Sequences, SequencesExt

CONSTANTS
    Poll,      \* provider.poll_seconds, the period of idleTicker
    Stale,     \* device.stale_timeout_seconds
    QueueCap,  \* capacity of rawCh (128 in the code)
    EncTypes,  \* encrypt types of the devices that may answer
    Chunks     \* the notifications a device may send

\* config.Load makes both periods positive.
ASSUME TimesAssumption == Poll \in Nat \ {0} /\ Stale \in Nat \ {0}

Messages ==
    { "pub", "pubBad",        \* handshake replies of command 0x01,
      "info", "infoBad",      \*   and of command 0x02, good and malformed
      "authOk", "authFail",   \* replies to the authentication packet
      "telemetry",            \* a packet with at least one reading
      "beat",                 \* the same, answered with an outbound packet
      "time",                 \* a time request
      "other",                \* not handled, or without a reading
      "broken" }              \* handled, but its payload does not decode

ASSUME ConfigAssumption ==
    /\ QueueCap \in Nat \ {0}
    /\ EncTypes \subseteq {0, 1, 7, 2}   \* 2 stands for every other type
    /\ Chunks \subseteq Seq(Messages)

VARIABLES
    phase,      \* where the goroutine is
    enc,        \* desc.EncryptType of the session
    rawCh,      \* the notification channel
    simple,     \* replies buffered in the SimplePacketAssembler
    work,       \* messages of the current chunk still to be processed
    pending,    \* packets that finishAuthentication passes on to the loop
    connOpen,   \* a BLE connection is open
    err,        \* what runSession is about to return
    status,     \* what the store serves for the device
    freshAge,   \* time since lastFresh, AgeCap when lastFresh is zero
    packetAge,  \* time since lastPacket
    tickAge,    \* time since idleTicker last fired
    tickReady,  \* idleTicker.C holds a tick
    isStale,    \* the flag of the session loop
    authSeen,   \* a successful authentication reply was read this session
    early,      \* readings taken during the authentication are not yet served
    loss,       \* what the full queue has done to the frames of this session
    malformed,  \* history: the device has sent a malformed message in it
    ctxDone     \* the provider's context is done

vars == <<phase, enc, rawCh, simple, work, pending, connOpen, err, status,
          freshAge, packetAge, tickAge, tickReady, isStale, authSeen, early,
          loss, malformed, ctxDone>>
locals == <<simple, work, pending>>
clocks == <<freshAge, packetAge, tickAge, tickReady>>
history == <<authSeen, early, loss, malformed>>

\* Ages are counted up to the point where no comparison tells more.
AgeCap    == Stale + Poll
PacketCap == 3 * Poll

Handshake == {"pubkey", "keyinfo"}
Listening == Handshake \cup {"auth", "loop"}

Readings == {"telemetry", "beat"}
Malformed == {"pubBad", "infoBad", "broken"}

----------------------------------------------------------------------------

\* runDevice begins by serving the device as WAIT.
Init ==
    /\ phase = "scan" /\ enc = 0
    /\ rawCh = <<>> /\ simple = <<>> /\ work = <<>> /\ pending = <<>>
    /\ connOpen = FALSE /\ err = "nil"
    /\ status = "WAIT"
    /\ freshAge = AgeCap /\ packetAge = 0 /\ tickAge = 0 /\ tickReady = FALSE
    /\ isStale = TRUE
    /\ authSeen = FALSE /\ early = FALSE /\ loss = "none" /\ malformed = FALSE
    /\ ctxDone = FALSE

\* runSession returns e: the deferred conn.Close comes next, if there is one.
Return(e) ==
    /\ err' = e
    /\ phase' = IF connOpen THEN "closing" ELSE "ended"
    /\ simple' = <<>> /\ work' = <<>> /\ pending' = <<>>

----------------------------------------------------------------------------
(* Scanning, connecting, subscribing.                                      *)

\* FindByMAC and resolveDescriptor: the scan finds a supported device, or it
\* ends with an error (not found in time, unsupported serial, cancelled).
FindByMAC ==
    /\ phase = "scan"
    /\ \/ /\ phase' = "connect"
          /\ enc' \in EncTypes
          /\ UNCHANGED <<err, locals>>
       \/ Return("transport") /\ UNCHANGED enc
    /\ UNCHANGED <<rawCh, connOpen, status, clocks, isStale, history, ctxDone>>

\* connectWithTimeout does not begin with a context that is done.
BeginConnect ==
    /\ phase = "connect"
    /\ \/ ctxDone /\ Return("cancelled")
       \/ ~ctxDone /\ phase' = "connecting" /\ UNCHANGED <<err, locals>>
    /\ UNCHANGED <<enc, rawCh, connOpen, status, clocks, isStale, history, ctxDone>>

\* A connection is handed over, also one that is established just as the
\* context is cancelled, or the attempt fails, times out or is cancelled.
Connect ==
    /\ phase = "connecting"
    /\ \/ connOpen' = TRUE /\ phase' = "subscribe" /\ UNCHANGED <<err, locals>>
       \/ Return("transport") /\ UNCHANGED connOpen
    /\ UNCHANGED <<enc, rawCh, status, clocks, isStale, history, ctxDone>>

\* A new rawCh, StartNotifications, and the first write of bootstrapSession.
StartNotifications ==
    /\ phase = "subscribe"
    /\ rawCh' = <<>>
    /\ \/ /\ enc \in {0, 1} /\ phase' = "authenticate"
          /\ UNCHANGED <<err, locals>>
       \/ /\ enc = 7 /\ phase' = "pubkey"
          /\ UNCHANGED <<err, locals>>
       \/ Return("transport")
       \/ enc \notin {0, 1, 7} /\ Return("protocol")
    /\ UNCHANGED <<enc, connOpen, status, clocks, isStale, history, ctxDone>>

----------------------------------------------------------------------------
(* The notification callback.                                              *)

\* ParsePacket accepts m: a repeated handshake reply decrypts to something
\* that is no packet.
ParsePacket(m) == m \notin {"pub", "pubBad", "info", "infoBad"}

\* What chunk c becomes when a part of a frame before it was dropped: the
\* frame is filled up with the beginning of the next one, which is lost.  A
\* checksum over the whole frame refuses it; packets of encrypt types 0 and 1
\* may be in the format that has none, and then parse as anything.
Spliced(c) ==
    {Tail(c)} \cup
    (IF enc = 7 THEN {} ELSE {<<m>> \o Tail(c) : m \in {x \in Messages : ParsePacket(x)}})

\* The callback's select, with room in rawCh.  A frame that was cut may go on
\* waiting for its bytes.
Notify ==
    /\ phase \in Listening \cup {"authenticate", "reading"}
    /\ Len(rawCh) < QueueCap
    /\ \E c \in Chunks :
         /\ malformed' = (malformed \/ ToSet(c) \cap Malformed # {})
         /\ \/ rawCh' = Append(rawCh, c) /\ UNCHANGED loss
            \/ loss = "cut" /\ rawCh' = Append(rawCh, <<>>) /\ UNCHANGED loss
            \/ /\ loss = "cut" /\ c # <<>>
               /\ \E d \in Spliced(c) : rawCh' = Append(rawCh, d)
               /\ loss' = "spliced"
    /\ UNCHANGED <<phase, enc, locals, connOpen, err, status, clocks, isStale,
                   authSeen, early, ctxDone>>

\* The callback's select, with rawCh full: the notification is dropped.  If it
\* ended at the end of a frame that leaves no trace, else a frame is cut.
NotificationDropped ==
    /\ phase \in Listening \cup {"authenticate", "reading"}
    /\ Len(rawCh) = QueueCap
    /\ loss' = "cut"
    /\ UNCHANGED <<phase, enc, rawCh, locals, connOpen, err, status, clocks,
                   isStale, authSeen, early, malformed, ctxDone>>

----------------------------------------------------------------------------
(* The key agreement of encrypt type 7.                                    *)

\* The command byte of a handshake reply that waitForSimplePayload waits for.
Expected(p) == IF p = "pubkey" THEN {"pub", "pubBad"} ELSE {"info", "infoBad"}

\* Parse(chunk): its replies go to the assembler's buffer.
ReadReply ==
    /\ phase \in Handshake
    /\ simple = <<>> /\ rawCh # <<>>
    /\ simple' = Head(rawCh) /\ rawCh' = Tail(rawCh)
    /\ UNCHANGED <<phase, enc, work, pending, connOpen, err, status, clocks, isStale,
                   history, ctxDone>>

\* Mutant of TakeReply: the first reply is taken, whatever its command is.
TakeReplyAnyCommand ==
    /\ phase \in Handshake
    /\ simple # <<>>
    /\ \/ /\ Head(simple) = (IF phase = "pubkey" THEN "pub" ELSE "info")
          /\ phase' = IF phase = "pubkey" THEN "keyinfo" ELSE "authenticate"
          /\ simple' = IF phase = "pubkey" THEN Tail(simple) ELSE <<>>
          /\ UNCHANGED <<err, work, pending>>
       \/ /\ Head(simple) # (IF phase = "pubkey" THEN "pub" ELSE "info")
          /\ Return("protocol")
    /\ UNCHANGED <<enc, rawCh, connOpen, status, clocks, isStale, history, ctxDone>>

\* The next buffered reply: another command is skipped (devices repeat their
\* replies), a malformed one ends the session, a good one leads to the next
\* write, which may fail.  The buffer of the handshake does not outlive it.
TakeReply ==
    /\ phase \in Handshake
    /\ simple # <<>>
    /\ \/ /\ Head(simple) \notin Expected(phase)
          /\ simple' = Tail(simple)
          /\ UNCHANGED <<phase, err, work, pending>>
       \/ Head(simple) \in {"pubBad", "infoBad"} \cap Expected(phase)
          /\ Return("protocol")
       \/ /\ Head(simple) = "pub" /\ phase = "pubkey"
          /\ \/ phase' = "keyinfo" /\ simple' = Tail(simple) /\ UNCHANGED <<err, work, pending>>
             \/ Return("transport")
       \/ /\ Head(simple) = "info" /\ phase = "keyinfo"
          /\ phase' = "authenticate" /\ simple' = <<>>
          /\ UNCHANGED <<err, work, pending>>
    /\ UNCHANGED <<enc, rawCh, connOpen, status, clocks, isStale, history, ctxDone>>

----------------------------------------------------------------------------
(* Authentication.                                                         *)

\* finishAuthentication writes the status request and the user's token.
Authenticate ==
    /\ phase = "authenticate"
    /\ \/ phase' = "auth" /\ UNCHANGED <<err, locals>>
       \/ Return("transport")
    /\ UNCHANGED <<enc, rawCh, connOpen, status, clocks, isStale, history, ctxDone>>

\* finishAuthentication receives a chunk and reassembles it.
AuthChunk ==
    /\ phase = "auth" /\ rawCh # <<>>
    /\ phase' = "reading"
    /\ work' = Head(rawCh) /\ rawCh' = Tail(rawCh)
    /\ UNCHANGED <<enc, simple, pending, connOpen, err, status, clocks, isStale,
                   history, ctxDone>>

\* One packet of the chunk: what does not parse is skipped, a refusal ends the
\* session, a success is remembered, every other packet is passed on.
AuthPacket ==
    /\ phase = "reading" /\ work # <<>>
    /\ \/ /\ ~ParsePacket(Head(work))
          /\ work' = Tail(work)
          /\ UNCHANGED <<phase, err, simple, pending, authSeen, early>>
       \/ /\ Head(work) = "authFail"
          /\ Return("refused")
          /\ UNCHANGED <<authSeen, early>>
       \/ /\ Head(work) = "authOk"
          /\ authSeen' = TRUE
          /\ work' = Tail(work)
          /\ UNCHANGED <<phase, err, simple, pending, early>>
       \/ /\ ParsePacket(Head(work)) /\ Head(work) \notin {"authOk", "authFail"}
          /\ pending' = Append(pending, Head(work))
          /\ early' = (early \/ Head(work) \in Readings)
          /\ work' = Tail(work)
          /\ UNCHANGED <<phase, err, simple, authSeen>>
    /\ UNCHANGED <<enc, rawCh, connOpen, status, clocks, isStale, loss, malformed,
                   ctxDone>>

\* The session loop starts with these packets: ticker, clocks and flags are new.
EnterLoop(packets) ==
    /\ phase' = "loop"
    /\ work' = packets /\ pending' = <<>>
    /\ freshAge' = AgeCap /\ packetAge' = 0
    /\ tickAge' = 0 /\ tickReady' = FALSE
    /\ isStale' = TRUE

\* Mutant of AuthResult: after a success nothing is passed on.
AuthResultDropsPending ==
    /\ phase = "reading" /\ work = <<>>
    /\ \/ (authSeen \/ pending # <<>>) /\ EnterLoop(IF authSeen THEN <<>> ELSE pending)
       \/ /\ ~authSeen /\ pending = <<>>
          /\ phase' = "auth"
          /\ UNCHANGED <<work, pending, clocks, isStale>>
    /\ UNCHANGED <<enc, rawCh, simple, connOpen, err, status, history, ctxDone>>

\* The chunk is read: a success or a packet to pass on ends the authentication.
AuthResult ==
    /\ phase = "reading" /\ work = <<>>
    /\ \/ (authSeen \/ pending # <<>>) /\ EnterLoop(pending)
       \/ /\ ~authSeen /\ pending = <<>>
          /\ phase' = "auth"
          /\ UNCHANGED <<work, pending, clocks, isStale>>
    /\ UNCHANGED <<enc, rawCh, simple, connOpen, err, status, history, ctxDone>>

\* The timers of waitForSimplePayload and finishAuthentication.
HandshakeTimeout ==
    /\ phase \in Handshake \cup {"auth"}
    /\ simple = <<>>
    /\ Return("timeout")
    /\ UNCHANGED <<enc, rawCh, connOpen, status, clocks, isStale, history, ctxDone>>

----------------------------------------------------------------------------
(* The session loop.                                                       *)

\* A chunk is received; it counts as a packet even if nothing parses.
LoopChunk ==
    /\ phase = "loop" /\ work = <<>> /\ rawCh # <<>>
    /\ packetAge' = 0
    /\ work' = Head(rawCh) /\ rawCh' = Tail(rawCh)
    /\ UNCHANGED <<phase, enc, simple, pending, connOpen, err, status, freshAge, tickAge,
                   tickReady, isStale, history, ctxDone>>

\* A reading: the merged telemetry is served and the device is fresh.
Publish ==
    /\ status' = "LIVE" /\ freshAge' = 0 /\ isStale' = FALSE
    /\ early' = FALSE
    /\ work' = Tail(work)

\* Mutant of processPacket: isStale is not reset by a reading.
processPacketKeepsFlag ==
    /\ phase = "loop" /\ work # <<>>
    /\ \/ /\ Head(work) \in Readings
          /\ status' = "LIVE" /\ freshAge' = 0 /\ early' = FALSE
          /\ work' = Tail(work)
          /\ UNCHANGED <<phase, err, simple, pending, authSeen>>
       \/ /\ ~ParsePacket(Head(work)) \/ Head(work) \in {"other", "time", "authOk"}
          /\ work' = Tail(work)
          /\ UNCHANGED <<phase, err, simple, pending, status, freshAge, authSeen, early>>
       \/ /\ Head(work) \in {"broken", "authFail"} /\ Return("protocol")
          /\ UNCHANGED <<status, freshAge, authSeen, early>>
    /\ UNCHANGED <<enc, rawCh, connOpen, packetAge, tickAge, tickReady, isStale,
                   loss, malformed, ctxDone>>

\* One message of a chunk: what does not parse is skipped.  Time requests and
\* heartbeats are answered first, and the session ends if that write fails; a
\* later refusal ends it too.
processPacket ==
    /\ phase = "loop" /\ work # <<>>
    /\ \/ /\ Head(work) \in Readings
          /\ Publish
          /\ UNCHANGED <<phase, err, simple, pending, authSeen>>
       \/ /\ ~ParsePacket(Head(work)) \/ Head(work) \in {"other", "time"}
          /\ work' = Tail(work)
          /\ UNCHANGED <<phase, err, simple, pending, status, freshAge, isStale,
                         authSeen, early>>
       \/ /\ Head(work) = "authOk"
          /\ authSeen' = TRUE
          /\ work' = Tail(work)
          /\ UNCHANGED <<phase, err, simple, pending, status, freshAge, isStale, early>>
       \/ /\ \/ Head(work) \in {"beat", "time"} /\ Return("transport")
             \/ Head(work) = "broken" /\ Return("protocol")
             \/ Head(work) = "authFail" /\ Return("refused")
          /\ UNCHANGED <<status, freshAge, isStale, authSeen, early>>
    /\ UNCHANGED <<enc, rawCh, connOpen, packetAge, tickAge, tickReady, loss, malformed,
                   ctxDone>>

staleAfter == freshAge >= Stale

\* Mutant of IdleTick: the staleness of a device is not looked at.
IdleTickIgnoresStale ==
    /\ phase = "loop" /\ work = <<>> /\ tickReady
    /\ tickReady' = FALSE
    /\ \/ packetAge < 2 * Poll /\ UNCHANGED <<phase, err, locals>>
       \/ packetAge >= Poll /\ Return("transport")
       \/ packetAge >= 2 * Poll /\ Return("idle")
    /\ UNCHANGED <<enc, rawCh, connOpen, status, freshAge, packetAge, tickAge,
                   isStale, history, ctxDone>>

\* Mutant of IdleTick: a silent device is never given up.
IdleTickNeverEnds ==
    /\ phase = "loop" /\ work = <<>> /\ tickReady
    /\ tickReady' = FALSE
    /\ isStale' = (isStale \/ staleAfter)
    /\ status' = IF staleAfter /\ ~isStale THEN "WAIT" ELSE status
    /\ UNCHANGED <<phase, err, locals, enc, rawCh, connOpen, freshAge,
                   packetAge, tickAge, history, ctxDone>>

\* A tick of idleTicker: the stale transition, the probe after one silent
\* period (the write may fail), the idle timeout after two.
IdleTick ==
    /\ phase = "loop" /\ work = <<>> /\ tickReady
    /\ tickReady' = FALSE
    /\ isStale' = (isStale \/ staleAfter)
    /\ status' = IF staleAfter /\ ~isStale THEN "WAIT" ELSE status
    /\ \/ packetAge < 2 * Poll /\ UNCHANGED <<phase, err, locals>>
       \/ packetAge >= Poll /\ Return("transport")
       \/ packetAge >= 2 * Poll /\ Return("idle")
    /\ UNCHANGED <<enc, rawCh, connOpen, freshAge, packetAge, tickAge,
                   history, ctxDone>>

Older(age, cap) == IF age < cap THEN age + 1 ELSE age

\* A second passes while the loop has nothing to receive.
Second ==
    /\ phase = "loop" /\ work = <<>> /\ rawCh = <<>> /\ ~tickReady /\ ~ctxDone
    /\ freshAge' = Older(freshAge, AgeCap)
    /\ packetAge' = Older(packetAge, PacketCap)
    /\ tickAge' = IF tickAge + 1 = Poll THEN 0 ELSE tickAge + 1
    /\ tickReady' = (tickAge + 1 = Poll)
    /\ UNCHANGED <<phase, enc, rawCh, locals, connOpen, err, status,
                   isStale, history, ctxDone>>

----------------------------------------------------------------------------
(* Cancellation and the end of a session.                                  *)

\* Mutant of Cancelled: the session loop has no ctx.Done case.
CancelledNotInLoop ==
    /\ ctxDone
    /\ phase \in Handshake \cup {"auth"} /\ simple = <<>>
    /\ Return("cancelled")
    /\ UNCHANGED <<enc, rawCh, connOpen, status, clocks, isStale, history, ctxDone>>

\* The ctx.Done case of the selects: an error during the handshake, a normal
\* end of the session loop.
Cancelled ==
    /\ ctxDone
    /\ phase \in Listening /\ simple = <<>> /\ work = <<>>
    /\ Return(IF phase = "loop" THEN "nil" ELSE "cancelled")
    /\ UNCHANGED <<enc, rawCh, connOpen, status, clocks, isStale, history, ctxDone>>

\* Mutant of Close: the connection of a failed session is left open.
CloseOnlyOnSuccess ==
    /\ phase = "closing"
    /\ phase' = "ended"
    /\ connOpen' = (err # "nil")
    /\ UNCHANGED <<enc, rawCh, locals, err, status, clocks, isStale,
                   history, ctxDone>>

\* The deferred conn.Close.
Close ==
    /\ phase = "closing"
    /\ connOpen' = FALSE
    /\ phase' = "ended"
    /\ UNCHANGED <<enc, rawCh, locals, err, status, clocks, isStale,
                   history, ctxDone>>

\* Mutant of SessionEnded: the device is not served as WAIT after a failure.
SessionEndedKeepsVars ==
    /\ phase = "ended"
    /\ phase' = IF err = "nil" \/ ctxDone THEN "done" ELSE "backoff"
    /\ rawCh' = <<>>
    /\ authSeen' = FALSE /\ early' = FALSE /\ loss' = "none" /\ malformed' = FALSE
    /\ UNCHANGED <<enc, locals, connOpen, err, status, clocks, isStale,
                   ctxDone>>

\* Mutant of SessionEnded: an idle session ends the goroutine for good.
SessionEndedOnIdle ==
    /\ phase = "ended"
    /\ rawCh' = <<>>
    /\ authSeen' = FALSE /\ early' = FALSE /\ loss' = "none" /\ malformed' = FALSE
    /\ freshAge' = AgeCap /\ packetAge' = 0 /\ tickAge' = 0 /\ tickReady' = FALSE
    /\ isStale' = TRUE
    /\ \/ (err \in {"nil", "idle"} \/ ctxDone) /\ phase' = "done" /\ UNCHANGED status
       \/ (err \notin {"nil", "idle"} /\ ~ctxDone) /\ phase' = "backoff" /\ status' = "WAIT"
    /\ UNCHANGED <<enc, locals, connOpen, err, ctxDone>>

\* runDevice after runSession: it returns, or serves the device as WAIT and
\* schedules the next attempt.  The session's channel and flags are gone.
SessionEnded ==
    /\ phase = "ended"
    /\ rawCh' = <<>>
    /\ authSeen' = FALSE /\ early' = FALSE /\ loss' = "none" /\ malformed' = FALSE
    /\ freshAge' = AgeCap /\ packetAge' = 0 /\ tickAge' = 0 /\ tickReady' = FALSE
    /\ isStale' = TRUE
    /\ \/ (err = "nil" \/ ctxDone) /\ phase' = "done" /\ UNCHANGED status
       \/ (err # "nil" /\ ~ctxDone) /\ phase' = "backoff" /\ status' = "WAIT"
    /\ UNCHANGED <<enc, locals, connOpen, err, ctxDone>>

\* The reconnect delay, or cancellation during it.
Backoff ==
    /\ phase = "backoff"
    /\ \/ ctxDone /\ phase' = "done"
       \/ phase' = "scan"
    /\ UNCHANGED <<enc, rawCh, locals, connOpen, err, status, clocks,
                   isStale, history, ctxDone>>

\* Disable, shutdown or a failed provider cancels the context.
Cancel ==
    /\ ~ctxDone
    /\ ctxDone' = TRUE
    /\ UNCHANGED <<phase, enc, rawCh, locals, connOpen, err, status,
                   clocks, isStale, history>>

----------------------------------------------------------------------------

\* The straight-line steps of the goroutine, which nothing can hold up.
Straight == \/ FindByMAC \/ BeginConnect \/ Connect \/ StartNotifications
            \/ TakeReply \/ Authenticate \/ AuthPacket \/ AuthResult
            \/ processPacket \/ Close \/ SessionEnded \/ Backoff

\* The cases of its selects that receive something.
Receive == ReadReply \/ AuthChunk \/ LoopChunk

Next == \/ Straight \/ Receive
        \/ HandshakeTimeout \/ IdleTick \/ Cancelled
        \/ Second \/ Notify \/ NotificationDropped \/ Cancel

\* The goroutine is scheduled, scans and connection attempts end (both have a
\* timeout), timers fire and time passes.  A Go select chooses among its ready
\* cases at random, so a case that is ready again and again is chosen: strong
\* fairness for ctx.Done, the timers and the ticker.
Fairness ==
    /\ WF_vars(Straight) /\ WF_vars(Receive)
    /\ SF_vars(HandshakeTimeout)
    /\ SF_vars(IdleTick) /\ SF_vars(Cancelled)
    /\ SF_vars(Second)

Spec == Init /\ [][Next]_vars /\ Fairness

----------------------------------------------------------------------------
(* Properties.                                                             *)

\* Types of the session's locals, channels and clocks.
TypeOK ==
    /\ phase \in {"scan", "connect", "connecting", "subscribe",
                  "authenticate", "reading", "closing", "ended", "backoff",
                  "done"} \cup Listening
    /\ enc \in EncTypes \cup {0}
    /\ rawCh \in Seq(Seq(Messages)) /\ Len(rawCh) <= QueueCap
    /\ simple \in Seq(Messages) /\ work \in Seq(Messages) /\ pending \in Seq(Messages)
    /\ connOpen \in BOOLEAN
    /\ err \in {"nil", "transport", "protocol", "refused", "timeout", "idle",
                "cancelled"}
    /\ status \in {"WAIT", "LIVE"}
    /\ freshAge \in 0..AgeCap /\ packetAge \in 0..PacketCap
    /\ tickAge \in 0..(Poll - 1) /\ tickReady \in BOOLEAN
    /\ isStale \in BOOLEAN /\ authSeen \in BOOLEAN /\ early \in BOOLEAN
    /\ loss \in {"none", "cut", "spliced"} /\ malformed \in BOOLEAN
    /\ ctxDone \in BOOLEAN

\* Staleness is bounded: the session loop looks at it once per poll interval,
\* so telemetry older than the stale timeout is served for less than one poll
\* interval more, however chunks without readings and ticks are interleaved.
LiveIsRecent == phase = "loop" /\ status = "LIVE" => freshAge < Stale + Poll

\* The isStale flag and the store agree, so that the stale transition is
\* neither lost nor repeated, across readings, ticks and reconnects.
StaleFlagHonest == phase = "loop" => (isStale <=> status = "WAIT")

\* Without a session there is no live data: scanning, connecting, handshake,
\* authentication and the reconnect delay are served as WAIT, also after a
\* session that failed while its device was live.
NoSessionNoData ==
    status = "LIVE" => phase \in {"loop", "closing", "ended", "done"}

\* Every way out of a session closes its connection, and a session never
\* starts with the connection of an earlier one.
NoConnectionLeak ==
    phase \in {"scan", "connect", "connecting", "ended", "backoff", "done"} => ~connOpen

\* A device that sends nothing is given up before three poll intervals.
IdleBounded == phase = "loop" => packetAge < 3 * Poll

\* A session in which a device of a known encrypt type has sent nothing
\* malformed ends with a protocol error only if a notification with a part of
\* a frame was dropped and the frames carry no checksum of their own (encrypt
\* types 0 and 1).  Replies may be repeated, delayed past the step that waited
\* for them and mixed with other packets, and with encrypt type 7 also cut.
WellFormedNeverRejected ==
    phase \in {"closing", "ended"} /\ err = "protocol" /\ enc \in {0, 1, 7} =>
        malformed \/ (enc # 7 /\ loss # "none")

\* Readings that arrive with, before or behind the authentication reply are
\* not lost between finishAuthentication and the loop: they are served
\* before the loop waits for anything else.
EarlyReadingsServed == phase = "loop" /\ work = <<>> => ~early

\* The goroutine as one device of the contract that Provider relies on.
Device == INSTANCE DeviceContract
    WITH Devices  <- {0},
         served   <- [d \in {0} |-> status],
         connOpen <- [d \in {0} |-> connOpen],
         gr       <- [d \in {0} |-> IF phase = "done" THEN "done" ELSE "running"]

\* runDevice keeps its contract through every way a session can fail: live
\* data only from an open connection, WAIT before the next connection, and
\* no return unless the context is done and the connection closed.  Run's
\* select would not notice a goroutine that ended by itself.
ImplementsDevice == Device!Spec

\* Cancellation ends the goroutine and closes its connection, whatever it is
\* doing and however many notifications keep coming.
CancelEnds == ctxDone ~> phase = "done" /\ ~connOpen

\* The device is tried again and again: a session that is not in its loop
\* ends its handshake one way or the other, and a device that falls silent is
\* scanned for again.
SilentDeviceRetried ==
    []<>(phase = "scan" \/ ctxDone) \/ []<><<Notify>>_vars

\* SECURITY.md: a session counts as authenticated by the device's reply, not
\* by telemetry that happens to arrive.
LiveIsAuthenticated == phase = "loop" /\ status = "LIVE" => authSeen
=============================================================================
