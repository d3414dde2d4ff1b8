--------------------------- MODULE SessionProofs ---------------------------
(***************************************************************************)
(* Proofs about Session, for all periods, queue capacities, encrypt types  *)
(* and notifications.                                                      *)
(***************************************************************************)
EXTENDS Session, TLAPS

\* From the subscription to the deferred Close the session has a connection.
ConnectionHeld ==
    phase \in {"subscribe", "authenticate", "reading", "closing"} \cup Listening => connOpen

\* runSession returns nil only if it was cancelled.
NilIsCancelled == phase \in {"closing", "ended"} /\ err = "nil" => ctxDone

\* Time until the loop has looked at the clocks again.  A tick that is due
\* stops time (handling it takes none), so that at most Poll is missing.
SinceLook == IF tickReady THEN Poll ELSE tickAge

\* At the last tick the device was not stale, or it has been fresh since.
FreshAtLook == phase = "loop" /\ status = "LIVE" => freshAge < Stale + SinceLook

\* At the last tick the device had been silent for less than two periods, or
\* it has sent something since.
HeardAtLook == phase = "loop" => packetAge < 2 * Poll + SinceLook

\* The session's device has sent good messages only, and their frames are
\* whole: none was cut, or the checksum of encrypt type 7 finds the ones that
\* were.
Good == Messages \ Malformed
Sound == ~malformed /\ (enc = 7 \/ (enc \in {0, 1} /\ loss = "none"))

\* Then what such a device has sent stays good wherever it is kept.
GoodKept ==
    Sound =>
        /\ rawCh \in Seq(Seq(Good))
        /\ simple \in Seq(Good) /\ work \in Seq(Good) /\ pending \in Seq(Good)

\* Outside of a session nothing of one is left.
Between == {"scan", "connect", "connecting", "subscribe", "backoff", "done"}
NothingLeft ==
    /\ phase \in Between => rawCh = <<>> /\ loss = "none" /\ ~early
    /\ phase \notin Handshake => simple = <<>>
    /\ phase \notin {"reading", "loop"} => work = <<>>
    /\ phase # "reading" => pending = <<>>

\* s holds a reading.
HasReading(s) == \E i \in 1..Len(s) : s[i] \in Readings

\* Readings taken during the authentication are where they will be served
\* from, unless the session ends.
EarlyKept ==
    early => \/ phase = "reading" /\ HasReading(pending)
             \/ phase = "loop" /\ HasReading(work)
             \/ phase \in {"closing", "ended"}

\* The inductive invariant.
IInv ==
    /\ TypeOK
    /\ ConnectionHeld /\ NoConnectionLeak /\ NilIsCancelled
    /\ NoSessionNoData /\ StaleFlagHonest
    /\ FreshAtLook /\ HeardAtLook
    /\ NothingLeft /\ EarlyKept
    /\ GoodKept /\ WellFormedNeverRejected

----------------------------------------------------------------------------

\* Every step keeps the parts that tie the connection, the result of the
\* session and what is served to the place where the goroutine is.
LEMMA PhaseStep == IInv /\ [Next]_vars => (ConnectionHeld /\ NoConnectionLeak /\ NilIsCancelled /\ NoSessionNoData)'
<1> SUFFICES ASSUME IInv, [Next]_vars PROVE (ConnectionHeld /\ NoConnectionLeak /\ NilIsCancelled /\ NoSessionNoData)'
  OBVIOUS
<1> USE DEF IInv, TypeOK, ConnectionHeld, NoConnectionLeak, NilIsCancelled,
            NoSessionNoData, Listening, Handshake, Return, clocks, history, locals
<1>1. CASE FindByMAC
  BY <1>1 DEF FindByMAC
<1>2. CASE BeginConnect
  BY <1>2 DEF BeginConnect
<1>3. CASE Connect
  BY <1>3 DEF Connect
<1>4. CASE StartNotifications
  BY <1>4 DEF StartNotifications
<1>5. CASE TakeReply
  BY <1>5 DEF TakeReply
<1>6. CASE Authenticate
  BY <1>6 DEF Authenticate
<1>7. CASE processPacket
  BY <1>7 DEF processPacket, Publish
<1>8. CASE Close
  BY <1>8 DEF Close
<1>9. CASE SessionEnded
  BY <1>9 DEF SessionEnded
<1>10. CASE Backoff
  BY <1>10 DEF Backoff
<1>11. CASE ReadReply
  BY <1>11 DEF ReadReply
<1>12. CASE AuthChunk
  BY <1>12 DEF AuthChunk
<1>13. CASE LoopChunk
  BY <1>13 DEF LoopChunk
<1>14. CASE HandshakeTimeout
  BY <1>14 DEF HandshakeTimeout
<1>15. CASE IdleTick
  BY <1>15 DEF IdleTick
<1>16. CASE Cancelled
  BY <1>16 DEF Cancelled
<1>17. CASE Second
  BY <1>17 DEF Second
<1>18. CASE Notify
  BY <1>18 DEF Notify
<1>19. CASE Cancel
  BY <1>19 DEF Cancel
<1>20. CASE UNCHANGED vars
  BY <1>20 DEF vars
<1>21. CASE AuthPacket
  BY <1>21 DEF AuthPacket
<1>22. CASE AuthResult
  BY <1>22 DEF AuthResult, EnterLoop
<1>23. CASE NotificationDropped
  BY <1>23 DEF NotificationDropped
<1>24. QED
  BY <1>1, <1>2, <1>3, <1>4, <1>5, <1>6, <1>7, <1>8, <1>9, <1>10, <1>11, <1>12, <1>13, <1>14, <1>15, <1>16, <1>17, <1>18, <1>19, <1>20,
     <1>21, <1>22, <1>23
  DEF Next, Straight, Receive

\* Every step keeps the parts about staleness and silence.
LEMMA ClockStep == IInv /\ [Next]_vars => (StaleFlagHonest /\ FreshAtLook /\ HeardAtLook)'
<1> SUFFICES ASSUME IInv, [Next]_vars PROVE (StaleFlagHonest /\ FreshAtLook /\ HeardAtLook)'
  OBVIOUS
<1> USE TimesAssumption
    DEF IInv, TypeOK, StaleFlagHonest, FreshAtLook, HeardAtLook, SinceLook,
        NoSessionNoData, Listening, Handshake, Return, clocks, history, locals, AgeCap, PacketCap
<1>1. CASE FindByMAC
  BY <1>1 DEF FindByMAC
<1>2. CASE BeginConnect
  BY <1>2 DEF BeginConnect
<1>3. CASE Connect
  BY <1>3 DEF Connect
<1>4. CASE StartNotifications
  BY <1>4 DEF StartNotifications
<1>5. CASE TakeReply
  BY <1>5 DEF TakeReply
<1>6. CASE Authenticate
  BY <1>6 DEF Authenticate
<1>7. CASE processPacket
  BY <1>7 DEF processPacket, Publish
<1>8. CASE Close
  BY <1>8 DEF Close
<1>9. CASE SessionEnded
  BY <1>9 DEF SessionEnded
<1>10. CASE Backoff
  BY <1>10 DEF Backoff
<1>11. CASE ReadReply
  BY <1>11 DEF ReadReply
<1>12. CASE AuthChunk
  BY <1>12 DEF AuthChunk
<1>13. CASE LoopChunk
  BY <1>13 DEF LoopChunk
<1>14. CASE HandshakeTimeout
  BY <1>14 DEF HandshakeTimeout
<1>15. CASE IdleTick
  <2>1. /\ staleAfter => isStale'
        /\ ~staleAfter => (isStale' <=> isStale)
    BY <1>15, Zenon DEF IdleTick
  <2>2. StaleFlagHonest'
    BY <1>15, <2>1 DEF IdleTick
  <2>3. FreshAtLook'
    BY <1>15, <2>1 DEF IdleTick, staleAfter
  <2>4. HeardAtLook'
    BY <1>15 DEF IdleTick
  <2>5. QED
    BY <2>2, <2>3, <2>4
<1>16. CASE Cancelled
  BY <1>16 DEF Cancelled
<1>17. CASE Second
  <2>1. tickReady' <=> tickAge + 1 = Poll
    BY <1>17, Zenon DEF Second
  <2>2. StaleFlagHonest'
    BY <1>17 DEF Second
  <2>3. FreshAtLook'
    BY <1>17, <2>1 DEF Second, Older
  <2>4. HeardAtLook'
    BY <1>17, <2>1 DEF Second, Older
  <2>5. QED
    BY <2>2, <2>3, <2>4
<1>18. CASE Notify
  BY <1>18 DEF Notify
<1>19. CASE Cancel
  BY <1>19 DEF Cancel
<1>20. CASE UNCHANGED vars
  BY <1>20 DEF vars
<1>21. CASE AuthPacket
  BY <1>21 DEF AuthPacket
<1>22. CASE AuthResult
  BY <1>22 DEF AuthResult, EnterLoop
<1>23. CASE NotificationDropped
  BY <1>23 DEF NotificationDropped
<1>24. QED
  BY <1>1, <1>2, <1>3, <1>4, <1>5, <1>6, <1>7, <1>8, <1>9, <1>10, <1>11, <1>12, <1>13, <1>14, <1>15, <1>16, <1>17, <1>18, <1>19, <1>20,
     <1>21, <1>22, <1>23
  DEF Next, Straight, Receive

\* TypeOK in two parts: the sequences, and everything else.
QueuesOK ==
    /\ rawCh \in Seq(Seq(Messages)) /\ Len(rawCh) <= QueueCap
    /\ simple \in Seq(Messages) /\ work \in Seq(Messages) /\ pending \in Seq(Messages)

ControlOK ==
    /\ phase \in {"scan", "connect", "connecting", "subscribe",
                  "authenticate", "reading", "closing", "ended", "backoff",
                  "done"} \cup Listening
    /\ enc \in EncTypes \cup {0}
    /\ connOpen \in BOOLEAN
    /\ err \in {"nil", "transport", "protocol", "refused", "timeout", "idle",
                "cancelled"}
    /\ status \in {"WAIT", "LIVE"}
    /\ freshAge \in 0..AgeCap /\ packetAge \in 0..PacketCap
    /\ tickAge \in 0..(Poll - 1) /\ tickReady \in BOOLEAN
    /\ isStale \in BOOLEAN /\ authSeen \in BOOLEAN /\ early \in BOOLEAN
    /\ loss \in {"none", "cut", "spliced"} /\ malformed \in BOOLEAN
    /\ ctxDone \in BOOLEAN

LEMMA TypeParts == TypeOK <=> QueuesOK /\ ControlOK
  BY DEF TypeOK, QueuesOK, ControlOK

\* Every step keeps the types of places, flags and clocks.
LEMMA ControlStep == ControlOK /\ [Next]_vars => ControlOK'
<1> SUFFICES ASSUME ControlOK, [Next]_vars PROVE ControlOK'
  OBVIOUS
<1> USE TimesAssumption
    DEF ControlOK, Listening, Handshake, Return, clocks, history, locals, AgeCap, PacketCap
<1>1. CASE FindByMAC
  BY <1>1 DEF FindByMAC
<1>2. CASE BeginConnect
  BY <1>2 DEF BeginConnect
<1>3. CASE Connect
  <2>1. connOpen' \in BOOLEAN
    BY <1>3, Zenon DEF Connect
  <2>2. QED
    BY <1>3, <2>1 DEF Connect
<1>4. CASE StartNotifications
  BY <1>4 DEF StartNotifications
<1>5. CASE TakeReply
  BY <1>5 DEF TakeReply
<1>6. CASE Authenticate
  BY <1>6 DEF Authenticate
<1>7. CASE processPacket
  <2>1. /\ phase' \in {phase, "closing", "ended"}
        /\ err' \in {err, "transport", "protocol", "refused"}
        /\ status' \in {status, "LIVE"} /\ freshAge' \in {freshAge, 0}
    BY <1>7 DEF processPacket, Publish
  <2>2. isStale' \in BOOLEAN /\ authSeen' \in BOOLEAN /\ early' \in BOOLEAN
    BY <1>7, Zenon DEF processPacket, Publish
  <2>3. UNCHANGED <<enc, connOpen, packetAge, tickAge, tickReady, loss, malformed, ctxDone>>
    BY <1>7 DEF processPacket
  <2>4. QED
    BY <2>1, <2>2, <2>3
<1>8. CASE Close
  BY <1>8 DEF Close
<1>9. CASE SessionEnded
  <2>1. phase' \in {"done", "backoff"} /\ status' \in {status, "WAIT"}
    BY <1>9 DEF SessionEnded
  <2>2. /\ isStale' \in BOOLEAN /\ tickReady' \in BOOLEAN
        /\ authSeen' \in BOOLEAN /\ early' \in BOOLEAN /\ malformed' \in BOOLEAN
    BY <1>9, Zenon DEF SessionEnded
  <2>3. /\ freshAge' = AgeCap /\ packetAge' = 0 /\ tickAge' = 0 /\ loss' = "none"
        /\ UNCHANGED <<enc, connOpen, err, ctxDone>>
    BY <1>9 DEF SessionEnded
  <2>4. QED
    BY <2>1, <2>2, <2>3
<1>10. CASE Backoff
  BY <1>10 DEF Backoff
<1>11. CASE ReadReply
  BY <1>11 DEF ReadReply
<1>12. CASE AuthChunk
  BY <1>12 DEF AuthChunk
<1>13. CASE LoopChunk
  BY <1>13 DEF LoopChunk
<1>14. CASE HandshakeTimeout
  BY <1>14 DEF HandshakeTimeout
<1>15. CASE IdleTick
  BY <1>15 DEF IdleTick, staleAfter
<1>16. CASE Cancelled
  BY <1>16 DEF Cancelled
<1>17. CASE Second
  BY <1>17 DEF Second, Older
<1>18. CASE Notify
  <2>1. malformed' \in BOOLEAN
    BY <1>18, Zenon DEF Notify
  <2>2. QED
    BY <1>18, <2>1 DEF Notify
<1>19. CASE Cancel
  BY <1>19 DEF Cancel
<1>20. CASE UNCHANGED vars
  BY <1>20 DEF vars
<1>21. CASE AuthPacket
  <2>1. /\ phase' \in {phase, "closing", "ended"} /\ err' \in {err, "refused"}
        /\ UNCHANGED <<enc, connOpen, status, freshAge, packetAge, tickAge, tickReady,
                       isStale, loss, malformed, ctxDone>>
    BY <1>21 DEF AuthPacket
  <2>2. authSeen' \in BOOLEAN /\ early' \in BOOLEAN
    BY <1>21, Zenon DEF AuthPacket
  <2>3. QED
    BY <2>1, <2>2
<1>22. CASE AuthResult
  <2>1. /\ phase' \in {"auth", "loop"}
        /\ freshAge' \in {freshAge, AgeCap} /\ packetAge' \in {packetAge, 0}
        /\ tickAge' \in {tickAge, 0}
        /\ UNCHANGED <<enc, connOpen, err, status, authSeen, early, loss, malformed, ctxDone>>
    BY <1>22 DEF AuthResult, EnterLoop, history
  <2>2. isStale' \in BOOLEAN /\ tickReady' \in BOOLEAN
    BY <1>22, Zenon DEF AuthResult, EnterLoop, clocks
  <2>3. QED
    BY <2>1, <2>2
<1>23. CASE NotificationDropped
  BY <1>23 DEF NotificationDropped
<1>24. QED
  BY <1>1, <1>2, <1>3, <1>4, <1>5, <1>6, <1>7, <1>8, <1>9, <1>10, <1>11, <1>12, <1>13, <1>14, <1>15, <1>16, <1>17, <1>18, <1>19, <1>20,
     <1>21, <1>22, <1>23
  DEF Next, Straight, Receive

\* The empty sequence, as a fact of its own for the provers.
LEMMA EmptyIsSeq == ASSUME NEW S PROVE <<>> \in Seq(S)
  OBVIOUS

\* A cut frame leaves a part of the chunk, behind at most one other packet.
LEMMA SplicedType ==
    ASSUME NEW c \in Chunks, c # <<>>, NEW d \in Spliced(c)
    PROVE  d \in Seq(Messages)
<1>1. c \in Seq(Messages)
  BY ConfigAssumption
<1>2. Tail(c) \in Seq(Messages)
  BY <1>1
<1>3. ASSUME NEW m \in Messages PROVE <<m>> \o Tail(c) \in Seq(Messages)
  BY <1>2
<1>4. QED
  BY <1>2, <1>3 DEF Spliced

\* What one step of the callback may put into the channel.
LEMMA NotifyQueues ==
    ASSUME QueuesOK, Notify
    PROVE  /\ rawCh' \in Seq(Seq(Messages)) /\ Len(rawCh') <= QueueCap
           /\ UNCHANGED <<simple, work, pending>>
<1>1. PICK d \in Seq(Messages) : rawCh' = Append(rawCh, d)
  <2>1. PICK c \in Chunks :
          \/ rawCh' = Append(rawCh, c)
          \/ rawCh' = Append(rawCh, <<>>)
          \/ c # <<>> /\ \E d \in Spliced(c) : rawCh' = Append(rawCh, d)
    BY DEF Notify
  <2>2. c \in Seq(Messages)
    BY ConfigAssumption
  <2>3. QED
    BY <2>1, <2>2, SplicedType, EmptyIsSeq
<1>2. rawCh' \in Seq(Seq(Messages)) /\ Len(rawCh') <= QueueCap
  BY <1>1, ConfigAssumption DEF QueuesOK, Notify
<1>3. QED
  BY <1>2 DEF Notify, locals

\* Every step keeps the types of the channel and of what was read from it.
LEMMA QueuesStep == QueuesOK /\ [Next]_vars => QueuesOK'
<1> SUFFICES ASSUME QueuesOK, [Next]_vars PROVE QueuesOK'
  OBVIOUS
<1> DEFINE Same == simple' = simple /\ work' = work /\ pending' = pending
           Gone == simple' = <<>> /\ work' = <<>> /\ pending' = <<>>
<1>0. ASSUME rawCh # <<>>
      PROVE  /\ Head(rawCh) \in Seq(Messages) /\ Tail(rawCh) \in Seq(Seq(Messages))
             /\ Len(Tail(rawCh)) <= QueueCap
  <2>1. rawCh \in Seq(Seq(Messages)) /\ Len(rawCh) <= QueueCap
    BY DEF QueuesOK
  <2>2. Len(Tail(rawCh)) = Len(rawCh) - 1 /\ Tail(rawCh) \in Seq(Seq(Messages))
    BY <1>0, <2>1
  <2>3. Head(rawCh) \in Seq(Messages)
    BY <1>0, <2>1
  <2>4. QED
    BY <2>1, <2>2, <2>3, ConfigAssumption
<1>1. ASSUME rawCh' = rawCh \/ rawCh' = <<>>, Same \/ Gone PROVE QueuesOK'
  <2>1. /\ rawCh' \in Seq(Seq(Messages)) /\ simple' \in Seq(Messages)
        /\ work' \in Seq(Messages) /\ pending' \in Seq(Messages)
    BY <1>1, EmptyIsSeq DEF QueuesOK
  <2>2. Len(rawCh') <= QueueCap
    BY <1>1, ConfigAssumption DEF QueuesOK
  <2>3. QED
    BY <2>1, <2>2 DEF QueuesOK
<1>2. CASE FindByMAC
  BY <1>1, <1>2 DEF FindByMAC, Return, locals
<1>3. CASE BeginConnect
  BY <1>1, <1>3 DEF BeginConnect, Return, locals
<1>4. CASE Connect
  BY <1>1, <1>4 DEF Connect, Return, locals
<1>5. CASE StartNotifications
  BY <1>1, <1>5 DEF StartNotifications, Return, locals
<1>6. CASE Authenticate
  BY <1>1, <1>6 DEF Authenticate, Return, locals
<1>7. CASE HandshakeTimeout \/ Cancelled
  BY <1>1, <1>7 DEF HandshakeTimeout, Cancelled, Return
<1>8. CASE IdleTick
  BY <1>1, <1>8 DEF IdleTick, Return, locals
<1>9. CASE Close \/ SessionEnded \/ Backoff \/ Second \/ Cancel
           \/ NotificationDropped \/ UNCHANGED vars
  BY <1>1, <1>9 DEF Close, SessionEnded, Backoff, Second, Cancel,
                    NotificationDropped, vars, locals
<1>10. CASE TakeReply
  <2>1. /\ rawCh' = rawCh
        /\ \/ Same \/ Gone
           \/ /\ work' = work /\ pending' = pending
              /\ simple' = Tail(simple) \/ simple' = <<>>
    BY <1>10 DEF TakeReply, Return
  <2>2. simple # <<>>
    BY <1>10 DEF TakeReply
  <2>3. Tail(simple) \in Seq(Messages)
    BY <2>2 DEF QueuesOK
  <2>4. QED
    BY <2>1, <2>3, EmptyIsSeq DEF QueuesOK
<1>11. CASE processPacket
  <2>1. /\ rawCh' = rawCh
        /\ Gone \/ (simple' = simple /\ pending' = pending /\ work' = Tail(work))
    BY <1>11 DEF processPacket, Publish, Return
  <2>2. work # <<>>
    BY <1>11 DEF processPacket
  <2>3. Tail(work) \in Seq(Messages)
    BY <2>2 DEF QueuesOK
  <2>4. QED
    BY <2>1, <2>3, EmptyIsSeq DEF QueuesOK
<1>12. CASE ReadReply
  <2>1. /\ rawCh # <<>> /\ rawCh' = Tail(rawCh) /\ simple' = Head(rawCh)
        /\ work' = work /\ pending' = pending
    BY <1>12 DEF ReadReply
  <2>2. QED
    BY <1>0, <2>1 DEF QueuesOK
<1>13. CASE LoopChunk
  <2>1. /\ rawCh # <<>> /\ rawCh' = Tail(rawCh) /\ work' = Head(rawCh)
        /\ simple' = simple /\ pending' = pending
    BY <1>13 DEF LoopChunk
  <2>2. QED
    BY <1>0, <2>1 DEF QueuesOK
<1>14. CASE AuthChunk
  <2>1. /\ rawCh # <<>> /\ rawCh' = Tail(rawCh) /\ work' = Head(rawCh)
        /\ simple' = simple /\ pending' = pending
    BY <1>14 DEF AuthChunk
  <2>2. QED
    BY <1>0, <2>1 DEF QueuesOK
<1>15. CASE AuthPacket
  <2>1. /\ rawCh' = rawCh
        /\ \/ Gone
           \/ /\ simple' = simple /\ work' = Tail(work)
              /\ pending' = pending \/ pending' = Append(pending, Head(work))
    BY <1>15 DEF AuthPacket, Return
  <2>2. work # <<>>
    BY <1>15 DEF AuthPacket
  <2>3. Tail(work) \in Seq(Messages) /\ Append(pending, Head(work)) \in Seq(Messages)
    BY <2>2 DEF QueuesOK
  <2>4. QED
    BY <2>1, <2>3, EmptyIsSeq DEF QueuesOK
<1>16. CASE AuthResult
  <2>1. /\ rawCh' = rawCh /\ simple' = simple
        /\ Same \/ (work' = pending /\ pending' = <<>>)
    BY <1>16 DEF AuthResult, EnterLoop
  <2>2. QED
    BY <2>1, EmptyIsSeq DEF QueuesOK
<1>17. CASE Notify
  BY <1>17, NotifyQueues DEF QueuesOK
<1>18. QED
  BY <1>2, <1>3, <1>4, <1>5, <1>6, <1>7, <1>8, <1>9, <1>10, <1>11, <1>12, <1>13,
     <1>14, <1>15, <1>16, <1>17
  DEF Next, Straight, Receive

\* Every step keeps what is left between sessions.
LEMMA LeftStep == IInv /\ [Next]_vars => NothingLeft'
<1> SUFFICES ASSUME IInv, [Next]_vars PROVE NothingLeft'
  OBVIOUS
<1> USE DEF IInv, TypeOK, NothingLeft, Between, Listening, Handshake, Return, locals,
            clocks, history
<1>1. CASE FindByMAC \/ BeginConnect \/ Connect
  BY <1>1 DEF FindByMAC, BeginConnect, Connect
<1>2. CASE StartNotifications
  BY <1>2 DEF StartNotifications
<1>3. CASE TakeReply
  BY <1>3 DEF TakeReply, ConnectionHeld
<1>4. CASE Authenticate \/ ReadReply \/ LoopChunk \/ AuthChunk
  BY <1>4 DEF Authenticate, ReadReply, LoopChunk, AuthChunk, ConnectionHeld
<1>5. CASE processPacket
  BY <1>5 DEF processPacket, Publish, ConnectionHeld
<1>6. CASE AuthPacket \/ AuthResult
  BY <1>6 DEF AuthPacket, AuthResult, EnterLoop, ConnectionHeld
<1>7. CASE HandshakeTimeout \/ IdleTick \/ Cancelled
  BY <1>7 DEF HandshakeTimeout, IdleTick, Cancelled, ConnectionHeld
<1>8. CASE Close \/ SessionEnded \/ Backoff
  BY <1>8 DEF Close, SessionEnded, Backoff
<1>9. CASE Second \/ Notify \/ NotificationDropped \/ Cancel \/ UNCHANGED vars
  BY <1>9 DEF Second, Notify, NotificationDropped, Cancel, vars
<1>10. QED
  BY <1>1, <1>2, <1>3, <1>4, <1>5, <1>6, <1>7, <1>8, <1>9
  DEF Next, Straight, Receive

\* Readings survive when another message is taken off the front, and when one
\* is added at the end.
LEMMA ReadingKept ==
    ASSUME NEW s \in Seq(Messages), NEW m \in Messages
    PROVE  /\ s # <<>> /\ HasReading(s) /\ Head(s) \notin Readings => HasReading(Tail(s))
           /\ HasReading(s) => HasReading(Append(s, m))
           /\ m \in Readings => HasReading(Append(s, m))
<1>1. ASSUME s # <<>>, HasReading(s), Head(s) \notin Readings PROVE HasReading(Tail(s))
  <2>1. PICK i \in 1..Len(s) : s[i] \in Readings
    BY <1>1 DEF HasReading
  <2>2. i # 1
    BY <1>1, <2>1
  <2>3. i - 1 \in 1..Len(Tail(s)) /\ Tail(s)[i - 1] = s[i]
    BY <1>1, <2>2
  <2>4. QED
    BY <2>1, <2>3 DEF HasReading
<1>2. ASSUME HasReading(s) PROVE HasReading(Append(s, m))
  <2>1. PICK i \in 1..Len(s) : s[i] \in Readings
    BY <1>2 DEF HasReading
  <2>2. i \in 1..Len(Append(s, m)) /\ Append(s, m)[i] = s[i]
    OBVIOUS
  <2>3. QED
    BY <2>1, <2>2 DEF HasReading
<1>3. ASSUME m \in Readings PROVE HasReading(Append(s, m))
  <2>1. Len(s) + 1 \in 1..Len(Append(s, m)) /\ Append(s, m)[Len(s) + 1] = m
    OBVIOUS
  <2>2. QED
    BY <1>3, <2>1 DEF HasReading
<1>4. QED
  BY <1>1, <1>2, <1>3

\* Every step keeps the readings of the authentication until they are served.
LEMMA EarlyStep == IInv /\ [Next]_vars => EarlyKept'
<1> SUFFICES ASSUME IInv, [Next]_vars, early' PROVE EarlyKept'
  BY DEF EarlyKept
<1> USE DEF Listening, Handshake, Return, locals, clocks, history
<1>0. /\ early => \/ phase = "reading" /\ HasReading(pending)
                  \/ phase = "loop" /\ HasReading(work)
                  \/ phase \in {"closing", "ended"}
      /\ work \in Seq(Messages) /\ pending \in Seq(Messages)
      /\ phase = "loop" \/ phase = "reading" => connOpen
  BY DEF IInv, TypeOK, EarlyKept, ConnectionHeld
<1>1. CASE FindByMAC \/ BeginConnect \/ Connect \/ StartNotifications
  BY <1>0, <1>1 DEF FindByMAC, BeginConnect, Connect, StartNotifications
<1>2. CASE TakeReply \/ Authenticate \/ ReadReply \/ HandshakeTimeout
  BY <1>0, <1>2 DEF TakeReply, Authenticate, ReadReply, HandshakeTimeout
<1>3. CASE LoopChunk
  <2>1. work = <<>> /\ phase = "loop"
    BY <1>3 DEF LoopChunk
  <2>2. ~HasReading(<<>>)
    BY DEF HasReading
  <2>3. QED
    BY <1>0, <1>3, <2>1, <2>2 DEF LoopChunk
<1>4. CASE AuthChunk
  BY <1>0, <1>4 DEF AuthChunk
<1>5. CASE AuthPacket
  <2>1. Head(work) \in Messages
    BY <1>0, <1>5 DEF AuthPacket
  <2>2. CASE phase' = "reading"
    <3>1. HasReading(pending')
      <4>1. CASE pending' = pending
        <5>0. Append(pending, Head(work)) # pending
          BY <1>0, <2>1
        <5>1. early
          BY <1>5, <2>2, <4>1, <5>0 DEF AuthPacket
        <5>2. phase = "reading"
          BY <1>5 DEF AuthPacket
        <5>3. QED
          BY <1>0, <4>1, <5>1, <5>2
      <4>2. CASE pending' # pending
        <5>1. /\ pending' = Append(pending, Head(work))
              /\ early \/ Head(work) \in Readings
              /\ phase = "reading"
          BY <1>5, <2>2, <4>2 DEF AuthPacket
        <5>2. QED
          BY <1>0, <2>1, <5>1, ReadingKept
      <4>3. QED
        BY <4>1, <4>2
    <3>2. QED
      BY <2>2, <3>1 DEF EarlyKept, HasReading
  <2>3. CASE phase' # "reading"
    BY <1>0, <1>5, <2>3 DEF AuthPacket, EarlyKept
  <2>4. QED
    BY <2>2, <2>3
<1>6. CASE AuthResult
  <2>1. phase = "reading" /\ early
    BY <1>6 DEF AuthResult
  <2>2. HasReading(pending)
    BY <1>0, <2>1
  <2>3. pending # <<>>
    BY <2>2 DEF HasReading
  <2>4. phase' = "loop" /\ work' = pending
    BY <1>6, <2>3 DEF AuthResult, EnterLoop
  <2>5. QED
    BY <2>2, <2>4 DEF EarlyKept, HasReading
<1>7. CASE processPacket
  <2>1. phase = "loop" /\ work # <<>> /\ Head(work) \in Messages
    BY <1>0, <1>7 DEF processPacket
  <2>2. CASE phase' = "loop"
    <3>1. early /\ work' = Tail(work) /\ Head(work) \notin Readings
      BY <1>7, <2>1, <2>2 DEF processPacket, Publish, Readings, ParsePacket
    <3>2. HasReading(Tail(work))
      BY <1>0, <2>1, <3>1, ReadingKept
    <3>3. QED
      BY <2>2, <3>1, <3>2 DEF EarlyKept, HasReading
  <2>3. CASE phase' # "loop"
    BY <1>0, <1>7, <2>1, <2>3 DEF processPacket, Publish, EarlyKept
  <2>4. QED
    BY <2>2, <2>3
<1>8. CASE IdleTick \/ Cancelled
  <2>1. ASSUME phase = "loop", work = <<>> PROVE ~early
    BY <1>0, <2>1 DEF HasReading
  <2>2. ASSUME phase = "loop" \/ phase \in Handshake \cup {"auth"}, work = <<>> PROVE ~early
    BY <1>0, <2>1, <2>2
  <2>3. QED
    BY <1>8, <2>2 DEF IdleTick, Cancelled
<1>9. CASE Close \/ SessionEnded \/ Backoff
  BY <1>0, <1>9 DEF Close, SessionEnded, Backoff, EarlyKept
<1>10. CASE Second \/ Notify \/ NotificationDropped \/ Cancel \/ UNCHANGED vars
  <2>1. UNCHANGED <<phase, work, pending, early>>
    BY <1>10 DEF Second, Notify, NotificationDropped, Cancel, vars
  <2>2. QED
    BY <1>0, <2>1 DEF EarlyKept, HasReading
<1>11. QED
  BY <1>1, <1>2, <1>3, <1>4, <1>5, <1>6, <1>7, <1>8, <1>9, <1>10
  DEF Next, Straight, Receive

\* A chunk with nothing malformed in it.
LEMMA GoodChunk ==
    ASSUME NEW c \in Chunks, ToSet(c) \cap Malformed = {}
    PROVE  c \in Seq(Good)
<1>1. c \in Seq(Messages)
  BY ConfigAssumption
<1>2. \A i \in 1..Len(c) : c[i] \in Good
  BY <1>1 DEF Good, ToSet
<1>3. QED
  BY <1>1, <1>2

\* Every step keeps the parts about well-formed devices.
LEMMA GoodStep == IInv /\ [Next]_vars => (GoodKept /\ WellFormedNeverRejected)'
<1> DEFINE AllGood == /\ rawCh \in Seq(Seq(Good)) /\ simple \in Seq(Good)
                      /\ work \in Seq(Good) /\ pending \in Seq(Good)
           Accepted == phase \in {"closing", "ended"} => err # "protocol"
           Same == simple' = simple /\ work' = work /\ pending' = pending
           Gone == simple' = <<>> /\ work' = <<>> /\ pending' = <<>>
<1> SUFFICES ASSUME IInv, [Next]_vars, Sound'
             PROVE  AllGood' /\ Accepted'
  BY DEF GoodKept, WellFormedNeverRejected, Sound
<1> USE DEF Return, locals, history
<1>1. ASSUME Sound PROVE AllGood /\ Accepted
  BY <1>1 DEF IInv, GoodKept, WellFormedNeverRejected, Sound
<1>2. ASSUME rawCh' = <<>>, Gone, phase' \notin {"closing", "ended"} \/ err' # "protocol"
      PROVE  AllGood' /\ Accepted'
  BY <1>2, EmptyIsSeq
<1>3. ASSUME AllGood, rawCh' = rawCh, Same \/ Gone,
             phase' \notin {"closing", "ended"} \/ err' # "protocol"
      PROVE  AllGood' /\ Accepted'
  BY <1>3, EmptyIsSeq
<1>4. CASE FindByMAC
  <2>1. rawCh = <<>> /\ simple = <<>> /\ work = <<>> /\ pending = <<>>
    BY <1>4 DEF IInv, NothingLeft, Between, Handshake, FindByMAC
  <2>2. rawCh' = <<>> /\ Gone /\ (phase' \notin {"closing", "ended"} \/ err' # "protocol")
    BY <1>4, <2>1 DEF FindByMAC
  <2>3. QED
    BY <1>2, <2>2
<1>5. CASE SessionEnded
  <2>1. simple = <<>> /\ work = <<>> /\ pending = <<>>
    BY <1>5 DEF IInv, NothingLeft, Handshake, SessionEnded
  <2>2. rawCh' = <<>> /\ Gone /\ phase' \notin {"closing", "ended"}
    BY <1>5, <2>1 DEF SessionEnded
  <2>3. QED
    BY <1>2, <2>2
<1>6. ASSUME ~FindByMAC, ~SessionEnded PROVE Sound
  <2>1. CASE Notify
    <3>1. malformed => malformed'
      BY <2>1, Zenon DEF Notify
    <3>2. loss' = loss \/ (loss = "cut" /\ loss' = "spliced")
      BY <2>1, Zenon DEF Notify
    <3>3. enc' = enc
      BY <2>1, Zenon DEF Notify
    <3>4. QED
      BY <3>1, <3>2, <3>3 DEF Sound
  <2>2. CASE NotificationDropped
    BY <2>2 DEF NotificationDropped, Sound
  <2>3. CASE UNCHANGED <<enc, loss, malformed>>
    BY <2>3 DEF Sound
  <2>4. QED
    BY <1>6, <2>1, <2>2, <2>3
    DEF Next, Straight, Receive, BeginConnect, Connect, StartNotifications,
     TakeReply, Authenticate, AuthPacket, AuthResult, processPacket, Close, Backoff,
     ReadReply, AuthChunk, LoopChunk, HandshakeTimeout, IdleTick, Cancelled, Second,
     Cancel, vars
<1> DEFINE Old == AllGood /\ Accepted
<1>7. ASSUME Old, BeginConnect \/ Connect \/ Authenticate PROVE AllGood' /\ Accepted'
  BY <1>3, <1>7 DEF BeginConnect, Connect, Authenticate
<1>8. ASSUME Old, StartNotifications PROVE AllGood' /\ Accepted'
  <2>1. enc \in {0, 1, 7}
    BY <1>8 DEF Sound, StartNotifications
  <2>2. /\ rawCh' = <<>>
        /\ Same \/ Gone
        /\ phase' \notin {"closing", "ended"} \/ err' # "protocol"
    BY <1>8, <2>1 DEF StartNotifications
  <2>3. QED
    BY <1>8, <2>2, EmptyIsSeq
<1>9. ASSUME Old, HandshakeTimeout \/ Cancelled PROVE AllGood' /\ Accepted'
  BY <1>3, <1>9 DEF HandshakeTimeout, Cancelled
<1>10. ASSUME Old, IdleTick PROVE AllGood' /\ Accepted'
  BY <1>3, <1>10 DEF IdleTick
<1>11. ASSUME Old, \/ Close \/ Backoff \/ Second \/ NotificationDropped \/ Cancel
                   \/ UNCHANGED vars
       PROVE AllGood' /\ Accepted'
  BY <1>3, <1>11 DEF Close, Backoff, Second, NotificationDropped, Cancel, vars
<1>12. ASSUME Old, TakeReply PROVE AllGood' /\ Accepted'
  <2>1. Head(simple) \notin Malformed /\ Tail(simple) \in Seq(Good)
    BY <1>12 DEF TakeReply, Good
  <2>2. /\ rawCh' = rawCh
        /\ \/ Same \/ Gone
           \/ /\ work' = work /\ pending' = pending
              /\ simple' = Tail(simple) \/ simple' = <<>>
        /\ phase' \notin {"closing", "ended"} \/ err' # "protocol"
    BY <1>12, <2>1 DEF TakeReply, Malformed, Handshake
  <2>3. QED
    BY <1>12, <2>1, <2>2, EmptyIsSeq
<1>13. ASSUME Old, processPacket PROVE AllGood' /\ Accepted'
  <2>1. Head(work) \notin Malformed /\ Tail(work) \in Seq(Good)
    BY <1>13 DEF processPacket, Good
  <2>2. /\ rawCh' = rawCh
        /\ Gone \/ (simple' = simple /\ pending' = pending /\ work' = Tail(work))
        /\ phase' \notin {"closing", "ended"} \/ err' # "protocol"
    BY <1>13, <2>1 DEF processPacket, Publish, Malformed
  <2>3. QED
    BY <1>13, <2>1, <2>2, EmptyIsSeq
<1>14. ASSUME Old, AuthPacket PROVE AllGood' /\ Accepted'
  <2>1. Tail(work) \in Seq(Good) /\ Append(pending, Head(work)) \in Seq(Good)
    BY <1>14 DEF AuthPacket
  <2>2. /\ rawCh' = rawCh
        /\ \/ Gone
           \/ /\ simple' = simple /\ work' = Tail(work)
              /\ pending' = pending \/ pending' = Append(pending, Head(work))
        /\ phase' \notin {"closing", "ended"} \/ err' # "protocol"
    BY <1>14 DEF AuthPacket
  <2>3. QED
    BY <1>14, <2>1, <2>2, EmptyIsSeq
<1>15. ASSUME Old, AuthResult PROVE AllGood' /\ Accepted'
  <2>1. /\ rawCh' = rawCh /\ simple' = simple
        /\ Same \/ (work' = pending /\ pending' = <<>>)
        /\ phase' \notin {"closing", "ended"}
    BY <1>15 DEF AuthResult, EnterLoop
  <2>2. QED
    BY <1>15, <2>1, EmptyIsSeq
<1>16. ASSUME Old, ReadReply \/ AuthChunk \/ LoopChunk PROVE AllGood' /\ Accepted'
  <2>1. /\ rawCh # <<>> /\ rawCh' = Tail(rawCh)
        /\ \/ simple' = Head(rawCh) /\ work' = work /\ pending' = pending
           \/ simple' = simple /\ work' = Head(rawCh) /\ pending' = pending
        /\ phase' \notin {"closing", "ended"}
    BY <1>16 DEF ReadReply, AuthChunk, LoopChunk, Handshake
  <2>2. Head(rawCh) \in Seq(Good) /\ Tail(rawCh) \in Seq(Seq(Good))
    BY <1>16, <2>1
  <2>3. QED
    BY <1>16, <2>1, <2>2
<1>17. ASSUME Old, Sound, Notify PROVE AllGood' /\ Accepted'
  <2>1. PICK c \in Chunks :
          /\ malformed' = (malformed \/ ToSet(c) \cap Malformed # {})
          /\ \/ rawCh' = Append(rawCh, c)
             \/ rawCh' = Append(rawCh, <<>>)
             \/ /\ loss = "cut" /\ c # <<>>
                /\ \E d \in Spliced(c) : rawCh' = Append(rawCh, d)
    BY <1>17 DEF Notify
  <2>2. c \in Seq(Good)
    BY <2>1, GoodChunk, Zenon DEF Sound
  <2>3. ASSUME loss = "cut", c # <<>> PROVE Spliced(c) = {Tail(c)} /\ Tail(c) \in Seq(Good)
    BY <1>17, <2>2, <2>3 DEF Spliced, Sound
  <2>4. \E d \in Seq(Good) : rawCh' = Append(rawCh, d)
    BY <2>1, <2>2, <2>3, EmptyIsSeq
  <2>5. rawCh' \in Seq(Seq(Good))
    BY <1>17, <2>4
  <2>6. UNCHANGED <<simple, work, pending, phase, err>>
    BY <1>17 DEF Notify
  <2>7. QED
    BY <1>17, <2>5, <2>6
<1>18. QED
  BY <1>1, <1>4, <1>5, <1>6, <1>7, <1>8, <1>9, <1>10, <1>11, <1>12, <1>13, <1>14, <1>15,
     <1>16, <1>17
  DEF Next, Straight, Receive

----------------------------------------------------------------------------

\* The goroutine starts within the invariant.
LEMMA InitIInv == Init => IInv
<1> SUFFICES ASSUME Init PROVE IInv
  OBVIOUS
<1>1. QueuesOK
  BY ConfigAssumption, EmptyIsSeq DEF Init, QueuesOK
<1>2. ControlOK
  <2>1. /\ connOpen \in BOOLEAN /\ tickReady \in BOOLEAN /\ isStale \in BOOLEAN
        /\ authSeen \in BOOLEAN /\ early \in BOOLEAN /\ ctxDone \in BOOLEAN
        /\ malformed \in BOOLEAN
    BY Zenon DEF Init
  <2>2. freshAge \in 0..AgeCap /\ packetAge \in 0..PacketCap /\ tickAge \in 0..(Poll - 1)
    BY TimesAssumption DEF Init, AgeCap, PacketCap
  <2>3. QED
    BY <2>1, <2>2 DEF Init, ControlOK
<1>3. ConnectionHeld /\ NoConnectionLeak /\ NilIsCancelled /\ NoSessionNoData
  BY DEF Init, ConnectionHeld, NoConnectionLeak, NilIsCancelled, NoSessionNoData,
         Listening, Handshake
<1>4. StaleFlagHonest /\ FreshAtLook /\ HeardAtLook
  BY DEF Init, StaleFlagHonest, FreshAtLook, HeardAtLook
<1>5. GoodKept /\ WellFormedNeverRejected
  BY EmptyIsSeq DEF Init, GoodKept, WellFormedNeverRejected
<1>6. NothingLeft /\ EarlyKept
  BY DEF Init, NothingLeft, EarlyKept
<1>7. QED
  BY <1>1, <1>2, <1>3, <1>4, <1>5, <1>6, TypeParts DEF IInv

\* Every step stays within it.
LEMMA StepIInv == IInv /\ [Next]_vars => IInv'
<1> SUFFICES ASSUME IInv, [Next]_vars PROVE IInv'
  OBVIOUS
<1>1. QueuesOK /\ ControlOK
  BY TypeParts DEF IInv
<1>2. QueuesOK' /\ ControlOK'
  BY <1>1, QueuesStep, ControlStep
<1>3. TypeOK'
  BY <1>2 DEF TypeOK, QueuesOK, ControlOK
<1>4. QED
  BY <1>3, PhaseStep, ClockStep, LeftStep, EarlyStep, GoodStep DEF IInv

\* The invariant holds in every reachable state.
THEOREM Invariance == Spec => []IInv
<1>1. QED
  BY InitIInv, StepIInv, PTL DEF Spec

\* Type correctness of the session's locals, channels and clocks.
THEOREM TypeCorrect == Spec => []TypeOK
<1>1. IInv => TypeOK
  BY DEF IInv
<1>2. QED
  BY Invariance, <1>1, PTL

\* Live data is younger than stale_timeout_seconds plus poll_seconds, for all
\* values of both and whatever the device sends.
THEOREM RecentSafe == Spec => []LiveIsRecent
<1>1. IInv => LiveIsRecent
  BY TimesAssumption DEF IInv, TypeOK, FreshAtLook, SinceLook, LiveIsRecent, AgeCap
<1>2. QED
  BY Invariance, <1>1, PTL

\* A session ends before its device has been silent for three poll intervals.
THEOREM IdleSafe == Spec => []IdleBounded
<1>1. IInv => IdleBounded
  BY TimesAssumption DEF IInv, TypeOK, HeardAtLook, SinceLook, IdleBounded, PacketCap
<1>2. QED
  BY Invariance, <1>1, PTL

\* The isStale flag of the loop and the store never disagree.
THEOREM FlagSafe == Spec => []StaleFlagHonest
<1>1. IInv => StaleFlagHonest
  BY DEF IInv
<1>2. QED
  BY Invariance, <1>1, PTL

\* Nothing but a session serves live data.
THEOREM DataSafe == Spec => []NoSessionNoData
<1>1. IInv => NoSessionNoData
  BY DEF IInv
<1>2. QED
  BY Invariance, <1>1, PTL

\* Every way out of a session closes its connection.
THEOREM ConnectionSafe == Spec => []NoConnectionLeak
<1>1. IInv => NoConnectionLeak
  BY DEF IInv
<1>2. QED
  BY Invariance, <1>1, PTL

\* A session with nothing malformed in it ends with a protocol error only if a
\* frame without a checksum of its own was cut at the full queue.
THEOREM WellFormedSafe == Spec => []WellFormedNeverRejected
<1>1. IInv => WellFormedNeverRejected
  BY DEF IInv
<1>2. QED
  BY Invariance, <1>1, PTL

\* Readings that arrive during the authentication are served before the loop
\* waits for the next notification.
THEOREM EarlySafe == Spec => []EarlyReadingsServed
<1>1. IInv => EarlyReadingsServed
  BY DEF IInv, EarlyKept, HasReading, EarlyReadingsServed
<1>2. QED
  BY Invariance, <1>1, PTL

----------------------------------------------------------------------------
(* The contract that Provider relies on.                                   *)

\* A step that the contract does not see.
Quiet == /\ status' = status /\ connOpen' = connOpen /\ ctxDone' = ctxDone
         /\ phase' = "done" <=> phase = "done"

\* Every step of the goroutine is one of the contract's or is not seen by it.
\* Connect needs that nothing is open or live before it, Publish that the
\* connection is open, and the return that it is closed and the context done.
LEMMA DeviceStep == IInv /\ [Next]_vars => [Device!Next]_(Device!vars)
<1> SUFFICES ASSUME IInv, [Next]_vars PROVE [Device!Next]_(Device!vars)
  OBVIOUS
<1>1. ASSUME Quiet PROVE UNCHANGED Device!vars
  BY <1>1 DEF Quiet, Device!vars
<1>2. CASE FindByMAC \/ BeginConnect \/ StartNotifications
  BY <1>1, <1>2 DEF FindByMAC, BeginConnect, StartNotifications, Return, Quiet
<1>3. CASE TakeReply \/ Authenticate \/ ReadReply \/ HandshakeTimeout
  BY <1>1, <1>3 DEF TakeReply, Authenticate, ReadReply, HandshakeTimeout, Return,
                    Handshake, Quiet
<1>4. CASE AuthChunk \/ AuthPacket \/ AuthResult
  BY <1>1, <1>4 DEF AuthChunk, AuthPacket, AuthResult, EnterLoop, Return, Quiet
<1>5. CASE LoopChunk \/ Second \/ Notify \/ NotificationDropped
  BY <1>1, <1>5 DEF LoopChunk, Second, Notify, NotificationDropped, Quiet
<1>6. CASE Cancelled
  BY <1>1, <1>6 DEF Cancelled, Return, Listening, Handshake, Quiet
<1>7. CASE Connect
  <2>1. CASE connOpen' = TRUE
    <3>1. status = "WAIT" /\ connOpen = FALSE
      BY <1>7 DEF Connect, IInv, TypeOK, NoConnectionLeak, NoSessionNoData
    <3>2. Device!Connect(0) /\ UNCHANGED ctxDone
      BY <1>7, <2>1, <3>1 DEF Connect, Device!Connect, Return
    <3>3. QED
      BY <3>2 DEF Device!Next, Device!Step
  <2>2. CASE connOpen' # TRUE
    BY <1>1, <1>7, <2>2 DEF Connect, Return, Quiet
  <2>3. QED
    BY <2>1, <2>2
<1>8. CASE processPacket
  <2>1. CASE Publish
    <3>1. connOpen
      BY <1>8 DEF processPacket, IInv, ConnectionHeld, Listening
    <3>2. Device!Serve(0) /\ UNCHANGED ctxDone
      BY <1>8, <2>1, <3>1 DEF processPacket, Publish, Return, Device!Serve
    <3>3. QED
      BY <3>2 DEF Device!Next, Device!Step
  <2>2. CASE ~Publish
    BY <1>1, <1>8, <2>2 DEF processPacket, Return, Quiet
  <2>3. QED
    BY <2>1, <2>2
<1>9. CASE IdleTick
  <2>1. CASE status' = status
    BY <1>1, <1>9, <2>1 DEF IdleTick, Return, Quiet
  <2>2. CASE status' # status
    <3>1. Device!Wait(0) /\ UNCHANGED ctxDone
      BY <1>9, <2>2 DEF IdleTick, Return, Device!Wait
    <3>2. QED
      BY <3>1 DEF Device!Next, Device!Step
  <2>3. QED
    BY <2>1, <2>2
<1>10. CASE Close
  <2>1. connOpen
    BY <1>10 DEF Close, IInv, ConnectionHeld
  <2>2. Device!Disconnect(0) /\ UNCHANGED ctxDone
    BY <1>10, <2>1 DEF Close, Device!Disconnect
  <2>3. QED
    BY <2>2 DEF Device!Next, Device!Step
<1>11. CASE SessionEnded
  <2>1. CASE phase' = "done"
    <3>1. ctxDone /\ ~connOpen
      BY <1>11, <2>1 DEF SessionEnded, IInv, NilIsCancelled, NoConnectionLeak
    <3>2. Device!Finish(0) /\ UNCHANGED ctxDone
      BY <1>11, <2>1, <3>1 DEF SessionEnded, Device!Finish
    <3>3. QED
      BY <3>2 DEF Device!Next, Device!Step
  <2>2. CASE phase' # "done"
    <3>1. Device!Wait(0) /\ UNCHANGED ctxDone
      BY <1>11, <2>2 DEF SessionEnded, Device!Wait
    <3>2. QED
      BY <3>1 DEF Device!Next, Device!Step
  <2>3. QED
    BY <2>1, <2>2
<1>12. CASE Backoff
  <2>1. CASE phase' = "done"
    <3>1. ctxDone /\ ~connOpen
      BY <1>12, <2>1 DEF Backoff, IInv, NoConnectionLeak
    <3>2. Device!Finish(0) /\ UNCHANGED ctxDone
      BY <1>12, <2>1, <3>1 DEF Backoff, Device!Finish
    <3>3. QED
      BY <3>2 DEF Device!Next, Device!Step
  <2>2. CASE phase' # "done"
    BY <1>1, <1>12, <2>2 DEF Backoff, Quiet
  <2>3. QED
    BY <2>1, <2>2
<1>13. CASE Cancel
  BY <1>13 DEF Cancel, Device!Next, Device!Cancel
<1>14. CASE UNCHANGED vars
  BY <1>1, <1>14 DEF vars, Quiet
<1>15. QED
  BY <1>2, <1>3, <1>4, <1>5, <1>6, <1>7, <1>8, <1>9, <1>10, <1>11, <1>12, <1>13, <1>14
  DEF Next, Straight, Receive

\* runDevice keeps the contract of a device goroutine, whatever the device
\* sends, for all periods and capacities: live data only over an open
\* connection, WAIT before the next one, and no return before cancellation.
THEOREM DeviceRefinement == Spec => ImplementsDevice
<1>1. Init => Device!Init
  BY DEF Init, Device!Init
<1>2. QED
  BY <1>1, Invariance, DeviceStep, PTL DEF Spec, ImplementsDevice, Device!Spec
=============================================================================
