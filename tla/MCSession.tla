----------------------------- MODULE MCSession -----------------------------
(* TLC instances of Session: the chunks a device may send.                 *)
EXTENDS Session

\* Every kind of message, and the combinations in which one message changes
\* what becomes of another of the same chunk.
AllChunks ==
    { <<>>, <<"pub">>, <<"pubBad">>, <<"info">>, <<"infoBad">>,
      <<"pub", "info">>, <<"authOk">>, <<"authOk", "telemetry">>,
      <<"telemetry", "authFail">>, <<"authOk", "authFail">>, <<"beat">>,
      <<"time">>, <<"other">>, <<"broken">> }

\* A device that works: all replies well formed, but repeated, coalesced and
\* out of step, and other traffic in between.
GoodChunks ==
    { <<"pub">>, <<"info">>, <<"pub", "pub">>, <<"pub", "info">>,
      <<"authOk">>, <<"authOk", "telemetry">>, <<"beat">>, <<"other">> }

\* The chunks of the session loop.
LoopChunks == { <<"authOk">>, <<"telemetry">>, <<"other">> }

\* The goroutine has returned.
Terminated == phase = "done" /\ UNCHANGED vars

MCSafetySpec == Init /\ [][Next \/ Terminated]_vars
MCSpec == Init /\ [][Next \/ Terminated]_vars /\ Fairness
=============================================================================
