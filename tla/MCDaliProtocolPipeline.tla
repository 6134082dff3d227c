------------------------ MODULE MCDaliProtocolPipeline ------------------------
(***************************************************************************)
(* Small instances of DaliProtocolPipeline.                                *)
(***************************************************************************)
EXTENDS DaliProtocolPipeline

Req(priority, expectsResponse, timeoutMs, maxRetries) ==
    [priority |-> priority, expectsResponse |-> expectsResponse,
     timeoutMs |-> timeoutMs, maxRetries |-> maxRetries]

\* An urgent and a background request, one execute rejects for its timeout and
\* one it rejects for its retries.
MCDirectRequests ==
    {Req(Critical, TRUE, 20, 0), Req(Low, FALSE, 20, 1),
     Req(Normal, TRUE, 0, 1), Req(Normal, TRUE, 20, 4)}

\* Presence and diagnostic polls.
MCQueryRequests == {Req(High, TRUE, 20, 3), Req(Low, TRUE, 20, 1)}

\* A level command.
MCControlRequests == {Req(Normal, FALSE, 20, 1)}

\* Every kind of result that is handled differently.
MCPhyResults ==
    {"Ok", "Timeout", "Collision", "BusPowerLost", "TransceiverFault"}

MCJitter == {0, MaximumJitterMs}
===============================================================================
