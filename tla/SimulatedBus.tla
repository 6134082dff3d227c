------------------------------ MODULE SimulatedBus ------------------------------
(***************************************************************************)
(* A caller over the simulated PHY, and the test that owns the PHY: it     *)
(* scripts responses and throws the switches of the line, before a call    *)
(* and while the caller sleeps between two attempts.                       *)
(***************************************************************************)
EXTENDS DaliClient

CONSTANTS
    ControlCalls,   \* what the caller asks of DaliControl
    QueryCalls,     \* what it asks as queries, which expect a response
    Timeouts,       \* how long a request waits for a response, in ms
    RetryLimits,    \* the retries requests ask for
    Switches        \* the fields of PhyHealth the test sets

ASSUME SimulatedBusAssumption ==
    /\ ControlCalls \cap QueryCalls = {}
    /\ \A call \in ControlCalls \cup QueryCalls : IsSendable(call) => call \in Calls
    /\ Timeouts \subseteq Nat
    /\ RetryLimits \subseteq Nat
    /\ Switches \subseteq {"busPowered", "transceiverHealthy", "lineStuckHigh",
                           "lineStuckLow"}

vars == <<phyVars, clientVars>>

Init == PhyInit /\ ClientInit

\* The test that owns the PHY.
Environment ==
    /\ \/ PhyInitialise
       \/ PhyReset
       \/ \E r \in Responses : EnqueueResponse(r)
       \/ \E field \in Switches, value \in BOOLEAN : SetHealth(field, value)
       \/ \E busy, colliding \in BOOLEAN : SetLine(busy, colliding)
    /\ UNCHANGED clientVars

Next ==
    \/ \E t \in Timeouts, n \in RetryLimits :
         \/ \E call \in ControlCalls : Submit(Request(call, FALSE, t, n))
         \/ \E call \in QueryCalls : Submit(Request(call, TRUE, t, n))
    \/ Attempt
    \/ Environment

Spec == Init /\ [][Next]_vars

-----------------------------------------------------------------------------

\* Every variable holds a value of its type, and what waits in the ring was
\* scripted, never an empty slot.
TypeOK ==
    /\ responses \in [Indices -> Responses \cup {EmptySlot}]
    /\ responseHead \in Indices /\ responseCount \in 0 .. Capacity
    /\ \A i \in 1 .. responseCount : Script[i] \in Responses
    /\ consumed \in Responses \cup {NoResponse}

\* The responses reach their readers in the order they were scripted, each once
\* and only while the line works, through any wrap of the ring and any retries,
\* timeouts and resets in between: the PHY implements the script of its tests.
Scripted == INSTANCE ResponseScript WITH
    script <- Script, handed <- consumed, Limit <- Capacity
ImplementsResponseScript == Scripted!Spec

\* A call that reports success has put its own frame on the line, which gear reads
\* as what was asked, and a query then has the value of a response that came in
\* time; no more attempts are made than were asked for.
OkMeansSent ==
    /\ request = Idle /\ answer.status = "Ok" =>
         /\ Understood(lastForwardFrame) = answer.call
         /\ answer.call \in QueryCalls =>
              answer.response # NoResponse /\ answer.response.result = "Ok"
    /\ attempt <= request.maxRetries /\ request.maxRetries <= AbsoluteMaxRetries
===============================================================================
