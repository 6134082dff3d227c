--------------------------- MODULE SimulatedDaliPhy ---------------------------
(***************************************************************************)
(* The simulated PHY of components/dali_simulator: a line with switches    *)
(* for its faults and a ring of scripted responses.  A response is not     *)
(* tied to the query it was scripted for: whoever receives next is given   *)
(* the oldest, and one that takes longer than the caller waits stays where *)
(* it is.  The module constrains only its own variables.                   *)
(***************************************************************************)
EXTENDS Ring

CONSTANTS
    Responses,      \* SimulatedResponse: records of result, value and delayMs
    NoResponse,     \* no response was consumed
    EmptySlot       \* what a slot of the ring holds before it is used

ASSUME SimulatedDaliPhyAssumption ==
    /\ NoResponse \notin Responses
    /\ EmptySlot \notin Responses

VARIABLES
    responses, responseHead, responseCount,
    health,             \* health_: PhyHealth
    busBusy, collision, \* busBusy_, collision_
    lastForwardFrame,
    consumed            \* the response the last call took from the ring

ringVars == <<responses, responseHead, responseCount>>
lineVars == <<health, busBusy, collision>>
phyVars == <<ringVars, lineVars, lastForwardFrame, consumed>>

PhyInit ==
    /\ responses = [i \in Indices |-> EmptySlot]
    /\ responseHead = 0 /\ responseCount = 0
    /\ health = [initialised |-> FALSE, busPowered |-> TRUE, transceiverHealthy |-> TRUE,
                 lineStuckHigh |-> FALSE, lineStuckLow |-> FALSE]
    /\ busBusy = FALSE /\ collision = FALSE
    /\ lastForwardFrame = 0
    /\ consumed = NoResponse

\* The responses that wait.
Script == Contents(responses, responseHead, responseCount)

-----------------------------------------------------------------------------

\* Of init and reset.
TransceiverResult == IF health.transceiverHealthy THEN "Ok" ELSE "TransceiverFault"

PhyInitialise ==
    /\ health' = [health EXCEPT !.initialised = TRUE]
    /\ consumed' = NoResponse
    /\ UNCHANGED <<ringVars, busBusy, collision, lastForwardFrame>>

\* The checks transmit and receive share, in their order.
LineResult ==
    IF ~health.initialised THEN "NotInitialised"
    ELSE IF ~health.busPowered THEN "BusPowerLost"
    ELSE TransceiverResult

TransmitResult ==
    IF LineResult # "Ok" THEN LineResult
    ELSE IF busBusy THEN "Busy"
    ELSE IF collision THEN "Collision" ELSE "Ok"

\* transmit.
Sent(frame) ==
    lastForwardFrame' = IF TransmitResult = "Ok" THEN frame ELSE lastForwardFrame

Oldest == responses[responseHead]

\* Whether a receive takes the oldest response.
Arrives(timeoutMs) ==
    LineResult = "Ok" /\ responseCount > 0 /\ Oldest.delayMs <= timeoutMs

\* What receive returns, and with it the value when the result is Ok.
ReceiveResult(timeoutMs) ==
    IF LineResult # "Ok" THEN LineResult
    ELSE IF Arrives(timeoutMs) THEN Oldest.result ELSE "Timeout"

\* Mutant of HeadAfter: the head stays.
HeadAfterNothing == responseHead

HeadAfter == SlotAt(responseHead, 1)

\* receive.
Received(timeoutMs) ==
    IF Arrives(timeoutMs)
    THEN /\ responseHead' = HeadAfter
         /\ responseCount' = responseCount - 1
         /\ consumed' = Oldest
         /\ UNCHANGED responses
    ELSE consumed' = NoResponse /\ UNCHANGED ringVars

NothingReceived == consumed' = NoResponse /\ UNCHANGED ringVars

PhyReset ==
    /\ busBusy' = FALSE /\ collision' = FALSE
    /\ health' = [health EXCEPT !.lineStuckHigh = FALSE, !.lineStuckLow = FALSE]
    /\ consumed' = NoResponse
    /\ UNCHANGED <<ringVars, lastForwardFrame>>

\* Mutant of RingFull: nothing is refused.
RingFullNever == FALSE

RingFull == responseCount = Capacity

\* enqueueResponse; with a full ring it returns Busy and changes nothing.
EnqueueResponse(r) ==
    /\ consumed' = NoResponse
    /\ IF RingFull
       THEN UNCHANGED ringVars
       ELSE /\ responses' = [responses EXCEPT ![SlotAt(responseHead, responseCount)] = r]
            /\ responseCount' = responseCount + 1
            /\ UNCHANGED responseHead
    /\ UNCHANGED <<lineVars, lastForwardFrame>>

\* The setters of the line.
SetHealth(field, value) ==
    /\ health' = [health EXCEPT ![field] = value]
    /\ consumed' = NoResponse
    /\ UNCHANGED <<ringVars, busBusy, collision, lastForwardFrame>>

SetLine(busy, colliding) ==
    /\ busBusy' = busy /\ collision' = colliding
    /\ consumed' = NoResponse
    /\ UNCHANGED <<ringVars, health, lastForwardFrame>>
===============================================================================
