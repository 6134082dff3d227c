---------------------------- MODULE MCSimulatedBus ----------------------------
(***************************************************************************)
(* The simulated bus for TLC: a ring of two slots, prompt, late and        *)
(* colliding responses, a level, the mask that is none, a group command, a *)
(* special command and a query.                                            *)
(***************************************************************************)
EXTENDS SimulatedBus

MCResponses ==
    {[result |-> "Ok", value |-> 4, delayMs |-> 0],
     [result |-> "Ok", value |-> 7, delayMs |-> 22],
     [result |-> "Collision", value |-> 0, delayMs |-> 0]}

MCNoResponse == [result |-> "none", value |-> 0, delayMs |-> 0]
MCEmptySlot == [result |-> "Timeout", value |-> 0, delayMs |-> 0]

MCControlCalls ==
    {[kind |-> "shortArc", target |-> 63, data |-> 254],
     [kind |-> "groupArc", target |-> 15, data |-> 255],
     [kind |-> "groupCommand", target |-> 2, data |-> OpcodeOf("AddToGroup", 2)],
     [kind |-> "special", target |-> 163, data |-> 42]}

MCQueryCalls == {[kind |-> "shortCommand", target |-> 3, data |-> QueryStatus]}
===============================================================================
