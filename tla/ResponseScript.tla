---------------------------- MODULE ResponseScript ----------------------------
(***************************************************************************)
(* What the simulated PHY promises its tests: the responses they script    *)
(* are handed out in order, each at most once, and none is lost but by     *)
(* being refused when there are Limit of them.                             *)
(***************************************************************************)
EXTENDS Integers, Sequences

CONSTANTS
    Responses,      \* what can be scripted
    NoResponse,     \* nothing was handed out by the last call
    Limit           \* how many responses may wait

VARIABLES
    script,         \* the responses that wait, in the order they were scripted
    handed          \* the response the last call handed out, or NoResponse

scriptVars == <<script, handed>>

Init == script = << >> /\ handed = NoResponse

Enqueue(r) ==
    /\ Len(script) < Limit
    /\ script' = Append(script, r)
    /\ handed' = NoResponse

HandOut ==
    /\ script # << >>
    /\ handed' = Head(script)
    /\ script' = Tail(script)

\* Every call that hands out nothing.
Other == handed' = NoResponse /\ UNCHANGED script

Next == (\E r \in Responses : Enqueue(r)) \/ HandOut \/ Other

Spec == Init /\ [][Next]_scriptVars
===============================================================================
