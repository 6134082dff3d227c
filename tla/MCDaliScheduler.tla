---------------------------- MODULE MCDaliScheduler ----------------------------
EXTENDS DaliScheduler

\* A healthy light that is on, a light that is off after a recent fault.
MCContexts ==
    {[commandedOn |-> TRUE, warningActive |-> FALSE, recentFault |-> FALSE],
     [commandedOn |-> FALSE, warningActive |-> FALSE, recentFault |-> TRUE]}

\* The order of the intervals of the code, in coarse units.
MCPeriod == [fast |-> 1, slow |-> 2, on |-> 2, off |-> 3, presence |-> 2,
             healthy |-> 4, observed |-> 2, lifetime |-> 5, identity |-> 6,
             fastUntil |-> 1, slowUntil |-> 2]

\* Every light commanded on, and nothing wrong with any.
AllOn == {[commandedOn |-> TRUE, warningActive |-> FALSE, recentFault |-> FALSE]}

\* The intervals of the code with 2.5 seconds to the unit; no light is observed,
\* so the windows are not used.
StarvingPeriod == [fast |-> 1, slow |-> 2, on |-> 2, off |-> 12, presence |-> 12,
                   healthy |-> 24, observed |-> 4, lifetime |-> 8640,
                   identity |-> 34560, fastUntil |-> 1, slowUntil |-> 1]
=============================================================================
