----------------------------- MODULE DaliScheduler -----------------------------
(***************************************************************************)
(* The adaptive poll scheduler and the loop of the task that owns it.      *)
(*                                                                         *)
(* The code keeps the time at which each poll of each light is due; here   *)
(* it is the time that remains until then, zero once it is due, which is   *)
(* all that next() tells apart.  Time is thereby without a bound, and the  *)
(* loop may go on for ever in finitely many states.                        *)
(*                                                                         *)
(* The loop is the one src/docs/architecture-and-integration.md:41 gives:  *)
(* ask next(), run the poll on the bus, complete() it.  When next() has    *)
(* nothing, the task waits.                                                *)
(***************************************************************************)
EXTENDS Integers, FiniteSets

CONSTANTS
    NumLights,      \* kMaximumLights, 64 in the code
    Kinds,          \* bound: the kinds of poll that are kept
    Period,         \* the intervals and windows, in units of the loop's clock
    Contexts,       \* the contexts the owner configures lights with
    Utilisations,   \* the levels of bus utilisation the owner passes to next
    Durations,      \* how long a poll may take on the bus
    MayAbandon,     \* whether the owner may drop a poll it did not complete
    MaxConfigures   \* bound: calls of configure

Lights == 0 .. NumLights - 1

\* PollKind, in the order next() tries the kinds of a light.
PollKinds == {"Status", "Presence", "Electrical", "Temperature", "Lifetime", "Identity"}
Rank == [Status |-> 0, Presence |-> 1, Electrical |-> 2,
         Temperature |-> 3, Lifetime |-> 4, Identity |-> 5]

LightPollContext == [commandedOn : BOOLEAN, warningActive : BOOLEAN, recentFault : BOOLEAN]

\* A utilisation below the normal limit, between the two, or at the diagnostic
\* limit and above; a negative one is refused like the last.
UtilisationLevels == {"Normal", "Diagnostic", "Over"}

PeriodNames == {"fast", "slow", "on", "off", "presence", "healthy", "observed",
                "lifetime", "identity", "fastUntil", "slowUntil"}

ASSUME SchedulerAssumption ==
    /\ NumLights \in Nat \ {0}
    /\ "Status" \in Kinds /\ Kinds \subseteq PollKinds
    /\ Period \in [PeriodNames -> Nat \ {0}]
    /\ Period.fast <= Period.slow
    /\ Period.slow <= Period.on
    /\ Period.slow <= Period.off
    /\ Period.fastUntil <= Period.slowUntil
    /\ Contexts \subseteq LightPollContext
    /\ Utilisations \subseteq UtilisationLevels
    /\ Durations \subseteq Nat \ {0}
    /\ MayAbandon \in BOOLEAN
    /\ MaxConfigures \in Nat

Poll == [address : Lights, kind : Kinds]
NoPoll == [address |-> -1, kind |-> "Count"]

VARIABLES
    configured,     \* the lights with a configured slot
    context,        \* LightPollContext of each slot
    watched,        \* the time since its observationStartedMs, up to slowUntil
    remaining,      \* the time until each poll is due, 0 when it is due
    clock,          \* the last bit of the time, so that waiting is a step
    cursor,         \* roundRobinCursor_
    inFlight,       \* the poll the owner has on the bus, or NoPoll
    busy,           \* how much longer that poll takes
    configures,     \* how many times configure was called
    overtaken       \* overtaken[a][b]: polls granted to b while a could have been served

slotVars == <<configured, context, watched, remaining, clock>>
ownerVars == <<inFlight, busy>>
vars == <<slotVars, cursor, ownerVars, configures, overtaken>>

NotOvertaken == [b \in Lights |-> 0]

Init ==
    /\ configured = {}
    /\ context = [a \in Lights |-> [commandedOn |-> FALSE, warningActive |-> FALSE,
                                    recentFault |-> FALSE]]
    /\ watched = [a \in Lights |-> 0]
    /\ remaining = [a \in Lights |-> [k \in Kinds |-> 0]]
    /\ clock = 0
    /\ cursor = 0
    /\ inFlight = NoPoll
    /\ busy = 0
    /\ configures = 0
    /\ overtaken = [a \in Lights |-> NotOvertaken]

-----------------------------------------------------------------------------

UnderObservation(c) == c.warningActive \/ c.recentFault

\* intervalFor, the status poll: fast in the first window of an observation,
\* slower in the second, then by what the light is commanded to.
StatusInterval(c, elapsed) ==
    CASE UnderObservation(c) /\ elapsed < Period.fastUntil -> Period.fast
      [] UnderObservation(c) /\ elapsed >= Period.fastUntil
                             /\ elapsed < Period.slowUntil -> Period.slow
      [] OTHER -> IF c.commandedOn THEN Period.on ELSE Period.off

\* Mutant of IntervalFor: the pace of a light that is off, observed or not.
IntervalForgetful(kind, c, elapsed) ==
    IF kind = "Status" THEN Period.off ELSE Period.presence

IntervalFor(kind, c, elapsed) ==
    CASE kind = "Status" -> StatusInterval(c, elapsed)
      [] kind = "Presence" -> Period.presence
      [] kind = "Electrical" -> IF UnderObservation(c) THEN Period.observed ELSE Period.healthy
      [] kind = "Temperature" -> IF c.warningActive THEN Period.observed ELSE Period.healthy
      [] kind = "Lifetime" -> Period.lifetime
      [] kind = "Identity" -> Period.identity

\* When the polls of a light that is configured now are first due.
FirstDue(kind) ==
    CASE kind = "Status" -> 0
      [] kind = "Presence" -> Period.presence
      [] kind = "Lifetime" -> Period.lifetime
      [] kind = "Identity" -> Period.identity
      [] OTHER -> Period.healthy

\* priorityFor: only the status of a light under observation is critical, the
\* one distinction admit() makes.
Critical(kind, c) == kind = "Status" /\ UnderObservation(c)

\* Mutant of Admits: one limit for all.
AdmitsNormalOnly(kind, c, utilisation) == utilisation = "Normal"

Admits(kind, c, utilisation) ==
    \/ utilisation = "Normal"
    \/ utilisation = "Diagnostic" /\ Critical(kind, c)

\* The polls of a light that next() could grant at this utilisation.
Candidates(a, utilisation) ==
    {k \in Kinds : /\ a \in configured
                   /\ remaining[a][k] = 0
                   /\ Admits(k, context[a], utilisation)}

Servable(utilisation) == {a \in Lights : Candidates(a, utilisation) # {}}

\* How far a light is from the cursor, in the order next() visits them.
Distance(from, a) == IF a >= from THEN a - from ELSE a - from + NumLights

Nearest(S) == CHOOSE a \in S : \A b \in S : Distance(cursor, a) <= Distance(cursor, b)
Foremost(K) == CHOOSE k \in K : \A l \in K : Rank[k] <= Rank[l]

\* Mutants of CursorAfter: the scan starts again at the light just served; the
\* cursor runs off the end of the table.
CursorAtServed(a) == a
CursorUnwrapped(a) == a + 1

CursorAfter(a) == (a + 1) % NumLights

-----------------------------------------------------------------------------

\* The lights passed over by a call of next() that served the light b.
Overtakes(b, utilisation) ==
    overtaken' = [a \in Lights |->
        IF a = b \/ a \notin Servable(utilisation) THEN NotOvertaken
        ELSE [overtaken[a] EXCEPT ![b] = @ + 1]]

\* configure: every due time of the slot is set anew.  The owner passes the start
\* of the observation; it is taken to be the present or the one passed before.
Configure(a, c) ==
    /\ configures < MaxConfigures
    /\ configures' = configures + 1
    /\ configured' = configured \cup {a}
    /\ context' = [context EXCEPT ![a] = c]
    /\ \/ watched' = [watched EXCEPT ![a] = 0]
       \/ a \in configured /\ UNCHANGED watched
    /\ remaining' = [remaining EXCEPT ![a] = [k \in Kinds |-> FirstDue(k)]]
    /\ UNCHANGED <<clock, cursor, ownerVars, overtaken>>

\* next() finds a poll: the first one of the nearest light that has any.
Grant(utilisation) ==
    /\ inFlight = NoPoll
    /\ Servable(utilisation) # {}
    /\ LET a == Nearest(Servable(utilisation)) IN
       /\ inFlight' = [address |-> a, kind |-> Foremost(Candidates(a, utilisation))]
       /\ cursor' = CursorAfter(a)
       /\ Overtakes(a, utilisation)
    /\ busy' \in Durations
    /\ UNCHANGED <<slotVars, configures>>

\* A unit of time goes by for the slots.
Elapse ==
    /\ remaining' = [a \in Lights |-> [k \in Kinds |->
            IF remaining[a][k] > 0 THEN remaining[a][k] - 1 ELSE 0]]
    /\ watched' = [a \in Lights |->
            IF a \in configured /\ watched[a] < Period.slowUntil
            THEN watched[a] + 1 ELSE watched[a]]
    /\ clock' = 1 - clock
    /\ UNCHANGED <<configured, context>>

\* next() has nothing to poll, and the owner waits.
Wait(utilisation) ==
    /\ inFlight = NoPoll
    /\ Servable(utilisation) = {}
    /\ Elapse
    /\ overtaken' = [a \in Lights |-> NotOvertaken]
    /\ UNCHANGED <<cursor, ownerVars, configures>>

Call(utilisation) == Grant(utilisation) \/ Wait(utilisation)

\* The poll is on the bus.
OnBus ==
    /\ busy > 0
    /\ busy' = busy - 1
    /\ Elapse
    /\ UNCHANGED <<cursor, inFlight, configures, overtaken>>

\* complete: the poll is due again an interval from now.
Complete ==
    /\ inFlight # NoPoll /\ busy = 0
    /\ LET a == inFlight.address IN
       remaining' = [remaining EXCEPT
           ![a][inFlight.kind] = IntervalFor(inFlight.kind, context[a], watched[a])]
    /\ inFlight' = NoPoll
    /\ UNCHANGED <<configured, context, watched, clock, cursor, busy, configures, overtaken>>

\* The owner gives up on a poll without completing it, so it stays due.
Abandon ==
    /\ MayAbandon
    /\ inFlight # NoPoll /\ busy = 0
    /\ inFlight' = NoPoll
    /\ UNCHANGED <<slotVars, cursor, busy, configures, overtaken>>

Next ==
    \/ \E a \in Lights, c \in Contexts : Configure(a, c)
    \/ \E utilisation \in Utilisations : Call(utilisation)
    \/ OnBus
    \/ Complete
    \/ Abandon

\* The task keeps running its loop, and the utilisation it measures is below the
\* diagnostic limit again and again.
Fairness ==
    /\ WF_vars(OnBus)
    /\ WF_vars(Complete)
    /\ SF_vars(\E utilisation \in Utilisations \ {"Over"} : Call(utilisation))

Spec == Init /\ [][Next]_vars /\ Fairness

-----------------------------------------------------------------------------

TypeOK ==
    /\ configured \subseteq Lights
    /\ context \in [Lights -> LightPollContext]
    /\ watched \in [Lights -> 0 .. Period.slowUntil]
    /\ remaining \in [Lights -> [Kinds -> Nat]]
    /\ clock \in 0 .. 1
    /\ cursor \in Lights
    /\ inFlight \in Poll \cup {NoPoll}
    /\ busy \in Nat
    /\ configures \in 0 .. MaxConfigures
    /\ overtaken \in [Lights -> [Lights -> Nat]]

\* The round robin of next(): while a light could be served at every call, no
\* other light is served twice before it, whatever is configured, completed or
\* abandoned in between and however the utilisation moves.
OvertakenOnce == \A a, b \in Lights : overtaken[a][b] <= 1

\* The status of a configured light is never scheduled further away than the
\* pace that holds for it now, also when an observation window ends between two
\* polls or the light is configured anew while its poll is on the bus.
StatusPace ==
    \A a \in configured :
        remaining[a]["Status"] <= StatusInterval(context[a], watched[a])

\* A light under observation whose status is due is polled although the bus is
\* above its normal limit, as admit() lets critical polls use the diagnostic one,
\* unless the light is configured anew and no longer observed.
ObservedServed ==
    \A a \in Lights :
        (a \in configured /\ UnderObservation(context[a]) /\ remaining[a]["Status"] = 0)
            ~> (inFlight.address = a \/ ~UnderObservation(context[a]))

\* src/docs/superpowers/specs/2026-07-10-savantix-dali-edge-controller-design.md:199
\* "Presence: every 30 seconds, scaled upward if necessary": however far the
\* period is stretched, the presence of a configured light is polled.
PresencePolled ==
    \A a \in Lights :
        (a \in configured) ~> (inFlight = [address |-> a, kind |-> "Presence"])
=============================================================================
