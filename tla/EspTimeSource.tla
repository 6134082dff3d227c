----------------------------- MODULE EspTimeSource -----------------------------
(***************************************************************************)
(* The time service shared by the tasks of both cores: an uptime that only *)
(* goes on, and a Unix time that is the last synchronisation extrapolated. *)
(*                                                                         *)
(* The two 64-bit fields and the flag are read and written one at a time   *)
(* in a critical section (portENTER_CRITICAL, a spin lock on two cores);   *)
(* the uptime is read after the section is left.  A peer measures the true *)
(* Unix time together with the uptime, and the result is applied later.    *)
(***************************************************************************)
EXTENDS Integers

CONSTANTS
    Readers,        \* the tasks that ask for the Unix time
    Setters,        \* the tasks that synchronise it
    NoTask,         \* nobody holds the lock
    Second,         \* 1000: units of uptime in a second
    Epoch,          \* the true Unix time, in those units, at uptime zero
    MaxUptime       \* bound: the uptime

ASSUME TimeAssumption ==
    /\ Readers \cap Setters = {}
    /\ NoTask \notin Readers \cup Setters
    /\ Second \in Nat \ {0}
    /\ Epoch \in Nat /\ Epoch >= Second
    /\ MaxUptime \in Nat

Tasks == Readers \cup Setters

VARIABLES
    uptime,                                     \* uptimeMs()
    unixAtSync, uptimeAtSync, synchronised,     \* the fields under lock_
    lock,                                       \* the task in the section, or NoTask
    pc,             \* where each task is
    seen,           \* the locals of each task: unix, uptime and validity
    answer          \* what a reader's last unixTimeSeconds returned, and the uptime it read

sharedVars == <<unixAtSync, uptimeAtSync, synchronised>>
vars == <<uptime, sharedVars, lock, pc, seen, answer>>

TrueSeconds(u) == (Epoch + u) \div Second

Unused == [unix |-> 0, uptime |-> 0, valid |-> FALSE]   \* the locals between calls
NoAnswer == [seconds |-> 0, at |-> 0, told |-> FALSE]

Init ==
    /\ uptime = 0
    /\ unixAtSync = 0 /\ uptimeAtSync = 0 /\ synchronised = FALSE
    /\ lock = NoTask
    /\ pc = [t \in Tasks |-> "idle"]
    /\ seen = [t \in Tasks |-> Unused]
    /\ answer = [r \in Readers |-> NoAnswer]

-----------------------------------------------------------------------------

\* Mutant of MayEnter: the section is no section.
MayEnterAlways(t) == TRUE

MayEnter(t) == lock = NoTask

\* portENTER_CRITICAL: the task spins until the lock is free.
Enter(t, from, to) ==
    /\ pc[t] = from
    /\ MayEnter(t)
    /\ lock' = t
    /\ pc' = [pc EXCEPT ![t] = to]
    /\ UNCHANGED <<uptime, sharedVars, seen, answer>>

Leave(t, to) ==
    /\ lock' = NoTask
    /\ pc' = [pc EXCEPT ![t] = to]

Advance ==
    /\ uptime < MaxUptime
    /\ uptime' = uptime + 1
    /\ UNCHANGED <<sharedVars, lock, pc, seen, answer>>

\* unixTimeSeconds: the section with its three reads.
AskSeconds(r) == Enter(r, "idle", "readUnix")

ReadUnix(r) ==
    /\ pc[r] = "readUnix"
    /\ seen' = [seen EXCEPT ![r].unix = unixAtSync]
    /\ pc' = [pc EXCEPT ![r] = "readUptime"]
    /\ UNCHANGED <<uptime, sharedVars, lock, answer>>

ReadUptime(r) ==
    /\ pc[r] = "readUptime"
    /\ seen' = [seen EXCEPT ![r].uptime = uptimeAtSync]
    /\ pc' = [pc EXCEPT ![r] = "readValid"]
    /\ UNCHANGED <<uptime, sharedVars, lock, answer>>

ReadValid(r) ==
    /\ pc[r] = "readValid"
    /\ seen' = [seen EXCEPT ![r].valid = synchronised]
    /\ Leave(r, "extrapolate")
    /\ UNCHANGED <<uptime, sharedVars, answer>>

\* The synchronised time and the whole seconds since; before them, if the uptime
\* were behind.
Extrapolated(s, now) ==
    IF now < s.uptime THEN s.unix ELSE s.unix + (now - s.uptime) \div Second

\* The rest of unixTimeSeconds, outside the section.
Extrapolate(r) ==
    /\ pc[r] = "extrapolate"
    /\ answer' = [answer EXCEPT ![r] =
            [seconds |-> IF seen[r].valid THEN Extrapolated(seen[r], uptime) ELSE 0,
             at |-> uptime, told |-> seen[r].valid]]
    /\ seen' = [seen EXCEPT ![r] = Unused]
    /\ pc' = [pc EXCEPT ![r] = "idle"]
    /\ UNCHANGED <<uptime, sharedVars, lock>>

\* unixTimeValid, whose answer is the flag.
AskValid(r) == Enter(r, "idle", "readFlag")

ReadFlag(r) ==
    /\ pc[r] = "readFlag"
    /\ Leave(r, "idle")
    /\ UNCHANGED <<uptime, sharedVars, seen, answer>>

\* A peer's time arrives: it was measured at the present uptime.
Measure(t) ==
    /\ pc[t] = "idle"
    /\ seen' = [seen EXCEPT ![t] = [unix |-> TrueSeconds(uptime), uptime |-> uptime,
                                    valid |-> TRUE]]
    /\ pc' = [pc EXCEPT ![t] = "measured"]
    /\ UNCHANGED <<uptime, sharedVars, lock, answer>>

\* synchroniseUnixTime: the section with its three writes.
Synchronise(t) == Enter(t, "measured", "writeUnix")

WriteUnix(t) ==
    /\ pc[t] = "writeUnix"
    /\ unixAtSync' = seen[t].unix
    /\ pc' = [pc EXCEPT ![t] = "writeUptime"]
    /\ UNCHANGED <<uptime, uptimeAtSync, synchronised, lock, seen, answer>>

WriteUptime(t) ==
    /\ pc[t] = "writeUptime"
    /\ uptimeAtSync' = seen[t].uptime
    /\ pc' = [pc EXCEPT ![t] = "writeValid"]
    /\ UNCHANGED <<uptime, unixAtSync, synchronised, lock, seen, answer>>

WriteValid(t) ==
    /\ pc[t] = "writeValid"
    /\ synchronised' = TRUE
    /\ seen' = [seen EXCEPT ![t] = Unused]
    /\ Leave(t, "idle")
    /\ UNCHANGED <<uptime, unixAtSync, uptimeAtSync, answer>>

Read(r) ==
    \/ AskSeconds(r) \/ ReadUnix(r) \/ ReadUptime(r) \/ ReadValid(r) \/ Extrapolate(r)
    \/ AskValid(r) \/ ReadFlag(r)

Set(t) ==
    \/ Measure(t) \/ Synchronise(t)
    \/ WriteUnix(t) \/ WriteUptime(t) \/ WriteValid(t)

Next ==
    \/ Advance
    \/ \E r \in Readers : Read(r)
    \/ \E t \in Setters : Set(t)

Spec == Init /\ [][Next]_vars

-----------------------------------------------------------------------------

TypeOK ==
    /\ uptime \in 0 .. MaxUptime
    /\ unixAtSync \in Nat /\ uptimeAtSync \in 0 .. MaxUptime /\ synchronised \in BOOLEAN
    /\ lock \in Tasks \cup {NoTask}
    /\ pc \in [Tasks -> {"idle", "readUnix", "readUptime", "readValid", "extrapolate",
                         "readFlag", "measured", "writeUnix", "writeUptime", "writeValid"}]
    /\ seen \in [Tasks -> [unix : Nat, uptime : 0 .. MaxUptime, valid : BOOLEAN]]
    /\ answer \in [Readers -> [seconds : Nat, at : 0 .. MaxUptime, told : BOOLEAN]]

\* Whatever synchronisations run meanwhile, and in whatever order they are
\* applied, a Unix time that is returned is the true one at the uptime the call
\* read, or a second behind it by the two roundings: never computed from a mixture of two.
AtMostASecondSlow ==
    \A r \in Readers : answer[r].told =>
        answer[r].seconds \in {TrueSeconds(answer[r].at) - 1, TrueSeconds(answer[r].at)}
=============================================================================
