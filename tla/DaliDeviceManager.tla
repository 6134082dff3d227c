--------------------------- MODULE DaliDeviceManager ---------------------------
(***************************************************************************)
(* The device manager of components/dali_device_manager: the presence scan *)
(* over all short addresses with its miss counting, the registry of device *)
(* records, the changes a scan reports, and the capability probes.         *)
(*                                                                         *)
(* A scan asks one address after the other and the bus changes between two *)
(* queries, so each query is a step.  The bus is part of the model: which  *)
(* gear answers at an address and whether the bus has power.  A query      *)
(* normally finds what is there; one step in a while it is disturbed.      *)
(***************************************************************************)
EXTENDS Integers, Sequences

CONSTANTS
    AddressCount,       \* DaliDeviceRegistry::kCapacity, 64 in the code
    BatchCapacity,      \* DiscoveryBatch::kCapacity, 64 in the code as well
    CoreFeatures,       \* the features detectCoreCapabilities probes, in order
    GearFeatures,       \* the features the gear on the bus answers for
    Disturbances,       \* the outcomes a disturbed query can have
    MaxDisruptions      \* bound: changes of the bus and disturbed queries

ASSUME DeviceManagerAssumption ==
    /\ AddressCount \in Nat \ {0}
    /\ BatchCapacity \in Nat
    /\ BatchCapacity >= AddressCount
    /\ CoreFeatures \in Seq(STRING)
    /\ Disturbances \subseteq {"Ok", "NoResponse", "Collision", "Busy",
                               "HardwareFailure", "QueueFull", "Invalid"}
    /\ MaxDisruptions \in Nat

Addresses == 0..(AddressCount - 1)

VARIABLES
    records,            \* registry_: lifecycle, presence and misses by address
    capabilities,       \* the capability entries of each record
    duplicateReported,  \* the static array of scanPresence
    op,                 \* the call in progress and the next thing it asks
    batch,              \* the DiscoveryBatch of the scan in progress
    view,               \* what the batches returned so far tell their reader
    gear,               \* how many devices answer at each address
    power,              \* whether the bus has power
    disruptions,        \* how often the bus changed or a query was disturbed
    steady,             \* the addresses with one device and no disturbance ever
    episode,            \* since the last valid response of an address: whether
                        \* a collision was seen, and the suspicions reported
    absences,           \* since the last valid response of a known light: the
                        \* scans it missed, and those missed in a row
    silences            \* since the last valid answer for a feature: how many
                        \* probes nobody answered

managerVars == <<records, capabilities, duplicateReported, op, batch, view>>
busVars == <<gear, power, disruptions, steady>>
historyVars == <<episode, absences, silences>>
vars == <<managerVars, busVars, historyVars>>

DeviceLifecycle == {"None", "Present", "Missing", "DuplicateAddress"}
CapabilityState == {"Unknown", "Supported", "Unsupported"}
ChangeType ==
    {"DeviceDiscovered", "DeviceMissing", "DeviceRecovered",
     "DuplicateAddressSuspected"}

\* The empty slot of the registry is a record without a lifecycle.
NoRecord == [lifecycle |-> "None", present |-> FALSE, missed |-> 0]
Seen == [lifecycle |-> "Present", present |-> TRUE, missed |-> 0]
NoEntry == [state |-> "Unknown", noResponses |-> 0]

NoEpisode == [collided |-> FALSE, suspicions |-> 0]
NoAbsence == [missed |-> 0, inARow |-> 0]

Idle == [kind |-> "idle", address |-> 0, probe |-> 0]

Init ==
    /\ records = [a \in Addresses |-> NoRecord]
    /\ capabilities = [a \in Addresses |-> [i \in DOMAIN CoreFeatures |-> NoEntry]]
    /\ duplicateReported = [a \in Addresses |-> FALSE]
    /\ op = Idle
    /\ batch = << >>
    /\ view = [a \in Addresses |-> "unseen"]
    /\ gear \in [Addresses -> 0..2]
    /\ power = TRUE
    /\ disruptions = 0
    /\ steady = {a \in Addresses : gear[a] = 1}
    /\ episode = [a \in Addresses |-> NoEpisode]
    /\ absences = [a \in Addresses |-> NoAbsence]
    /\ silences = [a \in Addresses |-> [i \in DOMAIN CoreFeatures |-> 0]]

-----------------------------------------------------------------------------
(* The bus.                                                                *)

\* A device is added to an address, taken away or replaced by two.
ChangeGear(a, n) ==
    /\ disruptions < MaxDisruptions
    /\ gear[a] # n
    /\ gear' = [gear EXCEPT ![a] = n]
    /\ disruptions' = disruptions + 1
    /\ steady' = steady \ {a}
    /\ UNCHANGED <<managerVars, power, historyVars>>

SwitchPower ==
    /\ disruptions < MaxDisruptions
    /\ power' = ~ power
    /\ disruptions' = disruptions + 1
    /\ UNCHANGED <<managerVars, gear, steady, historyVars>>

\* What a query for something a device knows or does not know finds.
Answer(a, known) ==
    CASE ~ power                  -> "BusFailure"
      [] power /\ gear[a] = 0     -> "NoResponse"
      [] power /\ gear[a] = 1     -> IF known THEN "Ok" ELSE "NoResponse"
      [] power /\ gear[a] = 2     -> "Collision"

\* The outcome of a query to an address, and what it costs the bound.
Queried(a, known, outcome) ==
    \/ /\ outcome = Answer(a, known)
       /\ UNCHANGED busVars
    \/ /\ outcome \in Disturbances
       /\ power
       /\ disruptions < MaxDisruptions
       /\ disruptions' = disruptions + 1
       /\ steady' = steady \ {a}
       /\ UNCHANGED <<gear, power>>

Outcomes == {"Ok", "NoResponse", "Collision", "BusFailure"} \cup Disturbances

-----------------------------------------------------------------------------
(* scanPresence.                                                           *)

IsValidResponse(outcome) == outcome = "Ok"

\* Mutant of IsBusFailure: lost power is a miss like any other.
IsBusFailureNever(outcome) == FALSE

\* The code also asks for a physical result BusPowerLost; the client of the
\* pipeline gives that result with the outcome BusFailure only.
IsBusFailure(outcome) == outcome = "BusFailure"

\* Mutant of Miss: the count has no end.
MissUncapped(record) ==
    LET missed == record.missed + 1
    IN  IF missed >= 3
        THEN [lifecycle |-> "Missing", present |-> FALSE, missed |-> missed]
        ELSE [record EXCEPT !.missed = missed]

\* A miss that counts.
Miss(record) ==
    LET missed == IF record.missed < 3 THEN record.missed + 1 ELSE record.missed
    IN  IF missed >= 3
        THEN [lifecycle |-> "Missing", present |-> FALSE, missed |-> missed]
        ELSE [record EXCEPT !.missed = missed]

\* Mutant of AfterPresence: a duplicate address is not counted out.
AfterPresenceStuck(record, outcome) ==
    CASE IsValidResponse(outcome) -> Seen
      [] outcome = "Collision" ->
            IF record = NoRecord THEN record
            ELSE [record EXCEPT !.lifecycle = "DuplicateAddress"]
      [] OTHER ->
            IF \/ record = NoRecord
               \/ IsBusFailure(outcome)
               \/ record.lifecycle \in {"Missing", "DuplicateAddress"}
            THEN record
            ELSE Miss(record)

\* Mutant of AfterPresence: an answer does not end the count.
AfterPresenceUncleared(record, outcome) ==
    CASE IsValidResponse(outcome) ->
            [lifecycle |-> "Present", present |-> TRUE, missed |-> record.missed]
      [] outcome = "Collision" ->
            IF record = NoRecord THEN record
            ELSE [record EXCEPT !.lifecycle = "DuplicateAddress"]
      [] OTHER ->
            IF \/ record = NoRecord
               \/ IsBusFailure(outcome)
               \/ record.lifecycle = "Missing"
            THEN record
            ELSE Miss(record)

\* The record of an address after the outcome of its presence query.
AfterPresence(record, outcome) ==
    CASE IsValidResponse(outcome) -> Seen
      [] outcome = "Collision" ->
            IF record = NoRecord THEN record
            ELSE [record EXCEPT !.lifecycle = "DuplicateAddress"]
      [] OTHER ->
            IF \/ record = NoRecord
               \/ IsBusFailure(outcome)
               \/ record.lifecycle = "Missing"
            THEN record
            ELSE Miss(record)

\* Mutant of ChangeOf: a duplicate is reported every time it is seen.
ChangeOfEachTime(record, reported, outcome) ==
    CASE IsValidResponse(outcome) ->
            IF record = NoRecord THEN "DeviceDiscovered"
            ELSE IF record.lifecycle = "Missing" THEN "DeviceRecovered"
            ELSE "none"
      [] outcome = "Collision" -> "DuplicateAddressSuspected"
      [] OTHER ->
            IF /\ record.lifecycle # "Missing"
               /\ AfterPresence(record, outcome).lifecycle = "Missing"
            THEN "DeviceMissing"
            ELSE "none"

\* Mutant of ChangeOf: a light is found missing without a word.
ChangeOfSilently(record, reported, outcome) ==
    CASE IsValidResponse(outcome) ->
            IF record = NoRecord THEN "DeviceDiscovered"
            ELSE IF record.lifecycle = "Missing" THEN "DeviceRecovered"
            ELSE "none"
      [] outcome = "Collision" /\ ~ reported -> "DuplicateAddressSuspected"
      [] OTHER -> "none"

\* The change the outcome of a presence query adds to the batch.
ChangeOf(record, reported, outcome) ==
    CASE IsValidResponse(outcome) ->
            IF record = NoRecord THEN "DeviceDiscovered"
            ELSE IF record.lifecycle = "Missing" THEN "DeviceRecovered"
            ELSE "none"
      [] outcome = "Collision" ->
            IF reported THEN "none" ELSE "DuplicateAddressSuspected"
      [] OTHER ->
            IF /\ record.lifecycle # "Missing"
               /\ AfterPresence(record, outcome).lifecycle = "Missing"
            THEN "DeviceMissing"
            ELSE "none"

\* DiscoveryBatch::add, which drops what does not fit.
Added(changes, type, a) ==
    IF type = "none" \/ Len(changes) = BatchCapacity
    THEN changes
    ELSE Append(changes, [type |-> type, address |-> a])

\* Whether the suspicion of a duplicate has been reported, after the outcome.
AfterReport(reported, outcome) ==
    CASE IsValidResponse(outcome) -> FALSE
      [] outcome = "Collision"    -> TRUE
      [] OTHER                    -> reported

\* The history of a known light after the outcome: lost power says nothing, a
\* collision is a sign of life, but no answer.  Three or more are three.
AfterAbsence(absence, outcome) ==
    LET OneMore(n) == IF n < 3 THEN n + 1 ELSE n
    IN  CASE outcome = "Ok"         -> NoAbsence
          [] outcome = "BusFailure" -> absence
          [] outcome = "Collision"  -> [absence EXCEPT !.inARow = 0]
          [] OTHER -> [missed |-> OneMore(absence.missed),
                       inARow |-> OneMore(absence.inARow)]

BeginScan ==
    /\ op = Idle
    /\ op' = [kind |-> "scan", address |-> 0, probe |-> 0]
    /\ batch' = << >>
    /\ UNCHANGED <<records, capabilities, duplicateReported, view, busVars,
                   historyVars>>

\* One round of the loop.
ScanAddress(outcome) ==
    LET a == op.address IN
    /\ op.kind = "scan"
    /\ a < AddressCount
    /\ Queried(a, TRUE, outcome)
    /\ records' = [records EXCEPT ![a] = AfterPresence(@, outcome)]
    /\ duplicateReported' = [duplicateReported EXCEPT ![a] = AfterReport(@, outcome)]
    /\ batch' = Added(batch, ChangeOf(records[a], duplicateReported[a], outcome), a)
    /\ episode' = [episode EXCEPT
                       ![a] = IF IsValidResponse(outcome) THEN NoEpisode
                              ELSE [collided |-> @.collided \/ outcome = "Collision",
                                    suspicions |-> @.suspicions +
                                        IF /\ outcome = "Collision"
                                           /\ Len(batch') > Len(batch)
                                        THEN 1 ELSE 0]]
    /\ absences' = [absences EXCEPT
                        ![a] = IF records'[a] = NoRecord THEN NoAbsence
                               ELSE AfterAbsence(@, outcome)]
    /\ op' = [op EXCEPT !.address = a + 1]
    /\ UNCHANGED <<capabilities, view, silences>>

\* What a reader of the batches knows of a light after one more change.
AfterChange(v, type) ==
    CASE type \in {"DeviceDiscovered", "DeviceRecovered"} -> "present"
      [] type = "DeviceMissing"                           -> "missing"
      [] OTHER                                            -> v

\* The view of a light with the changes of the batch.
Told(a) ==
    IF \E i \in 1..Len(batch) : batch[i].address = a
    THEN AfterChange(view[a],
                     batch[CHOOSE i \in 1..Len(batch) : batch[i].address = a].type)
    ELSE view[a]

\* The batch is returned to the caller.
EndScan ==
    /\ op.kind = "scan"
    /\ op.address = AddressCount
    /\ view' = [a \in Addresses |-> Told(a)]
    /\ batch' = << >>
    /\ op' = Idle
    /\ UNCHANGED <<records, capabilities, duplicateReported, busVars,
                   historyVars>>

-----------------------------------------------------------------------------
(* detectCoreCapabilities.                                                 *)

\* The entry of a feature after the outcome of its probe.
AfterProbe(entry, outcome) ==
    CASE IsValidResponse(outcome) -> [state |-> "Supported", noResponses |-> 0]
      [] IsBusFailure(outcome) \/ outcome = "Collision" -> entry
      [] OTHER ->
            LET n == IF entry.noResponses < 2 THEN entry.noResponses + 1
                     ELSE entry.noResponses
            IN  [state |-> IF n >= 2 THEN "Unsupported" ELSE entry.state,
                 noResponses |-> n]

\* A call for an address without a record returns at once and is left out.
BeginDetect(a) ==
    /\ op = Idle
    /\ records[a] # NoRecord
    /\ op' = [kind |-> "detect", address |-> a, probe |-> 1]
    /\ UNCHANGED <<records, capabilities, duplicateReported, batch, view, busVars,
                   historyVars>>

\* The feature probe is about, of the record being examined.
Entry == capabilities[op.address][op.probe]

Probing == op.kind = "detect" /\ op.probe <= Len(CoreFeatures)

\* A feature already found unsupported is not asked for.
SkipProbe ==
    /\ Probing
    /\ Entry.state = "Unsupported"
    /\ op' = [op EXCEPT !.probe = @ + 1]
    /\ UNCHANGED <<records, capabilities, duplicateReported, batch, view, busVars,
                   historyVars>>

Probe(outcome) ==
    /\ Probing
    /\ Entry.state # "Unsupported"
    /\ Queried(op.address, CoreFeatures[op.probe] \in GearFeatures, outcome)
    /\ capabilities' = [capabilities EXCEPT
                            ![op.address][op.probe] = AfterProbe(@, outcome)]
    /\ silences' = [silences EXCEPT
                        ![op.address][op.probe] =
                            CASE IsValidResponse(outcome) -> 0
                              [] outcome = "NoResponse"   -> @ + 1
                              [] OTHER                    -> @]
    /\ op' = [op EXCEPT !.probe = @ + 1]
    /\ UNCHANGED <<records, duplicateReported, batch, view, episode, absences>>

EndDetect ==
    /\ op.kind = "detect"
    /\ op.probe = Len(CoreFeatures) + 1
    /\ op' = Idle
    /\ UNCHANGED <<records, capabilities, duplicateReported, batch, view, busVars,
                   historyVars>>

-----------------------------------------------------------------------------

\* The calls run to their end.
Proceed ==
    \/ \E outcome \in Outcomes : ScanAddress(outcome)
    \/ EndScan
    \/ SkipProbe
    \/ \E outcome \in Outcomes : Probe(outcome)
    \/ EndDetect

Bus ==
    \/ \E a \in Addresses, n \in 0..2 : ChangeGear(a, n)
    \/ SwitchPower

Next ==
    \/ BeginScan
    \/ \E a \in Addresses : BeginDetect(a)
    \/ Proceed
    \/ Bus

\* A call, once begun, runs to its end, and the owner's loop comes back to the
\* scan for ever, whatever probes it does in between.
Spec == Init /\ [][Next]_vars /\ WF_vars(Proceed) /\ SF_vars(BeginScan)

-----------------------------------------------------------------------------
(* Properties.                                                             *)

Changes == [type : ChangeType, address : Addresses]

\* Every variable holds a value of its type, and a batch no more changes than
\* it has room for.
TypeOK ==
    /\ records \in [Addresses -> [lifecycle : DeviceLifecycle,
                                   present : BOOLEAN, missed : 0..3]]
    /\ capabilities \in [Addresses -> [DOMAIN CoreFeatures ->
                            [state : CapabilityState, noResponses : 0..2]]]
    /\ duplicateReported \in [Addresses -> BOOLEAN]
    /\ op \in [kind : {"idle", "scan", "detect"}, address : 0..AddressCount,
                probe : 0..(Len(CoreFeatures) + 1)]
    /\ batch \in Seq(Changes)
    /\ Len(batch) <= BatchCapacity
    /\ view \in [Addresses -> {"unseen", "present", "missing"}]
    /\ gear \in [Addresses -> 0..2]
    /\ power \in BOOLEAN
    /\ disruptions \in 0..MaxDisruptions
    /\ steady \subseteq Addresses
    /\ episode \in [Addresses -> [collided : BOOLEAN, suspicions : Nat]]
    /\ absences \in [Addresses -> [missed : 0..3, inARow : 0..3]]
    /\ silences \in [Addresses -> [DOMAIN CoreFeatures -> Nat]]

\* A light that was on the bus, alone at its address and never disturbed, is
\* present to the registry and to every reader of the batches from the day it
\* was discovered, and keeps the features it answers for, whatever happens to
\* bus power and to the other lights.
SteadyLightIsSafe ==
    \A a \in steady :
        /\ records[a] \in {NoRecord, Seen}
        /\ view[a] # "missing"
        /\ \A i \in DOMAIN CoreFeatures :
             CoreFeatures[i] \in GearFeatures =>
                capabilities[a][i].state # "Unsupported"

\* A known light is declared missing exactly when it has missed three scans
\* since its last valid response, however misses, lost power and collisions
\* alternate: a count that was not cleared, or that power failures raised, never
\* declares it early, and a collision can hide that it is missing but not bring
\* it back.  The misses need not be in a row: scanPresence keeps the count across
\* a collision.  In an episode without one they are.
MissingIsEarned ==
    \A a \in Addresses :
        records[a] # NoRecord =>
            /\ records[a].present <=> absences[a].missed < 3
            /\ records[a].lifecycle = "Missing" => absences[a].missed = 3
            /\ records[a].lifecycle = "Present" => absences[a].missed < 3
            /\ ~ episode[a].collided =>
                 (records[a].lifecycle = "Missing" <=> absences[a].inARow = 3)

\* A reader of the batches learns of every light that is found and of every
\* light that is lost: between calls it knows of exactly the lights that have
\* a record, and takes every light for missing that the registry does not call
\* present.
NothingUnreported ==
    op.kind # "scan" =>
        \A a \in Addresses :
            /\ view[a] = "unseen" <=> records[a] = NoRecord
            /\ records[a] # NoRecord /\ ~ records[a].present =>
                 view[a] = "missing"

\* An address at which two lights answer is reported once, and again only when
\* a valid response came in between.
DuplicateReportedOnce ==
    \A a \in Addresses :
        episode[a].suspicions = IF episode[a].collided THEN 1 ELSE 0

\* The registry tells what is on the bus.
Matches(a) ==
    CASE gear[a] = 0 -> records[a].lifecycle \in {"None", "Missing"}
      [] gear[a] = 1 -> records[a].lifecycle = "Present"
      [] gear[a] = 2 -> records[a].lifecycle \in {"None", "DuplicateAddress"}

\* Once the bus has power for good and is left alone, the registry comes to
\* match it: lights that left are missing, lights that returned are present,
\* whatever happened before.
RegistryConverges ==
    <>[]power => <>[](\A a \in Addresses : Matches(a))

\* A light that is present to the registry is present to the readers of the
\* batches: a recovery emits a change.
RecoveryReported ==
    op.kind # "scan" =>
        \A a \in Addresses :
            records[a].lifecycle = "Present" => view[a] = "present"

\* A light is declared missing only after three scans in a row that it missed:
\* the documented rule of scanPresence, which its count across collisions breaks.
MissingAfterThreeInARow ==
    \A a \in Addresses :
        records[a].lifecycle = "Missing" => absences[a].inARow = 3

\* A feature is called unsupported only after two probes nobody answered.
UnsupportedMeansSilent ==
    \A a \in Addresses, i \in DOMAIN CoreFeatures :
        capabilities[a][i].state = "Unsupported" => silences[a][i] >= 2
===============================================================================
