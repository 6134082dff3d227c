------------------------------ MODULE LocalStorage ------------------------------
(***************************************************************************)
(* The two stores of components/local_storage in a controller that may     *)
(* restart at any moment: the events are in memory and gone, the metadata  *)
(* is in flash.  Histories remember what the callers of save were told.    *)
(***************************************************************************)
EXTENDS EventHistory, NvsMetadataStore

VARIABLES
    confirmed,      \* the value of the last save of each key that returned success
    tried           \* the values saves of it were asked to store since

callerVars == <<confirmed, tried>>
storageVars == <<historyVars, nvsVars, callerVars>>

Nothing == [k \in Keys |-> Absent]

StorageInit ==
    /\ HistoryInit
    /\ NvsInit
    /\ confirmed = Nothing
    /\ tried = [k \in Keys |-> {}]

\* What the callers of the store have learnt after a step of it.  Erasing a
\* partition that could not be used ends every promise.
Witnessed ==
    CASE At("none") /\ At("set")' ->
            /\ tried' = [tried EXCEPT ![storeCall'.key] = @ \cup {storeCall'.value}]
            /\ UNCHANGED confirmed
      [] At("close") ->
            /\ confirmed' = [confirmed EXCEPT ![storeCall.key] = storeCall.value]
            /\ tried' = [tried EXCEPT ![storeCall.key] = {}]
      [] At("erase") /\ At("mountAgain")' /\ partition \in Unusable ->
            confirmed' = Nothing /\ tried' = [k \in Keys |-> {}]
      [] OTHER -> UNCHANGED callerVars

Restart ==
    /\ HistoryLost
    /\ NvsRestarted
    /\ UNCHANGED callerVars

StorageNext ==
    \/ (\E e \in Events : AppendRecord(e)) /\ UNCHANGED <<nvsVars, callerVars>>
    \/ CorruptNewest /\ UNCHANGED <<nvsVars, callerVars>>
    \/ StoreRuns /\ Witnessed /\ UNCHANGED historyVars
    \/ Restart

StorageSpec == StorageInit /\ [][StorageNext]_storageVars

-----------------------------------------------------------------------------

\* Through any wrap of the ring, any damage and any restart, recover hands out the
\* undamaged ones of the latest events in the order they were appended, and
\* nothing else: the history implements the log of the latest events.
Log == INSTANCE EventLog WITH
    Limit <- Capacity, Intact <- Fits, log <- Kept, readable <- Recovered
ImplementsEventLog == Log!Spec

\* A value that was saved with success is what load returns, or a value a later
\* save was asked for and did not confirm, whatever fails or restarts in between;
\* and it is there, until a partition that cannot be used is erased.
LoadsWhatWasSaved ==
    /\ loaded.result = "Ok" =>
         loaded.value \in {confirmed[loaded.key]} \cup tried[loaded.key]
    /\ loaded.result = "NotFound" => confirmed[loaded.key] = Absent
===============================================================================
