---------------------------- MODULE NvsMetadataStore ----------------------------
(***************************************************************************)
(* The metadata store of components/local_storage over the NVS library,    *)
(* one library call at a time.  The library is modelled from how the store *)
(* uses it: a value that was set and not committed may or may not survive  *)
(* a restart, any call may fail, and after a restart the partition may be  *)
(* in need of being erased before it can be used.                          *)
(***************************************************************************)
EXTENDS Integers

CONSTANTS
    Keys, Values,
    Absent          \* the key was never written, or the flash was erased

ASSUME NvsAssumption == Absent \notin Values

VARIABLES
    flash,          \* what a get returns, by key
    committed,      \* what surely survives a restart
    partition,      \* what nvs_flash_init would say of the partition
    mounted,        \* nvs_flash_init succeeded since the restart
    storeCall,      \* the call of the store that runs: its step, key and value
    loaded          \* what the last call returned, if it was loadUint32

nvsVars == <<flash, committed, partition, mounted, storeCall, loaded>>

\* The results of nvs_flash_init that init answers by erasing, and another failure.
Unusable == {"NoFreePages", "NewVersionFound"}
PartitionStates == {"Ok", "Fail"} \cup Unusable

NoStoreCall == [step |-> "none", key |-> Absent, value |-> Absent]
NothingLoaded == [result |-> "none", key |-> Absent, value |-> Absent]

NvsInit ==
    /\ flash = [k \in Keys |-> Absent]
    /\ committed = flash
    /\ partition \in PartitionStates
    /\ mounted = FALSE
    /\ storeCall = NoStoreCall
    /\ loaded = NothingLoaded

At(step) == storeCall.step = step
Goto(step) == storeCall' = [storeCall EXCEPT !.step = step]
Return == storeCall' = NoStoreCall

-----------------------------------------------------------------------------

\* Mutant of NeedsErase: any failure does.
NeedsEraseAlways(result) == result # "Ok"

\* The results of nvs_flash_init after which init erases.
NeedsErase(result) == result \in Unusable

\* init: nvs_flash_init, for the first time or after erasing.
Initialise ==
    /\ At("none") \/ At("mountAgain")
    /\ mounted' = (partition = "Ok")
    /\ IF At("none") /\ NeedsErase(partition)
       THEN storeCall' = [NoStoreCall EXCEPT !.step = "erase"] ELSE Return
    /\ loaded' = NothingLoaded
    /\ UNCHANGED <<flash, committed, partition>>

\* nvs_flash_erase succeeds; the nvs_flash_init that follows may fail all the same.
Erase ==
    /\ At("erase")
    /\ flash' = [k \in Keys |-> Absent] /\ committed' = flash'
    /\ partition' \in PartitionStates
    /\ Goto("mountAgain")
    /\ UNCHANGED <<mounted, loaded>>

EraseFails == At("erase") /\ Return /\ UNCHANGED <<flash, committed, partition, mounted, loaded>>

\* saveUint32: nvs_open.
Open(k, v) ==
    /\ At("none")
    /\ mounted
    /\ storeCall' = [step |-> "set", key |-> k, value |-> v]
    /\ loaded' = NothingLoaded
    /\ UNCHANGED <<flash, committed, partition, mounted>>

\* Mutant of AfterSet: the store returns without a commit.
AfterSetReturned == "close"

AfterSet == "commit"

\* nvs_set_u32.
Set ==
    /\ At("set")
    /\ flash' = [flash EXCEPT ![storeCall.key] = storeCall.value]
    /\ Goto(AfterSet)
    /\ UNCHANGED <<committed, partition, mounted, loaded>>

\* nvs_commit.
Commit ==
    /\ At("commit")
    /\ committed' = flash
    /\ Goto("close")
    /\ UNCHANGED <<flash, partition, mounted, loaded>>

\* The one or the other fails, which save returns; the handle is closed all the same.
SaveFails ==
    /\ At("set") \/ At("commit")
    /\ Return
    /\ UNCHANGED <<flash, committed, partition, mounted, loaded>>

\* nvs_close, and save returns that all went well.
SaveReturns ==
    /\ At("close")
    /\ Return
    /\ UNCHANGED <<flash, committed, partition, mounted, loaded>>

\* loadUint32: without a value the library answers that there is none.
Load(k) ==
    /\ At("none")
    /\ mounted
    /\ loaded' = [result |-> IF flash[k] = Absent THEN "NotFound" ELSE "Ok",
                  key |-> k, value |-> flash[k]]
    /\ UNCHANGED <<flash, committed, partition, mounted, storeCall>>

\* The power fails: what was set may be there or not, and the partition may come
\* back in any state.
NvsRestarted ==
    /\ flash' \in [Keys -> Values \cup {Absent}]
    /\ \A k \in Keys : flash'[k] \in {flash[k], committed[k]}
    /\ committed' = flash'
    /\ partition' \in PartitionStates
    /\ mounted' = FALSE
    /\ Return
    /\ loaded' = NothingLoaded

StoreRuns ==
    \/ Initialise \/ Erase \/ EraseFails
    \/ \E k \in Keys, v \in Values : Open(k, v)
    \/ Set \/ Commit \/ SaveFails \/ SaveReturns
    \/ \E k \in Keys : Load(k)
===============================================================================
