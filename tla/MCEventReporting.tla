--------------------------- MODULE MCEventReporting ---------------------------
(***************************************************************************)
(* Small instances of EventReporting.                                      *)
(***************************************************************************)
EXTENDS EventReporting, TLC

\* Alarms are interchangeable.
AlarmSymmetry == Permutations(Alarms)
===============================================================================
