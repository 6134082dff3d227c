-------------------------- MODULE MCDaliDeviceManager --------------------------
(***************************************************************************)
(* Small instances of DaliDeviceManager.                                   *)
(***************************************************************************)
EXTENDS DaliDeviceManager

\* One feature the gear answers for and one it does not know.
MCCoreFeatures == <<"BasicStatus", "Version">>
MCGearFeatures == {"BasicStatus"}
MCDisturbances == {"Ok", "NoResponse", "Collision", "HardwareFailure"}
===============================================================================
