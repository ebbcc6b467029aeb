---------------------------- MODULE MCTargetStore ----------------------------
(* Small instances of TargetStore for TLC.                                 *)
EXTENDS TargetStore

AllForms == {"plain", "transports", "no-id"}
TwoForms == {"plain", "transports"}
==============================================================================
