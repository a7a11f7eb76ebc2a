-------------------------- MODULE MCEmergencyPaging --------------------------
(* EmergencyPaging for TLC.  Workers are not symmetric here: TLC checks    *)
(* liveness only without symmetry.                                        *)
EXTENDS EmergencyPaging
=============================================================================
