---------------------------- MODULE MCRegistry ----------------------------
(* Values for Registry: the first host has a dacList and a sineList, the    *)
(* second a sineList.                                                      *)
EXTENDS Registry

CONSTANTS host1, host2, dac1, sine1, sine2

MCHostOf == [l \in Lists |-> IF l = sine2 THEN host2 ELSE host1]
=============================================================================
