--------------------------- MODULE MCTileSystem ---------------------------
(* Values for TileSystem: two hosts with a list each, a radio for each tile. *)
EXTENDS TileSystem

CONSTANTS host1, host2, dac1, sine2, d1

MCHostOf == [l \in Lists |-> IF l = sine2 THEN host2 ELSE host1]
MCClaims == {<<d1, 1>>}
=============================================================================
