-------------------------- MODULE MCConnections --------------------------
(* Values for Connections: tile 1 with one module, tile 2 with a module    *)
(* that may move to another host under the same path, tile 3 with one.     *)
EXTENDS Connections

CONSTANTS host1, host2, sine1, dac2, dac3

MCModulesFor ==
    [t \in Tiles |->
        CASE t = 1 -> {[ip |-> host1, osc |-> sine1]}
          [] t = 2 -> {[ip |-> host1, osc |-> dac2], [ip |-> host2, osc |-> dac2]}
          [] t = 3 -> {[ip |-> host2, osc |-> dac3]}]
=============================================================================
