---------------------------- MODULE MCFairParts ----------------------------
(* Values for FairParts: the routes of MCRoutingTable; two radios, each of *)
(* which may be set to two IDs, one of them the same; a datagram with one  *)
(* message, bundles for two times, one that breaks off behind its first    *)
(* element.                                                                *)
EXTENDS FairParts, MCRoutingTable

CONSTANTS radio1, radio2

MCClaims == {<<radio1, 1>>, <<radio1, 2>>, <<radio2, 2>>, <<radio2, 3>>}

MCBundles ==
    { [ts |-> 0, elements |-> 1, invalid |-> 0], [ts |-> 3, elements |-> 2, invalid |-> 0],
      [ts |-> 4, elements |-> 1, invalid |-> 0], [ts |-> 4, elements |-> 2, invalid |-> 2] }
=============================================================================
