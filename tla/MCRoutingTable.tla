--------------------------- MODULE MCRoutingTable ---------------------------
(* Two hosts; stream paths s1 and s2, where s1 is a part of s2 (a path that *)
(* ends in another one), and a data path that the audio send loop skips.    *)
EXTENDS RoutingTable

CONSTANTS ip1, ip2, s1, s2, d1

MCIp == {ip1, ip2}
MCOsc == {s1, s2, d1}
MCSubPath == {<<s1, s1>>, <<s2, s2>>, <<d1, d1>>, <<s2, s1>>}
MCSends == {s1, s2}
MCTarget == [ip |-> ip1, osc |-> s1]
=============================================================================
