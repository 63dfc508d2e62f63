---------------------------- MODULE MCOscMethods ----------------------------
(* Values for OscMethods: a controller and another module of the main      *)
(* thread, and two DACs for one address, whose destructors forget a method *)
EXTENDS OscMethods

CONSTANTS mc, xbc, dac1, dac2, pathA, pathB, pathC

MCPath == [o \in Objects |-> CASE o = mc -> pathA [] o = xbc -> pathB [] OTHER -> pathC]
MCAdds == [o \in Objects |-> CASE o = mc -> <<"is">> [] o = xbc -> <<"b", "ii">>
                               [] OTHER -> <<"b", "bb">>]
MCDeletes == [o \in Objects |-> CASE o = mc -> {"is"} [] o = xbc -> {"b", "ii"}
                                  [] OTHER -> {"b"}]
=============================================================================
