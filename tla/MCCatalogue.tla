---------------------------- MODULE MCCatalogue ----------------------------
(* Values for Catalogue: a controller with two kinds and a manager.         *)
EXTENDS Catalogue

CONSTANTS host1, host2

MCKinds == [h \in Hosts |->
    IF h = host1 THEN <<[osc |-> "DAC", mColor |-> 1], [osc |-> "ADC", mColor |-> 2]>>
                 ELSE <<[osc |-> "MyModule", mColor |-> 1]>>]
\* All were there before the list, or the controller starts beside it.
MCStarting == {{}, {host1}}
=============================================================================
