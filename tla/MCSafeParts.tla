---------------------------- MODULE MCSafeParts ----------------------------
(* Values for SafeParts: those of its parts, and MIDI messages of two      *)
(* words, with and without zeros.                                          *)
EXTENDS SafeParts, MCOscMethods, MCOscPattern, MCSoundFile

MCEvents == {<<0, 0>>, <<0, 5>>, <<5, 0>>, <<6, 5>>}
=============================================================================
