------------------------------ MODULE Envelope ------------------------------
(***************************************************************************)
(* The Envelope module (Envelope.cpp): the volume of a note rises, falls   *)
(* to a level, stays there, and fades when the note ends.  Every second    *)
(* packet moves the index into the volume table; /Data messages in between *)
(* start and end the note and change the four numbers.  The division       *)
(* drops fractions, as the assignment of a float to an int does.           *)
(***************************************************************************)
EXTENDS Integers

CONSTANTS TOP,        \* the last index of vTable (127)
          Levels,     \* what a controller sends, within 0 .. TOP
          FirstDecay, FirstLevel, FirstRelease,   \* 5, 80, 30
          MaxCount    \* bound: count stands still beyond attack and decay

ASSUME EnvelopeAssumption ==
    /\ TOP \in Nat /\ Levels \subseteq 0 .. TOP
    /\ {0, FirstDecay, FirstLevel, FirstRelease} \subseteq Levels
    /\ MaxCount \in Nat /\ \A a, d \in Levels : a + d < MaxCount

VARIABLES A, D, S, R, vVal, adsr, count, noteOn   \* noteOn: isPlaying

settings == <<A, D, S, R>>
envelopeVars == <<settings, vVal, adsr, count, noteOn>>

EnvelopeInit ==
    /\ A = 0 /\ D = FirstDecay /\ S = FirstLevel /\ R = FirstRelease
    /\ vVal = 0 /\ adsr = 0 /\ count = 0 /\ noteOn = FALSE

Attack == ((count + 1) * TOP) \div (A + 1)
Decay == (TOP * (D + 1) - (count - A) * (TOP - S)) \div (D + 1)

\* Slip: the attack takes one step more than its divisor says.
RisenPast == IF count <= A + 1 THEN Attack ELSE IF count <= A + D THEN Decay ELSE S
Risen == IF count <= A THEN Attack ELSE IF count <= A + D THEN Decay ELSE S

\* Slip: the fraction that is taken off is dropped before, not after.
FallenWhole == IF vVal > S \div (R + 1) THEN vVal - S \div (R + 1) ELSE 0
\* vVal -= S/fr, and not below 0
Fallen == IF vVal * (R + 1) <= S THEN 0 ELSE (vVal * (R + 1) - S) \div (R + 1)

\* stream(), one packet: adsr++ % 2, and updatevVal for every other one
EnvelopePacket ==
    /\ adsr' = 1 - adsr
    /\ IF adsr = 1 THEN UNCHANGED <<vVal, count>>
       ELSE IF noteOn
            THEN vVal' = Risen /\ count' = IF count < MaxCount THEN count + 1 ELSE count
            ELSE vVal' = Fallen /\ count' = 0
    /\ UNCHANGED <<settings, noteOn>>

\* data1: a value starts a note, -1 ends it; data2, data3, data4
NoteOn(v) == A' = v /\ noteOn' = TRUE /\ UNCHANGED <<D, S, R, vVal, adsr, count>>
NoteOff == noteOn' = FALSE /\ UNCHANGED <<settings, vVal, adsr, count>>
SetDecay(v) == D' = v /\ UNCHANGED <<A, S, R, vVal, adsr, count, noteOn>>
SetLevel(v) == S' = v /\ UNCHANGED <<A, D, R, vVal, adsr, count, noteOn>>
SetRelease(v) == R' = v /\ UNCHANGED <<A, D, S, vVal, adsr, count, noteOn>>

EnvelopeData ==
    \/ NoteOff
    \/ \E v \in Levels : NoteOn(v) \/ SetDecay(v) \/ SetLevel(v) \/ SetRelease(v)

EnvelopeNext == EnvelopePacket \/ EnvelopeData
EnvelopeSpec == EnvelopeInit /\ [][EnvelopeNext]_envelopeVars

-----------------------------------------------------------------------------
(* The index stays in the table, whatever is changed in the middle of an   *)
(* attack, a decay or a release.                                           *)
IndexInTable == vVal \in 0 .. TOP

(* A note that has ended fades to silence while packets come, if the level *)
(* is not 0: with S = 0 nothing is taken off, and the volume the note had  *)
(* stays.                                                                  *)
EndedNotesFade == (~noteOn /\ S > 0) ~> (vVal = 0 \/ noteOn \/ S = 0)
=============================================================================
