----------------------------- MODULE DelayLine -----------------------------
(***************************************************************************)
(* The Delay module (Delay.cpp): a line of samples that is read and then   *)
(* overwritten at one cursor, and whose length and bypass are set by /Data *)
(* messages between the packets.  A cell holds the number of the input     *)
(* sample last put into it; what fades in with earlier echoes is left out. *)
(***************************************************************************)
EXTENDS Naturals

CONSTANTS MAXBS,         \* cells of buf (44100)
          EchoLengths,   \* what setDt can make of ps: 44.1*t for the data 0..127
          FirstLength,   \* ps of a new Delay (13230)
          EchoPackets,   \* samples of a packet
          MaxSamples     \* bound: samples that arrive

ASSUME DelayAssumption ==
    /\ MAXBS \in Nat \ {0} /\ MaxSamples \in Nat
    /\ EchoLengths \subseteq 0 .. MAXBS - 1
    /\ FirstLength \in EchoLengths \ {0}
    /\ EchoPackets \subseteq Nat \ {0}

VARIABLES cells, dp, ps, isBypassing,
          todo,          \* samples of the packet stream() is working on
          taken,         \* samples taken into the line so far
          echo,          \* the sample that was added to the last output
          since, cleared, zeroed  \* history: samples since the last setting,
                                  \* taken at the last bypass, ps was 0 once

delayHistory == <<since, cleared, zeroed>>
delayVars == <<cells, dp, ps, isBypassing, todo, taken, echo, delayHistory>>

Empty == 0
Clear == [n \in 0 .. MAXBS - 1 |-> Empty]

DelayInit ==
    /\ cells = Clear
    /\ dp = 0 /\ ps = FirstLength /\ isBypassing = FALSE
    /\ todo = 0 /\ taken = 0 /\ echo = Empty
    /\ since = 0 /\ cleared = 0 /\ zeroed = FALSE

\* A bypassed packet is copied and changes nothing here.
DelayPacket ==
    /\ todo = 0 /\ ~isBypassing /\ taken < MaxSamples
    /\ todo' \in EchoPackets
    /\ UNCHANGED <<cells, dp, ps, isBypassing, taken, echo, delayHistory>>

\* Slip: the cursor goes on at the length, as if that were cell 0.
NextCursorPast == IF dp <= ps THEN dp + 1 ELSE 1
\* dp is unsigned: for ps = 0 the other side, -1, is the greatest number.
NextCursor == IF ps = 0 \/ dp <= ps - 1 THEN dp + 1 ELSE 0

\* Past the end of buf the program reads and writes what lies there.
DelaySample ==
    /\ todo > 0
    /\ todo' = todo - 1
    /\ echo' = IF dp < MAXBS THEN cells[dp] ELSE Empty
    /\ taken' = taken + 1
    /\ cells' = IF dp < MAXBS THEN [cells EXCEPT ![dp] = taken + 1] ELSE cells
    /\ dp' = NextCursor
    /\ since' = since + 1
    /\ UNCHANGED <<ps, isBypassing, cleared, zeroed>>

\* data1; the value -1 means: no change
setDt(n) ==
    /\ todo = 0
    /\ ps' = n
    /\ since' = 0 /\ zeroed' = (zeroed \/ n = 0)
    /\ UNCHANGED <<cells, dp, isBypassing, todo, taken, echo, cleared>>

\* Slip: what the line holds is kept.
BypassKeeping(b) ==
    /\ todo = 0
    /\ isBypassing' = b
    /\ since' = 0 /\ cleared' = taken
    /\ UNCHANGED <<cells, dp, ps, todo, taken, echo, zeroed>>
\* data3: either way the line is cleared
Bypass(b) ==
    /\ todo = 0
    /\ isBypassing' = b
    /\ cells' = Clear
    /\ since' = 0 /\ cleared' = taken
    /\ UNCHANGED <<dp, ps, todo, taken, echo, zeroed>>

DelayNext ==
    \/ DelayPacket \/ DelaySample
    \/ \E n \in EchoLengths : setDt(n)
    \/ \E b \in BOOLEAN : Bypass(b)

DelaySpec == DelayInit /\ [][DelayNext]_delayVars

-----------------------------------------------------------------------------
(* The cursor stays in buf however the length is changed while it stands   *)
(* behind the new end; once the length was 0 it runs on for ever.          *)
CursorInBuffer == ~zeroed => dp \in 0 .. MAXBS - 1

(* A line whose settings stay comes to repeat what went in exactly ps + 1  *)
(* samples before, and whatever stays or changes, it repeats nothing from  *)
(* before it was last bypassed.                                            *)
EchoesInTime ==
    ~zeroed =>
        /\ since > ps + 2 => echo = taken - (ps + 1)
        /\ since > 0 => (echo = Empty \/ echo > cleared)
=============================================================================
