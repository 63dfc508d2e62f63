-------------------------------- MODULE DAC --------------------------------
(***************************************************************************)
(* The playout ring of DAC.cpp.  The liblo server thread writes packets    *)
(* into it (DAC::stream, DAC::stream2) and sets the latency (DAC::data2);  *)
(* PortAudio's thread reads it one frame after another                     *)
(* (DAC::outputCallback).  There is no lock: each side works from the      *)
(* distance wp - rp it saw when it began.                                  *)
(***************************************************************************)
EXTENDS Naturals, Sequences

CONSTANTS MAX_PACKET,         \* slots of the ring
          FRAMES_PER_BUFFER,  \* frames of one callback
          Sizes,              \* samples in a packet
          Latencies,          \* values of bs (32 * the third number of /Data)
          Sample, Silence,    \* sample values; the 0 of a cleared slot
          Ch                  \* 0: L, 1: R, 2: both

MaxOf(S) == CHOOSE m \in S : \A n \in S : n <= m
MaxSize == MaxOf(Sizes)
MaxLatency == MaxOf(Latencies)

ASSUME DACAssumption ==
    /\ FRAMES_PER_BUFFER \in Nat \ {0}
    /\ Sizes \subseteq Nat \ {0} /\ \E m \in Sizes : \A n \in Sizes : n <= m
    /\ Latencies \subseteq Nat /\ \E m \in Latencies : \A n \in Latencies : n <= m
    /\ Silence \notin Sample
    /\ Ch \in {0, 1, 2}

\* What a playing DAC lets the backlog grow to, and what packets that find
\* it stopped can add to that within one callback (see BacklogBounded).
PlayingLimit == MaxLatency + 4 * MaxSize + 1
Capacity == PlayingLimit + FRAMES_PER_BUFFER * MaxSize

ASSUME RingAssumption == MAX_PACKET \in Nat /\ MAX_PACKET > Capacity

VARIABLES buf, buf2, rp, wp,    \* the ring and its cursors
          isPlaying, bs,
          writer,               \* the server thread: what stream() is doing,
          size, toWrite, seen,  \*   the packet, what is left of it, its d
          frames, toPlay,       \* the callback: frames left, its d
          out                   \* the last frame put out

ring == <<buf, buf2, rp, wp>>
serverThread == <<writer, size, toWrite, seen>>
callback == <<frames, toPlay, out>>
vars == <<ring, isPlaying, bs, serverThread, callback>>

Slots == 0 .. MAX_PACKET - 1
Following(n) == IF n # MAX_PACKET - 1 THEN n + 1 ELSE 0
Distance == IF wp >= rp THEN wp - rp ELSE wp + MAX_PACKET - rp

Init ==
    /\ buf = [n \in Slots |-> Silence] /\ buf2 = [n \in Slots |-> Silence]
    /\ rp = 0 /\ wp = 0
    /\ isPlaying = TRUE                   \* preparePa() has started the stream
    /\ bs \in Latencies
    /\ writer = "idle" /\ size \in Sizes /\ toWrite = 0 /\ seen = 0
    /\ frames = 0 /\ toPlay = 0
    /\ out = [l |-> Silence, r |-> Silence]

-----------------------------------------------------------------------------
(* The server thread.                                                      *)

Packet ==
    /\ writer = "idle"
    /\ \E n \in Sizes : size' = n /\ toWrite' = n
    /\ seen' = Distance
    /\ writer' = "arrived"
    /\ UNCHANGED <<ring, isPlaying, bs, callback>>

\* if (dac->isPlaying), read after the packet has been forwarded
Branch ==
    /\ writer = "arrived"
    /\ writer' = IF isPlaying THEN "limited" ELSE "filling"
    /\ UNCHANGED <<ring, isPlaying, bs, size, toWrite, seen, callback>>

Put(v) ==
    /\ buf' = [buf EXCEPT ![wp] = IF writer = "limited" /\ Ch = 1 THEN Silence ELSE v]
    /\ buf2' = IF writer = "limited"
               THEN [buf2 EXCEPT ![wp] = IF Ch = 0 THEN Silence ELSE v] ELSE buf2
    /\ wp' = Following(wp)
    /\ toWrite' = toWrite - 1
    /\ UNCHANGED <<rp, isPlaying, bs, writer, size, callback>>

Room == seen <= bs + size * 4

\* Slip: the distance is not counted up with the samples written.
WriteLimitedUncounted ==
    /\ writer = "limited" /\ toWrite > 0 /\ Room
    /\ UNCHANGED seen
    /\ \E v \in Sample : Put(v)
WriteLimited ==
    /\ writer = "limited" /\ toWrite > 0 /\ Room
    /\ seen' = seen + 1
    /\ \E v \in Sample : Put(v)

\* The packet is written, or its rest is dropped.
LimitedEnd ==
    /\ writer = "limited" /\ (toWrite = 0 \/ ~Room)
    /\ writer' = "idle"
    /\ UNCHANGED <<ring, isPlaying, bs, size, toWrite, seen, callback>>

WriteFilling ==
    /\ writer = "filling" /\ toWrite > 0
    /\ UNCHANGED seen
    /\ \E v \in Sample : Put(v)

Enough == seen + size > bs

\* Slip: the DAC that ran dry is not started again.
FillingEndStopped ==
    /\ writer = "filling" /\ toWrite = 0
    /\ writer' = "idle"
    /\ UNCHANGED <<ring, isPlaying, bs, size, toWrite, seen, callback>>
FillingEnd ==
    /\ writer = "filling" /\ toWrite = 0
    /\ isPlaying' = (isPlaying \/ Enough)
    /\ writer' = "idle"
    /\ UNCHANGED <<ring, bs, size, toWrite, seen, callback>>

SetLatency ==
    /\ writer = "idle"
    /\ bs' \in Latencies
    /\ UNCHANGED <<ring, isPlaying, serverThread, callback>>

-----------------------------------------------------------------------------
(* PortAudio's thread.                                                     *)

CallbackBegin ==
    /\ frames = 0
    /\ frames' = FRAMES_PER_BUFFER
    /\ toPlay' = Distance
    /\ UNCHANGED <<ring, isPlaying, bs, serverThread, out>>

\* Slip: d-- >= 0, one frame more than there are samples.
PlayFramePastEnd ==
    /\ frames > 0 /\ isPlaying /\ toPlay >= 0
    /\ out' = [l |-> buf[rp], r |-> buf[rp]]
    /\ buf' = [buf EXCEPT ![rp] = Silence]
    /\ buf2' = [buf2 EXCEPT ![rp] = Silence]
    /\ rp' = Following(rp)
    /\ toPlay' = toPlay - 1
    /\ frames' = frames - 1
    /\ UNCHANGED <<wp, isPlaying, bs, serverThread>>
PlayFrame ==
    /\ frames > 0 /\ isPlaying /\ toPlay > 0
    /\ out' = [l |-> buf[rp], r |-> buf[rp]]
    /\ buf' = [buf EXCEPT ![rp] = Silence]
    /\ buf2' = [buf2 EXCEPT ![rp] = Silence]
    /\ rp' = Following(rp)
    /\ toPlay' = toPlay - 1
    /\ frames' = frames - 1
    /\ UNCHANGED <<wp, isPlaying, bs, serverThread>>

SilentFrame ==
    /\ out' = [l |-> Silence, r |-> Silence]
    /\ frames' = frames - 1
    /\ UNCHANGED <<ring, bs, serverThread, toPlay>>

\* d is used up: the DAC stops and waits for a new backlog.
Underrun ==
    /\ frames > 0 /\ isPlaying /\ toPlay = 0
    /\ isPlaying' = FALSE
    /\ SilentFrame

Stopped ==
    /\ frames > 0 /\ ~isPlaying
    /\ UNCHANGED isPlaying
    /\ SilentFrame

-----------------------------------------------------------------------------
ServerStep == Branch \/ WriteLimited \/ LimitedEnd \/ WriteFilling \/ FillingEnd
CallbackStep == CallbackBegin \/ PlayFrame \/ Underrun \/ Stopped

Next == Packet \/ SetLatency \/ ServerStep \/ CallbackStep

Spec == Init /\ [][Next]_vars

\* Packets keep coming, the server thread handles each one, and PortAudio
\* calls back for as long as the stream runs (outputCallback returns paContinue).
FairSpec == Spec /\ WF_vars(Packet \/ ServerStep) /\ WF_vars(CallbackStep)

-----------------------------------------------------------------------------
TypeOK ==
    /\ buf \in [Slots -> Sample \cup {Silence}]
    /\ buf2 \in [Slots -> Sample \cup {Silence}]
    /\ rp \in Slots /\ wp \in Slots
    /\ isPlaying \in BOOLEAN /\ bs \in Latencies
    /\ writer \in {"idle", "arrived", "limited", "filling"}
    /\ size \in Sizes /\ toWrite \in 0 .. size /\ seen \in Nat
    /\ frames \in 0 .. FRAMES_PER_BUFFER /\ toPlay \in 0 .. MAX_PACKET - 1
    /\ out \in [l : Sample \cup {Silence}, r : Sample \cup {Silence}]

(* The writer never laps the reader, although a stopped DAC takes every    *)
(* packet whole: stale distances on both sides add at most one packet for  *)
(* each frame of a callback.  The callback never plays past the writer.    *)
BacklogBounded == Distance <= Capacity /\ toPlay <= Distance

(* With samples going to the left buffer, the two threads together are a   *)
(* bounded queue: nothing accepted is lost, repeated or played out of      *)
(* order, whatever distances they worked from.                             *)
Ahead(m) == IF rp + m < MAX_PACKET THEN rp + m ELSE rp + m - MAX_PACKET
Contents == [m \in 1 .. Distance |-> buf[Ahead(m - 1)]]
Promise == INSTANCE SampleQueue WITH queue <- Contents, left <- out.l, Cap <- Capacity
ImplementsQueue == Promise!Spec

(* A DAC that ran dry starts again and goes on playing while packets come. *)
KeepsPlaying == []<><<PlayFrame>>_vars

(* "L:0 R:1 Stereo:2" (DAC.h): what is played is heard on the channels ch  *)
(* names, and on no other.                                                 *)
HeardWhereChSays ==
    [][rp' # rp => /\ out'.l # Silence <=> Ch \in {0, 2}
                   /\ out'.r # Silence <=> Ch \in {1, 2}]_vars
=============================================================================
