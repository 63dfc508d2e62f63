------------------------------ MODULE Playback ------------------------------
(***************************************************************************)
(* The AudioSource module (AudioSource.cpp): a sound file in memory is     *)
(* read at a rate, between two samples at a time, as packets come; /Data    *)
(* messages start, stop and speed it up.  location and rate count in parts *)
(* of a sample.  All handlers run in the server thread.                    *)
(*                                                                         *)
(* The length goes through a float when the sound is started over: above   *)
(* EXACT (2^24) floats are further apart than whole numbers.  location is  *)
(* a double and adds floats exactly while a sound has less than 2^29       *)
(* samples.                                                                *)
(***************************************************************************)
EXTENDS Integers

CONSTANTS PARTS,          \* parts of a sample
          SoundLengths,   \* samples a sound file may have
          Rates,          \* rates a data message can set, in parts
          SoundPackets,
          EXACT,          \* up to here every whole number is a float
          Spacings        \* powers of two: distances of floats above EXACT

ASSUME PlaybackAssumption ==
    /\ PARTS \in Nat \ {0}
    /\ SoundLengths \subseteq Nat /\ SoundPackets \subseteq Nat
    /\ Rates \subseteq Nat \ {0} /\ PARTS \in Rates
    /\ EXACT \in Nat \ {0} /\ Spacings \subseteq Nat \ {0}
    /\ \A n \in SoundLengths : n > 2 /\ \E d \in Spacings : n <= EXACT * d

\* How far apart the floats around n are
Spacing(n) == CHOOSE d \in Spacings :
    /\ n <= EXACT * d
    /\ \A e \in Spacings : n <= EXACT * e => d <= e

\* (float)n: the nearest multiple of the spacing, of two the even one
AsFloat(n) ==
    LET d == Spacing(n)
        below == n \div d
        rest == n % d
    IN  IF 2 * rest < d \/ (2 * rest = d /\ below % 2 = 0) THEN below * d ELSE (below + 1) * d

\* A rate takes less than the whole sound at a step.
ASSUME RatesAssumption ==
    \A r \in Rates, n \in SoundLengths : r <= (n - 1) * PARTS /\ r <= (AsFloat(n) - 1) * PARTS

VARIABLES sound,          \* packetCount, 0 until a file has been read
          location, rate, isPlaying, isLooping,
          left,           \* samples of the packet still to be rendered
          readAt          \* history: the first of the two samples last read

playbackVars == <<sound, location, rate, isPlaying, isLooping, left, readAt>>

initAudioInfo ==
    /\ rate = PARTS /\ location = 0
    /\ isPlaying = FALSE /\ isLooping = TRUE
PlaybackInit ==
    /\ initAudioInfo
    /\ sound = 0 /\ left = 0 /\ readAt = 0

\* The whole file is read at once.
prepareAudioSource(n) ==
    /\ left = 0 /\ sound = 0
    /\ sound' = n /\ isPlaying' = TRUE
    /\ UNCHANGED <<location, rate, isLooping, left, readAt>>

\* stream() and render(): a packet comes in, as many samples go out
PlaybackPacket ==
    /\ left = 0 /\ isPlaying
    /\ left' \in SoundPackets
    /\ UNCHANGED <<sound, location, rate, isPlaying, isLooping, readAt>>

\* Slip: the sound ends behind its last sample.
AtEndLate(l) == l >= sound * PARTS
AtEnd(l) == l >= (sound - 1) * PARTS

\* location - (float)packetCount + 1
Wrapped(l) == l - AsFloat(sound) * PARTS + PARTS

\* (unsigned)location, then an int: a location before the sound has no value
\* as an unsigned, and a build gives the negative index or 0.
IndexOf(l) == IF l >= 0 THEN {l \div PARTS} ELSE {-((-l) \div PARTS), 0}

\* Slip: at its end the sound is rewound and goes on.
RenderEndless ==
    /\ left > 0
    /\ readAt' \in IndexOf(location)
    /\ LET l == location + rate
       IN  IF AtEnd(l) THEN location' = 0 ELSE location' = l
    /\ left' = left - 1
    /\ UNCHANGED <<sound, rate, isPlaying, isLooping>>
Render ==
    /\ left > 0
    /\ readAt' \in IndexOf(location)
    /\ LET l == location + rate
       IN  \/ ~AtEnd(l) /\ location' = l /\ left' = left - 1 /\ UNCHANGED isPlaying
           \/ /\ AtEnd(l) /\ isLooping
              /\ location' = Wrapped(l) /\ left' = left - 1 /\ UNCHANGED isPlaying
           \/ AtEnd(l) /\ ~isLooping /\ location' = 0 /\ left' = 0 /\ isPlaying' = FALSE
    /\ UNCHANGED <<sound, rate, isLooping>>

StopSound == isPlaying' = FALSE /\ location' = 0

\* data1: v < 1 stops
PlaybackData1 ==
    /\ left = 0
    /\ (StopSound /\ UNCHANGED <<rate>>) \/ (isPlaying' = TRUE /\ UNCHANGED <<location, rate>>)
    /\ UNCHANGED <<sound, isLooping, left, readAt>>
\* data2: the value 0 or less stops and resets the rate
PlaybackData2 ==
    /\ left = 0
    /\ \/ StopSound /\ rate' = PARTS
       \/ \E r \in Rates : rate' = r /\ isPlaying' = TRUE /\ UNCHANGED location
    /\ UNCHANGED <<sound, isLooping, left, readAt>>
PlaybackData3 ==
    /\ left = 0
    /\ isLooping' \in BOOLEAN
    /\ UNCHANGED <<sound, location, rate, isPlaying, left, readAt>>

\* A data message may come before a file was read, or when none could be:
\* nothing asks `prepared` (ModuleController never prepares its AudioSources).
\* What is followed here are sources that were.
PlaybackData == sound # 0 /\ (PlaybackData1 \/ PlaybackData2 \/ PlaybackData3)

PlaybackNext ==
    \/ PlaybackPacket \/ Render \/ PlaybackData
    \/ \E n \in SoundLengths : prepareAudioSource(n)
PlaybackSpec == PlaybackInit /\ [][PlaybackNext]_playbackVars

-----------------------------------------------------------------------------
(* Neither of the two samples a step reads lies outside the sound, at any  *)
(* rate, wherever the rate was changed and the sound started over, if its  *)
(* length as a float is not above its length: of every sound up to EXACT.  *)
ReadsInsideSound ==
    sound # 0 /\ AsFloat(sound) <= sound => readAt \in 0 .. sound - 2

(* Of every sound.  It does not hold: a length that the float rounds up    *)
(* starts the sound over before its first sample.                          *)
EverySoundReadInside == sound # 0 => readAt \in 0 .. sound - 2

(* A sound that is not repeated comes to its end while packets come.       *)
SoundEnds == (isPlaying /\ ~isLooping) ~> (~isPlaying \/ isLooping)
=============================================================================
