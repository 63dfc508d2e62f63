----------------------------- MODULE SafeParts -----------------------------
(***************************************************************************)
(* The parts of the system that are called, and of which nothing is asked  *)
(* but that no sequence of calls, in no order of their threads' steps,     *)
(* leads to a wrong state.  They share no state: a behaviour is one of one *)
(* part.                                                                   *)
(***************************************************************************)
EXTENDS DelayLine, AudioDevices, SoundFile, OscMethods, OscWire, OscPattern,
        OscSockets, MidiQueue, MidiInput, MidiOutput

VARIABLE part

partsVars == <<delayVars, deviceVars, soundFileVars, oscMethodsVars, wireVars,
               patternVars, socketVars, queueVars, inputVars, outputVars, part>>

\* The parts that are not followed begin in one state.
PartsInit ==
    /\ DelayInit /\ DevicesInit /\ SoundFileInit /\ OscMethodsInit /\ WireInit
    /\ PatternInit /\ SocketsInit /\ QueueInit /\ InputInit /\ OutputInit
    /\ part \in {"Delay", "Devices", "SoundFile", "OscMethods", "OscWire",
                 "OscPattern", "OscSockets", "MidiQueue", "MidiInput", "MidiOutput"}
    /\ part # "OscSockets" => portsTaken = {}
    /\ part # "OscWire" => message = New(CHOOSE p \in PathLengths : TRUE)
    /\ part # "MidiInput" => stream.filters = {}
    /\ part # "SoundFile" => disk.shape = CHOOSE shape \in Shapes : TRUE

-----------------------------------------------------------------------------
DelayAlone == part = "Delay" /\ UNCHANGED
    <<deviceVars, soundFileVars, oscMethodsVars, wireVars,
      patternVars, socketVars, queueVars, inputVars, outputVars, part>>
DevicesAlone == part = "Devices" /\ UNCHANGED
    <<delayVars, soundFileVars, oscMethodsVars, wireVars,
      patternVars, socketVars, queueVars, inputVars, outputVars, part>>
SoundFileAlone == part = "SoundFile" /\ UNCHANGED
    <<delayVars, deviceVars, oscMethodsVars, wireVars,
      patternVars, socketVars, queueVars, inputVars, outputVars, part>>
OscMethodsAlone == part = "OscMethods" /\ UNCHANGED
    <<delayVars, deviceVars, soundFileVars, wireVars,
      patternVars, socketVars, queueVars, inputVars, outputVars, part>>
OscWireAlone == part = "OscWire" /\ UNCHANGED
    <<delayVars, deviceVars, soundFileVars, oscMethodsVars,
      patternVars, socketVars, queueVars, inputVars, outputVars, part>>
OscPatternAlone == part = "OscPattern" /\ UNCHANGED
    <<delayVars, deviceVars, soundFileVars, oscMethodsVars,
      wireVars, socketVars, queueVars, inputVars, outputVars, part>>
OscSocketsAlone == part = "OscSockets" /\ UNCHANGED
    <<delayVars, deviceVars, soundFileVars, oscMethodsVars,
      wireVars, patternVars, queueVars, inputVars, outputVars, part>>
MidiQueueAlone == part = "MidiQueue" /\ UNCHANGED
    <<delayVars, deviceVars, soundFileVars, oscMethodsVars,
      wireVars, patternVars, socketVars, inputVars, outputVars, part>>
MidiInputAlone == part = "MidiInput" /\ UNCHANGED
    <<delayVars, deviceVars, soundFileVars, oscMethodsVars,
      wireVars, patternVars, socketVars, queueVars, outputVars, part>>
MidiOutputAlone == part = "MidiOutput" /\ UNCHANGED
    <<delayVars, deviceVars, soundFileVars, oscMethodsVars,
      wireVars, patternVars, socketVars, queueVars, inputVars, part>>

PartsNext ==
    \/ DelayAlone /\ DelayNext
    \/ DevicesAlone /\ DevicesNext
    \/ SoundFileAlone /\ SoundFileNext
    \/ OscMethodsAlone /\ OscMethodsNext
    \/ OscWireAlone /\ WireNext
    \/ OscPatternAlone /\ PatternNext
    \/ OscSocketsAlone /\ SocketsNext
    \/ MidiQueueAlone /\ QueueNext
    \/ MidiInputAlone /\ InputNext
    \/ MidiOutputAlone /\ OutputNext

PartsSpec == PartsInit /\ [][PartsNext]_partsVars
=============================================================================
