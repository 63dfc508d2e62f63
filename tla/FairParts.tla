----------------------------- MODULE FairParts -----------------------------
(***************************************************************************)
(* The parts of the system that have threads of their own, or live on      *)
(* packets that go on coming, and of which something must come about in    *)
(* the end.  They share no state: a behaviour is one of one part.          *)
(***************************************************************************)
EXTENDS RoutingTable, Envelope, Playback, TileWatch, PortTime, SerialThread, OscServer, XBeeParser

VARIABLE part

tableVars == vars
partsVars == <<tableVars, envelopeVars, playbackVars, tileVars, timerVars, serialVars,
               oscServerVars, parserVars, part>>

AnyDevice == CHOOSE d \in SerialDevices : TRUE

PartsInit ==
    /\ Init /\ EnvelopeInit /\ PlaybackInit /\ WatchInit
    /\ TimerInit /\ SerialInit /\ OscServerInit /\ ParserInit
    /\ part \in {"RoutingTable", "Envelope", "AudioSource", "Tiles",
                 "PortTime", "Serial", "OscServer", "XBeeParser"}
    /\ part # "Serial" => fd = AnyDevice     \* one beginning for the others

-----------------------------------------------------------------------------
TableAlone == part = "RoutingTable" /\ UNCHANGED
    <<envelopeVars, playbackVars, tileVars, timerVars, serialVars, oscServerVars, parserVars, part>>
EnvelopeAlone == part = "Envelope" /\ UNCHANGED
    <<tableVars, playbackVars, tileVars, timerVars, serialVars, oscServerVars, parserVars, part>>
PlaybackAlone == part = "AudioSource" /\ UNCHANGED
    <<tableVars, envelopeVars, tileVars, timerVars, serialVars, oscServerVars, parserVars, part>>
TilesAlone == part = "Tiles" /\ UNCHANGED
    <<tableVars, envelopeVars, playbackVars, timerVars, serialVars, oscServerVars, parserVars, part>>
TimerAlone == part = "PortTime" /\ UNCHANGED
    <<tableVars, envelopeVars, playbackVars, tileVars, serialVars, oscServerVars, parserVars, part>>
SerialAlone == part = "Serial" /\ UNCHANGED
    <<tableVars, envelopeVars, playbackVars, tileVars, timerVars, oscServerVars, parserVars, part>>
ServerAlone == part = "OscServer" /\ UNCHANGED
    <<tableVars, envelopeVars, playbackVars, tileVars, timerVars, serialVars, parserVars, part>>
ParserAlone == part = "XBeeParser" /\ UNCHANGED
    <<tableVars, envelopeVars, playbackVars, tileVars, timerVars, serialVars, oscServerVars, part>>

PartsNext ==
    \/ TableAlone /\ EditNext
    \/ EnvelopeAlone /\ EnvelopeNext
    \/ PlaybackAlone /\ PlaybackNext
    \/ TilesAlone /\ WatchNext
    \/ TimerAlone /\ CalmNext
    \/ SerialAlone /\ SerialNext
    \/ ServerAlone /\ OscServerNext
    \/ ParserAlone /\ ParserNext

\* Each part under the fairness of its own specification; an AudioClock goes
\* on sending packets.
PartsSpec ==
    /\ PartsInit /\ [][PartsNext]_partsVars
    /\ WF_partsVars(TableAlone /\ HandlerStep) /\ WF_partsVars(TableAlone /\ Repeat)
    /\ WF_partsVars(EnvelopeAlone /\ EnvelopePacket)
    /\ WF_partsVars(PlaybackAlone /\ PlaybackPacket) /\ WF_partsVars(PlaybackAlone /\ Render)
    /\ WF_partsVars(TilesAlone /\ DeadCheck)
    /\ WF_partsVars(TimerAlone /\ ThreadStep)
    /\ WF_partsVars(SerialAlone /\ (Joined \/ PrepareSerial \/ ThreadStart))
    /\ \A r \in Readers : WF_partsVars(SerialAlone /\ RunReader(r))
    /\ WF_partsVars(SerialAlone /\ Feed)
    /\ WF_partsVars(ServerAlone /\ ThreadFunc) /\ WF_partsVars(ServerAlone /\ Tick)

-----------------------------------------------------------------------------
(* Whatever the requests before have put in the table, a SetRoute that is  *)
(* repeated ends with the asked route alone on its path.                   *)
RoutesSettle == part = "RoutingTable" => RepeatedSetRouteSettles

(* What was told to end ends, while packets come: a sound that is not      *)
(* repeated, and a note, whose volume fades to 0 if its level is not 0     *)
(* (with S = 0 nothing is taken off, and the volume it had stays).         *)
SoundsEnd == EndedNotesFade /\ SoundEnds

(* The indices by which sound is looked up, the volume's and the sample's, *)
(* stay in their tables, wherever a note or a sound is started, sped up    *)
(* or ended in the middle.                                                 *)
IndicesInBounds == IndexInTable /\ ReadsInsideSound
=============================================================================
