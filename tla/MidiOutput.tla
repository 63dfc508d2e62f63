---------------------------- MODULE MidiOutput ----------------------------
(***************************************************************************)
(* MIDI output: Pm_WriteShort, Pm_WriteSysEx and Pm_Write (portmidi.c)     *)
(* over the functions of CoreMIDI's dictionary (pmmacosxcm.c), which       *)
(* gather bytes in the sysex buffer, packets in the packet list, and send  *)
(* that.  An event holds EVENT_BYTES bytes, the last ones of a short 0.    *)
(***************************************************************************)
EXTENDS Naturals, Sequences, SequencesExt

CONSTANTS EVENT_BYTES, BUFLEN,    \* bytes of an event, events of a buffer
          SYSEX_BUFFER_SIZE, PACKET_BUFFER_SIZE,
          MaxData, MaxCalls         \* bounds: data of a sysex, calls

ASSUME MidiOutputAssumption ==
    /\ {BUFLEN, SYSEX_BUFFER_SIZE, PACKET_BUFFER_SIZE} \subseteq Nat \ {0}
    /\ EVENT_BYTES \in Nat \ {0, 1}          \* it holds a short message
    /\ SYSEX_BUFFER_SIZE < PACKET_BUFFER_SIZE

VARIABLES midiOut,   \* [inProgress, buffer, list, sent, err]
          written,   \* what the application wrote
          nested,    \* with a real-time event inside a sysex
          calls
outputVars == <<midiOut, written, nested, calls>>

OutputInit ==
    /\ midiOut = [inProgress |-> FALSE, buffer |-> <<>>, list |-> <<>>, sent |-> <<>>, err |-> "pmNoError"]
    /\ written = <<>> /\ nested = FALSE /\ calls = 0

-----------------------------------------------------------------------------
(* pmmacosxcm.c; fails tells whether MIDISend does during this call        *)

midi_write_flush(s, fails) ==
    IF s.list = <<>> THEN s
    ELSE IF fails THEN [s EXCEPT !.list = <<>>, !.err = "pmHostError"]
    ELSE [s EXCEPT !.list = <<>>, !.sent = @ \o s.list]
send_packet(s, bytes, fails) ==
    LET room == IF Len(s.list) + Len(bytes) <= PACKET_BUFFER_SIZE THEN s
                ELSE midi_write_flush(s, fails)
    IN  IF room.err # "pmNoError" THEN room ELSE [room EXCEPT !.list = @ \o bytes]
\* Slip: the bytes stay in the buffer.
EndKeeping(s, fails) ==
    LET t == send_packet(s, s.buffer, fails)
    IN  IF t.err # "pmNoError" THEN [t EXCEPT !.list = <<>>, !.buffer = <<>>] ELSE t
midi_end_sysex(s, fails) ==
    LET t == [send_packet(s, s.buffer, fails) EXCEPT !.buffer = <<>>]
    IN  IF t.err # "pmNoError" THEN [t EXCEPT !.list = <<>>] ELSE t
midi_write_byte(s, b, fails) ==
    LET room == IF Len(s.buffer) >= SYSEX_BUFFER_SIZE THEN midi_end_sysex(s, fails) ELSE s
    IN  IF room.err # "pmNoError" THEN room ELSE [room EXCEPT !.buffer = Append(@, b)]

midi_length(status) == IF status = "STATUS" THEN 2 ELSE 1
midi_write_short(s, event, fails) == send_packet(s, SubSeq(event, 1, midi_length(event[1])), fails)
midi_write_realtime(s, event, fails) ==
    LET t == midi_end_sysex(s, fails)
    IN  IF t.err # "pmNoError" THEN t ELSE midi_write_short(t, event, fails)

-----------------------------------------------------------------------------
(* portmidi.c                                                              *)

\* The bytes of an event, one by one until an EOX
SysexByte(s, b, fails) ==
    LET t == midi_write_byte(s, b, fails)
    IN  IF s.err # "pmNoError" \/ ~s.inProgress THEN s
        ELSE IF t.err = "pmNoError" /\ b = "EOX"
        THEN [midi_end_sysex(t, fails) EXCEPT !.inProgress = FALSE] ELSE t
SysexBytes(s, event, fails) ==
    LET after[n \in 0 .. Len(event)] ==
            IF n = 0 THEN s ELSE SysexByte(after[n - 1], event[n], fails)
    IN  after[Len(event)]
\* One round of Pm_Write's loop
WriteEvent(s, event, fails) ==
    LET status == event[1]
    IN  CASE status = "SYSEX" /\ s.inProgress ->
                 [s EXCEPT !.inProgress = FALSE, !.err = "pmBadData"]
          [] status = "SYSEX" /\ ~s.inProgress ->
                 SysexBytes([s EXCEPT !.inProgress = TRUE, !.buffer = <<>>], event, fails)
          [] status = "REALTIME" /\ s.inProgress ->
                 SysexBytes(midi_write_realtime(s, event, fails), event, fails)
          [] status = "STATUS" /\ s.inProgress ->
                 [midi_end_sysex([s EXCEPT !.inProgress = FALSE], fails) EXCEPT !.err = "pmBadData"]
          [] status \in {"REALTIME", "STATUS"} /\ ~s.inProgress ->
                 midi_write_short(s, event, fails)
          [] OTHER ->
                 IF s.inProgress THEN SysexBytes(s, event, fails) ELSE [s EXCEPT !.err = "pmBadData"]
Pm_Write(s, events, fails) ==
    LET after[n \in 0 .. Len(events)] ==
            IF n = 0 THEN s
            ELSE IF after[n - 1].err # "pmNoError" THEN after[n - 1]
            ELSE WriteEvent(after[n - 1], events[n], fails)
        t == after[Len(events)]
    IN  IF t.err = "pmNoError" /\ ~t.inProgress THEN midi_write_flush(t, fails) ELSE t

\* bytes cut into events, the last one filled up with 0
AsEvents(bytes) ==
    [n \in 1 .. (Len(bytes) + EVENT_BYTES - 1) \div EVENT_BYTES |->
        [k \in 1 .. EVENT_BYTES |->
            LET at == (n - 1) * EVENT_BYTES + k
            IN  IF at <= Len(bytes) THEN bytes[at] ELSE "0"]]
\* A first buffer of one event, then buffers of BUFLEN
Pm_WriteSysEx(s, bytes, fails) ==
    LET events == AsEvents(bytes)
        upTo(n) == IF n = 0 THEN 0
                   ELSE IF (n - 1) * BUFLEN + 1 < Len(events) THEN (n - 1) * BUFLEN + 1
                   ELSE Len(events)
        buffers[n \in 0 .. Len(events)] ==
            IF n = 0 THEN s
            ELSE LET t == buffers[n - 1]
                 IN  IF t.err # "pmNoError" \/ upTo(n - 1) = Len(events) THEN t
                     ELSE Pm_Write(t, SubSeq(events, upTo(n - 1) + 1, upTo(n)), fails)
    IN  buffers[Len(events)]

-----------------------------------------------------------------------------
(* The application                                                         *)

\* After an error the application gives the stream up.
Called(s, bytes) ==
    /\ midiOut.err = "pmNoError" /\ calls < MaxCalls /\ calls' = calls + 1
    /\ midiOut' = s
    /\ written' = written \o bytes

SysexOf(n) == <<"SYSEX">> \o [k \in 1 .. n |-> <<"d0", "d1", "d2">>[(k % 3) + 1]] \o <<"EOX">>
WriteShort(message, fails) == Called(Pm_Write(midiOut, AsEvents(message), fails), message) /\ UNCHANGED nested
WriteSysEx(n, fails) == Called(Pm_WriteSysEx(midiOut, SysexOf(n), fails), SysexOf(n)) /\ UNCHANGED nested
\* The events of a sysex, with a real-time event after the first k of them
WriteNested(n, k, fails) ==
    LET events == AsEvents(SysexOf(n))
        clock == [i \in 1 .. EVENT_BYTES |-> IF i = 1 THEN "REALTIME" ELSE "0"]
        bytes == SysexOf(n)
    IN  /\ k < Len(events) /\ nested' = TRUE
        /\ Called(Pm_Write(midiOut, InsertAt(events, k + 1, clock), fails),
                  InsertAt(bytes, k * EVENT_BYTES + 1, "REALTIME"))

OutputNext ==
    \E fails \in BOOLEAN :
        \/ \E message \in {<<"STATUS", "d0">>, <<"REALTIME">>} : WriteShort(message, fails)
        \/ \E n \in 0 .. MaxData : WriteSysEx(n, fails)
        \/ \E n \in 0 .. MaxData, k \in 1 .. MaxData : WriteNested(n, k, fails)
OutputSpec == OutputInit /\ [][OutputNext]_outputVars

-----------------------------------------------------------------------------
Faithful ==
    /\ IsPrefix(midiOut.sent, written)
    /\ midiOut.err = "pmNoError" => midiOut.sent = written /\ midiOut.buffer = <<>>

(* Whatever the sizes of sysex and of the two buffers they are cut into:   *)
(* when a call returns without an error, all that was written was sent, in *)
(* its order and nothing else; after an error, a part from the beginning.  *)
SentAsWritten == nested \/ Faithful

(* "Sysex data may contain embedded real-time messages." (portmidi.h:632)  *)
(* But such an event is sent twice, the second time with its padding, as   *)
(* bytes of the sysex.                                                     *)
NestedSentAsWritten == Faithful
=============================================================================
