----------------------------- MODULE MidiInput -----------------------------
(***************************************************************************)
(* The way of MIDI input into portmidi's queue: CoreMIDI's thread calls    *)
(* readProc with packets (pmmacosxcm.c), which pass short messages to      *)
(* pm_read_short and parts of system exclusive messages (sysex) to         *)
(* pm_read_bytes (portmidi.c); the latter packs them into events of WORD   *)
(* bytes.  Of the queue (MidiQueue) only its length and its overflow count *)
(* here.  A byte is SYSEX, EOX, REALTIME, the STATUS of a short message of *)
(* two bytes, or data, which is numbered.                                  *)
(***************************************************************************)
EXTENDS Naturals, FiniteSets, Sequences, SequencesExt, Selection

CONSTANTS WORD, QueueCapacity,      \* bytes of an event, events of the queue
          RealTimeApart,            \* a packet of its own may interrupt a sysex
          Truncated,                \* a sysex may end without an EOX
          MaxPacket, MaxSysex       \* bounds

ASSUME MidiInputAssumption ==
    /\ {WORD, QueueCapacity, MaxPacket, MaxSysex} \subseteq Nat \ {0}
    /\ {RealTimeApart, Truncated} \subseteq BOOLEAN

Statuses == {"SYSEX", "EOX", "REALTIME", "STATUS"}
DataBytes == {"d0", "d1", "d2"}
NONE == "none"

VARIABLES stream,      \* PmInternal: [inProgress, word, filters, events, refusing]
          packet,      \* what is left of the packet readProc is at
          command, commandLength,   \* last_command, last_msg_length
          sysexSent,   \* the sysex that is being sent, as far as it was, without
                       \* what the filters take away
          inside,      \* the instrument is in the middle of it
          passed,      \* what of it went into the queue: in words, or, where
                       \* sysex is filtered, as a short message
          lost,        \* or would have, had there been room
          shorts       \* short messages of the packet that are still to come
inputVars == <<stream, packet, command, commandLength, sysexSent, inside, passed, lost, shorts>>

InputInit ==
    /\ \E f \in SUBSET {"SYSEX", "REALTIME"} :
           stream = [inProgress |-> FALSE, word |-> <<>>, filters |-> f,
                     events |-> 0, refusing |-> FALSE]
    /\ packet = <<>> /\ command = NONE /\ commandLength = 0
    /\ sysexSent = <<>> /\ inside = FALSE /\ passed = <<>> /\ lost = FALSE /\ shorts = 0

-----------------------------------------------------------------------------
(* portmidi.c.  The state of a call is the stream with passed, lost and    *)
(* shorts, at the byte i of its data, and in its first or second loop.     *)

Call == [inProgress |-> stream.inProgress, word |-> stream.word, filters |-> stream.filters,
         events |-> stream.events, refusing |-> stream.refusing,
         passed |-> passed, lost |-> lost, shorts |-> shorts, i |-> 1, taking |-> stream.inProgress]

HasRoom(s) == ~s.refusing /\ s.events < QueueCapacity
Enqueued(s) == IF HasRoom(s) THEN [s EXCEPT !.events = @ + 1] ELSE [s EXCEPT !.refusing = TRUE]

\* An event of sysex bytes; when it is refused, the rest of the sysex is dropped.
EnqueueSysex(s, bytes) ==
    IF HasRoom(s)
    THEN [Enqueued(s) EXCEPT !.passed = IF bytes[1] = "SYSEX" THEN bytes ELSE @ \o bytes]
    ELSE [Enqueued(s) EXCEPT !.inProgress = FALSE, !.lost = TRUE]

\* Slip: after an overflow the bytes stay.
FlushOnce(s) ==
    IF s.word = <<>> THEN s
    ELSE IF HasRoom(s) THEN [EnqueueSysex(s, s.word) EXCEPT !.word = <<>>]
    ELSE EnqueueSysex(s, s.word)
pm_flush_sysex(s) ==
    IF s.word = <<>> THEN s ELSE [EnqueueSysex(s, s.word) EXCEPT !.word = <<>>]

AddByte(s, b) ==
    LET t == [s EXCEPT !.word = Append(@, b)]
    IN  IF Len(t.word) = WORD THEN pm_flush_sysex(t) ELSE t

pm_read_short(s, b) ==
    LET t == IF b = "STATUS" THEN [s EXCEPT !.shorts = @ - 1] ELSE s
    IN  IF b = "REALTIME" /\ b \in s.filters THEN t
        ELSE IF s.inProgress
        THEN IF b = "REALTIME" THEN AddByte(t, b) ELSE [t EXCEPT !.inProgress = FALSE]
        ELSE IF HasRoom(t) THEN Enqueued(t) ELSE [Enqueued(t) EXCEPT !.inProgress = FALSE]

\* One round of the loops of pm_read_bytes: before a SYSEX, or inside.  A
\* SYSEX that is filtered is taken for a short message and enqueued.
Noted(s, b) ==
    IF b = "SYSEX" THEN [s EXCEPT !.passed = IF HasRoom(s) THEN <<b>> ELSE <<>>] ELSE s
SkipByte(s, b) ==
    IF b = "SYSEX" /\ b \notin s.filters
    THEN [s EXCEPT !.inProgress = TRUE, !.taking = TRUE, !.lost = FALSE, !.passed = <<>>]
    ELSE [(IF b \in Statuses \ {"EOX"} THEN pm_read_short(Noted(s, b), b) ELSE s)
              EXCEPT !.i = @ + 1, !.taking = b = "EOX"]
TakeBytes(s, data) ==
    LET b == data[s.i]
        four == SubSeq(data, s.i, s.i + WORD - 1)
    IN  IF s.word = <<>> /\ s.i + WORD - 1 <= Len(data)
           /\ \A k \in 1 .. WORD : four[k] \notin Statuses
        THEN [EnqueueSysex(s, four) EXCEPT !.i = @ + WORD]
        ELSE IF b = "REALTIME" /\ b \in s.filters
        THEN [s EXCEPT !.i = @ + 1]
        ELSE IF b = "EOX"
        THEN [pm_flush_sysex([s EXCEPT !.word = Append(@, b), !.inProgress = FALSE])
                  EXCEPT !.i = @ + 1]
        ELSE [AddByte(s, b) EXCEPT !.i = @ + 1]
Round(s, data) ==
    IF s.i > Len(data) \/ (s.taking /\ ~s.inProgress) THEN s
    ELSE IF s.taking THEN TakeBytes(s, data) ELSE SkipByte(s, data[s.i])
pm_read_bytes(data) ==
    LET after[n \in 0 .. 2 * Len(data)] == IF n = 0 THEN Call ELSE Round(after[n - 1], data)
    IN  after[2 * Len(data)]

Return(s) ==
    /\ stream' = [inProgress |-> s.inProgress, word |-> s.word, filters |-> s.filters,
                   events |-> s.events, refusing |-> s.refusing]
    /\ passed' = s.passed /\ lost' = s.lost /\ shorts' = s.shorts

-----------------------------------------------------------------------------
(* pmmacosxcm.c                                                            *)

\* readProc finds sysex data at the beginning of its packet.
IsSysexData(b) == b \in {"SYSEX", "EOX"} \/ (b \notin Statuses /\ command = NONE)

\* process_packet
LengthOf(b) == IF b = "STATUS" THEN 2 ELSE 1
Drop(s, n) == SubSeq(s, n + 1, Len(s))
Process ==
    /\ packet # <<>>
    /\ LET b == Head(packet)
           bytes == pm_read_bytes(packet)
       IN  \/ /\ b = "SYSEX" \/ (b \notin Statuses /\ command = NONE)
              /\ Return(bytes)
              /\ command' = NONE /\ packet' = Drop(packet, bytes.i - 1)
              /\ UNCHANGED commandLength
           \/ /\ b = "EOX"                                    \* and again
              /\ Return([Call EXCEPT !.inProgress = FALSE])
              /\ command' = NONE
              /\ UNCHANGED <<packet, commandLength>>
           \/ /\ b \in {"STATUS", "REALTIME"} /\ LengthOf(b) <= Len(packet)
              /\ Return(pm_read_short(Call, b))
              /\ command' = b /\ commandLength' = LengthOf(b)
              /\ packet' = Drop(packet, LengthOf(b))
           \/ /\ b \notin Statuses /\ command # NONE          \* running status
              /\ commandLength <= Len(packet) + 1
              /\ Return(pm_read_short(Call, command))
              /\ packet' = Drop(packet, commandLength - 1)
              /\ UNCHANGED <<command, commandLength>>
           \/ /\ \/ b \in {"STATUS", "REALTIME"} /\ LengthOf(b) > Len(packet)
                 \/ b \notin Statuses /\ command # NONE /\ commandLength > Len(packet) + 1
              /\ packet' = <<>>
              /\ UNCHANGED <<stream, passed, lost, shorts, command, commandLength>>
    /\ UNCHANGED <<sysexSent, inside>>

-----------------------------------------------------------------------------
(* The instrument and CoreMIDI                                             *)

Has(p, b) == \E k \in DOMAIN p : p[k] = b
\* Before byte k of p the instrument is in the middle of a sysex.
Within(isInside, p, k) ==
    /\ isInside \/ \E j \in 1 .. k - 1 : p[j] = "SYSEX"
    /\ \A j \in 1 .. k - 1 : p[j] # "STATUS"
\* What byte k of p may be: sysex and short messages are whole, but for
\* real-time bytes and, in short messages, running status.
MayCome(isInside, p, k) ==
    LET within == Within(isInside, p, k)
    IN  /\ k > 1 /\ p[k - 1] = "STATUS" => p[k] = "data"
        /\ p[k] = "data" => within \/ (k > 1 /\ p[k - 1] \in {"STATUS", "data"})
        /\ p[k] = "EOX" => within
        /\ p[k] \in {"SYSEX", "STATUS"} /\ within => Truncated
        /\ p[k] = "STATUS" => k < Len(p)
AllPackets == UNION {[1 .. n -> Statuses \cup {"data"}] : n \in 1 .. MaxPacket}
PacketsFrom(isInside) ==
    {p \in AllPackets :
        /\ \A k \in DOMAIN p : MayCome(isInside, p, k)
        /\ p[1] = "REALTIME" /\ isInside => RealTimeApart
        \* the bytes of one sysex fill a packet
        /\ \A k \in DOMAIN p :
               /\ p[k] = "EOX" => k = Len(p)
               /\ p[k] = "SYSEX" => \A j \in DOMAIN p : p[j] = "SYSEX" => j = k
        /\ Has(p, "STATUS") => ~Has(p, "SYSEX") /\ ~Has(p, "EOX")}
Packets == [isInside \in BOOLEAN |-> PacketsFrom(isInside)]

Arrive ==
    /\ packet = <<>>
    /\ \E p \in Packets[inside] :
           LET numbered == [k \in DOMAIN p |->
                   IF p[k] = "data" THEN <<"d0", "d1", "d2">>[((Len(sysexSent) + k) % 3) + 1] ELSE p[k]]
               from == IF Has(p, "SYSEX") THEN CHOOSE k \in DOMAIN p : p[k] = "SYSEX" ELSE 1
               kept == DataBytes \cup (Statuses \ (stream.filters \cap {"REALTIME"}))
               part == IF Has(p, "STATUS") THEN <<>> ELSE Selected(SubSeq(numbered, from, Len(p)), kept)
               bytes == pm_read_bytes(numbered)
           IN  /\ sysexSent' = IF Has(p, "SYSEX") THEN part ELSE IF inside THEN sysexSent \o part ELSE sysexSent
               /\ Len(sysexSent') <= MaxSysex
               /\ inside' = (p[Len(p)] # "EOX" /\ Within(inside, p, Len(p) + 1))
               /\ IF IsSysexData(numbered[1])
                  THEN /\ Return(bytes)
                       /\ command' = NONE /\ commandLength' = 0 /\ UNCHANGED packet
                  ELSE /\ packet' = numbered
                       /\ shorts' = IF Has(p, "STATUS") THEN Cardinality({n \in 0 .. Len(p) - 1 : p[Len(p) - n] = "data"}) ELSE 0
                       /\ UNCHANGED <<stream, passed, lost, command, commandLength>>

\* Pm_Read, an event or the overflow
Read ==
    /\ \/ /\ stream.events > 0
          /\ stream' = [stream EXCEPT !.events = @ - 1]
       \/ /\ stream.events = 0 /\ stream.refusing
          /\ stream' = [stream EXCEPT !.refusing = FALSE]
    /\ UNCHANGED <<packet, command, commandLength, sysexSent, inside, passed, lost, shorts>>

InputNext == Arrive \/ Process \/ Read
InputSpec == InputInit /\ [][InputNext]_inputVars

-----------------------------------------------------------------------------
(* However its bytes are spread over packets and events: what passed of a  *)
(* sysex into the queue, with the bytes not yet passed on, is what was     *)
(* sent of it, the real-time bytes that are not filtered in their places   *)
(* among its own; once an event was refused nothing more of it passes, and *)
(* nothing stays for the next one; of a filtered sysex nothing passes but  *)
(* its first byte.  No short message of a packet is left out.              *)
SysexArrivesWhole ==
    packet = <<>> =>
        /\ shorts = 0
        /\ stream.word # <<>> => inside
        /\ IF "SYSEX" \in stream.filters THEN IsPrefix(passed, <<"SYSEX">>)
           ELSE IF lost THEN IsPrefix(passed, sysexSent)
           ELSE passed \o stream.word = sysexSent

(* "PM_FILT_SYSEX ... to drop selected input types" (portmidi.h:374-378):  *)
(* nothing of a filtered sysex passes.  Not so: its first byte does, as a  *)
(* short message (portmidi.c:1079-1090).                                   *)
FilteredAreDropped == "SYSEX" \in stream.filters => passed = <<>>

(* "A real-time message will always occupy a full PmEvent"                 *)
(* (portmidi.h:541): none shares a word with the bytes of a sysex.  Not    *)
(* so: it is put into the word like they (portmidi.c:1117).                *)
RealTimeAlone == \A k \in DOMAIN stream.word : stream.word[k] # "REALTIME"

(* process_packet meets no EOX: pm_read_bytes reads them all, as the       *)
(* comment on that branch says.  But where an event was refused            *)
(* pm_read_bytes leaves the rest of its bytes, to be dropped by nobody;    *)
(* at the EOX among them the loop stays.                                   *)
EveryEoxIsRead == packet # <<>> => Head(packet) # "EOX"

(* Every round of process_packet's loop brings it nearer to the end of its *)
(* packet.  It does not at the EOX just named, nor when a real-time byte   *)
(* had a packet of its own in the middle of a sysex, as MIDI allows        *)
(* (portmidi.h:519): the byte passes for a running status of one byte, and *)
(* the callback never returns.                                             *)
RoundsAdvance == [][Process => Len(packet') < Len(packet)]_inputVars
=============================================================================
