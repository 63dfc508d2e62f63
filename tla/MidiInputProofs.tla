--------------------------- MODULE MidiInputProofs ---------------------------
(***************************************************************************)
(* portmidi's input, for every size of events, of the queue and of         *)
(* packets: what passed of a sysex, with the bytes that wait for their     *)
(* event to be full, is what has been heard of it.  A call of              *)
(* pm_read_bytes is followed byte by byte against what the filters leave   *)
(* of its bytes (Grows); InputInv then says, between two rounds of         *)
(* process_packet, how far the sysex of its packet has come.               *)
(***************************************************************************)
EXTENDS MidiInput, Integers, SelectionProofs, FiniteSetTheorems

Heard == DataBytes \cup Statuses
CallStates == [inProgress : BOOLEAN, word : Seq(Heard), filters : SUBSET {"SYSEX", "REALTIME"},
               events : Nat, refusing : BOOLEAN, passed : Seq(Heard), lost : BOOLEAN, shorts : Int,
               i : Nat \ {0}, taking : BOOLEAN]

LEMMA CallFields ==
    ASSUME NEW s \in CallStates
    PROVE  /\ s.inProgress \in BOOLEAN /\ s.word \in Seq(Heard) /\ s.filters \in SUBSET {"SYSEX", "REALTIME"}
           /\ s.events \in Nat /\ s.refusing \in BOOLEAN /\ s.passed \in Seq(Heard) /\ s.lost \in BOOLEAN
           /\ s.shorts \in Int /\ s.i \in Nat \ {0} /\ s.taking \in BOOLEAN
  BY DEF CallStates

\* A call that only adds to the queue
SameWork(s, t) ==
    /\ t \in CallStates /\ t.filters = s.filters /\ t.word = s.word /\ t.passed = s.passed
    /\ t.inProgress = s.inProgress /\ t.lost = s.lost /\ t.i = s.i /\ t.taking = s.taking

LEMMA EnqueuedIs ==
    ASSUME NEW s \in CallStates
    PROVE  SameWork(s, Enqueued(s)) /\ Enqueued(s).shorts = s.shorts
  <1>1. CASE HasRoom(s)
    <2>1. s.events + 1 \in Nat
      BY CallFields
    <2>2. Enqueued(s) = [s EXCEPT !.events = s.events + 1]
      BY <1>1 DEF Enqueued
    <2> QED BY <2>1, <2>2 DEF CallStates, SameWork
  <1>2. CASE ~HasRoom(s)
    <2>2. Enqueued(s) = [s EXCEPT !.refusing = TRUE]
      BY <1>2 DEF Enqueued
    <2> QED BY <2>2 DEF CallStates, SameWork
  <1> QED BY <1>1, <1>2

\* An event of a sysex goes into the queue, or is refused, and with it the rest.
Passes(s, bytes, t) ==
    /\ t \in CallStates /\ t.filters = s.filters /\ t.shorts = s.shorts /\ t.word = s.word
    /\ t.i = s.i /\ t.taking = s.taking
    /\ \/ t.passed = s.passed \o bytes /\ t.inProgress = s.inProgress /\ t.lost = s.lost
       \/ t.passed = s.passed /\ t.inProgress = FALSE /\ t.lost = TRUE

LEMMA SysexPasses ==
    ASSUME NEW s \in CallStates, NEW bytes \in Seq(Heard), bytes[1] = "SYSEX" => s.passed = <<>>
    PROVE  Passes(s, bytes, EnqueueSysex(s, bytes))
  <1>1. PICK e : e = Enqueued(s)
    OBVIOUS
  <1>2. SameWork(s, e) /\ e.shorts = s.shorts
    BY <1>1, EnqueuedIs
  <1>3. e \in CallStates /\ s.passed \in Seq(Heard) /\ s.passed \o bytes \in Seq(Heard)
    BY <1>2, CallFields, ConcatProperties DEF SameWork
  <1>4. CASE HasRoom(s)
    <2>1. PICK p \in Seq(Heard) : p = IF bytes[1] = "SYSEX" THEN bytes ELSE e.passed \o bytes
      BY <1>2, <1>3 DEF SameWork
    <2>2. p = s.passed \o bytes
      <3>1. CASE bytes[1] = "SYSEX"
        BY <2>1, <3>1, ConcatEmptySeq
      <3>2. CASE bytes[1] # "SYSEX"
        BY <1>2, <2>1, <3>2 DEF SameWork
      <3> QED BY <3>1, <3>2
    <2>3. EnqueueSysex(s, bytes) = [e EXCEPT !.passed = p]
      BY <1>1, <1>4, <2>1 DEF EnqueueSysex
    <2>4. [e EXCEPT !.passed = p] \in CallStates
      BY <1>3 DEF CallStates
    <2>5. PICK t : t = [e EXCEPT !.passed = p]
      OBVIOUS
    <2>6. /\ t.passed = p /\ t.filters = e.filters /\ t.shorts = e.shorts /\ t.word = e.word
          /\ t.i = e.i /\ t.taking = e.taking /\ t.inProgress = e.inProgress /\ t.lost = e.lost
      BY <1>3, <2>5 DEF CallStates
    <2> QED BY <1>2, <2>2, <2>3, <2>4, <2>5, <2>6 DEF Passes, SameWork
  <1>5. CASE ~HasRoom(s)
    <2>3. EnqueueSysex(s, bytes) = [e EXCEPT !.inProgress = FALSE, !.lost = TRUE]
      BY <1>1, <1>5 DEF EnqueueSysex
    <2>4. [e EXCEPT !.inProgress = FALSE, !.lost = TRUE] \in CallStates
      BY <1>3 DEF CallStates
    <2>5. PICK t : t = [e EXCEPT !.inProgress = FALSE, !.lost = TRUE]
      OBVIOUS
    <2>6. /\ t.passed = e.passed /\ t.filters = e.filters /\ t.shorts = e.shorts /\ t.word = e.word
          /\ t.i = e.i /\ t.taking = e.taking /\ t.inProgress = FALSE /\ t.lost = TRUE
      BY <1>3, <2>5 DEF CallStates
    <2> QED BY <1>2, <2>3, <2>4, <2>5, <2>6 DEF Passes, SameWork
  <1> QED BY <1>4, <1>5

LEMMA EnqueueSysexType ==
    ASSUME NEW s \in CallStates, NEW bytes \in Seq(Heard)
    PROVE  EnqueueSysex(s, bytes) \in CallStates
  <1>1. PICK e \in CallStates : e = Enqueued(s)
    BY EnqueuedIs DEF SameWork
  <1>2. e.passed \o bytes \in Seq(Heard)
    BY CallFields, ConcatProperties
  <1>3. [e EXCEPT !.passed = IF bytes[1] = "SYSEX" THEN bytes ELSE e.passed \o bytes] \in CallStates
    BY <1>2 DEF CallStates
  <1>4. [e EXCEPT !.inProgress = FALSE, !.lost = TRUE] \in CallStates
    BY DEF CallStates
  <1> QED BY <1>1, <1>3, <1>4 DEF EnqueueSysex

LEMMA FlushType == ASSUME NEW s \in CallStates PROVE pm_flush_sysex(s) \in CallStates
  <1>1. PICK t \in CallStates : t = EnqueueSysex(s, s.word)
    BY CallFields, EnqueueSysexType
  <1>2. <<>> \in Seq(Heard)
    BY EmptySeq
  <1>3. [t EXCEPT !.word = <<>>] \in CallStates
    BY <1>2 DEF CallStates
  <1> QED BY <1>1, <1>3 DEF pm_flush_sysex

\* s with one more byte in its word
With(s, b) == [s EXCEPT !.word = Append(s.word, b)]

LEMMA WithIs ==
    ASSUME NEW s \in CallStates, NEW b \in Heard
    PROVE  /\ With(s, b) \in CallStates /\ With(s, b).word = Append(s.word, b)
           /\ With(s, b).filters = s.filters /\ With(s, b).passed = s.passed
           /\ With(s, b).inProgress = s.inProgress /\ With(s, b).lost = s.lost /\ With(s, b).i = s.i
           /\ With(s, b).taking = s.taking /\ With(s, b).shorts = s.shorts
  <1>1. PICK w \in Seq(Heard) : w = Append(s.word, b)
    BY CallFields, AppendProperties
  <1>2. [s EXCEPT !.word = w] \in CallStates
    BY DEF CallStates
  <1>3. PICK t : t = [s EXCEPT !.word = w]
    OBVIOUS
  <1>4. /\ t.word = w /\ t.filters = s.filters /\ t.passed = s.passed /\ t.inProgress = s.inProgress
        /\ t.lost = s.lost /\ t.i = s.i /\ t.taking = s.taking /\ t.shorts = s.shorts
    BY <1>3 DEF CallStates
  <1>5. With(s, b) = t
    BY <1>1, <1>3 DEF With
  <1> QED BY <1>1, <1>2, <1>3, <1>4, <1>5

LEMMA AddByteType == ASSUME NEW s \in CallStates, NEW b \in Heard PROVE AddByte(s, b) \in CallStates
  <1>1. AddByte(s, b) = IF Len(With(s, b).word) = WORD THEN pm_flush_sysex(With(s, b)) ELSE With(s, b)
    BY DEF AddByte, With
  <1> QED BY <1>1, WithIs, FlushType

\* What pm_read_short counts
Counted(s, b) == IF b = "STATUS" THEN [s EXCEPT !.shorts = @ - 1] ELSE s

LEMMA CountedIs ==
    ASSUME NEW s \in CallStates, NEW b
    PROVE  SameWork(s, Counted(s, b)) /\ Counted(s, b).shorts = IF b = "STATUS" THEN s.shorts - 1 ELSE s.shorts
  <1>1. s.shorts - 1 \in Int
    BY CallFields
  <1>2. CASE b = "STATUS"
    BY <1>1, <1>2 DEF CallStates, Counted, SameWork
  <1>3. CASE b # "STATUS"
    BY <1>3 DEF Counted, SameWork
  <1> QED BY <1>2, <1>3

LEMMA ShortType == ASSUME NEW s \in CallStates, NEW b \in Heard PROVE pm_read_short(s, b) \in CallStates
  <1>1. PICK t \in CallStates : t = Counted(s, b)
    BY CountedIs DEF SameWork
  <1>2. AddByte(t, b) \in CallStates
    BY AddByteType
  <1>3. [t EXCEPT !.inProgress = FALSE] \in CallStates
    BY DEF CallStates
  <1>4. PICK e \in CallStates : e = Enqueued(t)
    BY EnqueuedIs DEF SameWork
  <1>5. [e EXCEPT !.inProgress = FALSE] \in CallStates
    BY DEF CallStates
  <1> QED BY <1>1, <1>2, <1>3, <1>4, <1>5 DEF pm_read_short, Counted

\* Outside of a sysex a short message only comes into the queue.
LEMMA ShortIs ==
    ASSUME NEW s \in CallStates, s.inProgress = FALSE, NEW b \in Heard
    PROVE  /\ SameWork(s, pm_read_short(s, b))
           /\ pm_read_short(s, b).shorts = IF b = "STATUS" THEN s.shorts - 1 ELSE s.shorts
  <1>1. PICK t : t = Counted(s, b)
    OBVIOUS
  <1>2. SameWork(s, t) /\ t.shorts = IF b = "STATUS" THEN s.shorts - 1 ELSE s.shorts
    BY <1>1, CountedIs
  <1>3. PICK e : e = Enqueued(t)
    OBVIOUS
  <1>4. SameWork(t, e) /\ e.shorts = t.shorts
    BY <1>2, <1>3, EnqueuedIs DEF SameWork
  <1>5. SameWork(s, e)
    BY <1>2, <1>4 DEF SameWork
  <1>6. PICK u : u = [e EXCEPT !.inProgress = FALSE]
    OBVIOUS
  <1>7. u \in CallStates /\ SameWork(e, u) /\ u.shorts = e.shorts
    <2>1. e \in CallStates /\ e.inProgress = FALSE
      BY <1>5 DEF SameWork
    <2> QED BY <1>6, <2>1 DEF CallStates, SameWork
  <1>8. SameWork(s, u)
    BY <1>5, <1>7 DEF SameWork
  <1>9. pm_read_short(s, b) \in {t, e, u}
    BY <1>1, <1>3, <1>6 DEF pm_read_short, Counted
  <1>10. e.shorts = t.shorts /\ u.shorts = t.shorts
    BY <1>4, <1>7
  <1> QED BY <1>2, <1>5, <1>8, <1>9, <1>10

\* What may have passed of a filtered sysex
Beginnings == {<<>>, <<"SYSEX">>}

LEMMA FirstOnly == <<"SYSEX">> \in Seq(Heard) /\ Len(<<"SYSEX">>) = 1
  <1>1. "SYSEX" \in Heard
    BY DEF Heard, Statuses
  <1> QED BY <1>1

LEMMA BeginningsType == Beginnings \subseteq Seq(Heard)
  <1>1. "SYSEX" \in Heard
    BY DEF Heard, Statuses
  <1>2. <<>> \in Seq(Heard) /\ Append(<<>>, "SYSEX") \in Seq(Heard) /\ Append(<<>>, "SYSEX") = <<"SYSEX">>
    BY <1>1, EmptySeq, AppendProperties
  <1> QED BY <1>2 DEF Beginnings

LEMMA NotedIs ==
    ASSUME NEW s \in CallStates, NEW b
    PROVE  /\ Noted(s, b) \in CallStates /\ Noted(s, b).filters = s.filters /\ Noted(s, b).word = s.word
           /\ Noted(s, b).inProgress = s.inProgress /\ Noted(s, b).lost = s.lost /\ Noted(s, b).i = s.i
           /\ Noted(s, b).taking = s.taking /\ Noted(s, b).shorts = s.shorts
           /\ IF b = "SYSEX" THEN Noted(s, b).passed \in Beginnings ELSE Noted(s, b).passed = s.passed
  <1>1. CASE b = "SYSEX"
    <2>1. PICK w \in Beginnings : w = IF HasRoom(s) THEN <<b>> ELSE <<>>
      BY <1>1 DEF Beginnings
    <2>2. w \in Seq(Heard)
      BY BeginningsType
    <2>3. PICK t : t = [s EXCEPT !.passed = w]
      OBVIOUS
    <2>4. t \in CallStates
      BY <2>2, <2>3 DEF CallStates
    <2>5. /\ t.filters = s.filters /\ t.word = s.word /\ t.inProgress = s.inProgress /\ t.lost = s.lost
          /\ t.i = s.i /\ t.taking = s.taking /\ t.shorts = s.shorts /\ t.passed = w
      BY <2>3 DEF CallStates
    <2>6. Noted(s, b) = t
      BY <1>1, <2>1, <2>3 DEF Noted
    <2> QED BY <1>1, <2>4, <2>5, <2>6
  <1>2. CASE b # "SYSEX"
    BY <1>2 DEF Noted
  <1> QED BY <1>1, <1>2

LEMMA SkipByteType == ASSUME NEW s \in CallStates, NEW b \in Heard PROVE SkipByte(s, b) \in CallStates
  <1>1. <<>> \in Seq(Heard)
    BY EmptySeq
  <1>2. [s EXCEPT !.inProgress = TRUE, !.taking = TRUE, !.lost = FALSE, !.passed = <<>>] \in CallStates
    BY <1>1 DEF CallStates
  <1>3. PICK t \in CallStates : t = IF b \in Statuses \ {"EOX"} THEN pm_read_short(Noted(s, b), b) ELSE s
    BY NotedIs, ShortType
  <1>4. PICK n \in Nat \ {0} : n = t.i + 1
    BY CallFields
  <1>5. PICK e \in BOOLEAN : e = (b = "EOX")
    OBVIOUS
  <1>6. [t EXCEPT !.i = n, !.taking = e] \in CallStates
    BY DEF CallStates
  <1>7. SkipByte(s, b) = IF b = "SYSEX" /\ b \notin s.filters
                         THEN [s EXCEPT !.inProgress = TRUE, !.taking = TRUE, !.lost = FALSE, !.passed = <<>>]
                         ELSE [t EXCEPT !.i = n, !.taking = e]
    BY <1>3, <1>4, <1>5 DEF SkipByte
  <1> QED BY <1>2, <1>6, <1>7

LEMMA WordIs == WORD \in Nat /\ WORD > 0
  BY MidiInputAssumption

LEMMA MovedType ==
    ASSUME NEW s \in CallStates, NEW n \in Nat
    PROVE  LET t == [s EXCEPT !.i = s.i + n]
           IN  /\ t \in CallStates /\ t.i = s.i + n /\ t.word = s.word /\ t.passed = s.passed
               /\ t.filters = s.filters /\ t.inProgress = s.inProgress /\ t.lost = s.lost
               /\ t.taking = s.taking /\ t.shorts = s.shorts
  <1>1. PICK m \in Nat \ {0} : m = s.i + n
    BY CallFields
  <1>2. PICK t : t = [s EXCEPT !.i = m]
    OBVIOUS
  <1>3. t \in CallStates
    BY <1>2 DEF CallStates
  <1>4. /\ t.i = m /\ t.word = s.word /\ t.passed = s.passed
        /\ t.filters = s.filters /\ t.inProgress = s.inProgress /\ t.lost = s.lost
        /\ t.taking = s.taking /\ t.shorts = s.shorts
    BY <1>2 DEF CallStates
  <1> QED BY <1>1, <1>2, <1>3, <1>4

\* WORD bytes of data after the first m
Bytewise(data, m) == SubSeq(data, m + 1, m + 1 + WORD - 1)

LEMMA BytewiseIs ==
    ASSUME NEW data \in Seq(Heard), NEW m \in Nat, m + WORD <= Len(data)
    PROVE  /\ Bytewise(data, m) \in Seq(Heard) /\ Len(Bytewise(data, m)) = WORD
           /\ \A k \in 1 .. WORD : Bytewise(data, m)[k] = data[m + k]
  <1>1. PICK w \in Nat, l \in Nat : w = WORD /\ w > 0 /\ l = Len(data) /\ m + w <= l
    BY WordIs, LenProperties
  <1>2. m + 1 \in 1 .. l + 1 /\ m + 1 + w - 1 \in (m + 1) - 1 .. l /\ m + 1 + w - 1 = m + w
    BY <1>1
  <1>3. \A k \in m + 1 .. m + 1 + w - 1 : data[k] \in Heard
    <2>1. \A k \in m + 1 .. m + 1 + w - 1 : k \in 1 .. Len(data)
      BY <1>1
    <2> QED BY <2>1, ElementOfSeq
  <1>4. /\ SubSeq(data, m + 1, m + 1 + w - 1) \in Seq(Heard)
        /\ Len(SubSeq(data, m + 1, m + 1 + w - 1)) = w
        /\ \A k \in 1 .. w : SubSeq(data, m + 1, m + 1 + w - 1)[k] = data[m + k]
    BY <1>1, <1>2, <1>3, SubSeqProperties
  <1> QED BY <1>1, <1>4 DEF Bytewise

LEMMA TakeBytesType ==
    ASSUME NEW s \in CallStates, NEW data \in Seq(Heard), s.i <= Len(data)
    PROVE  TakeBytes(s, data) \in CallStates
  <1>1. PICK i \in Nat, l \in Nat, w \in Nat : i = s.i /\ i > 0 /\ l = Len(data) /\ i <= l /\ w = WORD /\ w > 0
    BY CallFields, LenProperties, WordIs
  <1>2. PICK b \in Heard : b = data[s.i]
    BY <1>1, ElementOfSeq
  <1>3. ASSUME i + w - 1 <= l
        PROVE  [EnqueueSysex(s, SubSeq(data, s.i, s.i + WORD - 1)) EXCEPT !.i = @ + WORD] \in CallStates
    <2>1. PICK m \in Nat : m + 1 = i
      <3>1. i - 1 \in Nat /\ (i - 1) + 1 = i
        BY <1>1
      <3> QED BY <3>1
    <2>2. SubSeq(data, s.i, s.i + WORD - 1) = Bytewise(data, m) /\ m + WORD <= Len(data)
      <3>1. m + w <= l
        BY <1>3, <2>1
      <3>2. SubSeq(data, s.i, s.i + WORD - 1) = Bytewise(data, m)
        BY <1>1, <2>1 DEF Bytewise
      <3> QED BY <1>1, <3>1, <3>2
    <2>3. PICK bytes \in Seq(Heard) : bytes = SubSeq(data, s.i, s.i + WORD - 1)
      BY <2>2, BytewiseIs
    <2>4. PICK t \in CallStates : t = EnqueueSysex(s, bytes)
      BY EnqueueSysexType
    <2> QED BY <2>3, <2>4, MovedType, WordIs
  <1>4. [s EXCEPT !.i = @ + 1] \in CallStates
    BY MovedType
  <1>5. [AddByte(s, b) EXCEPT !.i = @ + 1] \in CallStates
    <2>1. PICK t \in CallStates : t = AddByte(s, b)
      BY AddByteType
    <2> QED BY <2>1, MovedType
  <1>6. [pm_flush_sysex([s EXCEPT !.word = Append(@, b), !.inProgress = FALSE]) EXCEPT !.i = @ + 1] \in CallStates
    <2>1. [s EXCEPT !.word = Append(@, b), !.inProgress = FALSE] = [With(s, b) EXCEPT !.inProgress = FALSE]
      BY DEF With, CallStates
    <2>2. [With(s, b) EXCEPT !.inProgress = FALSE] \in CallStates
      BY WithIs DEF CallStates
    <2>3. PICK t \in CallStates : t = pm_flush_sysex([s EXCEPT !.word = Append(@, b), !.inProgress = FALSE])
      BY <2>1, <2>2, FlushType
    <2> QED BY <2>3, MovedType
  <1>7. TakeBytes(s, data) \in
            {[EnqueueSysex(s, SubSeq(data, s.i, s.i + WORD - 1)) EXCEPT !.i = @ + WORD],
             [s EXCEPT !.i = @ + 1], [AddByte(s, b) EXCEPT !.i = @ + 1],
             [pm_flush_sysex([s EXCEPT !.word = Append(@, b), !.inProgress = FALSE]) EXCEPT !.i = @ + 1]}
        /\ (i + w - 1 <= l \/ TakeBytes(s, data) \in
            {[s EXCEPT !.i = @ + 1], [AddByte(s, b) EXCEPT !.i = @ + 1],
             [pm_flush_sysex([s EXCEPT !.word = Append(@, b), !.inProgress = FALSE]) EXCEPT !.i = @ + 1]})
    BY <1>1, <1>2, Zenon DEF TakeBytes
  <1> QED BY <1>3, <1>4, <1>5, <1>6, <1>7

LEMMA RoundType ==
    ASSUME NEW s \in CallStates, NEW data \in Seq(Heard)
    PROVE  Round(s, data) \in CallStates
  <1>1. CASE s.i > Len(data) \/ (s.taking /\ ~s.inProgress)
    BY <1>1 DEF Round
  <1>2. CASE ~(s.i > Len(data) \/ (s.taking /\ ~s.inProgress))
    <2>1. s.i <= Len(data) /\ s.i \in 1 .. Len(data)
      BY <1>2, CallFields, LenProperties
    <2>2. data[s.i] \in Heard
      BY <2>1, ElementOfSeq
    <2> QED BY <1>2, <2>1, <2>2, TakeBytesType, SkipByteType DEF Round
  <1> QED BY <1>1, <1>2

\* The rounds of pm_read_bytes
IsReadRun(f, data) ==
    /\ f \in [0 .. 2 * Len(data) -> CallStates] /\ f[0] = Call
    /\ \A n \in 1 .. 2 * Len(data) : f[n] = Round(f[n - 1], data)

LEMMA ReadIs ==
    ASSUME NEW data \in Seq(Heard), Call \in CallStates
    PROVE  \E f : IsReadRun(f, data) /\ pm_read_bytes(data) = f[2 * Len(data)]
  <1> DEFINE N == 2 * Len(data)
             step == [p \in CallStates \X (1 .. N) |-> Round(p[1], data)]
             Q(h) == h = [n \in 0 .. N |-> IF n = 0 THEN Call ELSE Round(h[n - 1], data)]
             ch == CHOOSE h : Q(h)
  <1>1. N \in Nat
    BY LenProperties
  <1>2. \A v \in CallStates, n \in 1 .. N : step[<<v, n>>] = Round(v, data)
    OBVIOUS
  <1>3. step \in Steps(CallStates, N)
    <2>1. ASSUME NEW q \in CallStates \X (1 .. N) PROVE step[q] \in CallStates
      <3>1. q[1] \in CallStates
        OBVIOUS
      <3> QED BY <3>1, RoundType
    <2> HIDE DEF N
    <2> QED BY <2>1 DEF Steps
  <1> HIDE DEF step
  <1>4. PICK f : IsRun(f, CallStates, N, Call, step)
    <2> HIDE DEF N
    <2> QED BY <1>1, <1>3, Iterate
  <1>5. f \in [0 .. N -> CallStates] /\ f[0] = Call /\ \A n \in 1 .. N : f[n] = Round(f[n - 1], data)
    <2>1. ASSUME NEW n \in 1 .. N PROVE f[n] = Round(f[n - 1], data)
      <3>0. n - 1 \in 0 .. N
        BY <1>1
      <3>1. f[n] = step[<<f[n - 1], n>>] /\ f[n - 1] \in CallStates
        BY <1>4, <3>0 DEF IsRun
      <3> HIDE DEF N
      <3> QED BY <1>2, <3>1
    <2> QED BY <1>4, <2>1 DEF IsRun
  <1>6. Q(f)
    <2>1. \A n \in 0 .. N : f[n] = IF n = 0 THEN Call ELSE Round(f[n - 1], data)
      <3> SUFFICES ASSUME NEW n \in 0 .. N, n # 0 PROVE f[n] = Round(f[n - 1], data)
        BY <1>5
      <3>1. n \in 1 .. N
        BY <1>1
      <3> QED BY <1>5, <3>1
    <2>2. f = [n \in 0 .. N |-> f[n]]
      BY <1>5
    <2> HIDE DEF N
    <2> QED BY <2>1, <2>2
  <1>7. Q(ch)
    BY <1>6
  <1>8. pm_read_bytes(data) = ch[N]
    BY DEF pm_read_bytes
  <1> HIDE DEF ch
  <1>9. ch = f
    <2>1. \A n \in 0 .. N : ch[n] = IF n = 0 THEN Call ELSE Round(ch[n - 1], data)
      BY <1>7
    <2>2. ASSUME NEW n \in 0 .. N - 1, ch[n] = f[n] PROVE ch[n + 1] = f[n + 1]
      <3>1. n + 1 \in 1 .. N /\ n + 1 \in 0 .. N /\ n + 1 # 0 /\ (n + 1) - 1 = n
        BY <1>1
      <3>2. ch[n + 1] = Round(ch[(n + 1) - 1], data)
        BY <2>1, <3>1
      <3>3. f[n + 1] = Round(f[(n + 1) - 1], data)
        BY <1>5, <3>1
      <3> QED BY <2>2, <3>1, <3>2, <3>3
    <2>3. DOMAIN ch = 0 .. N /\ ch = [n \in DOMAIN ch |-> ch[n]]
      BY <1>7
    <2>4. ch[0] = f[0]
      BY <1>1, <1>5, <2>1
    <2>5. IsOn(ch, N) /\ IsOn(f, N)
      BY <1>5, <2>3 DEF IsOn
    <2>6. GoAlike(ch, f, N)
      BY <2>2 DEF GoAlike
    <2>7. N \in Nat
      BY <1>1
    <2> HIDE DEF N
    <2> QED BY <2>4, <2>5, <2>6, <2>7, SameRun
  <1> QED BY <1>5, <1>8, <1>9 DEF IsReadRun

-----------------------------------------------------------------------------
\* Outside of a sysex, and nothing waits for its event to be full.
Quiet(s) == s.inProgress = FALSE /\ s.word = <<>>
Unchanged(c, s) ==
    /\ s \in CallStates /\ s.filters = c.filters /\ s.lost = c.lost /\ s.shorts = c.shorts

\* What pm_read_bytes reads when nothing of it is taken
NothingTaken(c, data) ==
    \A k \in 1 .. Len(data) : data[k] # "STATUS" /\ (data[k] = "SYSEX" => "SYSEX" \in c.filters)

LEMMA SkipByteIs ==
    ASSUME NEW s \in CallStates, Quiet(s), NEW b \in Heard, b # "STATUS", b = "SYSEX" => b \in s.filters
    PROVE  /\ Quiet(SkipByte(s, b)) /\ Unchanged(s, SkipByte(s, b)) /\ SkipByte(s, b).i = s.i + 1
           /\ IF b = "SYSEX" THEN SkipByte(s, b).passed \in Beginnings ELSE SkipByte(s, b).passed = s.passed
  <1>1. PICK t : t = IF b \in Statuses \ {"EOX"} THEN pm_read_short(Noted(s, b), b) ELSE s
    OBVIOUS
  <1>2. /\ t \in CallStates /\ t.filters = s.filters /\ t.word = s.word /\ t.inProgress = s.inProgress
        /\ t.lost = s.lost /\ t.i = s.i /\ t.taking = s.taking /\ t.shorts = s.shorts
        /\ IF b = "SYSEX" THEN t.passed \in Beginnings ELSE t.passed = s.passed
    <2>1. PICK m : m = Noted(s, b)
      OBVIOUS
    <2>2. /\ m \in CallStates /\ m.filters = s.filters /\ m.word = s.word /\ m.inProgress = FALSE
          /\ m.lost = s.lost /\ m.i = s.i /\ m.taking = s.taking /\ m.shorts = s.shorts
          /\ IF b = "SYSEX" THEN m.passed \in Beginnings ELSE m.passed = s.passed
      BY <2>1, NotedIs DEF Quiet
    <2>3. SameWork(m, pm_read_short(m, b)) /\ pm_read_short(m, b).shorts = m.shorts
      BY <2>2, ShortIs
    <2>4. b = "SYSEX" => b \in Statuses \ {"EOX"}
      BY DEF Statuses
    <2>5. CASE b \in Statuses \ {"EOX"}
      <3>1. t = pm_read_short(m, b)
        BY <1>1, <2>1, <2>5
      <3> QED BY <2>2, <2>3, <3>1 DEF SameWork, Quiet
    <2>6. CASE b \notin Statuses \ {"EOX"}
      BY <1>1, <2>4, <2>6
    <2> QED BY <2>5, <2>6
  <1>3. PICK n \in Nat \ {0} : n = s.i + 1
    BY CallFields
  <1>4. PICK e \in BOOLEAN : e = (b = "EOX")
    OBVIOUS
  <1>5. PICK u : u = [t EXCEPT !.i = n, !.taking = e]
    OBVIOUS
  <1>6. /\ u \in CallStates /\ u.i = n /\ u.filters = t.filters /\ u.word = t.word /\ u.passed = t.passed
        /\ u.inProgress = t.inProgress /\ u.lost = t.lost /\ u.shorts = t.shorts
    BY <1>2, <1>5 DEF CallStates
  <1>7. SkipByte(s, b) = u
    BY <1>1, <1>2, <1>3, <1>4, <1>5 DEF SkipByte
  <1> QED BY <1>2, <1>3, <1>6, <1>7 DEF Quiet, Unchanged

\* Nothing of data passes but its SYSEX bytes, each in the place of the one before.
OnlyBeginnings(p, q, data) ==
    q = p \/ (q \in Beginnings /\ \E k \in 1 .. Len(data) : data[k] = "SYSEX")

\* No byte is taken outside of a sysex, or when sysex are filtered.
LEMMA ReadSkips ==
    ASSUME Call \in CallStates, Quiet(Call), NEW data \in Seq(Heard), NothingTaken(Call, data)
    PROVE  LET r == pm_read_bytes(data)
           IN  /\ Quiet(r) /\ Unchanged(Call, r) /\ (data # <<>> => r.i > 1)
               /\ OnlyBeginnings(Call.passed, r.passed, data)
  <1>1. PICK f : IsReadRun(f, data) /\ pm_read_bytes(data) = f[2 * Len(data)]
    BY ReadIs
  <1>2. PICK L \in Nat, N \in Nat : L = Len(data) /\ N = 2 * L
    BY LenProperties
  <1> DEFINE Skips(n) == /\ Quiet(f[n]) /\ Unchanged(Call, f[n]) /\ (n > 0 /\ L > 0 => f[n].i > 1)
                         /\ OnlyBeginnings(Call.passed, f[n].passed, data)
             G == {n \in 0 .. N : Skips(n)}
  <1>3. 0 \in G
    BY <1>1, <1>2 DEF IsReadRun, Unchanged, OnlyBeginnings
  <1>4. ASSUME NEW n \in 0 .. N - 1, n \in G PROVE n + 1 \in G
    <2>1. PICK s \in CallStates : s = f[n] /\ Quiet(s) /\ Unchanged(Call, s) /\ OnlyBeginnings(Call.passed, s.passed, data)
      BY <1>4 DEF Unchanged
    <2>2. PICK t : t = f[n + 1] /\ t = Round(s, data)
      <3>1. n + 1 \in 1 .. N /\ (n + 1) - 1 = n
        BY <1>2
      <3> QED BY <1>1, <1>2, <2>1, <3>1 DEF IsReadRun
    <2>3. PICK i \in Nat : i = s.i /\ i > 0
      BY CallFields
    <2> SUFFICES Quiet(t) /\ Unchanged(Call, t) /\ (L > 0 => t.i > 1) /\ OnlyBeginnings(Call.passed, t.passed, data)
      <3>1. n + 1 \in 0 .. N
        BY <1>2
      <3> QED BY <2>2, <3>1
    <2>4. CASE i > L
      <3>1. t = s
        BY <1>2, <2>2, <2>3, <2>4 DEF Round
      <3> QED BY <1>2, <2>1, <2>3, <2>4, <3>1
    <2>5. CASE i <= L /\ s.taking
      <3>1. t = s
        BY <2>1, <2>2, <2>5 DEF Round, Quiet
      <3>2. n > 0
        <4>1. ASSUME n = 0 PROVE FALSE
          <5>1. s = Call
            BY <1>1, <2>1, <4>1 DEF IsReadRun
          <5> QED BY <2>1, <2>5, <5>1 DEF Call, Quiet
        <4> QED BY <4>1
      <3>3. n > 0 /\ L > 0 => i > 1
        BY <1>4, <2>1, <2>3
      <3> QED BY <2>1, <2>3, <3>1, <3>2, <3>3
    <2>6. CASE i <= L /\ ~s.taking
      <3>1. PICK b \in Heard : b = data[i] /\ b # "STATUS" /\ (b = "SYSEX" => b \in s.filters)
        <4>1. i \in 1 .. Len(data)
          BY <1>2, <2>3, <2>6
        <4> QED BY <2>1, <4>1, ElementOfSeq DEF NothingTaken, Unchanged
      <3>2. t = SkipByte(s, b)
        BY <1>2, <2>2, <2>3, <2>6, <3>1 DEF Round
      <3>3. /\ Quiet(t) /\ Unchanged(s, t) /\ t.i = i + 1
            /\ IF b = "SYSEX" THEN t.passed \in Beginnings ELSE t.passed = s.passed
        BY <2>1, <2>3, <3>1, <3>2, SkipByteIs
      <3>4. Unchanged(Call, t)
        BY <2>1, <3>3 DEF Unchanged
      <3>5. OnlyBeginnings(Call.passed, t.passed, data)
        <4>1. i \in 1 .. Len(data)
          BY <1>2, <2>3, <2>6
        <4> QED BY <2>1, <3>1, <3>3, <4>1 DEF OnlyBeginnings
      <3> QED BY <2>3, <3>3, <3>4, <3>5
    <2> QED BY <1>2, <2>3, <2>4, <2>5, <2>6
  <1>5. N \in G
    <2>1. \A n \in 0 .. N - 1 : n \in G => n + 1 \in G
      BY <1>4
    <2>2. N \in Nat /\ N \in 0 .. N
      BY <1>2
    <2> HIDE DEF G
    <2>3. 0 .. N \subseteq G
      BY <1>3, <2>1, <2>2, Induct
    <2> QED BY <2>2, <2>3
  <1>6. data # <<>> => L > 0
    BY <1>2, EmptySeq
  <1> QED BY <1>1, <1>2, <1>5, <1>6

-----------------------------------------------------------------------------
\* What is kept of data, byte by byte, behind what was there
Grows(g, data, T) ==
    /\ g \in [0 .. Len(data) -> Seq(Heard)]
    /\ \A m \in 1 .. Len(data) : g[m] = IF data[m] \in T THEN Append(g[m - 1], data[m]) ELSE g[m - 1]

LEMMA AppendAfter ==
    ASSUME NEW u \in Seq(Heard), NEW v \in Seq(Heard), NEW x \in Heard
    PROVE  u \o Append(v, x) = Append(u \o v, x)
  <1>1. <<x>> \in Seq(Heard) /\ u \o v \in Seq(Heard)
    BY ConcatProperties
  <1>2. Append(v, x) = v \o <<x>> /\ Append(u \o v, x) = (u \o v) \o <<x>>
    BY <1>1, AppendIsConcat
  <1>3. (u \o v) \o <<x>> = u \o (v \o <<x>>)
    BY <1>1, ConcatAssociative
  <1> QED BY <1>2, <1>3

LEMMA GrowthIs ==
    ASSUME NEW w \in Seq(Heard), NEW data \in Seq(Heard), NEW T
    PROVE  \E g : Grows(g, data, T) /\ g[0] = w /\ g[Len(data)] = w \o Selected(data, T)
  <1>1. PICK f : /\ Picks(f, data, T) /\ Selected(data, T) = f[Len(data)]
                 /\ \A n \in 0 .. Len(data) : f[n] \in Seq(Heard)
    BY SelectedIs
  <1>2. PICK L \in Nat : L = Len(data)
    BY LenProperties
  <1>3. PICK g : g = [n \in 0 .. L |-> w \o f[n]]
    OBVIOUS
  <1>4. g \in [0 .. L -> Seq(Heard)]
    <2>1. \A n \in 0 .. L : w \o f[n] \in Seq(Heard)
      BY <1>1, <1>2, ConcatProperties
    <2> QED BY <1>3, <2>1
  <1>5. ASSUME NEW m \in 1 .. L
        PROVE  g[m] = IF data[m] \in T THEN Append(g[m - 1], data[m]) ELSE g[m - 1]
    <2>1. m - 1 \in 0 .. L /\ m \in 0 .. L /\ m \in 1 .. Len(data)
      BY <1>2
    <2>2. g[m] = w \o f[m] /\ g[m - 1] = w \o f[m - 1] /\ f[m - 1] \in Seq(Heard) /\ data[m] \in Heard
      BY <1>1, <1>2, <1>3, <2>1, ElementOfSeq
    <2>3. f[m] = IF data[m] \in T THEN Append(f[m - 1], data[m]) ELSE f[m - 1]
      BY <1>1, <2>1 DEF Picks
    <2>4. w \o Append(f[m - 1], data[m]) = Append(w \o f[m - 1], data[m])
      BY <2>2, AppendAfter
    <2> QED BY <2>2, <2>3, <2>4
  <1>6. g[0] = w
    <2>1. f[0] = <<>> /\ 0 \in 0 .. L
      BY <1>1, <1>2 DEF Picks
    <2> QED BY <1>3, <2>1, ConcatEmptySeq
  <1>7. g[L] = w \o f[L]
    BY <1>2, <1>3
  <1> QED BY <1>1, <1>2, <1>4, <1>5, <1>6, <1>7 DEF Grows

LEMMA GrowthOfNothing ==
    ASSUME NEW data \in Seq(Heard), NEW T
    PROVE  \E g : Grows(g, data, T) /\ g[0] = <<>> /\ g[Len(data)] = Selected(data, T)
  <1>1. PICK w \in Seq(Heard) : w = <<>>
    BY EmptySeq
  <1>2. \E g : Grows(g, data, T) /\ g[0] = w /\ g[Len(data)] = w \o Selected(data, T)
    BY GrowthIs
  <1>3. w \o Selected(data, T) = Selected(data, T)
    BY <1>1, SelectedType, ConcatEmptySeq
  <1> QED BY <1>1, <1>2, <1>3

\* What was kept comes first in all that is kept.
LEMMA GrowsPrefix ==
    ASSUME NEW data \in Seq(Heard), NEW T, NEW g, Grows(g, data, T), NEW n \in 0 .. Len(data)
    PROVE  IsPrefixOf(g[n], g[Len(data)])
  <1>1. PICK L \in Nat : L = Len(data) /\ n \in 0 .. L
    BY LenProperties
  <1>2. PICK d \in Nat : n + d = L
    <2>1. L - n \in Nat /\ n + (L - n) = L
      BY <1>1
    <2> QED BY <2>1
  <1>3. g \in [0 .. L -> Seq(Heard)]
    BY <1>1 DEF Grows
  <1> DEFINE G == {k \in 0 .. d : IsPrefixOf(g[n], g[n + k])}
  <1>4. 0 \in G
    <2>1. n + 0 = n /\ Len(g[n]) \in Nat
      BY <1>1, <1>3, LenProperties
    <2> QED BY <2>1 DEF IsPrefixOf
  <1>5. ASSUME NEW k \in 0 .. d - 1, k \in G PROVE k + 1 \in G
    <2>1. n + k \in 0 .. L /\ n + k + 1 \in 1 .. L /\ n + (k + 1) = n + k + 1 /\ (n + k + 1) - 1 = n + k
      BY <1>1, <1>2
    <2>2. PICK u \in Seq(Heard), v \in Seq(Heard), t \in Seq(Heard) : u = g[n] /\ v = g[n + k] /\ t = g[n + k + 1]
      BY <1>1, <1>3, <2>1, SMTT(30)
    <2>3. PICK x \in Heard : x = data[n + k + 1]
      BY <1>1, <2>1, ElementOfSeq
    <2>4. t = v \/ t = Append(v, x)
      BY <1>1, <2>1, <2>2, <2>3 DEF Grows
    <2>5. PICK p \in Nat, q \in Nat : p = Len(u) /\ q = Len(v) /\ p <= q /\ \A i \in 1 .. p : u[i] = v[i]
      <3>1. IsPrefixOf(u, v)
        BY <1>5, <2>2
      <3> QED BY <3>1, LenProperties DEF IsPrefixOf
    <2>6. Len(Append(v, x)) = q + 1 /\ \A i \in 1 .. q : Append(v, x)[i] = v[i]
      BY <2>5, AppendProperties
    <2>7. \A i \in 1 .. p : i \in 1 .. q
      BY <2>5
    <2>8. IsPrefixOf(u, t)
      <3>1. CASE t = v
        BY <2>5, <3>1 DEF IsPrefixOf
      <3>2. CASE t = Append(v, x)
        BY <2>5, <2>6, <2>7, <3>2 DEF IsPrefixOf
      <3> QED BY <2>4, <3>1, <3>2
    <2>9. k + 1 \in 0 .. d
      OBVIOUS
    <2> QED BY <2>1, <2>2, <2>8, <2>9
  <1>6. d \in G
    <2>1. \A k \in 0 .. d - 1 : k \in G => k + 1 \in G
      BY <1>5
    <2>2. d \in 0 .. d
      OBVIOUS
    <2> HIDE DEF G
    <2>3. 0 .. d \subseteq G
      BY <1>4, <2>1, Induct
    <2> QED BY <2>2, <2>3
  <1> QED BY <1>1, <1>2, <1>6

\* A sysex begins once.
BeginsOnce(w) == \A n \in 1 .. Len(w) : w[n] = "SYSEX" => n = 1

LEMMA GrowsOnce ==
    ASSUME NEW data \in Seq(Heard), NEW T, NEW g, Grows(g, data, T), BeginsOnce(g[0]),
           \A k \in 1 .. Len(data) : data[k] = "SYSEX" => k = 1 /\ g[0] = <<>>
    PROVE  \A n \in 0 .. Len(data) : BeginsOnce(g[n])
  <1>1. PICK L \in Nat : L = Len(data)
    BY LenProperties
  <1> DEFINE G == {n \in 0 .. L : BeginsOnce(g[n])}
  <1>2. 0 \in G
    OBVIOUS
  <1>3. ASSUME NEW n \in 0 .. L - 1, n \in G PROVE n + 1 \in G
    <2>1. n \in 0 .. L /\ n + 1 \in 1 .. L /\ (n + 1) - 1 = n /\ n + 1 \in 0 .. L
      BY <1>1
    <2>2. PICK v \in Seq(Heard), t \in Seq(Heard), x \in Heard : v = g[n] /\ t = g[n + 1] /\ x = data[n + 1]
      BY <1>1, <2>1, ElementOfSeq DEF Grows
    <2>3. t = v \/ t = Append(v, x)
      BY <1>1, <2>1, <2>2 DEF Grows
    <2>4. PICK q \in Nat : q = Len(v) /\ \A i \in 1 .. q : v[i] = "SYSEX" => i = 1
      BY <1>3, <2>2, LenProperties DEF BeginsOnce
    <2>5. CASE t = v
      BY <1>3, <2>1, <2>2, <2>5
    <2>6. CASE t = Append(v, x)
      <3>1. Len(t) = q + 1 /\ (\A i \in 1 .. q : t[i] = v[i]) /\ t[q + 1] = x
        BY <2>4, <2>6, AppendProperties
      <3>2. ASSUME NEW i \in 1 .. q + 1, t[i] = "SYSEX" PROVE i = 1
        <4>1. CASE i \in 1 .. q
          BY <2>4, <3>1, <3>2, <4>1
        <4>2. CASE i = q + 1
          <5>1. n + 1 = 1 /\ g[0] = <<>>
            BY <1>1, <2>1, <2>2, <3>1, <3>2, <4>2
          <5>2. n = 0 /\ v = <<>>
            BY <5>1, <2>2
          <5>3. q = 0
            BY <5>2, <2>4
          <5> QED BY <4>2, <5>3
        <4> QED BY <4>1, <4>2
      <3>3. BeginsOnce(t)
        BY <3>1, <3>2 DEF BeginsOnce
      <3> QED BY <2>1, <2>2, <3>3
    <2> QED BY <2>3, <2>5, <2>6
  <1>4. \A n \in 0 .. L - 1 : n \in G => n + 1 \in G
    BY <1>3
  <1>5. 0 .. L \subseteq G
    <2> HIDE DEF G
    <2> QED BY <1>2, <1>4, Induct
  <1> QED BY <1>1, <1>5

\* WORD bytes in a row that are all kept
LEMMA GrowsWord ==
    ASSUME NEW data \in Seq(Heard), NEW T, NEW g, Grows(g, data, T), NEW m \in Nat, m + WORD <= Len(data),
           \A k \in 1 .. WORD : data[m + k] \in T
    PROVE  g[m + WORD] = g[m] \o Bytewise(data, m)
  <1>1. PICK L \in Nat, w \in Nat : L = Len(data) /\ w = WORD /\ w > 0 /\ m + w <= L
    BY LenProperties, WordIs
  <1>2. g \in [0 .. L -> Seq(Heard)]
    BY <1>1 DEF Grows
  <1> DEFINE G == {k \in 0 .. w : g[m + k] = g[m] \o SubSeq(data, m + 1, m + k)}
  <1>3. 0 \in G
    <2>1. SubSeq(data, m + 1, m + 0) = <<>>
      BY SubSeqEmpty
    <2>2. m \in 0 .. L /\ m + 0 = m
      BY <1>1
    <2> QED BY <1>2, <2>1, <2>2, ConcatEmptySeq
  <1>4. ASSUME NEW k \in 0 .. w - 1, k \in G PROVE k + 1 \in G
    <2>1. /\ m \in 0 .. L /\ m + k \in 0 .. L /\ m + k + 1 \in 1 .. L /\ m + (k + 1) = m + k + 1
          /\ (m + k + 1) - 1 = m + k /\ k + 1 \in 1 .. w
      BY <1>1
    <2>2. PICK x \in Heard : x = data[m + k + 1]
      BY <1>1, <2>1, ElementOfSeq
    <2>3. x \in T
      BY <1>1, <2>1, <2>2
    <2>4. g[m + k + 1] = Append(g[m + k], x)
      BY <1>1, <2>1, <2>2, <2>3 DEF Grows
    <2>5. /\ SubSeq(data, m + 1, m + k) \in Seq(Heard)
          /\ SubSeq(data, m + 1, m + k + 1) = Append(SubSeq(data, m + 1, m + k), x)
      <3>1. \A i \in m + 1 .. m + k + 1 : i \in 1 .. L
        BY <1>1
      <3>2. \A i \in m + 1 .. m + k + 1 : data[i] \in Heard
        BY <1>1, <3>1, ElementOfSeq
      <3>3. PICK a, b : a = SubSeq(data, m + 1, m + k) /\ b = SubSeq(data, m + 1, m + k + 1)
        OBVIOUS
      <3>4. a \in Seq(Heard) /\ Len(a) = k /\ \A i \in 1 .. k : a[i] = data[m + i]
        BY <3>2, <3>3, SubSeqProperties, SMTT(30)
      <3>5. b \in Seq(Heard) /\ Len(b) = k + 1 /\ \A i \in 1 .. k + 1 : b[i] = data[m + i]
        BY <3>2, <3>3, SubSeqProperties, SMTT(30)
      <3>6. /\ Append(a, x) \in Seq(Heard) /\ Len(Append(a, x)) = k + 1
            /\ (\A i \in 1 .. k : Append(a, x)[i] = a[i]) /\ Append(a, x)[k + 1] = x
        BY <3>4, AppendProperties
      <3>7. \A i \in 1 .. k + 1 : i \in 1 .. k \/ i = k + 1
        OBVIOUS
      <3>8. \A i \in 1 .. k + 1 : b[i] = Append(a, x)[i]
        <4> SUFFICES ASSUME NEW i \in 1 .. k + 1 PROVE b[i] = Append(a, x)[i]
          OBVIOUS
        <4>1. CASE i \in 1 .. k
          <5>1. b[i] = data[m + i] /\ a[i] = data[m + i] /\ Append(a, x)[i] = a[i]
            BY <3>4, <3>5, <3>6, <4>1
          <5> QED BY <5>1
        <4>2. CASE i = k + 1
          <5>1. b[k + 1] = data[m + (k + 1)]
            BY <3>5, <4>2
          <5> QED BY <2>1, <2>2, <3>6, <4>2, <5>1
        <4> QED BY <3>7, <4>1, <4>2
      <3>9. b = Append(a, x)
        BY <3>5, <3>6, <3>8, SeqEqual
      <3> QED BY <3>3, <3>4, <3>9
    <2>6. g[m] \o Append(SubSeq(data, m + 1, m + k), x) = Append(g[m] \o SubSeq(data, m + 1, m + k), x)
      BY <1>2, <2>1, <2>5, AppendAfter
    <2>7. k + 1 \in 0 .. w
      BY <2>1
    <2> QED BY <1>4, <2>1, <2>4, <2>5, <2>6, <2>7
  <1>5. w \in G
    <2>1. \A k \in 0 .. w - 1 : k \in G => k + 1 \in G
      BY <1>4
    <2>2. w \in 0 .. w
      OBVIOUS
    <2> HIDE DEF G
    <2>3. 0 .. w \subseteq G
      BY <1>3, <2>1, Induct
    <2> QED BY <2>2, <2>3
  <1>6. m + 1 + WORD - 1 = m + w
    BY <1>1
  <1> QED BY <1>1, <1>5, <1>6 DEF Bytewise

-----------------------------------------------------------------------------
\* A step of the taking: w has now passed or waits, or the rest is lost.
Taken(s, t, w) ==
    /\ t \in CallStates /\ t.filters = s.filters /\ t.shorts = s.shorts /\ t.i = s.i /\ t.taking = s.taking
    /\ \/ t.passed \o t.word = w /\ t.inProgress = s.inProgress /\ t.lost = s.lost
       \/ t.passed = s.passed /\ t.word = <<>> /\ t.inProgress = FALSE /\ t.lost = TRUE

\* What waits begins with a SYSEX only if nothing has passed.
LEMMA WordBegins ==
    ASSUME NEW u \in Seq(Heard), NEW v \in Seq(Heard), v # <<>>, BeginsOnce(u \o v)
    PROVE  v[1] = "SYSEX" => u = <<>>
  <1>1. PICK m \in Nat, n \in Nat : m = Len(u) /\ n = Len(v)
    BY LenProperties
  <1>2. n > 0
    BY <1>1, EmptySeq
  <1>3. Len(u \o v) = m + n /\ \A k \in 1 .. n : (u \o v)[m + k] = v[k]
    BY <1>1, ConcatProperties
  <1>4. (u \o v)[m + 1] = v[1] /\ m + 1 \in 1 .. m + n
    BY <1>2, <1>3
  <1>5. v[1] = "SYSEX" => m + 1 = 1
    BY <1>3, <1>4 DEF BeginsOnce
  <1>6. m = 0 => u = <<>>
    BY <1>1, EmptySeq
  <1> QED BY <1>5, <1>6

LEMMA FlushIs ==
    ASSUME NEW s \in CallStates, BeginsOnce(s.passed \o s.word)
    PROVE  Taken(s, pm_flush_sysex(s), s.passed \o s.word) /\ pm_flush_sysex(s).word = <<>>
  <1>1. s.word \in Seq(Heard) /\ s.passed \in Seq(Heard)
    BY CallFields
  <1>2. CASE s.word = <<>>
    BY <1>2 DEF pm_flush_sysex, Taken
  <1>3. CASE s.word # <<>>
    <2>1. s.word[1] = "SYSEX" => s.passed = <<>>
      BY <1>1, <1>3, WordBegins
    <2>2. PICK t : t = EnqueueSysex(s, s.word)
      OBVIOUS
    <2>3. Passes(s, s.word, t)
      BY <1>1, <2>1, <2>2, SysexPasses
    <2>4. PICK u : u = [t EXCEPT !.word = <<>>]
      OBVIOUS
    <2>5. t \in CallStates /\ <<>> \in Seq(Heard)
      BY <2>3, EmptySeq DEF Passes
    <2>6. u \in CallStates
      BY <2>4, <2>5 DEF CallStates
    <2>7. /\ u.word = <<>> /\ u.passed = t.passed /\ u.filters = t.filters /\ u.shorts = t.shorts
          /\ u.i = t.i /\ u.taking = t.taking /\ u.inProgress = t.inProgress /\ u.lost = t.lost
      BY <2>4, <2>5 DEF CallStates
    <2>8. t.passed \in Seq(Heard)
      BY <2>5, CallFields
    <2>9. u.passed \o u.word = t.passed
      BY <2>7, <2>8, ConcatEmptySeq
    <2>10. pm_flush_sysex(s) = u
      BY <1>3, <2>2, <2>4 DEF pm_flush_sysex
    <2> QED BY <2>3, <2>6, <2>7, <2>9, <2>10 DEF Taken, Passes
  <1> QED BY <1>2, <1>3

LEMMA AddByteIs ==
    ASSUME NEW s \in CallStates, NEW b \in Heard, BeginsOnce(Append(s.passed \o s.word, b))
    PROVE  Taken(s, AddByte(s, b), Append(s.passed \o s.word, b))
  <1>1. s.word \in Seq(Heard) /\ s.passed \in Seq(Heard)
    BY CallFields
  <1>2. PICK t : t = With(s, b)
    OBVIOUS
  <1>3. /\ t \in CallStates /\ t.word = Append(s.word, b) /\ t.filters = s.filters /\ t.passed = s.passed
        /\ t.inProgress = s.inProgress /\ t.lost = s.lost /\ t.i = s.i /\ t.taking = s.taking /\ t.shorts = s.shorts
    BY <1>2, WithIs
  <1>4. t.passed \o t.word = Append(s.passed \o s.word, b)
    BY <1>1, <1>3, AppendAfter
  <1>5. Taken(t, pm_flush_sysex(t), Append(s.passed \o s.word, b))
    BY <1>3, <1>4, FlushIs
  <1>6. AddByte(s, b) = IF Len(t.word) = WORD THEN pm_flush_sysex(t) ELSE t
    BY <1>2 DEF AddByte, With
  <1>7. CASE AddByte(s, b) = t
    BY <1>3, <1>4, <1>7 DEF Taken
  <1>8. CASE AddByte(s, b) = pm_flush_sysex(t)
    BY <1>3, <1>5, <1>8 DEF Taken
  <1> QED BY <1>6, <1>7, <1>8

\* Where pm_read_bytes is with data: on the way,
OnWay(s, g, data, n) ==
    /\ s \in CallStates /\ s.inProgress = TRUE /\ s.lost = FALSE /\ s.taking = TRUE
    /\ s.i <= Len(data) + 1 /\ (s.i > n \/ s.i = Len(data) + 1)
    /\ s.passed \o s.word = g[s.i - 1]
    /\ \A k \in 1 .. s.i - 1 : data[k] # "EOX"
\* at the end of the sysex,
Ended(s, g, data) ==
    /\ s \in CallStates /\ s.inProgress = FALSE /\ s.lost = FALSE /\ s.taking = TRUE
    /\ s.word = <<>> /\ s.passed = g[Len(data)]
    /\ s.i = Len(data) + 1 /\ data[Len(data)] = "EOX"
\* or an event was refused.
Refused(s, g, data) ==
    /\ s \in CallStates /\ s.inProgress = FALSE /\ s.lost = TRUE /\ s.taking = TRUE
    /\ s.word = <<>> /\ s.i > 1 /\ IsPrefixOf(s.passed, g[Len(data)])
Like(c, s) == s.filters = c.filters /\ s.shorts = c.shorts

KeptBy(s) == DataBytes \cup (Statuses \ (s.filters \cap {"REALTIME"}))

\* What g keeps of data
Hearing(g, data, T) ==
    /\ Grows(g, data, T) /\ \A n \in 0 .. Len(data) : BeginsOnce(g[n])
    /\ \A k \in 1 .. Len(data) : data[k] = "EOX" => k = Len(data)

LEMMA PrefixOfPrefix ==
    ASSUME NEW S, NEW u \in Seq(S), NEW v \in Seq(S), NEW t \in Seq(S), IsPrefixOf(u \o v, t)
    PROVE  IsPrefixOf(u, t)
  <1>1. PICK l \in Nat, m \in Nat, n \in Nat : l = Len(u) /\ m = Len(v) /\ n = Len(t)
    BY LenProperties
  <1>2. Len(u \o v) = l + m /\ \A k \in 1 .. l + m : (u \o v)[k] = IF k <= l THEN u[k] ELSE v[k - l]
    BY <1>1, ConcatProperties
  <1>3. \A k \in 1 .. l : k \in 1 .. l + m /\ k <= l
    BY <1>1
  <1>4. l + m <= n /\ \A k \in 1 .. l + m : (u \o v)[k] = t[k]
    BY <1>1, <1>2 DEF IsPrefixOf
  <1>5. l <= n /\ \A k \in 1 .. l : u[k] = t[k]
    <2>1. l <= n
      BY <1>4
    <2>2. ASSUME NEW k \in 1 .. l PROVE u[k] = t[k]
      BY <1>2, <1>3, <1>4
    <2> QED BY <2>1, <2>2
  <1> QED BY <1>1, <1>5 DEF IsPrefixOf

\* What has passed comes first in all of it.
LEMMA PassedFirst ==
    ASSUME NEW s \in CallStates, NEW data \in Seq(Heard), NEW g, NEW T, Grows(g, data, T),
           NEW n \in 0 .. Len(data), s.passed \o s.word = g[n]
    PROVE  IsPrefixOf(s.passed, g[Len(data)])
  <1>1. PICK L \in Nat : L = Len(data) /\ n \in 0 .. L
    BY LenProperties
  <1>2. IsPrefixOf(g[n], g[L])
    BY <1>1, GrowsPrefix
  <1>3. s.passed \in Seq(Heard) /\ s.word \in Seq(Heard) /\ g[L] \in Seq(Heard)
    <2>1. L \in 0 .. L
      BY <1>1
    <2> QED BY <1>1, <2>1, CallFields DEF Grows
  <1>4. IsPrefixOf(s.passed \o s.word, g[L])
    BY <1>2
  <1>5. IsPrefixOf(s.passed, g[L])
    BY <1>3, <1>4, PrefixOfPrefix
  <1> QED BY <1>1, <1>5

\* A step takes the bytes up to t.i - 1, which are what g has there.
LEMMA Onward ==
    ASSUME NEW s \in CallStates, NEW data \in Seq(Heard), NEW g, NEW n \in Nat,
           Hearing(g, data, KeptBy(s)), OnWay(s, g, data, n), s.i <= Len(data),
           NEW u, NEW d \in Nat, d > 0, s.i + d <= Len(data) + 1, Taken(s, u, g[s.i - 1 + d]),
           NEW t, t = [u EXCEPT !.i = u.i + d],
           \A k \in s.i .. s.i + d - 1 : data[k] # "EOX"
    PROVE  (OnWay(t, g, data, n + 1) \/ Refused(t, g, data)) /\ Like(s, t)
  <1>0. s.i \in Nat /\ s.i > 0 /\ Len(data) \in Nat
    BY CallFields, LenProperties
  <1>1. PICK i \in Nat, L \in Nat : i = s.i /\ i > 0 /\ L = Len(data) /\ i <= L /\ i + d <= L + 1
    BY <1>0
  <1>2. u \in CallStates /\ u.i = i
    BY <1>1 DEF Taken
  <1>3. /\ t \in CallStates /\ t.i = i + d /\ t.word = u.word /\ t.passed = u.passed
        /\ t.filters = u.filters /\ t.inProgress = u.inProgress /\ t.lost = u.lost
        /\ t.taking = u.taking /\ t.shorts = u.shorts
    BY <1>2, MovedType
  <1>4. /\ s.inProgress = TRUE /\ s.lost = FALSE /\ s.taking = TRUE /\ (i > n \/ i = L + 1)
        /\ s.passed \o s.word = g[i - 1] /\ \A k \in 1 .. i - 1 : data[k] # "EOX"
    BY <1>1 DEF OnWay
  <1>5. Like(s, t) /\ t.taking = TRUE
    BY <1>3, <1>4 DEF Like, Taken
  <1>6. CASE u.passed \o u.word = g[i - 1 + d] /\ u.inProgress = s.inProgress /\ u.lost = s.lost
    <2>1. t.i - 1 = i - 1 + d
      BY <1>1, <1>3
    <2>2. \A k \in 1 .. t.i - 1 : data[k] # "EOX"
      <3>1. \A k \in 1 .. i - 1 + d : k \in 1 .. i - 1 \/ k \in i .. i + d - 1
        BY <1>1
      <3> QED BY <1>1, <1>4, <2>1, <3>1
    <2>3. t.i <= Len(data) + 1 /\ t.i > n + 1
      BY <1>1, <1>3, <1>4
    <2> QED BY <1>3, <1>4, <1>5, <1>6, <2>1, <2>2, <2>3 DEF OnWay
  <1>7. CASE u.passed = s.passed /\ u.word = <<>> /\ u.inProgress = FALSE /\ u.lost = TRUE
    <2>1. t.i > 1
      BY <1>1, <1>3
    <2>2. i - 1 \in 0 .. Len(data) /\ s.passed \o s.word = g[i - 1]
      BY <1>1, <1>4
    <2>3. IsPrefixOf(s.passed, g[Len(data)])
      BY <2>2, PassedFirst DEF Hearing
    <2> QED BY <1>3, <1>5, <1>7, <2>1, <2>3 DEF Refused
  <1> QED BY <1>1, <1>6, <1>7 DEF Taken

LEMMA TakeIs ==
    ASSUME NEW s \in CallStates, NEW data \in Seq(Heard), NEW g, NEW n \in Nat,
           Hearing(g, data, KeptBy(s)), OnWay(s, g, data, n), s.i <= Len(data)
    PROVE  LET t == TakeBytes(s, data)
           IN  (OnWay(t, g, data, n + 1) \/ Ended(t, g, data) \/ Refused(t, g, data)) /\ Like(s, t)
  <1>1. PICK m \in Nat, L \in Nat, w \in Nat : m + 1 = s.i /\ L = Len(data) /\ m + 1 <= L /\ w = WORD /\ w > 0
    <2>1. PICK i \in Nat, L \in Nat, w \in Nat : i = s.i /\ i > 0 /\ L = Len(data) /\ i <= L /\ w = WORD /\ w > 0
      BY CallFields, LenProperties, WordIs
    <2>2. i - 1 \in Nat /\ (i - 1) + 1 = i
      BY <2>1
    <2> QED BY <2>1, <2>2
  <1>2. m + 1 \in 1 .. L /\ m + 1 \in 1 .. Len(data) /\ m \in 0 .. L /\ (m + 1) - 1 = m /\ m + 1 \in 0 .. L
    BY <1>1
  <1>3. PICK b \in Heard : b = data[m + 1]
    BY <1>2, ElementOfSeq
  <1>4. /\ s.inProgress = TRUE /\ s.lost = FALSE /\ s.taking = TRUE
        /\ s.passed \o s.word = g[m] /\ s.passed \in Seq(Heard) /\ s.word \in Seq(Heard)
    BY <1>1, <1>2, CallFields DEF OnWay
  <1>5. Grows(g, data, KeptBy(s)) /\ BeginsOnce(g[m + 1]) /\ (b = "EOX" => m + 1 = L)
    BY <1>1, <1>2, <1>3 DEF Hearing
  <1>6. g[m + 1] = IF b \in KeptBy(s) THEN Append(g[m], b) ELSE g[m]
    BY <1>2, <1>3, <1>5 DEF Grows
  <1> DEFINE Goal(t) == (OnWay(t, g, data, n + 1) \/ Ended(t, g, data) \/ Refused(t, g, data)) /\ Like(s, t)
  <1> HIDE DEF Goal
  <1>7. ASSUME b # "EOX", NEW u, Taken(s, u, g[m + 1]) PROVE Goal([u EXCEPT !.i = @ + 1])
    <2>1. /\ 1 \in Nat /\ 1 > 0 /\ s.i + 1 <= Len(data) + 1 /\ s.i - 1 + 1 = m + 1
          /\ \A k \in s.i .. s.i + 1 - 1 : k = m + 1
      BY <1>1
    <2>2. \A k \in s.i .. s.i + 1 - 1 : data[k] # "EOX"
      BY <1>3, <1>7, <2>1
    <2>3. PICK t : t = [u EXCEPT !.i = u.i + 1]
      OBVIOUS
    <2>4. (OnWay(t, g, data, n + 1) \/ Refused(t, g, data)) /\ Like(s, t)
      BY <1>7, <2>1, <2>2, <2>3, Onward
    <2> QED BY <2>3, <2>4 DEF Goal
  <1>8. ASSUME s.word = <<>>, m + w <= L, \A k \in 1 .. w : data[m + k] \notin Statuses
        PROVE  Goal([EnqueueSysex(s, Bytewise(data, m)) EXCEPT !.i = @ + WORD])
    <2>1. PICK bytes \in Seq(Heard) : /\ bytes = Bytewise(data, m) /\ Len(bytes) = w
                                      /\ \A k \in 1 .. w : bytes[k] = data[m + k]
      BY <1>1, <1>8, BytewiseIs
    <2>2. \A k \in 1 .. w : m + k \in 1 .. L /\ data[m + k] \in Heard /\ data[m + k] # "EOX" /\ data[m + k] # "SYSEX"
      <3>1. \A k \in 1 .. w : m + k \in 1 .. L
        BY <1>8
      <3> QED BY <1>1, <1>8, <3>1, ElementOfSeq DEF Statuses
    <2>3. \A k \in 1 .. w : data[m + k] \in KeptBy(s)
      BY <1>8, <2>2 DEF KeptBy, Heard
    <2>4. g[m + w] = g[m] \o bytes
      <3>1. m + WORD <= Len(data) /\ \A k \in 1 .. WORD : data[m + k] \in KeptBy(s)
        BY <1>1, <1>8, <2>3
      <3>2. Grows(g, data, KeptBy(s)) /\ m \in Nat
        BY <1>5
      <3>3. g[m + WORD] = g[m] \o Bytewise(data, m)
        BY <3>1, <3>2, GrowsWord
      <3> QED BY <1>1, <2>1, <3>3
    <2>5. g[m] = s.passed
      BY <1>4, <1>8, ConcatEmptySeq
    <2>6. bytes[1] # "SYSEX"
      <3>1. 1 \in 1 .. w
        BY <1>1
      <3> QED BY <2>1, <2>2, <3>1
    <2>7. PICK u : u = EnqueueSysex(s, bytes)
      OBVIOUS
    <2>8. Passes(s, bytes, u)
      BY <2>6, <2>7, SysexPasses
    <2>9. Taken(s, u, g[m + w])
      <3>1. u.passed \in Seq(Heard) /\ u.word = <<>>
        BY <1>8, <2>8, CallFields DEF Passes
      <3>2. u.passed \o u.word = u.passed
        BY <3>1, ConcatEmptySeq
      <3> QED BY <1>8, <2>4, <2>5, <2>8, <3>1, <3>2 DEF Passes, Taken
    <2>10. s.i - 1 + w = m + w /\ s.i + w <= Len(data) + 1
      <3>1. s.i = m + 1 /\ Len(data) = L
        BY <1>1
      <3>2. m + 1 - 1 + w = m + w /\ m + 1 + w <= L + 1
        BY <1>8
      <3> QED BY <3>1, <3>2
    <2>11. \A k \in s.i .. s.i + w - 1 : data[k] # "EOX"
      <3>1. ASSUME NEW k \in s.i .. s.i + w - 1 PROVE data[k] # "EOX"
        <4>1. k - m \in 1 .. w /\ m + (k - m) = k
          BY <1>1
        <4> QED BY <2>2, <4>1
      <3> QED BY <3>1
    <2>12. PICK t : t = [u EXCEPT !.i = u.i + w]
      OBVIOUS
    <2>13. (OnWay(t, g, data, n + 1) \/ Refused(t, g, data)) /\ Like(s, t)
      <3>1. w \in Nat /\ w > 0 /\ s.i <= Len(data)
        BY <1>1
      <3>2. Taken(s, u, g[s.i - 1 + w])
        BY <2>9, <2>10
      <3> QED BY <2>10, <2>11, <2>12, <3>1, <3>2, Onward
    <2> QED BY <1>1, <2>1, <2>7, <2>12, <2>13 DEF Goal
  <1>9. ASSUME b = "REALTIME", b \in s.filters PROVE Goal([s EXCEPT !.i = @ + 1])
    <2>1. b \notin KeptBy(s)
      BY <1>9 DEF KeptBy, DataBytes
    <2>2. Taken(s, s, g[m + 1])
      BY <1>4, <1>6, <2>1 DEF Taken
    <2> QED BY <1>7, <1>9, <2>2
  <1>10. ASSUME b # "EOX", ~(b = "REALTIME" /\ b \in s.filters) PROVE Goal([AddByte(s, b) EXCEPT !.i = @ + 1])
    <2>1. b \in KeptBy(s)
      BY <1>10 DEF KeptBy, Heard
    <2>2. g[m + 1] = Append(s.passed \o s.word, b)
      BY <1>4, <1>6, <2>1
    <2>3. Taken(s, AddByte(s, b), g[m + 1])
      BY <1>5, <2>2, AddByteIs
    <2> QED BY <1>7, <1>10, <2>3
  <1>11. ASSUME b = "EOX"
         PROVE  Goal([pm_flush_sysex([s EXCEPT !.word = Append(@, b), !.inProgress = FALSE]) EXCEPT !.i = @ + 1])
    <2>1. b \in KeptBy(s) /\ m + 1 = L
      BY <1>5, <1>11 DEF KeptBy, Statuses
    <2>2. PICK v : v = [With(s, b) EXCEPT !.inProgress = FALSE]
      OBVIOUS
    <2>3. [s EXCEPT !.word = Append(@, b), !.inProgress = FALSE] = v
      BY <2>2 DEF With, CallStates
    <2>4. PICK y \in CallStates : y = With(s, b)
      BY WithIs
    <2>5. /\ v \in CallStates /\ v.word = y.word /\ v.passed = y.passed /\ v.filters = y.filters
          /\ v.shorts = y.shorts /\ v.i = y.i /\ v.taking = y.taking /\ v.inProgress = FALSE /\ v.lost = y.lost
      BY <2>2, <2>4 DEF CallStates
    <2>6. /\ v.word = Append(s.word, b) /\ v.passed = s.passed /\ v.filters = s.filters
          /\ v.shorts = s.shorts /\ v.i = s.i /\ v.taking = s.taking /\ v.lost = s.lost
      BY <2>4, <2>5, WithIs
    <2>7. v.passed \o v.word = g[L]
      <3>1. s.passed \o Append(s.word, b) = Append(s.passed \o s.word, b)
        BY <1>4, AppendAfter
      <3>2. g[L] = Append(g[m], b)
        BY <1>6, <2>1
      <3> QED BY <1>4, <2>6, <3>1, <3>2
    <2>8. PICK u : u = pm_flush_sysex(v)
      OBVIOUS
    <2>9. Taken(v, u, g[L]) /\ u.word = <<>>
      BY <1>5, <2>1, <2>5, <2>7, <2>8, FlushIs
    <2>10. PICK t : t = [u EXCEPT !.i = u.i + 1]
      OBVIOUS
    <2>11. /\ t \in CallStates /\ t.i = u.i + 1 /\ t.word = u.word /\ t.passed = u.passed
           /\ t.filters = u.filters /\ t.inProgress = u.inProgress /\ t.lost = u.lost
           /\ t.taking = u.taking /\ t.shorts = u.shorts
      <3>1. u \in CallStates /\ 1 \in Nat
        BY <2>9 DEF Taken
      <3> QED BY <2>10, <3>1, MovedType
    <2>12. t.i = L + 1 /\ t.i > 1 /\ Like(s, t) /\ t.taking = TRUE /\ t.inProgress = FALSE
      BY <1>1, <1>4, <2>1, <2>5, <2>6, <2>9, <2>11 DEF Taken, Like
    <2>13. CASE u.passed \o u.word = g[L] /\ u.lost = FALSE
      <3>1. u.passed = g[L]
        <4>1. u.passed \in Seq(Heard)
          BY <2>9, CallFields DEF Taken
        <4> QED BY <2>9, <2>13, <4>1, ConcatEmptySeq
      <3>2. Ended(t, g, data)
        BY <1>1, <1>3, <1>11, <2>1, <2>9, <2>11, <2>12, <2>13, <3>1 DEF Ended
      <3> QED BY <2>3, <2>8, <2>10, <2>12, <3>2 DEF Goal
    <2>14. CASE u.passed = v.passed /\ u.lost = TRUE
      <3>1. IsPrefixOf(s.passed, g[Len(data)])
        BY <1>1, <1>2, <1>4, <1>5, PassedFirst
      <3>2. Refused(t, g, data)
        BY <2>6, <2>9, <2>11, <2>12, <2>14, <3>1 DEF Refused
      <3> QED BY <2>3, <2>8, <2>10, <2>12, <3>2 DEF Goal
    <2> QED BY <1>4, <2>6, <2>9, <2>13, <2>14 DEF Taken
  <1>12. Goal(TakeBytes(s, data))
    <2>1. s.i + WORD - 1 = m + w /\ SubSeq(data, s.i, s.i + WORD - 1) = Bytewise(data, m) /\ data[s.i] = b
      <3>1. m + 1 + w - 1 = m + w
        BY <1>1
      <3> QED BY <1>1, <1>3, <3>1 DEF Bytewise
    <2>2. CASE s.word = <<>> /\ s.i + WORD - 1 <= Len(data) /\ \A k \in 1 .. WORD : Bytewise(data, m)[k] \notin Statuses
      <3>1. TakeBytes(s, data) = [EnqueueSysex(s, Bytewise(data, m)) EXCEPT !.i = @ + WORD]
        BY <2>1, <2>2 DEF TakeBytes
      <3>2. m + w <= L /\ \A k \in 1 .. w : data[m + k] \notin Statuses
        <4>1. m + w <= L /\ m + WORD <= Len(data)
          BY <1>1, <2>1, <2>2
        <4>2. \A k \in 1 .. WORD : Bytewise(data, m)[k] = data[m + k]
          BY <1>1, <4>1, BytewiseIs
        <4> QED BY <1>1, <2>2, <4>1, <4>2
      <3> QED BY <1>8, <2>2, <3>1, <3>2
    <2>3. CASE ~(s.word = <<>> /\ s.i + WORD - 1 <= Len(data) /\ \A k \in 1 .. WORD : Bytewise(data, m)[k] \notin Statuses)
      <3>1. TakeBytes(s, data) =
                IF b = "REALTIME" /\ b \in s.filters THEN [s EXCEPT !.i = @ + 1]
                ELSE IF b = "EOX"
                THEN [pm_flush_sysex([s EXCEPT !.word = Append(@, b), !.inProgress = FALSE]) EXCEPT !.i = @ + 1]
                ELSE [AddByte(s, b) EXCEPT !.i = @ + 1]
        BY <2>1, <2>3, Zenon DEF TakeBytes
      <3> QED BY <1>9, <1>10, <1>11, <3>1
    <2> QED BY <2>2, <2>3
  <1> QED BY <1>12 DEF Goal

\* A call that has begun to take takes all, unless an event is refused.
LEMMA TakeLoop ==
    ASSUME NEW data \in Seq(Heard), NEW f, IsReadRun(f, data), NEW m \in {0, 1}, NEW g,
           Hearing(g, data, KeptBy(f[m])), OnWay(f[m], g, data, 0), data # <<>>
    PROVE  LET r == f[2 * Len(data)]
           IN  (OnWay(r, g, data, Len(data)) \/ Ended(r, g, data) \/ Refused(r, g, data)) /\ Like(f[m], r)
  <1>1. PICK L \in Nat, M \in Nat : L = Len(data) /\ m + M = 2 * L /\ M >= L
    <2>1. Len(data) \in Nat /\ Len(data) # 0
      BY LenProperties, EmptySeq
    <2>2. 2 * Len(data) - m \in Nat /\ m + (2 * Len(data) - m) = 2 * Len(data) /\ 2 * Len(data) - m >= Len(data)
      BY <2>1
    <2> QED BY <2>1, <2>2
  <1>2. PICK c : c = f[m]
    OBVIOUS
  <1> DEFINE There(s, n) == (OnWay(s, g, data, n) \/ Ended(s, g, data) \/ Refused(s, g, data)) /\ Like(c, s)
             G == {n \in 0 .. M : There(f[m + n], n)}
  <1>3. 0 \in G
    <2>1. m + 0 = m
      OBVIOUS
    <2>2. There(c, 0)
      BY <1>2 DEF Like
    <2> QED BY <1>2, <2>1, <2>2
  <1>4. ASSUME NEW n \in 0 .. M - 1, n \in G PROVE n + 1 \in G
    <2>1. PICK s \in CallStates : s = f[m + n] /\ There(s, n)
      BY <1>4 DEF OnWay, Ended, Refused
    <2>2. PICK t : t = f[m + (n + 1)] /\ t = Round(s, data)
      <3>1. m + (n + 1) \in 1 .. 2 * L /\ (m + (n + 1)) - 1 = m + n
        BY <1>1
      <3> QED BY <1>1, <2>1, <3>1 DEF IsReadRun
    <2>3. There(t, n + 1)
      <3>1. CASE Ended(s, g, data) \/ Refused(s, g, data)
        <4>1. t = s
          BY <2>2, <3>1 DEF Round, Ended, Refused
        <4> QED BY <2>1, <3>1, <4>1
      <3>2. CASE OnWay(s, g, data, n) /\ s.i > Len(data)
        <4>1. t = s
          BY <2>2, <3>2 DEF Round
        <4>2. s.i = Len(data) + 1
          BY <1>1, <3>2, CallFields DEF OnWay
        <4>3. OnWay(s, g, data, n + 1)
          BY <3>2, <4>2 DEF OnWay
        <4> QED BY <2>1, <4>1, <4>3
      <3>3. CASE OnWay(s, g, data, n) /\ ~(s.i > Len(data))
        <4>1. t = TakeBytes(s, data)
          BY <2>2, <3>3 DEF Round, OnWay
        <4>2. s.i <= Len(data)
          BY <1>1, <3>3, CallFields
        <4>3. KeptBy(s) = KeptBy(f[m])
          BY <1>2, <2>1 DEF KeptBy, Like
        <4>4. Hearing(g, data, KeptBy(s))
          BY <4>3
        <4>5. (OnWay(t, g, data, n + 1) \/ Ended(t, g, data) \/ Refused(t, g, data)) /\ Like(s, t)
          BY <3>3, <4>1, <4>2, <4>4, TakeIs
        <4> QED BY <2>1, <4>5 DEF Like
      <3> QED BY <2>1, <3>1, <3>2, <3>3
    <2>4. n + 1 \in 0 .. M
      BY <1>1
    <2> QED BY <2>2, <2>3, <2>4
  <1>5. M \in G
    <2>1. \A n \in 0 .. M - 1 : n \in G => n + 1 \in G
      BY <1>4
    <2>2. M \in 0 .. M
      BY <1>1
    <2> HIDE DEF G
    <2>3. 0 .. M \subseteq G
      BY <1>3, <2>1, Induct
    <2> QED BY <2>2, <2>3
  <1>6. PICK r : r = f[m + M]
    OBVIOUS
  <1>7. There(r, M)
    BY <1>5, <1>6
  <1>8. OnWay(r, g, data, M) => OnWay(r, g, data, Len(data))
    <2>1. ASSUME OnWay(r, g, data, M) PROVE r.i > Len(data) \/ r.i = Len(data) + 1
      <3>1. r.i \in Nat
        BY <2>1, CallFields DEF OnWay
      <3> QED BY <1>1, <2>1, <3>1 DEF OnWay
    <2> QED BY <2>1 DEF OnWay
  <1> QED BY <1>1, <1>2, <1>6, <1>7, <1>8

\* What pm_read_bytes has done with data, of which h is what was heard
Heeded(c, r, data, h) ==
    /\ r \in CallStates /\ Like(c, r) /\ r.i > 1
    /\ \/ /\ r.lost = FALSE /\ r.passed \o r.word = h /\ r.i = Len(data) + 1
          /\ r.inProgress = TRUE <=> data[Len(data)] # "EOX"
          /\ r.inProgress = FALSE => r.word = <<>>
       \/ r.lost = TRUE /\ r.inProgress = FALSE /\ r.word = <<>> /\ IsPrefixOf(r.passed, h)

LEMMA HeededAtEnd ==
    ASSUME NEW data \in Seq(Heard), data # <<>>, NEW g, NEW c, NEW r, Like(c, r), NEW h \in Seq(Heard), h = g[Len(data)],
           OnWay(r, g, data, Len(data)) \/ Ended(r, g, data) \/ Refused(r, g, data)
    PROVE  Heeded(c, r, data, h)
  <1>1. PICK L \in Nat : L = Len(data) /\ L > 0
    <2>1. Len(data) \in Nat /\ Len(data) # 0
      BY LenProperties, EmptySeq
    <2> QED BY <2>1
  <1>2. CASE OnWay(r, g, data, Len(data))
    <2>1. r.i = L + 1 /\ r.i > 1 /\ r.i - 1 = L /\ L \in 1 .. r.i - 1
      BY <1>1, <1>2, CallFields DEF OnWay
    <2>2. data[L] # "EOX"
      BY <1>2, <2>1 DEF OnWay
    <2> QED BY <1>1, <1>2, <2>1, <2>2 DEF OnWay, Heeded
  <1>3. CASE Ended(r, g, data)
    <2>1. r.i = L + 1 /\ r.i > 1
      BY <1>1, <1>3 DEF Ended
    <2>2. r.passed \o r.word = r.passed
      BY <1>3, CallFields, ConcatEmptySeq DEF Ended
    <2> QED BY <1>1, <1>3, <2>1, <2>2 DEF Ended, Heeded
  <1>4. CASE Refused(r, g, data)
    BY <1>4 DEF Refused, Heeded
  <1> QED BY <1>2, <1>3, <1>4

\* pm_read_bytes in the middle of a sysex
LEMMA ReadGoesOn ==
    ASSUME Call \in CallStates, Call.inProgress = TRUE, Call.lost = FALSE, BeginsOnce(Call.passed \o Call.word),
           NEW data \in Seq(Heard), data # <<>>,
           \A k \in 1 .. Len(data) : data[k] # "SYSEX" /\ (data[k] = "EOX" => k = Len(data))
    PROVE  Heeded(Call, pm_read_bytes(data), data, Call.passed \o Call.word \o Selected(data, KeptBy(Call)))
  <1>1. PICK w \in Seq(Heard) : w = Call.passed \o Call.word
    BY CallFields, ConcatProperties
  <1>2. PICK g : /\ Grows(g, data, KeptBy(Call)) /\ g[0] = w
                 /\ g[Len(data)] = w \o Selected(data, KeptBy(Call))
    <2>1. PICK T : T = KeptBy(Call)
      OBVIOUS
    <2>2. \E g : Grows(g, data, T) /\ g[0] = w /\ g[Len(data)] = w \o Selected(data, T)
      BY GrowthIs
    <2> QED BY <2>1, <2>2
  <1>3. Hearing(g, data, KeptBy(Call))
    <2>1. BeginsOnce(g[0])
      BY <1>1, <1>2
    <2>2. \A n \in 0 .. Len(data) : BeginsOnce(g[n])
      BY <1>2, <2>1, GrowsOnce
    <2> QED BY <1>2, <2>2 DEF Hearing
  <1>4. PICK f : IsReadRun(f, data) /\ pm_read_bytes(data) = f[2 * Len(data)]
    BY ReadIs
  <1>5. f[0] = Call /\ Len(data) \in Nat
    BY <1>4, LenProperties DEF IsReadRun
  <1>6. OnWay(f[0], g, data, 0)
    <2>1. Call.i = 1 /\ Call.taking = Call.inProgress
      BY DEF Call
    <2>2. Call.i <= Len(data) + 1 /\ Call.i > 0 /\ Call.i - 1 = 0 /\ 1 .. Call.i - 1 = {}
      BY <1>5, <2>1
    <2> QED BY <1>1, <1>2, <1>5, <2>1, <2>2 DEF OnWay
  <1>7. PICK r : r = f[2 * Len(data)]
    OBVIOUS
  <1>8. (OnWay(r, g, data, Len(data)) \/ Ended(r, g, data) \/ Refused(r, g, data)) /\ Like(Call, r)
    BY <1>3, <1>4, <1>5, <1>6, <1>7, TakeLoop
  <1>9. g[Len(data)] \in Seq(Heard)
    <2>1. Len(data) \in 0 .. Len(data)
      BY <1>5
    <2> QED BY <1>2, <2>1 DEF Grows
  <1> QED BY <1>1, <1>2, <1>4, <1>7, <1>8, <1>9, HeededAtEnd

\* pm_read_bytes at the beginning of a sysex
LEMMA ReadBegins ==
    ASSUME Call \in CallStates, Quiet(Call), "SYSEX" \notin Call.filters,
           NEW data \in Seq(Heard), data # <<>>, data[1] = "SYSEX",
           \A k \in 1 .. Len(data) : (data[k] = "SYSEX" => k = 1) /\ (data[k] = "EOX" => k = Len(data))
    PROVE  Heeded(Call, pm_read_bytes(data), data, Selected(data, KeptBy(Call)))
  <1>1. <<>> \in Seq(Heard) /\ Len(<<>>) = 0
    BY EmptySeq
  <1>2. PICK g : /\ Grows(g, data, KeptBy(Call)) /\ g[0] = <<>>
                 /\ g[Len(data)] = Selected(data, KeptBy(Call))
    BY GrowthOfNothing
  <1>3. Selected(data, KeptBy(Call)) \in Seq(Heard)
    BY SelectedType
  <1>4. Hearing(g, data, KeptBy(Call))
    <2>1. BeginsOnce(g[0])
      BY <1>1, <1>2 DEF BeginsOnce
    <2>2. \A n \in 0 .. Len(data) : BeginsOnce(g[n])
      BY <1>2, <2>1, GrowsOnce
    <2> QED BY <1>2, <2>2 DEF Hearing
  <1>5. PICK f : IsReadRun(f, data) /\ pm_read_bytes(data) = f[2 * Len(data)]
    BY ReadIs
  <1>6. PICK L \in Nat : L = Len(data) /\ L > 0
    <2>1. Len(data) \in Nat /\ Len(data) # 0
      BY LenProperties, EmptySeq
    <2> QED BY <2>1
  <1>7. f[1] = Round(Call, data)
    <2>1. 1 \in 1 .. 2 * Len(data) /\ 1 - 1 = 0
      BY <1>6
    <2> QED BY <1>5, <2>1 DEF IsReadRun
  <1>8. Call.i = 1 /\ Call.taking = Call.inProgress
    BY DEF Call
  <1>9. PICK s : s = [Call EXCEPT !.inProgress = TRUE, !.taking = TRUE, !.lost = FALSE, !.passed = <<>>]
    OBVIOUS
  <1>10. f[1] = s
    <2>1. ~(Call.i > Len(data) \/ (Call.taking /\ ~Call.inProgress)) /\ ~Call.taking
      BY <1>6, <1>8 DEF Quiet
    <2>2. f[1] = SkipByte(Call, "SYSEX")
      BY <1>7, <1>8, <2>1 DEF Round
    <2> QED BY <1>9, <2>2 DEF SkipByte
  <1>11. /\ s \in CallStates /\ s.inProgress = TRUE /\ s.taking = TRUE /\ s.lost = FALSE /\ s.passed = <<>>
         /\ s.word = Call.word /\ s.filters = Call.filters /\ s.shorts = Call.shorts /\ s.i = Call.i
    BY <1>1, <1>9 DEF CallStates
  <1>12. OnWay(f[1], g, data, 0)
    <2>1. s.i <= Len(data) + 1 /\ s.i > 0 /\ s.i - 1 = 0 /\ 1 .. s.i - 1 = {}
      BY <1>6, <1>8, <1>11
    <2>2. s.passed \o s.word = g[s.i - 1]
      BY <1>1, <1>2, <1>11, <2>1, ConcatEmptySeq DEF Quiet
    <2> QED BY <1>10, <1>11, <2>1, <2>2 DEF OnWay
  <1>13. Hearing(g, data, KeptBy(f[1]))
    BY <1>4, <1>10, <1>11 DEF KeptBy
  <1>14. PICK r : r = f[2 * Len(data)]
    OBVIOUS
  <1>15. (OnWay(r, g, data, Len(data)) \/ Ended(r, g, data) \/ Refused(r, g, data)) /\ Like(f[1], r)
    BY <1>5, <1>12, <1>13, <1>14, TakeLoop
  <1>16. Like(Call, r)
    BY <1>10, <1>11, <1>15 DEF Like
  <1>17. PICK h \in Seq(Heard) : h = g[Len(data)] /\ h = Selected(data, KeptBy(Call))
    BY <1>2, <1>3
  <1>18. Heeded(Call, r, data, h)
    BY <1>15, <1>16, <1>17, HeededAtEnd
  <1> QED BY <1>5, <1>14, <1>17, <1>18

-----------------------------------------------------------------------------
\* The state of a call, and what a call leaves
Commands == {NONE, "STATUS", "REALTIME"}
InputType ==
    /\ stream \in [inProgress : BOOLEAN, word : Seq(Heard), filters : SUBSET {"SYSEX", "REALTIME"},
                   events : Nat, refusing : BOOLEAN]
    /\ packet \in Seq(Heard) /\ sysexSent \in Seq(Heard) /\ passed \in Seq(Heard)
    /\ command \in Commands /\ commandLength \in Nat /\ inside \in BOOLEAN /\ lost \in BOOLEAN /\ shorts \in Int
    /\ command # NONE => commandLength = LengthOf(command)

LEMMA StreamFields ==
    InputType => /\ stream.inProgress \in BOOLEAN /\ stream.word \in Seq(Heard)
                 /\ stream.filters \in SUBSET {"SYSEX", "REALTIME"} /\ stream.events \in Nat
                 /\ stream.refusing \in BOOLEAN
  BY DEF InputType

LEMMA CallIs ==
    ASSUME InputType
    PROVE  /\ Call \in CallStates /\ Call.inProgress = stream.inProgress /\ Call.word = stream.word
           /\ Call.filters = stream.filters /\ Call.passed = passed /\ Call.lost = lost /\ Call.shorts = shorts
  <1>1. /\ stream.inProgress \in BOOLEAN /\ stream.word \in Seq(Heard)
        /\ stream.filters \in SUBSET {"SYSEX", "REALTIME"} /\ stream.events \in Nat
        /\ stream.refusing \in BOOLEAN /\ passed \in Seq(Heard) /\ lost \in BOOLEAN /\ shorts \in Int
    BY StreamFields DEF InputType
  <1>2. 1 \in Nat \ {0}
    OBVIOUS
  <1>3. Call \in CallStates
    BY <1>1, <1>2 DEF Call, CallStates
  <1> QED BY <1>3 DEF Call

LEMMA ReturnIs ==
    ASSUME NEW s \in CallStates, Return(s)
    PROVE  /\ stream' \in [inProgress : BOOLEAN, word : Seq(Heard), filters : SUBSET {"SYSEX", "REALTIME"},
                           events : Nat, refusing : BOOLEAN]
           /\ stream'.inProgress = s.inProgress /\ stream'.word = s.word /\ stream'.filters = s.filters
           /\ passed' = s.passed /\ lost' = s.lost /\ shorts' = s.shorts
           /\ passed' \in Seq(Heard) /\ lost' \in BOOLEAN /\ shorts' \in Int
  <1>1. /\ s.inProgress \in BOOLEAN /\ s.word \in Seq(Heard) /\ s.filters \in SUBSET {"SYSEX", "REALTIME"}
        /\ s.events \in Nat /\ s.refusing \in BOOLEAN /\ s.passed \in Seq(Heard) /\ s.lost \in BOOLEAN
        /\ s.shorts \in Int
    BY CallFields
  <1> QED BY <1>1 DEF Return

LEMMA DropIs ==
    ASSUME NEW s \in Seq(Heard), NEW n \in Nat
    PROVE  /\ Drop(s, n) \in Seq(Heard)
           /\ n <= Len(s) => Len(Drop(s, n)) = Len(s) - n
           /\ n >= Len(s) => Drop(s, n) = <<>>
           /\ \A k \in 1 .. Len(Drop(s, n)) : Drop(s, n)[k] = s[k + n] /\ k + n \in 1 .. Len(s)
  <1>1. PICK L \in Nat : L = Len(s)
    BY LenProperties
  <1>2. CASE n >= L
    <2>1. SubSeq(s, n + 1, L) = <<>>
      BY <1>1, <1>2, SubSeqEmpty
    <2>2. <<>> \in Seq(Heard) /\ Len(<<>>) = 0
      BY EmptySeq
    <2>3. Drop(s, n) = <<>>
      BY <1>1, <2>1 DEF Drop
    <2> QED BY <1>1, <1>2, <2>2, <2>3
  <1>3. CASE n < L
    <2>1. \A k \in n + 1 .. L : k \in 1 .. L
      BY <1>1
    <2>2. \A k \in n + 1 .. L : s[k] \in Heard
      BY <1>1, <2>1, ElementOfSeq
    <2>3. PICK d : d = SubSeq(s, n + 1, L)
      OBVIOUS
    <2>4. d \in Seq(Heard) /\ Len(d) = L - n /\ \A k \in 1 .. L - n : d[k] = s[n + k]
      BY <1>3, <2>2, <2>3, SubSeqProperties
    <2>5. Drop(s, n) = d
      BY <1>1, <2>3 DEF Drop
    <2>6. \A k \in 1 .. L - n : k + n \in 1 .. L /\ n + k = k + n
      BY <1>1
    <2>7. n <= L /\ ~(n >= L)
      BY <1>1, <1>3
    <2> HIDE DEF Drop
    <2> QED BY <1>1, <2>4, <2>5, <2>6, <2>7
  <1> QED BY <1>1, <1>2, <1>3

LEMMA ReadType == ASSUME NEW data \in Seq(Heard), Call \in CallStates PROVE pm_read_bytes(data) \in CallStates
  <1>1. PICK f : IsReadRun(f, data) /\ pm_read_bytes(data) = f[2 * Len(data)]
    BY ReadIs
  <1>2. 2 * Len(data) \in 0 .. 2 * Len(data)
    BY LenProperties
  <1> QED BY <1>1, <1>2 DEF IsReadRun

\* What the instrument sends, its data bytes numbered
Numbered(p) ==
    [k \in DOMAIN p |-> IF p[k] = "data" THEN <<"d0", "d1", "d2">>[((Len(sysexSent) + k) % 3) + 1] ELSE p[k]]

LEMMA NumberedIs ==
    ASSUME InputType, NEW p \in Packets[inside]
    PROVE  /\ p \in PacketsFrom(inside) /\ Len(p) \in Nat /\ Len(p) > 0 /\ DOMAIN p = 1 .. Len(p)
           /\ Numbered(p) \in Seq(Heard) /\ Len(Numbered(p)) = Len(p)
           /\ \A k \in 1 .. Len(p) : /\ p[k] \in Statuses => Numbered(p)[k] = p[k]
                                     /\ p[k] \notin Statuses => p[k] = "data" /\ Numbered(p)[k] \in DataBytes
  <1>1. p \in PacketsFrom(inside)
    BY DEF Packets, InputType
  <1>2. PICK n \in 1 .. MaxPacket : p \in [1 .. n -> Statuses \cup {"data"}]
    BY <1>1 DEF PacketsFrom, AllPackets
  <1>3. n \in Nat /\ n > 0
    BY <1>2
  <1>4. p \in Seq(Statuses \cup {"data"})
    BY <1>2, <1>3, SeqDef
  <1>5. Len(p) = n /\ DOMAIN p = 1 .. n
    BY <1>2, <1>3, <1>4, LenProperties
  <1>6. ASSUME NEW k \in 1 .. n PROVE <<"d0", "d1", "d2">>[((Len(sysexSent) + k) % 3) + 1] \in DataBytes
    <2>1. PICK m \in Nat : m = Len(sysexSent) + k
      BY LenProperties DEF InputType
    <2>2. (m % 3) \in 0 .. 2
      BY <2>1
    <2>3. PICK j \in {1, 2, 3} : j = (m % 3) + 1
      BY <2>2
    <2>4. <<"d0", "d1", "d2">>[j] \in DataBytes
      BY DEF DataBytes
    <2> QED BY <2>1, <2>3, <2>4
  <1>7. PICK d : d = Numbered(p)
    OBVIOUS
  <1>8. DOMAIN d = 1 .. n /\ \A k \in 1 .. n : d[k] = IF p[k] = "data" THEN <<"d0", "d1", "d2">>[((Len(sysexSent) + k) % 3) + 1] ELSE p[k]
    BY <1>5, <1>7 DEF Numbered
  <1>9. \A k \in 1 .. n : /\ p[k] \in Statuses => d[k] = p[k]
                          /\ p[k] \notin Statuses => p[k] = "data" /\ d[k] \in DataBytes
    <2>1. \A k \in 1 .. n : p[k] \in Statuses \cup {"data"}
      BY <1>2
    <2>2. "data" \notin Statuses
      BY DEF Statuses
    <2> QED BY <1>6, <1>8, <2>1, <2>2
  <1>10. d \in [1 .. n -> Heard]
    <2>1. \A k \in 1 .. n : d[k] \in Heard
      BY <1>9 DEF Heard
    <2>2. d = [k \in 1 .. n |-> d[k]]
      BY <1>5, <1>7 DEF Numbered
    <2> QED BY <2>1, <2>2
  <1>11. d \in Seq(Heard) /\ Len(d) = n
    <2>1. d \in Seq(Heard)
      BY <1>3, <1>10, SeqDef
    <2> QED BY <1>3, <1>8, <2>1, LenProperties
  <1> QED BY <1>1, <1>3, <1>5, <1>7, <1>9, <1>11

\* What comes in the middle of a sysex, of short messages, and of a sysex that
\* begins, when every sysex has its end
IsPacket(p, isInside) ==
    /\ p \in PacketsFrom(isInside) /\ Len(p) \in Nat /\ Len(p) > 0 /\ DOMAIN p = 1 .. Len(p)
    /\ \A k \in 1 .. Len(p) : p[k] \in Statuses \cup {"data"}
Goes(p) == \A k \in 1 .. Len(p) : p[k] \notin {"SYSEX", "STATUS"} /\ (p[k] = "EOX" => k = Len(p))
Shorts(p) ==
    \A k \in 1 .. Len(p) :
        /\ p[k] \notin {"SYSEX", "EOX"}
        /\ p[k] = "STATUS" => k < Len(p) /\ p[k + 1] = "data"
        /\ p[k] = "data" => k > 1 /\ p[k - 1] \in {"STATUS", "data"}
OpensAt(p, n) ==
    /\ n \in 1 .. Len(p) /\ p[n] = "SYSEX"
    /\ \A k \in 1 .. Len(p) :
           /\ k < n => p[k] = "REALTIME"
           /\ p[k] = "SYSEX" => k = n
           /\ p[k] = "EOX" => k = Len(p)
           /\ p[k] # "STATUS"

LEMMA MayComeIs ==
    ASSUME NEW p, NEW isInside \in BOOLEAN, IsPacket(p, isInside), ~Truncated, NEW k \in 1 .. Len(p)
    PROVE  /\ k > 1 /\ p[k - 1] = "STATUS" => p[k] = "data"
           /\ p[k] = "data" => Within(isInside, p, k) \/ (k > 1 /\ p[k - 1] \in {"STATUS", "data"})
           /\ p[k] = "EOX" => Within(isInside, p, k) /\ k = Len(p)
           /\ p[k] \in {"SYSEX", "STATUS"} => ~Within(isInside, p, k)
           /\ p[k] = "STATUS" => k < Len(p)
           /\ p[k] = "SYSEX" => \A j \in 1 .. Len(p) : p[j] = "SYSEX" => j = k
  <1>1. MayCome(isInside, p, k)
    BY DEF IsPacket, PacketsFrom
  <1>2. (p[k] = "EOX" => k = Len(p)) /\ (p[k] = "SYSEX" => \A j \in 1 .. Len(p) : p[j] = "SYSEX" => j = k)
    BY DEF IsPacket, PacketsFrom
  <1> QED BY <1>1, <1>2, Zenon DEF MayCome

LEMMA InsidePacket ==
    ASSUME NEW p, IsPacket(p, TRUE), ~Truncated
    PROVE  Goes(p) /\ p[1] \in {"EOX", "data", "REALTIME"} /\ Within(TRUE, p, Len(p) + 1)
  <1>1. PICK L \in Nat : L = Len(p) /\ L > 0
    BY DEF IsPacket
  <1>2. \A k \in 1 .. L : p[k] \notin {"SYSEX", "STATUS"}
    <2> DEFINE T == {k \in 1 .. L : p[k] \in {"SYSEX", "STATUS"}}
    <2> SUFFICES ASSUME T # {} PROVE FALSE
      OBVIOUS
    <2>1. T \in SUBSET Nat
      OBVIOUS
    <2>2. PICK k \in T : \A n \in T : k <= n
      <3> HIDE DEF T
      <3> QED BY <2>1, Least
    <2>3. k \in 1 .. L /\ p[k] \in {"SYSEX", "STATUS"}
      BY <2>2
    <2>4. \A j \in 1 .. k - 1 : p[j] # "STATUS"
      <3>1. ASSUME NEW j \in 1 .. k - 1, p[j] = "STATUS" PROVE FALSE
        <4>1. j \in T /\ ~(k <= j)
          BY <2>3, <3>1
        <4> HIDE DEF T
        <4> QED BY <2>2, <4>1
      <3> QED BY <3>1
    <2>5. Within(TRUE, p, k)
      BY <2>4 DEF Within
    <2> HIDE DEF T
    <2> QED BY <1>1, <2>3, <2>5, MayComeIs
  <1>3. \A k \in 1 .. L : p[k] = "EOX" => k = L
    BY <1>1, MayComeIs
  <1>5. 1 \in 1 .. L /\ p[1] \in Statuses \cup {"data"}
    BY <1>1 DEF IsPacket
  <1>6. Within(TRUE, p, L + 1)
    <2>1. L + 1 - 1 = L
      OBVIOUS
    <2> QED BY <1>2, <2>1 DEF Within
  <1> QED BY <1>1, <1>2, <1>3, <1>5, <1>6 DEF Goes, Statuses

LEMMA PlainPacket ==
    ASSUME NEW p, IsPacket(p, FALSE), ~Truncated, ~Has(p, "SYSEX")
    PROVE  /\ Shorts(p) /\ ~Within(FALSE, p, Len(p) + 1)
           /\ ~Has(p, "STATUS") => \A k \in 1 .. Len(p) : p[k] = "REALTIME"
  <1>1. PICK L \in Nat : L = Len(p) /\ L > 0 /\ DOMAIN p = 1 .. L
    BY DEF IsPacket
  <1>2. \A k \in 1 .. L : p[k] # "SYSEX"
    BY <1>1 DEF Has
  <1>3. \A k \in 1 .. L + 1 : ~Within(FALSE, p, k)
    <2>1. ASSUME NEW k \in 1 .. L + 1, Within(FALSE, p, k) PROVE FALSE
      <3>1. PICK j \in 1 .. k - 1 : p[j] = "SYSEX"
        BY <2>1 DEF Within
      <3>2. j \in 1 .. L
        BY <1>1
      <3> QED BY <1>2, <3>1, <3>2
    <2> QED BY <2>1
  <1>4. ASSUME NEW k \in 1 .. L
        PROVE  /\ k > 1 /\ p[k - 1] = "STATUS" => p[k] = "data"
               /\ p[k] = "data" => k > 1 /\ p[k - 1] \in {"STATUS", "data"}
               /\ p[k] # "EOX" /\ (p[k] = "STATUS" => k < L)
    <2>1. k \in 1 .. Len(p) /\ k \in 1 .. L + 1
      BY <1>1
    <2>2. ~Within(FALSE, p, k)
      BY <1>3, <2>1
    <2> QED BY <1>1, <2>1, <2>2, MayComeIs, Zenon
  <1>5. Shorts(p)
    <2>1. ASSUME NEW k \in 1 .. L, p[k] = "STATUS" PROVE k < L /\ p[k + 1] = "data"
      <3>1. k < L
        BY <1>4, <2>1
      <3>2. k + 1 \in 1 .. L /\ k + 1 > 1 /\ (k + 1) - 1 = k
        BY <3>1
      <3> QED BY <1>4, <2>1, <3>1, <3>2
    <2>2. \A k \in 1 .. L : p[k] \notin {"SYSEX", "EOX"}
      BY <1>2, <1>4
    <2>3. \A k \in 1 .. L : p[k] = "data" => k > 1 /\ p[k - 1] \in {"STATUS", "data"}
      BY <1>4
    <2> QED BY <1>1, <2>1, <2>2, <2>3 DEF Shorts
  <1>6. ~Within(FALSE, p, Len(p) + 1)
    <2>1. Len(p) + 1 \in 1 .. L + 1
      BY <1>1
    <2> QED BY <1>3, <2>1
  <1>7. ASSUME ~Has(p, "STATUS") PROVE \A k \in 1 .. L : p[k] = "REALTIME"
    <2>1. \A k \in 1 .. L : p[k] # "STATUS"
      BY <1>1, <1>7 DEF Has
    <2> DEFINE T == {k \in 1 .. L : p[k] = "data"}
    <2>2. T = {}
      <3> SUFFICES ASSUME T # {} PROVE FALSE
        OBVIOUS
      <3>1. T \in SUBSET Nat
        OBVIOUS
      <3>2. PICK k \in T : \A n \in T : k <= n
        <4> HIDE DEF T
        <4> QED BY <3>1, Least
      <3>3. k \in 1 .. L /\ p[k] = "data"
        BY <3>2
      <3>4. k > 1 /\ p[k - 1] \in {"STATUS", "data"}
        BY <1>4, <3>3
      <3>5. k - 1 \in 1 .. L /\ ~(k <= k - 1)
        BY <3>3, <3>4
      <3>6. k - 1 \in T
        BY <2>1, <3>4, <3>5
      <3> HIDE DEF T
      <3> QED BY <3>2, <3>5, <3>6
    <2>3. \A k \in 1 .. L : p[k] # "data"
      BY <2>2
    <2>4. \A k \in 1 .. L : p[k] \in Statuses \cup {"data"}
      BY <1>1 DEF IsPacket
    <2>5. \A k \in 1 .. L : p[k] \notin {"SYSEX", "EOX"}
      BY <1>2, <1>4
    <2> QED BY <2>1, <2>3, <2>4, <2>5 DEF Statuses
  <1> QED BY <1>1, <1>5, <1>6, <1>7

LEMMA SysexPacket ==
    ASSUME NEW p, IsPacket(p, FALSE), ~Truncated, NEW n \in 1 .. Len(p), p[n] = "SYSEX"
    PROVE  OpensAt(p, n) /\ ~Has(p, "STATUS") /\ Within(FALSE, p, Len(p) + 1)
  <1>1. PICK L \in Nat : L = Len(p) /\ L > 0 /\ DOMAIN p = 1 .. L /\ n \in 1 .. L
    BY DEF IsPacket
  <1>2. ~Has(p, "STATUS")
    <2>1. Has(p, "STATUS") => ~Has(p, "SYSEX")
      BY DEF IsPacket, PacketsFrom
    <2> QED BY <1>1, <2>1 DEF Has
  <1>3. \A k \in 1 .. L : p[k] # "STATUS"
    BY <1>1, <1>2 DEF Has
  <1>4. \A k \in 1 .. L : (p[k] = "SYSEX" => k = n) /\ (p[k] = "EOX" => k = L)
    BY <1>1, MayComeIs
  <1>5. \A k \in 1 .. L : k < n => ~Within(FALSE, p, k)
    <2>1. ASSUME NEW k \in 1 .. L, k < n, Within(FALSE, p, k) PROVE FALSE
      <3>1. PICK j \in 1 .. k - 1 : p[j] = "SYSEX"
        BY <2>1 DEF Within
      <3>2. j \in 1 .. L /\ j # n
        BY <1>1, <2>1
      <3> QED BY <1>4, <3>1, <3>2
    <2> QED BY <2>1
  <1> DEFINE T == {k \in 1 .. n - 1 : p[k] = "data"}
  <1>6. T = {}
    <2> SUFFICES ASSUME T # {} PROVE FALSE
      OBVIOUS
    <2>1. T \in SUBSET Nat
      OBVIOUS
    <2>2. PICK k \in T : \A m \in T : k <= m
      <3> HIDE DEF T
      <3> QED BY <2>1, Least
    <2>3. k \in 1 .. L /\ k < n /\ p[k] = "data"
      BY <1>1, <2>2
    <2>4. k > 1 /\ p[k - 1] \in {"STATUS", "data"}
      BY <1>1, <1>5, <2>3, MayComeIs
    <2>5. k - 1 \in 1 .. L /\ ~(k <= k - 1) /\ k - 1 \in 1 .. n - 1
      BY <1>1, <2>3, <2>4
    <2>6. k - 1 \in T
      BY <1>3, <2>4, <2>5
    <2> HIDE DEF T
    <2> QED BY <2>2, <2>5, <2>6
  <1>7. ASSUME NEW k \in 1 .. L, k < n PROVE p[k] = "REALTIME"
    <2>1. p[k] # "data"
      <3>1. k \in 1 .. n - 1
        BY <1>1, <1>7
      <3> QED BY <1>6, <3>1
    <2>2. p[k] # "SYSEX" /\ p[k] # "EOX"
      BY <1>1, <1>4, <1>7
    <2>3. p[k] \in Statuses \cup {"data"}
      BY <1>1 DEF IsPacket
    <2> QED BY <1>3, <2>1, <2>2, <2>3 DEF Statuses
  <1>8. Within(FALSE, p, Len(p) + 1)
    <2>1. Len(p) + 1 - 1 = L
      BY <1>1
    <2> QED BY <1>1, <1>3, <2>1 DEF Within
  <1> QED BY <1>1, <1>2, <1>3, <1>4, <1>7, <1>8 DEF OpensAt

\* Where readProc is.  Sysex are filtered:
Filtered == "SYSEX" \in stream.filters
Kept == DataBytes \cup (Statuses \ (stream.filters \cap {"REALTIME"}))
Settled ==
    Filtered \/ IF lost THEN IsPrefixOf(passed, sysexSent) ELSE passed \o stream.word = sysexSent

\* between packets;
Between ==
    /\ Settled /\ shorts = 0
    /\ inside => command # "STATUS"
    /\ inside /\ ~Filtered /\ ~lost => stream.inProgress

\* at short messages, of which those that end at data bytes are to come;
DataFromEnd(p) == {n \in 0 .. Len(p) - 1 : p[Len(p) - n] \notin Statuses}
AtShorts ==
    /\ stream.inProgress = FALSE /\ inside = FALSE /\ Settled /\ shorts = Cardinality(DataFromEnd(packet))
    /\ \A k \in 1 .. Len(packet) :
           /\ packet[k] \notin {"SYSEX", "EOX"}
           /\ packet[k] = "STATUS" => k < Len(packet) /\ packet[k + 1] \notin Statuses
           /\ packet[k] \notin Statuses => IF k = 1 THEN command = "STATUS"
                                           ELSE packet[k - 1] \notin {"SYSEX", "EOX", "REALTIME"}

\* at the real-time bytes before a sysex;
Begins(j) ==
    /\ j < Len(packet) /\ packet[j + 1] = "SYSEX"
    /\ \A k \in 1 .. Len(packet) :
           /\ k <= j => packet[k] = "REALTIME"
           /\ packet[k] = "SYSEX" => k = j + 1
           /\ packet[k] = "EOX" => k = Len(packet)
           /\ packet[k] # "STATUS"
    /\ sysexSent = Selected(SubSeq(packet, j + 1, Len(packet)), Kept)
BeforeSysex ==
    /\ stream.inProgress = FALSE /\ shorts = 0
    /\ inside <=> packet[Len(packet)] # "EOX"
    /\ \E j \in Nat : Begins(j)

\* at what is left of a sysex that is not taken;
AtRest ==
    /\ stream.inProgress = FALSE /\ Settled /\ shorts = 0 /\ (Filtered \/ lost) /\ command # "STATUS"
    /\ \A k \in 1 .. Len(packet) : packet[k] \notin {"SYSEX", "STATUS"}

\* or at real-time bytes that go before the bytes of a sysex that is taken:
\* what passed, with the word, grows by what is kept of them to what was sent.
Follows(g) ==
    /\ Grows(g, packet, Kept) /\ g[0] = passed \o stream.word /\ g[Len(packet)] = sysexSent
Embedded ==
    /\ packet # <<>> /\ packet[1] = "REALTIME" /\ \E g : Follows(g)
    /\ stream.inProgress = TRUE /\ ~Filtered /\ lost = FALSE /\ shorts = 0
    /\ inside <=> packet[Len(packet)] # "EOX"
    /\ \A k \in 1 .. Len(packet) :
           packet[k] \notin {"SYSEX", "STATUS"} /\ (packet[k] = "EOX" => k = Len(packet))

(* A sysex is taken byte by byte only by whoever has seen its beginning,   *)
(* and between two rounds of process_packet what is left of the packet is  *)
(* one of four: short messages, real-time bytes with a sysex to come,      *)
(* bytes that nobody takes, or real-time bytes inside of a sysex.  Or the  *)
(* round at hand never ends, because it takes no byte: at an EOX, or at a  *)
(* data byte that passes for a real-time message.                          *)
Moving ==
    /\ stream.inProgress = FALSE => stream.word = <<>>
    /\ stream.inProgress = TRUE => ~lost /\ ((packet = <<>> /\ inside) \/ Embedded)
    /\ Filtered => passed \in Beginnings /\ stream.inProgress = FALSE
    /\ BeginsOnce(sysexSent)
    /\ packet = <<>> => Between
    /\ packet # <<>> => AtShorts \/ BeforeSysex \/ AtRest \/ Embedded
Held == packet # <<>> /\ (packet[1] = "EOX" \/ (packet[1] \notin Statuses /\ command = "REALTIME"))
InputInv == Moving \/ Held

LEMMA LengthOfType == \A b : LengthOf(b) \in 1 .. 2
  BY DEF LengthOf

LEMMA ReadKeepsType == ASSUME InputType, Read PROVE InputType'
  <1>1. CASE stream.events > 0 /\ stream' = [stream EXCEPT !.events = @ - 1]
    <2>1. stream.events - 1 \in Nat
      BY <1>1, StreamFields
    <2>2. stream' \in [inProgress : BOOLEAN, word : Seq(Heard), filters : SUBSET {"SYSEX", "REALTIME"},
                       events : Nat, refusing : BOOLEAN]
      BY <1>1, <2>1 DEF InputType
    <2> QED BY <2>2 DEF InputType, Read
  <1>2. CASE stream' = [stream EXCEPT !.refusing = FALSE]
    <2>2. stream' \in [inProgress : BOOLEAN, word : Seq(Heard), filters : SUBSET {"SYSEX", "REALTIME"},
                       events : Nat, refusing : BOOLEAN]
      BY <1>2 DEF InputType
    <2> QED BY <2>2 DEF InputType, Read
  <1> QED BY <1>1, <1>2 DEF Read

LEMMA ReturnType ==
    ASSUME NEW s \in CallStates, Return(s), InputType
    PROVE  /\ stream' \in [inProgress : BOOLEAN, word : Seq(Heard), filters : SUBSET {"SYSEX", "REALTIME"},
                           events : Nat, refusing : BOOLEAN]
           /\ passed' \in Seq(Heard) /\ lost' \in BOOLEAN /\ shorts' \in Int
  BY ReturnIs

\* What a round of process_packet does
Message(b) == Return(pm_read_short(Call, b))
SysexRound ==
    /\ packet[1] = "SYSEX" \/ (packet[1] \notin Statuses /\ command = NONE)
    /\ Return(pm_read_bytes(packet)) /\ command' = NONE /\ packet' = Drop(packet, pm_read_bytes(packet).i - 1)
    /\ commandLength' = commandLength
EoxRound ==
    /\ packet[1] = "EOX" /\ Return([Call EXCEPT !.inProgress = FALSE]) /\ command' = NONE
    /\ packet' = packet /\ commandLength' = commandLength
ShortRound ==
    /\ packet[1] \in {"STATUS", "REALTIME"} /\ LengthOf(packet[1]) <= Len(packet)
    /\ Message(packet[1]) /\ command' = packet[1] /\ commandLength' = LengthOf(packet[1])
    /\ packet' = Drop(packet, LengthOf(packet[1]))
RunningRound ==
    /\ packet[1] \notin Statuses /\ command # NONE /\ commandLength <= Len(packet) + 1
    /\ Message(command) /\ packet' = Drop(packet, commandLength - 1)
    /\ command' = command /\ commandLength' = commandLength
LastRound ==
    /\ \/ packet[1] \in {"STATUS", "REALTIME"} /\ LengthOf(packet[1]) > Len(packet)
       \/ packet[1] \notin Statuses /\ command # NONE /\ commandLength > Len(packet) + 1
    /\ packet' = <<>> /\ command' = command /\ commandLength' = commandLength
    /\ stream' = stream /\ passed' = passed /\ lost' = lost /\ shorts' = shorts

LEMMA ProcessIs ==
    ASSUME InputType, Process
    PROVE  /\ packet # <<>> /\ packet[1] \in Heard /\ sysexSent' = sysexSent /\ inside' = inside
           /\ SysexRound \/ EoxRound \/ ShortRound \/ RunningRound \/ LastRound
  <1>1. packet \in Seq(Heard) /\ packet # <<>>
    BY DEF InputType, Process
  <1>2. Head(packet) = packet[1] /\ packet[1] \in Heard
    <2>1. Len(packet) \in Nat /\ Len(packet) # 0
      BY <1>1, LenProperties, EmptySeq
    <2>2. 1 \in 1 .. Len(packet)
      BY <2>1
    <2> QED BY <1>1, <2>2, ElementOfSeq
  <1>3. SysexRound \/ EoxRound \/ ShortRound \/ RunningRound \/ LastRound
    BY <1>2, Zenon DEF Process, SysexRound, EoxRound, ShortRound, RunningRound, LastRound, Message
  <1>4. sysexSent' = sysexSent /\ inside' = inside
    BY DEF Process
  <1> QED BY <1>1, <1>2, <1>3, <1>4

LEMMA ProcessKeepsType == ASSUME InputType, Process PROVE InputType'
  <1>1. /\ packet \in Seq(Heard) /\ command \in Commands /\ commandLength \in Nat
        /\ command # NONE => commandLength = LengthOf(command)
    BY DEF InputType
  <1>2. packet[1] \in Heard /\ sysexSent' \in Seq(Heard) /\ inside' \in BOOLEAN
    BY ProcessIs DEF InputType
  <1>3. Call \in CallStates
    BY CallIs
  <1>4. ASSUME NEW s \in CallStates, Return(s), packet' \in Seq(Heard), command' \in Commands, commandLength' \in Nat,
               command' # NONE => commandLength' = LengthOf(command')
        PROVE  InputType'
    BY <1>2, <1>4, ReturnType DEF InputType
  <1>5. \A b : LengthOf(b) \in Nat /\ LengthOf(b) - 1 \in Nat
    BY LengthOfType
  <1>6. NONE \notin {"STATUS", "REALTIME"}
    BY DEF NONE
  <1>7. CASE SysexRound
    <2>1. PICK s \in CallStates : s = pm_read_bytes(packet)
      BY <1>1, <1>3, ReadType
    <2>2. s.i - 1 \in Nat
      BY CallFields
    <2>3. packet' \in Seq(Heard)
      BY <1>1, <1>7, <2>1, <2>2, DropIs DEF SysexRound
    <2>4. Return(s) /\ command' = NONE /\ commandLength' \in Nat
      BY <1>1, <1>7, <2>1 DEF SysexRound
    <2> QED BY <1>4, <2>3, <2>4 DEF Commands
  <1>8. CASE EoxRound
    <2>1. [Call EXCEPT !.inProgress = FALSE] \in CallStates
      BY <1>3 DEF CallStates
    <2> QED BY <1>1, <1>4, <1>8, <2>1 DEF EoxRound, Commands
  <1>9. CASE ShortRound
    <2>1. pm_read_short(Call, packet[1]) \in CallStates
      BY <1>2, <1>3, ShortType
    <2>2. packet' \in Seq(Heard)
      BY <1>1, <1>5, <1>9, DropIs DEF ShortRound
    <2>3. command' \in Commands /\ commandLength' \in Nat /\ commandLength' = LengthOf(command')
      BY <1>5, <1>9 DEF ShortRound, Commands
    <2> QED BY <1>4, <1>9, <2>1, <2>2, <2>3 DEF ShortRound, Message
  <1>10. CASE RunningRound
    <2>1. command \in Heard
      BY <1>1, <1>10 DEF RunningRound, Commands, Heard, Statuses
    <2>2. pm_read_short(Call, command) \in CallStates
      BY <1>3, <2>1, ShortType
    <2>3. packet' \in Seq(Heard)
      BY <1>1, <1>5, <1>10, DropIs DEF RunningRound
    <2> QED BY <1>1, <1>4, <1>10, <2>2, <2>3 DEF RunningRound, Message
  <1>11. CASE LastRound
    <2>1. <<>> \in Seq(Heard)
      BY EmptySeq
    <2> QED BY <1>2, <1>11, <2>1 DEF LastRound, InputType
  <1> QED BY <1>7, <1>8, <1>9, <1>10, <1>11, ProcessIs

\* What comes of a packet
First(p) == IF Has(p, "SYSEX") THEN CHOOSE k \in DOMAIN p : p[k] = "SYSEX" ELSE 1
Part(p) == IF Has(p, "STATUS") THEN <<>> ELSE Selected(SubSeq(Numbered(p), First(p), Len(p)), Kept)
Comes(p) ==
    /\ sysexSent' = IF Has(p, "SYSEX") THEN Part(p) ELSE IF inside THEN sysexSent \o Part(p) ELSE sysexSent
    /\ inside' = (p[Len(p)] # "EOX" /\ Within(inside, p, Len(p) + 1))
Heads(p) ==
    /\ IsSysexData(Numbered(p)[1]) /\ Return(pm_read_bytes(Numbered(p)))
    /\ command' = NONE /\ commandLength' = 0 /\ packet' = packet
Waits(p) ==
    /\ ~IsSysexData(Numbered(p)[1]) /\ packet' = Numbered(p)
    /\ shorts' = IF Has(p, "STATUS") THEN Cardinality({n \in 0 .. Len(p) - 1 : p[Len(p) - n] = "data"}) ELSE 0
    /\ stream' = stream /\ passed' = passed /\ lost' = lost /\ command' = command /\ commandLength' = commandLength

LEMMA ArriveIs ==
    ASSUME InputType, Arrive
    PROVE  packet = <<>> /\ \E p \in Packets[inside] : Comes(p) /\ (Heads(p) \/ Waits(p))
  <1>1. PICK p \in Packets[inside] : Comes(p) /\ (Heads(p) \/ Waits(p))
    BY DEF Arrive, Comes, Heads, Waits, Part, First, Numbered, Kept
  <1> QED BY <1>1 DEF Arrive

LEMMA PrefixOfConcat ==
    ASSUME NEW S, NEW u \in Seq(S), NEW v \in Seq(S), NEW t \in Seq(S), IsPrefixOf(u, t)
    PROVE  IsPrefixOf(u, t \o v)
  <1>1. PICK l \in Nat, m \in Nat, n \in Nat : l = Len(u) /\ m = Len(v) /\ n = Len(t)
    BY LenProperties
  <1>2. Len(t \o v) = n + m /\ \A k \in 1 .. n + m : (t \o v)[k] = IF k <= n THEN t[k] ELSE v[k - n]
    BY <1>1, ConcatProperties
  <1>3. l <= n /\ \A k \in 1 .. l : u[k] = t[k]
    BY <1>1 DEF IsPrefixOf
  <1>4. \A k \in 1 .. l : k \in 1 .. n + m /\ k <= n
    BY <1>1, <1>3
  <1>5. l <= n + m
    BY <1>3
  <1>6. ASSUME NEW k \in 1 .. l PROVE u[k] = (t \o v)[k]
    BY <1>2, <1>3, <1>4
  <1> QED BY <1>1, <1>2, <1>5, <1>6 DEF IsPrefixOf

LEMMA HeardBegins ==
    ASSUME NEW w \in Seq(Heard), NEW data \in Seq(Heard), NEW T, BeginsOnce(w),
           \A k \in 1 .. Len(data) : data[k] = "SYSEX" => k = 1 /\ w = <<>>
    PROVE  BeginsOnce(w \o Selected(data, T))
  <1>0. \E g : Grows(g, data, T) /\ g[0] = w /\ g[Len(data)] = w \o Selected(data, T)
    BY GrowthIs, SMTT(30)
  <1>1. PICK g : Grows(g, data, T) /\ g[0] = w /\ g[Len(data)] = w \o Selected(data, T)
    BY <1>0
  <1>2. \A n \in 0 .. Len(data) : BeginsOnce(g[n])
    BY <1>1, GrowsOnce
  <1>3. Len(data) \in 0 .. Len(data)
    BY LenProperties
  <1>4. BeginsOnce(g[Len(data)])
    BY <1>2, <1>3
  <1> QED BY <1>1, <1>4

\* The data bytes, when those of one message have gone
LEMMA DataTaken ==
    ASSUME NEW p \in Seq(Heard), NEW n \in {1, 2}, n <= Len(p), n = 2 => p[1] \in Statuses
    PROVE  /\ Cardinality(DataFromEnd(p)) \in Nat
           /\ Cardinality(DataFromEnd(p)) =
                  Cardinality(DataFromEnd(Drop(p, n))) + IF p[n] \notin Statuses THEN 1 ELSE 0
  <1>1. PICK L \in Nat : L = Len(p) /\ n <= L
    BY LenProperties
  <1>2. PICK q \in Seq(Heard) : q = Drop(p, n) /\ Len(q) = L - n /\ \A k \in 1 .. L - n : q[k] = p[k + n]
    BY <1>1, DropIs
  <1>3. PICK A, B : A = DataFromEnd(p) /\ B = DataFromEnd(q)
    OBVIOUS
  <1>4. A = {m \in 0 .. L - 1 : p[L - m] \notin Statuses} /\ B = {m \in 0 .. L - n - 1 : q[L - n - m] \notin Statuses}
    BY <1>1, <1>2, <1>3 DEF DataFromEnd
  <1>5. \A m \in 0 .. L - n - 1 : q[L - n - m] = p[L - m]
    <2>1. ASSUME NEW m \in 0 .. L - n - 1 PROVE q[L - n - m] = p[L - m]
      <3>1. L - n - m \in 1 .. L - n /\ (L - n - m) + n = L - m
        OBVIOUS
      <3> QED BY <1>2, <3>1
    <2> QED BY <2>1
  <1>6. IsFiniteSet(A) /\ IsFiniteSet(B) /\ Cardinality(A) \in Nat /\ Cardinality(B) \in Nat
    <2>1. IsFiniteSet(0 .. L - 1) /\ IsFiniteSet(0 .. L - n - 1)
      BY FS_Interval
    <2>2. A \in SUBSET (0 .. L - 1) /\ B \in SUBSET (0 .. L - n - 1)
      BY <1>4
    <2>3. IsFiniteSet(A) /\ IsFiniteSet(B)
      BY <2>1, <2>2, FS_Subset
    <2> QED BY <2>3, FS_CardinalityType
  <1>7. \A m : m \in A <=> m \in B \/ (m = L - n /\ p[n] \notin Statuses)
    <2>1. ASSUME NEW m \in 0 .. L - 1 PROVE m \in A <=> m \in B \/ (m = L - n /\ p[n] \notin Statuses)
      <3>1. CASE m \in 0 .. L - n - 1
        <4>1. m # L - n
          BY <3>1
        <4> QED BY <1>4, <1>5, <2>1, <3>1, <4>1
      <3>2. CASE m = L - n
        <4>1. L - m = n /\ m \notin 0 .. L - n - 1
          BY <3>2
        <4> QED BY <1>4, <2>1, <3>2, <4>1
      <3>3. CASE m > L - n
        <4>1. n = 2 /\ L - m = 1 /\ m \notin 0 .. L - n - 1 /\ m # L - n
          BY <2>1, <3>3
        <4> QED BY <1>4, <2>1, <4>1
      <3> QED BY <1>1, <2>1, <3>1, <3>2, <3>3
    <2>2. \A m \in 0 .. L - n - 1 : m \in 0 .. L - 1
      BY <1>1
    <2>3. L - n \in 0 .. L - 1
      BY <1>1
    <2> QED BY <1>4, <2>1, <2>2, <2>3
  <1>8. L - n \notin B
    BY <1>4
  <1>9. CASE p[n] \notin Statuses
    <2>1. A = B \cup {L - n}
      BY <1>7, <1>9
    <2>2. PICK x : x = L - n /\ x \notin B
      BY <1>8
    <2>3. Cardinality(B \cup {x}) = Cardinality(B) + 1
      BY <1>6, <2>2, FS_AddElement
    <2>4. Cardinality(A) = Cardinality(B) + 1
      BY <2>1, <2>2, <2>3
    <2> QED BY <1>2, <1>3, <1>6, <1>9, <2>4
  <1>10. CASE p[n] \in Statuses
    <2>1. A = B
      BY <1>7, <1>10
    <2> QED BY <1>2, <1>3, <1>6, <1>10, <2>1
  <1> QED BY <1>9, <1>10

-----------------------------------------------------------------------------
(* The rounds of process_packet                                            *)

\* A round takes nothing of a sysex.
Stays ==
    /\ stream'.inProgress = FALSE /\ stream'.word = <<>> /\ stream'.filters = stream.filters
    /\ passed' = passed /\ lost' = lost /\ sysexSent' = sysexSent /\ inside' = inside

LEMMA SettledStays == ASSUME Stays, Settled, stream.word = <<>> PROVE Settled'
  BY DEF Settled, Stays, Filtered

LEMMA MessageIs ==
    ASSUME InputType, stream.inProgress = FALSE, stream.word = <<>>, NEW b \in Heard, Message(b),
           sysexSent' = sysexSent, inside' = inside
    PROVE  Stays /\ shorts' = IF b = "STATUS" THEN shorts - 1 ELSE shorts
  <1>1. PICK c \in CallStates : c = Call
    BY CallIs
  <1>2. c.inProgress = FALSE /\ c.word = <<>> /\ c.filters = stream.filters /\ c.passed = passed /\ c.lost = lost /\ c.shorts = shorts
    BY <1>1, CallIs
  <1>3. PICK r : r = pm_read_short(c, b)
    OBVIOUS
  <1>4. SameWork(c, r) /\ r.shorts = IF b = "STATUS" THEN c.shorts - 1 ELSE c.shorts
    BY <1>2, <1>3, ShortIs
  <1>5. r \in CallStates /\ Return(r)
    BY <1>1, <1>3, <1>4 DEF SameWork, Message
  <1>6. /\ stream'.inProgress = r.inProgress /\ stream'.word = r.word /\ stream'.filters = r.filters
        /\ passed' = r.passed /\ lost' = r.lost /\ shorts' = r.shorts
    BY <1>5, ReturnIs
  <1> QED BY <1>2, <1>4, <1>6 DEF SameWork, Stays

\* pm_read_bytes, when it takes nothing
LEMMA ReadStays ==
    ASSUME InputType, stream.inProgress = FALSE, stream.word = <<>>, NEW data \in Seq(Heard),
           \A k \in 1 .. Len(data) : data[k] # "STATUS" /\ (data[k] = "SYSEX" => Filtered),
           Return(pm_read_bytes(data))
    PROVE  /\ stream'.inProgress = FALSE /\ stream'.word = <<>> /\ stream'.filters = stream.filters
           /\ OnlyBeginnings(passed, passed', data) /\ lost' = lost /\ shorts' = shorts
           /\ pm_read_bytes(data).i \in Nat \ {0} /\ (data # <<>> => pm_read_bytes(data).i > 1)
  <1>1. /\ Call \in CallStates /\ Call.inProgress = FALSE /\ Call.word = <<>> /\ Call.filters = stream.filters
        /\ Call.passed = passed /\ Call.lost = lost /\ Call.shorts = shorts
    BY CallIs
  <1>2. PICK r : r = pm_read_bytes(data)
    OBVIOUS
  <1>3. Quiet(r) /\ Unchanged(Call, r) /\ (data # <<>> => r.i > 1) /\ OnlyBeginnings(Call.passed, r.passed, data)
    <2>1. Quiet(Call) /\ NothingTaken(Call, data)
      BY <1>1 DEF Quiet, NothingTaken, Filtered
    <2> QED BY <1>1, <1>2, <2>1, ReadSkips
  <1>4. r \in CallStates /\ Return(r)
    BY <1>2, <1>3 DEF Unchanged
  <1>5. /\ stream'.inProgress = r.inProgress /\ stream'.word = r.word /\ stream'.filters = r.filters
        /\ passed' = r.passed /\ lost' = r.lost /\ shorts' = r.shorts
    BY <1>4, ReturnIs
  <1>6. r.i \in Nat \ {0}
    BY <1>4, CallFields
  <1> QED BY <1>1, <1>2, <1>3, <1>5, <1>6 DEF Quiet, Unchanged

\* Messages go from the front of the packet.
LEMMA ShortsDropped ==
    ASSUME InputType, AtShorts, Stays, stream.word = <<>>, NEW n \in {1, 2}, n <= Len(packet),
           n = 2 => packet[1] = "STATUS", packet[n] # "STATUS", packet[n] \notin Statuses => command' = "STATUS",
           packet' = Drop(packet, n), shorts' = shorts - (IF packet[n] \notin Statuses THEN 1 ELSE 0)
    PROVE  AtShorts'
  <1>1. PICK p \in Seq(Heard), L \in Nat : p = packet /\ L = Len(p) /\ n <= L
    BY LenProperties DEF InputType
  <1>2. PICK q : q = Drop(p, n) /\ q = packet' /\ q \in Seq(Heard) /\ Len(q) = L - n /\ \A k \in 1 .. L - n : q[k] = p[k + n]
    <2>1. PICK q : q = Drop(p, n)
      OBVIOUS
    <2>2. n \in Nat
      OBVIOUS
    <2>3. q \in Seq(Heard) /\ Len(q) = L - n /\ \A k \in 1 .. Len(q) : q[k] = p[k + n]
      BY <1>1, <2>1, <2>2, DropIs
    <2> QED BY <1>1, <2>1, <2>3
  <1>3. \A k \in 1 .. L :
            /\ p[k] \notin {"SYSEX", "EOX"}
            /\ p[k] = "STATUS" => k < L /\ p[k + 1] \notin Statuses
            /\ p[k] \notin Statuses => IF k = 1 THEN command = "STATUS" ELSE p[k - 1] \notin {"SYSEX", "EOX", "REALTIME"}
    BY <1>1 DEF AtShorts
  <1>4. stream'.inProgress = FALSE /\ inside' = FALSE /\ Settled'
    BY SettledStays DEF AtShorts, Stays
  <1>5. shorts' = Cardinality(DataFromEnd(q))
    <2>1. /\ Cardinality(DataFromEnd(p)) \in Nat
          /\ Cardinality(DataFromEnd(p)) = Cardinality(DataFromEnd(q)) + IF p[n] \notin Statuses THEN 1 ELSE 0
      <3>1. n = 2 => p[1] \in Statuses
        BY <1>1 DEF Statuses
      <3> QED BY <1>1, <1>2, <3>1, DataTaken
    <2>2. shorts = Cardinality(DataFromEnd(p))
      BY <1>1 DEF AtShorts
    <2>3. IsFiniteSet(DataFromEnd(q))
      <3>1. IsFiniteSet(0 .. Len(q) - 1)
        BY <1>1, <1>2, FS_Interval
      <3>2. DataFromEnd(q) \in SUBSET (0 .. Len(q) - 1)
        BY DEF DataFromEnd
      <3> QED BY <3>1, <3>2, FS_Subset
    <2>4. PICK a \in Nat, b \in Nat : a = Cardinality(DataFromEnd(p)) /\ b = Cardinality(DataFromEnd(q))
      BY <2>1, <2>3, FS_CardinalityType
    <2>5. shorts' = a - (IF p[n] \notin Statuses THEN 1 ELSE 0)
      BY <1>1, <2>2, <2>4
    <2>6. CASE p[n] \notin Statuses
      BY <2>1, <2>4, <2>5, <2>6
    <2>7. CASE p[n] \in Statuses
      BY <2>1, <2>4, <2>5, <2>7
    <2> QED BY <2>6, <2>7
  <1>6. ASSUME NEW k \in 1 .. L - n
        PROVE  /\ q[k] \notin {"SYSEX", "EOX"}
               /\ q[k] = "STATUS" => k < L - n /\ q[k + 1] \notin Statuses
               /\ q[k] \notin Statuses => IF k = 1 THEN command' = "STATUS" ELSE q[k - 1] \notin {"SYSEX", "EOX", "REALTIME"}
    <2>1. k + n \in 1 .. L /\ k + n # 1 /\ q[k] = p[k + n]
      <3>1. PICK m \in Nat : m = n /\ m > 0
        OBVIOUS
      <3>2. k + m \in 1 .. L /\ k + m # 1
        BY <3>1
      <3> QED BY <1>2, <3>1, <3>2
    <2>2. ASSUME q[k] = "STATUS" PROVE k < L - n /\ q[k + 1] \notin Statuses
      <3>1. k + n < L /\ p[k + n + 1] \notin Statuses
        BY <1>3, <2>1, <2>2
      <3>2. k < L - n /\ k + 1 \in 1 .. L - n /\ (k + 1) + n = k + n + 1
        BY <1>1, <3>1
      <3>3. q[k + 1] = p[k + n + 1]
        BY <1>2, <3>2
      <3> QED BY <3>1, <3>2, <3>3
    <2>3. ASSUME q[k] \notin Statuses, k = 1 PROVE command' = "STATUS"
      <3>1. (k + n) - 1 = n /\ n \in 1 .. L
        BY <1>1, <2>3
      <3>2. p[n] \notin {"SYSEX", "EOX", "REALTIME"}
        BY <1>3, <2>1, <2>3, <3>1
      <3>3. p[n] \notin Statuses
        BY <1>1, <3>2 DEF Statuses
      <3> QED BY <1>1, <3>3
    <2>4. ASSUME q[k] \notin Statuses, k # 1 PROVE q[k - 1] \notin {"SYSEX", "EOX", "REALTIME"}
      <3>1. k - 1 \in 1 .. L - n /\ (k - 1) + n = (k + n) - 1
        BY <1>1, <2>4
      <3>2. q[k - 1] = p[(k + n) - 1]
        BY <1>2, <3>1
      <3> QED BY <1>3, <2>1, <2>4, <3>2
    <2> QED BY <1>3, <2>1, <2>2, <2>3, <2>4
  <1> QED BY <1>2, <1>4, <1>5, <1>6 DEF AtShorts

LEMMA ShortsGo ==
    ASSUME InputType, Process, AtShorts, stream.inProgress = FALSE, stream.word = <<>>
    PROVE  Stays /\ AtShorts'
  <1>1. /\ packet # <<>> /\ packet[1] \in Heard /\ sysexSent' = sysexSent /\ inside' = inside
        /\ SysexRound \/ EoxRound \/ ShortRound \/ RunningRound \/ LastRound
    BY ProcessIs
  <1>2. PICK L \in Nat : L = Len(packet) /\ L > 0 /\ 1 \in 1 .. L
    <2>1. Len(packet) \in Nat /\ Len(packet) # 0
      BY <1>1, LenProperties, EmptySeq DEF InputType
    <2> QED BY <2>1
  <1>3. /\ packet[1] \notin {"SYSEX", "EOX"}
        /\ packet[1] = "STATUS" => 1 < L /\ packet[2] \notin Statuses
        /\ packet[1] \notin Statuses => command = "STATUS"
    <2>1. 1 + 1 = 2
      OBVIOUS
    <2> QED BY <1>2, <2>1 DEF AtShorts
  <1>4. LengthOf("STATUS") = 2 /\ LengthOf("REALTIME") = 1 /\ (command = "STATUS" => command # NONE /\ commandLength = 2)
    BY DEF LengthOf, InputType, NONE
  <1>5. shorts \in Int
    BY DEF InputType
  <1>6. CASE packet[1] = "STATUS"
    <2>1. packet[1] \in Statuses /\ LengthOf(packet[1]) = 2 /\ 2 <= Len(packet)
      BY <1>2, <1>3, <1>4, <1>6 DEF Statuses
    <2>2. ShortRound
      <3>1. ~(LengthOf(packet[1]) > Len(packet))
        BY <1>2, <2>1
      <3> QED BY <1>1, <1>6, <2>1, <3>1 DEF SysexRound, EoxRound, RunningRound, LastRound
    <2>3. Message("STATUS") /\ command' = "STATUS" /\ packet' = Drop(packet, 2)
      BY <1>6, <2>1, <2>2 DEF ShortRound
    <2>4. "STATUS" \in Heard
      BY DEF Heard, Statuses
    <2>5. Stays /\ shorts' = shorts - 1
      BY <1>1, <2>3, <2>4, MessageIs
    <2>6. AtShorts'
      <3>1. packet[2] \notin Statuses /\ packet[2] # "STATUS"
        BY <1>3, <1>6 DEF Statuses
      <3> QED BY <1>6, <2>1, <2>3, <2>5, <3>1, ShortsDropped
    <2> QED BY <2>5, <2>6
  <1>7. CASE packet[1] = "REALTIME"
    <2>1. packet[1] \in Statuses /\ LengthOf(packet[1]) = 1 /\ 1 <= Len(packet)
      BY <1>2, <1>4, <1>7 DEF Statuses
    <2>2. ShortRound
      <3>1. ~(LengthOf(packet[1]) > Len(packet))
        BY <1>2, <2>1
      <3> QED BY <1>1, <1>7, <2>1, <3>1 DEF SysexRound, EoxRound, RunningRound, LastRound
    <2>3. Message("REALTIME") /\ packet' = Drop(packet, 1)
      BY <1>7, <2>1, <2>2 DEF ShortRound
    <2>4. "REALTIME" \in Heard
      BY DEF Heard, Statuses
    <2>5. Stays /\ shorts' = shorts
      BY <1>1, <2>3, <2>4, MessageIs
    <2>6. shorts' = shorts - (IF packet[1] \notin Statuses THEN 1 ELSE 0)
      BY <1>5, <2>1, <2>5
    <2>7. AtShorts'
      BY <1>7, <2>1, <2>3, <2>5, <2>6, ShortsDropped
    <2> QED BY <2>5, <2>7
  <1>8. CASE packet[1] \notin Statuses
    <2>1. command = "STATUS" /\ command # NONE /\ commandLength = 2
      BY <1>3, <1>4, <1>8
    <2>2. commandLength - 1 = 1 /\ ~(commandLength > Len(packet) + 1) /\ 1 <= Len(packet)
      BY <1>2, <2>1
    <2>3. RunningRound
      BY <1>1, <1>8, <2>1, <2>2 DEF SysexRound, EoxRound, ShortRound, LastRound, Statuses
    <2>4. Message("STATUS") /\ command' = "STATUS" /\ packet' = Drop(packet, 1)
      BY <2>1, <2>2, <2>3 DEF RunningRound
    <2>5. "STATUS" \in Heard
      BY DEF Heard, Statuses
    <2>6. Stays /\ shorts' = shorts - 1
      BY <1>1, <2>4, <2>5, MessageIs
    <2>7. packet[1] # "STATUS"
      BY <1>8 DEF Statuses
    <2>8. AtShorts'
      BY <1>8, <2>2, <2>4, <2>6, <2>7, ShortsDropped
    <2> QED BY <2>6, <2>8
  <1> QED BY <1>3, <1>6, <1>7, <1>8 DEF Statuses

\* What is left of a sysex that is not taken
LEMMA RestDropped ==
    ASSUME InputType, AtRest, stream.word = <<>>, Stays, shorts' = shorts, command' # "STATUS",
           NEW n \in Nat, packet' = Drop(packet, n) \/ packet' = <<>>
    PROVE  AtRest'
  <1>1. packet \in Seq(Heard)
    BY DEF InputType
  <1>2. \A k \in 1 .. Len(packet') : packet'[k] \notin {"SYSEX", "STATUS"}
    <2>1. CASE packet' = Drop(packet, n)
      <3>1. \A k \in 1 .. Len(packet') : packet'[k] = packet[k + n] /\ k + n \in 1 .. Len(packet)
        BY <1>1, <2>1, DropIs
      <3> QED BY <3>1 DEF AtRest
    <2>2. CASE packet' = <<>>
      <3>1. Len(packet') = 0
        BY <2>2, EmptySeq
      <3> QED BY <3>1
    <2> QED BY <2>1, <2>2
  <1>3. Settled' /\ (Filtered' \/ lost')
    BY SettledStays DEF AtRest, Stays, Filtered
  <1> QED BY <1>2, <1>3 DEF AtRest, Stays

LEMMA RestGoes ==
    ASSUME InputType, Process, AtRest, stream.inProgress = FALSE, stream.word = <<>>
    PROVE  Stays /\ AtRest'
  <1>1. /\ packet # <<>> /\ packet[1] \in Heard /\ sysexSent' = sysexSent /\ inside' = inside
        /\ SysexRound \/ EoxRound \/ ShortRound \/ RunningRound \/ LastRound
    BY ProcessIs
  <1>2. PICK L \in Nat : L = Len(packet) /\ L > 0 /\ 1 \in 1 .. L
    <2>1. Len(packet) \in Nat /\ Len(packet) # 0
      BY <1>1, LenProperties, EmptySeq DEF InputType
    <2> QED BY <2>1
  <1>3. packet[1] \notin {"SYSEX", "STATUS"} /\ command # "STATUS" /\ NONE # "STATUS"
    BY <1>2 DEF AtRest, NONE
  <1>4. CASE SysexRound
    <2>1. packet \in Seq(Heard) /\ Return(pm_read_bytes(packet)) /\ command' = NONE
      BY <1>4 DEF SysexRound, InputType
    <2>2. \A k \in 1 .. Len(packet) : packet[k] # "STATUS" /\ (packet[k] = "SYSEX" => Filtered)
      BY DEF AtRest
    <2>3. PICK i : i = pm_read_bytes(packet).i
      OBVIOUS
    <2>4. /\ stream'.inProgress = FALSE /\ stream'.word = <<>> /\ stream'.filters = stream.filters
          /\ passed' = passed /\ lost' = lost /\ shorts' = shorts /\ i \in Nat \ {0}
      <3>1. \A k \in 1 .. Len(packet) : packet[k] # "SYSEX"
        BY DEF AtRest
      <3> QED BY <2>1, <2>2, <2>3, <3>1, ReadStays DEF OnlyBeginnings
    <2>5. i - 1 \in Nat /\ packet' = Drop(packet, i - 1)
      BY <1>4, <2>3, <2>4 DEF SysexRound
    <2>6. Stays
      BY <1>1, <2>4 DEF Stays
    <2> QED BY <1>3, <2>1, <2>4, <2>5, <2>6, RestDropped
  <1>5. CASE EoxRound
    <2>1. /\ Call \in CallStates /\ Call.inProgress = FALSE /\ Call.word = <<>> /\ Call.filters = stream.filters
          /\ Call.passed = passed /\ Call.lost = lost /\ Call.shorts = shorts
      BY CallIs
    <2>2. PICK c : c = [Call EXCEPT !.inProgress = FALSE]
      OBVIOUS
    <2>3. /\ c \in CallStates /\ c.inProgress = FALSE /\ c.word = <<>> /\ c.filters = stream.filters
          /\ c.passed = passed /\ c.lost = lost /\ c.shorts = shorts
      BY <2>1, <2>2 DEF CallStates
    <2>4. Return(c) /\ command' = NONE /\ packet' = packet
      BY <1>5, <2>2 DEF EoxRound
    <2>5. Stays /\ shorts' = shorts
      BY <1>1, <2>3, <2>4, ReturnIs DEF Stays
    <2>6. Settled' /\ (Filtered' \/ lost')
      BY <2>5, SettledStays DEF AtRest, Stays, Filtered
    <2>7. AtRest'
      BY <1>3, <2>4, <2>5, <2>6 DEF AtRest, Stays
    <2> QED BY <2>5, <2>7
  <1>6. CASE ShortRound
    <2>1. packet[1] = "REALTIME" /\ Message(packet[1]) /\ command' = packet[1] /\ packet' = Drop(packet, LengthOf(packet[1]))
      BY <1>3, <1>6 DEF ShortRound
    <2>2. Stays /\ shorts' = shorts
      BY <1>1, <2>1, MessageIs
    <2>3. LengthOf(packet[1]) \in Nat
      BY LengthOfType
    <2> QED BY <2>1, <2>2, <2>3, RestDropped
  <1>7. CASE RunningRound
    <2>1. command = "REALTIME" /\ commandLength = LengthOf(command)
      BY <1>3, <1>7 DEF RunningRound, InputType, Commands
    <2>2. command \in Heard /\ commandLength - 1 \in Nat
      BY <2>1, LengthOfType DEF Heard, Statuses
    <2>3. Message(command) /\ command' = command /\ packet' = Drop(packet, commandLength - 1)
      BY <1>7 DEF RunningRound
    <2>4. Stays /\ shorts' = shorts
      BY <1>1, <2>1, <2>2, <2>3, MessageIs
    <2> QED BY <1>3, <2>2, <2>3, <2>4, RestDropped
  <1>8. CASE LastRound
    <2>1. /\ stream' = stream /\ passed' = passed /\ lost' = lost /\ shorts' = shorts
          /\ command' = command /\ packet' = <<>>
      BY <1>8 DEF LastRound
    <2>2. Stays
      BY <1>1, <2>1 DEF Stays
    <2> QED BY <1>3, <2>1, <2>2, RestDropped
  <1> QED BY <1>1, <1>4, <1>5, <1>6, <1>7, <1>8

LEMMA RestHolds ==
    ASSUME stream'.inProgress = FALSE, stream'.word = <<>>, Filtered' => passed' \in Beginnings,
           BeginsOnce(sysexSent'), AtRest'
    PROVE  Moving'
  <1>1. Settled' /\ shorts' = 0 /\ (Filtered' \/ lost') /\ command' # "STATUS"
    BY DEF AtRest
  <1>2. Between'
    BY <1>1 DEF Between
  <1> QED BY <1>2 DEF Moving

LEMMA ShortsHold ==
    ASSUME stream'.inProgress = FALSE, stream'.word = <<>>, Filtered' => passed' \in Beginnings,
           BeginsOnce(sysexSent'), AtShorts'
    PROVE  Moving'
  <1>1. packet' = <<>> => Between'
    <2> SUFFICES ASSUME packet' = <<>> PROVE Between'
      OBVIOUS
    <2>1. Len(packet') = 0
      BY EmptySeq
    <2>2. 0 .. Len(packet') - 1 = {}
      BY <2>1
    <2>3. DataFromEnd(packet') = {}
      BY <2>2 DEF DataFromEnd
    <2>4. shorts' = 0
      BY <2>3, FS_EmptySet DEF AtShorts
    <2>5. inside' = FALSE /\ Settled'
      BY DEF AtShorts
    <2> QED BY <2>4, <2>5 DEF Between
  <1> QED BY <1>1 DEF Moving

\* A sysex is taken, to the end of its packet or to an event that is refused.
Takes(data, h) ==
    /\ stream'.filters = stream.filters /\ shorts' = shorts
    /\ pm_read_bytes(data).i \in Nat /\ pm_read_bytes(data).i > 1
    /\ \/ /\ lost' = FALSE /\ passed' \o stream'.word = h /\ pm_read_bytes(data).i = Len(data) + 1
          /\ stream'.inProgress = TRUE <=> data[Len(data)] # "EOX"
          /\ stream'.inProgress = FALSE => stream'.word = <<>>
       \/ lost' = TRUE /\ stream'.inProgress = FALSE /\ stream'.word = <<>> /\ IsPrefixOf(passed', h)

LEMMA TakesIs ==
    ASSUME InputType, NEW data \in Seq(Heard), NEW h, Heeded(Call, pm_read_bytes(data), data, h), Return(pm_read_bytes(data))
    PROVE  Takes(data, h)
  <1>1. PICK r : r = pm_read_bytes(data)
    OBVIOUS
  <1>2. r \in CallStates /\ Return(r) /\ Heeded(Call, r, data, h)
    BY <1>1 DEF Heeded
  <1>3. /\ stream'.inProgress = r.inProgress /\ stream'.word = r.word /\ stream'.filters = r.filters
        /\ passed' = r.passed /\ lost' = r.lost /\ shorts' = r.shorts
    BY <1>2, ReturnIs
  <1>4. Call.filters = stream.filters /\ Call.shorts = shorts
    BY CallIs
  <1>5. r.i \in Nat /\ r.i > 1 /\ stream'.filters = stream.filters /\ shorts' = shorts
    BY <1>2, <1>3, <1>4, CallFields DEF Heeded, Like
  <1> QED BY <1>1, <1>2, <1>3, <1>5 DEF Heeded, Takes

\* The first part of a sysex
LEMMA BeginTaken ==
    ASSUME InputType, stream.inProgress = FALSE, stream.word = <<>>, ~Filtered, NEW data \in Seq(Heard), data # <<>>, data[1] = "SYSEX",
           \A k \in 1 .. Len(data) : (data[k] = "SYSEX" => k = 1) /\ (data[k] = "EOX" => k = Len(data)),
           Return(pm_read_bytes(data))
    PROVE  Takes(data, Selected(data, Kept))
  <1>1. /\ Call \in CallStates /\ Call.inProgress = FALSE /\ Call.word = <<>> /\ Call.filters = stream.filters
    BY CallIs
  <1>2. Quiet(Call) /\ "SYSEX" \notin Call.filters /\ KeptBy(Call) = Kept
    BY <1>1 DEF Quiet, Filtered, KeptBy, Kept
  <1>3. Heeded(Call, pm_read_bytes(data), data, Selected(data, KeptBy(Call)))
    BY <1>1, <1>2, ReadBegins
  <1> QED BY <1>2, <1>3, TakesIs

\* The next part
LEMMA NextTaken ==
    ASSUME InputType, stream.inProgress = TRUE, lost = FALSE, passed \o stream.word = sysexSent, BeginsOnce(sysexSent),
           NEW data \in Seq(Heard), data # <<>>,
           \A k \in 1 .. Len(data) : data[k] # "SYSEX" /\ (data[k] = "EOX" => k = Len(data)),
           Return(pm_read_bytes(data))
    PROVE  Takes(data, sysexSent \o Selected(data, Kept))
  <1>1. /\ Call \in CallStates /\ Call.inProgress = TRUE /\ Call.lost = FALSE /\ Call.word = stream.word
        /\ Call.passed = passed /\ Call.filters = stream.filters
    BY CallIs
  <1>2. KeptBy(Call) = Kept /\ Call.passed \o Call.word = sysexSent /\ BeginsOnce(Call.passed \o Call.word)
    BY <1>1 DEF KeptBy, Kept
  <1>3. Heeded(Call, pm_read_bytes(data), data, Call.passed \o Call.word \o Selected(data, KeptBy(Call)))
    BY <1>1, <1>2, ReadGoesOn
  <1>4. Heeded(Call, pm_read_bytes(data), data, sysexSent \o Selected(data, Kept))
    BY <1>2, <1>3
  <1> QED BY <1>4, TakesIs

\* After the first part
LEMMA BeforeDropped ==
    ASSUME InputType, BeforeSysex, packet[1] = "SYSEX"
    PROVE  /\ sysexSent = Selected(packet, Kept)
           /\ inside = TRUE <=> packet[Len(packet)] # "EOX"
           /\ \A k \in 1 .. Len(packet) : /\ packet[k] = "SYSEX" => k = 1
                                          /\ packet[k] = "EOX" => k = Len(packet)
                                          /\ packet[k] # "STATUS"
  <1>1. PICK j \in Nat : Begins(j)
    BY DEF BeforeSysex
  <1>2. PICK L \in Nat : L = Len(packet) /\ packet \in Seq(Heard) /\ j < L
    BY <1>1, LenProperties DEF InputType, Begins
  <1>3. 1 \in 1 .. L
    BY <1>2
  <1>4. 1 = j + 1
    BY <1>1, <1>2, <1>3 DEF Begins
  <1>5. j = 0
    BY <1>4
  <1>6. SubSeq(packet, j + 1, Len(packet)) = packet
    BY <1>2, <1>4, SubSeqFull
  <1>7. inside \in BOOLEAN
    BY DEF InputType
  <1> QED BY <1>1, <1>4, <1>6, <1>7 DEF Begins, BeforeSysex

LEMMA SysexGoes ==
    ASSUME InputType, Moving, Process, BeforeSysex, packet[1] = "SYSEX"
    PROVE  Moving'
  <1>1. /\ packet # <<>> /\ sysexSent' = sysexSent /\ inside' = inside
        /\ SysexRound \/ EoxRound \/ ShortRound \/ RunningRound \/ LastRound
    BY ProcessIs
  <1>2. stream.inProgress = FALSE /\ stream.word = <<>> /\ shorts = 0 /\ BeginsOnce(sysexSent) /\ (Filtered => passed \in Beginnings)
    BY DEF BeforeSysex, Moving
  <1>3. /\ sysexSent = Selected(packet, Kept)
        /\ inside = TRUE <=> packet[Len(packet)] # "EOX"
        /\ \A k \in 1 .. Len(packet) : /\ packet[k] = "SYSEX" => k = 1
                                       /\ packet[k] = "EOX" => k = Len(packet)
                                       /\ packet[k] # "STATUS"
    BY BeforeDropped
  <1>4. SysexRound
    BY <1>1 DEF EoxRound, ShortRound, RunningRound, LastRound, Statuses
  <1>5. packet \in Seq(Heard) /\ Return(pm_read_bytes(packet)) /\ command' = NONE /\ NONE # "STATUS"
    BY <1>4 DEF InputType, SysexRound, NONE
  <1>6. PICK i : i = pm_read_bytes(packet).i /\ packet' = Drop(packet, i - 1)
    BY <1>4 DEF SysexRound
  <1>7. ASSUME i \in Nat, i > 1 PROVE \A k \in 1 .. Len(packet') : packet'[k] \notin {"SYSEX", "STATUS"}
    <2>1. i - 1 \in Nat
      BY <1>7
    <2>2. PICK n \in Nat : n = i - 1 /\ n > 0
      BY <1>7, <2>1
    <2>3. \A k \in 1 .. Len(packet') : packet'[k] = packet[k + n] /\ k + n \in 1 .. Len(packet)
      BY <1>5, <1>6, <2>2, DropIs
    <2>4. \A k \in 1 .. Len(packet') : k + n # 1
      BY <2>2
    <2> QED BY <1>3, <2>3, <2>4
  <1>8. CASE Filtered
    <2>1. \A k \in 1 .. Len(packet) : packet[k] # "STATUS" /\ (packet[k] = "SYSEX" => Filtered)
      BY <1>3, <1>8
    <2>2. /\ stream'.inProgress = FALSE /\ stream'.word = <<>> /\ stream'.filters = stream.filters
          /\ passed' \in Beginnings /\ shorts' = shorts /\ i \in Nat \ {0} /\ i > 1
      BY <1>1, <1>2, <1>5, <1>6, <1>8, <2>1, ReadStays DEF OnlyBeginnings
    <2>3. Filtered' /\ Settled'
      BY <1>8, <2>2 DEF Filtered, Settled
    <2>4. AtRest'
      BY <1>2, <1>5, <1>7, <2>2, <2>3 DEF AtRest
    <2> QED BY <1>1, <1>2, <1>8, <2>2, <2>4, RestHolds
  <1>9. CASE ~Filtered
    <2>1. Takes(packet, sysexSent)
      BY <1>1, <1>2, <1>3, <1>5, <1>9, BeginTaken
    <2>2. ~Filtered' /\ shorts' = 0 /\ i \in Nat /\ i > 1
      BY <1>2, <1>6, <1>9, <2>1 DEF Takes, Filtered
    <2>3. CASE /\ lost' = FALSE /\ passed' \o stream'.word = sysexSent /\ i = Len(packet) + 1
               /\ stream'.inProgress = TRUE <=> packet[Len(packet)] # "EOX"
               /\ stream'.inProgress = FALSE => stream'.word = <<>>
      <3>1. packet' = <<>>
        <4>1. Len(packet) \in Nat
          BY <1>5, LenProperties
        <4>2. i - 1 = Len(packet)
          BY <2>3, <4>1
        <4>3. Len(packet) >= Len(packet)
          BY <4>1
        <4> QED BY <1>5, <1>6, <4>1, <4>2, <4>3, DropIs
      <3>2. Settled'
        BY <1>1, <2>3 DEF Settled
      <3>3. inside' = TRUE <=> stream'.inProgress = TRUE
        BY <1>1, <1>3, <2>3
      <3>4. Between'
        BY <1>5, <2>2, <3>2, <3>3 DEF Between
      <3> QED BY <1>1, <1>2, <1>5, <2>2, <2>3, <3>1, <3>3, <3>4 DEF Moving
    <2>4. CASE lost' = TRUE /\ stream'.inProgress = FALSE /\ stream'.word = <<>> /\ IsPrefixOf(passed', sysexSent)
      <3>1. Settled'
        BY <1>1, <2>4 DEF Settled
      <3>2. AtRest'
        BY <1>5, <1>7, <2>2, <2>4, <3>1 DEF AtRest
      <3> QED BY <1>1, <1>2, <2>2, <2>4, <3>2, RestHolds
    <2> QED BY <1>6, <2>1, <2>3, <2>4 DEF Takes
  <1> QED BY <1>8, <1>9

LEMMA RealTimeGoes ==
    ASSUME InputType, Moving, Process, BeforeSysex, packet[1] # "SYSEX"
    PROVE  Moving'
  <1>1. /\ packet # <<>> /\ sysexSent' = sysexSent /\ inside' = inside
        /\ SysexRound \/ EoxRound \/ ShortRound \/ RunningRound \/ LastRound
    BY ProcessIs
  <1>2. stream.inProgress = FALSE /\ stream.word = <<>> /\ shorts = 0 /\ BeginsOnce(sysexSent) /\ (Filtered => passed \in Beginnings)
    BY DEF BeforeSysex, Moving
  <1>3. PICK j \in Nat : Begins(j)
    BY DEF BeforeSysex
  <1>4. PICK L \in Nat, p \in Seq(Heard) : p = packet /\ L = Len(p) /\ j < L
    <2>1. packet \in Seq(Heard) /\ Len(packet) \in Nat /\ j < Len(packet)
      BY <1>3, LenProperties DEF InputType, Begins
    <2> QED BY <2>1
  <1>5. p[j + 1] = "SYSEX" /\ sysexSent = Selected(SubSeq(p, j + 1, L), Kept)
    BY <1>3, <1>4 DEF Begins
  <1>6. \A k \in 1 .. L : /\ k <= j => p[k] = "REALTIME"
                          /\ p[k] = "SYSEX" => k = j + 1
                          /\ p[k] = "EOX" => k = L
                          /\ p[k] # "STATUS"
    BY <1>3, <1>4 DEF Begins
  <1>7. j > 0
    <2>1. j = 0 => j + 1 = 1
      OBVIOUS
    <2>2. j # 0
      BY <1>4, <1>5, <2>1
    <2> QED BY <2>2
  <1>8. PICK m \in Nat : j = m + 1
    <2>1. j - 1 \in Nat /\ j = (j - 1) + 1
      BY <1>7
    <2> QED BY <2>1
  <1>9. p[1] = "REALTIME"
    <2>1. 1 \in 1 .. L /\ 1 <= j
      BY <1>4, <1>7
    <2> QED BY <1>6, <2>1
  <1>10. LengthOf("REALTIME") = 1 /\ ~(LengthOf("REALTIME") > L)
    BY <1>4, <1>7 DEF LengthOf
  <1>11. Message("REALTIME") /\ command' = "REALTIME" /\ packet' = Drop(p, 1)
    <2>1. ShortRound
      BY <1>1, <1>4, <1>9, <1>10 DEF SysexRound, EoxRound, RunningRound, LastRound, Statuses
    <2> QED BY <1>4, <1>9, <1>10, <2>1 DEF ShortRound
  <1>12. Stays /\ shorts' = shorts
    <2>1. "REALTIME" \in Heard
      BY DEF Heard, Statuses
    <2> QED BY <1>1, <1>2, <1>11, <2>1, MessageIs
  <1>13. PICK q : q = packet' /\ q = Drop(p, 1) /\ Len(q) = L - 1 /\ \A k \in 1 .. L - 1 : q[k] = p[k + 1]
    <2>1. PICK q : q = Drop(p, 1)
      OBVIOUS
    <2>2. 1 \in Nat /\ 1 <= L
      BY <1>4, <1>7
    <2>3. Len(q) = L - 1 /\ \A k \in 1 .. Len(q) : q[k] = p[k + 1]
      BY <1>4, <2>1, <2>2, DropIs
    <2> QED BY <1>11, <2>1, <2>3
  <1>14. Begins(m)'
    <2>1. m < L - 1 /\ m + 1 \in 1 .. L - 1 /\ (m + 1) + 1 = j + 1
      BY <1>4, <1>8
    <2>2. q[m + 1] = "SYSEX"
      BY <1>5, <1>13, <2>1
    <2>3. ASSUME NEW k \in 1 .. L - 1
          PROVE  /\ k <= m => q[k] = "REALTIME"
                 /\ q[k] = "SYSEX" => k = m + 1
                 /\ q[k] = "EOX" => k = L - 1
                 /\ q[k] # "STATUS"
      <3>1. k + 1 \in 1 .. L /\ (k <= m => k + 1 <= j) /\ (k + 1 = j + 1 => k = m + 1) /\ (k + 1 = L => k = L - 1)
        BY <1>4, <1>8
      <3>2. q[k] = p[k + 1]
        BY <1>13
      <3> QED BY <1>6, <3>1, <3>2
    <2>4. SubSeq(q, m + 1, L - 1) = SubSeq(p, j + 1, L)
      <3>1. PICK a, b, c, d : a = 2 /\ b = L /\ c = m + 1 /\ d = L - 1
        OBVIOUS
      <3>2. a \in 1 .. Len(p) /\ b \in 1 .. Len(p) /\ c \in 1 .. b - a + 1 /\ d \in 1 .. b - a + 1
        BY <1>4, <1>7, <1>8, <3>1
      <3>3. SubSeq(SubSeq(p, a, b), c, d) = SubSeq(p, a + c - 1, a + d - 1)
        BY <1>4, <3>2, SubSeqOfSubSeq
      <3>4. a + c - 1 = j + 1 /\ a + d - 1 = L
        BY <1>4, <1>8, <3>1
      <3>5. q = SubSeq(p, a, b)
        BY <1>4, <1>13, <3>1 DEF Drop
      <3> QED BY <3>1, <3>3, <3>4, <3>5
    <2>5. Kept' = Kept
      BY <1>12 DEF Stays, Kept
    <2>6. sysexSent' = Selected(SubSeq(q, m + 1, L - 1), Kept')
      BY <1>1, <1>5, <2>4, <2>5
    <2> QED BY <1>13, <2>1, <2>2, <2>3, <2>6 DEF Begins
  <1>15. BeforeSysex'
    <2>1. q[L - 1] = p[L]
      <3>1. L - 1 \in 1 .. L - 1 /\ (L - 1) + 1 = L
        BY <1>4, <1>8
      <3> QED BY <1>13, <3>1
    <2>2. inside' <=> q[L - 1] # "EOX"
      BY <1>1, <1>4, <2>1 DEF BeforeSysex
    <2>3. \E n \in Nat : Begins(n)'
      BY <1>14
    <2> QED BY <1>2, <1>12, <1>13, <2>2, <2>3 DEF BeforeSysex, Stays
  <1>16. packet' # <<>>
    <2>1. Len(q) # 0
      BY <1>4, <1>8, <1>13
    <2> QED BY <1>13, <2>1, EmptySeq
  <1> QED BY <1>1, <1>2, <1>12, <1>15, <1>16 DEF Moving, Stays, Filtered

\* A real-time byte between the bytes of a sysex that is taken is one of them.
LEMMA RealTimeTaken ==
    ASSUME InputType, stream.inProgress = TRUE, lost = FALSE, Message("REALTIME"), NEW w,
           w = IF "REALTIME" \in Kept THEN Append(passed \o stream.word, "REALTIME") ELSE passed \o stream.word,
           BeginsOnce(w)
    PROVE  /\ stream'.filters = stream.filters /\ shorts' = shorts
           /\ \/ passed' \o stream'.word = w /\ stream'.inProgress = TRUE /\ lost' = FALSE
              \/ passed' = passed /\ stream'.word = <<>> /\ stream'.inProgress = FALSE /\ lost' = TRUE
  <1>1. PICK c \in CallStates : c = Call
    BY CallIs
  <1>2. /\ c.inProgress = TRUE /\ c.word = stream.word /\ c.filters = stream.filters /\ c.passed = passed
        /\ c.lost = FALSE /\ c.shorts = shorts
    BY <1>1, CallIs
  <1>3. PICK r : r = pm_read_short(c, "REALTIME")
    OBVIOUS
  <1>4. "REALTIME" \in Heard /\ "REALTIME" # "STATUS" /\ ("REALTIME" \in Kept <=> "REALTIME" \notin c.filters)
    BY <1>2 DEF Heard, Statuses, Kept, DataBytes
  <1>5. r = IF "REALTIME" \in c.filters THEN c ELSE AddByte(c, "REALTIME")
    BY <1>2, <1>3, <1>4 DEF pm_read_short
  <1>6. Taken(c, r, w)
    <2>1. CASE "REALTIME" \in c.filters
      <3>1. r = c /\ w = passed \o stream.word
        BY <1>4, <1>5, <2>1
      <3> QED BY <1>1, <1>2, <3>1 DEF Taken
    <2>2. CASE "REALTIME" \notin c.filters
      <3>1. r = AddByte(c, "REALTIME") /\ w = Append(c.passed \o c.word, "REALTIME")
        BY <1>2, <1>4, <1>5, <2>2
      <3> QED BY <1>4, <3>1, AddByteIs
    <2> QED BY <2>1, <2>2
  <1>7. r \in CallStates /\ Return(r)
    BY <1>1, <1>3, <1>6 DEF Taken, Message
  <1>8. /\ stream'.inProgress = r.inProgress /\ stream'.word = r.word /\ stream'.filters = r.filters
        /\ passed' = r.passed /\ lost' = r.lost /\ shorts' = r.shorts
    BY <1>7, ReturnIs
  <1> QED BY <1>2, <1>6, <1>8 DEF Taken

\* The rest of a growth is one.
LEMMA GrowsOn ==
    ASSUME NEW p \in Seq(Heard), NEW T, NEW g, Grows(g, p, T), NEW L \in Nat, L + 1 = Len(p),
           NEW q, Len(q) = L, \A k \in 1 .. L : q[k] = p[k + 1]
    PROVE  \E h : Grows(h, q, T) /\ h[0] = g[1] /\ h[L] = g[L + 1]
  <1>1. PICK h : h = [n \in 0 .. L |-> g[n + 1]]
    OBVIOUS
  <1>2. g \in [0 .. L + 1 -> Seq(Heard)] /\ \A n \in 0 .. L : n + 1 \in 0 .. L + 1
    <2>1. g \in [0 .. Len(p) -> Seq(Heard)]
      BY DEF Grows
    <2>2. \A n \in 0 .. L : n + 1 \in 0 .. L + 1
      OBVIOUS
    <2> QED BY <2>1, <2>2
  <1>3. h \in [0 .. L -> Seq(Heard)]
    BY <1>1, <1>2
  <1>4. ASSUME NEW m \in 1 .. L
        PROVE  h[m] = IF q[m] \in T THEN Append(h[m - 1], q[m]) ELSE h[m - 1]
    <2>1. m - 1 \in 0 .. L /\ m \in 0 .. L /\ m + 1 \in 1 .. Len(p) /\ (m - 1) + 1 = m /\ (m + 1) - 1 = m
      OBVIOUS
    <2>2. h[m] = g[m + 1] /\ h[m - 1] = g[m] /\ q[m] = p[m + 1]
      BY <1>1, <2>1
    <2>3. g[m + 1] = IF p[m + 1] \in T THEN Append(g[m], p[m + 1]) ELSE g[m]
      BY <2>1 DEF Grows
    <2> QED BY <2>2, <2>3
  <1>5. h[0] = g[1] /\ h[L] = g[L + 1]
    <2>1. 0 \in 0 .. L /\ L \in 0 .. L /\ 0 + 1 = 1
      OBVIOUS
    <2> QED BY <1>1, <2>1
  <1> QED BY <1>3, <1>4, <1>5 DEF Grows

\* What comes first in a sysex that begins once begins once.
LEMMA PrefixBegins ==
    ASSUME NEW u \in Seq(Heard), NEW t \in Seq(Heard), IsPrefixOf(u, t), BeginsOnce(t)
    PROVE  BeginsOnce(u)
  <1>1. PICK m \in Nat, n \in Nat : m = Len(u) /\ n = Len(t) /\ m <= n /\ \A i \in 1 .. m : u[i] = t[i]
    BY LenProperties DEF IsPrefixOf
  <1>2. \A i \in 1 .. m : i \in 1 .. n
    BY <1>1
  <1> QED BY <1>1, <1>2 DEF BeginsOnce

LEMMA EmbeddedGoes ==
    ASSUME InputType, Moving, Process, Embedded
    PROVE  Moving' \/ Held'
  <1>1. /\ packet # <<>> /\ sysexSent' = sysexSent /\ inside' = inside
        /\ SysexRound \/ EoxRound \/ ShortRound \/ RunningRound \/ LastRound
    BY ProcessIs
  <1>2. PICK p \in Seq(Heard), L \in Nat : p = packet /\ L + 1 = Len(p)
    <2>1. Len(packet) \in Nat /\ Len(packet) # 0 /\ packet \in Seq(Heard)
      BY <1>1, LenProperties, EmptySeq DEF InputType
    <2>2. Len(packet) - 1 \in Nat /\ (Len(packet) - 1) + 1 = Len(packet)
      BY <2>1
    <2> QED BY <2>1, <2>2
  <1>3. PICK g : Grows(g, p, Kept) /\ g[0] = passed \o stream.word /\ g[L + 1] = sysexSent
    <2>1. PICK g : Follows(g)
      BY DEF Embedded
    <2> QED BY <1>2, <2>1 DEF Follows
  <1>4. /\ stream.inProgress = TRUE /\ ~Filtered /\ lost = FALSE /\ shorts = 0 /\ p[1] = "REALTIME"
        /\ inside <=> p[L + 1] # "EOX"
        /\ \A k \in 1 .. L + 1 : p[k] \notin {"SYSEX", "STATUS"} /\ (p[k] = "EOX" => k = L + 1)
    BY <1>2 DEF Embedded
  <1>5. LengthOf("REALTIME") = 1 /\ ~(LengthOf("REALTIME") > L + 1)
    BY <1>2 DEF LengthOf
  <1>6. Message("REALTIME") /\ command' = "REALTIME" /\ packet' = Drop(p, 1)
    <2>1. ShortRound
      BY <1>1, <1>2, <1>4, <1>5 DEF SysexRound, EoxRound, RunningRound, LastRound, Statuses
    <2> QED BY <1>2, <1>4, <1>5, <2>1 DEF ShortRound
  <1>7. PICK q : q = packet' /\ Len(q) = L /\ (\A k \in 1 .. L : q[k] = p[k + 1]) /\ (L = 0 => q = <<>>)
    <2>1. PICK q : q = Drop(p, 1)
      OBVIOUS
    <2>2. 1 \in Nat /\ 1 <= Len(p) /\ Len(p) - 1 = L
      BY <1>2
    <2>3. Len(q) = L /\ (\A k \in 1 .. Len(q) : q[k] = p[k + 1])
      BY <2>1, <2>2, DropIs
    <2>4. L = 0 => q = <<>>
      BY <1>2, <2>1, <2>2, DropIs
    <2> QED BY <1>6, <2>1, <2>3, <2>4
  <1>8. g[1] = IF "REALTIME" \in Kept THEN Append(passed \o stream.word, "REALTIME") ELSE passed \o stream.word
    <2>1. 1 \in 1 .. Len(p) /\ 1 - 1 = 0
      BY <1>2
    <2>2. g[1] = IF p[1] \in Kept THEN Append(g[1 - 1], p[1]) ELSE g[1 - 1]
      BY <1>3, <2>1 DEF Grows
    <2> QED BY <1>3, <1>4, <2>1, <2>2
  <1>9. BeginsOnce(sysexSent) /\ sysexSent \in Seq(Heard)
    BY DEF Moving, InputType
  <1>10. BeginsOnce(g[1])
    <2>1. 1 \in 0 .. Len(p)
      BY <1>2
    <2>2. IsPrefixOf(g[1], sysexSent)
      BY <1>2, <1>3, <2>1, GrowsPrefix
    <2>3. g[1] \in Seq(Heard)
      BY <1>3, <2>1 DEF Grows
    <2> QED BY <1>9, <2>2, <2>3, PrefixBegins
  <1>11. /\ stream'.filters = stream.filters /\ shorts' = shorts
         /\ \/ passed' \o stream'.word = g[1] /\ stream'.inProgress = TRUE /\ lost' = FALSE
            \/ passed' = passed /\ stream'.word = <<>> /\ stream'.inProgress = FALSE /\ lost' = TRUE
    BY <1>4, <1>6, <1>8, <1>10, RealTimeTaken
  <1>12. ~Filtered' /\ Kept' = Kept
    BY <1>4, <1>11 DEF Filtered, Kept
  <1>13. \A k \in 1 .. L : /\ k + 1 \in 1 .. L + 1 /\ (k + 1 = L + 1 => k = L)
                           /\ q[k] \notin {"SYSEX", "STATUS"} /\ (q[k] = "EOX" => k = L)
    <2> SUFFICES ASSUME NEW k \in 1 .. L
                 PROVE  /\ k + 1 \in 1 .. L + 1 /\ (k + 1 = L + 1 => k = L)
                        /\ q[k] \notin {"SYSEX", "STATUS"} /\ (q[k] = "EOX" => k = L)
      OBVIOUS
    <2>1. k + 1 \in 1 .. L + 1 /\ (k + 1 = L + 1 => k = L)
      OBVIOUS
    <2>2. q[k] = p[k + 1]
      BY <1>7
    <2> QED BY <1>4, <2>1, <2>2
  <1>14. CASE passed' = passed /\ stream'.word = <<>> /\ stream'.inProgress = FALSE /\ lost' = TRUE
    <2>1. PICK c \in CallStates : c.word = stream.word /\ c.passed = passed
      BY CallIs
    <2>2. IsPrefixOf(passed, sysexSent)
      <3>1. 0 \in 0 .. Len(p) /\ c.passed \o c.word = g[0]
        BY <1>2, <1>3, <2>1
      <3>2. IsPrefixOf(c.passed, g[Len(p)])
        BY <1>3, <3>1, PassedFirst
      <3> QED BY <1>2, <1>3, <2>1, <3>2
    <2>3. Settled'
      BY <1>1, <1>14, <2>2 DEF Settled
    <2>4. AtRest'
      BY <1>4, <1>6, <1>7, <1>11, <1>13, <1>14, <2>3 DEF AtRest
    <2>5. Moving'
      BY <1>1, <1>9, <1>12, <1>14, <2>4, RestHolds
    <2> QED BY <2>5
  <1>15. CASE passed' \o stream'.word = g[1] /\ stream'.inProgress = TRUE /\ lost' = FALSE
    <2>1. CASE L = 0
      <3>1. packet' = <<>> /\ L + 1 = 1 /\ inside
        BY <1>4, <1>7, <2>1
      <3>2. Settled'
        BY <1>1, <1>3, <1>15, <3>1 DEF Settled
      <3>3. Between'
        BY <1>4, <1>6, <1>11, <1>15, <3>2 DEF Between
      <3>4. Moving'
        BY <1>1, <1>9, <1>12, <1>15, <3>1, <3>3 DEF Moving
      <3> QED BY <3>4
    <2>2. CASE L > 0
      <3>1. packet' # <<>> /\ 1 \in 1 .. L /\ L \in 1 .. L
        <4>1. Len(q) # 0
          BY <1>7, <2>2
        <4> QED BY <1>7, <2>2, <4>1, EmptySeq
      <3>2. CASE q[1] = "REALTIME"
        <4>1. PICK h : Grows(h, q, Kept) /\ h[0] = g[1] /\ h[L] = g[L + 1]
          BY <1>2, <1>3, <1>7, GrowsOn
        <4>2. Follows(h)'
          BY <1>1, <1>3, <1>7, <1>12, <1>15, <4>1 DEF Follows
        <4>3. q[L] = p[L + 1]
          BY <1>7, <3>1
        <4>4. \E f : Follows(f)'
          BY <4>2
        <4>5. Embedded'
          BY <1>1, <1>4, <1>7, <1>11, <1>12, <1>13, <1>15, <3>1, <3>2, <4>3, <4>4 DEF Embedded
        <4>6. Moving'
          BY <1>1, <1>9, <1>12, <1>15, <3>1, <4>5 DEF Moving
        <4> QED BY <4>6
      <3>3. CASE q[1] # "REALTIME"
        <4>1. q[1] = "EOX" \/ q[1] \notin Statuses
          BY <1>13, <3>1, <3>3 DEF Statuses
        <4>2. Held'
          BY <1>6, <1>7, <3>1, <4>1 DEF Held
        <4> QED BY <4>2
      <3> QED BY <3>2, <3>3
    <2> QED BY <2>1, <2>2
  <1> QED BY <1>11, <1>14, <1>15

\* Where a round does not end, the next is there again.
LEMMA HeldStays == ASSUME InputType, Process, Held PROVE Held'
  <1>1. SysexRound \/ EoxRound \/ ShortRound \/ RunningRound \/ LastRound
    BY ProcessIs
  <1>2. PICK L \in Nat : L = Len(packet) /\ packet \in Seq(Heard)
    BY LenProperties DEF InputType
  <1>3. CASE packet[1] = "EOX"
    <2>1. EoxRound
      BY <1>1, <1>3 DEF SysexRound, ShortRound, RunningRound, LastRound, Statuses
    <2>2. packet' = packet
      BY <2>1 DEF EoxRound
    <2> QED BY <1>3, <2>2 DEF Held
  <1>4. CASE packet[1] \notin Statuses /\ command = "REALTIME"
    <2>1. command # NONE /\ commandLength = 1
      BY <1>4 DEF InputType, LengthOf, NONE
    <2>2. ~(commandLength > Len(packet) + 1) /\ commandLength - 1 = 0
      BY <1>2, <2>1
    <2>3. RunningRound
      BY <1>1, <1>4, <2>1, <2>2 DEF SysexRound, EoxRound, ShortRound, LastRound, Statuses
    <2>4. packet' = Drop(packet, 0) /\ command' = command
      BY <2>2, <2>3 DEF RunningRound
    <2>5. Drop(packet, 0) = packet
      <3>1. 0 + 1 = 1
        OBVIOUS
      <3> QED BY <1>2, <3>1, SubSeqFull DEF Drop
    <2> QED BY <1>4, <2>4, <2>5 DEF Held
  <1> QED BY <1>3, <1>4 DEF Held

LEMMA ProcessKeeps == ASSUME InputType, InputInv, Process PROVE InputInv'
  <1>1. packet # <<>>
    BY DEF Process
  <1>2. CASE Held
    BY <1>2, HeldStays DEF InputInv
  <1>3. CASE Moving
    <2>1. sysexSent' = sysexSent /\ BeginsOnce(sysexSent) /\ (Filtered => passed \in Beginnings)
      BY <1>3, ProcessIs DEF Moving
    <2>2. (AtShorts \/ AtRest \/ BeforeSysex => stream.inProgress = FALSE) /\ (stream.inProgress = FALSE => stream.word = <<>>)
      BY <1>3 DEF Moving, AtShorts, AtRest, BeforeSysex
    <2>3. CASE AtShorts
      <3>1. Stays /\ AtShorts'
        BY <2>2, <2>3, ShortsGo
      <3>2. Moving'
        BY <2>1, <3>1, ShortsHold DEF Stays, Filtered
      <3> QED BY <3>2 DEF InputInv
    <2>4. CASE AtRest
      <3>1. Stays /\ AtRest'
        BY <2>2, <2>4, RestGoes
      <3>2. Moving'
        BY <2>1, <3>1, RestHolds DEF Stays, Filtered
      <3> QED BY <3>2 DEF InputInv
    <2>5. CASE BeforeSysex
      <3>1. Moving'
        BY <1>3, <2>5, SysexGoes, RealTimeGoes
      <3> QED BY <3>1 DEF InputInv
    <2>6. CASE Embedded
      <3>1. Moving' \/ Held'
        BY <1>3, <2>6, EmbeddedGoes
      <3> QED BY <3>1 DEF InputInv
    <2> QED BY <1>1, <1>3, <2>3, <2>4, <2>5, <2>6 DEF Moving
  <1> QED BY <1>2, <1>3 DEF InputInv

LEMMA ReadKeeps == ASSUME InputType, InputInv, Read PROVE InputInv'
  <1>1. stream'.inProgress = stream.inProgress /\ stream'.word = stream.word /\ stream'.filters = stream.filters
    BY DEF Read, InputType
  <1>2. /\ packet' = packet /\ command' = command /\ commandLength' = commandLength /\ sysexSent' = sysexSent
        /\ inside' = inside /\ passed' = passed /\ lost' = lost /\ shorts' = shorts
    BY DEF Read
  <1>3. (Filtered' <=> Filtered) /\ Kept' = Kept
    BY <1>1 DEF Filtered, Kept
  <1>4. Settled' <=> Settled
    BY <1>1, <1>2, <1>3 DEF Settled
  <1>5. AtShorts' <=> AtShorts
    BY <1>1, <1>2, <1>4 DEF AtShorts
  <1>6. BeforeSysex' <=> BeforeSysex
    <2>1. \A j \in Nat : Begins(j)' <=> Begins(j)
      BY <1>2, <1>3 DEF Begins
    <2> QED BY <1>1, <1>2, <2>1 DEF BeforeSysex
  <1>7. AtRest' <=> AtRest
    BY <1>1, <1>2, <1>3, <1>4 DEF AtRest
  <1>8. Between' <=> Between
    BY <1>1, <1>2, <1>3, <1>4 DEF Between
  <1>9. Embedded' <=> Embedded
    <2>1. \A g : Follows(g)' <=> Follows(g)
      BY <1>1, <1>2, <1>3 DEF Follows
    <2> QED BY <1>1, <1>2, <1>3, <2>1 DEF Embedded
  <1>10. Moving' <=> Moving
    BY <1>1, <1>2, <1>3, <1>5, <1>6, <1>7, <1>8, <1>9 DEF Moving
  <1>11. Held' <=> Held
    BY <1>2 DEF Held
  <1> QED BY <1>10, <1>11 DEF InputInv

-----------------------------------------------------------------------------
(* A packet comes.                                                         *)

\* Its bytes have their numbers, and are of the same kinds.
Sounds(p, d) ==
    /\ d \in Seq(Heard) /\ d # <<>> /\ Len(d) = Len(p) /\ Len(p) \in Nat /\ Len(p) > 0 /\ DOMAIN p = 1 .. Len(p)
    /\ \A k \in 1 .. Len(p) :
           /\ p[k] \in Statuses => d[k] = p[k]
           /\ p[k] \notin Statuses => p[k] = "data" /\ d[k] \in DataBytes

LEMMA NumberedSounds ==
    ASSUME InputType, NEW p \in Packets[inside]
    PROVE  Sounds(p, Numbered(p)) /\ IsPacket(p, inside)
  <1>1. /\ p \in PacketsFrom(inside) /\ Len(p) \in Nat /\ Len(p) > 0 /\ DOMAIN p = 1 .. Len(p)
        /\ Numbered(p) \in Seq(Heard) /\ Len(Numbered(p)) = Len(p)
        /\ \A k \in 1 .. Len(p) : /\ p[k] \in Statuses => Numbered(p)[k] = p[k]
                                  /\ p[k] \notin Statuses => p[k] = "data" /\ Numbered(p)[k] \in DataBytes
    BY NumberedIs
  <1>2. Numbered(p) # <<>>
    BY <1>1, EmptySeq
  <1> QED BY <1>1, <1>2 DEF Sounds, IsPacket

\* Data bytes are none of the other bytes.
LEMMA BytesApart ==
    /\ \A b \in DataBytes : b \notin Statuses /\ b # "data" /\ b # NONE
    /\ \A b \in Heard : b \in Statuses \/ b \in DataBytes
    /\ "data" \notin Statuses
  BY DEF DataBytes, Statuses, Heard, NONE

LEMMA SoundsLike ==
    ASSUME NEW p, NEW d, Sounds(p, d), NEW k \in 1 .. Len(p)
    PROVE  /\ \A b \in Statuses : d[k] = b <=> p[k] = b
           /\ d[k] \notin Statuses <=> p[k] = "data"
  <1>1. (p[k] \in Statuses => d[k] = p[k]) /\ (p[k] \notin Statuses => p[k] = "data" /\ d[k] \in DataBytes)
    BY DEF Sounds
  <1> QED BY <1>1, BytesApart

LEMMA FirstIs ==
    ASSUME NEW p, NEW d, Sounds(p, d)
    PROVE  First(p) \in 1 .. Len(p) /\ (Has(p, "SYSEX") => p[First(p)] = "SYSEX") /\ (~Has(p, "SYSEX") => First(p) = 1)
  <1>1. 1 \in 1 .. Len(p) /\ DOMAIN p = 1 .. Len(p)
    BY DEF Sounds
  <1>2. CASE Has(p, "SYSEX")
    <2>1. \E k \in DOMAIN p : p[k] = "SYSEX"
      BY <1>2 DEF Has
    <2>2. First(p) = CHOOSE k \in DOMAIN p : p[k] = "SYSEX"
      BY <1>2 DEF First
    <2>3. First(p) \in DOMAIN p /\ p[First(p)] = "SYSEX"
      BY <2>1, <2>2
    <2> QED BY <1>1, <1>2, <2>3
  <1>3. CASE ~Has(p, "SYSEX")
    BY <1>1, <1>3 DEF First
  <1> QED BY <1>2, <1>3

\* The end of a packet from its nth byte on
LEMMA EndOfPacket ==
    ASSUME NEW p, NEW d, Sounds(p, d), NEW n \in 1 .. Len(p)
    PROVE  /\ SubSeq(d, n, Len(p)) \in Seq(Heard) /\ Len(SubSeq(d, n, Len(p))) = Len(p) - n + 1
           /\ \A k \in 1 .. Len(p) - n + 1 : SubSeq(d, n, Len(p))[k] = d[n + k - 1]
  <1>1. PICK L \in Nat : L = Len(p) /\ L = Len(d) /\ d \in Seq(Heard)
    BY DEF Sounds
  <1>2. \A k \in n .. L : k \in 1 .. Len(d)
    BY <1>1
  <1>3. \A k \in n .. L : d[k] \in Heard
    BY <1>1, <1>2, ElementOfSeq
  <1>4. n <= L /\ n \in Int /\ L \in Int
    BY <1>1
  <1>5. PICK e : e = SubSeq(d, n, L)
    OBVIOUS
  <1>6. e \in Seq(Heard) /\ Len(e) = L - n + 1 /\ \A k \in 1 .. L - n + 1 : e[k] = d[n + k - 1]
    BY <1>3, <1>4, <1>5, SubSeqProperties
  <1> QED BY <1>1, <1>5, <1>6

LEMMA PartType ==
    ASSUME InputType, NEW p \in Packets[inside]
    PROVE  Part(p) \in Seq(Heard)
  <1>1. Sounds(p, Numbered(p))
    BY NumberedSounds
  <1>2. SubSeq(Numbered(p), First(p), Len(p)) \in Seq(Heard)
    BY <1>1, FirstIs, EndOfPacket
  <1>3. Selected(SubSeq(Numbered(p), First(p), Len(p)), Kept) \in Seq(Heard) /\ <<>> \in Seq(Heard)
    BY <1>2, SelectedType, EmptySeq
  <1> QED BY <1>3 DEF Part

LEMMA ArriveKeepsType == ASSUME InputType, Arrive PROVE InputType'
  <1>1. PICK p \in Packets[inside] : Comes(p) /\ (Heads(p) \/ Waits(p))
    BY ArriveIs
  <1>2. Part(p) \in Seq(Heard) /\ sysexSent \in Seq(Heard)
    BY PartType DEF InputType
  <1>3. sysexSent' \in Seq(Heard) /\ inside' \in BOOLEAN
    BY <1>1, <1>2, ConcatProperties DEF Comes
  <1>4. Numbered(p) \in Seq(Heard)
    BY NumberedIs
  <1>5. CASE Heads(p)
    <2>1. PICK s \in CallStates : s = pm_read_bytes(Numbered(p))
      BY <1>4, CallIs, ReadType
    <2>2. Return(s) /\ command' = NONE /\ commandLength' = 0 /\ packet' = packet
      BY <1>5, <2>1 DEF Heads
    <2>3. packet' \in Seq(Heard) /\ command' \in Commands /\ commandLength' \in Nat
      BY <2>2 DEF InputType, Commands
    <2> QED BY <1>3, <2>2, <2>3, ReturnType DEF InputType
  <1>6. CASE Waits(p)
    <2>1. shorts' \in Int
      <3>1. PICK L \in Nat : L = Len(p)
        BY NumberedIs
      <3>2. PICK T : T = {n \in 0 .. Len(p) - 1 : p[Len(p) - n] = "data"}
        OBVIOUS
      <3>3. IsFiniteSet(0 .. L - 1)
        BY <3>1, FS_Interval
      <3>6. T \in SUBSET (0 .. L - 1)
        BY <3>1, <3>2
      <3>4. IsFiniteSet(T)
        BY <3>3, <3>6, FS_Subset
      <3>5. Cardinality(T) \in Nat
        BY <3>4, FS_CardinalityType
      <3> QED BY <1>6, <3>2, <3>5 DEF Waits
    <2> QED BY <1>3, <1>4, <1>6, <2>1 DEF Waits, InputType
  <1> QED BY <1>1, <1>5, <1>6

LEMMA TakesHold ==
    ASSUME NEW d \in Seq(Heard), Takes(d, sysexSent'), packet' = <<>>, command' = NONE, shorts = 0, ~Filtered,
           BeginsOnce(sysexSent'), inside' <=> d[Len(d)] # "EOX"
    PROVE  Moving'
  <1>1. ~Filtered' /\ shorts' = 0 /\ NONE # "STATUS"
    BY DEF Takes, Filtered, NONE
  <1>2. CASE /\ lost' = FALSE /\ passed' \o stream'.word = sysexSent'
             /\ stream'.inProgress = TRUE <=> d[Len(d)] # "EOX"
             /\ stream'.inProgress = FALSE => stream'.word = <<>>
    <2>1. Settled'
      BY <1>2 DEF Settled
    <2>2. inside' <=> stream'.inProgress = TRUE
      BY <1>2
    <2>3. Between'
      BY <1>1, <2>1, <2>2 DEF Between
    <2> QED BY <1>1, <1>2, <2>2, <2>3 DEF Moving
  <1>3. CASE lost' = TRUE /\ stream'.inProgress = FALSE /\ stream'.word = <<>> /\ IsPrefixOf(passed', sysexSent')
    <2>1. Settled'
      BY <1>3 DEF Settled
    <2>2. Len(packet') = 0
      BY EmptySeq
    <2>3. AtRest'
      BY <1>1, <1>3, <2>1, <2>2 DEF AtRest
    <2> QED BY <1>1, <1>3, <2>3, RestHolds
  <1> QED BY <1>2, <1>3 DEF Takes

\* Short messages come.
LEMMA ShortsCome ==
    ASSUME InputType, Moving, packet = <<>>, ~Truncated, inside = FALSE,
           NEW p \in Packets[inside], Comes(p), Heads(p) \/ Waits(p), ~Has(p, "SYSEX")
    PROVE  Moving'
  <1>1. PICK d : d = Numbered(p)
    OBVIOUS
  <1>2. Sounds(p, d) /\ IsPacket(p, FALSE)
    BY <1>1, NumberedSounds
  <1>3. Shorts(p) /\ ~Within(FALSE, p, Len(p) + 1) /\ (~Has(p, "STATUS") => \A k \in 1 .. Len(p) : p[k] = "REALTIME")
    BY <1>2, PlainPacket
  <1>4. PICK L \in Nat : L = Len(p) /\ L > 0 /\ Len(d) = L /\ d \in Seq(Heard)
    BY <1>2 DEF Sounds
  <1>5. \A k \in 1 .. L : (\A b \in Statuses : d[k] = b <=> p[k] = b) /\ (d[k] \notin Statuses <=> p[k] = "data")
    BY <1>2, <1>4, SoundsLike
  <1>6. \A k \in 1 .. L :
            /\ p[k] \notin {"SYSEX", "EOX"}
            /\ p[k] = "STATUS" => k < L /\ p[k + 1] = "data"
            /\ p[k] = "data" => k > 1 /\ p[k - 1] \in {"STATUS", "data"}
    BY <1>3, <1>4 DEF Shorts
  <1>7. ~IsSysexData(d[1])
    <2>1. 1 \in 1 .. L /\ ~(1 > 1)
      BY <1>4
    <2>2. p[1] # "data" /\ p[1] \notin {"SYSEX", "EOX"}
      BY <1>6, <2>1
    <2> QED BY <1>5, <2>1, <2>2 DEF IsSysexData, Statuses
  <1>8. Waits(p)
    BY <1>1, <1>7 DEF Heads
  <1>9. /\ stream' = stream /\ passed' = passed /\ lost' = lost /\ sysexSent' = sysexSent /\ packet' = d
        /\ inside' = FALSE
    BY <1>1, <1>3, <1>8 DEF Waits, Comes
  <1>10. stream.inProgress = FALSE /\ stream.word = <<>> /\ Settled /\ BeginsOnce(sysexSent) /\ (Filtered => passed \in Beginnings)
    <2>1. stream.inProgress = FALSE
      BY StreamFields DEF Moving, Embedded
    <2> QED BY <2>1 DEF Moving, Between
  <1>11. shorts' = Cardinality(DataFromEnd(d))
    <2>1. CASE Has(p, "STATUS")
      <3>1. \A n \in 0 .. L - 1 : d[L - n] \notin Statuses <=> p[L - n] = "data"
        <4>1. \A n \in 0 .. L - 1 : L - n \in 1 .. L
          OBVIOUS
        <4> QED BY <1>5, <4>1
      <3>2. {n \in 0 .. L - 1 : p[L - n] = "data"} = {n \in 0 .. L - 1 : d[L - n] \notin Statuses}
        BY <3>1
      <3> QED BY <1>4, <1>8, <2>1, <3>2 DEF Waits, DataFromEnd
    <2>2. CASE ~Has(p, "STATUS")
      <3>1. \A n \in 0 .. L - 1 : d[L - n] \in Statuses
        <4>1. \A n \in 0 .. L - 1 : L - n \in 1 .. L
          OBVIOUS
        <4>2. \A k \in 1 .. L : p[k] = "REALTIME"
          BY <1>3, <1>4, <2>2
        <4> QED BY <1>5, <4>1, <4>2 DEF Statuses
      <3>2. DataFromEnd(d) = {}
        BY <1>4, <3>1 DEF DataFromEnd
      <3> QED BY <1>8, <2>2, <3>2, FS_EmptySet DEF Waits
    <2> QED BY <2>1, <2>2
  <1>12. ASSUME NEW k \in 1 .. L
         PROVE  /\ d[k] \notin {"SYSEX", "EOX"}
                /\ d[k] = "STATUS" => k < L /\ d[k + 1] \notin Statuses
                /\ d[k] \notin Statuses => k # 1 /\ d[k - 1] \notin {"SYSEX", "EOX", "REALTIME"}
    <2>1. d[k] \notin {"SYSEX", "EOX"}
      BY <1>5, <1>6 DEF Statuses
    <2>2. ASSUME d[k] = "STATUS" PROVE k < L /\ d[k + 1] \notin Statuses
      <3>1. p[k] = "STATUS"
        BY <1>5, <2>2 DEF Statuses
      <3>2. k < L /\ p[k + 1] = "data"
        BY <1>6, <3>1
      <3>3. k + 1 \in 1 .. L
        BY <3>2
      <3> QED BY <1>5, <3>2, <3>3
    <2>3. ASSUME d[k] \notin Statuses PROVE k # 1 /\ d[k - 1] \notin {"SYSEX", "EOX", "REALTIME"}
      <3>1. k > 1 /\ p[k - 1] \in {"STATUS", "data"}
        BY <1>5, <1>6, <2>3
      <3>2. k - 1 \in 1 .. L /\ k # 1
        BY <3>1
      <3> QED BY <1>5, <3>1, <3>2 DEF Statuses
    <2> QED BY <2>1, <2>2, <2>3
  <1>13. Settled'
    BY <1>9, <1>10 DEF Settled, Filtered
  <1>14. AtShorts'
    BY <1>4, <1>9, <1>10, <1>11, <1>12, <1>13 DEF AtShorts
  <1> QED BY <1>9, <1>10, <1>14, ShortsHold DEF Filtered

\* A sysex comes.
LEMMA SysexComes ==
    ASSUME InputType, Moving, packet = <<>>, ~Truncated, inside = FALSE,
           NEW p \in Packets[inside], Comes(p), Heads(p) \/ Waits(p), Has(p, "SYSEX")
    PROVE  Moving'
  <1>1. PICK d : d = Numbered(p)
    OBVIOUS
  <1>2. Sounds(p, d) /\ IsPacket(p, FALSE)
    BY <1>1, NumberedSounds
  <1>3. PICK n \in 1 .. Len(p) : n = First(p) /\ p[n] = "SYSEX"
    BY <1>2, FirstIs
  <1>4. OpensAt(p, n) /\ ~Has(p, "STATUS") /\ Within(FALSE, p, Len(p) + 1)
    BY <1>2, <1>3, SysexPacket
  <1>5. PICK L \in Nat : L = Len(p) /\ L > 0 /\ Len(d) = L /\ d \in Seq(Heard) /\ d # <<>> /\ n \in 1 .. L
    BY <1>2 DEF Sounds
  <1>6. \A k \in 1 .. L : (\A b \in Statuses : d[k] = b <=> p[k] = b) /\ (d[k] \notin Statuses <=> p[k] = "data")
    BY <1>2, <1>5, SoundsLike
  <1>7. /\ d[n] = "SYSEX"
        /\ \A k \in 1 .. L : /\ k < n => d[k] = "REALTIME"
                             /\ d[k] = "SYSEX" => k = n
                             /\ d[k] = "EOX" => k = L
                             /\ d[k] # "STATUS"
    BY <1>4, <1>5, <1>6 DEF OpensAt, Statuses
  <1>8. PICK e : e = SubSeq(d, n, L)
    OBVIOUS
  <1>9. e \in Seq(Heard) /\ Len(e) = L - n + 1 /\ \A k \in 1 .. L - n + 1 : e[k] = d[n + k - 1]
    BY <1>2, <1>5, <1>8, EndOfPacket
  <1>10. sysexSent' = Selected(e, Kept)
    BY <1>1, <1>3, <1>4, <1>5, <1>8 DEF Comes, Part
  <1>11. inside' <=> d[L] # "EOX"
    <2>1. L \in 1 .. L
      BY <1>5
    <2>2. d[L] = "EOX" <=> p[L] = "EOX"
      BY <1>6, <2>1 DEF Statuses
    <2> QED BY <1>4, <1>5, <2>2 DEF Comes
  <1>12. BeginsOnce(sysexSent')
    <2>1. PICK w \in Seq(Heard) : w = <<>> /\ Len(w) = 0
      BY EmptySeq
    <2>2. \A k \in 1 .. Len(e) : e[k] = "SYSEX" => k = 1 /\ w = <<>>
      <3>1. ASSUME NEW k \in 1 .. L - n + 1, e[k] = "SYSEX" PROVE k = 1
        <4>1. n + k - 1 \in 1 .. L /\ d[n + k - 1] = "SYSEX"
          BY <1>5, <1>9, <3>1
        <4>2. n + k - 1 = n
          BY <1>7, <4>1
        <4> QED BY <1>5, <4>2
      <3> QED BY <1>9, <2>1, <3>1
    <2>3. BeginsOnce(w)
      BY <2>1 DEF BeginsOnce
    <2>4. BeginsOnce(w \o Selected(e, Kept))
      BY <1>9, <2>2, <2>3, HeardBegins
    <2>5. Selected(e, Kept) \in Seq(Heard)
      BY <1>9, SelectedType
    <2>6. w \o Selected(e, Kept) = Selected(e, Kept)
      BY <2>1, <2>5, ConcatEmptySeq
    <2> QED BY <1>10, <2>4, <2>6
  <1>13. stream.inProgress = FALSE /\ stream.word = <<>> /\ shorts = 0 /\ (Filtered => passed \in Beginnings)
    <2>1. stream.inProgress = FALSE
      BY StreamFields DEF Moving, Embedded
    <2> QED BY <2>1 DEF Moving, Between
  <1>14. CASE n = 1
    <2>1. d[1] = "SYSEX" /\ e = d
      BY <1>5, <1>7, <1>8, <1>14, SubSeqFull
    <2>2. Heads(p)
      BY <1>1, <2>1 DEF Waits, IsSysexData
    <2>3. Return(pm_read_bytes(d)) /\ command' = NONE /\ packet' = <<>>
      BY <1>1, <2>2 DEF Heads
    <2>4. CASE Filtered
      <3>1. \A k \in 1 .. Len(d) : d[k] # "STATUS" /\ (d[k] = "SYSEX" => Filtered)
        BY <1>5, <1>7, <2>4
      <3>2. /\ stream'.inProgress = FALSE /\ stream'.word = <<>> /\ stream'.filters = stream.filters
            /\ passed' \in Beginnings /\ shorts' = shorts
        BY <1>5, <1>13, <2>3, <2>4, <3>1, ReadStays DEF OnlyBeginnings
      <3>3. Filtered' /\ Settled'
        BY <2>4, <3>2 DEF Filtered, Settled
      <3>4. Len(packet') = 0 /\ NONE # "STATUS"
        BY <2>3, EmptySeq DEF NONE
      <3>5. AtRest'
        BY <1>13, <2>3, <3>2, <3>3, <3>4 DEF AtRest
      <3> QED BY <1>12, <1>13, <2>4, <3>2, <3>5, RestHolds
    <2>5. CASE ~Filtered
      <3>1. \A k \in 1 .. Len(d) : (d[k] = "SYSEX" => k = 1) /\ (d[k] = "EOX" => k = Len(d))
        BY <1>5, <1>7, <1>14
      <3>2. Takes(d, Selected(d, Kept))
        BY <1>5, <1>13, <2>1, <2>3, <2>5, <3>1, BeginTaken
      <3>3. Takes(d, sysexSent')
        BY <1>10, <2>1, <3>2
      <3>4. inside' <=> d[Len(d)] # "EOX"
        BY <1>5, <1>11
      <3> QED BY <1>5, <1>12, <1>13, <2>3, <2>5, <3>3, <3>4, TakesHold
    <2> QED BY <2>4, <2>5
  <1>15. CASE n # 1
    <2>1. PICK m \in Nat : m + 1 = n /\ m > 0
      <3>1. n - 1 \in Nat /\ (n - 1) + 1 = n /\ n - 1 > 0
        BY <1>5, <1>15
      <3> QED BY <3>1
    <2>2. d[1] = "REALTIME"
      <3>1. 1 \in 1 .. L /\ 1 < n
        BY <1>5, <2>1
      <3> QED BY <1>7, <3>1
    <2>3. Waits(p)
      BY <1>1, <2>2 DEF Heads, IsSysexData, Statuses
    <2>4. /\ packet' = d /\ shorts' = 0 /\ stream' = stream /\ passed' = passed
      BY <1>1, <1>4, <2>3 DEF Waits
    <2>5. Begins(m)'
      <3>1. m < L /\ \A k \in 1 .. L : k <= m => k < n
        BY <1>5, <2>1
      <3>2. Kept' = Kept
        BY <2>4 DEF Kept
      <3> QED BY <1>5, <1>7, <1>8, <1>10, <2>1, <2>4, <3>1, <3>2 DEF Begins
    <2>6. BeforeSysex'
      <3>1. \E j \in Nat : Begins(j)'
        BY <2>5
      <3> QED BY <1>5, <1>11, <1>13, <2>4, <3>1 DEF BeforeSysex
    <2> QED BY <1>5, <1>12, <1>13, <2>4, <2>6 DEF Moving, Filtered
  <1> QED BY <1>14, <1>15

\* The next part of a sysex comes.
LEMMA PartComes ==
    ASSUME InputType, Moving, packet = <<>>, ~Truncated, inside = TRUE,
           NEW p \in Packets[inside], Comes(p), Heads(p) \/ Waits(p)
    PROVE  Moving' \/ Held'
  <1>1. PICK d : d = Numbered(p)
    OBVIOUS
  <1>2. Sounds(p, d) /\ IsPacket(p, TRUE)
    BY <1>1, NumberedSounds
  <1>3. Goes(p) /\ p[1] \in {"EOX", "data", "REALTIME"} /\ Within(TRUE, p, Len(p) + 1)
    BY <1>2, InsidePacket
  <1>4. PICK L \in Nat : L = Len(p) /\ L > 0 /\ Len(d) = L /\ d \in Seq(Heard) /\ d # <<>> /\ DOMAIN p = 1 .. L
    BY <1>2 DEF Sounds
  <1>5. \A k \in 1 .. L : (\A b \in Statuses : d[k] = b <=> p[k] = b) /\ (d[k] \notin Statuses <=> p[k] = "data")
    BY <1>2, <1>4, SoundsLike
  <1>6. \A k \in 1 .. L : d[k] \notin {"SYSEX", "STATUS"} /\ (d[k] = "EOX" => k = L)
    BY <1>3, <1>4, <1>5 DEF Goes, Statuses
  <1>7. ~Has(p, "SYSEX") /\ ~Has(p, "STATUS")
    BY <1>3, <1>4 DEF Goes, Has
  <1>8. sysexSent' = sysexSent \o Selected(d, Kept)
    <2>1. First(p) = 1
      BY <1>7 DEF First
    <2>2. SubSeq(d, 1, Len(p)) = d
      BY <1>4, SubSeqFull
    <2>3. Part(p) = Selected(d, Kept)
      BY <1>1, <1>7, <2>1, <2>2 DEF Part
    <2> QED BY <1>7, <2>3 DEF Comes
  <1>9. inside' <=> d[L] # "EOX"
    <2>1. L \in 1 .. L
      BY <1>4
    <2>2. d[L] = "EOX" <=> p[L] = "EOX"
      BY <1>5, <2>1 DEF Statuses
    <2> QED BY <1>3, <1>4, <2>2 DEF Comes
  <1>10. sysexSent \in Seq(Heard) /\ Selected(d, Kept) \in Seq(Heard) /\ passed \in Seq(Heard)
    BY <1>4, SelectedType DEF InputType
  <1>11. BeginsOnce(sysexSent')
    <2>1. \A k \in 1 .. Len(d) : d[k] = "SYSEX" => k = 1 /\ sysexSent = <<>>
      BY <1>4, <1>6
    <2>2. BeginsOnce(sysexSent)
      BY DEF Moving
    <2> QED BY <1>4, <1>8, <1>10, <2>1, <2>2, HeardBegins
  <1>12. Between
    BY DEF Moving
  <1>13. CASE stream.inProgress = TRUE
    <2>1. /\ lost = FALSE /\ command \in {NONE, "REALTIME"} /\ ~Filtered /\ shorts = 0 /\ passed \o stream.word = sysexSent
          /\ BeginsOnce(sysexSent)
      <3>1. ~lost /\ ~Filtered /\ BeginsOnce(sysexSent) /\ lost \in BOOLEAN /\ command \in Commands
        BY <1>13 DEF Moving, InputType
      <3> QED BY <1>12, <3>1 DEF Between, Settled, Commands
    <2>2. CASE Heads(p)
      <3>1. Return(pm_read_bytes(d)) /\ command' = NONE /\ packet' = <<>>
        BY <1>1, <2>2 DEF Heads
      <3>2. \A k \in 1 .. Len(d) : d[k] # "SYSEX" /\ (d[k] = "EOX" => k = Len(d))
        BY <1>4, <1>6
      <3>3. Takes(d, sysexSent \o Selected(d, Kept))
        BY <1>4, <1>13, <2>1, <3>1, <3>2, NextTaken
      <3>4. Takes(d, sysexSent')
        BY <1>8, <3>3
      <3>5. inside' <=> d[Len(d)] # "EOX"
        BY <1>4, <1>9
      <3>6. Moving'
        BY <1>4, <1>11, <2>1, <3>1, <3>4, <3>5, TakesHold
      <3> QED BY <3>6
    <2>3. CASE Waits(p)
      <3>1. /\ packet' = d /\ shorts' = 0 /\ stream' = stream /\ passed' = passed /\ lost' = lost /\ command' = command
            /\ ~IsSysexData(d[1])
        BY <1>1, <1>7, <2>3 DEF Waits
      <3>2. CASE d[1] = "REALTIME"
        <4>1. PICK g : Grows(g, d, Kept) /\ g[0] = sysexSent /\ g[Len(d)] = sysexSent \o Selected(d, Kept)
          <5>1. PICK T : T = Kept
            OBVIOUS
          <5>2. PICK w \in Seq(Heard) : w = sysexSent
            BY <1>10
          <5>3. \E g : Grows(g, d, T) /\ g[0] = w /\ g[Len(d)] = w \o Selected(d, T)
            BY <1>4, GrowthIs
          <5> QED BY <5>1, <5>2, <5>3
        <4>2. Kept' = Kept /\ ~Filtered'
          BY <2>1, <3>1 DEF Kept, Filtered
        <4>3. Follows(g)'
          BY <1>8, <2>1, <3>1, <4>1, <4>2 DEF Follows
        <4>4. \E h : Follows(h)'
          BY <4>3
        <4>5. Embedded'
          BY <1>4, <1>6, <1>9, <1>13, <2>1, <3>1, <3>2, <4>2, <4>4 DEF Embedded
        <4>6. Moving'
          BY <1>4, <1>11, <1>13, <2>1, <3>1, <4>2, <4>5 DEF Moving
        <4> QED BY <4>6
      <3>3. CASE d[1] # "REALTIME"
        <4>1. 1 \in 1 .. L
          BY <1>4
        <4>2. d[1] # "EOX" /\ d[1] # "SYSEX" /\ d[1] # "STATUS" /\ ~(d[1] \notin Statuses /\ command = NONE)
          BY <1>6, <3>1, <4>1 DEF IsSysexData
        <4>3. d[1] \notin Statuses
          BY <3>3, <4>2 DEF Statuses
        <4>4. Held'
          BY <1>4, <2>1, <3>1, <4>2, <4>3 DEF Held
        <4> QED BY <4>4
      <3> QED BY <3>2, <3>3
    <2> QED BY <2>2, <2>3
  <1>14. CASE stream.inProgress = FALSE
    <2>1. stream.word = <<>> /\ shorts = 0 /\ (Filtered => passed \in Beginnings) /\ command # "STATUS" /\ (Filtered \/ lost) /\ Settled
      <3>1. stream.word = <<>> /\ (Filtered => passed \in Beginnings)
        BY <1>14 DEF Moving
      <3> QED BY <1>12, <1>14, <3>1 DEF Between
    <2>2. ASSUME stream'.filters = stream.filters, passed' = passed, lost' = lost PROVE Settled' /\ (Filtered' \/ lost') /\ (Filtered' => passed' \in Beginnings)
      <3>1. CASE Filtered
        BY <2>1, <2>2, <3>1 DEF Filtered, Settled
      <3>2. CASE ~Filtered
        <4>1. lost /\ IsPrefixOf(passed, sysexSent)
          BY <2>1, <3>2 DEF Settled
        <4>2. IsPrefixOf(passed, sysexSent \o Selected(d, Kept))
          BY <1>10, <4>1, PrefixOfConcat
        <4> QED BY <1>8, <2>2, <3>2, <4>1, <4>2 DEF Filtered, Settled
      <3> QED BY <3>1, <3>2
    <2>3. CASE Heads(p)
      <3>1. Return(pm_read_bytes(d)) /\ command' = NONE /\ packet' = <<>> /\ NONE # "STATUS"
        BY <1>1, <2>3 DEF Heads, NONE
      <3>2. \A k \in 1 .. Len(d) : d[k] # "STATUS" /\ (d[k] = "SYSEX" => Filtered)
        BY <1>4, <1>6
      <3>3. /\ stream'.inProgress = FALSE /\ stream'.word = <<>> /\ stream'.filters = stream.filters
            /\ passed' = passed /\ lost' = lost /\ shorts' = shorts
        <4>1. \A k \in 1 .. Len(d) : d[k] # "SYSEX"
          BY <1>4, <1>6
        <4> QED BY <1>4, <1>14, <2>1, <3>1, <3>2, <4>1, ReadStays DEF OnlyBeginnings
      <3>4. Len(packet') = 0
        BY <3>1, EmptySeq
      <3>5. AtRest'
        BY <2>1, <2>2, <3>1, <3>3, <3>4 DEF AtRest
      <3> QED BY <1>11, <2>2, <3>3, <3>5, RestHolds
    <2>4. CASE Waits(p)
      <3>1. /\ packet' = d /\ shorts' = 0 /\ stream' = stream /\ passed' = passed /\ lost' = lost /\ command' = command
        BY <1>1, <1>7, <2>4 DEF Waits
      <3>2. AtRest'
        BY <1>4, <1>6, <1>14, <2>1, <2>2, <3>1 DEF AtRest
      <3> QED BY <1>11, <1>14, <2>1, <2>2, <3>1, <3>2, RestHolds
    <2> QED BY <2>3, <2>4
  <1> QED BY <1>13, <1>14, StreamFields

LEMMA ArriveKeeps == ASSUME InputType, InputInv, ~Truncated, Arrive PROVE InputInv'
  <1>1. packet = <<>>
    BY ArriveIs
  <1>2. PICK p \in Packets[inside] : Comes(p) /\ (Heads(p) \/ Waits(p))
    BY ArriveIs
  <1>3. inside \in BOOLEAN
    BY DEF InputType
  <1>4. Moving
    BY <1>1 DEF InputInv, Held
  <1>5. Moving' \/ Held'
    BY <1>1, <1>2, <1>3, <1>4, ShortsCome, SysexComes, PartComes
  <1> QED BY <1>5 DEF InputInv

-----------------------------------------------------------------------------

LEMMA InputBegins == InputInit => InputType /\ InputInv
  <1> SUFFICES ASSUME InputInit PROVE InputType /\ InputInv
    OBVIOUS
  <1>1. PICK f \in SUBSET {"SYSEX", "REALTIME"} :
            stream = [inProgress |-> FALSE, word |-> <<>>, filters |-> f, events |-> 0, refusing |-> FALSE]
    BY DEF InputInit
  <1>2. /\ packet = <<>> /\ command = NONE /\ commandLength = 0 /\ sysexSent = <<>> /\ inside = FALSE
        /\ passed = <<>> /\ lost = FALSE /\ shorts = 0
    BY DEF InputInit
  <1>3. <<>> \in Seq(Heard) /\ Len(<<>>) = 0 /\ <<>> \o <<>> = <<>>
    BY EmptySeq, ConcatEmptySeq
  <1>4. InputType
    <2>1. stream \in [inProgress : BOOLEAN, word : Seq(Heard), filters : SUBSET {"SYSEX", "REALTIME"},
                       events : Nat, refusing : BOOLEAN]
      <3>1. FALSE \in BOOLEAN /\ 0 \in Nat /\ <<>> \in Seq(Heard)
        BY <1>3
      <3> QED BY <1>1, <3>1
    <2>2. packet \in Seq(Heard) /\ sysexSent \in Seq(Heard) /\ passed \in Seq(Heard)
      BY <1>2, <1>3
    <2>3. command \in Commands /\ ~(command # NONE)
      BY <1>2 DEF Commands
    <2>4. commandLength \in Nat /\ shorts \in Int
      BY <1>2
    <2>5. inside \in BOOLEAN
      BY <1>2
    <2>6. lost \in BOOLEAN
      BY <1>2
    <2> QED BY <2>1, <2>2, <2>3, <2>4, <2>5, <2>6 DEF InputType
  <1>5. stream.inProgress = FALSE /\ stream.word = <<>>
    BY <1>1
  <1>6. Settled
    BY <1>2, <1>3, <1>5 DEF Settled
  <1>7. BeginsOnce(sysexSent)
    BY <1>2, <1>3 DEF BeginsOnce
  <1>8. Between
    BY <1>2, <1>6 DEF Between
  <1>9. Moving
    BY <1>2, <1>5, <1>7, <1>8 DEF Moving, Beginnings
  <1> QED BY <1>4, <1>9 DEF InputInv

LEMMA InputStep ==
    ASSUME ~Truncated
    PROVE  InputType /\ InputInv /\ [InputNext]_inputVars => InputType' /\ InputInv'
  <1> SUFFICES ASSUME InputType, InputInv, [InputNext]_inputVars PROVE InputType' /\ InputInv'
    OBVIOUS
  <1>1. CASE Arrive
    BY <1>1, ArriveKeepsType, ArriveKeeps
  <1>2. CASE Process
    BY <1>2, ProcessKeepsType, ProcessKeeps
  <1>3. CASE Read
    BY <1>3, ReadKeepsType, ReadKeeps
  <1>4. CASE UNCHANGED inputVars
    <2>1. /\ stream' = stream /\ packet' = packet /\ command' = command /\ commandLength' = commandLength
          /\ sysexSent' = sysexSent /\ inside' = inside /\ passed' = passed /\ lost' = lost /\ shorts' = shorts
      BY <1>4 DEF inputVars
    <2>2. InputType'
      BY <2>1 DEF InputType
    <2>3. /\ Filtered' <=> Filtered
          /\ Kept' = Kept
      BY <2>1 DEF Filtered, Kept
    <2>4. Settled' <=> Settled
      BY <2>1, <2>3 DEF Settled
    <2>5. (AtShorts' <=> AtShorts) /\ (AtRest' <=> AtRest) /\ (Between' <=> Between)
      BY <2>1, <2>3, <2>4 DEF AtShorts, AtRest, Between
    <2>6. BeforeSysex' <=> BeforeSysex
      <3>1. \A j \in Nat : Begins(j)' <=> Begins(j)
        BY <2>1, <2>3 DEF Begins
      <3> QED BY <2>1, <3>1 DEF BeforeSysex
    <2>7. Embedded' <=> Embedded
      <3>1. \A g : Follows(g)' <=> Follows(g)
        BY <2>1, <2>3 DEF Follows
      <3> QED BY <2>1, <2>3, <3>1 DEF Embedded
    <2>8. Moving' <=> Moving
      BY <2>1, <2>3, <2>5, <2>6, <2>7 DEF Moving
    <2>9. Held' <=> Held
      BY <2>1 DEF Held
    <2> QED BY <2>2, <2>8, <2>9 DEF InputInv
  <1> QED BY <1>1, <1>2, <1>3, <1>4 DEF InputNext

LEMMA InputFaithful == InputType /\ InputInv => SysexArrivesWhole
  <1> SUFFICES ASSUME InputType, InputInv, packet = <<>> PROVE SysexArrivesWhole
    BY DEF SysexArrivesWhole
  <1>0. Moving
    BY DEF InputInv, Held
  <1>1. Between
    BY <1>0 DEF Moving
  <1>2. stream.word # <<>> => inside
    BY <1>0, StreamFields DEF Moving, Embedded
  <1>3. CASE Filtered
    <2>1. PICK x \in Seq(Heard) : x = <<"SYSEX">> /\ Len(x) = 1
      BY FirstOnly
    <2>2. SubSeq(x, 1, Len(x)) = x
      BY <2>1, SubSeqFull
    <2>3. IsPrefix(x, x)
      BY <2>1, <2>2 DEF IsPrefix
    <2>4. PICK y \in Seq(Heard) : y = <<>> /\ Len(y) = 0
      BY EmptySeq
    <2>5. IsPrefix(y, x)
      BY <2>1, <2>4 DEF IsPrefix
    <2>6. passed = <<>> \/ passed = <<"SYSEX">>
      BY <1>0, <1>3 DEF Moving, Beginnings
    <2>7. IsPrefix(passed, <<"SYSEX">>)
      BY <2>1, <2>3, <2>4, <2>5, <2>6
    <2> QED BY <1>1, <1>2, <1>3, <2>7 DEF Between, Filtered, SysexArrivesWhole
  <1>4. CASE ~Filtered /\ lost
    <2>1. IsPrefixOf(passed, sysexSent) /\ passed \in Seq(Heard) /\ sysexSent \in Seq(Heard)
      BY <1>1, <1>4 DEF Between, Settled, InputType
    <2>2. Len(passed) <= Len(sysexSent) /\ passed = SubSeq(sysexSent, 1, Len(passed))
      BY <2>1, PrefixIsSubSeq
    <2>3. SubSeq(passed, 1, Len(passed)) = passed
      BY <2>1, SubSeqFull
    <2>4. IsPrefix(passed, sysexSent)
      BY <2>2, <2>3 DEF IsPrefix
    <2> QED BY <1>1, <1>2, <1>4, <2>4 DEF Between, Filtered, SysexArrivesWhole
  <1>5. CASE ~Filtered /\ ~lost
    BY <1>1, <1>2, <1>5 DEF Between, Settled, Filtered, SysexArrivesWhole
  <1> QED BY <1>3, <1>4, <1>5

(* What passed of a sysex into the queue, with the bytes that wait for     *)
(* their event to be full, is what was sent of it, and after an event was  *)
(* refused a beginning of it: for every size of events, of the queue and   *)
(* of packets, however packets divide sysex and real-time bytes interrupt  *)
(* them, which pass in their places, when every sysex has its EOX.  Of a   *)
(* sysex that is filtered nothing passes but its first byte.               *)
THEOREM SysexIsHeardWhole == ASSUME ~Truncated PROVE InputSpec => []SysexArrivesWhole
  <1>1. InputSpec => [](InputType /\ InputInv)
    BY InputBegins, InputStep, PTL DEF InputSpec
  <1> QED BY <1>1, InputFaithful, PTL

==============================================================================
