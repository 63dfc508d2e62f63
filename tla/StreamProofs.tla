---------------------------- MODULE StreamProofs ----------------------------
(***************************************************************************)
(* What passes samples, messages and bytes on in their order: the playout  *)
(* ring of DAC.cpp, for every size above Capacity, every set of packet     *)
(* sizes and of latencies; the message queue of portmidi, for every number *)
(* of messages, of words in one and every set of events; and portmidi's    *)
(* output, for every size of events and buffers.  The two rings, which two *)
(* threads share without a lock, implement the queues they promise.        *)
(***************************************************************************)
EXTENDS DAC, MidiQueue, MidiOutput, SelectionProofs

-----------------------------------------------------------------------------
(***************************************************************************)
(* The playout ring: the writer never laps the reader, and the ring        *)
(* implements the bounded queue of SampleQueue.                            *)
(***************************************************************************)

LEMMA Maxima ==
    /\ MaxSize \in Nat /\ MaxSize >= 1 /\ \A n \in Sizes : n \in Nat /\ 1 <= n /\ n <= MaxSize
    /\ MaxLatency \in Nat /\ \A n \in Latencies : n \in Nat /\ n <= MaxLatency
  <1>1. MaxSize \in Sizes /\ \A n \in Sizes : n <= MaxSize
    BY DACAssumption DEF MaxSize, MaxOf
  <1>2. MaxLatency \in Latencies /\ \A n \in Latencies : n <= MaxLatency
    BY DACAssumption DEF MaxLatency, MaxOf
  <1> QED BY <1>1, <1>2, DACAssumption

(* What stale distances can add: one packet for every frame that is gone.  *)
Gone == FRAMES_PER_BUFFER - frames
Allowance == MaxSize * Gone

\* Samples that the server thread may still add without looking.
Pending == IF writer = "filling" THEN toWrite ELSE IF isPlaying THEN 0 ELSE MaxSize

\* Samples added since the callback took its distance, and not played.
Added == Distance - toPlay

ServerThreadInv ==
    /\ writer \in {"arrived", "limited"} => Distance <= seen
    /\ writer = "arrived" => toWrite = size
    /\ writer = "filling" => Distance + toWrite <= seen + size /\ ~isPlaying

CallbackInv ==
    /\ toPlay <= Distance
    /\ Distance + Pending <= Capacity
    /\ toPlay = 0 => Distance + Pending <= PlayingLimit + Allowance
    /\ toPlay > 0 /\ isPlaying => Added <= PlayingLimit + MaxSize
    /\ toPlay > 0 /\ writer = "filling" => Added + toWrite <= PlayingLimit + MaxSize
    /\ toPlay > 0 /\ ~isPlaying /\ writer # "filling" => Added <= PlayingLimit
    /\ Gone = 0 /\ toPlay = 0 /\ ~isPlaying /\ writer = "limited" =>
            Distance + toWrite <= MaxSize

IInv == TypeOK /\ ServerThreadInv /\ CallbackInv

-----------------------------------------------------------------------------
LEMMA DistanceType == TypeOK => Distance \in 0 .. MAX_PACKET - 1
  BY RingAssumption DEF TypeOK, Distance, Slots

LEMMA DistanceAfterPut ==
    ASSUME TypeOK, Distance < MAX_PACKET - 1, wp' = Following(wp), rp' = rp
    PROVE  Distance' = Distance + 1
  BY RingAssumption DEF TypeOK, Distance, Slots, Following

LEMMA DistanceAfterPlay ==
    ASSUME TypeOK, Distance > 0, rp' = Following(rp), wp' = wp
    PROVE  Distance' = Distance - 1
  BY RingAssumption DEF TypeOK, Distance, Slots, Following

LEMMA FollowingType == \A n \in Slots : Following(n) \in Slots
  BY RingAssumption DEF Slots, Following

LEMMA AllowanceFacts ==
    ASSUME NEW f \in 0 .. FRAMES_PER_BUFFER
    PROVE  LET rest == FRAMES_PER_BUFFER - f
           IN  /\ MaxSize * rest \in Nat
               /\ f > 0 => MaxSize * (FRAMES_PER_BUFFER - (f - 1)) = MaxSize * rest + MaxSize
               /\ rest > 0 => MaxSize * rest >= MaxSize
               /\ rest = 0 => MaxSize * rest = 0
               /\ MaxSize * rest <= FRAMES_PER_BUFFER * MaxSize
  <1>1. MaxSize \in Nat /\ FRAMES_PER_BUFFER \in Nat /\ FRAMES_PER_BUFFER >= 1
    BY Maxima, DACAssumption
  <1>2. PICK rest \in Nat : rest = FRAMES_PER_BUFFER - f /\ rest <= FRAMES_PER_BUFFER
    BY <1>1
  <1>3. MaxSize * (rest + 1) = MaxSize * rest + MaxSize
    BY <1>1, <1>2
  <1>4. MaxSize * rest \in Nat
    BY <1>1, <1>2
  <1>5. rest > 0 => MaxSize * rest >= MaxSize
    BY <1>1, <1>2
  <1>6. MaxSize * rest <= FRAMES_PER_BUFFER * MaxSize
    BY <1>1, <1>2
  <1>7. f > 0 => FRAMES_PER_BUFFER - (f - 1) = rest + 1
    BY <1>1, <1>2
  <1> QED BY <1>1, <1>2, <1>3, <1>4, <1>5, <1>6, <1>7

-----------------------------------------------------------------------------
LEMMA InitIInv == Init => IInv
  <1> SUFFICES ASSUME Init PROVE IInv
    OBVIOUS
  <1>1. TypeOK
    <2>1. out \in [l : Sample \cup {Silence}, r : Sample \cup {Silence}]
      BY DEF Init
    <2>2. buf \in [Slots -> Sample \cup {Silence}] /\ buf2 \in [Slots -> Sample \cup {Silence}]
      BY DEF Init
    <2>3. MAX_PACKET \in Nat /\ MAX_PACKET >= 1
      <3>1. Capacity \in Nat
        BY Maxima, DACAssumption DEF Capacity, PlayingLimit
      <3> QED BY <3>1, RingAssumption
    <2>4. rp \in Slots /\ wp \in Slots /\ toPlay \in 0 .. MAX_PACKET - 1
      BY <2>3 DEF Init, Slots
    <2>5. size \in Sizes /\ toWrite \in 0 .. size /\ seen \in Nat
          /\ frames \in 0 .. FRAMES_PER_BUFFER
      BY Maxima, DACAssumption DEF Init
    <2> QED BY <2>1, <2>2, <2>4, <2>5 DEF Init, TypeOK
  <1>2. Distance = 0 /\ toPlay = 0 /\ isPlaying /\ writer = "idle" /\ Pending = 0
    BY DEF Init, Distance, Pending
  <1>3. 0 <= PlayingLimit /\ 0 <= Capacity /\ 0 <= PlayingLimit + Allowance
    BY AllowanceFacts, Maxima, DACAssumption, <1>1
    DEF PlayingLimit, Capacity, Allowance, Gone, TypeOK
  <1> QED BY <1>1, <1>2, <1>3 DEF IInv, ServerThreadInv, CallbackInv

(* The numbers every step starts from. *)
Ranges ==
    /\ Distance \in Nat /\ Distance <= MAX_PACKET - 1
    /\ MaxSize \in Nat /\ MaxSize >= 1 /\ MaxLatency \in Nat
    /\ size \in Nat /\ 1 <= size /\ size <= MaxSize
    /\ bs \in Nat /\ bs <= MaxLatency
    /\ toWrite \in Nat /\ toWrite <= size /\ seen \in Nat /\ toPlay \in Nat
    /\ PlayingLimit = MaxLatency + 4 * MaxSize + 1
    /\ Capacity \in Nat /\ Capacity < MAX_PACKET /\ PlayingLimit + MaxSize <= Capacity
    /\ frames \in 0 .. FRAMES_PER_BUFFER
    /\ Allowance \in Nat /\ PlayingLimit + Allowance <= Capacity
    /\ Gone \in Nat /\ (Gone > 0 => Allowance >= MaxSize) /\ (Gone = 0 => Allowance = 0)

LEMMA RangesHold == IInv => Ranges
  <1> SUFFICES ASSUME IInv PROVE Ranges
    OBVIOUS
  <1> USE DEF IInv
  <1>1. Distance \in 0 .. MAX_PACKET - 1
    BY DistanceType
  <1>2. /\ size \in Nat /\ 1 <= size /\ size <= MaxSize
        /\ bs \in Nat /\ bs <= MaxLatency
        /\ MaxSize \in Nat /\ MaxSize >= 1 /\ MaxLatency \in Nat
    BY Maxima DEF TypeOK
  <1>3. /\ FRAMES_PER_BUFFER \in Nat /\ FRAMES_PER_BUFFER >= 1
        /\ frames \in 0 .. FRAMES_PER_BUFFER
    BY DACAssumption DEF TypeOK
  <1>4. /\ Allowance \in Nat /\ Allowance <= FRAMES_PER_BUFFER * MaxSize
        /\ Gone \in Nat /\ (Gone > 0 => Allowance >= MaxSize)
        /\ (Gone = 0 => Allowance = 0)
    BY <1>3, AllowanceFacts DEF Allowance, Gone
  <1>5. FRAMES_PER_BUFFER * MaxSize \in Nat /\ MaxSize <= FRAMES_PER_BUFFER * MaxSize
    BY <1>2, <1>3
  <1>6. Capacity = MaxLatency + 4 * MaxSize + 1 + FRAMES_PER_BUFFER * MaxSize
    BY DEF Capacity, PlayingLimit
  <1> QED
    BY <1>1, <1>2, <1>3, <1>4, <1>5, <1>6, RingAssumption DEF Ranges, PlayingLimit, TypeOK

LEMMA StepType == IInv /\ Next => TypeOK'
  <1> SUFFICES ASSUME IInv, Next PROVE TypeOK'
    OBVIOUS
  <1> USE DEF IInv, TypeOK, ring, serverThread, callback
  <1>0. Ranges
    BY RangesHold
  <1>1. CASE Packet
    BY <1>0, <1>1, Maxima DEF Packet, Ranges
  <1>2. CASE SetLatency
    BY <1>0, <1>2 DEF SetLatency, Ranges
  <1>3. CASE Branch
    BY <1>0, <1>3 DEF Branch, Ranges
  <1>4. CASE WriteLimited
    BY <1>0, <1>4, FollowingType DEF WriteLimited, Put, Room, Ranges
  <1>5. CASE LimitedEnd
    BY <1>0, <1>5 DEF LimitedEnd, Ranges
  <1>6. CASE WriteFilling
    BY <1>0, <1>6, FollowingType DEF WriteFilling, Put, Ranges
  <1>7. CASE FillingEnd
    BY <1>0, <1>7 DEF FillingEnd, Enough, Ranges
  <1>8. CASE CallbackBegin
    BY <1>0, <1>8, RingAssumption, DACAssumption DEF CallbackBegin, Ranges
  <1>9. CASE PlayFrame
    <2>1. buf[rp] \in Sample \cup {Silence}
      OBVIOUS
    <2>2. out' \in [l : Sample \cup {Silence}, r : Sample \cup {Silence}]
      BY <2>1, <1>9 DEF PlayFrame
    <2>3. /\ buf' \in [Slots -> Sample \cup {Silence}]
          /\ buf2' \in [Slots -> Sample \cup {Silence}]
      BY <1>9 DEF PlayFrame
    <2>4. rp' \in Slots /\ frames' \in 0 .. FRAMES_PER_BUFFER /\ toPlay' \in 0 .. MAX_PACKET - 1
      BY <1>0, <1>9, FollowingType, DACAssumption, RingAssumption DEF PlayFrame, Ranges
    <2> QED BY <2>2, <2>3, <2>4, <1>9 DEF PlayFrame
  <1>10. CASE Underrun
    <2>1. out' \in [l : Sample \cup {Silence}, r : Sample \cup {Silence}]
      BY <1>10 DEF Underrun, SilentFrame
    <2>2. frames' \in 0 .. FRAMES_PER_BUFFER
      BY <1>10, DACAssumption DEF Underrun, SilentFrame
    <2> QED BY <2>1, <2>2, <1>10 DEF Underrun, SilentFrame
  <1>11. CASE Stopped
    <2>1. out' \in [l : Sample \cup {Silence}, r : Sample \cup {Silence}]
      BY <1>11 DEF Stopped, SilentFrame
    <2>2. frames' \in 0 .. FRAMES_PER_BUFFER
      BY <1>11, DACAssumption DEF Stopped, SilentFrame
    <2> QED BY <2>1, <2>2, <1>11 DEF Stopped, SilentFrame
  <1> QED
    BY <1>1, <1>2, <1>3, <1>4, <1>5, <1>6, <1>7, <1>8, <1>9, <1>10, <1>11 DEF Next, ServerStep, CallbackStep

LEMMA StepInv == IInv /\ Next => ServerThreadInv' /\ CallbackInv'
  <1> SUFFICES ASSUME IInv, Next PROVE ServerThreadInv' /\ CallbackInv'
    OBVIOUS
  <1> USE DEF IInv
  <1>0. Ranges
    BY RangesHold
  <1>1. CASE Packet
    <2>1. Distance' = Distance /\ Gone' = Gone /\ Allowance' = Allowance
      BY <1>1 DEF Packet, Distance, Gone, Allowance, ring, callback
    <2>2. ServerThreadInv'
      BY <1>0, <1>1, <2>1 DEF Packet, ServerThreadInv, Ranges, ring, callback, serverThread
    <2>3. CallbackInv'
      BY <1>0, <1>1, <2>1 DEF Packet, ServerThreadInv, CallbackInv, Pending, Added, Ranges, ring, callback, serverThread
    <2> QED BY <2>2, <2>3
  <1>2. CASE SetLatency
    <2>1. Distance' = Distance /\ Gone' = Gone /\ Allowance' = Allowance
      BY <1>2 DEF SetLatency, Distance, Gone, Allowance, ring, callback
    <2>2. ServerThreadInv'
      BY <1>0, <1>2, <2>1 DEF SetLatency, ServerThreadInv, Ranges, ring, callback, serverThread
    <2>3. CallbackInv'
      BY <1>0, <1>2, <2>1 DEF SetLatency, ServerThreadInv, CallbackInv, Pending, Added, Ranges, ring, callback, serverThread
    <2> QED BY <2>2, <2>3
  <1>3. CASE Branch
    <2>1. Distance' = Distance /\ Gone' = Gone /\ Allowance' = Allowance
      BY <1>3 DEF Branch, Distance, Gone, Allowance, ring, callback
    <2>2. ServerThreadInv'
      BY <1>0, <1>3, <2>1 DEF Branch, ServerThreadInv, Ranges, ring, callback, serverThread
    <2>3. CallbackInv'
      BY <1>0, <1>3, <2>1 DEF Branch, ServerThreadInv, CallbackInv, Pending, Added, Ranges, ring, callback, serverThread
    <2> QED BY <2>2, <2>3
  <1>4. CASE WriteLimited
    <2>1. Distance < MAX_PACKET - 1
      BY <1>0, <1>4, RingAssumption DEF WriteLimited, Room, ServerThreadInv, CallbackInv, Ranges
    <2>2. Distance' = Distance + 1
      BY <1>4, <2>1, DistanceAfterPut DEF WriteLimited, Put
    <2>3. Gone' = Gone /\ Allowance' = Allowance
      BY <1>4 DEF WriteLimited, Put, Gone, Allowance, callback
    <2>4. ServerThreadInv'
      BY <1>0, <1>4, <2>1, <2>2, <2>3 DEF WriteLimited, Put, Room, ServerThreadInv, Ranges, ring, callback, serverThread
    <2>5. CallbackInv'
      BY <1>0, <1>4, <2>1, <2>2, <2>3 DEF WriteLimited, Put, Room, ServerThreadInv, CallbackInv, Pending, Added, Ranges, ring, callback, serverThread
    <2> QED BY <2>4, <2>5
  <1>5. CASE LimitedEnd
    <2>1. Distance' = Distance /\ Gone' = Gone /\ Allowance' = Allowance
      BY <1>5 DEF LimitedEnd, Distance, Gone, Allowance, ring, callback
    <2>2. ServerThreadInv'
      BY <1>0, <1>5, <2>1 DEF LimitedEnd, ServerThreadInv, Ranges, ring, callback, serverThread
    <2>3. CallbackInv'
      BY <1>0, <1>5, <2>1 DEF LimitedEnd, ServerThreadInv, CallbackInv, Pending, Added, Ranges, ring, callback, serverThread
    <2> QED BY <2>2, <2>3
  <1>6. CASE WriteFilling
    <2>1. Distance < MAX_PACKET - 1
      BY <1>0, <1>6, RingAssumption DEF WriteFilling, ServerThreadInv, CallbackInv, Pending, Ranges
    <2>2. Distance' = Distance + 1
      BY <1>6, <2>1, DistanceAfterPut DEF WriteFilling, Put
    <2>3. Gone' = Gone /\ Allowance' = Allowance
      BY <1>6 DEF WriteFilling, Put, Gone, Allowance, callback
    <2>4. ServerThreadInv'
      BY <1>0, <1>6, <2>1, <2>2, <2>3 DEF WriteFilling, Put, ServerThreadInv, Ranges, ring, callback, serverThread
    <2>5. CallbackInv'
      BY <1>0, <1>6, <2>1, <2>2, <2>3 DEF WriteFilling, Put, ServerThreadInv, CallbackInv, Pending, Added, Ranges, ring, callback, serverThread
    <2> QED BY <2>4, <2>5
  <1>7. CASE FillingEnd
    <2>1. Distance' = Distance /\ Gone' = Gone /\ Allowance' = Allowance
      BY <1>7 DEF FillingEnd, Distance, Gone, Allowance, ring, callback
    <2>2. ServerThreadInv'
      BY <1>0, <1>7, <2>1 DEF FillingEnd, Enough, ServerThreadInv, Ranges, ring, callback, serverThread
    <2>3. CallbackInv'
      <3>1. ~isPlaying /\ writer' = "idle" /\ toPlay' = toPlay /\ toWrite = 0
        BY <1>7 DEF FillingEnd, ServerThreadInv, callback
      <3>2. CASE Enough
        <4>1. isPlaying' = TRUE
          BY <1>7, <3>2 DEF FillingEnd
        <4> QED BY <1>0, <2>1, <3>1, <4>1, <1>7 DEF FillingEnd, CallbackInv, Pending, Added, Ranges
      <3>3. CASE ~Enough
        <4>1. isPlaying' = FALSE
          BY <1>7, <3>1, <3>3 DEF FillingEnd
        <4>2. Distance <= MaxLatency
          BY <1>0, <1>7, <3>3 DEF FillingEnd, Enough, ServerThreadInv, Ranges
        <4> QED BY <1>0, <2>1, <3>1, <4>1, <4>2 DEF CallbackInv, Pending, Added, Ranges
      <3> QED BY <3>2, <3>3
    <2> QED BY <2>2, <2>3
  <1>8. CASE CallbackBegin
    <2>1. Distance' = Distance /\ toPlay' = Distance
      BY <1>8 DEF CallbackBegin, Distance, ring
    <2>2. Gone' = 0 /\ Allowance' = 0
      BY <1>8, Maxima, DACAssumption DEF CallbackBegin, Gone, Allowance
    <2>3. ServerThreadInv'
      BY <1>0, <1>8, <2>1, <2>2 DEF CallbackBegin, ServerThreadInv, Ranges, ring, callback, serverThread
    <2>4. CallbackInv'
      BY <1>0, <1>8, <2>1, <2>2 DEF CallbackBegin, ServerThreadInv, CallbackInv, Pending, Added, Ranges, ring, callback, serverThread
    <2> QED BY <2>3, <2>4
  <1>9. CASE PlayFrame
    <2>1. Distance' = Distance - 1
      BY <1>0, <1>9, DistanceAfterPlay DEF PlayFrame, CallbackInv, Ranges, ring
    <2>2. Gone' = Gone + 1 /\ Allowance' = Allowance + MaxSize
      BY <1>0, <1>9, AllowanceFacts, DACAssumption DEF PlayFrame, Gone, Allowance, Ranges
    <2>3. ServerThreadInv'
      BY <1>0, <1>9, <2>1, <2>2 DEF PlayFrame, ServerThreadInv, Ranges, ring, callback, serverThread
    <2>4. CallbackInv'
      BY <1>0, <1>9, <2>1, <2>2 DEF PlayFrame, ServerThreadInv, CallbackInv, Pending, Added, Ranges, ring, callback, serverThread
    <2> QED BY <2>3, <2>4
  <1>10. CASE Underrun
    <2>1. Distance' = Distance
      BY <1>0, <1>10 DEF Underrun, SilentFrame, Distance, CallbackInv, Ranges, ring
    <2>2. Gone' = Gone + 1 /\ Allowance' = Allowance + MaxSize
      BY <1>0, <1>10, AllowanceFacts, DACAssumption DEF Underrun, SilentFrame, Gone, Allowance, Ranges
    <2>3. ServerThreadInv'
      BY <1>0, <1>10, <2>1, <2>2 DEF Underrun, SilentFrame, ServerThreadInv, Ranges, ring, callback, serverThread
    <2>4. CallbackInv'
      <3>1. writer # "filling" /\ toPlay = 0 /\ toPlay' = 0 /\ isPlaying
            /\ isPlaying' = FALSE /\ writer' = writer
        BY <1>10 DEF Underrun, SilentFrame, ServerThreadInv, serverThread
      <3>2. Distance + MaxSize <= PlayingLimit + Allowance'
        BY <1>0, <3>1, <2>2 DEF CallbackInv, Pending, Ranges
      <3>3. PlayingLimit + Allowance' <= Capacity
        <4>1. TypeOK'
          BY <1>10, StepType DEF Next, CallbackStep
        <4>2. frames' \in 0 .. FRAMES_PER_BUFFER
          BY <4>1 DEF TypeOK
        <4>3. MaxSize * (FRAMES_PER_BUFFER - frames') <= FRAMES_PER_BUFFER * MaxSize
              /\ MaxSize * (FRAMES_PER_BUFFER - frames') \in Nat
          BY <4>2, AllowanceFacts
        <4>4. FRAMES_PER_BUFFER * MaxSize \in Nat /\ PlayingLimit \in Nat
          BY Maxima, DACAssumption DEF PlayingLimit
        <4> QED BY <4>3, <4>4 DEF Allowance, Gone, Capacity, PlayingLimit
      <3> QED BY <1>0, <2>1, <2>2, <3>1, <3>2, <3>3 DEF CallbackInv, Pending, Ranges
    <2> QED BY <2>3, <2>4
  <1>11. CASE Stopped
    <2>1. Distance' = Distance
      BY <1>0, <1>11 DEF Stopped, SilentFrame, Distance, CallbackInv, Ranges, ring
    <2>2. Gone' = Gone + 1 /\ Allowance' = Allowance + MaxSize
      BY <1>0, <1>11, AllowanceFacts, DACAssumption DEF Stopped, SilentFrame, Gone, Allowance, Ranges
    <2>3. ServerThreadInv'
      BY <1>0, <1>11, <2>1, <2>2 DEF Stopped, SilentFrame, ServerThreadInv, Ranges, ring, callback, serverThread
    <2>4. CallbackInv'
      BY <1>0, <1>11, <2>1, <2>2 DEF Stopped, SilentFrame, ServerThreadInv, CallbackInv, Pending, Added, Ranges, ring, callback, serverThread
    <2> QED BY <2>3, <2>4
  <1> QED
    BY <1>1, <1>2, <1>3, <1>4, <1>5, <1>6, <1>7, <1>8, <1>9, <1>10, <1>11 DEF Next, ServerStep, CallbackStep

LEMMA StutterIInv == IInv /\ UNCHANGED vars => IInv'
  BY DEF IInv, TypeOK, ServerThreadInv, CallbackInv, Pending, Added, Allowance, Gone,
         Distance, vars, ring, serverThread, callback

(* The writer never laps the reader. *)
THEOREM WriterNeverLaps == Spec => [](TypeOK /\ BacklogBounded)
  <1>1. IInv => TypeOK /\ BacklogBounded
    BY RangesHold DEF IInv, CallbackInv, BacklogBounded, Pending, Ranges, TypeOK
  <1>2. IInv /\ [Next]_vars => IInv'
    BY StepType, StepInv, StutterIInv DEF IInv
  <1> QED BY InitIInv, <1>1, <1>2, PTL DEF Spec

-----------------------------------------------------------------------------
(* The ring as a queue.                                                    *)

LEMMA ContentsLength ==
    ASSUME TypeOK
    PROVE  Contents \in Seq(Sample \cup {Silence}) /\ Len(Contents) = Distance
  <1>1. Distance \in 0 .. MAX_PACKET - 1 /\ MAX_PACKET \in Nat
    BY DistanceType, RingAssumption
  <1>2. \A m \in 1 .. Distance : Ahead(m - 1) \in Slots
    BY <1>1 DEF Ahead, TypeOK, Slots
  <1>3. \A m \in 1 .. Distance : buf[Ahead(m - 1)] \in Sample \cup {Silence}
    BY <1>2 DEF TypeOK
  <1> QED BY <1>1, <1>3 DEF Contents

LEMMA PutAppends ==
    ASSUME TypeOK, Distance < MAX_PACKET - 1, NEW v,
           buf' = [buf EXCEPT ![wp] = v], wp' = Following(wp), rp' = rp
    PROVE  Contents' = Append(Contents, v)
  <1>1. Distance \in 0 .. MAX_PACKET - 1 /\ MAX_PACKET \in Nat
    BY DistanceType, RingAssumption
  <1>2. Distance' = Distance + 1
    BY DistanceAfterPut
  <1>3. Ahead(Distance) = wp
    BY <1>1 DEF TypeOK, Slots, Ahead, Distance
  <1>4. \A m \in 1 .. Distance : Ahead(m - 1) \in Slots /\ Ahead(m - 1) # wp
    BY <1>1 DEF TypeOK, Slots, Ahead, Distance
  <1>5. \A m \in 1 .. Distance + 1 : Ahead(m - 1)' = Ahead(m - 1)
    BY DEF Ahead
  <1>6. \A m \in 1 .. Distance : buf'[Ahead(m - 1)'] = buf[Ahead(m - 1)]
    BY <1>1, <1>4, <1>5 DEF TypeOK
  <1>7. \A m \in 1 .. Distance + 1 : m = Distance + 1 => buf'[Ahead(m - 1)'] = v
    <2> SUFFICES ASSUME NEW m \in 1 .. Distance + 1, m = Distance + 1
                 PROVE  buf'[Ahead(m - 1)'] = v
      OBVIOUS
    <2>1. m - 1 = Distance
      BY <1>1
    <2>2. Ahead(m - 1)' = Ahead(m - 1)
      BY <1>5
    <2>3. Ahead(m - 1) = wp
      BY <2>1, <1>3
    <2> QED BY <2>2, <2>3 DEF TypeOK
  <1>8. Contents' = [m \in 1 .. Distance + 1 |-> buf'[Ahead(m - 1)']]
    BY <1>2 DEF Contents
  <1>9. \A m \in 1 .. Distance + 1 :
            buf'[Ahead(m - 1)'] = IF m = Distance + 1 THEN v ELSE buf[Ahead(m - 1)]
    <2> SUFFICES ASSUME NEW m \in 1 .. Distance + 1
                 PROVE  buf'[Ahead(m - 1)'] = IF m = Distance + 1 THEN v ELSE buf[Ahead(m - 1)]
      OBVIOUS
    <2>1. CASE m = Distance + 1
      BY <2>1, <1>7
    <2>2. CASE m # Distance + 1
      <3>1. m \in 1 .. Distance
        BY <1>1, <2>2
      <3> QED BY <2>2, <3>1, <1>6
    <2> QED BY <2>1, <2>2
  <1>10. Contents' = [m \in 1 .. Distance + 1 |->
                        IF m = Distance + 1 THEN v ELSE buf[Ahead(m - 1)]]
    BY <1>8, <1>9
  <1>11. Append(Contents, v) = [m \in 1 .. Distance + 1 |->
                        IF m = Distance + 1 THEN v ELSE buf[Ahead(m - 1)]]
    BY <1>1, ContentsLength DEF Contents
  <1> QED BY <1>10, <1>11

LEMMA PlayTakesHead ==
    ASSUME TypeOK, Distance > 0,
           buf' = [buf EXCEPT ![rp] = Silence], rp' = Following(rp), wp' = wp
    PROVE  Contents # <<>> /\ Head(Contents) = buf[rp] /\ Contents' = Tail(Contents)
  <1>1. Distance \in 0 .. MAX_PACKET - 1 /\ MAX_PACKET \in Nat
    BY DistanceType, RingAssumption
  <1>2. Distance' = Distance - 1
    BY DistanceAfterPlay
  <1>3. Ahead(0) = rp
    BY <1>1 DEF TypeOK, Slots, Ahead
  <1>4. \A m \in 1 .. Distance - 1 :
            Ahead(m - 1)' = Ahead(m) /\ Ahead(m) \in Slots /\ Ahead(m) # rp
    BY <1>1 DEF TypeOK, Slots, Ahead, Following, Distance
  <1>5. \A m \in 1 .. Distance - 1 : buf'[Ahead(m - 1)'] = buf[Ahead(m)]
    BY <1>4 DEF TypeOK
  <1>6. Contents' = [m \in 1 .. Distance - 1 |-> buf[Ahead(m)]]
    <2>1. Contents' = [m \in 1 .. Distance - 1 |-> buf'[Ahead(m - 1)']]
      BY <1>2 DEF Contents
    <2> QED BY <2>1, <1>5
  <1>7. Contents \in Seq(Sample \cup {Silence}) /\ Len(Contents) = Distance /\ Contents # <<>>
    BY <1>1, ContentsLength
  <1>8. Head(Contents) = buf[rp]
    BY <1>1, <1>3, <1>7 DEF Contents
  <1>9. /\ Tail(Contents) \in Seq(Sample \cup {Silence})
        /\ Len(Tail(Contents)) = Distance - 1
        /\ \A m \in 1 .. Distance - 1 : Tail(Contents)[m] = Contents[m + 1]
    BY <1>7, HeadTailProperties
  <1>10. \A m \in 1 .. Distance - 1 : buf[Ahead(m)] \in Sample \cup {Silence}
    BY <1>4 DEF TypeOK
  <1>11. Contents' \in Seq(Sample \cup {Silence}) /\ Len(Contents') = Distance - 1
    BY <1>1, <1>6, <1>10
  <1>12. \A m \in 1 .. Distance - 1 : Contents'[m] = Tail(Contents)[m]
    <2>1. \A m \in 1 .. Distance - 1 : Contents[m + 1] = buf[Ahead(m)]
      BY <1>1 DEF Contents
    <2> QED BY <1>6, <1>9, <2>1
  <1>13. Contents' = Tail(Contents)
    BY <1>9, <1>11, <1>12, SeqEqual
  <1> QED BY <1>7, <1>8, <1>13

LEMMA QueueStep ==
    ASSUME Ch # 1, IInv, IInv', Next
    PROVE  Promise!Next \/ UNCHANGED <<Contents, out.l>>
  <1>0. Ranges /\ TypeOK
    BY RangesHold DEF IInv
  <1>1. CASE Packet \/ SetLatency \/ Branch \/ LimitedEnd \/ FillingEnd \/ CallbackBegin
    BY <1>1 DEF Packet, SetLatency, Branch, LimitedEnd, FillingEnd, CallbackBegin,
                ring, callback, Contents, Ahead, Distance
  <1>2. CASE WriteLimited \/ WriteFilling
    <2>1. PICK v \in Sample : Put(v) /\ writer \in {"limited", "filling"}
      BY <1>2 DEF WriteLimited, WriteFilling
    <2>2. Distance < Capacity
      BY <1>0, <1>2 DEF WriteLimited, WriteFilling, Room, IInv, ServerThreadInv,
                        CallbackInv, Pending, Ranges
    <2>3. Distance < MAX_PACKET - 1
      BY <1>0, <2>2, RingAssumption DEF Ranges
    <2>4. buf' = [buf EXCEPT ![wp] = v] /\ wp' = Following(wp) /\ rp' = rp /\ out' = out
      BY <2>1 DEF Put, callback
    <2>5. Contents' = Append(Contents, v)
      BY <1>0, <2>3, <2>4, PutAppends
    <2>6. Len(Contents) < Capacity
      BY <1>0, <2>2, ContentsLength
    <2> QED BY <2>1, <2>4, <2>5, <2>6 DEF Promise!Next, Promise!Accept
  <1>3. CASE PlayFrame
    <2>1. Distance > 0
      BY <1>0, <1>3 DEF PlayFrame, IInv, CallbackInv, Ranges
    <2>2. out'.l = buf[rp]
      BY <1>3 DEF PlayFrame
    <2> QED BY <1>0, <1>3, <2>1, <2>2, PlayTakesHead DEF PlayFrame, Promise!Next, Promise!Play
  <1>4. CASE Underrun \/ Stopped
    <2>1. out'.l = Silence
      BY <1>4 DEF Underrun, Stopped, SilentFrame
    <2>2. Contents' = Contents
      BY <1>4 DEF Underrun, Stopped, SilentFrame, ring, Contents, Ahead, Distance
    <2> QED BY <2>1, <2>2 DEF Promise!Next, Promise!Pause
  <1> QED BY <1>1, <1>2, <1>3, <1>4 DEF Next, ServerStep, CallbackStep

(* Left or stereo, the two threads implement the bounded queue. *)
THEOREM RingImplementsQueue == ASSUME Ch # 1 PROVE Spec => ImplementsQueue
  <1>1. Init => Promise!Init
    <2> SUFFICES ASSUME Init PROVE Promise!Init
      OBVIOUS
    <2>1. Distance = 0
      BY DEF Init, Distance
    <2>2. Contents = <<>>
      BY <2>1 DEF Contents
    <2> QED BY <2>2 DEF Init, Promise!Init
  <1>2. IInv /\ [Next]_vars => IInv'
    BY StepType, StepInv, StutterIInv DEF IInv
  <1>3. IInv /\ IInv' /\ [Next]_vars => [Promise!Next]_<<Contents, out.l>>
    <2> SUFFICES ASSUME IInv, IInv', [Next]_vars
                 PROVE  Promise!Next \/ UNCHANGED <<Contents, out.l>>
      OBVIOUS
    <2>1. CASE Next
      BY <2>1, QueueStep
    <2>2. CASE UNCHANGED vars
      BY <2>2 DEF vars, ring, callback, Contents, Ahead, Distance
    <2> QED BY <2>1, <2>2
  <1> QED BY InitIInv, <1>1, <1>2, <1>3, PTL DEF Spec, ImplementsQueue, Promise!Spec
-----------------------------------------------------------------------------
(***************************************************************************)
(* portmidi's queue: the slots from head on hold the messages that were    *)
(* accepted, and the queue implements EventQueue.                          *)
(***************************************************************************)

Starts == {s * msg_size : s \in 0 .. num_msgs - 1}
Words == 0 .. msg_size - 1
Messages == [1 .. msg_size - 1 -> Nat]

\* r is the next zero of m after q, or its end.
IsNext(m, q, r) ==
    /\ r \in q + 1 .. msg_size
    /\ r # msg_size => m[r] = 0
    /\ \A j \in q + 1 .. r - 1 : m[j] # 0

\* The first words of m, up to i, are at k, and its zeros linked, but for the last one, p.
IsPartAt(m, k, i, p) ==
    /\ \A j \in 1 .. i - 1 : m[j] # 0 => buffer[k + j] = m[j]
    /\ \A q \in 0 .. i - 1 : (q = 0 \/ m[q] = 0) /\ q # p => IsNext(m, q, buffer[k + q])

ZeroAt(k) == \A j \in Words : buffer[k + j] = 0

MidiQueueTypeOK ==
    /\ buffer \in [0 .. len - 1 -> Nat]
    /\ head \in Starts /\ tail \in Starts
    /\ overflow \in {0, tail + 1}
    /\ peekFlag \in BOOLEAN /\ peekOverflow \in BOOLEAN
    /\ peek \in {<<>>} \cup Messages
    /\ enqueuer \in [pc : {"idle"}] \cup [pc : {"full"}, msg : Events, i : Words]
                        \cup [pc : {"write"}, msg : Events, i : 1 .. msg_size, ptr : Nat]
    /\ dequeuer \in [pc : {"idle"}] \cup [pc : {"look"}, for : {"read", "peek"}]
                        \cup [pc : {"test"}, for : {"read", "peek"}, i : Words]
                        \cup [pc : {"zero"}, i : Words]

\* n slots from head on are full, or were until the dequeuer came to the first of them.
Holds(n) ==
    /\ n \in Oldest .. num_msgs /\ tail = SlotAfter(head, n)
    /\ \A i \in Oldest .. n - 1 : WholeAt(SlotAfter(head, i))
    /\ \A i \in n .. num_msgs - 1 : (i = n /\ enqueuer.pc = "write") \/ ZeroAt(SlotAfter(head, i))
    /\ enqueuer.pc = "write" => n < num_msgs

DequeuerInv ==
    /\ dequeuer.pc \in {"look", "test"} => ~peekFlag /\ (dequeuer.for = "read" => ~peekOverflow)
    /\ dequeuer.pc = "test" => \A j \in dequeuer.i + 1 .. msg_size - 1 : buffer[head + j] # 0
    /\ dequeuer.pc = "zero" => \A j \in Words : (buffer[head + j] = 0 <=> j < dequeuer.i)
\* The enqueuer is at the i-th word of m; p is where the last zero was, or the extra word.
IsWriting(m, i, p) ==
    /\ p < i /\ (p = 0 \/ m[p] = 0) /\ buffer[tail + p] = 0
    /\ \A j \in p + 1 .. i - 1 : m[j] # 0
    /\ IsPartAt(m, tail, i, p)
    /\ \A j \in i .. msg_size - 1 : buffer[tail + j] = 0
EnqueuerInv ==
    /\ overflow # 0 => enqueuer.pc = "idle"
    /\ enqueuer.pc = "full" => \A j \in 0 .. enqueuer.i - 1 : buffer[tail + j] = 0
    /\ enqueuer.pc = "write" =>
         \E p \in Words : enqueuer.ptr = tail + p /\ IsWriting(enqueuer.msg, enqueuer.i, p)

\* The ring is n full slots, of which the first may be half cleared and the
\* next half written, and free slots that hold zeros only.
MidiQueueInv == MidiQueueTypeOK /\ DequeuerInv /\ EnqueuerInv /\ \E n \in Nat : Holds(n)

-----------------------------------------------------------------------------
(* The ring of slots                                                       *)

LEMMA SizesAre ==
    /\ msg_size \in Nat /\ msg_size >= 2 /\ num_msgs \in Nat /\ num_msgs >= 1
    /\ len = num_msgs * msg_size /\ len \in Nat
  BY MidiQueueAssumption DEF len

LEMMA Products ==
    ASSUME NEW a \in Nat, NEW b \in Nat
    PROVE  /\ a * msg_size \in Nat /\ (a + b) * msg_size = a * msg_size + b * msg_size
           /\ a < b => a * msg_size + msg_size <= b * msg_size
  <1>1. a * msg_size \in Nat /\ (a + b) * msg_size = a * msg_size + b * msg_size
    BY SizesAre
  <1>2. ASSUME a < b PROVE a * msg_size + msg_size <= b * msg_size
    <2>1. PICK d \in Nat : b = a + 1 + d
      <3>1. b - a - 1 \in Nat /\ b = a + 1 + (b - a - 1)
        BY <1>2
      <3> QED BY <3>1
    <2>2. d * msg_size \in Nat
      BY SizesAre
    <2>3. b * msg_size = a * msg_size + msg_size + d * msg_size
      BY SizesAre, <2>1
    <2> QED BY <1>1, <2>2, <2>3, SizesAre
  <1> QED BY <1>1, <1>2

LEMMA SlotAfterIs ==
    ASSUME NEW s \in 0 .. num_msgs - 1, NEW n \in 0 .. num_msgs
    PROVE  SlotAfter(s * msg_size, n) =
               (IF s + n < num_msgs THEN s + n ELSE s + n - num_msgs) * msg_size
  <1>1. s \in Nat /\ n \in Nat
    BY SizesAre
  <1>2. s * msg_size + n * msg_size = (s + n) * msg_size /\ (s + n) * msg_size \in Nat
    <2>1. (s + n) * msg_size = s * msg_size + n * msg_size
      BY <1>1, Products
    <2>2. s * msg_size \in Nat /\ n * msg_size \in Nat
      BY <1>1, Products
    <2> QED BY <2>1, <2>2
  <1>3. CASE s + n < num_msgs
    <2>1. (s + n) * msg_size + msg_size <= len
      BY <1>1, <1>3, SizesAre, Products
    <2>2. (s + n) * msg_size < len
      BY <1>2, <2>1, SizesAre
    <2>3. SlotAfter(s * msg_size, n) = (s + n) * msg_size
      BY <1>2, <2>2, Zenon DEF SlotAfter
    <2> QED BY <1>3, <2>3, Zenon
  <1>4. CASE ~(s + n < num_msgs)
    <2>1. PICK r \in Nat : s + n = num_msgs + r
      <3>1. s + n - num_msgs \in Nat /\ s + n = num_msgs + (s + n - num_msgs)
        BY <1>1, <1>4, SizesAre
      <3> QED BY <3>1
    <2>2. (s + n) * msg_size = len + r * msg_size /\ r * msg_size \in Nat
      BY <2>1, SizesAre, Products
    <2>3. s + n - num_msgs = r
      BY <1>1, <2>1, SizesAre
    <2>4. ~((s + n) * msg_size < len) /\ (s + n) * msg_size - len = r * msg_size
      BY <2>2, SizesAre
    <2> QED BY <1>2, <1>4, <2>3, <2>4 DEF SlotAfter
  <1> QED BY <1>3, <1>4

\* The n-th slot from the s-th on
Turn(s, n) == IF s + n < num_msgs THEN s + n ELSE s + n - num_msgs

LEMMA SameStart ==
    ASSUME NEW s \in 0 .. num_msgs - 1, NEW t \in 0 .. num_msgs - 1, s * msg_size = t * msg_size
    PROVE  s = t
  <1>1. s \in Nat /\ t \in Nat /\ s * msg_size \in Nat /\ t * msg_size \in Nat
    BY SizesAre, Products
  <1>2. ~(s < t)
    BY <1>1, SizesAre, Products
  <1>3. ~(t < s)
    BY <1>1, SizesAre, Products
  <1> QED BY <1>1, <1>2, <1>3

LEMMA RingIs ==
    ASSUME NEW k \in Starts
    PROVE  /\ \A n \in 0 .. num_msgs : SlotAfter(k, n) \in Starts
           /\ SlotAfter(k, 0) = k /\ SlotAfter(k, num_msgs) = k
           /\ \A n, i \in 0 .. num_msgs - 1 : SlotAfter(k, n) = SlotAfter(k, i) => n = i
           /\ After(k) \in Starts
           /\ \A n \in 0 .. num_msgs - 1 : /\ After(SlotAfter(k, n)) = SlotAfter(k, n + 1)
                                          /\ SlotAfter(After(k), n) = SlotAfter(k, n + 1)
  <1>1. PICK s \in 0 .. num_msgs - 1 : k = s * msg_size
    BY DEF Starts
  <1>2. \A n \in 0 .. num_msgs : /\ SlotAfter(k, n) = Turn(s, n) * msg_size
                                /\ Turn(s, n) \in 0 .. num_msgs - 1
    BY <1>1, SlotAfterIs, SizesAre DEF Turn
  <1>3. \A n \in 0 .. num_msgs : SlotAfter(k, n) \in Starts
    BY <1>2 DEF Starts
  <1>4. SlotAfter(k, 0) = k /\ SlotAfter(k, num_msgs) = k
    <2>1. Turn(s, 0) = s /\ Turn(s, num_msgs) = s
      BY SizesAre DEF Turn
    <2> QED BY <1>1, <1>2, <2>1, SizesAre
  <1>5. ASSUME NEW n \in 0 .. num_msgs - 1, NEW i \in 0 .. num_msgs - 1, SlotAfter(k, n) = SlotAfter(k, i)
        PROVE  n = i
    <2>1. n \in 0 .. num_msgs /\ i \in 0 .. num_msgs
      BY SizesAre
    <2>2. Turn(s, n) = Turn(s, i)
      BY <1>2, <1>5, <2>1, SameStart
    <2> QED BY <2>2, SizesAre DEF Turn
  <1>6. \A t \in 0 .. num_msgs - 1 : After(t * msg_size) = Turn(t, 1) * msg_size
    <2> SUFFICES ASSUME NEW t \in 0 .. num_msgs - 1
                 PROVE  After(t * msg_size) = Turn(t, 1) * msg_size
      OBVIOUS
    <2>1. t \in Nat /\ 1 \in Nat /\ t * msg_size + msg_size = (t + 1) * msg_size
      BY SizesAre
    <2>2. CASE t + 1 = num_msgs
      <3>1. Turn(t, 1) = 0 /\ 0 * msg_size = 0
        BY <2>2, SizesAre DEF Turn
      <3> QED BY <2>1, <2>2, <3>1, SizesAre DEF After
    <2>3. CASE t + 1 # num_msgs
      <3>1. Turn(t, 1) = t + 1 /\ t + 1 < num_msgs
        BY <2>3, SizesAre DEF Turn
      <3>2. (t + 1) * msg_size + msg_size <= len /\ (t + 1) * msg_size \in Nat
        BY <2>1, <3>1, SizesAre, Products
      <3>3. (t + 1) * msg_size # len
        BY <3>2, SizesAre
      <3> QED BY <2>1, <3>1, <3>3 DEF After
    <2> QED BY <2>2, <2>3
  <1>7. ASSUME NEW n \in 0 .. num_msgs - 1
        PROVE  After(SlotAfter(k, n)) = SlotAfter(k, n + 1) /\ SlotAfter(After(k), n) = SlotAfter(k, n + 1)
    <2>1. n \in 0 .. num_msgs /\ n + 1 \in 0 .. num_msgs
      BY SizesAre
    <2>2. Turn(Turn(s, n), 1) = Turn(s, n + 1) /\ Turn(Turn(s, 1), n) = Turn(s, n + 1)
      BY SizesAre DEF Turn
    <2>3. Turn(s, n) \in 0 .. num_msgs - 1 /\ Turn(s, 1) \in 0 .. num_msgs - 1
      BY SizesAre DEF Turn
    <2>4. After(k) = Turn(s, 1) * msg_size
      BY <1>1, <1>6
    <2>5. SlotAfter(Turn(s, 1) * msg_size, n) = Turn(Turn(s, 1), n) * msg_size
      BY <2>1, <2>3, SlotAfterIs DEF Turn
    <2>6. After(Turn(s, n) * msg_size) = Turn(Turn(s, n), 1) * msg_size
      BY <1>6, <2>3
    <2> QED BY <1>2, <2>1, <2>2, <2>4, <2>5, <2>6
  <1>8. After(k) \in Starts
    <2>1. 0 \in 0 .. num_msgs - 1 /\ 1 \in 0 .. num_msgs
      BY SizesAre
    <2> QED BY <1>3, <1>4, <1>7, <2>1
  <1> QED BY <1>3, <1>4, <1>5, <1>7, <1>8

\* Slots are in the buffer and do not overlap.
LEMMA SlotsAre ==
    ASSUME NEW k \in Starts, NEW i \in Words
    PROVE  /\ k \in Nat /\ k + i \in 0 .. len - 1
           /\ \A l \in Starts, j \in Words : k + i = l + j => k = l /\ i = j
  <1>1. PICK s \in 0 .. num_msgs - 1 : k = s * msg_size
    BY DEF Starts
  <1>2. s \in Nat /\ k \in Nat /\ k + msg_size <= len
    BY <1>1, SizesAre, Products
  <1>3. k + i \in 0 .. len - 1
    BY <1>2, SizesAre DEF Words
  <1>4. ASSUME NEW l \in Starts, NEW j \in Words, k + i = l + j PROVE k = l /\ i = j
    <2>1. PICK t \in 0 .. num_msgs - 1 : l = t * msg_size
      BY DEF Starts
    <2>2. t \in Nat /\ l \in Nat
      BY <2>1, SizesAre, Products
    <2>3. ~(s < t)
      <3>1. s < t => k + msg_size <= l
        BY <1>1, <1>2, <2>1, <2>2, Products
      <3> QED BY <1>2, <1>4, <2>2, <3>1, SizesAre DEF Words
    <2>4. ~(t < s)
      <3>1. t < s => l + msg_size <= k
        BY <1>1, <1>2, <2>1, <2>2, Products
      <3> QED BY <1>2, <1>4, <2>2, <3>1, SizesAre DEF Words
    <2>5. s = t
      BY <1>2, <2>2, <2>3, <2>4
    <2> QED BY <1>1, <1>2, <1>4, <2>1, <2>5, SizesAre DEF Words
  <1> QED BY <1>2, <1>3, <1>4

-----------------------------------------------------------------------------
(* Messages in the buffer                                                  *)

LEMMA Greatest ==
    ASSUME NEW T \in SUBSET Nat, NEW top \in Nat, T # {}, \A n \in T : n <= top
    PROVE  \E m \in T : \A n \in T : n <= m
  <1> DEFINE R == {d \in Nat : top - d \in T}
  <1>1. PICK n : n \in T
    OBVIOUS
  <1>2. top - n \in R
    <2>1. n \in Nat /\ n <= top /\ top - (top - n) = n
      BY <1>1
    <2> QED BY <1>1, <2>1
  <1>3. R \in SUBSET Nat /\ R # {}
    BY <1>2
  <1>4. PICK d \in R : \A r \in R : d <= r
    BY <1>3, Least
  <1>5. ASSUME NEW x \in T PROVE x <= top - d
    <2>1. x \in Nat /\ x <= top /\ top - x \in Nat /\ top - (top - x) = x
      OBVIOUS
    <2>2. d <= top - x
      BY <1>4, <2>1
    <2> QED BY <1>4, <2>1, <2>2
  <1> QED BY <1>4, <1>5

LEMMA EventIs ==
    ASSUME NEW m \in Events
    PROVE  /\ m = [i \in 1 .. msg_size - 1 |-> m[i]]
           /\ \A i \in 1 .. msg_size - 1 : m[i] \in Nat
  <1>1. m \in Seq(Nat) /\ Len(m) = msg_size - 1
    BY MidiQueueAssumption
  <1>2. DOMAIN m = 1 .. msg_size - 1 /\ \A i \in 1 .. msg_size - 1 : m[i] \in Nat
    BY <1>1, LenProperties, ElementOfSeq
  <1> QED BY <1>1, <1>2, LenProperties

\* A message that was written out is read as it was.
ReadAsWritten ==
    \A k \in Starts, m \in Events :
        IsPartAt(m, k, msg_size, msg_size) => WholeAt(k) /\ MessageAt(k) = m

LEMMA MessagesAreRead == MidiQueueTypeOK => ReadAsWritten
  <1> SUFFICES ASSUME MidiQueueTypeOK, NEW k \in Starts, NEW m \in Events,
                      IsPartAt(m, k, msg_size, msg_size)
               PROVE  WholeAt(k) /\ MessageAt(k) = m
    BY DEF ReadAsWritten
  <1>1. \A i \in Words : buffer[k + i] \in Nat
    BY SlotsAre DEF MidiQueueTypeOK
  <1>2. \A q \in Words : q = 0 \/ m[q] = 0 => IsNext(m, q, buffer[k + q])
    BY SizesAre DEF IsPartAt, Words
  <1>3. \A i \in 1 .. msg_size - 1 : m[i] # 0 => buffer[k + i] = m[i]
    BY DEF IsPartAt
  <1>4. WholeAt(k)
    <2> SUFFICES ASSUME NEW i \in 0 .. msg_size - 1 PROVE buffer[k + i] # 0
      BY DEF WholeAt
    <2>1. CASE i = 0 \/ m[i] = 0
      BY <1>2, <2>1, SizesAre DEF IsNext, Words
    <2>2. CASE i # 0 /\ m[i] # 0
      <3>1. i \in 1 .. msg_size - 1
        BY <2>2, SizesAre
      <3> QED BY <1>3, <2>2, <3>1
    <2> QED BY <2>1, <2>2
  <1> DEFINE Z == {i \in 1 .. msg_size - 1 : m[i] = 0}
  <1>5. LinksStayIn(Z, k)
    <2> SUFFICES ASSUME NEW i \in Z \cup {0}, buffer[k + i] < msg_size PROVE buffer[k + i] \in Z
      BY DEF LinksStayIn
    <2>1. i \in Words /\ (i = 0 \/ m[i] = 0)
      BY SizesAre DEF Words
    <2>2. PICK r \in Nat : r = buffer[k + i]
      BY <1>1, <2>1
    <2>3. r \in i + 1 .. msg_size /\ (r # msg_size => m[r] = 0)
      BY <1>2, <2>1, <2>2 DEF IsNext
    <2> QED BY <2>1, <2>2, <2>3, SizesAre DEF Words
  <1>6. ASSUME NEW S \in SUBSET (1 .. msg_size - 1), LinksStayIn(S, k) PROVE Z \subseteq S
    <2> SUFFICES ASSUME Z \ S # {} PROVE FALSE
      OBVIOUS
    <2>1. Z \ S \in SUBSET Nat
      OBVIOUS
    <2>2. PICK i \in Z \ S : \A x \in Z \ S : i <= x
      BY <2>1, Least
    <2>3. i \in 1 .. msg_size - 1 /\ i \in Nat /\ m[i] = 0
      OBVIOUS
    <2> DEFINE P == {q \in 0 .. i - 1 : q = 0 \/ m[q] = 0}
    <2>4. P \in SUBSET Nat /\ 0 \in P /\ \A q \in P : q <= i
      BY <2>3
    <2>5. PICK p \in P : \A q \in P : q <= p
      BY <2>3, <2>4, Greatest
    <2>6. p \in Words /\ p \in Nat /\ p < i /\ (p = 0 \/ m[p] = 0)
      BY <2>3, SizesAre DEF Words
    <2>7. PICK r \in Nat : r = buffer[k + p]
      BY <1>1, <2>6
    <2>8. IsNext(m, p, r)
      BY <1>2, <2>6, <2>7
    <2>9. ~(r < i)
      <3>1. r < i => r \in P
        BY <2>3, <2>6, <2>8, SizesAre DEF IsNext
      <3> QED BY <2>5, <2>6, <2>8, <3>1 DEF IsNext
    <2>10. ~(r > i)
      BY <2>3, <2>6, <2>8 DEF IsNext
    <2>11. r = i /\ r < msg_size
      BY <2>3, <2>9, <2>10, SizesAre
    <2>12. p \in S \cup {0}
      <3>1. p # 0 => p \in Z
        BY <2>3, <2>6, SizesAre
      <3> QED BY <2>2, <2>3, <2>6, <3>1
    <2> QED BY <1>6, <2>2, <2>7, <2>11, <2>12 DEF LinksStayIn
  <1>7. Zeros(k) = Z
    <2>1. Z \in SUBSET (1 .. msg_size - 1)
      OBVIOUS
    <2> HIDE DEF Z
    <2> QED BY <1>5, <1>6, <2>1 DEF Zeros
  <1>8. MessageAt(k) = m
    <2>1. MessageAt(k) = [i \in 1 .. msg_size - 1 |-> IF i \in Z THEN 0 ELSE buffer[k + i]]
      BY <1>7 DEF MessageAt
    <2>2. \A i \in 1 .. msg_size - 1 : (IF i \in Z THEN 0 ELSE buffer[k + i]) = m[i]
      BY <1>3
    <2> HIDE DEF Z
    <2>3. MessageAt(k) = [i \in 1 .. msg_size - 1 |-> m[i]]
      BY <2>1, <2>2
    <2> QED BY <2>3, EventIs
  <1> QED BY <1>4, <1>8

LEMMA MessagesAreReadNext == MidiQueueTypeOK' => ReadAsWritten'
  BY MessagesAreRead, PTL

-----------------------------------------------------------------------------
(* A step writes one word, of one slot                                     *)

LEMMA OneWord ==
    ASSUME MidiQueueTypeOK, NEW k \in Starts, NEW i \in Words, NEW v \in Nat,
           buffer' = [buffer EXCEPT ![k + i] = v]
    PROVE  /\ buffer' \in [0 .. len - 1 -> Nat]
           /\ \A j \in Words : buffer'[k + j] = IF j = i THEN v ELSE buffer[k + j]
           /\ \A l \in Starts, j \in Words : l # k => buffer'[l + j] = buffer[l + j]
  <1>1. buffer \in [0 .. len - 1 -> Nat]
    BY DEF MidiQueueTypeOK
  <1>2. ASSUME NEW l \in Starts, NEW j \in Words
        PROVE  buffer'[l + j] = IF l = k /\ j = i THEN v ELSE buffer[l + j]
    <2>1. l + j \in 0 .. len - 1 /\ (l + j = k + i <=> l = k /\ j = i)
      BY SlotsAre
    <2> QED BY <1>1, <2>1
  <1>3. \A j \in Words : buffer'[k + j] = IF j = i THEN v ELSE buffer[k + j]
    BY <1>2
  <1> QED BY <1>1, <1>2, <1>3

LEMMA SameSlot ==
    ASSUME NEW k, \A j \in Words : buffer'[k + j] = buffer[k + j]
    PROVE  /\ WholeAt(k)' <=> WholeAt(k)
           /\ ZeroAt(k)' <=> ZeroAt(k)
           /\ MessageAt(k)' = MessageAt(k)
  <1>1. (WholeAt(k)' <=> WholeAt(k)) /\ (ZeroAt(k)' <=> ZeroAt(k))
    BY DEF WholeAt, ZeroAt, Words
  <1>2. ASSUME NEW Z \in SUBSET (1 .. msg_size - 1) PROVE LinksStayIn(Z, k)' <=> LinksStayIn(Z, k)
    <2>1. \A i \in Z \cup {0} : buffer'[k + i] = buffer[k + i]
      BY SizesAre DEF Words
    <2> QED BY <2>1 DEF LinksStayIn
  <1>3. Zeros(k)' = Zeros(k)
    BY <1>2 DEF Zeros
  <1>4. \A i \in 1 .. msg_size - 1 : buffer'[k + i] = buffer[k + i]
    BY SizesAre DEF Words
  <1>5. MessageAt(k)' = MessageAt(k)
    BY <1>3, <1>4 DEF MessageAt
  <1> QED BY <1>1, <1>5

LEMMA MessageType == ASSUME MidiQueueTypeOK, NEW k \in Starts PROVE MessageAt(k) \in Messages
  <1>1. \A i \in 1 .. msg_size - 1 : buffer[k + i] \in Nat
    <2>1. \A i \in Words : k + i \in 0 .. len - 1
      BY SlotsAre
    <2>2. buffer \in [0 .. len - 1 -> Nat] /\ \A i \in 1 .. msg_size - 1 : i \in Words
      BY SizesAre DEF MidiQueueTypeOK, Words
    <2> QED BY <2>1, <2>2
  <1> QED BY <1>1 DEF MessageAt, Messages

LEMMA EnqueuerIs ==
    ASSUME MidiQueueTypeOK
    PROVE  /\ enqueuer.pc \in {"idle", "full", "write"}
           /\ enqueuer.pc = "full" => enqueuer \in [pc : {"full"}, msg : Events, i : Words]
           /\ enqueuer.pc = "write" =>
                  enqueuer \in [pc : {"write"}, msg : Events, i : 1 .. msg_size, ptr : Nat]
  BY DEF MidiQueueTypeOK

LEMMA DequeuerIs ==
    ASSUME MidiQueueTypeOK
    PROVE  /\ dequeuer.pc \in {"idle", "look", "test", "zero"}
           /\ dequeuer.pc = "look" => dequeuer \in [pc : {"look"}, for : {"read", "peek"}]
           /\ dequeuer.pc = "test" => dequeuer \in [pc : {"test"}, for : {"read", "peek"}, i : Words]
           /\ dequeuer.pc = "zero" => dequeuer \in [pc : {"zero"}, i : Words]
  BY DEF MidiQueueTypeOK

LEMMA RingOf ==
    ASSUME MidiQueueTypeOK, NEW n \in Nat, Holds(n)
    PROVE  /\ head \in Starts /\ tail \in Starts /\ head \in Nat /\ tail \in Nat
           /\ Oldest \in {0, 1} /\ n \in Oldest .. num_msgs /\ tail = SlotAfter(head, n)
           /\ \A i \in 0 .. num_msgs : SlotAfter(head, i) \in Starts
           /\ SlotAfter(head, 0) = head /\ SlotAfter(head, num_msgs) = head
           /\ \A i \in 0 .. num_msgs - 1 : SlotAfter(head, i) = head => i = 0
           /\ 0 \in Words
  <1>1. head \in Starts /\ tail \in Starts
    BY DEF MidiQueueTypeOK
  <1>2. 0 \in Words /\ 0 \in 0 .. num_msgs - 1
    BY SizesAre DEF Words
  <1>3. head \in Nat /\ tail \in Nat
    BY <1>1, <1>2, SlotsAre
  <1>4. Oldest \in {0, 1} /\ n \in Oldest .. num_msgs /\ tail = SlotAfter(head, n)
    BY DEF Oldest, Holds
  <1>5. /\ \A i \in 0 .. num_msgs : SlotAfter(head, i) \in Starts
        /\ SlotAfter(head, 0) = head /\ SlotAfter(head, num_msgs) = head
    BY <1>1, RingIs
  <1>6. \A i \in 0 .. num_msgs - 1 : SlotAfter(head, i) = SlotAfter(head, 0) => i = 0
    BY <1>1, <1>2, RingIs
  <1> QED BY <1>1, <1>2, <1>3, <1>4, <1>5, <1>6

LEMMA NotWhole ==
    ASSUME MidiQueueInv, NEW n \in Nat, Holds(n), n < num_msgs
    PROVE  ~WholeAt(SlotAfter(head, n))
  <1>1. MidiQueueTypeOK /\ EnqueuerInv
    BY DEF MidiQueueInv
  <1>2. 0 \in 0 .. msg_size - 1 /\ n \in n .. num_msgs - 1 /\ tail = SlotAfter(head, n)
    BY <1>1, RingOf, SizesAre
  <1>3. CASE enqueuer.pc = "write"
    <2>1. PICK p \in Words : buffer[tail + p] = 0
      BY <1>1, <1>3 DEF EnqueuerInv, IsWriting
    <2> QED BY <1>2, <2>1 DEF WholeAt, Words
  <1>4. CASE enqueuer.pc # "write"
    <2>1. ZeroAt(SlotAfter(head, n))
      BY <1>2, <1>4 DEF Holds
    <2> QED BY <1>2, <2>1 DEF WholeAt, ZeroAt, Words
  <1> QED BY <1>3, <1>4

-----------------------------------------------------------------------------
(* What is in the buffer                                                   *)

MessagesOf(n) == [i \in 1 .. n - Oldest |-> MessageAt(SlotAfter(head, Oldest + i - 1))]
InBufferIs == \A n \in Nat : Holds(n) => InBuffer = MessagesOf(n)

LEMMA BufferHolds == MidiQueueInv => InBufferIs
  <1> SUFFICES ASSUME MidiQueueInv, NEW n \in Nat, Holds(n) PROVE InBuffer = MessagesOf(n)
    BY DEF InBufferIs
  <1> DEFINE ends(x) == /\ \A i \in Oldest .. x - 1 : WholeAt(SlotAfter(head, i))
                        /\ x < num_msgs => ~WholeAt(SlotAfter(head, x))
  <1>1. Oldest \in {0, 1} /\ n \in Oldest .. num_msgs
    BY RingOf DEF MidiQueueInv
  <1>2. ends(n)
    BY NotWhole DEF Holds
  <1>3. ASSUME NEW x \in Oldest .. num_msgs, ends(x) PROVE x = n
    <2>1. ~(x < n)
      BY <1>1, <1>2, <1>3, SizesAre
    <2>2. ~(n < x)
      BY <1>1, <1>2, <1>3, SizesAre
    <2> QED BY <1>1, <2>1, <2>2
  <1>4. (CHOOSE x \in Oldest .. num_msgs : ends(x)) = n
    <2> HIDE DEF ends
    <2> QED BY <1>1, <1>2, <1>3
  <1> QED BY <1>4, Zenon DEF InBuffer, MessagesOf

LEMMA BufferHoldsNext == MidiQueueInv' => InBufferIs'
  BY BufferHolds, PTL

-----------------------------------------------------------------------------
(* The enqueuer                                                            *)

LEMMA EnqueueKeeps == ASSUME MidiQueueInv, NEW m \in Events, Enqueue(m) PROVE MidiQueueInv'
  <1>1. /\ enqueuer.pc = "idle" /\ overflow = 0 /\ enqueuer' = [pc |-> "full", msg |-> m, i |-> 0]
        /\ UNCHANGED <<buffer, overflow, tail, dequeuerVars>>
    BY DEF Enqueue
  <1>2. 0 \in Words
    BY SizesAre DEF Words
  <1>3. MidiQueueTypeOK'
    BY <1>1, <1>2 DEF MidiQueueInv, MidiQueueTypeOK, dequeuerVars
  <1>4. DequeuerInv'
    BY <1>1 DEF MidiQueueInv, DequeuerInv, dequeuerVars
  <1>5. EnqueuerInv'
    BY <1>1 DEF EnqueuerInv
  <1>6. \A n \in Nat : Holds(n) => Holds(n)'
    BY <1>1 DEF Holds, Oldest, WholeAt, ZeroAt, dequeuerVars
  <1> QED BY <1>3, <1>4, <1>5, <1>6 DEF MidiQueueInv

LEMMA TestFullKeeps == ASSUME MidiQueueInv, TestFull PROVE MidiQueueInv'
  <1>1. enqueuer.pc = "full" /\ UNCHANGED <<buffer, tail, dequeuerVars>>
    BY DEF TestFull
  <1>2. PICK n \in Nat : Holds(n)
    BY DEF MidiQueueInv
  <1>3. /\ enqueuer \in [pc : {"full"}, msg : Events, i : Words] /\ MidiQueueTypeOK
        /\ DequeuerInv /\ EnqueuerInv
    BY <1>1, EnqueuerIs DEF MidiQueueInv
  <1>4. /\ head \in Nat /\ tail \in Nat /\ tail = SlotAfter(head, n) /\ n \in Oldest .. num_msgs
        /\ SlotAfter(head, 0) = head /\ SlotAfter(head, num_msgs) = head /\ Oldest \in {0, 1}
    BY <1>2, <1>3, RingOf
  <1>5. DequeuerInv'
    BY <1>1, <1>3 DEF DequeuerInv, dequeuerVars
  <1>6. CASE buffer[tail + enqueuer.i] # 0
    <2>1. overflow' = tail + 1 /\ enqueuer' = IDLE
      BY <1>6 DEF TestFull
    <2>2. MidiQueueTypeOK'
      BY <1>1, <1>3, <2>1 DEF MidiQueueTypeOK, dequeuerVars, IDLE
    <2>3. EnqueuerInv'
      BY <2>1 DEF EnqueuerInv, IDLE
    <2>4. Holds(n)'
      BY <1>1, <1>2, <2>1 DEF Holds, Oldest, WholeAt, ZeroAt, dequeuerVars, IDLE
    <2> QED BY <1>2, <1>5, <2>2, <2>3, <2>4 DEF MidiQueueInv
  <1>7. CASE buffer[tail + enqueuer.i] = 0
    <2>1. /\ overflow' = overflow
          /\ enqueuer' = IF enqueuer.i + 1 < msg_size THEN [enqueuer EXCEPT !.i = @ + 1]
                         ELSE [pc |-> "write", msg |-> enqueuer.msg, i |-> 1, ptr |-> tail]
      BY <1>7 DEF TestFull
    <2>2. overflow = 0
      BY <1>1, <1>3 DEF EnqueuerInv
    <2>3. \A j \in 0 .. enqueuer.i : buffer[tail + j] = 0
      <3>1. \A j \in 0 .. enqueuer.i - 1 : buffer[tail + j] = 0
        BY <1>1, <1>3 DEF EnqueuerInv
      <3> QED BY <1>3, <1>7, <3>1 DEF Words
    <2>4. CASE enqueuer.i + 1 < msg_size
      <3>1. PICK x \in Words : x = enqueuer.i + 1
        BY <1>3, <2>4, SizesAre DEF Words
      <3>2. enqueuer' = [pc |-> "full", msg |-> enqueuer.msg, i |-> x]
        BY <1>3, <2>1, <2>4, <3>1
      <3>3. MidiQueueTypeOK'
        BY <1>1, <1>3, <2>1, <3>2 DEF MidiQueueTypeOK, dequeuerVars
      <3>4. EnqueuerInv'
        BY <1>1, <1>3, <2>1, <2>2, <2>3, <3>1, <3>2 DEF EnqueuerInv, Words
      <3>5. Holds(n)'
        BY <1>1, <1>2, <3>2 DEF Holds, Oldest, WholeAt, ZeroAt, dequeuerVars
      <3> QED BY <1>2, <1>5, <3>3, <3>4, <3>5 DEF MidiQueueInv
    <2>5. CASE ~(enqueuer.i + 1 < msg_size)
      <3>1. enqueuer' = [pc |-> "write", msg |-> enqueuer.msg, i |-> 1, ptr |-> tail]
        BY <2>1, <2>5
      <3>2. \A j \in Words : buffer[tail + j] = 0
        <4>1. \A j \in Words : j \in 0 .. enqueuer.i
          BY <1>3, <2>5, SizesAre DEF Words
        <4> QED BY <2>3, <4>1
      <3>3. n < num_msgs
        <4> SUFFICES ASSUME n = num_msgs PROVE FALSE
          BY <1>4, SizesAre
        <4>1. tail = head
          BY <1>4
        <4>2. CASE Oldest = 0
          <5>1. WholeAt(head)
            BY <1>2, <1>4, <4>2, SizesAre DEF Holds
          <5> QED BY <3>2, <4>1, <5>1, SizesAre DEF WholeAt, Words
        <4>3. CASE Oldest = 1
          <5>1. dequeuer.pc = "zero"
            BY <4>3 DEF Oldest
          <5>2. dequeuer.i \in Words
            BY <1>3, <5>1, DequeuerIs
          <5>3. buffer[head + dequeuer.i] # 0
            BY <1>3, <5>1, <5>2 DEF DequeuerInv, Words
          <5> QED BY <3>2, <4>1, <5>2, <5>3
        <4> QED BY <1>4, <4>2, <4>3
      <3>4. MidiQueueTypeOK'
        <4>1. enqueuer' \in [pc : {"write"}, msg : Events, i : 1 .. msg_size, ptr : Nat]
          BY <1>3, <1>4, <3>1, SizesAre
        <4> QED BY <1>1, <1>3, <2>1, <4>1 DEF MidiQueueTypeOK, dequeuerVars
      <3>5. EnqueuerInv'
        <4>1. 0 \in Words /\ tail + 0 = tail /\ \A j \in 1 .. msg_size - 1 : j \in Words
          BY <1>4, SizesAre DEF Words
        <4>2. PICK m : m = enqueuer.msg
          OBVIOUS
        <4>3. IsWriting(m, 1, 0)'
          BY <1>1, <3>2, <4>1 DEF IsWriting, IsPartAt
        <4> QED BY <1>1, <2>1, <2>2, <3>1, <4>1, <4>2, <4>3 DEF EnqueuerInv
      <3>6. Holds(n)'
        BY <1>1, <1>2, <3>1, <3>3 DEF Holds, Oldest, WholeAt, ZeroAt, dequeuerVars
      <3> QED BY <1>2, <1>5, <3>4, <3>5, <3>6 DEF MidiQueueInv
    <2> QED BY <2>4, <2>5
  <1> QED BY <1>6, <1>7

LEMMA SetOverflowKeeps == ASSUME MidiQueueInv, SetOverflow PROVE MidiQueueInv'
  <1>1. /\ enqueuer.pc = "idle" /\ overflow' = tail + 1
        /\ UNCHANGED <<buffer, enqueuerVars, dequeuerVars>>
    BY DEF SetOverflow
  <1>2. MidiQueueTypeOK'
    BY <1>1 DEF MidiQueueInv, MidiQueueTypeOK, dequeuerVars, enqueuerVars
  <1>3. DequeuerInv'
    BY <1>1 DEF MidiQueueInv, DequeuerInv, dequeuerVars
  <1>4. EnqueuerInv'
    BY <1>1 DEF EnqueuerInv, enqueuerVars
  <1>5. \A n \in Nat : Holds(n) => Holds(n)'
    BY <1>1 DEF Holds, Oldest, WholeAt, ZeroAt, dequeuerVars, enqueuerVars
  <1> QED BY <1>2, <1>3, <1>4, <1>5 DEF MidiQueueInv

\* The enqueuer writes a word that is not 0 into the slot at the tail, which is not full.
LEMMA SlotIsWritten ==
    ASSUME MidiQueueInv, enqueuer.pc = "write", NEW n \in Nat, Holds(n), NEW i \in Words,
           NEW v \in Nat \ {0}, buffer' = [buffer EXCEPT ![tail + i] = v], UNCHANGED dequeuerVars
    PROVE  /\ buffer' \in [0 .. len - 1 -> Nat]
           /\ \A j \in Words : buffer'[tail + j] = IF j = i THEN v ELSE buffer[tail + j]
           /\ \A x \in 0 .. num_msgs - 1 :
                  x # n => /\ WholeAt(SlotAfter(head, x))' <=> WholeAt(SlotAfter(head, x))
                           /\ ZeroAt(SlotAfter(head, x))' <=> ZeroAt(SlotAfter(head, x))
                           /\ MessageAt(SlotAfter(head, x))' = MessageAt(SlotAfter(head, x))
           /\ DequeuerInv'
  <1>1. MidiQueueTypeOK /\ n < num_msgs /\ n \in Oldest .. num_msgs
    BY DEF MidiQueueInv, Holds
  <1>2. /\ head \in Starts /\ tail \in Starts /\ tail = SlotAfter(head, n) /\ n \in 0 .. num_msgs - 1
        /\ SlotAfter(head, 0) = head /\ \A x \in 0 .. num_msgs : SlotAfter(head, x) \in Starts
    BY <1>1, RingOf, SizesAre
  <1>3. /\ buffer' \in [0 .. len - 1 -> Nat]
        /\ \A j \in Words : buffer'[tail + j] = IF j = i THEN v ELSE buffer[tail + j]
        /\ \A l \in Starts, j \in Words : l # tail => buffer'[l + j] = buffer[l + j]
    BY <1>1, <1>2, OneWord
  <1>4. ASSUME NEW x \in 0 .. num_msgs - 1, x # n
        PROVE  /\ WholeAt(SlotAfter(head, x))' <=> WholeAt(SlotAfter(head, x))
               /\ ZeroAt(SlotAfter(head, x))' <=> ZeroAt(SlotAfter(head, x))
               /\ MessageAt(SlotAfter(head, x))' = MessageAt(SlotAfter(head, x))
    <2>1. PICK k : k = SlotAfter(head, x)
      OBVIOUS
    <2>2. k \in Starts /\ k # tail
      BY <1>2, <1>4, <2>1, RingIs, SizesAre
    <2>3. \A j \in Words : buffer'[k + j] = buffer[k + j]
      BY <1>3, <2>2
    <2>4. /\ WholeAt(k)' <=> WholeAt(k)
          /\ ZeroAt(k)' <=> ZeroAt(k)
          /\ MessageAt(k)' = MessageAt(k)
      BY <2>3, SameSlot
    <2>5. SlotAfter(head, x)' = k
      BY <2>1 DEF dequeuerVars, SlotAfter
    <2> QED BY <2>1, <2>4, <2>5 DEF WholeAt, ZeroAt, MessageAt, Zeros, LinksStayIn
  <1>5. DequeuerInv'
    <2>1. \A j \in Words : buffer[head + j] # 0 => buffer'[head + j] # 0
      BY <1>2, <1>3
    <2>2. ASSUME dequeuer.pc = "test"
          PROVE  \A j \in dequeuer.i + 1 .. msg_size - 1 : buffer'[head + j] # 0
      <3>1. dequeuer.i \in Words
        BY <1>1, <2>2, DequeuerIs
      <3>2. \A j \in dequeuer.i + 1 .. msg_size - 1 : j \in Words /\ buffer[head + j] # 0
        BY <2>2, <3>1, SizesAre DEF MidiQueueInv, DequeuerInv, Words
      <3> QED BY <2>1, <3>2
    <2>3. ASSUME dequeuer.pc = "zero"
          PROVE  \A j \in Words : (buffer'[head + j] = 0 <=> j < dequeuer.i)
      <3>1. n # 0
        BY <1>1, <2>3 DEF Oldest
      <3>2. head # tail
        <4>1. 0 \in 0 .. num_msgs - 1
          BY SizesAre
        <4> QED BY <1>2, <3>1, <4>1, RingIs
      <3>3. \A j \in Words : buffer'[head + j] = buffer[head + j]
        BY <1>2, <1>3, <3>2
      <3> QED BY <2>3, <3>3 DEF MidiQueueInv, DequeuerInv
    <2> QED BY <2>2, <2>3 DEF MidiQueueInv, DequeuerInv, dequeuerVars
  <1> QED BY <1>3, <1>4, <1>5

\* The slot at the tail is written to while n are full.
LEMMA StillHolds ==
    ASSUME MidiQueueTypeOK, NEW n \in Nat, Holds(n), n < num_msgs, UNCHANGED <<tail, dequeuerVars>>,
           enqueuer'.pc = "write",
           \A x \in 0 .. num_msgs - 1 :
              x # n => /\ WholeAt(SlotAfter(head, x))' <=> WholeAt(SlotAfter(head, x))
                       /\ ZeroAt(SlotAfter(head, x))' <=> ZeroAt(SlotAfter(head, x))
    PROVE  Holds(n)'
  <1>1. /\ Oldest \in {0, 1} /\ n \in Oldest .. num_msgs /\ tail = SlotAfter(head, n)
    BY RingOf
  <1>2. Oldest' = Oldest /\ head' = head /\ tail' = tail
    BY DEF Oldest, dequeuerVars
  <1>3. \A x \in Oldest .. n - 1 : WholeAt(SlotAfter(head, x))'
    BY <1>1, SizesAre DEF Holds
  <1>4. \A x \in n .. num_msgs - 1 : x = n \/ ZeroAt(SlotAfter(head, x))'
    BY <1>1 DEF Holds
  <1>5. SlotAfter(head', n) = tail'
    BY <1>1, <1>2
  <1> QED BY <1>1, <1>2, <1>3, <1>4, <1>5 DEF Holds, SlotAfter

LEMMA WriteKeeps ==
    ASSUME MidiQueueInv, Write, NEW n \in Nat, Holds(n)
    PROVE  /\ MidiQueueInv' /\ Holds(n)' /\ n \in Oldest .. num_msgs - 1
           /\ enqueuer'.msg = enqueuer.msg /\ enqueuer'.pc = "write"
           /\ \A x \in 0 .. num_msgs - 1 :
                  x # n => MessageAt(SlotAfter(head, x))' = MessageAt(SlotAfter(head, x))
  <1>1. /\ enqueuer.pc = "write" /\ enqueuer.i < msg_size
        /\ UNCHANGED <<overflow, tail, dequeuerVars>>
    BY DEF Write
  <1>3. /\ enqueuer \in [pc : {"write"}, msg : Events, i : 1 .. msg_size, ptr : Nat] /\ MidiQueueTypeOK
        /\ DequeuerInv /\ EnqueuerInv /\ overflow = 0 /\ n < num_msgs /\ n \in Oldest .. num_msgs - 1
    BY <1>1, SizesAre, EnqueuerIs DEF MidiQueueInv, EnqueuerInv, Holds
  <1>4. tail \in Nat /\ tail \in Starts
    BY <1>3, RingOf
  <1>5. PICK p \in Words : enqueuer.ptr = tail + p /\ IsWriting(enqueuer.msg, enqueuer.i, p)
    BY <1>1, <1>3 DEF EnqueuerInv
  <1>6. PICK m \in Events, i \in Words : m = enqueuer.msg /\ i = enqueuer.i /\ i >= 1
    BY <1>1, <1>3, SizesAre DEF Words
  <1>7. /\ p < i /\ (p = 0 \/ m[p] = 0) /\ buffer[tail + p] = 0
        /\ \A j \in p + 1 .. i - 1 : m[j] # 0
        /\ \A j \in 1 .. i - 1 : m[j] # 0 => buffer[tail + j] = m[j]
        /\ \A q \in 0 .. i - 1 : (q = 0 \/ m[q] = 0) /\ q # p => IsNext(m, q, buffer[tail + q])
        /\ \A j \in i .. msg_size - 1 : buffer[tail + j] = 0
    BY <1>5, <1>6 DEF IsWriting, IsPartAt
  <1>8. i + 1 \in 1 .. msg_size /\ i \in Nat /\ p \in Nat /\ m[i] \in Nat
    BY <1>6, SizesAre, EventIs DEF Words
  <1>9. CASE m[i] = 0
    <2>1. /\ buffer' = [buffer EXCEPT ![tail + p] = i]
          /\ enqueuer' = [pc |-> "write", msg |-> m, i |-> i + 1, ptr |-> tail + i]
      <3>1. /\ buffer' = [buffer EXCEPT ![enqueuer.ptr] = i]
            /\ enqueuer' = [enqueuer EXCEPT !.i = @ + 1, !.ptr = tail + i]
        BY <1>6, <1>9 DEF Write, Link
      <3>2. enqueuer = [pc |-> "write", msg |-> m, i |-> i, ptr |-> tail + p]
        BY <1>3, <1>5, <1>6
      <3> QED BY <3>1, <3>2
    <2>2. i \in Nat \ {0}
      BY <1>6, <1>8
    <2>3. /\ buffer' \in [0 .. len - 1 -> Nat]
          /\ \A j \in Words : buffer'[tail + j] = IF j = p THEN i ELSE buffer[tail + j]
          /\ \A x \in 0 .. num_msgs - 1 :
                 x # n => /\ WholeAt(SlotAfter(head, x))' <=> WholeAt(SlotAfter(head, x))
                          /\ ZeroAt(SlotAfter(head, x))' <=> ZeroAt(SlotAfter(head, x))
                          /\ MessageAt(SlotAfter(head, x))' = MessageAt(SlotAfter(head, x))
          /\ DequeuerInv'
      BY <1>1, <2>1, <2>2, SlotIsWritten
    <2>4. Holds(n)'
      BY <1>1, <1>3, <2>1, <2>3, StillHolds
    <2>5. MidiQueueTypeOK'
      <3>1. enqueuer' \in [pc : {"write"}, msg : Events, i : 1 .. msg_size, ptr : Nat]
        BY <1>4, <1>8, <2>1
      <3> QED BY <1>1, <1>3, <2>3, <3>1 DEF MidiQueueTypeOK, dequeuerVars
    <2>6. IsWriting(m, i + 1, i)'
      <3>1. buffer'[tail + i] = 0
        BY <1>7, <1>8, <2>3 DEF Words
      <3>2. ASSUME NEW j \in 1 .. i, m[j] # 0 PROVE buffer'[tail + j] = m[j]
        <4>1. j \in 1 .. i - 1 /\ j # p /\ j \in Words
          BY <1>7, <1>8, <1>9, <3>2, SizesAre DEF Words
        <4> QED BY <1>7, <2>3, <3>2, <4>1
      <3>3. ASSUME NEW q \in 0 .. i, q = 0 \/ m[q] = 0, q # i PROVE IsNext(m, q, buffer'[tail + q])
        <4>1. q \in 0 .. i - 1 /\ q \in Words
          BY <1>8, <3>3, SizesAre DEF Words
        <4>2. CASE q = p
          <5>1. IsNext(m, p, i)
            BY <1>7, <1>8, <1>9, SizesAre DEF IsNext
          <5> QED BY <2>3, <4>1, <4>2, <5>1
        <4>3. CASE q # p
          BY <1>7, <2>3, <3>3, <4>1, <4>3
        <4> QED BY <4>2, <4>3
      <3>4. ASSUME NEW j \in i + 1 .. msg_size - 1 PROVE buffer'[tail + j] = 0
        <4>1. j \in Words /\ j # p /\ j \in i .. msg_size - 1
          BY <1>7, <1>8 DEF Words
        <4> QED BY <1>7, <2>3, <4>1
      <3>5. i + 1 - 1 = i /\ i < i + 1
        BY <1>8
      <3>6. IsPartAt(m, tail, i + 1, i)'
        <4>1. \A j \in 1 .. i + 1 - 1 : m[j] # 0 => buffer'[tail' + j] = m[j]
          BY <1>1, <3>2, <3>5
        <4>2. \A q \in 0 .. i + 1 - 1 : (q = 0 \/ m[q] = 0) /\ q # i => IsNext(m, q, buffer'[tail' + q])
          BY <1>1, <3>3, <3>5
        <4> QED BY <1>8, <4>1, <4>2, SizesAre DEF IsPartAt, IsNext
      <3> QED BY <1>1, <1>8, <1>9, <3>1, <3>4, <3>5, <3>6 DEF IsWriting
    <2>7. EnqueuerInv'
      BY <1>1, <1>3, <2>1, <2>6 DEF EnqueuerInv
    <2> QED BY <1>3, <1>6, <2>1, <2>3, <2>4, <2>5, <2>7 DEF MidiQueueInv
  <1>10. CASE m[i] # 0
    <2>1. /\ buffer' = [buffer EXCEPT ![tail + i] = m[i]]
          /\ enqueuer' = [pc |-> "write", msg |-> m, i |-> i + 1, ptr |-> tail + p]
      <3>1. /\ buffer' = [buffer EXCEPT ![tail + i] = m[i]]
            /\ enqueuer' = [enqueuer EXCEPT !.i = @ + 1]
        BY <1>6, <1>10 DEF Write
      <3>2. enqueuer = [pc |-> "write", msg |-> m, i |-> i, ptr |-> tail + p]
        BY <1>3, <1>5, <1>6
      <3> QED BY <3>1, <3>2
    <2>2. m[i] \in Nat \ {0}
      BY <1>8, <1>10
    <2>3. /\ buffer' \in [0 .. len - 1 -> Nat]
          /\ \A j \in Words : buffer'[tail + j] = IF j = i THEN m[i] ELSE buffer[tail + j]
          /\ \A x \in 0 .. num_msgs - 1 :
                 x # n => /\ WholeAt(SlotAfter(head, x))' <=> WholeAt(SlotAfter(head, x))
                          /\ ZeroAt(SlotAfter(head, x))' <=> ZeroAt(SlotAfter(head, x))
                          /\ MessageAt(SlotAfter(head, x))' = MessageAt(SlotAfter(head, x))
          /\ DequeuerInv'
      BY <1>1, <2>1, <2>2, SlotIsWritten
    <2>4. Holds(n)'
      BY <1>1, <1>3, <2>1, <2>3, StillHolds
    <2>5. MidiQueueTypeOK'
      <3>1. enqueuer' \in [pc : {"write"}, msg : Events, i : 1 .. msg_size, ptr : Nat]
        BY <1>4, <1>8, <2>1
      <3> QED BY <1>1, <1>3, <2>3, <3>1 DEF MidiQueueTypeOK, dequeuerVars
    <2>6. IsWriting(m, i + 1, p)'
      <3>1. buffer'[tail + p] = 0
        BY <1>7, <1>8, <2>3 DEF Words
      <3>2. ASSUME NEW j \in 1 .. i, m[j] # 0 PROVE buffer'[tail + j] = m[j]
        <4>1. j \in Words /\ (j # i => j \in 1 .. i - 1)
          BY <1>8, SizesAre DEF Words
        <4> QED BY <1>7, <2>3, <3>2, <4>1
      <3>3. ASSUME NEW q \in 0 .. i, q = 0 \/ m[q] = 0, q # p PROVE IsNext(m, q, buffer'[tail + q])
        <4>1. q \in 0 .. i - 1 /\ q \in Words /\ q # i
          BY <1>6, <1>8, <1>10, <3>3, SizesAre DEF Words
        <4> QED BY <1>7, <2>3, <3>3, <4>1
      <3>4. ASSUME NEW j \in i + 1 .. msg_size - 1 PROVE buffer'[tail + j] = 0
        <4>1. j \in Words /\ j # i /\ j \in i .. msg_size - 1
          BY <1>8 DEF Words
        <4> QED BY <1>7, <2>3, <4>1
      <3>5. i + 1 - 1 = i /\ p < i + 1
        BY <1>7, <1>8
      <3>6. IsPartAt(m, tail, i + 1, p)'
        <4>1. \A j \in 1 .. i + 1 - 1 : m[j] # 0 => buffer'[tail' + j] = m[j]
          BY <1>1, <3>2, <3>5
        <4>2. \A q \in 0 .. i + 1 - 1 : (q = 0 \/ m[q] = 0) /\ q # p => IsNext(m, q, buffer'[tail' + q])
          BY <1>1, <3>3, <3>5
        <4> QED BY <1>8, <4>1, <4>2, SizesAre DEF IsPartAt, IsNext
      <3>7. \A j \in p + 1 .. i : m[j] # 0
        BY <1>7, <1>8, <1>10
      <3>8. \A j \in p + 1 .. i + 1 - 1 : m[j] # 0
        BY <3>5, <3>7
      <3> QED BY <1>1, <1>7, <1>8, <3>1, <3>4, <3>5, <3>6, <3>8 DEF IsWriting
    <2>7. EnqueuerInv'
      BY <1>1, <1>3, <2>1, <2>6 DEF EnqueuerInv
    <2> QED BY <1>3, <1>6, <2>1, <2>3, <2>4, <2>5, <2>7 DEF MidiQueueInv
  <1> QED BY <1>9, <1>10

\* One more slot is full, with the message in it.
LEMMA WrittenKeeps ==
    ASSUME MidiQueueInv, Written, NEW n \in Nat, Holds(n)
    PROVE  /\ MidiQueueInv' /\ Holds(n + 1)' /\ n + 1 \in Nat /\ n \in Oldest .. num_msgs - 1
           /\ MessageAt(SlotAfter(head, n))' = enqueuer.msg
           /\ \A x \in 0 .. num_msgs - 1 :
                  x # n => MessageAt(SlotAfter(head, x))' = MessageAt(SlotAfter(head, x))
  <1>1. /\ enqueuer.pc = "write" /\ enqueuer.i = msg_size /\ tail' = After(tail) /\ enqueuer' = IDLE
        /\ buffer' = [buffer EXCEPT ![enqueuer.ptr] = msg_size]
        /\ UNCHANGED <<overflow, dequeuerVars>>
    BY DEF Written
  <1>2. /\ enqueuer \in [pc : {"write"}, msg : Events, i : 1 .. msg_size, ptr : Nat] /\ MidiQueueTypeOK
        /\ DequeuerInv /\ EnqueuerInv /\ overflow = 0 /\ n < num_msgs
    BY <1>1, EnqueuerIs DEF MidiQueueInv, EnqueuerInv, Holds
  <1>3. /\ head \in Starts /\ tail \in Nat /\ tail \in Starts /\ tail = SlotAfter(head, n)
        /\ Oldest \in {0, 1} /\ n \in Oldest .. num_msgs - 1 /\ n \in 0 .. num_msgs - 1
        /\ n + 1 \in Nat /\ n + 1 \in Oldest .. num_msgs
    BY <1>2, RingOf, SizesAre
  <1>4. PICK p \in Words : enqueuer.ptr = tail + p /\ IsWriting(enqueuer.msg, enqueuer.i, p)
    BY <1>1, <1>2 DEF EnqueuerInv
  <1>5. PICK m \in Events : m = enqueuer.msg
    BY <1>2
  <1>6. /\ p < msg_size /\ (p = 0 \/ m[p] = 0)
        /\ \A j \in p + 1 .. msg_size - 1 : m[j] # 0
        /\ \A j \in 1 .. msg_size - 1 : m[j] # 0 => buffer[tail + j] = m[j]
        /\ \A q \in 0 .. msg_size - 1 :
               (q = 0 \/ m[q] = 0) /\ q # p => IsNext(m, q, buffer[tail + q])
    BY <1>1, <1>4, <1>5 DEF IsWriting, IsPartAt
  <1>7. /\ buffer' \in [0 .. len - 1 -> Nat]
        /\ \A j \in Words : buffer'[tail + j] = IF j = p THEN msg_size ELSE buffer[tail + j]
        /\ \A x \in 0 .. num_msgs - 1 :
               x # n => /\ WholeAt(SlotAfter(head, x))' <=> WholeAt(SlotAfter(head, x))
                        /\ ZeroAt(SlotAfter(head, x))' <=> ZeroAt(SlotAfter(head, x))
                        /\ MessageAt(SlotAfter(head, x))' = MessageAt(SlotAfter(head, x))
        /\ DequeuerInv'
    <2>1. msg_size \in Nat \ {0} /\ buffer' = [buffer EXCEPT ![tail + p] = msg_size]
      BY <1>1, <1>4, SizesAre
    <2> QED BY <1>1, <2>1, SlotIsWritten
  <1>8. MidiQueueTypeOK'
    <2>1. tail' \in Starts
      BY <1>1, <1>3, RingIs
    <2> QED BY <1>1, <1>2, <1>7, <2>1 DEF MidiQueueTypeOK, dequeuerVars, IDLE
  <1>9. EnqueuerInv'
    BY <1>1, <1>2 DEF EnqueuerInv, IDLE
  <1>10. \A k \in Starts : IsPartAt(m, k, msg_size, msg_size)' =>
                               WholeAt(k)' /\ MessageAt(k)' = m
    <2>1. ReadAsWritten'
      BY <1>8, MessagesAreReadNext
    <2> QED BY <2>1 DEF ReadAsWritten
  <1>11. PICK k \in Starts : k = tail
    BY <1>3
  <1>12. IsPartAt(m, k, msg_size, msg_size)'
    <2>1. ASSUME NEW j \in 1 .. msg_size - 1, m[j] # 0 PROVE buffer'[k + j] = m[j]
      <3>1. j \in Words /\ j # p
        BY <1>6, <2>1, SizesAre DEF Words
      <3> QED BY <1>6, <1>7, <1>11, <2>1, <3>1
    <2>2. ASSUME NEW q \in 0 .. msg_size - 1, q = 0 \/ m[q] = 0 PROVE IsNext(m, q, buffer'[k + q])
      <3>1. q \in Words
        BY DEF Words
      <3>2. CASE q = p
        <4>1. IsNext(m, p, msg_size)
          BY <1>6, <3>1, <3>2, SizesAre DEF IsNext, Words
        <4> QED BY <1>7, <1>11, <3>1, <3>2, <4>1
      <3>3. CASE q # p
        BY <1>6, <1>7, <1>11, <2>2, <3>1, <3>3
      <3> QED BY <3>2, <3>3
    <2> QED BY <2>1, <2>2, SizesAre DEF IsPartAt, IsNext
  <1>13. WholeAt(k)' /\ MessageAt(k)' = m
    BY <1>10, <1>12
  <1>14. head' = head /\ Oldest' = Oldest
    BY <1>1 DEF dequeuerVars, Oldest
  <1>15. SlotAfter(head, n)' = k /\ SlotAfter(head, n) = k
    BY <1>3, <1>11, <1>14 DEF SlotAfter
  <1>16. WholeAt(SlotAfter(head, n))' /\ MessageAt(SlotAfter(head, n))' = enqueuer.msg
    BY <1>5, <1>13, <1>15 DEF WholeAt, MessageAt, Zeros, LinksStayIn
  <1>17. Holds(n + 1)'
    <2>1. \A x \in Oldest .. n + 1 - 1 : WholeAt(SlotAfter(head, x))'
      <3> SUFFICES ASSUME NEW x \in Oldest .. n + 1 - 1 PROVE WholeAt(SlotAfter(head, x))'
        OBVIOUS
      <3>1. x \in 0 .. num_msgs - 1 /\ (x # n => x \in Oldest .. n - 1)
        BY <1>3, SizesAre
      <3> QED BY <1>7, <1>16, <3>1 DEF Holds
    <2>2. \A x \in n + 1 .. num_msgs - 1 : ZeroAt(SlotAfter(head, x))'
      <3> SUFFICES ASSUME NEW x \in n + 1 .. num_msgs - 1 PROVE ZeroAt(SlotAfter(head, x))'
        OBVIOUS
      <3>1. x \in 0 .. num_msgs - 1 /\ x # n /\ x \in n .. num_msgs - 1
        BY <1>3, SizesAre
      <3> QED BY <1>7, <3>1 DEF Holds
    <2>3. tail' = SlotAfter(head', n + 1)
      <3>1. After(SlotAfter(head, n)) = SlotAfter(head, n + 1)
        BY <1>3, RingIs
      <3> QED BY <1>1, <1>3, <1>14, <3>1
    <2>4. enqueuer'.pc # "write"
      BY <1>1 DEF IDLE
    <2> QED BY <1>3, <1>14, <2>1, <2>2, <2>3, <2>4 DEF Holds, SlotAfter
  <1>18. MidiQueueInv'
    BY <1>3, <1>7, <1>8, <1>9, <1>17 DEF MidiQueueInv
  <1> QED BY <1>3, <1>7, <1>16, <1>17, <1>18

-----------------------------------------------------------------------------
(* The dequeuer                                                            *)

\* Steps of the dequeuer that leave the buffer alone and do not come to a message
LEMMA LookingKeeps ==
    ASSUME MidiQueueInv, UNCHANGED <<buffer, head, enqueuerVars>>, dequeuer.pc # "zero",
           dequeuer'.pc # "zero", overflow' \in {overflow, 0}, MidiQueueTypeOK', DequeuerInv'
    PROVE  MidiQueueInv'
  <1>1. PICK n \in Nat : Holds(n)
    BY DEF MidiQueueInv
  <1>2. EnqueuerInv'
    BY DEF MidiQueueInv, EnqueuerInv, enqueuerVars, IsWriting, IsPartAt
  <1>3. Oldest' = Oldest
    BY DEF Oldest
  <1>4. Holds(n)'
    BY <1>1, <1>3 DEF Holds, WholeAt, ZeroAt, enqueuerVars
  <1> QED BY <1>1, <1>2, <1>4 DEF MidiQueueInv

LEMMA DequeueKeeps == ASSUME MidiQueueInv, Dequeue PROVE MidiQueueInv'
  <1>1. dequeuer.pc = "idle" /\ UNCHANGED <<head, buffer, overflow, enqueuerVars>>
    BY DEF Dequeue
  <1>2. MidiQueueTypeOK
    BY DEF MidiQueueInv
  <1>3. CASE peekOverflow
    <2>1. peekOverflow' = FALSE /\ UNCHANGED <<peekFlag, peek, dequeuer>>
      BY <1>3 DEF Dequeue
    <2>2. MidiQueueTypeOK' /\ DequeuerInv'
      BY <1>1, <1>2, <2>1 DEF MidiQueueTypeOK, DequeuerInv, enqueuerVars
    <2> QED BY <1>1, <2>1, <2>2, LookingKeeps
  <1>4. CASE ~peekOverflow /\ peekFlag
    <2>1. peekFlag' = FALSE /\ peek' = <<>> /\ UNCHANGED <<peekOverflow, dequeuer>>
      BY <1>4 DEF Dequeue
    <2>2. MidiQueueTypeOK' /\ DequeuerInv'
      BY <1>1, <1>2, <2>1 DEF MidiQueueTypeOK, DequeuerInv, enqueuerVars
    <2> QED BY <1>1, <2>1, <2>2, LookingKeeps
  <1>5. CASE ~peekOverflow /\ ~peekFlag
    <2>1. dequeuer' = [pc |-> "look", for |-> "read"] /\ UNCHANGED <<peek, peekFlag, peekOverflow>>
      BY <1>5 DEF Dequeue
    <2>2. MidiQueueTypeOK' /\ DequeuerInv'
      BY <1>1, <1>2, <1>5, <2>1 DEF MidiQueueTypeOK, DequeuerInv, enqueuerVars
    <2> QED BY <1>1, <2>1, <2>2, LookingKeeps
  <1> QED BY <1>3, <1>4, <1>5

LEMMA QueuePeekKeeps == ASSUME MidiQueueInv, QueuePeek PROVE MidiQueueInv'
  <1>1. /\ dequeuer.pc = "idle" /\ ~peekFlag /\ dequeuer' = [pc |-> "look", for |-> "peek"]
        /\ UNCHANGED <<head, peek, peekFlag, peekOverflow, buffer, overflow, enqueuerVars>>
    BY DEF QueuePeek
  <1>2. MidiQueueTypeOK' /\ DequeuerInv'
    BY <1>1 DEF MidiQueueInv, MidiQueueTypeOK, DequeuerInv, enqueuerVars
  <1> QED BY <1>1, <1>2, LookingKeeps

LEMMA LookForOverflowKeeps == ASSUME MidiQueueInv, LookForOverflow PROVE MidiQueueInv'
  <1>1. dequeuer.pc = "look" /\ UNCHANGED <<head, peek, peekFlag, buffer, enqueuerVars>>
    BY DEF LookForOverflow
  <1>2. /\ MidiQueueTypeOK /\ DequeuerInv /\ dequeuer \in [pc : {"look"}, for : {"read", "peek"}]
    BY <1>1, DequeuerIs DEF MidiQueueInv
  <1>3. CASE overflow = head + 1 /\ AtOverflow
    <2>1. overflow' = 0 /\ dequeuer' = IDLE /\ peekOverflow' \in {peekOverflow, TRUE}
      BY <1>3 DEF LookForOverflow
    <2>2. MidiQueueTypeOK' /\ DequeuerInv'
      BY <1>1, <1>2, <2>1 DEF MidiQueueTypeOK, DequeuerInv, enqueuerVars, IDLE
    <2> QED BY <1>1, <2>1, <2>2, LookingKeeps DEF IDLE
  <1>4. CASE ~(overflow = head + 1 /\ AtOverflow)
    <2>1. /\ dequeuer' = [pc |-> "test", for |-> dequeuer.for, i |-> msg_size - 1]
          /\ UNCHANGED <<overflow, peekOverflow>>
      BY <1>4 DEF LookForOverflow
    <2>2. msg_size - 1 \in Words /\ msg_size - 1 + 1 .. msg_size - 1 = {}
      BY SizesAre DEF Words
    <2>3. MidiQueueTypeOK'
      BY <1>1, <1>2, <2>1, <2>2 DEF MidiQueueTypeOK, enqueuerVars
    <2>4. DequeuerInv'
      BY <1>1, <1>2, <2>1, <2>2 DEF DequeuerInv
    <2> QED BY <1>1, <2>1, <2>3, <2>4, LookingKeeps
  <1> QED BY <1>3, <1>4

Takes == dequeuer.pc = "test" /\ dequeuer.i = 0 /\ buffer[head + dequeuer.i] # 0

\* The dequeuer takes the message of the first slot.
LEMMA TakesKeeps ==
    ASSUME MidiQueueInv, Test, Takes, NEW n \in Nat, Holds(n)
    PROVE  /\ MidiQueueInv' /\ Holds(n)' /\ n >= 1 /\ Oldest = 0 /\ Oldest' = 1
           /\ MessageAt(head) \in Messages
  <1>1. /\ dequeuer.pc = "test" /\ dequeuer.i = 0 /\ buffer[head + dequeuer.i] # 0
        /\ dequeuer' = [pc |-> "zero", i |-> 0]
        /\ UNCHANGED <<head, peekOverflow, buffer, overflow, enqueuerVars>>
    BY DEF Takes, Test
  <1>2. MidiQueueTypeOK /\ DequeuerInv /\ EnqueuerInv
    BY DEF MidiQueueInv
  <1>3. /\ head \in Starts /\ n \in Oldest .. num_msgs /\ SlotAfter(head, 0) = head /\ 0 \in Words
    BY <1>2, RingOf
  <1>4. Oldest = 0 /\ Oldest' = 1
    BY <1>1 DEF Oldest
  <1>5. \A j \in Words : buffer[head + j] # 0
    <2> SUFFICES ASSUME NEW j \in Words PROVE buffer[head + j] # 0
      OBVIOUS
    <2>1. j = 0 \/ j \in 0 + 1 .. msg_size - 1
      BY SizesAre DEF Words
    <2> QED BY <1>1, <1>2, <2>1 DEF DequeuerInv
  <1>6. n >= 1
    <2>1. n = 0 => ~WholeAt(head)
      BY <1>3, NotWhole, SizesAre
    <2>2. WholeAt(head)
      BY <1>5 DEF WholeAt, Words
    <2> QED BY <2>1, <2>2
  <1>7. MessageAt(head) \in Messages
    BY <1>2, <1>3, MessageType
  <1>8. MidiQueueTypeOK'
    <2>1. peek' \in {peek, MessageAt(head)} /\ peekFlag' \in {peekFlag, TRUE}
      BY <1>1 DEF Test
    <2>2. dequeuer' \in [pc : {"zero"}, i : Words]
      BY <1>1, <1>3
    <2> QED BY <1>1, <1>2, <1>7, <2>1, <2>2 DEF MidiQueueTypeOK, enqueuerVars
  <1>9. DequeuerInv'
    <2>1. \A j \in Words : ~(j < 0)
      BY SizesAre DEF Words
    <2> QED BY <1>1, <1>5, <2>1 DEF DequeuerInv
  <1>10. EnqueuerInv'
    BY <1>1, <1>2 DEF EnqueuerInv, enqueuerVars, IsWriting, IsPartAt
  <1>11. Holds(n)'
    <2>1. n \in 1 .. num_msgs
      BY <1>3, <1>6, SizesAre
    <2>2. \A x \in 1 .. n - 1 : x \in 0 .. n - 1
      OBVIOUS
    <2> QED BY <1>1, <1>4, <2>1, <2>2 DEF Holds, WholeAt, ZeroAt, enqueuerVars
  <1> QED BY <1>4, <1>6, <1>7, <1>8, <1>9, <1>10, <1>11 DEF MidiQueueInv

LEMMA TestKeeps == ASSUME MidiQueueInv, Test PROVE MidiQueueInv'
  <1>1. dequeuer.pc = "test" /\ UNCHANGED <<head, peekOverflow, buffer, overflow, enqueuerVars>>
    BY DEF Test
  <1>2. /\ MidiQueueTypeOK /\ DequeuerInv
        /\ dequeuer \in [pc : {"test"}, for : {"read", "peek"}, i : Words]
    BY <1>1, DequeuerIs DEF MidiQueueInv
  <1>3. CASE Takes
    <2>1. PICK n \in Nat : Holds(n)
      BY DEF MidiQueueInv
    <2> QED BY <1>3, <2>1, TakesKeeps
  <1>4. CASE ~Takes
    <2>1. /\ dequeuer' = IF buffer[head + dequeuer.i] = 0 THEN IDLE ELSE [dequeuer EXCEPT !.i = @ - 1]
          /\ UNCHANGED <<peek, peekFlag>>
      BY <1>1, <1>4 DEF Takes, Test
    <2>2. CASE buffer[head + dequeuer.i] = 0
      <3>1. MidiQueueTypeOK' /\ DequeuerInv'
        BY <1>1, <1>2, <2>1, <2>2 DEF MidiQueueTypeOK, DequeuerInv, enqueuerVars, IDLE
      <3> QED BY <1>1, <2>1, <2>2, <3>1, LookingKeeps DEF IDLE
    <2>3. CASE buffer[head + dequeuer.i] # 0
      <3>1. PICK i \in Words : i = dequeuer.i - 1
        BY <1>1, <1>2, <1>4, <2>3, SizesAre DEF Takes, Words
      <3>2. dequeuer' = [pc |-> "test", for |-> dequeuer.for, i |-> i]
        BY <1>2, <2>1, <2>3, <3>1
      <3>3. \A j \in i + 1 .. msg_size - 1 : buffer[head + j] # 0
        <4> SUFFICES ASSUME NEW j \in i + 1 .. msg_size - 1 PROVE buffer[head + j] # 0
          OBVIOUS
        <4>1. j = dequeuer.i \/ j \in dequeuer.i + 1 .. msg_size - 1
          BY <1>2, <3>1, SizesAre DEF Words
        <4> QED BY <1>1, <1>2, <2>3, <4>1 DEF DequeuerInv
      <3>4. MidiQueueTypeOK'
        BY <1>1, <1>2, <2>1, <3>2 DEF MidiQueueTypeOK, enqueuerVars
      <3>5. DequeuerInv'
        BY <1>1, <1>2, <2>1, <3>2, <3>3 DEF DequeuerInv
      <3> QED BY <1>1, <3>2, <3>4, <3>5, LookingKeeps
    <2> QED BY <2>2, <2>3
  <1> QED BY <1>3, <1>4

\* The slot at the head is cleared, and then is the last one.
LEMMA ZeroKeeps ==
    ASSUME MidiQueueInv, Zero, NEW n \in Nat, Holds(n)
    PROVE  /\ MidiQueueInv' /\ Oldest = 1 /\ n \in 1 .. num_msgs
           /\ \A k \in Starts \ {head} : MessageAt(k)' = MessageAt(k)
           /\ \/ head' = head /\ Oldest' = 1 /\ Holds(n)'
              \/ head' = After(head) /\ Oldest' = 0 /\ Holds(n - 1)' /\ n - 1 \in Nat
  <1>1. /\ dequeuer.pc = "zero" /\ buffer' = [buffer EXCEPT ![head + dequeuer.i] = 0]
        /\ UNCHANGED <<peek, peekFlag, peekOverflow, dequeued, overflow, enqueuerVars>>
    BY DEF Zero
  <1>2. /\ MidiQueueTypeOK /\ DequeuerInv /\ EnqueuerInv /\ dequeuer \in [pc : {"zero"}, i : Words]
    BY <1>1, DequeuerIs DEF MidiQueueInv
  <1>3. PICK i \in Words : i = dequeuer.i
    BY <1>2
  <1>4. i \in Nat /\ Oldest = 1
    BY <1>1 DEF Words, Oldest
  <1>5. /\ head \in Starts /\ tail \in Starts /\ n \in 1 .. num_msgs /\ tail = SlotAfter(head, n)
        /\ SlotAfter(head, 0) = head /\ SlotAfter(head, num_msgs) = head
        /\ \A x \in 0 .. num_msgs : SlotAfter(head, x) \in Starts
        /\ \A x \in 0 .. num_msgs - 1 : SlotAfter(head, x) = head => x = 0
    BY <1>2, <1>4, RingOf
  <1>6. /\ buffer' \in [0 .. len - 1 -> Nat]
        /\ \A j \in Words : buffer'[head + j] = IF j = i THEN 0 ELSE buffer[head + j]
        /\ \A l \in Starts, j \in Words : l # head => buffer'[l + j] = buffer[l + j]
    <2>1. buffer' = [buffer EXCEPT ![head + i] = 0] /\ 0 \in Nat
      BY <1>1, <1>3
    <2> QED BY <1>2, <1>5, <2>1, OneWord
  <1>7. \A j \in Words : (buffer'[head + j] = 0 <=> j < i + 1)
    <2>1. \A j \in Words : (buffer[head + j] = 0 <=> j < i)
      BY <1>1, <1>2, <1>3 DEF DequeuerInv
    <2> QED BY <1>4, <1>6, <2>1 DEF Words
  <1>8. \A k \in Starts \ {head} : /\ WholeAt(k)' <=> WholeAt(k)
                                   /\ ZeroAt(k)' <=> ZeroAt(k)
                                   /\ MessageAt(k)' = MessageAt(k)
    BY <1>6, SameSlot
  <1>9. EnqueuerInv'
    <2>1. \A j \in Words : buffer[tail + j] = 0 => buffer'[tail + j] = 0
      BY <1>5, <1>6
    <2>2. ASSUME enqueuer.pc = "full"
          PROVE  \A j \in 0 .. enqueuer.i - 1 : buffer'[tail + j] = 0
      <3>1. enqueuer.i \in Words
        BY <1>2, <2>2, EnqueuerIs
      <3>2. \A j \in 0 .. enqueuer.i - 1 : j \in Words /\ buffer[tail + j] = 0
        BY <1>2, <2>2, <3>1, SizesAre DEF EnqueuerInv, Words
      <3> QED BY <2>1, <3>2
    <2>3. ASSUME enqueuer.pc = "write", NEW p \in Words, IsWriting(enqueuer.msg, enqueuer.i, p)
          PROVE  IsWriting(enqueuer.msg, enqueuer.i, p)'
      <3>1. tail # head
        <4>1. n \in 0 .. num_msgs - 1 /\ n # 0
          BY <1>5, <2>3, SizesAre DEF Holds
        <4> QED BY <1>5, <4>1
      <3>2. \A j \in Words : buffer'[tail + j] = buffer[tail + j]
        BY <1>5, <1>6, <3>1
      <3>3. PICK x \in 1 .. msg_size : x = enqueuer.i
        BY <1>2, <2>3, EnqueuerIs
      <3>3a. PICK m : m = enqueuer.msg
        OBVIOUS
      <3>4. /\ \A j \in 1 .. x - 1 : j \in Words
            /\ \A j \in 0 .. x - 1 : j \in Words
            /\ \A j \in x .. msg_size - 1 : j \in Words
        BY SizesAre DEF Words
      <3>5. IsWriting(m, x, p)
        BY <2>3, <3>3, <3>3a
      <3>6. IsPartAt(m, tail, x, p)'
        BY <1>1, <3>2, <3>4, <3>5 DEF IsWriting, IsPartAt, IsNext, enqueuerVars
      <3>7. IsWriting(m, x, p)'
        BY <1>1, <3>2, <3>4, <3>5, <3>6 DEF IsWriting, enqueuerVars
      <3> QED BY <1>1, <3>3, <3>3a, <3>7 DEF IsWriting, IsPartAt, enqueuerVars
    <2> QED BY <1>1, <1>2, <2>2, <2>3 DEF EnqueuerInv, enqueuerVars
  <1>10. \A x \in 1 .. num_msgs - 1 : SlotAfter(head, x) \in Starts \ {head}
    BY <1>5, SizesAre
  <1>11. CASE i + 1 < msg_size
    <2>1. i + 1 \in Words /\ head' = head /\ dequeuer' = [pc |-> "zero", i |-> i + 1]
      BY <1>2, <1>3, <1>4, <1>11, SizesAre DEF Zero, Words
    <2>2. MidiQueueTypeOK'
      BY <1>1, <1>2, <1>6, <2>1 DEF MidiQueueTypeOK, enqueuerVars
    <2>3. DequeuerInv'
      BY <1>7, <2>1 DEF DequeuerInv
    <2>4. Oldest' = 1
      BY <2>1 DEF Oldest
    <2>5. \A x \in 1 .. num_msgs - 1 : /\ WholeAt(SlotAfter(head, x))' <=> WholeAt(SlotAfter(head, x))
                                       /\ ZeroAt(SlotAfter(head, x))' <=> ZeroAt(SlotAfter(head, x))
                                       /\ MessageAt(SlotAfter(head, x))' = MessageAt(SlotAfter(head, x))
      <3> SUFFICES ASSUME NEW x \in 1 .. num_msgs - 1
                   PROVE  /\ WholeAt(SlotAfter(head, x))' <=> WholeAt(SlotAfter(head, x))
                          /\ ZeroAt(SlotAfter(head, x))' <=> ZeroAt(SlotAfter(head, x))
                          /\ MessageAt(SlotAfter(head, x))' = MessageAt(SlotAfter(head, x))
        OBVIOUS
      <3>1. PICK k \in Starts \ {head} : k = SlotAfter(head, x) /\ k = SlotAfter(head, x)'
        BY <1>10, <2>1 DEF SlotAfter
      <3> QED BY <1>8, <3>1 DEF WholeAt, ZeroAt, MessageAt, Zeros, LinksStayIn
    <2>6. Holds(n)'
      <3>1. tail' = SlotAfter(head', n) /\ enqueuer' = enqueuer
        BY <1>1, <1>5, <2>1 DEF enqueuerVars
      <3>2. \A x \in 1 .. n - 1 : WholeAt(SlotAfter(head, x))'
        BY <1>4, <1>5, <2>5, SizesAre DEF Holds
      <3>3. \A x \in n .. num_msgs - 1 : (x = n /\ enqueuer.pc = "write") \/ ZeroAt(SlotAfter(head, x))'
        BY <1>4, <1>5, <2>5, SizesAre DEF Holds
      <3> QED BY <1>5, <2>4, <3>1, <3>2, <3>3 DEF Holds, SlotAfter
    <2> QED BY <1>4, <1>5, <1>8, <1>9, <2>1, <2>2, <2>3, <2>4, <2>5, <2>6 DEF MidiQueueInv
  <1>12. CASE ~(i + 1 < msg_size)
    <2>1. head' = After(head) /\ dequeuer' = IDLE
      BY <1>3, <1>12 DEF Zero
    <2>2. head' \in Starts
      BY <1>5, <2>1, RingIs
    <2>3. MidiQueueTypeOK' /\ DequeuerInv'
      BY <1>1, <1>2, <1>6, <2>1, <2>2 DEF MidiQueueTypeOK, DequeuerInv, enqueuerVars, IDLE
    <2>4. Oldest' = 0 /\ n - 1 \in Nat /\ n - 1 \in 0 .. num_msgs - 1 /\ n - 1 \in 0 .. num_msgs
      BY <1>5, <2>1, SizesAre DEF Oldest, IDLE
    <2>5. \A x \in 0 .. num_msgs - 1 : SlotAfter(head', x) = SlotAfter(head, x + 1)
      BY <1>5, <2>1, RingIs
    <2>6. PICK h \in Starts, g \in Starts : h = head /\ g = head'
      BY <1>5, <2>2
    <2>7. ZeroAt(h)'
      <3>1. \A j \in Words : buffer'[h + j] = 0
        BY <1>4, <1>7, <1>12, <2>6, SizesAre DEF Words
      <3> QED BY <3>1 DEF ZeroAt, Words
    <2>8. \A x \in 0 .. n - 2 : WholeAt(SlotAfter(g, x))'
      <3> SUFFICES ASSUME NEW x \in 0 .. n - 2 PROVE WholeAt(SlotAfter(g, x))'
        OBVIOUS
      <3>1. x \in 0 .. num_msgs - 1 /\ x + 1 \in 1 .. num_msgs - 1 /\ x + 1 \in 1 .. n - 1
        BY <1>5, SizesAre
      <3>2. PICK k \in Starts \ {head} : k = SlotAfter(head, x + 1) /\ k = SlotAfter(g, x)
        BY <1>10, <2>5, <2>6, <3>1
      <3>3. WholeAt(k)
        BY <1>4, <3>1, <3>2 DEF Holds
      <3>4. WholeAt(k)'
        BY <1>8, <3>3
      <3> QED BY <3>2, <3>4
    <2>9. \A x \in n - 1 .. num_msgs - 1 : (x = n - 1 /\ enqueuer.pc = "write") \/ ZeroAt(SlotAfter(g, x))'
      <3> SUFFICES ASSUME NEW x \in n - 1 .. num_msgs - 1, ~(x = n - 1 /\ enqueuer.pc = "write")
                   PROVE  ZeroAt(SlotAfter(g, x))'
        OBVIOUS
      <3>1. x \in 0 .. num_msgs - 1 /\ x + 1 \in n .. num_msgs
        BY <1>5, SizesAre
      <3>2. CASE x + 1 = num_msgs
        <4>1. SlotAfter(g, x) = h
          BY <1>5, <2>5, <2>6, <3>1, <3>2
        <4> QED BY <2>7, <4>1
      <3>3. CASE x + 1 # num_msgs
        <4>1. x + 1 \in 1 .. num_msgs - 1 /\ x + 1 \in n .. num_msgs - 1
          BY <1>5, <3>1, <3>3, SizesAre
        <4>2. PICK k \in Starts \ {head} : k = SlotAfter(head, x + 1) /\ k = SlotAfter(g, x)
          BY <1>10, <2>5, <2>6, <3>1, <4>1
        <4>3. ~(x + 1 = n /\ enqueuer.pc = "write")
          BY <1>5, SizesAre
        <4>4. ZeroAt(k)
          BY <4>1, <4>2, <4>3 DEF Holds
        <4>5. ZeroAt(k)'
          BY <1>8, <4>4
        <4> QED BY <4>2, <4>5
      <3> QED BY <3>2, <3>3
    <2>10. tail' = SlotAfter(g, n - 1)
      <3>1. n - 1 + 1 = n
        BY <1>5
      <3> QED BY <1>1, <1>5, <2>4, <2>5, <2>6, <3>1 DEF enqueuerVars
    <2>11. enqueuer.pc = "write" => n - 1 < num_msgs
      BY <1>5, SizesAre
    <2>12. PICK x \in Nat : x = n - 1 /\ x \in 0 .. num_msgs /\ x - 1 = n - 2
      BY <1>5, <2>4
    <2>13. Holds(x)'
      BY <1>1, <2>4, <2>6, <2>8, <2>9, <2>10, <2>11, <2>12 DEF Holds, enqueuerVars
    <2> QED BY <1>4, <1>5, <1>8, <1>9, <2>1, <2>3, <2>4, <2>12, <2>13 DEF MidiQueueInv
  <1> QED BY <1>11, <1>12

LEMMA StartsWell == QueueInit => MidiQueueInv /\ Holds(0)
  <1> SUFFICES ASSUME QueueInit PROVE MidiQueueInv /\ Holds(0)
    OBVIOUS
  <1>1. /\ buffer = [k \in 0 .. len - 1 |-> 0] /\ overflow = 0 /\ head = 0 /\ tail = 0
        /\ peek = <<>> /\ peekFlag = FALSE /\ peekOverflow = FALSE
        /\ dequeuer = IDLE /\ enqueuer = IDLE
    BY DEF QueueInit
  <1>2. 0 \in Starts
    <2>1. 0 \in 0 .. num_msgs - 1 /\ 0 * msg_size = 0
      BY SizesAre
    <2> QED BY <2>1 DEF Starts
  <1>3. MidiQueueTypeOK
    BY <1>1, <1>2 DEF MidiQueueTypeOK, IDLE
  <1>4. DequeuerInv /\ EnqueuerInv
    BY <1>1 DEF DequeuerInv, EnqueuerInv, IDLE
  <1>5. \A k \in Starts : ZeroAt(k)
    BY <1>1, SlotsAre DEF ZeroAt
  <1>6. Oldest = 0
    BY <1>1 DEF Oldest, IDLE
  <1>7. \A i \in 0 .. num_msgs : SlotAfter(0, i) \in Starts
    BY <1>2, RingIs
  <1>8. tail = SlotAfter(head, 0)
    BY <1>1, <1>2, RingIs
  <1>9. \A i \in 0 .. num_msgs - 1 : ZeroAt(SlotAfter(head, i))
    BY <1>1, <1>5, <1>7, SizesAre
  <1>10. Holds(0)
    BY <1>1, <1>6, <1>8, <1>9, SizesAre DEF Holds, IDLE
  <1> QED BY <1>3, <1>4, <1>10 DEF MidiQueueInv

LEMMA MidiQueueStep == MidiQueueInv /\ [QueueNext]_queueVars => MidiQueueInv'
  <1> SUFFICES ASSUME MidiQueueInv, [QueueNext]_queueVars PROVE MidiQueueInv'
    OBVIOUS
  <1>1. PICK n \in Nat : Holds(n)
    BY DEF MidiQueueInv
  <1>2. CASE \E m \in Events : Enqueue(m)
    BY <1>2, EnqueueKeeps
  <1>3. CASE TestFull
    BY <1>3, TestFullKeeps
  <1>4. CASE Write
    BY <1>1, <1>4, WriteKeeps
  <1>5. CASE Written
    BY <1>1, <1>5, WrittenKeeps
  <1>6. CASE SetOverflow
    BY <1>6, SetOverflowKeeps
  <1>7. CASE Dequeue
    BY <1>7, DequeueKeeps
  <1>8. CASE QueuePeek
    BY <1>8, QueuePeekKeeps
  <1>9. CASE LookForOverflow
    BY <1>9, LookForOverflowKeeps
  <1>10. CASE Test
    BY <1>10, TestKeeps
  <1>11. CASE Zero
    BY <1>1, <1>11, ZeroKeeps
  <1>12. CASE UNCHANGED queueVars
    <2>1. UNCHANGED <<buffer, overflow, head, peek, peekFlag, peekOverflow, dequeuer, tail, enqueuer>>
      BY <1>12 DEF queueVars
    <2>2. MidiQueueTypeOK' /\ DequeuerInv'
      BY <2>1 DEF MidiQueueInv, MidiQueueTypeOK, DequeuerInv
    <2>3. EnqueuerInv'
      BY <2>1 DEF MidiQueueInv, EnqueuerInv, IsWriting, IsPartAt
    <2>4. Holds(n)'
      BY <1>1, <2>1 DEF Holds, Oldest, WholeAt, ZeroAt
    <2> QED BY <1>1, <2>2, <2>3, <2>4 DEF MidiQueueInv
  <1> QED BY <1>2, <1>3, <1>4, <1>5, <1>6, <1>7, <1>8, <1>9, <1>10, <1>11, <1>12
          DEF QueueNext, WriterNext, ReaderNext

-----------------------------------------------------------------------------
(* What the steps do to the queue as its users see it                      *)

Values == {OVERFLOW, <<>>} \cup Messages
Peeked == (IF peekOverflow THEN <<OVERFLOW>> ELSE <<>>) \o (IF peekFlag THEN <<peek>> ELSE <<>>)
Back == IF overflow # 0 THEN <<OVERFLOW>> ELSE <<>>

LEMMA Singleton == ASSUME NEW S, NEW v \in S PROVE <<v>> \in Seq(S) /\ Len(<<v>>) = 1 /\ <<v>>[1] = v
  OBVIOUS

LEMMA Associative == \A s, t, u \in Seq(Values) : (s \o t) \o u = s \o (t \o u)
  BY ConcatAssociative

\* A value before a sequence is its head.
LEMMA HeadOfConcat ==
    ASSUME NEW S, NEW v \in S, NEW s \in Seq(S)
    PROVE  <<v>> \o s # <<>> /\ Head(<<v>> \o s) = v /\ Tail(<<v>> \o s) = s
  <1>1. <<v>> \in Seq(S) /\ Len(<<v>>) = 1 /\ <<v>>[1] = v
    BY Singleton
  <1>2. PICK t : t = <<v>> \o s
    OBVIOUS
  <1>3. Len(s) \in Nat
    BY LenProperties
  <1>4. /\ t \in Seq(S) /\ Len(t) = 1 + Len(s) /\ t[1] = v
        /\ \A i \in 1 .. Len(s) : t[i + 1] = s[i]
    <2>1. /\ t \in Seq(S) /\ Len(t) = 1 + Len(s)
          /\ \A i \in 1 .. 1 + Len(s) : t[i] = IF i <= 1 THEN <<v>>[i] ELSE s[i - 1]
      BY <1>1, <1>2, ConcatProperties
    <2>2. t[1] = v
      BY <1>1, <1>3, <2>1
    <2>3. \A i \in 1 .. Len(s) : t[i + 1] = s[i]
      BY <1>3, <2>1
    <2> QED BY <2>1, <2>2, <2>3
  <1>5. t # <<>>
    BY <1>3, <1>4, EmptySeq
  <1>6. /\ Tail(t) \in Seq(S) /\ Len(Tail(t)) = Len(s)
        /\ \A i \in 1 .. Len(Tail(t)) : Tail(t)[i] = s[i]
    BY <1>3, <1>4, <1>5, HeadTailProperties
  <1>7. Tail(t) = s
    BY <1>6, SeqEqual
  <1>8. Head(t) = v
    BY <1>4
  <1> QED BY <1>2, <1>5, <1>7, <1>8

QueuedParts ==
    /\ Peeked \in Seq(Values) /\ InBuffer \in Seq(Values) /\ Back \in Seq(Values)
    /\ Queued = (Peeked \o InBuffer) \o Back

LEMMA PartsAre == MidiQueueInv => QueuedParts
  <1> SUFFICES ASSUME MidiQueueInv PROVE QueuedParts
    OBVIOUS
  <1>1. MidiQueueTypeOK
    BY DEF MidiQueueInv
  <1>2. PICK n \in Nat : Holds(n)
    BY DEF MidiQueueInv
  <1>3. /\ Oldest \in {0, 1} /\ n \in Oldest .. num_msgs
        /\ \A i \in 0 .. num_msgs : SlotAfter(head, i) \in Starts
    BY <1>1, <1>2, RingOf
  <1>4. InBuffer = MessagesOf(n)
    BY <1>2, BufferHolds DEF InBufferIs
  <1>5. MessagesOf(n) \in Seq(Values)
    <2>1. \A i \in 1 .. n - Oldest : MessageAt(SlotAfter(head, Oldest + i - 1)) \in Values
      <3> SUFFICES ASSUME NEW i \in 1 .. n - Oldest
                   PROVE  MessageAt(SlotAfter(head, Oldest + i - 1)) \in Values
        OBVIOUS
      <3>1. SlotAfter(head, Oldest + i - 1) \in Starts
        BY <1>3, SizesAre
      <3> QED BY <1>1, <3>1, MessageType DEF Values
    <2>2. n - Oldest \in Nat
      BY <1>3
    <2> QED BY <2>1, <2>2 DEF MessagesOf
  <1>6. <<>> \in Seq(Values) /\ <<OVERFLOW>> \in Seq(Values)
    BY Singleton, EmptySeq DEF Values
  <1>7. <<peek>> \in Seq(Values)
    BY <1>1, Singleton DEF Values, MidiQueueTypeOK
  <1>8. Peeked \in Seq(Values)
    <2>1. /\ (IF peekOverflow THEN <<OVERFLOW>> ELSE <<>>) \in Seq(Values)
          /\ (IF peekFlag THEN <<peek>> ELSE <<>>) \in Seq(Values)
      BY <1>6, <1>7
    <2> QED BY <2>1, ConcatProperties DEF Peeked
  <1>9. Back \in Seq(Values)
    BY <1>6 DEF Back
  <1>10. Queued = (Peeked \o InBuffer) \o Back
    BY DEF Queued, Peeked, Back
  <1> QED BY <1>4, <1>5, <1>8, <1>9, <1>10 DEF QueuedParts

LEMMA PartsAreNext == MidiQueueInv' => QueuedParts'
  BY PartsAre, PTL

\* Steps that leave the words and the slot at the head
LEMMA BufferStays ==
    ASSUME UNCHANGED <<buffer, head>>, Oldest' = Oldest
    PROVE  InBuffer' = InBuffer
  <1>1. \A k : MessageAt(k)' = MessageAt(k)
    BY DEF MessageAt, Zeros, LinksStayIn
  <1>2. \A k : WholeAt(k)' <=> WholeAt(k)
    BY DEF WholeAt
  <1> QED BY <1>1, <1>2 DEF InBuffer, SlotAfter, MessageAt, Zeros, LinksStayIn, WholeAt

\* The parts stay: nothing is seen.
LEMMA NothingSeen ==
    ASSUME UNCHANGED <<peekOverflow, peekFlag, peek, overflow>>, InBuffer' = InBuffer
    PROVE  Queued' = Queued
  BY DEF Queued

\* A refusal is told after what is in the buffer.
LEMMA Refuses ==
    ASSUME MidiQueueInv, MidiQueueInv', overflow = 0, overflow' # 0, InBuffer' = InBuffer,
           UNCHANGED <<peekOverflow, peekFlag, peek>>
    PROVE  Queued' = Append(Queued, OVERFLOW)
  <1>1. QueuedParts /\ QueuedParts'
    BY PartsAre, PartsAreNext
  <1>2. Back = <<>> /\ Back' = <<OVERFLOW>> /\ Peeked' = Peeked
    BY DEF Back, Peeked
  <1>3. Peeked \o InBuffer \in Seq(Values)
    BY <1>1, ConcatProperties DEF QueuedParts
  <1>4. Queued = Peeked \o InBuffer
    BY <1>1, <1>2, <1>3, ConcatEmptySeq DEF QueuedParts
  <1>5. OVERFLOW \in Values
    BY DEF Values
  <1>6. Append(Peeked \o InBuffer, OVERFLOW) = (Peeked \o InBuffer) \o <<OVERFLOW>>
    BY <1>3, <1>5, AppendIsConcat
  <1> QED BY <1>1, <1>2, <1>4, <1>6 DEF QueuedParts

Seen == [Fifo!Next]_Fifo!queueVars

LEMMA EnqueueIsOffer == ASSUME MidiQueueInv, NEW m \in Events, Enqueue(m) PROVE Seen
  <1>1. /\ enqueuer.pc = "idle" /\ enqueuer' = [pc |-> "full", msg |-> m, i |-> 0]
        /\ UNCHANGED <<buffer, overflow, tail, dequeuerVars>>
    BY DEF Enqueue
  <1>2. InBuffer' = InBuffer
    BY <1>1, BufferStays DEF dequeuerVars, Oldest
  <1>3. Queued' = Queued /\ dequeued' = dequeued
    BY <1>1, <1>2, NothingSeen DEF dequeuerVars
  <1>4. Offered = NoEvent /\ Offered' = m
    BY <1>1 DEF Offered
  <1> QED BY <1>3, <1>4 DEF Seen, Fifo!Next, Fifo!Offer

LEMMA TestFullIsRefuse == ASSUME MidiQueueInv, TestFull PROVE Seen
  <1>1. enqueuer.pc = "full" /\ UNCHANGED <<buffer, tail, dequeuerVars>>
    BY DEF TestFull
  <1>2. InBuffer' = InBuffer
    BY <1>1, BufferStays DEF dequeuerVars, Oldest
  <1>3. /\ MidiQueueInv' /\ overflow = 0 /\ MidiQueueTypeOK
        /\ enqueuer \in [pc : {"full"}, msg : Events, i : Words]
    BY <1>1, EnqueuerIs, TestFullKeeps DEF MidiQueueInv, EnqueuerInv
  <1>4. CASE buffer[tail + enqueuer.i] # 0
    <2>1. overflow' = tail + 1 /\ enqueuer' = IDLE
      BY <1>4 DEF TestFull
    <2>2. overflow' # 0
      <3>1. tail \in Starts /\ 0 \in Words
        BY <1>3, SizesAre DEF MidiQueueTypeOK, Words
      <3>2. tail \in Nat
        BY <3>1, SlotsAre
      <3> QED BY <2>1, <3>2
    <2>3. Queued' = Append(Queued, OVERFLOW)
      BY <1>1, <1>2, <1>3, <2>2, Refuses DEF dequeuerVars
    <2>4. Offered' = NoEvent /\ dequeued' = dequeued
      BY <1>1, <2>1 DEF Offered, IDLE, dequeuerVars
    <2> QED BY <2>3, <2>4 DEF Seen, Fifo!Next, Fifo!Refuse
  <1>5. CASE buffer[tail + enqueuer.i] = 0
    <2>1. /\ overflow' = overflow
          /\ enqueuer' = IF enqueuer.i + 1 < msg_size THEN [enqueuer EXCEPT !.i = @ + 1]
                         ELSE [pc |-> "write", msg |-> enqueuer.msg, i |-> 1, ptr |-> tail]
      BY <1>5 DEF TestFull
    <2>2. Queued' = Queued /\ dequeued' = dequeued
      BY <1>1, <1>2, <2>1, NothingSeen DEF dequeuerVars
    <2>3. enqueuer'.pc # "idle" /\ enqueuer'.msg = enqueuer.msg
      BY <1>3, <2>1
    <2>4. Offered' = Offered
      BY <1>1, <2>3 DEF Offered
    <2> QED BY <2>2, <2>4 DEF Seen, Fifo!queueVars
  <1> QED BY <1>4, <1>5

LEMMA SetOverflowIsRefuse == ASSUME MidiQueueInv, SetOverflow PROVE Seen
  <1>1. /\ enqueuer.pc = "idle" /\ overflow = 0 /\ overflow' = tail + 1
        /\ UNCHANGED <<buffer, enqueuerVars, dequeuerVars>>
    BY DEF SetOverflow
  <1>2. InBuffer' = InBuffer
    BY <1>1, BufferStays DEF dequeuerVars, Oldest
  <1>3. overflow' # 0
    <2>1. tail \in Starts /\ 0 \in Words
      BY SizesAre DEF MidiQueueInv, MidiQueueTypeOK, Words
    <2>2. tail \in Nat
      BY <2>1, SlotsAre
    <2> QED BY <1>1, <2>2
  <1>4. Queued' = Append(Queued, OVERFLOW)
    BY <1>1, <1>2, <1>3, SetOverflowKeeps, Refuses DEF dequeuerVars
  <1>5. Offered' = NoEvent /\ dequeued' = dequeued
    BY <1>1 DEF Offered, dequeuerVars, enqueuerVars
  <1> QED BY <1>4, <1>5 DEF Seen, Fifo!Next, Fifo!Refuse

\* What is in the buffer after a step, by where the head is then
LEMMA BufferIsNext ==
    ASSUME MidiQueueInv', NEW n \in Nat, Holds(n)', NEW CONSTANT h, NEW CONSTANT o, head' = h, Oldest' = o
    PROVE  InBuffer' = [i \in 1 .. n - o |-> MessageAt(SlotAfter(h, o + i - 1))']
  <1>1. InBuffer' = MessagesOf(n)'
    BY BufferHoldsNext DEF InBufferIs
  <1> QED BY <1>1 DEF MessagesOf, SlotAfter, MessageAt, Zeros, LinksStayIn

LEMMA MessageNext ==
    ASSUME NEW CONSTANT h, NEW CONSTANT x, head' = h
    PROVE  MessageAt(SlotAfter(head, x))' = MessageAt(SlotAfter(h, x))'
  BY DEF SlotAfter, MessageAt, Zeros, LinksStayIn

\* While the slots stay where they are and the messages in them do, so does what is in the buffer.
LEMMA MessagesStay ==
    ASSUME MidiQueueInv, MidiQueueInv', NEW n \in Nat, Holds(n), Holds(n)', Oldest' = Oldest,
           head' = head,
           \A x \in Oldest .. n - 1 : MessageAt(SlotAfter(head, x))' = MessageAt(SlotAfter(head, x))
    PROVE  InBuffer' = InBuffer
  <1>1. PICK o \in {0, 1} : o = Oldest
    BY DEF Oldest
  <1>2. PICK h : h = head
    OBVIOUS
  <1>3. InBuffer = [i \in 1 .. n - o |-> MessageAt(SlotAfter(h, o + i - 1))]
    BY <1>1, <1>2, BufferHolds DEF InBufferIs, MessagesOf
  <1>4. InBuffer' = [i \in 1 .. n - o |-> MessageAt(SlotAfter(h, o + i - 1))']
    BY <1>1, <1>2, BufferIsNext
  <1>5. \A i \in 1 .. n - o : MessageAt(SlotAfter(h, o + i - 1))' = MessageAt(SlotAfter(h, o + i - 1))
    <2> SUFFICES ASSUME NEW i \in 1 .. n - o
                 PROVE  MessageAt(SlotAfter(h, o + i - 1))' = MessageAt(SlotAfter(h, o + i - 1))
      OBVIOUS
    <2>1. PICK x \in o .. n - 1 : x = o + i - 1
      OBVIOUS
    <2>2. MessageAt(SlotAfter(h, x))' = MessageAt(SlotAfter(h, x))
      BY <1>1, <1>2, MessageNext
    <2> QED BY <2>1, <2>2
  <1> QED BY <1>3, <1>4, <1>5

LEMMA WriteIsUnseen == ASSUME MidiQueueInv, Write PROVE Seen
  <1>1. enqueuer.pc = "write" /\ UNCHANGED <<overflow, tail, dequeuerVars>>
    BY DEF Write
  <1>2. PICK n \in Nat : Holds(n)
    BY DEF MidiQueueInv
  <1>3. /\ MidiQueueInv' /\ Holds(n)' /\ n \in Oldest .. num_msgs - 1
        /\ enqueuer'.msg = enqueuer.msg /\ enqueuer'.pc = "write"
        /\ \A x \in 0 .. num_msgs - 1 :
               x # n => MessageAt(SlotAfter(head, x))' = MessageAt(SlotAfter(head, x))
    BY <1>2, WriteKeeps
  <1>4. Oldest' = Oldest /\ Oldest \in {0, 1}
    BY <1>1 DEF Oldest, dequeuerVars
  <1>5. InBuffer' = InBuffer
    <2>1. \A x \in Oldest .. n - 1 : x \in 0 .. num_msgs - 1 /\ x # n
      BY <1>3, <1>4, SizesAre
    <2>2. head' = head
      BY <1>1 DEF dequeuerVars
    <2> QED BY <2>2, <1>2, <1>3, <1>4, <2>1, MessagesStay
  <1>6. Queued' = Queued /\ dequeued' = dequeued
    BY <1>1, <1>5, NothingSeen DEF dequeuerVars
  <1>7. Offered' = Offered
    BY <1>1, <1>3 DEF Offered
  <1> QED BY <1>6, <1>7 DEF Seen, Fifo!queueVars

LEMMA WrittenIsAccept == ASSUME MidiQueueInv, Written PROVE Seen
  <1>1. /\ enqueuer.pc = "write" /\ enqueuer' = IDLE /\ UNCHANGED <<overflow, dequeuerVars>>
    BY DEF Written
  <1>2. PICK n \in Nat : Holds(n)
    BY DEF MidiQueueInv
  <1>3. /\ MidiQueueInv' /\ Holds(n + 1)' /\ n + 1 \in Nat /\ n \in Oldest .. num_msgs - 1
        /\ MessageAt(SlotAfter(head, n))' = enqueuer.msg
        /\ \A x \in 0 .. num_msgs - 1 :
               x # n => MessageAt(SlotAfter(head, x))' = MessageAt(SlotAfter(head, x))
    BY <1>1, <1>2, WrittenKeeps
  <1>4. Oldest' = Oldest /\ Oldest \in {0, 1}
    BY <1>1 DEF Oldest, dequeuerVars
  <1>5. /\ overflow = 0 /\ MidiQueueTypeOK
        /\ enqueuer \in [pc : {"write"}, msg : Events, i : 1 .. msg_size, ptr : Nat]
    BY <1>1, EnqueuerIs DEF MidiQueueInv, EnqueuerInv
  <1>5a. head' = head
    BY <1>1 DEF dequeuerVars
  <1>6. PICK m \in Events : m = enqueuer.msg
    BY <1>5
  <1>7. m \in Values
    BY EventIs DEF Values, Messages
  <1>8. /\ Peeked \in Seq(Values) /\ InBuffer \in Seq(Values)
        /\ Peeked' \in Seq(Values) /\ InBuffer' \in Seq(Values)
        /\ Queued = (Peeked \o InBuffer) \o Back /\ Queued' = (Peeked' \o InBuffer') \o Back'
    BY <1>3, PartsAre, PartsAreNext DEF QueuedParts
  <1>9. InBuffer' = Append(InBuffer, m)
    <2>1. PICK o \in {0, 1} : o = Oldest /\ n \in o .. num_msgs - 1
      BY <1>3, <1>4
    <2>1a. PICK h : h = head
      OBVIOUS
    <2>2. PICK d \in Nat : d = n - o /\ d + 1 = n + 1 - o
      <3>1. n - o \in Nat /\ n - o + 1 = n + 1 - o
        BY <2>1
      <3> QED BY <3>1
    <2>3. InBuffer = [i \in 1 .. d |-> MessageAt(SlotAfter(h, o + i - 1))]
      BY <1>2, <2>1, <2>1a, <2>2, BufferHolds DEF InBufferIs, MessagesOf
    <2>3a. InBuffer' = [i \in 1 .. d + 1 |-> MessageAt(SlotAfter(h, o + i - 1))']
      BY <1>3, <1>4, <1>5a, <2>1, <2>1a, <2>2, BufferIsNext
    <2>4. InBuffer'[d + 1] = m
      <3>1. o + (d + 1) - 1 = n
        BY <2>1, <2>2
      <3>2. d + 1 \in 1 .. d + 1
        BY <2>2
      <3>3. MessageAt(SlotAfter(h, n))' = m
        BY <1>3, <1>5a, <1>6, <2>1a, MessageNext
      <3> QED BY <2>3a, <3>1, <3>2, <3>3
    <2>5. \A i \in 1 .. d : InBuffer'[i] = InBuffer[i]
      <3> SUFFICES ASSUME NEW i \in 1 .. d PROVE InBuffer'[i] = InBuffer[i]
        OBVIOUS
      <3>1. PICK x \in 0 .. num_msgs - 1 : x = o + i - 1 /\ x # n
        BY <2>1, <2>2, SizesAre
      <3>2. i \in 1 .. d + 1
        BY <2>2
      <3>3. MessageAt(SlotAfter(h, x))' = MessageAt(SlotAfter(h, x))
        BY <1>3, <1>5a, <2>1a, <3>1, MessageNext
      <3> QED BY <2>3, <2>3a, <3>1, <3>2, <3>3
    <2>6. Len(InBuffer) = d /\ Len(InBuffer') = d + 1
      BY <1>8, <2>2, <2>3, <2>3a, LenProperties
    <2>7. /\ Append(InBuffer, m) \in Seq(Values) /\ Len(Append(InBuffer, m)) = d + 1
          /\ \A i \in 1 .. d : Append(InBuffer, m)[i] = InBuffer[i]
          /\ Append(InBuffer, m)[d + 1] = m
      <3>1. InBuffer \in Seq(Values) /\ m \in Values
        BY <1>7, <1>8
      <3> QED BY <2>6, <3>1, AppendProperties
    <2>8. \A i \in 1 .. d + 1 : InBuffer'[i] = Append(InBuffer, m)[i]
      <3>1. \A i \in 1 .. d + 1 : i = d + 1 \/ i \in 1 .. d
        BY <2>2
      <3> QED BY <2>4, <2>5, <2>7, <3>1
    <2> QED BY <1>8, <2>6, <2>7, <2>8, SeqEqual
  <1>10. Peeked' = Peeked /\ Back = <<>> /\ Back' = <<>>
    BY <1>1, <1>5 DEF Peeked, Back, dequeuerVars
  <1>11. Peeked \o InBuffer \in Seq(Values) /\ <<m>> \in Seq(Values)
    BY <1>7, <1>8, ConcatProperties, Singleton
  <1>12. Queued = Peeked \o InBuffer
    BY <1>8, <1>10, <1>11, ConcatEmptySeq
  <1>13. InBuffer' = InBuffer \o <<m>>
    BY <1>7, <1>8, <1>9, AppendIsConcat
  <1>14. Peeked \o (InBuffer \o <<m>>) = (Peeked \o InBuffer) \o <<m>>
    BY <1>8, <1>11, ConcatAssociative
  <1>15. Queued' = Peeked \o (InBuffer \o <<m>>)
    <2>1. Peeked \o InBuffer' \in Seq(Values)
      BY <1>8, ConcatProperties
    <2> QED BY <1>8, <1>10, <1>13, <2>1, ConcatEmptySeq
  <1>16. Queued' = Append(Queued, m)
    BY <1>7, <1>11, <1>12, <1>14, <1>15, AppendIsConcat
  <1>17. Offered = m /\ Offered' = NoEvent /\ m # NoEvent /\ dequeued' = dequeued
    BY <1>1, <1>6, MidiQueueAssumption DEF Offered, IDLE, dequeuerVars
  <1> QED BY <1>16, <1>17 DEF Seen, Fifo!Next, Fifo!Accept

\* What was peeked at is delivered first.
LEMMA DequeueIsDeliver == ASSUME MidiQueueInv, Dequeue PROVE Seen
  <1>1. dequeuer.pc = "idle" /\ UNCHANGED <<head, buffer, overflow, enqueuerVars>>
    BY DEF Dequeue
  <1>2. MidiQueueInv' /\ Offered' = Offered
    BY <1>1, DequeueKeeps DEF Offered, enqueuerVars
  <1>3. /\ Peeked \in Seq(Values) /\ InBuffer \in Seq(Values) /\ Back \in Seq(Values)
        /\ Peeked' \in Seq(Values) /\ InBuffer' \in Seq(Values) /\ Back' \in Seq(Values)
        /\ Queued = (Peeked \o InBuffer) \o Back /\ Queued' = (Peeked' \o InBuffer') \o Back'
    BY <1>2, PartsAre, PartsAreNext DEF QueuedParts
  <1>4. ASSUME Oldest' = Oldest PROVE InBuffer' = InBuffer
    BY <1>1, <1>4, BufferStays
  <1>5. Back' = Back
    BY <1>1 DEF Back
  <1>6. ASSUME NEW v \in Values, Peeked = <<v>> \o Peeked', InBuffer' = InBuffer
        PROVE  Queued # <<>> /\ Head(Queued) = v /\ Tail(Queued) = Queued'
    <2>1. <<v>> \in Seq(Values)
      BY Singleton
    <2>2. Queued' \in Seq(Values)
      BY <1>3, ConcatProperties
    <2>3. Queued = ((<<v>> \o Peeked') \o InBuffer) \o Back
      BY <1>3, <1>6
    <2>4. Queued' = (Peeked' \o InBuffer) \o Back
      BY <1>3, <1>5, <1>6
    <2>5. PICK w \in Seq(Values) : w = <<v>>
      BY <2>1
    <2>6. PICK a \in Seq(Values), b \in Seq(Values), c \in Seq(Values) :
              a = Peeked' /\ b = InBuffer /\ c = Back
      BY <1>3
    <2>7. ((w \o a) \o b) \o c = w \o ((a \o b) \o c)
      <3>1. a \o b \in Seq(Values)
        BY ConcatProperties
      <3>2. (w \o a) \o b = w \o (a \o b)
        BY Associative
      <3>3. \A t \in Seq(Values) : (w \o t) \o c = w \o (t \o c)
        BY Associative
      <3> QED BY <3>1, <3>2, <3>3
    <2>8. Queued = w \o Queued'
      <3>1. Queued = ((w \o a) \o b) \o c
        BY <2>3, <2>5, <2>6
      <3>2. Queued' = (a \o b) \o c
        BY <2>4, <2>6
      <3> QED BY <2>7, <3>1, <3>2
    <2> QED BY <2>2, <2>5, <2>8, HeadOfConcat
  <1>7. MidiQueueTypeOK
    BY DEF MidiQueueInv
  <1>8. <<peek>> \in Seq(Values) /\ peek \in Values /\ OVERFLOW \in Values
    BY <1>7, Singleton DEF MidiQueueTypeOK, Values
  <1>9. CASE peekOverflow
    <2>1. peekOverflow' = FALSE /\ dequeued' = OVERFLOW /\ UNCHANGED <<peekFlag, peek, dequeuer>>
      BY <1>9 DEF Dequeue
    <2>2. InBuffer' = InBuffer
      BY <1>4, <2>1 DEF Oldest
    <2>3. Peeked = <<OVERFLOW>> \o Peeked'
      <3>1. Peeked' = <<>> \o (IF peekFlag THEN <<peek>> ELSE <<>>)
        BY <2>1 DEF Peeked
      <3>2. (IF peekFlag THEN <<peek>> ELSE <<>>) \in Seq(Values)
        BY <1>8, EmptySeq
      <3>3. Peeked' = (IF peekFlag THEN <<peek>> ELSE <<>>)
        BY <3>1, <3>2, ConcatEmptySeq
      <3> QED BY <1>9, <3>3 DEF Peeked
    <2>4. Queued # <<>> /\ Head(Queued) = OVERFLOW /\ Tail(Queued) = Queued'
      BY <1>6, <1>8, <2>2, <2>3
    <2> QED BY <1>2, <2>1, <2>4 DEF Seen, Fifo!Next, Fifo!Deliver
  <1>10. CASE ~peekOverflow /\ peekFlag
    <2>1. dequeued' = peek /\ peekFlag' = FALSE /\ UNCHANGED <<peekOverflow, dequeuer>>
      BY <1>10 DEF Dequeue
    <2>2. InBuffer' = InBuffer
      BY <1>4, <2>1 DEF Oldest
    <2>3. Peeked = <<peek>> \o Peeked'
      <3>1. Peeked' = <<>> \o <<>> /\ Peeked = <<>> \o <<peek>>
        BY <1>10, <2>1 DEF Peeked
      <3>2. Peeked' = <<>> /\ Peeked = <<peek>>
        BY <1>8, <3>1, EmptySeq, ConcatEmptySeq
      <3> QED BY <1>8, <3>2, ConcatEmptySeq
    <2>4. Queued # <<>> /\ Head(Queued) = peek /\ Tail(Queued) = Queued'
      BY <1>6, <1>8, <2>2, <2>3
    <2> QED BY <1>2, <2>1, <2>4 DEF Seen, Fifo!Next, Fifo!Deliver
  <1>11. CASE ~peekOverflow /\ ~peekFlag
    <2>1. /\ dequeuer' = [pc |-> "look", for |-> "read"]
          /\ UNCHANGED <<peek, peekFlag, peekOverflow, dequeued>>
      BY <1>11 DEF Dequeue
    <2>2. InBuffer' = InBuffer
      BY <1>1, <1>4, <2>1 DEF Oldest
    <2>3. Queued' = Queued
      BY <1>1, <2>1, <2>2, NothingSeen
    <2> QED BY <1>2, <2>1, <2>3 DEF Seen, Fifo!queueVars
  <1> QED BY <1>9, <1>10, <1>11

LEMMA QueuePeekIsUnseen == ASSUME MidiQueueInv, QueuePeek PROVE Seen
  <1>1. /\ dequeuer.pc = "idle" /\ dequeuer' = [pc |-> "look", for |-> "peek"]
        /\ UNCHANGED <<head, peek, peekFlag, peekOverflow, dequeued, buffer, overflow, enqueuerVars>>
    BY DEF QueuePeek
  <1>2. InBuffer' = InBuffer
    BY <1>1, BufferStays DEF Oldest
  <1>3. Queued' = Queued
    BY <1>1, <1>2, NothingSeen
  <1> QED BY <1>1, <1>3 DEF Seen, Fifo!queueVars, Offered, enqueuerVars

\* The overflow is told when nothing is before it.
LEMMA LookIsSeen == ASSUME MidiQueueInv, LookForOverflow PROVE Seen
  <1>1. dequeuer.pc = "look" /\ UNCHANGED <<head, peek, peekFlag, buffer, enqueuerVars>>
    BY DEF LookForOverflow
  <1>2. /\ MidiQueueTypeOK /\ dequeuer \in [pc : {"look"}, for : {"read", "peek"}]
        /\ ~peekFlag /\ (dequeuer.for = "read" => ~peekOverflow)
    BY <1>1, DequeuerIs DEF MidiQueueInv, DequeuerInv
  <1>3. MidiQueueInv' /\ Offered' = Offered
    BY <1>1, LookForOverflowKeeps DEF Offered, enqueuerVars
  <1>4. /\ InBuffer \in Seq(Values)
        /\ Queued = (Peeked \o InBuffer) \o Back /\ Queued' = (Peeked' \o InBuffer') \o Back'
    BY <1>3, PartsAre, PartsAreNext DEF QueuedParts
  <1>5. ASSUME dequeuer'.pc # "zero" PROVE InBuffer' = InBuffer
    BY <1>1, <1>5, BufferStays DEF Oldest
  <1>6. CASE overflow = head + 1 /\ AtOverflow
    <2>1. /\ overflow' = 0 /\ dequeuer' = IDLE
          /\ IF dequeuer.for = "peek" THEN peekOverflow' = TRUE /\ UNCHANGED dequeued
             ELSE dequeued' = OVERFLOW /\ UNCHANGED peekOverflow
      BY <1>6 DEF LookForOverflow
    <2>2. PICK n \in Nat : Holds(n)
      BY DEF MidiQueueInv
    <2>3. /\ Oldest = 0 /\ n \in 0 .. num_msgs /\ head \in Nat /\ SlotAfter(head, 0) = head
      BY <1>1, <1>2, <2>2, RingOf DEF Oldest
    <2>4. n = 0
      <3>1. n # 0 => WholeAt(head)
        <4>1. n # 0 => 0 \in 0 .. n - 1
          BY <2>3
        <4> QED BY <2>2, <2>3, <4>1 DEF Holds
      <3>2. ~WholeAt(head)
        BY <1>6, <2>3, SizesAre DEF WholeAt, AtOverflow
      <3> QED BY <3>1, <3>2
    <2>5. InBuffer = <<>> /\ InBuffer' = <<>>
      <3>1. InBuffer = MessagesOf(0) /\ 1 .. 0 - Oldest = {}
        BY <2>2, <2>3, <2>4, BufferHolds DEF InBufferIs
      <3>2. Len(InBuffer) = 0
        <4>1. DOMAIN InBuffer = {}
          BY <3>1 DEF MessagesOf
        <4>2. Len(InBuffer) \in Nat /\ 1 .. Len(InBuffer) = {}
          BY <1>4, <4>1, LenProperties
        <4> QED BY <4>2
      <3>3. InBuffer = <<>>
        BY <1>4, <3>2, EmptySeq
      <3> QED BY <1>5, <2>1, <3>3 DEF IDLE
    <2>6. Back = <<OVERFLOW>> /\ Back' = <<>>
      BY <1>6, <2>1, <2>3 DEF Back
    <2>7. <<OVERFLOW>> \in Seq(Values) /\ <<>> \in Seq(Values) /\ OVERFLOW \in Values
      BY Singleton, EmptySeq DEF Values
    <2>8. \A s \in Seq(Values) : s \o <<>> = s /\ <<>> \o s = s
      BY ConcatEmptySeq
    <2>9. CASE dequeuer.for = "peek"
      <3>1. peekOverflow' = TRUE /\ UNCHANGED dequeued
        BY <2>1, <2>9
      <3>2. Peeked' = <<OVERFLOW>> /\ Peeked = (IF peekOverflow THEN <<OVERFLOW>> ELSE <<>>)
        <4>1. /\ Peeked' = <<OVERFLOW>> \o <<>>
              /\ Peeked = (IF peekOverflow THEN <<OVERFLOW>> ELSE <<>>) \o <<>>
          BY <1>1, <1>2, <3>1 DEF Peeked
        <4> QED BY <2>7, <2>8, <4>1
      <3>3. Queued' = <<OVERFLOW>>
        BY <1>4, <2>5, <2>6, <2>7, <2>8, <3>2
      <3>4. CASE peekOverflow
        <4>1. Queued = <<OVERFLOW>> \o <<OVERFLOW>>
          BY <1>4, <2>5, <2>6, <2>7, <2>8, <3>2, <3>4
        <4>2. Len(<<OVERFLOW>>) = 1 /\ <<OVERFLOW>>[1] = OVERFLOW
          OBVIOUS
        <4>3. Len(Queued) = 2 /\ Queued[1] = OVERFLOW /\ Queued[2] = OVERFLOW
          <5>1. /\ Len(Queued) = 1 + 1
                /\ \A i \in 1 .. 1 + 1 :
                       Queued[i] = IF i <= 1 THEN <<OVERFLOW>>[i] ELSE <<OVERFLOW>>[i - 1]
            BY <2>7, <4>1, <4>2, ConcatProperties
          <5> QED BY <4>2, <5>1
        <4>4. Tail(Queued) = <<OVERFLOW>>
          BY <2>7, <4>1, HeadOfConcat
        <4> QED BY <1>3, <3>1, <3>3, <4>3, <4>4 DEF Seen, Fifo!Next, Fifo!Merge
      <3>5. CASE ~peekOverflow
        <4>1. Queued = <<OVERFLOW>>
          BY <1>4, <2>5, <2>6, <2>7, <2>8, <3>2, <3>5
        <4> QED BY <1>3, <3>1, <3>3, <4>1 DEF Seen, Fifo!queueVars
      <3> QED BY <3>4, <3>5
    <2>10. CASE dequeuer.for # "peek"
      <3>1. dequeued' = OVERFLOW /\ peekOverflow' = peekOverflow /\ ~peekOverflow
        BY <1>2, <2>1, <2>10
      <3>2. Peeked = <<>> /\ Peeked' = <<>>
        <4>1. Peeked = <<>> \o <<>> /\ Peeked' = <<>> \o <<>>
          BY <1>1, <1>2, <3>1 DEF Peeked
        <4> QED BY <2>7, <2>8, <4>1
      <3>3. Queued = <<OVERFLOW>> \o <<>> /\ Queued' = <<>>
        BY <1>4, <2>5, <2>6, <2>7, <2>8, <3>2
      <3>4. Queued # <<>> /\ Head(Queued) = OVERFLOW /\ Tail(Queued) = Queued'
        BY <2>7, <3>3, HeadOfConcat
      <3> QED BY <1>3, <3>1, <3>4 DEF Seen, Fifo!Next, Fifo!Deliver
    <2> QED BY <2>9, <2>10
  <1>7. CASE ~(overflow = head + 1 /\ AtOverflow)
    <2>1. /\ dequeuer'.pc = "test" /\ UNCHANGED <<overflow, peekOverflow, dequeued>>
      BY <1>7 DEF LookForOverflow
    <2>2. Queued' = Queued
      BY <1>1, <1>5, <2>1, NothingSeen
    <2> QED BY <1>3, <2>1, <2>2 DEF Seen, Fifo!queueVars
  <1> QED BY <1>6, <1>7

\* The message of the first slot leaves the buffer.
LEMMA TestIsSeen == ASSUME MidiQueueInv, Test PROVE Seen
  <1>1. dequeuer.pc = "test" /\ UNCHANGED <<head, peekOverflow, buffer, overflow, enqueuerVars>>
    BY DEF Test
  <1>2. MidiQueueInv' /\ Offered' = Offered
    BY <1>1, TestKeeps DEF Offered, enqueuerVars
  <1>3. /\ InBuffer \in Seq(Values) /\ InBuffer' \in Seq(Values) /\ Back \in Seq(Values)
        /\ Queued = (Peeked \o InBuffer) \o Back /\ Queued' = (Peeked' \o InBuffer') \o Back'
    BY <1>2, PartsAre, PartsAreNext DEF QueuedParts
  <1>4. CASE Takes
    <2>1. PICK n \in Nat : Holds(n)
      BY DEF MidiQueueInv
    <2>2. Holds(n)' /\ n >= 1 /\ Oldest = 0 /\ Oldest' = 1 /\ MessageAt(head) \in Messages
      BY <1>4, <2>1, TakesKeeps
    <2>3. PICK h : h = head /\ SlotAfter(h, 0) = h
      BY <2>1, RingOf DEF MidiQueueInv
    <2>4. PICK v \in Values : v = MessageAt(h)
      BY <2>2, <2>3 DEF Values
    <2>5. InBuffer = [i \in 1 .. n - 0 |-> MessageAt(SlotAfter(h, 0 + i - 1))]
      BY <2>1, <2>2, <2>3, BufferHolds DEF InBufferIs, MessagesOf
    <2>6. InBuffer' = [i \in 1 .. n - 1 |-> MessageAt(SlotAfter(h, 1 + i - 1))']
      BY <1>1, <1>2, <2>2, <2>3, BufferIsNext
    <2>7. \A x : MessageAt(SlotAfter(h, x))' = MessageAt(SlotAfter(h, x))
      BY <1>1 DEF MessageAt, Zeros, LinksStayIn, SlotAfter
    <2>8. InBuffer = <<v>> \o InBuffer'
      <3>1. <<v>> \in Seq(Values) /\ Len(<<v>>) = 1 /\ <<v>>[1] = v
        BY Singleton
      <3>2. Len(InBuffer) = n /\ Len(InBuffer') = n - 1
        <4>1. n - 0 = n /\ n - 1 \in Nat
          BY <2>2
        <4> QED BY <1>3, <2>5, <2>6, <4>1, LenProperties
      <3>3. /\ <<v>> \o InBuffer' \in Seq(Values) /\ Len(<<v>> \o InBuffer') = n
            /\ \A i \in 1 .. n :
                   (<<v>> \o InBuffer')[i] = IF i <= 1 THEN <<v>>[i] ELSE InBuffer'[i - 1]
        <4>1. 1 + (n - 1) = n
          OBVIOUS
        <4> QED BY <1>3, <3>1, <3>2, <4>1, ConcatProperties
      <3>4. ASSUME NEW i \in 1 .. n PROVE InBuffer[i] = (<<v>> \o InBuffer')[i]
        <4>1. CASE i = 1
          <5>1. 0 + i - 1 = 0 /\ i \in 1 .. n - 0
            BY <4>1
          <5> QED BY <2>3, <2>4, <2>5, <3>1, <3>3, <4>1, <5>1
        <4>2. CASE i # 1
          <5>1. PICK j \in 1 .. n - 1 : j = i - 1 /\ 1 + j - 1 = j /\ 0 + i - 1 = j /\ i \in 1 .. n - 0
            BY <4>2
          <5>2. InBuffer[i] = MessageAt(SlotAfter(h, j))
            BY <2>5, <5>1
          <5>3. InBuffer'[j] = MessageAt(SlotAfter(h, j))
            BY <2>6, <2>7, <5>1
          <5> QED BY <3>3, <4>2, <5>1, <5>2, <5>3
        <4> QED BY <4>1, <4>2
      <3> QED BY <1>3, <3>2, <3>3, <3>4, SeqEqual
    <2>9. ~peekFlag /\ (dequeuer.for = "read" => ~peekOverflow) /\ dequeuer.for \in {"read", "peek"}
      BY <1>1, DequeuerIs DEF MidiQueueInv, DequeuerInv
    <2>10. Back' = Back
      BY <1>1 DEF Back
    <2>11. <<v>> \in Seq(Values) /\ <<>> \in Seq(Values) /\ <<OVERFLOW>> \in Seq(Values)
      BY Singleton, EmptySeq DEF Values
    <2>12. \A s \in Seq(Values) : s \o <<>> = s /\ <<>> \o s = s
      BY ConcatEmptySeq
    <2>13. InBuffer' \o Back \in Seq(Values)
      BY <1>3, ConcatProperties
    <2>14. CASE dequeuer.for = "peek"
      <3>1. peek' = v /\ peekFlag' = TRUE /\ UNCHANGED dequeued
        BY <1>4, <2>3, <2>4, <2>14 DEF Test, Takes
      <3>2. PICK t \in Seq(Values) : t = IF peekOverflow THEN <<OVERFLOW>> ELSE <<>>
        BY <2>11
      <3>3. Peeked = t /\ Peeked' = t \o <<v>>
        <4>1. Peeked = t \o <<>>
          BY <2>9, <3>2 DEF Peeked
        <4> QED BY <1>1, <2>12, <3>1, <3>2, <4>1 DEF Peeked
      <3>4. t \o (<<v>> \o InBuffer') = (t \o <<v>>) \o InBuffer'
        BY <1>3, <2>11, <3>2, Associative
      <3>5. Queued' = Queued
        BY <1>3, <2>8, <2>10, <3>3, <3>4
      <3> QED BY <1>2, <3>1, <3>5 DEF Seen, Fifo!queueVars
    <2>15. CASE dequeuer.for = "read"
      <3>1. dequeued' = v /\ UNCHANGED <<peek, peekFlag>>
        BY <1>4, <2>3, <2>4, <2>15 DEF Test, Takes
      <3>2. Peeked = <<>> /\ Peeked' = <<>>
        <4>1. Peeked = <<>> \o <<>> /\ Peeked' = <<>> \o <<>>
          BY <1>1, <2>9, <2>15, <3>1 DEF Peeked
        <4> QED BY <2>11, <2>12, <4>1
      <3>3. Queued' = InBuffer' \o Back /\ Queued = (<<v>> \o InBuffer') \o Back
        BY <1>3, <2>8, <2>10, <2>12, <3>2
      <3>4. Queued = <<v>> \o Queued'
        BY <1>3, <2>11, <3>3, ConcatAssociative
      <3>5. Queued # <<>> /\ Head(Queued) = v /\ Tail(Queued) = Queued'
        BY <2>13, <3>3, <3>4, HeadOfConcat
      <3> QED BY <1>2, <3>1, <3>5 DEF Seen, Fifo!Next, Fifo!Deliver
    <2> QED BY <2>9, <2>14, <2>15
  <1>5. CASE ~Takes
    <2>1. /\ dequeuer' = IF buffer[head + dequeuer.i] = 0 THEN IDLE ELSE [dequeuer EXCEPT !.i = @ - 1]
          /\ UNCHANGED <<peek, peekFlag, dequeued>>
      BY <1>1, <1>5 DEF Takes, Test
    <2>2. dequeuer \in [pc : {"test"}, for : {"read", "peek"}, i : Words]
      BY <1>1, DequeuerIs DEF MidiQueueInv
    <2>3. dequeuer'.pc # "zero"
      BY <2>1, <2>2 DEF IDLE
    <2>4. InBuffer' = InBuffer
      BY <1>1, <2>3, BufferStays DEF Oldest
    <2>5. Queued' = Queued
      BY <1>1, <2>1, <2>4, NothingSeen
    <2> QED BY <1>2, <2>1, <2>5 DEF Seen, Fifo!queueVars
  <1> QED BY <1>4, <1>5

LEMMA ZeroIsUnseen == ASSUME MidiQueueInv, Zero PROVE Seen
  <1>1. UNCHANGED <<peek, peekFlag, peekOverflow, dequeued, overflow, enqueuerVars>>
    BY DEF Zero
  <1>2. PICK n \in Nat : Holds(n)
    BY DEF MidiQueueInv
  <1>3. /\ MidiQueueInv' /\ Oldest = 1 /\ n \in 1 .. num_msgs
        /\ \A k \in Starts \ {head} : MessageAt(k)' = MessageAt(k)
        /\ \/ head' = head /\ Oldest' = 1 /\ Holds(n)'
           \/ head' = After(head) /\ Oldest' = 0 /\ Holds(n - 1)' /\ n - 1 \in Nat
    BY <1>2, ZeroKeeps
  <1>4. PICK h \in Starts : h = head
    BY DEF MidiQueueInv, MidiQueueTypeOK
  <1>5. InBuffer = [i \in 1 .. n - 1 |-> MessageAt(SlotAfter(h, 1 + i - 1))]
    BY <1>2, <1>3, <1>4, BufferHolds DEF InBufferIs, MessagesOf
  <1>6. \A x \in 1 .. num_msgs - 1 : MessageAt(SlotAfter(h, x))' = MessageAt(SlotAfter(h, x))
    <2> SUFFICES ASSUME NEW x \in 1 .. num_msgs - 1
                 PROVE  MessageAt(SlotAfter(h, x))' = MessageAt(SlotAfter(h, x))
      OBVIOUS
    <2>1. SlotAfter(h, x) \in Starts /\ SlotAfter(h, x) # SlotAfter(h, 0) /\ SlotAfter(h, 0) = h
      BY RingIs, SizesAre
    <2>2. PICK k \in Starts \ {head} : k = SlotAfter(h, x)
      BY <1>4, <2>1
    <2> QED BY <1>3, <2>2
  <1>7. InBuffer' = InBuffer
    <2>1. CASE head' = head /\ Oldest' = 1 /\ Holds(n)'
      <3>1. InBuffer' = [i \in 1 .. n - 1 |-> MessageAt(SlotAfter(h, 1 + i - 1))']
        BY <1>3, <1>4, <2>1, BufferIsNext
      <3>2. ASSUME NEW i \in 1 .. n - 1
            PROVE  MessageAt(SlotAfter(h, 1 + i - 1))' = MessageAt(SlotAfter(h, 1 + i - 1))
        <4>1. PICK x \in 1 .. num_msgs - 1 : x = 1 + i - 1
          BY <1>3, SizesAre
        <4> QED BY <1>6, <4>1
      <3> QED BY <1>5, <3>1, <3>2
    <2>2. CASE head' = After(head) /\ Oldest' = 0 /\ Holds(n - 1)' /\ n - 1 \in Nat
      <3>1. PICK g \in Starts : g = head' /\ g = After(h)
        BY <1>4, <2>2, RingIs
      <3>2. PICK d \in Nat : d = n - 1 /\ d - 0 = d /\ Holds(d)'
        BY <2>2
      <3>3. InBuffer' = [i \in 1 .. d - 0 |-> MessageAt(SlotAfter(g, 0 + i - 1))']
        BY <1>3, <2>2, <3>1, <3>2, BufferIsNext
      <3>4. ASSUME NEW i \in 1 .. d
            PROVE  MessageAt(SlotAfter(g, 0 + i - 1))' = MessageAt(SlotAfter(h, 1 + i - 1))
        <4>1. /\ 0 + i - 1 \in 0 .. num_msgs - 1 /\ i \in 1 .. num_msgs - 1 /\ 1 + i - 1 = i
              /\ (0 + i - 1) + 1 = i
          BY <1>3, <3>2, SizesAre
        <4>2. SlotAfter(g, 0 + i - 1) = SlotAfter(h, i)
          BY <3>1, <4>1, RingIs
        <4>3. MessageAt(SlotAfter(g, 0 + i - 1))' = MessageAt(SlotAfter(h, i))'
          BY <4>2 DEF MessageAt, Zeros, LinksStayIn
        <4> QED BY <1>6, <4>1, <4>3
      <3> QED BY <1>5, <3>2, <3>3, <3>4
    <2> QED BY <1>3, <2>1, <2>2
  <1>8. Queued' = Queued
    BY <1>1, <1>7, NothingSeen
  <1> QED BY <1>1, <1>8 DEF Seen, Fifo!queueVars, Offered, enqueuerVars

(* Every interleaving of Pm_Enqueue, Pm_SetOverflow, Pm_Dequeue and         *)
(* Pm_QueuePeek, access by access, is a behaviour of the queue that         *)
(* pmutil.h promises: messages come out as they went in and in that order,  *)
(* and an overflow where some were refused.                                 *)
THEOREM MidiQueueIsFifo == QueueSpec => ImplementsEventQueue
  <1>1. QueueInit => MidiQueueInv /\ Fifo!Init
    <2> SUFFICES ASSUME QueueInit PROVE Fifo!Init
      BY StartsWell
    <2>1. MidiQueueInv /\ Holds(0) /\ 0 \in Nat
      BY StartsWell
    <2>2. /\ Oldest = 0 /\ Peeked = <<>> \o <<>> /\ Back = <<>> /\ Offered = NoEvent
          /\ dequeued = NoEvent
      BY DEF QueueInit, Oldest, Peeked, Back, Offered, IDLE
    <2>3. InBuffer \in Seq(Values) /\ Queued = (Peeked \o InBuffer) \o Back
      BY <2>1, PartsAre DEF QueuedParts
    <2>4. InBuffer = <<>>
      <3>1. InBuffer = MessagesOf(0)
        BY <2>1, BufferHolds DEF InBufferIs
      <3>2. DOMAIN InBuffer = {}
        BY <2>2, <3>1 DEF MessagesOf
      <3>3. Len(InBuffer) \in Nat /\ 1 .. Len(InBuffer) = {}
        BY <2>3, <3>2, LenProperties
      <3>4. Len(InBuffer) = 0
        BY <3>3
      <3> QED BY <2>3, <3>4, EmptySeq
    <2>5. <<>> \in Seq(Values) /\ <<>> \o <<>> = <<>>
      BY EmptySeq, ConcatEmptySeq
    <2>6. Queued = <<>>
      BY <2>2, <2>3, <2>4, <2>5
    <2> QED BY <2>2, <2>6 DEF Fifo!Init
  <1>2. MidiQueueInv /\ [QueueNext]_queueVars => Seen
    <2> SUFFICES ASSUME MidiQueueInv, [QueueNext]_queueVars PROVE Seen
      OBVIOUS
    <2>1. CASE \E m \in Events : Enqueue(m)
      BY <2>1, EnqueueIsOffer
    <2>2. CASE TestFull
      BY <2>2, TestFullIsRefuse
    <2>3. CASE Write
      BY <2>3, WriteIsUnseen
    <2>4. CASE Written
      BY <2>4, WrittenIsAccept
    <2>5. CASE SetOverflow
      BY <2>5, SetOverflowIsRefuse
    <2>6. CASE Dequeue
      BY <2>6, DequeueIsDeliver
    <2>7. CASE QueuePeek
      BY <2>7, QueuePeekIsUnseen
    <2>8. CASE LookForOverflow
      BY <2>8, LookIsSeen
    <2>9. CASE Test
      BY <2>9, TestIsSeen
    <2>10. CASE Zero
      BY <2>10, ZeroIsUnseen
    <2>11. CASE UNCHANGED queueVars
      <3>1. InBuffer' = InBuffer
        BY <2>11, BufferStays DEF queueVars, Oldest
      <3>2. Queued' = Queued
        BY <2>11, <3>1, NothingSeen DEF queueVars
      <3> QED BY <2>11, <3>2 DEF Seen, Fifo!queueVars, Offered, queueVars
    <2> QED BY <2>1, <2>2, <2>3, <2>4, <2>5, <2>6, <2>7, <2>8, <2>9, <2>10, <2>11
            DEF QueueNext, WriterNext, ReaderNext
  <1> QED BY <1>1, <1>2, MidiQueueStep, PTL DEF QueueSpec, ImplementsEventQueue, Fifo!Spec, Seen

-----------------------------------------------------------------------------
(***************************************************************************)
(* portmidi's output: what has been written and not been lost is sent, or  *)
(* in the packet list, or in the buffer, in that order.                    *)
(***************************************************************************)

Bytes == {"SYSEX", "EOX", "REALTIME", "STATUS", "d0", "d1", "d2", "0"}
Errors == {"pmNoError", "pmHostError", "pmBadData"}
Outs == [inProgress : BOOLEAN, buffer : Seq(Bytes), list : Seq(Bytes), sent : Seq(Bytes), err : Errors]

Handed(s) == s.sent \o s.list
Whole(s) == Handed(s) \o s.buffer

LEMMA BytesAssociative == \A s, t, u \in Seq(Bytes) : (s \o t) \o u = s \o (t \o u)
  BY ConcatAssociative

LEMMA OneByte == \A b \in Bytes : <<b>> \in Seq(Bytes)
  OBVIOUS

LEMMA OutFields ==
    ASSUME NEW s \in Outs
    PROVE  /\ s.inProgress \in BOOLEAN /\ s.buffer \in Seq(Bytes) /\ s.list \in Seq(Bytes)
           /\ s.sent \in Seq(Bytes) /\ s.err \in Errors
           /\ Handed(s) \in Seq(Bytes) /\ Whole(s) \in Seq(Bytes)
  <1>1. /\ s.inProgress \in BOOLEAN /\ s.buffer \in Seq(Bytes) /\ s.list \in Seq(Bytes)
        /\ s.sent \in Seq(Bytes) /\ s.err \in Errors
    BY DEF Outs
  <1>2. Handed(s) \in Seq(Bytes)
    BY <1>1, ConcatProperties DEF Handed
  <1> QED BY <1>1, <1>2, ConcatProperties DEF Whole

\* Either all of the packet list is sent, or it is lost and there is an error.
Flushes(s, t) ==
    /\ t \in Outs /\ t.inProgress = s.inProgress /\ t.buffer = s.buffer /\ t.list = <<>>
    /\ t.err = "pmNoError" => t.sent = Handed(s)
    /\ t.err # "pmNoError" => t.sent = s.sent

LEMMA FlushSends ==
    ASSUME NEW s \in Outs, s.err = "pmNoError", NEW fails \in BOOLEAN
    PROVE  Flushes(s, midi_write_flush(s, fails))
  <1>1. /\ s.buffer \in Seq(Bytes) /\ s.list \in Seq(Bytes) /\ s.sent \in Seq(Bytes)
        /\ Handed(s) \in Seq(Bytes) /\ <<>> \in Seq(Bytes)
    BY OutFields, EmptySeq
  <1>2. CASE s.list = <<>>
    <2>1. Handed(s) = s.sent
      BY <1>1, <1>2, ConcatEmptySeq DEF Handed
    <2> QED BY <1>2, <2>1 DEF midi_write_flush, Flushes
  <1>3. CASE s.list # <<>> /\ fails
    BY <1>1, <1>3 DEF midi_write_flush, Flushes, Outs, Errors
  <1>4. CASE s.list # <<>> /\ ~fails
    BY <1>1, <1>4 DEF midi_write_flush, Flushes, Outs, Errors, Handed
  <1> QED BY <1>2, <1>3, <1>4

\* More bytes come into the packet list, after those it has.
Sends(s, bytes, t) ==
    /\ t \in Outs /\ t.inProgress = s.inProgress /\ t.buffer = s.buffer
    /\ t.err = "pmNoError" => Handed(t) = Handed(s) \o bytes
    /\ t.err # "pmNoError" => t.sent = s.sent

LEMMA PacketSends ==
    ASSUME NEW s \in Outs, s.err = "pmNoError", NEW bytes \in Seq(Bytes), NEW fails \in BOOLEAN
    PROVE  Sends(s, bytes, send_packet(s, bytes, fails))
  <1> DEFINE room == IF Len(s.list) + Len(bytes) <= PACKET_BUFFER_SIZE THEN s
                     ELSE midi_write_flush(s, fails)
             t == send_packet(s, bytes, fails)
  <1>1. /\ room \in Outs /\ room.inProgress = s.inProgress /\ room.buffer = s.buffer
        /\ room.err = "pmNoError" => Handed(room) = Handed(s)
        /\ room.err # "pmNoError" => room.sent = s.sent
    <2>1. Flushes(s, midi_write_flush(s, fails))
      BY FlushSends
    <2>2. CASE room = s
      BY <2>2
    <2>3. CASE room = midi_write_flush(s, fails)
      <3>1. Flushes(s, room)
        BY <2>1, <2>3
      <3>2. Handed(room) = room.sent
        <4> HIDE DEF room
        <4>1. room.sent \in Seq(Bytes) /\ room.list = <<>>
          BY <3>1, OutFields DEF Flushes
        <4> QED BY <4>1, ConcatEmptySeq DEF Handed
      <3> HIDE DEF room
      <3> QED BY <3>1, <3>2 DEF Flushes
    <2> QED BY <2>2, <2>3
  <1>2. t = IF room.err # "pmNoError" THEN room ELSE [room EXCEPT !.list = @ \o bytes]
    BY DEF send_packet
  <1> SUFFICES Sends(s, bytes, t)
    OBVIOUS
  <1> HIDE DEF room, t
  <1>3. CASE room.err # "pmNoError"
    BY <1>1, <1>2, <1>3 DEF Sends
  <1>4. CASE room.err = "pmNoError"
    <2>1. /\ room.sent \in Seq(Bytes) /\ room.list \in Seq(Bytes) /\ room.list \o bytes \in Seq(Bytes)
      BY <1>1, OutFields, ConcatProperties
    <2>2. /\ t \in Outs /\ t.inProgress = room.inProgress /\ t.buffer = room.buffer
          /\ t.sent = room.sent /\ t.list = room.list \o bytes /\ t.err = "pmNoError"
      BY <1>1, <1>2, <1>4, <2>1 DEF Outs
    <2>3. Handed(t) = Handed(room) \o bytes
      <3>1. \A q \in Seq(Bytes) : room.sent \o (q \o bytes) = (room.sent \o q) \o bytes
        BY <2>1, BytesAssociative
      <3> QED BY <2>1, <2>2, <3>1 DEF Handed
    <2> QED BY <1>1, <1>4, <2>2, <2>3 DEF Sends
  <1> QED BY <1>3, <1>4

\* The bytes of the buffer come into the packet list.
Ends(s, t) ==
    /\ t \in Outs /\ t.inProgress = s.inProgress /\ t.buffer = <<>>
    /\ t.err = "pmNoError" => Handed(t) = Whole(s) /\ Whole(t) = Whole(s)
    /\ t.err # "pmNoError" => t.sent = s.sent

LEMMA EndSends ==
    ASSUME NEW s \in Outs, s.err = "pmNoError", NEW fails \in BOOLEAN
    PROVE  Ends(s, midi_end_sysex(s, fails))
  <1>1. PICK u : u = send_packet(s, s.buffer, fails)
    OBVIOUS
  <1>2. Sends(s, s.buffer, u)
    BY <1>1, OutFields, PacketSends
  <1>3. /\ u.inProgress \in BOOLEAN /\ u.buffer \in Seq(Bytes) /\ u.list \in Seq(Bytes) /\ u.sent \in Seq(Bytes)
        /\ u.err \in Errors /\ u \in Outs /\ <<>> \in Seq(Bytes)
    BY <1>2, OutFields, EmptySeq DEF Sends
  <1>4. PICK v : v = [u EXCEPT !.buffer = <<>>]
    OBVIOUS
  <1>5. /\ v \in Outs /\ v.inProgress = u.inProgress /\ v.buffer = <<>> /\ v.list = u.list
        /\ v.sent = u.sent /\ v.err = u.err
    BY <1>3, <1>4 DEF Outs
  <1>6. PICK t : t = midi_end_sysex(s, fails)
    OBVIOUS
  <1>7. t = IF v.err # "pmNoError" THEN [v EXCEPT !.list = <<>>] ELSE v
    BY <1>1, <1>4, <1>6 DEF midi_end_sysex
  <1>8. /\ t \in Outs /\ t.inProgress = v.inProgress /\ t.buffer = v.buffer /\ t.sent = v.sent /\ t.err = v.err
        /\ v.err = "pmNoError" => t = v
    BY <1>3, <1>5, <1>7 DEF Outs
  <1>9. ASSUME t.err = "pmNoError" PROVE Handed(t) = Whole(s) /\ Whole(t) = Whole(s)
    <2>1. Handed(t) = Handed(u) /\ Handed(u) = Whole(s)
      BY <1>2, <1>5, <1>8, <1>9 DEF Handed, Sends, Whole
    <2>2. Whole(t) = Handed(t)
      <3>1. Handed(t) \in Seq(Bytes) /\ t.buffer = <<>>
        BY <1>5, <1>8, OutFields
      <3> QED BY <3>1, ConcatEmptySeq DEF Whole
    <2> QED BY <2>1, <2>2
  <1> QED BY <1>2, <1>5, <1>6, <1>8, <1>9 DEF Ends, Sends

\* One byte more.
Adds(s, b, t) ==
    /\ t \in Outs /\ t.inProgress = s.inProgress
    /\ t.err = "pmNoError" => Whole(t) = Append(Whole(s), b)
    /\ t.err # "pmNoError" => t.sent = s.sent

LEMMA ByteAdds ==
    ASSUME NEW s \in Outs, s.err = "pmNoError", NEW b \in Bytes, NEW fails \in BOOLEAN
    PROVE  Adds(s, b, midi_write_byte(s, b, fails))
  <1> DEFINE room == IF Len(s.buffer) >= SYSEX_BUFFER_SIZE THEN midi_end_sysex(s, fails) ELSE s
             t == midi_write_byte(s, b, fails)
  <1>1. /\ room \in Outs /\ room.inProgress = s.inProgress
        /\ room.err = "pmNoError" => Whole(room) = Whole(s)
        /\ room.err # "pmNoError" => room.sent = s.sent
    BY EndSends DEF Ends
  <1>2. t = IF room.err # "pmNoError" THEN room ELSE [room EXCEPT !.buffer = Append(@, b)]
    BY DEF midi_write_byte
  <1> SUFFICES Adds(s, b, t)
    OBVIOUS
  <1> HIDE DEF room, t
  <1>3. CASE room.err # "pmNoError"
    BY <1>1, <1>2, <1>3 DEF Adds
  <1>4. CASE room.err = "pmNoError"
    <2>1. /\ room.buffer \in Seq(Bytes) /\ Append(room.buffer, b) \in Seq(Bytes)
          /\ Handed(room) \in Seq(Bytes) /\ Whole(room) \in Seq(Bytes)
      BY <1>1, OutFields, AppendProperties
    <2>2. /\ t \in Outs /\ t.inProgress = room.inProgress /\ t.buffer = Append(room.buffer, b)
          /\ t.sent = room.sent /\ t.list = room.list /\ t.err = "pmNoError"
      BY <1>1, <1>2, <1>4, <2>1 DEF Outs
    <2>3. PICK v : v = <<b>>
      OBVIOUS
    <2>4. v \in Seq(Bytes)
      BY <2>3, OneByte
    <2>5. Append(room.buffer, b) = room.buffer \o v /\ Append(Whole(room), b) = Whole(room) \o v
      BY <2>1, <2>3, AppendIsConcat
    <2>6. Whole(t) = Handed(room) \o (room.buffer \o v)
      BY <2>2, <2>5 DEF Whole, Handed
    <2>7. Whole(t) = Append(Whole(room), b)
      BY <2>1, <2>4, <2>5, <2>6, BytesAssociative DEF Whole
    <2> QED BY <1>1, <1>4, <2>2, <2>7 DEF Adds
  <1> QED BY <1>3, <1>4

-----------------------------------------------------------------------------
(* The bytes of a sysex.  full: what was written before and this sysex;    *)
(* the first m bytes of it have been taken.                                *)

Covers(a, full, m) == Len(a) = m /\ \A n \in 1 .. m : a[n] = full[n]
Open(s, full, m) ==
    /\ s \in Outs
    /\ s.err = "pmNoError" =>
           /\ Covers(Whole(s), full, m)
           /\ s.inProgress <=> m < Len(full)
           /\ ~s.inProgress => s.buffer = <<>>
    /\ s.err # "pmNoError" => IsPrefixOf(s.sent, full)

LEMMA SentIsPrefix ==
    ASSUME NEW s \in Outs, NEW full \in Seq(Bytes), NEW m \in 0 .. Len(full), Covers(Whole(s), full, m)
    PROVE  IsPrefixOf(s.sent, full)
  <1>1. /\ s.sent \in Seq(Bytes) /\ s.list \in Seq(Bytes) /\ s.buffer \in Seq(Bytes)
        /\ Handed(s) \in Seq(Bytes) /\ Whole(s) \in Seq(Bytes)
    BY OutFields
  <1>2. Len(s.sent) \in Nat /\ Len(s.list) \in Nat /\ Len(s.buffer) \in Nat /\ Len(full) \in Nat
    BY <1>1, LenProperties
  <1>3. PICK i \in Nat, j \in Nat, k \in Nat : i = Len(s.sent) /\ j = Len(s.list) /\ k = Len(s.buffer)
    BY <1>2
  <1>4. Len(Handed(s)) = i + j /\ \A n \in 1 .. i : Handed(s)[n] = s.sent[n]
    <2>1. /\ Len(Handed(s)) = i + j
          /\ \A n \in 1 .. i + j : Handed(s)[n] = IF n <= i THEN s.sent[n] ELSE s.list[n - i]
      BY <1>1, <1>3, ConcatProperties DEF Handed
    <2>2. \A n \in 1 .. i : n \in 1 .. i + j /\ n <= i
      OBVIOUS
    <2> QED BY <2>1, <2>2
  <1>5. Len(Whole(s)) = i + j + k /\ \A n \in 1 .. i + j : Whole(s)[n] = Handed(s)[n]
    <2>1. /\ Len(Whole(s)) = i + j + k
          /\ \A n \in 1 .. i + j + k : Whole(s)[n] = IF n <= i + j THEN Handed(s)[n] ELSE s.buffer[n - (i + j)]
      <3>1. PICK a \in Seq(Bytes), c \in Seq(Bytes) : a = Handed(s) /\ c = s.buffer
        BY <1>1
      <3>2. Len(a) = i + j /\ Len(c) = k
        BY <1>3, <1>4, <3>1
      <3>3. /\ Len(a \o c) = Len(a) + Len(c)
            /\ \A n \in 1 .. Len(a) + Len(c) : (a \o c)[n] = IF n <= Len(a) THEN a[n] ELSE c[n - Len(a)]
        BY ConcatProperties
      <3>4. Whole(s) = a \o c
        BY <3>1 DEF Whole
      <3>5. \A n \in 1 .. i + j + k : (a \o c)[n] = IF n <= i + j THEN a[n] ELSE c[n - (i + j)]
        BY <3>2, <3>3
      <3> QED BY <3>1, <3>2, <3>3, <3>4, <3>5
    <2>2. \A n \in 1 .. i + j : n \in 1 .. i + j + k /\ n <= i + j
      OBVIOUS
    <2> QED BY <2>1, <2>2
  <1>6. m = i + j + k /\ \A n \in 1 .. m : Whole(s)[n] = full[n]
    BY <1>5 DEF Covers
  <1>7. \A n \in 1 .. i : n \in 1 .. i + j /\ n \in 1 .. m
    BY <1>6
  <1>8. \A n \in 1 .. i : s.sent[n] = full[n]
    BY <1>4, <1>5, <1>6, <1>7
  <1>9. i <= Len(full)
    BY <1>2, <1>6
  <1> QED BY <1>3, <1>8, <1>9 DEF IsPrefixOf

\* b is the byte after the first m of full, which ends with its first EOX.
IsByteOf(b, full, m) ==
    m < Len(full) => b = full[m + 1] /\ (b = "EOX" <=> m + 1 = Len(full))
OneMore(full, m) == IF m < Len(full) THEN m + 1 ELSE m

LEMMA SysexByteOpens ==
    ASSUME NEW full \in Seq(Bytes), NEW m \in 0 .. Len(full), NEW s, Open(s, full, m),
           NEW b \in Bytes, IsByteOf(b, full, m), NEW fails \in BOOLEAN
    PROVE  Open(SysexByte(s, b, fails), full, OneMore(full, m))
  <1>1. s \in Outs /\ Len(full) \in Nat
    BY LenProperties DEF Open
  <1>2. PICK t : t = midi_write_byte(s, b, fails)
    OBVIOUS
  <1>3. PICK r : r = SysexByte(s, b, fails)
    OBVIOUS
  <1>4. r = IF s.err # "pmNoError" \/ ~s.inProgress THEN s
            ELSE IF t.err = "pmNoError" /\ b = "EOX"
            THEN [midi_end_sysex(t, fails) EXCEPT !.inProgress = FALSE] ELSE t
    BY <1>2, <1>3 DEF SysexByte
  <1> SUFFICES Open(r, full, OneMore(full, m))
    BY <1>3
  <1>5. CASE s.err # "pmNoError"
    <2>1. r = s
      BY <1>4, <1>5
    <2> QED BY <1>5, <2>1 DEF Open
  <1>6. CASE s.err = "pmNoError" /\ ~s.inProgress
    <2>1. ~(m < Len(full))
      <3>1. s.inProgress <=> m < Len(full)
        BY <1>6, Zenon DEF Open
      <3> QED BY <1>6, <3>1, Zenon
    <2>2. OneMore(full, m) = m
      BY <2>1 DEF OneMore
    <2>3. r = s
      BY <1>4, <1>6
    <2> QED BY <2>2, <2>3
  <1>7. CASE s.err = "pmNoError" /\ s.inProgress
    <2>1. /\ Covers(Whole(s), full, m) /\ m < Len(full) /\ OneMore(full, m) = m + 1 /\ m \in Nat
          /\ b = full[m + 1] /\ (b = "EOX" <=> m + 1 = Len(full)) /\ Whole(s) \in Seq(Bytes)
      <3>1. Covers(Whole(s), full, m) /\ m < Len(full)
        <4>1. Covers(Whole(s), full, m) /\ (s.inProgress <=> m < Len(full))
          BY <1>7, Zenon DEF Open
        <4> QED BY <1>7, <4>1, Zenon
      <3>2. Whole(s) \in Seq(Bytes)
        BY <1>1, OutFields
      <3> QED BY <1>1, <3>1, <3>2 DEF OneMore, IsByteOf
    <2>2. Adds(s, b, t)
      BY <1>1, <1>2, <1>7, ByteAdds
    <2>3. IsPrefixOf(s.sent, full)
      BY <1>1, <2>1, SentIsPrefix
    <2>4. CASE t.err # "pmNoError"
      BY <1>3, <1>4, <1>7, <2>2, <2>3, <2>4 DEF Adds, Open
    <2>5. CASE t.err = "pmNoError"
      <3>1. Covers(Whole(t), full, m + 1)
        <4>1. PICK a \in Seq(Bytes) : a = Whole(s)
          BY <2>1
        <4>2. Len(a) = m /\ \A n \in 1 .. m : a[n] = full[n]
          BY <2>1, <4>1 DEF Covers
        <4>3. Whole(t) = Append(a, b)
          BY <2>2, <2>5, <4>1 DEF Adds
        <4>4. Len(Append(a, b)) = m + 1 /\ Append(a, b)[m + 1] = b /\ \A n \in 1 .. m : Append(a, b)[n] = a[n]
          BY <4>2, AppendProperties
        <4> HIDE DEF Whole
        <4> QED BY <2>1, <4>2, <4>3, <4>4 DEF Covers
      <3>2. CASE b # "EOX"
        <4>1. r = t /\ m + 1 < Len(full) /\ t \in Outs /\ t.inProgress = s.inProgress
          <5>1. r = t /\ t \in Outs /\ t.inProgress = s.inProgress
            BY <1>4, <1>7, <2>2, <3>2 DEF Adds
          <5>2. m + 1 # Len(full)
            BY <2>1, <3>2
          <5> QED BY <1>1, <2>1, <5>1, <5>2
        <4> QED BY <1>3, <1>7, <2>1, <2>5, <3>1, <4>1 DEF Open
      <3>3. CASE b = "EOX"
        <4>1. PICK u : u = midi_end_sysex(t, fails)
          OBVIOUS
        <4>2. Ends(t, u)
          BY <2>2, <2>5, <4>1, EndSends DEF Adds
        <4>3. r = [u EXCEPT !.inProgress = FALSE]
          BY <1>4, <1>7, <2>5, <3>3, <4>1
        <4>4. /\ r \in Outs /\ ~r.inProgress /\ r.buffer = u.buffer /\ r.list = u.list /\ r.sent = u.sent
              /\ r.err = u.err
          BY <4>2, <4>3 DEF Ends, Outs
        <4>5. Whole(r) = Whole(u)
          BY <4>4 DEF Whole, Handed
        <4>6. m + 1 = Len(full) /\ IsPrefixOf(t.sent, full)
          <5>1. m + 1 = Len(full) /\ t \in Outs /\ m + 1 \in 0 .. Len(full)
            <6>1. m + 1 = Len(full)
              BY <2>1, <3>3
            <6>2. t \in Outs
              BY <2>2 DEF Adds
            <6> QED BY <1>1, <6>1, <6>2
          <5> QED BY <3>1, <5>1, SentIsPrefix
        <4>7. ASSUME r.err = "pmNoError" PROVE Covers(Whole(r), full, m + 1) /\ r.buffer = <<>>
          BY <3>1, <4>2, <4>4, <4>5, <4>7 DEF Ends
        <4>8. ASSUME r.err # "pmNoError" PROVE IsPrefixOf(r.sent, full)
          BY <4>2, <4>4, <4>6, <4>8 DEF Ends
        <4>9. r.inProgress <=> m + 1 < Len(full)
          BY <1>1, <4>4, <4>6 DEF Outs
        <4>10. Open(r, full, m + 1)
          BY <4>4, <4>7, <4>8, <4>9 DEF Open
        <4> QED BY <1>3, <2>1, <4>10
      <3> QED BY <3>2, <3>3
    <2> QED BY <2>4, <2>5
  <1> QED BY <1>1, <1>3, <1>5, <1>6, <1>7 DEF Outs

LEMMA SysexByteType ==
    ASSUME NEW s \in Outs, NEW b \in Bytes, NEW fails \in BOOLEAN
    PROVE  SysexByte(s, b, fails) \in Outs
  <1>1. PICK t : t = midi_write_byte(s, b, fails)
    OBVIOUS
  <1>2. PICK u : u = midi_end_sysex(t, fails)
    OBVIOUS
  <1>3. s.err = "pmNoError" => t \in Outs
    BY <1>1, ByteAdds DEF Adds
  <1>4. s.err = "pmNoError" /\ t.err = "pmNoError" => u \in Outs /\ [u EXCEPT !.inProgress = FALSE] \in Outs
    <2>1. s.err = "pmNoError" /\ t.err = "pmNoError" => u \in Outs
      BY <1>2, <1>3, EndSends DEF Ends
    <2> QED BY <2>1 DEF Outs
  <1> QED BY <1>1, <1>2, <1>3, <1>4 DEF SysexByte

IsSysexRun(f, s, event, fails) ==
    /\ f \in [0 .. Len(event) -> Outs] /\ f[0] = s
    /\ \A n \in 1 .. Len(event) : f[n] = SysexByte(f[n - 1], event[n], fails)

LEMMA SysexBytesIs ==
    ASSUME NEW s \in Outs, NEW event \in Seq(Bytes), NEW fails \in BOOLEAN
    PROVE  \E f : IsSysexRun(f, s, event, fails) /\ SysexBytes(s, event, fails) = f[Len(event)]
  <1> DEFINE N == Len(event)
             step == [p \in Outs \X (1 .. N) |-> SysexByte(p[1], event[p[2]], fails)]
             Q(h) == h = [n \in 0 .. N |-> IF n = 0 THEN s ELSE SysexByte(h[n - 1], event[n], fails)]
             ch == CHOOSE h : Q(h)
  <1>1. N \in Nat /\ \A n \in 1 .. N : event[n] \in Bytes
    BY LenProperties, ElementOfSeq
  <1>2. \A v \in Outs, n \in 1 .. N : step[<<v, n>>] = SysexByte(v, event[n], fails)
    OBVIOUS
  <1>3. step \in Steps(Outs, N)
    <2>1. ASSUME NEW q \in Outs \X (1 .. N) PROVE step[q] \in Outs
      <3>1. q[1] \in Outs /\ event[q[2]] \in Bytes
        BY <1>1
      <3> QED BY <3>1, SysexByteType
    <2> HIDE DEF N
    <2> QED BY <2>1 DEF Steps
  <1> HIDE DEF step
  <1>4. PICK f : IsRun(f, Outs, N, s, step)
    <2> HIDE DEF N
    <2> QED BY <1>1, <1>3, Iterate
  <1>5. f \in [0 .. N -> Outs] /\ f[0] = s /\ \A n \in 1 .. N : f[n] = SysexByte(f[n - 1], event[n], fails)
    <2>1. ASSUME NEW n \in 1 .. N PROVE f[n] = SysexByte(f[n - 1], event[n], fails)
      <3>1. f[n] = step[<<f[n - 1], n>>] /\ f[n - 1] \in Outs
        BY <1>1, <1>4 DEF IsRun
      <3> HIDE DEF N
      <3> QED BY <1>2, <3>1
    <2> QED BY <1>4, <2>1 DEF IsRun
  <1>6. Q(f)
    <2>1. \A n \in 0 .. N : f[n] = IF n = 0 THEN s ELSE SysexByte(f[n - 1], event[n], fails)
      <3> SUFFICES ASSUME NEW n \in 0 .. N, n # 0 PROVE f[n] = SysexByte(f[n - 1], event[n], fails)
        BY <1>5
      <3>1. n \in 1 .. N
        BY <1>1
      <3> QED BY <1>5, <3>1
    <2>2. f = [n \in 0 .. N |-> f[n]]
      BY <1>5
    <2> HIDE DEF N
    <2> QED BY <2>1, <2>2
  <1>7. Q(ch)
    BY <1>6
  <1>8. SysexBytes(s, event, fails) = ch[N]
    BY DEF SysexBytes
  <1> HIDE DEF ch
  <1>9. ch = f
    <2>1. \A n \in 0 .. N : ch[n] = IF n = 0 THEN s ELSE SysexByte(ch[n - 1], event[n], fails)
      BY <1>7
    <2>2. ASSUME NEW n \in 0 .. N - 1, ch[n] = f[n] PROVE ch[n + 1] = f[n + 1]
      <3>1. n + 1 \in 1 .. N /\ n + 1 \in 0 .. N /\ n + 1 # 0 /\ (n + 1) - 1 = n
        BY <1>1
      <3>2. ch[n + 1] = SysexByte(ch[(n + 1) - 1], event[n + 1], fails)
        BY <2>1, <3>1
      <3>3. f[n + 1] = SysexByte(f[(n + 1) - 1], event[n + 1], fails)
        BY <1>5, <3>1
      <3> QED BY <2>2, <3>1, <3>2, <3>3
    <2>3. DOMAIN ch = 0 .. N /\ ch = [n \in DOMAIN ch |-> ch[n]]
      BY <1>7
    <2>4. ch[0] = f[0]
      BY <1>1, <1>5, <2>1
    <2>5. IsOn(ch, N) /\ IsOn(f, N)
      BY <1>5, <2>3 DEF IsOn
    <2>6. GoAlike(ch, f, N)
      BY <2>2 DEF GoAlike
    <2>7. N \in Nat
      BY <1>1
    <2> HIDE DEF N
    <2> QED BY <2>4, <2>5, <2>6, <2>7, SameRun
  <1> QED BY <1>5, <1>8, <1>9 DEF IsSysexRun

\* The bytes of an event after the first m of full; after the last of full, any.
IsEventOf(event, full, m) ==
    /\ event \in Seq(Bytes) /\ full \in Seq(Bytes) /\ m \in 0 .. Len(full)
    /\ \A k \in 1 .. Len(event) : m + k <= Len(full) => event[k] = full[m + k]
    /\ \A n \in m + 1 .. Len(full) : full[n] = "EOX" <=> n = Len(full)
Cut(full, m) == IF m <= Len(full) THEN m ELSE Len(full)

LEMMA SysexBytesOpen ==
    ASSUME NEW event, NEW full, NEW m, IsEventOf(event, full, m), NEW s, Open(s, full, m), NEW fails \in BOOLEAN
    PROVE  Open(SysexBytes(s, event, fails), full, Cut(full, m + Len(event)))
  <1>1. s \in Outs /\ event \in Seq(Bytes) /\ full \in Seq(Bytes) /\ m \in 0 .. Len(full)
    BY DEF Open, IsEventOf
  <1>2. PICK f : IsSysexRun(f, s, event, fails) /\ SysexBytes(s, event, fails) = f[Len(event)]
    BY <1>1, SysexBytesIs
  <1>3. PICK N \in Nat, L \in Nat : N = Len(event) /\ L = Len(full)
    BY <1>1, LenProperties
  <1> DEFINE G == {k \in 0 .. N : Open(f[k], full, Cut(full, m + k))}
  <1>4. 0 \in G
    <2>1. Cut(full, m + 0) = m /\ f[0] = s
      BY <1>1, <1>2, <1>3 DEF Cut, IsSysexRun
    <2> QED BY <2>1
  <1>5. ASSUME NEW k \in 0 .. N - 1, k \in G PROVE k + 1 \in G
    <2>1. PICK c \in 0 .. L : c = Cut(full, m + k)
      BY <1>1, <1>3 DEF Cut
    <2>2. k + 1 \in 1 .. N /\ (k + 1) - 1 = k /\ k + 1 \in 0 .. N
      OBVIOUS
    <2>3. f[k + 1] = SysexByte(f[k], event[k + 1], fails) /\ event[k + 1] \in Bytes
      BY <1>1, <1>2, <1>3, <2>2, ElementOfSeq DEF IsSysexRun
    <2>4. IsByteOf(event[k + 1], full, c)
      <3> SUFFICES ASSUME c < L PROVE event[k + 1] = full[c + 1] /\ (event[k + 1] = "EOX" <=> c + 1 = L)
        BY <1>3 DEF IsByteOf
      <3>1. c = m + k /\ m + (k + 1) <= L /\ c + 1 = m + (k + 1) /\ c + 1 \in m + 1 .. L
        BY <1>1, <1>3, <2>1 DEF Cut
      <3>2. event[k + 1] = full[m + (k + 1)]
        BY <1>3, <2>2, <3>1 DEF IsEventOf
      <3>3. full[c + 1] = "EOX" <=> c + 1 = L
        BY <1>3, <3>1 DEF IsEventOf
      <3> QED BY <3>1, <3>2, <3>3
    <2>5. OneMore(full, c) = Cut(full, m + (k + 1))
      BY <1>1, <1>3, <2>1 DEF OneMore, Cut
    <2>6. Open(f[k], full, c)
      BY <1>5, <2>1
    <2>7. Open(f[k + 1], full, OneMore(full, c))
      BY <1>1, <1>3, <2>3, <2>4, <2>6, SysexByteOpens
    <2> QED BY <2>2, <2>5, <2>7
  <1>6. 0 .. N \subseteq G
    <2> HIDE DEF G
    <2> QED BY <1>4, <1>5, Induct
  <1> QED BY <1>2, <1>3, <1>6

-----------------------------------------------------------------------------
(* Events.                                                                 *)

OutEvents == [1 .. EVENT_BYTES -> Bytes]

LEMMA OutEventIs ==
    ASSUME NEW event \in OutEvents
    PROVE  event \in Seq(Bytes) /\ Len(event) = EVENT_BYTES /\ event[1] \in Bytes
  <1>1. EVENT_BYTES \in Nat /\ 1 \in 1 .. EVENT_BYTES
    BY MidiOutputAssumption
  <1> QED BY <1>1 DEF OutEvents

LEMMA SysexBytesType ==
    ASSUME NEW s \in Outs, NEW event \in OutEvents, NEW fails \in BOOLEAN
    PROVE  SysexBytes(s, event, fails) \in Outs
  <1>1. event \in Seq(Bytes) /\ Len(event) \in 0 .. Len(event)
    BY OutEventIs, LenProperties
  <1>2. PICK f : IsSysexRun(f, s, event, fails) /\ SysexBytes(s, event, fails) = f[Len(event)]
    BY <1>1, SysexBytesIs
  <1> QED BY <1>1, <1>2 DEF IsSysexRun

LEMMA ShortLength == \A status : midi_length(status) \in Nat /\ midi_length(status) \in 1 .. 2
  <1>1. \A status : midi_length(status) = 1 \/ midi_length(status) = 2
    BY DEF midi_length
  <1> QED BY <1>1

LEMMA EventBytes == EVENT_BYTES \in Nat /\ EVENT_BYTES > 1
  BY MidiOutputAssumption

LEMMA ShortSends ==
    ASSUME NEW s \in Outs, s.err = "pmNoError", NEW event \in OutEvents, NEW fails \in BOOLEAN
    PROVE  Sends(s, SubSeq(event, 1, midi_length(event[1])), midi_write_short(s, event, fails))
  <1>1. PICK n \in 1 .. EVENT_BYTES : n = midi_length(event[1])
    BY ShortLength, EventBytes
  <1>2. \A i \in 1 .. n : event[i] \in Bytes
    BY EventBytes DEF OutEvents
  <1>3. SubSeq(event, 1, n) \in Seq(Bytes)
    BY <1>2, SubSeqProperties, EventBytes
  <1> QED BY <1>1, <1>3, PacketSends DEF midi_write_short

LEMMA WriteEventType ==
    ASSUME NEW s \in Outs, s.err = "pmNoError", NEW event \in OutEvents, NEW fails \in BOOLEAN
    PROVE  WriteEvent(s, event, fails) \in Outs
  <1> DEFINE status == event[1]
  <1>1. [s EXCEPT !.inProgress = FALSE, !.err = "pmBadData"] \in Outs
    BY DEF Outs, Errors
  <1>2. SysexBytes([s EXCEPT !.inProgress = TRUE, !.buffer = <<>>], event, fails) \in Outs
    <2>1. PICK t : t = [s EXCEPT !.inProgress = TRUE, !.buffer = <<>>]
      OBVIOUS
    <2>2. t \in Outs
      BY <2>1, EmptySeq DEF Outs
    <2> QED BY <2>1, <2>2, SysexBytesType
  <1>3. SysexBytes(midi_write_realtime(s, event, fails), event, fails) \in Outs
    <2>1. PICK t : t = midi_end_sysex(s, fails)
      OBVIOUS
    <2>2. t \in Outs
      BY <2>1, EndSends DEF Ends
    <2>3. t.err = "pmNoError" => midi_write_short(t, event, fails) \in Outs
      BY <2>2, ShortSends DEF Sends
    <2>4. midi_write_realtime(s, event, fails) \in Outs
      BY <2>1, <2>2, <2>3 DEF midi_write_realtime
    <2> QED BY <2>4, SysexBytesType
  <1>4. [midi_end_sysex([s EXCEPT !.inProgress = FALSE], fails) EXCEPT !.err = "pmBadData"] \in Outs
    <2>1. PICK t : t = [s EXCEPT !.inProgress = FALSE]
      OBVIOUS
    <2>2. t \in Outs /\ t.err = "pmNoError"
      BY <2>1 DEF Outs
    <2>3. midi_end_sysex(t, fails) \in Outs
      BY <2>2, EndSends DEF Ends
    <2> QED BY <2>1, <2>3 DEF Outs, Errors
  <1>5. midi_write_short(s, event, fails) \in Outs
    BY ShortSends DEF Sends
  <1>6. SysexBytes(s, event, fails) \in Outs
    BY SysexBytesType
  <1>7. [s EXCEPT !.err = "pmBadData"] \in Outs
    BY DEF Outs, Errors
  <1>8. CASE status = "SYSEX" /\ s.inProgress
    BY <1>1, <1>8 DEF WriteEvent
  <1>9. CASE status = "SYSEX" /\ ~s.inProgress
    BY <1>2, <1>9 DEF WriteEvent
  <1>10. CASE status = "REALTIME" /\ s.inProgress
    BY <1>3, <1>10 DEF WriteEvent
  <1>11. CASE status = "STATUS" /\ s.inProgress
    BY <1>4, <1>11 DEF WriteEvent
  <1>12. CASE status \in {"REALTIME", "STATUS"} /\ ~s.inProgress
    BY <1>5, <1>12 DEF WriteEvent
  <1>13. CASE status \notin {"SYSEX", "REALTIME", "STATUS"}
    BY <1>6, <1>7, <1>13 DEF WriteEvent
  <1> QED BY <1>8, <1>9, <1>10, <1>11, <1>12, <1>13

EventTaken(s, event, fails) == IF s.err # "pmNoError" THEN s ELSE WriteEvent(s, event, fails)
IsWriteRun(f, s, events, fails) ==
    /\ f \in [0 .. Len(events) -> Outs] /\ f[0] = s
    /\ \A n \in 1 .. Len(events) : f[n] = EventTaken(f[n - 1], events[n], fails)
Flushed(s, fails) == IF s.err = "pmNoError" /\ ~s.inProgress THEN midi_write_flush(s, fails) ELSE s

LEMMA Pm_WriteIs ==
    ASSUME NEW s \in Outs, NEW events \in Seq(OutEvents), NEW fails \in BOOLEAN
    PROVE  \E f : IsWriteRun(f, s, events, fails) /\ Pm_Write(s, events, fails) = Flushed(f[Len(events)], fails)
  <1> DEFINE N == Len(events)
             step == [p \in Outs \X (1 .. N) |-> EventTaken(p[1], events[p[2]], fails)]
             Q(h) == h = [n \in 0 .. N |-> IF n = 0 THEN s
                                           ELSE IF h[n - 1].err # "pmNoError" THEN h[n - 1]
                                           ELSE WriteEvent(h[n - 1], events[n], fails)]
             ch == CHOOSE h : Q(h)
  <1>1. N \in Nat /\ \A n \in 1 .. N : events[n] \in OutEvents
    BY LenProperties, ElementOfSeq
  <1>2. \A v \in Outs, n \in 1 .. N : step[<<v, n>>] = EventTaken(v, events[n], fails)
    OBVIOUS
  <1>3. step \in Steps(Outs, N)
    <2>1. ASSUME NEW q \in Outs \X (1 .. N) PROVE step[q] \in Outs
      <3>1. q[1] \in Outs /\ events[q[2]] \in OutEvents
        BY <1>1
      <3> QED BY <3>1, WriteEventType DEF EventTaken
    <2> HIDE DEF N
    <2> QED BY <2>1 DEF Steps
  <1> HIDE DEF step
  <1>4. PICK f : IsRun(f, Outs, N, s, step)
    <2> HIDE DEF N
    <2> QED BY <1>1, <1>3, Iterate
  <1>5. f \in [0 .. N -> Outs] /\ f[0] = s /\ \A n \in 1 .. N : f[n] = EventTaken(f[n - 1], events[n], fails)
    <2>1. ASSUME NEW n \in 1 .. N PROVE f[n] = EventTaken(f[n - 1], events[n], fails)
      <3>1. f[n] = step[<<f[n - 1], n>>] /\ f[n - 1] \in Outs
        BY <1>1, <1>4 DEF IsRun
      <3> HIDE DEF N
      <3> QED BY <1>2, <3>1
    <2> QED BY <1>4, <2>1 DEF IsRun
  <1>6. Q(f)
    <2>1. \A n \in 0 .. N : f[n] = IF n = 0 THEN s
                                   ELSE IF f[n - 1].err # "pmNoError" THEN f[n - 1]
                                   ELSE WriteEvent(f[n - 1], events[n], fails)
      <3> SUFFICES ASSUME NEW n \in 0 .. N, n # 0 PROVE f[n] = EventTaken(f[n - 1], events[n], fails)
        BY <1>5 DEF EventTaken
      <3>1. n \in 1 .. N
        BY <1>1
      <3> QED BY <1>5, <3>1
    <2>2. f = [n \in 0 .. N |-> f[n]]
      BY <1>5
    <2> HIDE DEF N
    <2> QED BY <2>1, <2>2
  <1>7. Q(ch)
    BY <1>6
  <1>8. Pm_Write(s, events, fails) = Flushed(ch[N], fails)
    BY DEF Pm_Write, Flushed
  <1> HIDE DEF ch
  <1>9. ch = f
    <2>1. \A n \in 0 .. N : ch[n] = IF n = 0 THEN s ELSE EventTaken(ch[n - 1], events[n], fails)
      BY <1>7 DEF EventTaken
    <2>2. ASSUME NEW n \in 0 .. N - 1, ch[n] = f[n] PROVE ch[n + 1] = f[n + 1]
      <3>1. n + 1 \in 1 .. N /\ n + 1 \in 0 .. N /\ n + 1 # 0 /\ (n + 1) - 1 = n
        BY <1>1
      <3>2. ch[n + 1] = EventTaken(ch[(n + 1) - 1], events[n + 1], fails)
        BY <2>1, <3>1
      <3>3. f[n + 1] = EventTaken(f[(n + 1) - 1], events[n + 1], fails)
        BY <1>5, <3>1
      <3> QED BY <2>2, <3>1, <3>2, <3>3
    <2>3. DOMAIN ch = 0 .. N /\ ch = [n \in DOMAIN ch |-> ch[n]]
      BY <1>7
    <2>4. ch[0] = f[0]
      BY <1>1, <1>5, <2>1
    <2>5. IsOn(ch, N) /\ IsOn(f, N)
      BY <1>5, <2>3 DEF IsOn
    <2>6. GoAlike(ch, f, N)
      BY <2>2 DEF GoAlike
    <2>7. N \in Nat
      BY <1>1
    <2> HIDE DEF N
    <2> QED BY <2>4, <2>5, <2>6, <2>7, SameRun
  <1> QED BY <1>5, <1>8, <1>9 DEF IsWriteRun

LEMMA FlushedType ==
    ASSUME NEW s \in Outs, NEW fails \in BOOLEAN PROVE Flushed(s, fails) \in Outs
  BY FlushSends DEF Flushed, Flushes

LEMMA Pm_WriteType ==
    ASSUME NEW s \in Outs, NEW events \in Seq(OutEvents), NEW fails \in BOOLEAN
    PROVE  Pm_Write(s, events, fails) \in Outs
  <1>1. PICK f : IsWriteRun(f, s, events, fails) /\ Pm_Write(s, events, fails) = Flushed(f[Len(events)], fails)
    BY Pm_WriteIs
  <1>2. Len(events) \in 0 .. Len(events)
    BY LenProperties
  <1>3. f[Len(events)] \in Outs
    BY <1>1, <1>2 DEF IsWriteRun
  <1> QED BY <1>1, <1>3, FlushedType

-----------------------------------------------------------------------------
(* A message cut into events.                                              *)

LEMMA Division ==
    ASSUME NEW a \in Nat, NEW b \in Nat \ {0}
    PROVE  a \div b \in Nat /\ b * (a \div b) <= a /\ a < b * (a \div b) + b
  OBVIOUS

\* There are N events: N - 1 of them are full, and the last one has a byte.
LEMMA EventsAre ==
    ASSUME NEW bytes \in Seq(Bytes), Len(bytes) > 0
    PROVE  /\ AsEvents(bytes) \in Seq(OutEvents) /\ Len(AsEvents(bytes)) \in Nat \ {0}
           /\ \A n \in 1 .. Len(AsEvents(bytes)), k \in 1 .. EVENT_BYTES :
                  AsEvents(bytes)[n][k] = IF (n - 1) * EVENT_BYTES + k <= Len(bytes)
                                          THEN bytes[(n - 1) * EVENT_BYTES + k] ELSE "0"
           /\ Len(bytes) <= Len(AsEvents(bytes)) * EVENT_BYTES
           /\ \A n \in 0 .. Len(AsEvents(bytes)) - 1 : n * EVENT_BYTES < Len(bytes)
  <1>1. EVENT_BYTES \in Nat \ {0} /\ Len(bytes) \in Nat
    BY EventBytes, LenProperties
  <1>2. PICK L \in Nat, E \in Nat : L = Len(bytes) /\ E = EVENT_BYTES /\ L > 0 /\ E > 0
    BY <1>1
  <1>3. PICK N : N = (L + E - 1) \div E
    OBVIOUS
  <1>4. N \in Nat /\ E * N <= L + E - 1 /\ L + E - 1 < E * N + E
    <2>1. L + E - 1 \in Nat /\ E \in Nat \ {0}
      BY <1>2
    <2> QED BY <1>3, <2>1, Division
  <1>5. N # 0
    <2>1. N = 0 => E * N = 0
      BY <1>2
    <2> QED BY <1>2, <1>4, <2>1
  <1>6. L <= N * E
    <2>1. N * E = E * N /\ E * N \in Nat
      BY <1>2, <1>4
    <2> QED BY <1>2, <1>4, <2>1
  <1>7. ASSUME NEW n \in 0 .. N - 1 PROVE n * E < L
    <2>1. (n + 1) * E <= N * E
      <3>1. PICK d \in Nat : N = (n + 1) + d
        <4>1. N - (n + 1) \in Nat /\ N = (n + 1) + (N - (n + 1))
          BY <1>4
        <4> QED BY <4>1
      <3>2. ((n + 1) + d) * E = (n + 1) * E + d * E /\ d * E \in Nat
        BY <1>2
      <3> QED BY <1>2, <3>1, <3>2
    <2>2. (n + 1) * E = n * E + E /\ n * E \in Nat /\ N * E = E * N /\ E * N \in Nat
      BY <1>2, <1>4
    <2> QED BY <1>2, <1>4, <2>1, <2>2
  <1> DEFINE V(n) == [k \in 1 .. E |-> IF (n - 1) * E + k <= L THEN bytes[(n - 1) * E + k] ELSE "0"]
  <1>8. AsEvents(bytes) = [n \in 1 .. N |-> V(n)]
    BY <1>2, <1>3 DEF AsEvents
  <1>9. ASSUME NEW n \in 1 .. N PROVE V(n) \in OutEvents
    <2>1. ASSUME NEW k \in 1 .. E, (n - 1) * E + k <= L PROVE bytes[(n - 1) * E + k] \in Bytes
      <3>1. (n - 1) * E \in Nat
        BY <1>2
      <3>2. (n - 1) * E + k \in 1 .. Len(bytes)
        BY <1>2, <2>1, <3>1
      <3> QED BY <3>2, ElementOfSeq
    <2>2. "0" \in Bytes
      BY DEF Bytes
    <2> QED BY <1>2, <2>1, <2>2 DEF OutEvents
  <1>10. /\ AsEvents(bytes) \in Seq(OutEvents) /\ Len(AsEvents(bytes)) = N
         /\ \A n \in 1 .. N : AsEvents(bytes)[n] = V(n)
    <2> HIDE DEF V
    <2> QED BY <1>4, <1>8, <1>9
  <1>11. \A n \in 1 .. N, k \in 1 .. E :
             AsEvents(bytes)[n][k] = IF (n - 1) * E + k <= L THEN bytes[(n - 1) * E + k] ELSE "0"
    BY <1>10
  <1> HIDE DEF V
  <1> QED BY <1>2, <1>4, <1>5, <1>6, <1>7, <1>10, <1>11

\* What begins a sysex and ends it occurs nowhere else in it.
IsSysex(bytes) ==
    /\ bytes \in Seq(Bytes) /\ Len(bytes) > 1 /\ bytes[1] = "SYSEX" /\ bytes[Len(bytes)] = "EOX"
    /\ \A n \in 1 .. Len(bytes) : bytes[n] = "EOX" => n = Len(bytes)
    /\ \A n \in 2 .. Len(bytes) : bytes[n] \notin {"SYSEX", "STATUS", "REALTIME"}

Ready(s, w) ==
    /\ s \in Outs /\ s.err = "pmNoError" /\ ~s.inProgress
    /\ s.buffer = <<>> /\ s.list = <<>> /\ s.sent = w

\* n events of a sysex were written after w.
Reached(s, w, bytes, n) ==
    IF n = 0 THEN Ready(s, w)
    ELSE Open(s, w \o bytes, Cut(w \o bytes, Len(w) + n * EVENT_BYTES))

\* Where the bytes of the event n + 1 are in all that is written.
LEMMA SysexEvent ==
    ASSUME NEW w \in Seq(Bytes), NEW bytes, IsSysex(bytes), NEW n \in 0 .. Len(AsEvents(bytes)) - 1
    PROVE  /\ n * EVENT_BYTES \in Nat /\ n * EVENT_BYTES < Len(bytes)
           /\ IsEventOf(AsEvents(bytes)[n + 1], w \o bytes, Len(w) + n * EVENT_BYTES)
           /\ AsEvents(bytes)[n + 1] \in OutEvents
           /\ AsEvents(bytes)[n + 1][1] = bytes[n * EVENT_BYTES + 1]
  <1> DEFINE event == AsEvents(bytes)[n + 1]
  <1>1. bytes \in Seq(Bytes) /\ Len(bytes) > 1 /\ Len(bytes) \in Nat /\ Len(w) \in Nat
    BY LenProperties DEF IsSysex
  <1>2. PICK W \in Nat, L \in Nat, E \in Nat : W = Len(w) /\ L = Len(bytes) /\ E = EVENT_BYTES /\ E > 1 /\ L > 1
    BY <1>1, EventBytes
  <1>3. PICK full \in Seq(Bytes) : full = w \o bytes
    BY <1>1, ConcatProperties
  <1>4. Len(full) = W + L /\ \A i \in 1 .. L : full[W + i] = bytes[i]
    <2>1. /\ Len(w \o bytes) = Len(w) + Len(bytes)
          /\ \A i \in 1 .. Len(w) + Len(bytes) : (w \o bytes)[i] =
                 IF i <= Len(w) THEN w[i] ELSE bytes[i - Len(w)]
      BY <1>1, ConcatProperties
    <2>2. Len(full) = W + L /\ \A i \in 1 .. W + L : full[i] = IF i <= W THEN w[i] ELSE bytes[i - W]
      BY <1>2, <1>3, <2>1
    <2>3. \A i \in 1 .. L : W + i \in 1 .. W + L /\ ~(W + i <= W) /\ (W + i) - W = i
      BY <1>2
    <2> QED BY <2>2, <2>3
  <1>5. /\ AsEvents(bytes) \in Seq(OutEvents) /\ Len(AsEvents(bytes)) \in Nat
        /\ \A i \in 1 .. Len(AsEvents(bytes)), k \in 1 .. EVENT_BYTES :
               AsEvents(bytes)[i][k] = IF (i - 1) * EVENT_BYTES + k <= Len(bytes)
                                       THEN bytes[(i - 1) * EVENT_BYTES + k] ELSE "0"
        /\ \A i \in 0 .. Len(AsEvents(bytes)) - 1 : i * EVENT_BYTES < Len(bytes)
    <2>1. Len(bytes) > 0
      BY <1>1
    <2> QED BY <1>1, <2>1, EventsAre
  <1>6. PICK from \in Nat : from = n * E /\ from < L
    <2>1. n * E \in Nat /\ n * E < L
      BY <1>2, <1>5
    <2> QED BY <2>1
  <1>7. n + 1 \in 1 .. Len(AsEvents(bytes)) /\ (n + 1) - 1 = n
    BY <1>5
  <1>8. event \in OutEvents
    BY <1>5, <1>7, ElementOfSeq
  <1>9. event \in Seq(Bytes) /\ Len(event) = E
    BY <1>2, <1>8, OutEventIs
  <1>10. \A k \in 1 .. E : event[k] = IF from + k <= L THEN bytes[from + k] ELSE "0"
    BY <1>2, <1>5, <1>6, <1>7
  <1> HIDE DEF event
  <1>11. ASSUME NEW k \in 1 .. E, (W + from) + k <= W + L PROVE event[k] = full[(W + from) + k]
    <2>1. from + k \in 1 .. L /\ (W + from) + k = W + (from + k)
      BY <1>11
    <2> QED BY <1>4, <1>10, <2>1
  <1>12. ASSUME NEW i \in (W + from) + 1 .. W + L PROVE full[i] = "EOX" <=> i = W + L
    <2>1. PICK j \in 1 .. L : i = W + j
      <3>1. i - W \in 1 .. L /\ i = W + (i - W)
        OBVIOUS
      <3> QED BY <3>1
    <2>2. full[i] = bytes[j]
      BY <1>4, <2>1
    <2>3. bytes[j] = "EOX" <=> j = L
      BY <1>2 DEF IsSysex
    <2> QED BY <2>1, <2>2, <2>3
  <1>13. IsEventOf(event, full, W + from)
    <2>1. W + from \in 0 .. Len(full) /\ Len(full) = W + L /\ Len(event) = E
      BY <1>4, <1>6, <1>9
    <2>2. \A k \in 1 .. Len(event) : (W + from) + k <= Len(full) => event[k] = full[(W + from) + k]
      BY <1>11, <2>1
    <2>3. \A i \in (W + from) + 1 .. Len(full) : full[i] = "EOX" <=> i = Len(full)
      BY <1>12, <2>1
    <2> QED BY <1>9, <2>1, <2>2, <2>3, Zenon DEF IsEventOf
  <1>14. event[1] = bytes[from + 1]
    <2>1. 1 \in 1 .. E /\ from + 1 <= L
      BY <1>2, <1>6
    <2> QED BY <1>10, <2>1
  <1> QED BY <1>2, <1>3, <1>6, <1>8, <1>13, <1>14 DEF event

LEMMA EventTakenReaches ==
    ASSUME NEW w \in Seq(Bytes), NEW bytes, IsSysex(bytes), NEW n \in 0 .. Len(AsEvents(bytes)) - 1,
           NEW s, Reached(s, w, bytes, n), NEW fails \in BOOLEAN
    PROVE  Reached(EventTaken(s, AsEvents(bytes)[n + 1], fails), w, bytes, n + 1)
  <1>1. PICK event : event = AsEvents(bytes)[n + 1]
    OBVIOUS
  <1>2. PICK W \in Nat, L \in Nat, E \in Nat : W = Len(w) /\ L = Len(bytes) /\ E = EVENT_BYTES /\ E > 1 /\ L > 1
    <2>1. bytes \in Seq(Bytes) /\ Len(bytes) > 1
      BY DEF IsSysex
    <2> QED BY <2>1, EventBytes, LenProperties
  <1>3. PICK full \in Seq(Bytes) : full = w \o bytes
    <2>1. bytes \in Seq(Bytes)
      BY DEF IsSysex
    <2> QED BY <2>1, ConcatProperties
  <1>4. PICK from \in Nat : from = n * E /\ from < L
    BY <1>2, SysexEvent
  <1>5. IsEventOf(event, full, W + from) /\ event \in OutEvents /\ event[1] = bytes[from + 1]
    BY <1>1, <1>2, <1>3, <1>4, SysexEvent
  <1>6. Len(event) = E /\ Len(full) = W + L /\ W + from \in 0 .. Len(full)
    <2>1. bytes \in Seq(Bytes) /\ Len(w \o bytes) = Len(w) + Len(bytes)
      BY ConcatProperties DEF IsSysex
    <2>2. Len(event) = E
      BY <1>2, <1>5, OutEventIs
    <2>3. Len(full) = W + L
      BY <1>2, <1>3, <2>1
    <2> QED BY <1>4, <2>2, <2>3
  <1>7. (n + 1) * E = from + E /\ n + 1 # 0 /\ n + 1 \in Nat /\ n \in Nat
    BY <1>2, <1>4
  <1> SUFFICES Open(EventTaken(s, event, fails), full, Cut(full, W + from + E))
    <2>1. Len(w) + (n + 1) * EVENT_BYTES = W + from + E
      <3>1. PICK k \in Nat : k = (n + 1) * E /\ k = from + E
        BY <1>7
      <3>2. W + k = W + from + E
        BY <3>1
      <3> QED BY <1>2, <3>1, <3>2
    <2> QED BY <1>1, <1>3, <1>7, <2>1 DEF Reached
  <1>8. ASSUME NEW t, Open(t, full, W + from)
        PROVE  Open(SysexBytes(t, event, fails), full, Cut(full, W + from + E))
    BY <1>5, <1>6, <1>8, SysexBytesOpen
  <1>9. CASE n = 0
    <2>1. Ready(s, w) /\ from = 0 /\ event[1] = "SYSEX"
      BY <1>2, <1>4, <1>5, <1>9 DEF Reached, IsSysex
    <2>2. PICK t : t = [s EXCEPT !.inProgress = TRUE, !.buffer = <<>>]
      OBVIOUS
    <2>3. /\ t \in Outs /\ t.inProgress /\ t.buffer = <<>> /\ t.list = s.list /\ t.sent = s.sent
          /\ t.err = "pmNoError"
      BY <2>1, <2>2, EmptySeq DEF Ready, Outs
    <2>4. EventTaken(s, event, fails) = SysexBytes(t, event, fails)
      BY <2>1, <2>2 DEF EventTaken, WriteEvent, Ready
    <2>5. Whole(t) = w
      <3>1. t.buffer = <<>> /\ t.list = <<>> /\ t.sent = w
        BY <2>1, <2>3 DEF Ready
      <3>2. w \o <<>> = w
        BY ConcatEmptySeq
      <3> QED BY <3>1, <3>2 DEF Whole, Handed
    <2>6. Covers(w, full, W)
      <3>1. \A i \in 1 .. W : full[i] = w[i]
        <4>1. bytes \in Seq(Bytes)
          BY DEF IsSysex
        <4>2. \A i \in 1 .. Len(w) + Len(bytes) : (w \o bytes)[i] =
                  IF i <= Len(w) THEN w[i] ELSE bytes[i - Len(w)]
          BY <4>1, ConcatProperties
        <4>3. \A i \in 1 .. W : i \in 1 .. W + L /\ i <= W
          OBVIOUS
        <4> QED BY <1>2, <1>3, <4>2, <4>3
      <3> QED BY <1>2, <3>1 DEF Covers
    <2>7. W + from = W /\ W < Len(full)
      BY <1>2, <1>6, <2>1
    <2>8. Open(t, full, W + from)
      BY <2>3, <2>5, <2>6, <2>7 DEF Open
    <2> QED BY <1>8, <2>4, <2>8
  <1>10. CASE n # 0
    <2>1. Open(s, full, W + from)
      <3>1. Cut(full, W + from) = W + from
        BY <1>6 DEF Cut
      <3> QED BY <1>2, <1>3, <1>4, <1>10, <3>1 DEF Reached
    <2>2. CASE s.err # "pmNoError"
      BY <2>1, <2>2 DEF EventTaken, Open
    <2>3. CASE s.err = "pmNoError"
      <3>1. W + from < Len(full)
        BY <1>4, <1>6
      <3>2. s.inProgress
        BY <2>1, <2>3, <3>1, Zenon DEF Open
      <3>3. event[1] \notin {"SYSEX", "STATUS", "REALTIME"}
        <4>1. n >= 1 /\ n * E >= E
          <5>1. PICK d \in Nat : n = 1 + d
            <6>1. n - 1 \in Nat /\ n = 1 + (n - 1)
              BY <1>7, <1>10
            <6> QED BY <6>1
          <5>2. (1 + d) * E = E + d * E /\ d * E \in Nat
            BY <1>2
          <5> QED BY <1>2, <5>1, <5>2
        <4>2. from + 1 \in 2 .. L
          BY <1>2, <1>4, <4>1
        <4> QED BY <1>2, <1>5, <4>2 DEF IsSysex
      <3>4. EventTaken(s, event, fails) = SysexBytes(s, event, fails)
        BY <2>3, <3>2, <3>3 DEF EventTaken, WriteEvent
      <3> QED BY <1>8, <2>1, <3>4
    <2> QED BY <2>2, <2>3
  <1> QED BY <1>9, <1>10

\* Nothing is held back when the sysex is complete.
LEMMA FlushedReaches ==
    ASSUME NEW w \in Seq(Bytes), NEW bytes, IsSysex(bytes), NEW n \in 1 .. Len(AsEvents(bytes)),
           NEW s, Reached(s, w, bytes, n), NEW fails \in BOOLEAN
    PROVE  /\ Reached(Flushed(s, fails), w, bytes, n)
           /\ Flushed(s, fails).err = "pmNoError" /\ ~Flushed(s, fails).inProgress => Flushed(s, fails).list = <<>>
  <1>1. PICK full, m : full = w \o bytes /\ m = Cut(full, Len(w) + n * EVENT_BYTES)
    OBVIOUS
  <1>2. n # 0 /\ full \in Seq(Bytes) /\ m \in 0 .. Len(full)
    <2>1. bytes \in Seq(Bytes) /\ Len(bytes) > 1
      BY DEF IsSysex
    <2>2. n \in Nat /\ n # 0
      <3>1. Len(AsEvents(bytes)) \in Nat
        <4>1. Len(bytes) > 0 /\ Len(bytes) \in Nat
          BY <2>1, LenProperties
        <4> QED BY <2>1, <4>1, EventsAre
      <3> QED BY <3>1
    <2>3. full \in Seq(Bytes)
      BY <1>1, <2>1, ConcatProperties
    <2>4. Len(w) + n * EVENT_BYTES \in Nat /\ Len(full) \in Nat
      <3>1. n * EVENT_BYTES \in Nat
        BY <2>2, EventBytes
      <3> QED BY <2>3, <3>1, LenProperties
    <2> QED BY <1>1, <2>2, <2>3, <2>4 DEF Cut
  <1>3. Open(s, full, m)
    BY <1>1, <1>2 DEF Reached
  <1>4. PICK t : t = Flushed(s, fails)
    OBVIOUS
  <1>5. Open(t, full, m) /\ (t.err = "pmNoError" /\ ~t.inProgress => t.list = <<>>)
    <2>1. CASE ~(s.err = "pmNoError" /\ ~s.inProgress)
      <3>1. t = s
        BY <1>4, <2>1 DEF Flushed
      <3> QED BY <1>3, <2>1, <3>1
    <2>2. CASE s.err = "pmNoError" /\ ~s.inProgress
      <3>1. s \in Outs /\ Covers(Whole(s), full, m) /\ s.buffer = <<>> /\ (s.inProgress <=> m < Len(full))
        BY <1>3, <2>2, Zenon DEF Open
      <3>2. Flushes(s, t)
        BY <1>4, <2>2, <3>1, FlushSends DEF Flushed
      <3>3. IsPrefixOf(s.sent, full)
        BY <1>2, <3>1, SentIsPrefix
      <3>4. t \in Outs /\ t.inProgress = s.inProgress /\ t.buffer = <<>> /\ t.list = <<>>
        BY <3>1, <3>2 DEF Flushes
      <3>5. CASE t.err # "pmNoError"
        <4>1. t.sent = s.sent
          BY <3>2, <3>5 DEF Flushes
        <4> QED BY <3>3, <3>4, <3>5, <4>1 DEF Open
      <3>6. CASE t.err = "pmNoError"
        <4>1. t.sent = Handed(s) /\ Handed(s) \in Seq(Bytes)
          BY <3>1, <3>2, <3>6, OutFields DEF Flushes
        <4>2. Whole(s) = Handed(s) /\ Whole(t) = Handed(s)
          <5>1. Handed(s) \o <<>> = Handed(s)
            BY <4>1, ConcatEmptySeq
          <5> QED BY <3>1, <3>4, <4>1, <5>1 DEF Whole, Handed
        <4>3. Covers(Whole(t), full, m)
          BY <3>1, <4>2
        <4>4. t.inProgress <=> m < Len(full)
          BY <3>1, <3>4, Zenon
        <4> QED BY <3>4, <3>6, <4>3, <4>4, Zenon DEF Open
      <3> QED BY <3>5, <3>6
    <2> QED BY <2>1, <2>2
  <1> QED BY <1>1, <1>2, <1>4, <1>5 DEF Reached

\* A call with the events from i + 1 to j of a sysex.
LEMMA Pm_WriteReaches ==
    ASSUME NEW w \in Seq(Bytes), NEW bytes, IsSysex(bytes),
           NEW i \in Nat, NEW j \in Nat, i < j, j <= Len(AsEvents(bytes)),
           NEW s, Reached(s, w, bytes, i), NEW fails \in BOOLEAN
    PROVE  LET t == Pm_Write(s, SubSeq(AsEvents(bytes), i + 1, j), fails)
           IN  Reached(t, w, bytes, j) /\ (t.err = "pmNoError" /\ ~t.inProgress => t.list = <<>>)
  <1>1. PICK all : all = AsEvents(bytes)
    OBVIOUS
  <1>2. all \in Seq(OutEvents) /\ Len(all) \in Nat
    <2>1. bytes \in Seq(Bytes) /\ Len(bytes) > 1
      BY DEF IsSysex
    <2>2. Len(bytes) > 0
      BY <2>1, LenProperties
    <2> QED BY <1>1, <2>1, <2>2, EventsAre
  <1>3. PICK events : events = SubSeq(all, i + 1, j)
    OBVIOUS
  <1>4. PICK N \in Nat : N = j - i /\ N > 0
    <2>1. j - i \in Nat /\ j - i > 0
      OBVIOUS
    <2> QED BY <2>1
  <1>5. events \in Seq(OutEvents) /\ Len(events) = N /\ \A n \in 1 .. N : events[n] = all[i + n]
    <2>1. \A k \in i + 1 .. j : all[k] \in OutEvents
      <3>1. \A k \in i + 1 .. j : k \in 1 .. Len(all)
        BY <1>1, <1>2
      <3> QED BY <1>2, <3>1, ElementOfSeq
    <2>2. /\ events \in Seq(OutEvents) /\ Len(events) = (IF i + 1 <= j THEN j - (i + 1) + 1 ELSE 0)
          /\ \A n \in 1 .. j - (i + 1) + 1 : events[n] = all[(i + 1) + n - 1]
      BY <1>3, <2>1, SubSeqProperties
    <2>3. \A n \in 1 .. N : n \in 1 .. j - (i + 1) + 1 /\ (i + 1) + n - 1 = i + n
      BY <1>4
    <2> QED BY <1>4, <2>2, <2>3
  <1>6. s \in Outs
    BY DEF Reached, Ready, Open
  <1>7. PICK f : IsWriteRun(f, s, events, fails) /\ Pm_Write(s, events, fails) = Flushed(f[Len(events)], fails)
    BY <1>5, <1>6, Pm_WriteIs
  <1> DEFINE G == {n \in 0 .. N : Reached(f[n], w, bytes, i + n)}
  <1>8. 0 \in G
    <2>1. f[0] = s /\ i + 0 = i
      BY <1>7 DEF IsWriteRun
    <2> QED BY <1>4, <2>1
  <1>9. ASSUME NEW n \in 0 .. N - 1, n \in G PROVE n + 1 \in G
    <2>1. /\ n + 1 \in 1 .. N /\ (n + 1) - 1 = n /\ i + n \in 0 .. Len(all) - 1 /\ (i + n) + 1 = i + (n + 1)
          /\ n + 1 \in 0 .. N
      BY <1>1, <1>2, <1>4
    <2>2. f[n + 1] = EventTaken(f[n], all[(i + n) + 1], fails)
      <3>1. f[n + 1] = EventTaken(f[(n + 1) - 1], events[n + 1], fails)
        BY <1>5, <1>7, <2>1 DEF IsWriteRun
      <3>2. events[n + 1] = all[(i + n) + 1]
        BY <1>5, <2>1
      <3> QED BY <2>1, <3>1, <3>2
    <2>3. PICK k \in 0 .. Len(all) - 1 : k = i + n
      BY <2>1
    <2>4. Reached(f[n], w, bytes, k)
      BY <1>9, <2>3
    <2>5. Reached(EventTaken(f[n], all[k + 1], fails), w, bytes, k + 1)
      BY <1>1, <2>4, EventTakenReaches
    <2> QED BY <2>1, <2>2, <2>3, <2>5
  <1>10. Reached(f[N], w, bytes, j)
    <2>1. 0 .. N \subseteq G
      <3> HIDE DEF G
      <3> QED BY <1>8, <1>9, Induct
    <2>2. N \in G /\ i + N = j
      BY <1>4, <2>1
    <2> QED BY <2>2
  <1>11. j \in 1 .. Len(AsEvents(bytes))
    BY <1>1, <1>2
  <1>12. PICK t : t = Pm_Write(s, events, fails)
    OBVIOUS
  <1>13. t = Flushed(f[N], fails)
    BY <1>5, <1>7, <1>12
  <1>14. Reached(t, w, bytes, j) /\ (t.err = "pmNoError" /\ ~t.inProgress => t.list = <<>>)
    BY <1>10, <1>11, <1>13, FlushedReaches
  <1> QED BY <1>1, <1>3, <1>12, <1>14

-----------------------------------------------------------------------------
(* The buffers Pm_WriteSysEx cuts the N events of a sysex into: the first  *)
(* n of them hold UpTo(n, N) events.                                       *)

UpTo(n, N) == IF n = 0 THEN 0
              ELSE IF (n - 1) * BUFLEN + 1 < N THEN (n - 1) * BUFLEN + 1
              ELSE N

LEMMA UpToIs ==
    ASSUME NEW N \in Nat \ {0}
    PROVE  /\ \A n \in 0 .. N : UpTo(n, N) \in 0 .. N
           /\ \A n \in 1 .. N : UpTo(n - 1, N) < UpTo(n, N) \/ (UpTo(n - 1, N) = N /\ UpTo(n, N) = N)
           /\ UpTo(0, N) = 0 /\ UpTo(N, N) = N
  <1>1. PICK B \in Nat : B = BUFLEN /\ B > 0
    BY MidiOutputAssumption
  <1>2. ASSUME NEW n \in 1 .. N PROVE (n - 1) * B \in Nat /\ (n - 1) * B >= n - 1
    <2>1. PICK d \in Nat, c \in Nat : d = n - 1 /\ c = B - 1
      <3>1. n - 1 \in Nat /\ B - 1 \in Nat
        BY <1>1
      <3> QED BY <3>1
    <2>2. d * (c + 1) = d * c + d /\ d * c \in Nat /\ B = c + 1
      BY <1>1, <2>1
    <2> QED BY <2>1, <2>2
  <1>3. \A n \in 0 .. N : UpTo(n, N) \in 0 .. N
    <2> SUFFICES ASSUME NEW n \in 1 .. N PROVE UpTo(n, N) \in 0 .. N
      BY DEF UpTo
    <2>1. PICK P \in Nat : P = (n - 1) * BUFLEN
      BY <1>1, <1>2
    <2>2. UpTo(n, N) = IF P + 1 < N THEN P + 1 ELSE N
      BY <2>1 DEF UpTo
    <2> QED BY <2>2
  <1>4. ASSUME NEW n \in 1 .. N
        PROVE  UpTo(n - 1, N) < UpTo(n, N) \/ (UpTo(n - 1, N) = N /\ UpTo(n, N) = N)
    <2>1. PICK P \in Nat : P = (n - 1) * BUFLEN
      BY <1>1, <1>2
    <2>2. UpTo(n, N) = IF P + 1 < N THEN P + 1 ELSE N
      BY <2>1 DEF UpTo
    <2>3. CASE n = 1
      <3>1. UpTo(n - 1, N) = 0
        BY <2>3 DEF UpTo
      <3>2. UpTo(n, N) \in Nat /\ UpTo(n, N) > 0
        BY <2>2
      <3>3. PICK u \in Nat, v \in Nat : u = UpTo(n - 1, N) /\ v = UpTo(n, N)
        BY <3>1, <3>2
      <3>4. u < v
        <4>1. u = 0 /\ v > 0
          BY <3>1, <3>2, <3>3
        <4> QED BY <4>1
      <3> QED BY <3>3, <3>4
    <2>4. CASE n # 1
      <3>1. n - 1 \in 1 .. N /\ n - 1 # 0
        BY <2>4
      <3>2. PICK R \in Nat : R = ((n - 1) - 1) * BUFLEN
        BY <1>1, <1>2, <3>1
      <3>3. UpTo(n - 1, N) = IF R + 1 < N THEN R + 1 ELSE N
        BY <3>1, <3>2 DEF UpTo
      <3>4. P = R + B
        <4>1. PICK e \in Nat : e = (n - 1) - 1
          BY <3>1
        <4>2. (e + 1) * B = e * B + B
          BY <1>1
        <4>3. n - 1 = e + 1
          BY <4>1
        <4>4. P = (e + 1) * B /\ R = e * B
          BY <1>1, <2>1, <3>2, <4>1, <4>3
        <4> QED BY <4>2, <4>4
      <3>5. PICK u \in Nat, v \in Nat : u = UpTo(n - 1, N) /\ v = UpTo(n, N)
        <4>1. n - 1 \in 0 .. N /\ n \in 0 .. N
          OBVIOUS
        <4>2. UpTo(n - 1, N) \in 0 .. N /\ UpTo(n, N) \in 0 .. N
          BY <1>3, <4>1
        <4> QED BY <4>2
      <3>6. u = (IF R + 1 < N THEN R + 1 ELSE N) /\ v = (IF P + 1 < N THEN P + 1 ELSE N)
        BY <2>2, <3>3, <3>5
      <3>7. u < v \/ (u = N /\ v = N)
        <4>1. N \in Nat
          OBVIOUS
        <4>2. CASE P + 1 < N
          <5>1. v = P + 1 /\ u = R + 1
            BY <1>1, <3>4, <3>6, <4>1, <4>2
          <5> QED BY <1>1, <3>4, <5>1
        <4>3. CASE ~(P + 1 < N)
          <5>1. v = N
            BY <3>6, <4>3
          <5> QED BY <3>6, <4>1, <5>1
        <4> QED BY <4>2, <4>3
      <3> QED BY <3>5, <3>7
    <2> QED BY <2>3, <2>4
  <1>5. UpTo(N, N) = N
    <2>1. N \in 1 .. N
      OBVIOUS
    <2>2. PICK P \in Nat : P = (N - 1) * BUFLEN /\ P >= N - 1
      BY <1>1, <1>2, <2>1
    <2>3. UpTo(N, N) = IF P + 1 < N THEN P + 1 ELSE N
      BY <2>2 DEF UpTo
    <2> QED BY <2>2, <2>3
  <1> QED BY <1>3, <1>4, <1>5 DEF UpTo

BufferTaken(s, events, n, fails) ==
    IF s.err # "pmNoError" \/ UpTo(n - 1, Len(events)) = Len(events) THEN s
    ELSE Pm_Write(s, SubSeq(events, UpTo(n - 1, Len(events)) + 1, UpTo(n, Len(events))), fails)
IsSysexWriteRun(f, s, events, fails) ==
    /\ f[0] = s
    /\ \A n \in 1 .. Len(events) : f[n] = BufferTaken(f[n - 1], events, n, fails)

LEMMA Pm_WriteSysExIs ==
    ASSUME NEW s \in Outs, NEW bytes, AsEvents(bytes) \in Seq(OutEvents), AsEvents(bytes) # <<>>,
           NEW fails \in BOOLEAN
    PROVE  \E f : /\ IsSysexWriteRun(f, s, AsEvents(bytes), fails)
                  /\ Pm_WriteSysEx(s, bytes, fails) = f[Len(AsEvents(bytes))]
  <1>0. PICK events : events = AsEvents(bytes)
    OBVIOUS
  <1> DEFINE N == Len(events)
             step == [p \in Outs \X (1 .. N) |-> BufferTaken(p[1], events, p[2], fails)]
             Q(h) == h = [n \in 0 .. N |->
                              IF n = 0 THEN s
                              ELSE LET t == h[n - 1]
                                   IN  IF t.err # "pmNoError" \/ UpTo(n - 1, N) = N THEN t
                                       ELSE Pm_Write(t, SubSeq(events, UpTo(n - 1, N) + 1, UpTo(n, N)), fails)]
             ch == CHOOSE h : Q(h)
  <1>1. N \in Nat \ {0} /\ \A n \in 1 .. N : events[n] \in OutEvents
    BY <1>0, EmptySeq, ElementOfSeq
  <1>2. \A v \in Outs, n \in 1 .. N : step[<<v, n>>] = BufferTaken(v, events, n, fails)
    OBVIOUS
  <1>3. step \in Steps(Outs, N)
    <2>1. ASSUME NEW v \in Outs, NEW n \in 1 .. N PROVE BufferTaken(v, events, n, fails) \in Outs
      <3>1. PICK i \in 0 .. N, j \in 0 .. N : i = UpTo(n - 1, N) /\ j = UpTo(n, N)
        <4>1. n - 1 \in 0 .. N /\ n \in 0 .. N
          BY <1>1
        <4> HIDE DEF N
        <4> QED BY <1>1, <4>1, UpToIs
      <3>2. SubSeq(events, i + 1, j) \in Seq(OutEvents)
        <4>1. \A k \in i + 1 .. j : events[k] \in OutEvents
          BY <1>1
        <4> QED BY <1>1, <4>1, SubSeqProperties
      <3> QED BY <3>1, <3>2, Pm_WriteType DEF BufferTaken
    <2>2. ASSUME NEW q \in Outs \X (1 .. N) PROVE step[q] \in Outs
      <3>1. q[1] \in Outs /\ q[2] \in 1 .. N
        OBVIOUS
      <3>2. step[q] = BufferTaken(q[1], events, q[2], fails)
        OBVIOUS
      <3> HIDE DEF step
      <3> QED BY <2>1, <3>1, <3>2
    <2> HIDE DEF N
    <2> QED BY <2>2 DEF Steps
  <1> HIDE DEF step
  <1>4. PICK f : IsRun(f, Outs, N, s, step)
    <2> HIDE DEF N
    <2> QED BY <1>1, <1>3, Iterate
  <1>5. f \in [0 .. N -> Outs] /\ f[0] = s /\ \A n \in 1 .. N : f[n] = BufferTaken(f[n - 1], events, n, fails)
    <2>1. ASSUME NEW n \in 1 .. N PROVE f[n] = BufferTaken(f[n - 1], events, n, fails)
      <3>0. n - 1 \in 0 .. N
        BY <1>1
      <3>1. f[n] = step[<<f[n - 1], n>>] /\ f[n - 1] \in Outs
        BY <1>4, <3>0 DEF IsRun
      <3> HIDE DEF N
      <3> QED BY <1>2, <3>1
    <2> QED BY <1>4, <2>1 DEF IsRun
  <1>6. Q(f)
    <2>1. \A n \in 0 .. N : f[n] = IF n = 0 THEN s
                                   ELSE LET t == f[n - 1]
                                        IN  IF t.err # "pmNoError" \/ UpTo(n - 1, N) = N THEN t
                                            ELSE Pm_Write(t, SubSeq(events, UpTo(n - 1, N) + 1, UpTo(n, N)), fails)
      <3> SUFFICES ASSUME NEW n \in 0 .. N, n # 0 PROVE f[n] = BufferTaken(f[n - 1], events, n, fails)
        BY <1>5 DEF BufferTaken
      <3>1. n \in 1 .. N
        BY <1>1
      <3> QED BY <1>5, <3>1
    <2>2. f = [n \in 0 .. N |-> f[n]]
      BY <1>5
    <2> HIDE DEF N
    <2> QED BY <2>1, <2>2
  <1>7. Q(ch)
    BY <1>6
  <1>8. Pm_WriteSysEx(s, bytes, fails) = ch[N]
    BY <1>0 DEF Pm_WriteSysEx, UpTo
  <1> HIDE DEF ch
  <1>9. ch = f
    <2>1. \A n \in 0 .. N : ch[n] = IF n = 0 THEN s ELSE BufferTaken(ch[n - 1], events, n, fails)
      BY <1>7 DEF BufferTaken
    <2>2. ASSUME NEW n \in 0 .. N - 1, ch[n] = f[n] PROVE ch[n + 1] = f[n + 1]
      <3>1. n + 1 \in 1 .. N /\ n + 1 \in 0 .. N /\ n + 1 # 0 /\ (n + 1) - 1 = n
        BY <1>1
      <3>2. ch[n + 1] = BufferTaken(ch[(n + 1) - 1], events, n + 1, fails)
        BY <2>1, <3>1
      <3>3. f[n + 1] = BufferTaken(f[(n + 1) - 1], events, n + 1, fails)
        BY <1>5, <3>1
      <3> QED BY <2>2, <3>1, <3>2, <3>3
    <2>3. DOMAIN ch = 0 .. N /\ ch = [n \in DOMAIN ch |-> ch[n]]
      BY <1>7
    <2>4. ch[0] = f[0]
      BY <1>1, <1>5, <2>1
    <2>5. IsOn(ch, N) /\ IsOn(f, N)
      BY <1>5, <2>3 DEF IsOn
    <2>6. GoAlike(ch, f, N)
      BY <2>2 DEF GoAlike
    <2>7. N \in Nat
      BY <1>1
    <2> HIDE DEF N
    <2> QED BY <2>4, <2>5, <2>6, <2>7, SameRun
  <1> QED BY <1>0, <1>5, <1>8, <1>9 DEF IsSysexWriteRun

-----------------------------------------------------------------------------
(* Calls of the application.                                               *)

\* A call that writes bytes, after w: all of it is sent, or there is an error.
Writes(t, w, bytes) ==
    /\ t \in Outs
    /\ t.err = "pmNoError" => Ready(t, w \o bytes)
    /\ t.err # "pmNoError" => IsPrefixOf(t.sent, w \o bytes)

LEMMA SysexIsWritten ==
    ASSUME NEW w \in Seq(Bytes), NEW bytes, IsSysex(bytes), NEW s, Ready(s, w), NEW fails \in BOOLEAN
    PROVE  Writes(Pm_WriteSysEx(s, bytes, fails), w, bytes)
  <1>1. bytes \in Seq(Bytes) /\ Len(bytes) > 1 /\ Len(bytes) > 0 /\ Len(bytes) \in Nat /\ Len(w) \in Nat /\ s \in Outs
    BY LenProperties DEF IsSysex, Ready
  <1>2. PICK events : events = AsEvents(bytes)
    OBVIOUS
  <1>3. events \in Seq(OutEvents) /\ Len(events) \in Nat \ {0} /\ Len(bytes) <= Len(events) * EVENT_BYTES
    BY <1>1, <1>2, EventsAre
  <1>4. PICK N \in Nat \ {0} : N = Len(events)
    BY <1>3
  <1>5. events # <<>>
    BY <1>3, EmptySeq
  <1>6. PICK f : IsSysexWriteRun(f, s, events, fails) /\ Pm_WriteSysEx(s, bytes, fails) = f[N]
    BY <1>1, <1>2, <1>3, <1>4, <1>5, Pm_WriteSysExIs
  <1> DEFINE Good(t, i) == /\ Reached(t, w, bytes, i)
                           /\ t.err = "pmNoError" /\ ~t.inProgress => t.list = <<>>
             G == {n \in 0 .. N : Good(f[n], UpTo(n, N))}
  <1>7. 0 \in G
    <2>1. f[0] = s /\ UpTo(0, N) = 0 /\ s.list = <<>>
      BY <1>6 DEF IsSysexWriteRun, UpTo, Ready
    <2> QED BY <2>1 DEF Reached
  <1>8. ASSUME NEW n \in 0 .. N - 1, n \in G PROVE n + 1 \in G
    <2>1. n + 1 \in 1 .. N /\ (n + 1) - 1 = n /\ n + 1 \in 0 .. N /\ n \in 0 .. N
      BY <1>4
    <2>2. UpTo(n, N) \in 0 .. N /\ UpTo(n + 1, N) \in 0 .. N
      BY <2>1, UpToIs
    <2>3. UpTo((n + 1) - 1, N) < UpTo(n + 1, N) \/ (UpTo((n + 1) - 1, N) = N /\ UpTo(n + 1, N) = N)
      BY <2>1, UpToIs
    <2>4. PICK i \in 0 .. N, j \in 0 .. N : i = UpTo(n, N) /\ j = UpTo(n + 1, N)
      BY <2>2
    <2>5. i < j \/ (i = N /\ j = N)
      BY <2>1, <2>3, <2>4
    <2>6. f[n + 1] = BufferTaken(f[n], events, n + 1, fails)
      <3>1. f[n + 1] = BufferTaken(f[(n + 1) - 1], events, n + 1, fails)
        BY <1>4, <1>6, <2>1 DEF IsSysexWriteRun
      <3> QED BY <2>1, <3>1
    <2>7. PICK t, u : t = f[n] /\ u = f[n + 1]
      OBVIOUS
    <2>8. u = IF t.err # "pmNoError" \/ i = N THEN t ELSE Pm_Write(t, SubSeq(events, i + 1, j), fails)
      <3>1. BufferTaken(t, events, n + 1, fails) =
                IF t.err # "pmNoError" \/ UpTo((n + 1) - 1, N) = N THEN t
                ELSE Pm_Write(t, SubSeq(events, UpTo((n + 1) - 1, N) + 1, UpTo(n + 1, N)), fails)
        BY <1>4 DEF BufferTaken
      <3> QED BY <2>1, <2>4, <2>6, <2>7, <3>1
    <2>9. Good(t, i)
      BY <1>8, <2>4, <2>7
    <2>10. Good(u, j)
      <3>1. CASE i = N
        BY <2>5, <2>8, <2>9, <3>1
      <3>2. CASE t.err # "pmNoError" /\ i # N
        <4>1. u = t /\ j # 0
          BY <2>5, <2>8, <3>2
        <4>2. i # 0
          BY <2>9, <3>2 DEF Reached, Ready
        <4>3. Open(t, w \o bytes, Cut(w \o bytes, Len(w) + j * EVENT_BYTES))
          BY <2>9, <3>2, <4>2 DEF Reached, Open
        <4> QED BY <3>2, <4>1, <4>3 DEF Reached
      <3>3. CASE t.err = "pmNoError" /\ i # N
        <4>1. u = Pm_Write(t, SubSeq(AsEvents(bytes), i + 1, j), fails)
          BY <1>2, <2>8, <3>3
        <4>2. i < j /\ i \in Nat /\ j \in Nat /\ j <= Len(AsEvents(bytes))
          BY <1>2, <1>4, <2>5, <3>3
        <4> QED BY <2>9, <4>1, <4>2, Pm_WriteReaches
      <3> QED BY <3>1, <3>2, <3>3
    <2> HIDE DEF Good
    <2> QED BY <2>1, <2>4, <2>7, <2>10
  <1>9. Good(f[N], N)
    <2>1. 0 .. N \subseteq G
      <3> HIDE DEF G
      <3> QED BY <1>7, <1>8, Induct
    <2>2. N \in G
      BY <2>1
    <2>3. UpTo(N, N) = N
      BY UpToIs
    <2> HIDE DEF Good
    <2> QED BY <2>2, <2>3
  <1>10. PICK full \in Seq(Bytes) : full = w \o bytes
    BY <1>1, ConcatProperties
  <1>11. Cut(full, Len(w) + N * EVENT_BYTES) = Len(full)
    <2>1. Len(full) = Len(w) + Len(bytes) /\ Len(bytes) <= N * EVENT_BYTES
      BY <1>1, <1>3, <1>4, <1>10, ConcatProperties
    <2>2. PICK k \in Nat, a \in Nat, b \in Nat : k = N * EVENT_BYTES /\ a = Len(w) /\ b = Len(bytes)
      <3>1. N \in Nat /\ EVENT_BYTES \in Nat
        BY EventBytes
      <3>2. N * EVENT_BYTES \in Nat
        BY <3>1
      <3> QED BY <1>1, <3>2
    <2>3. Len(full) = a + b /\ b <= k
      BY <2>1, <2>2
    <2>4. Cut(full, a + k) = a + b
      BY <2>3 DEF Cut
    <2> QED BY <2>2, <2>3, <2>4
  <1>12. PICK t : t = Pm_WriteSysEx(s, bytes, fails)
    OBVIOUS
  <1>13. Open(t, full, Len(full)) /\ (t.err = "pmNoError" /\ ~t.inProgress => t.list = <<>>)
    BY <1>4, <1>6, <1>9, <1>10, <1>11, <1>12 DEF Reached
  <1>14. ASSUME t.err = "pmNoError" PROVE Ready(t, full)
    <2>1. /\ t \in Outs /\ Covers(Whole(t), full, Len(full)) /\ (t.inProgress <=> Len(full) < Len(full))
          /\ (~t.inProgress => t.buffer = <<>>)
      BY <1>13, <1>14, Zenon DEF Open
    <2>2. ~(Len(full) < Len(full))
      BY <1>10, LenProperties
    <2>3. ~t.inProgress /\ t.buffer = <<>> /\ t.list = <<>>
      BY <1>13, <1>14, <2>1, <2>2, Zenon
    <2>4. t.sent \in Seq(Bytes) /\ Whole(t) = t.sent
      <3>1. t.sent \in Seq(Bytes) /\ t.sent \o <<>> = t.sent
        BY <2>1, OutFields, ConcatEmptySeq
      <3> QED BY <2>3, <3>1 DEF Whole, Handed
    <2>5. t.sent = full
      <3>1. Len(t.sent) = Len(full) /\ \A n \in 1 .. Len(t.sent) : t.sent[n] = full[n]
        BY <2>1, <2>4 DEF Covers
      <3> QED BY <1>10, <2>4, <3>1, SeqEqual
    <2> QED BY <1>14, <2>1, <2>3, <2>5 DEF Ready
  <1> QED BY <1>10, <1>12, <1>13, <1>14 DEF Writes, Open

\* A message that fits into an event, and is as long as its status says.
IsShort(message) ==
    /\ message \in Seq(Bytes) /\ Len(message) = midi_length(message[1])
    /\ message[1] \in {"STATUS", "REALTIME"}

LEMMA ShortIsWritten ==
    ASSUME NEW w \in Seq(Bytes), NEW message, IsShort(message), NEW s, Ready(s, w), NEW fails \in BOOLEAN
    PROVE  Writes(Pm_Write(s, AsEvents(message), fails), w, message)
  <1>0. PICK E \in Nat : E = EVENT_BYTES /\ E > 1
    BY EventBytes
  <1>1. PICK n \in 1 .. E : E = EVENT_BYTES /\ E > 1 /\ n = midi_length(message[1])
    BY <1>0, ShortLength
  <1>2. message \in Seq(Bytes) /\ Len(message) = n /\ Len(message) > 0 /\ s \in Outs /\ s.err = "pmNoError"
    BY <1>1 DEF IsShort, Ready
  <1>3. PICK events : events = AsEvents(message)
    OBVIOUS
  <1>4. /\ events \in Seq(OutEvents) /\ Len(events) \in Nat \ {0}
        /\ \A i \in 1 .. Len(events), k \in 1 .. E :
               events[i][k] = IF (i - 1) * E + k <= n THEN message[(i - 1) * E + k] ELSE "0"
        /\ \A i \in 0 .. Len(events) - 1 : i * E < n
    <2>1. /\ events \in Seq(OutEvents) /\ Len(events) \in Nat \ {0}
          /\ \A i \in 1 .. Len(events), k \in 1 .. EVENT_BYTES :
                 events[i][k] = IF (i - 1) * EVENT_BYTES + k <= Len(message)
                                THEN message[(i - 1) * EVENT_BYTES + k] ELSE "0"
          /\ \A i \in 0 .. Len(events) - 1 : i * EVENT_BYTES < Len(message)
      BY <1>2, <1>3, EventsAre
    <2> QED BY <1>1, <1>2, <2>1
  <1>5. Len(events) = 1
    <2>1. ASSUME Len(events) > 1 PROVE FALSE
      <3>1. 1 \in 0 .. Len(events) - 1
        BY <1>4, <2>1
      <3>2. 1 * E < n /\ 1 * E = E
        BY <1>4, <3>1
      <3>3. n <= E /\ n \in Nat
        BY <1>1
      <3> QED BY <3>2, <3>3
    <2>2. PICK l \in Nat : l = Len(events) /\ l # 0
      BY <1>4
    <2>3. ~ (l > 1)
      BY <2>1, <2>2
    <2>4. l = 1
      BY <2>3, <2>2
    <2> QED BY <2>4, <2>2
  <1>6. PICK event \in OutEvents : event = events[1]
    <2>1. 1 \in 1 .. Len(events)
      BY <1>5
    <2> QED BY <1>4, <2>1, ElementOfSeq
  <1>7. \A k \in 1 .. n : event[k] = message[k]
    <2>1. \A k \in 1 .. n : k \in 1 .. E /\ (1 - 1) * E + k = k /\ k <= n
      OBVIOUS
    <2> QED BY <1>4, <1>5, <1>6, <2>1
  <1>8. event[1] = message[1] /\ midi_length(event[1]) = n
    <2>1. 1 \in 1 .. n
      OBVIOUS
    <2> QED BY <1>1, <1>7, <2>1
  <1>9. SubSeq(event, 1, n) = message
    <2>1. PICK c : c = SubSeq(event, 1, n)
      OBVIOUS
    <2>2. \A k \in 1 .. n : event[k] \in Bytes
      BY <1>2, <1>7, ElementOfSeq
    <2>3. c \in Seq(Bytes) /\ Len(c) = (IF 1 <= n THEN n - 1 + 1 ELSE 0) /\ \A k \in 1 .. n - 1 + 1 : c[k] = event[1 + k - 1]
      BY <2>1, <2>2, SubSeqProperties
    <2>4. Len(c) = n /\ \A k \in 1 .. n : c[k] = event[k]
      BY <2>3
    <2>5. Len(c) = Len(message) /\ \A k \in 1 .. Len(c) : c[k] = message[k]
      BY <1>2, <1>7, <2>4
    <2>6. c = message
      BY <1>2, <2>3, <2>5, SeqEqual
    <2> QED BY <2>1, <2>6
  <1>10. PICK f : IsWriteRun(f, s, events, fails) /\ Pm_Write(s, events, fails) = Flushed(f[Len(events)], fails)
    BY <1>2, <1>4, Pm_WriteIs
  <1>11. PICK u : u = f[1]
    OBVIOUS
  <1>12. Sends(s, message, u)
    <2>1. u = EventTaken(s, event, fails)
      <3>1. 1 \in 1 .. Len(events) /\ 1 - 1 = 0
        BY <1>5
      <3> QED BY <1>6, <1>10, <1>11, <3>1 DEF IsWriteRun
    <2>2. u = WriteEvent(s, event, fails)
      BY <1>2, <2>1 DEF EventTaken
    <2>3. event[1] \in {"STATUS", "REALTIME"} /\ ~s.inProgress
      BY <1>8 DEF IsShort, Ready
    <2>4. u = midi_write_short(s, event, fails)
      BY <2>2, <2>3 DEF WriteEvent
    <2>5. Sends(s, SubSeq(event, 1, midi_length(event[1])), u)
      BY <1>2, <2>4, ShortSends
    <2> QED BY <1>8, <1>9, <2>5
  <1>13. PICK t : t = Flushed(u, fails)
    OBVIOUS
  <1>14. t = Pm_Write(s, AsEvents(message), fails)
    BY <1>3, <1>5, <1>10, <1>11, <1>13
  <1>15. /\ u \in Outs /\ ~u.inProgress /\ u.buffer = <<>> /\ s.sent = w /\ Handed(s) = w
         /\ (u.err = "pmNoError" => Handed(u) = w \o message) /\ (u.err # "pmNoError" => u.sent = w)
    <2>1. Handed(s) = w
      <3>1. w \o <<>> = w
        BY ConcatEmptySeq
      <3> QED BY <3>1 DEF Ready, Handed
    <2>2. ~s.inProgress /\ u.inProgress = s.inProgress
      BY <1>12 DEF Sends, Ready
    <2>3. ~u.inProgress
      BY <2>2, Zenon
    <2> QED BY <1>12, <2>1, <2>3 DEF Sends, Ready
  <1>16. PICK full \in Seq(Bytes) : full = w \o message
    BY <1>2, ConcatProperties
  <1>17. PICK W \in Nat : W = Len(w)
    BY LenProperties
  <1>18. IsPrefixOf(w, full)
    <2>1. /\ Len(w \o message) = Len(w) + Len(message)
          /\ \A i \in 1 .. Len(w) + Len(message) : (w \o message)[i] =
                 IF i <= Len(w) THEN w[i] ELSE message[i - Len(w)]
      BY <1>2, ConcatProperties
    <2>2. \A i \in 1 .. W : i \in 1 .. W + n /\ i <= W
      OBVIOUS
    <2>3. Len(full) = W + n /\ \A i \in 1 .. W : full[i] = w[i]
      BY <1>2, <1>16, <1>17, <2>1, <2>2
    <2> QED BY <1>17, <2>3 DEF IsPrefixOf
  <1>19. CASE u.err # "pmNoError"
    <2>1. t = u
      BY <1>13, <1>19 DEF Flushed
    <2> QED BY <1>14, <1>15, <1>16, <1>18, <1>19, <2>1 DEF Writes
  <1>20. CASE u.err = "pmNoError"
    <2>1. Flushes(u, t)
      BY <1>13, <1>15, <1>20, FlushSends DEF Flushed
    <2>2. t \in Outs /\ t.inProgress = u.inProgress /\ t.buffer = <<>> /\ t.list = <<>>
      BY <1>15, <2>1 DEF Flushes
    <2>3. ~t.inProgress
      BY <1>15, <2>2, Zenon
    <2>4. t.err = "pmNoError" => t.sent = full
      BY <1>15, <1>16, <1>20, <2>1 DEF Flushes
    <2>5. t.err # "pmNoError" => IsPrefixOf(t.sent, full)
      <3>1. t.err # "pmNoError" => t.sent = u.sent
        BY <2>1 DEF Flushes
      <3>2. Covers(Whole(u), full, Len(full))
        <4>1. Whole(u) = full
          <5>1. full \o <<>> = full
            BY <1>16, ConcatEmptySeq
          <5> QED BY <1>15, <1>16, <1>20, <5>1 DEF Whole
        <4> QED BY <4>1 DEF Covers
      <3>3. Len(full) \in 0 .. Len(full)
        BY <1>16, LenProperties
      <3>4. IsPrefixOf(u.sent, full)
        BY <1>15, <1>16, <3>2, <3>3, SentIsPrefix
      <3> QED BY <3>1, <3>4
    <2> QED BY <1>14, <1>16, <2>2, <2>3, <2>4, <2>5 DEF Writes, Ready
  <1> QED BY <1>19, <1>20

LEMMA SysexIs == \A n \in Nat : IsSysex(SysexOf(n))
  <1> SUFFICES ASSUME NEW n \in Nat PROVE IsSysex(SysexOf(n))
    OBVIOUS
  <1>1. PICK first, data, last : /\ first = <<"SYSEX">> /\ last = <<"EOX">>
                                 /\ data = [k \in 1 .. n |-> <<"d0", "d1", "d2">>[(k % 3) + 1]]
    OBVIOUS
  <1>2. first \in Seq(Bytes) /\ last \in Seq(Bytes) /\ Len(first) = 1 /\ Len(last) = 1
    BY <1>1 DEF Bytes
  <1>3. /\ data \in Seq(Bytes) /\ Len(data) = n
        /\ \A k \in 1 .. n : data[k] \in {"d0", "d1", "d2"}
    <2>1. ASSUME NEW k \in 1 .. n PROVE <<"d0", "d1", "d2">>[(k % 3) + 1] \in {"d0", "d1", "d2"}
      <3>1. (k % 3) + 1 \in 1 .. 3
        OBVIOUS
      <3>2. \A i \in 1 .. 3 : <<"d0", "d1", "d2">>[i] \in {"d0", "d1", "d2"}
        OBVIOUS
      <3> QED BY <3>1, <3>2
    <2>2. \A k \in 1 .. n : data[k] \in {"d0", "d1", "d2"}
      BY <1>1, <2>1
    <2>3. data = [k \in 1 .. n |-> data[k]] /\ {"d0", "d1", "d2"} \subseteq Bytes
      BY <1>1 DEF Bytes
    <2> QED BY <2>2, <2>3
  <1>4. PICK begin \in Seq(Bytes) : begin = first \o data
    BY <1>2, <1>3, ConcatProperties
  <1>5. /\ Len(begin) = 1 + n /\ begin[1] = "SYSEX" /\ \A k \in 2 .. n + 1 : begin[k] \in {"d0", "d1", "d2"}
    <2>1. /\ Len(first \o data) = Len(first) + Len(data)
          /\ \A i \in 1 .. Len(first) + Len(data) : (first \o data)[i] =
                 IF i <= Len(first) THEN first[i] ELSE data[i - Len(first)]
      BY <1>2, <1>3, ConcatProperties
    <2>2. Len(begin) = 1 + n /\ \A i \in 1 .. 1 + n : begin[i] = IF i <= 1 THEN first[i] ELSE data[i - 1]
      BY <1>2, <1>3, <1>4, <2>1
    <2>3. 1 \in 1 .. 1 + n /\ \A k \in 2 .. n + 1 : k \in 1 .. 1 + n /\ ~(k <= 1) /\ k - 1 \in 1 .. n
      OBVIOUS
    <2>4. first[1] = "SYSEX"
      BY <1>1
    <2> QED BY <1>3, <2>2, <2>3, <2>4
  <1>6. PICK bytes \in Seq(Bytes) : bytes = begin \o last
    BY <1>2, <1>4, ConcatProperties
  <1>7. /\ Len(bytes) = n + 2 /\ bytes[n + 2] = "EOX" /\ \A k \in 1 .. n + 1 : bytes[k] = begin[k]
    <2>1. /\ Len(begin \o last) = Len(begin) + Len(last)
          /\ \A i \in 1 .. Len(begin) + Len(last) : (begin \o last)[i] =
                 IF i <= Len(begin) THEN begin[i] ELSE last[i - Len(begin)]
      BY <1>2, <1>4, ConcatProperties
    <2>2. Len(bytes) = n + 2 /\ \A i \in 1 .. n + 2 : bytes[i] = IF i <= n + 1 THEN begin[i] ELSE last[i - (n + 1)]
      BY <1>2, <1>5, <1>6, <2>1
    <2>3. /\ n + 2 \in 1 .. n + 2 /\ ~(n + 2 <= n + 1) /\ (n + 2) - (n + 1) = 1
          /\ \A k \in 1 .. n + 1 : k \in 1 .. n + 2 /\ k <= n + 1
      OBVIOUS
    <2>4. last[1] = "EOX"
      BY <1>1
    <2> QED BY <2>2, <2>3, <2>4
  <1>8. bytes[1] = "SYSEX" /\ \A k \in 2 .. n + 1 : bytes[k] \in {"d0", "d1", "d2"}
    <2>1. 1 \in 1 .. n + 1 /\ \A k \in 2 .. n + 1 : k \in 1 .. n + 1
      OBVIOUS
    <2> QED BY <1>5, <1>7, <2>1
  <1>9. \A k \in 1 .. n + 2 : k = 1 \/ k \in 2 .. n + 1 \/ k = n + 2
    OBVIOUS
  <1>10. \A k \in 1 .. n + 2 : bytes[k] = "EOX" => k = n + 2
    BY <1>8, <1>9
  <1>11. \A k \in 2 .. n + 2 : bytes[k] \notin {"SYSEX", "STATUS", "REALTIME"}
    <2>1. \A k \in 2 .. n + 2 : k \in 2 .. n + 1 \/ k = n + 2
      OBVIOUS
    <2> QED BY <1>7, <1>8, <2>1
  <1>12. IsSysex(bytes)
    BY <1>7, <1>8, <1>10, <1>11 DEF IsSysex
  <1> QED BY <1>1, <1>4, <1>6, <1>12 DEF SysexOf

LEMMA ShortsAre == IsShort(<<"STATUS", "d0">>) /\ IsShort(<<"REALTIME">>)
  BY DEF IsShort, midi_length, Bytes

\* Between two calls, and no real-time event having been put into a sysex.
OutputInv ==
    ~nested => /\ written \in Seq(Bytes) /\ midiOut \in Outs
               /\ midiOut.err = "pmNoError" => Ready(midiOut, written)
               /\ midiOut.err # "pmNoError" => IsPrefixOf(midiOut.sent, written)

LEMMA CallKeeps ==
    ASSUME OutputInv, ~nested, nested' = nested, NEW bytes \in Seq(Bytes), NEW s,
           midiOut.err = "pmNoError" => Writes(s, written, bytes), Called(s, bytes)
    PROVE  OutputInv'
  <1>1. /\ midiOut.err = "pmNoError" /\ midiOut' = s /\ written' = written \o bytes
        /\ written \in Seq(Bytes) /\ Writes(s, written, bytes)
    BY DEF Called, OutputInv
  <1>2. written' \in Seq(Bytes)
    BY <1>1, ConcatProperties
  <1> QED BY <1>1, <1>2 DEF OutputInv, Writes, Ready

LEMMA OutputStep == OutputInv /\ [OutputNext]_outputVars => OutputInv'
  <1> SUFFICES ASSUME OutputInv, [OutputNext]_outputVars PROVE OutputInv'
    OBVIOUS
  <1>1. CASE UNCHANGED outputVars
    BY <1>1 DEF OutputInv, outputVars, Ready
  <1>2. ASSUME NEW fails \in BOOLEAN, NEW message \in {<<"STATUS", "d0">>, <<"REALTIME">>},
               WriteShort(message, fails)
        PROVE  OutputInv'
    <2>1. IsShort(message) /\ message \in Seq(Bytes)
      BY ShortsAre DEF IsShort
    <2>2. nested' = nested /\ Called(Pm_Write(midiOut, AsEvents(message), fails), message)
      BY <1>2 DEF WriteShort
    <2>3. CASE nested
      BY <2>2, <2>3 DEF OutputInv
    <2>4. CASE ~nested
      <3>1. midiOut.err = "pmNoError" => Writes(Pm_Write(midiOut, AsEvents(message), fails), written, message)
        BY <2>1, <2>4, ShortIsWritten DEF OutputInv
      <3> QED BY <2>1, <2>2, <2>4, <3>1, CallKeeps
    <2> QED BY <2>3, <2>4
  <1>3. ASSUME NEW fails \in BOOLEAN, NEW n \in 0 .. MaxData, WriteSysEx(n, fails) PROVE OutputInv'
    <2>1. IsSysex(SysexOf(n)) /\ SysexOf(n) \in Seq(Bytes)
      BY SysexIs DEF IsSysex
    <2>2. nested' = nested /\ Called(Pm_WriteSysEx(midiOut, SysexOf(n), fails), SysexOf(n))
      BY <1>3 DEF WriteSysEx
    <2>3. CASE nested
      BY <2>2, <2>3 DEF OutputInv
    <2>4. CASE ~nested
      <3>1. midiOut.err = "pmNoError" => Writes(Pm_WriteSysEx(midiOut, SysexOf(n), fails), written, SysexOf(n))
        BY <2>1, <2>4, SysexIsWritten DEF OutputInv
      <3> QED BY <2>1, <2>2, <2>4, <3>1, CallKeeps
    <2> QED BY <2>3, <2>4
  <1>4. ASSUME NEW fails \in BOOLEAN, NEW n \in 0 .. MaxData, NEW k \in 1 .. MaxData, WriteNested(n, k, fails)
        PROVE  OutputInv'
    BY <1>4 DEF WriteNested, OutputInv
  <1> QED BY <1>1, <1>2, <1>3, <1>4 DEF OutputNext

LEMMA OutputFaithful == OutputInv => SentAsWritten
  <1> SUFFICES ASSUME OutputInv, ~nested PROVE Faithful
    BY DEF SentAsWritten
  <1>1. written \in Seq(Bytes) /\ midiOut.sent \in Seq(Bytes)
    BY OutFields DEF OutputInv
  <1>2. IsPrefixOf(midiOut.sent, written)
    <2>1. IsPrefixOf(written, written)
      BY <1>1, LenProperties DEF IsPrefixOf
    <2> QED BY <2>1 DEF OutputInv, Ready
  <1>3. IsPrefix(midiOut.sent, written)
    BY <1>1, <1>2, PrefixIsSubSeq, SubSeqFull DEF IsPrefix
  <1> QED BY <1>3 DEF Faithful, OutputInv, Ready

\* Without a real-time event inside a sysex, all that was written is sent, in
\* its order, when a call returns without an error, and a part from the
\* beginning after one: Pm_WriteShort and Pm_WriteSysEx over CoreMIDI's
\* functions, for every size of events, buffers and packet list.
THEOREM OutputIsSentAsWritten == OutputSpec => []SentAsWritten
  <1>1. OutputInit => OutputInv
    <2>1. OutputInit => midiOut \in Outs
      BY EmptySeq DEF OutputInit, Outs, Errors
    <2> QED BY <2>1, EmptySeq DEF OutputInit, OutputInv, Ready
  <1> QED BY <1>1, OutputStep, OutputFaithful, PTL DEF OutputSpec

=============================================================================
