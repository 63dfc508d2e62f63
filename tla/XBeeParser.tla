---------------------------- MODULE XBeeParser ----------------------------
(***************************************************************************)
(* The receive ring of XBeeController: stream() appends what Serial read   *)
(* and calls parseData(), which takes one frame out when a whole one is    *)
(* there.  The radio's bytes are numbered; byte n is byte n % FrameLen of  *)
(* frame n \div FrameLen and the first of a frame is its 0x7E.             *)
(***************************************************************************)
EXTENDS Naturals, Sequences

CONSTANTS RingSize,   \* 1024
          FrameLen,   \* 21
          MaxChunk,   \* bytes Serial reads at once
          MaxBytes    \* bound: bytes the radio sends

ASSUME ParserAssumption ==
    /\ FrameLen \in Nat /\ FrameLen >= 2
    /\ RingSize \in Nat /\ RingSize > 2 * FrameLen
    /\ MaxChunk \in 1 .. FrameLen
    /\ MaxBytes \in Nat

VARIABLES buf, rp, wp,
          received,     \* bytes appended so far
          handled       \* the frames parseData dispatched, in order

parserVars == <<buf, rp, wp, received, handled>>

RingSlots == 0 .. RingSize - 1
After(p, n) == IF p + n < RingSize THEN p + n ELSE p + n - RingSize

\* available(), with the cursors as given
Available(r, w) == IF r <= w THEN w - r ELSE RingSize + w - r

ParserInit ==
    /\ buf = [s \in RingSlots |-> 0]
    /\ rp = 0 /\ wp = 0
    /\ received = 0 /\ handled = <<>>

-----------------------------------------------------------------------------
Appended(n) ==
    [s \in RingSlots |-> LET k == IF s >= wp THEN s - wp ELSE s + RingSize - wp
                         IN  IF k < n THEN received + k ELSE buf[s]]

IsDelimiter(b, s) == b[s] % FrameLen = 0

\* The bytes readData() hands out before the first delimiter; all if none.
Skipped(b, r, w) ==
    LET found == {k \in 0 .. Available(r, w) - 1 : IsDelimiter(b, After(r, k))}
    IN  IF found = {} THEN Available(r, w) ELSE CHOOSE k \in found : \A m \in found : k <= m

\* The FrameLen bytes from s on carry one checksum: they are one frame.
IsFrame(b, s) == \A k \in 0 .. FrameLen - 1 : b[After(s, k)] = b[s] + k

\* Slip: a frame is looked for a byte too late.
EnoughLate(r, w) == Available(r, w) > FrameLen
Enough(r, w) == Available(r, w) > FrameLen - 1

\* parseData() on the ring b with the cursors r and w
Parse(b, r, w) ==
    LET skip == Skipped(b, r, w)
        s == After(r, skip)
    IN  IF ~Enough(r, w) THEN rp' = r /\ UNCHANGED handled
        ELSE IF skip = Available(r, w) THEN rp' = s /\ UNCHANGED handled
        ELSE /\ rp' = After(s, FrameLen)
             /\ handled' = IF IsFrame(b, s) THEN Append(handled, b[s] \div FrameLen) ELSE handled

\* stream(): Serial read n bytes.
Stream(n) ==
    /\ received + n <= MaxBytes
    /\ buf' = Appended(n)
    /\ wp' = After(wp, n)
    /\ received' = received + n
    /\ Parse(Appended(n), rp, After(wp, n))

ParserNext == \E n \in 1 .. MaxChunk : Stream(n)

ParserSpec == ParserInit /\ [][ParserNext]_parserVars

-----------------------------------------------------------------------------
(* However the serial line cuts the stream, every frame that has arrived   *)
(* whole has been handled, once and in the order sent, by the call that    *)
(* appended its last byte: no frame waits for a later one.                 *)
EveryFrameOnce == handled = [k \in 1 .. received \div FrameLen |-> k - 1]
=============================================================================
