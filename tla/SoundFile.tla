------------------------------ MODULE SoundFile ------------------------------
(***************************************************************************)
(* portsf: one sound file written, closed, opened and read through a       *)
(* descriptor.  Amplitudes are integers with FULL standing for 1.0; an     *)
(* integer word of the file goes from -FULL to FULL - 1, as 16, 24 and 32  *)
(* bits do.  A file on disk is what its header says and the words of its   *)
(* data; sizes are in bytes, positions in frames of the data.              *)
(***************************************************************************)
EXTENDS Integers, Sequences, FiniteSetsExt

CONSTANTS
    FULL,        \* the amplitude 1.0
    Amplitudes,  \* the float samples a program writes
    Shapes,      \* the files a program makes: [kind, samp, chans]
    WriteModes,  \* [clip, double]: clip_floats, and which of the two writers
    Careful,     \* whether a program seeks between a read and a write, and after an error
    MaxFrames    \* bound: frames in a file

ASSUME SoundFileAssumption ==
    /\ FULL \in Nat \ {0} /\ MaxFrames \in Nat \ {0}
    /\ Amplitudes \subseteq Int /\ Careful \in BOOLEAN
    /\ Shapes \subseteq [kind : {"WAVE", "WAVE_EX", "AIFF", "AIFC"},
                         samp : {"16", "24", "32", "float"}, chans : Nat \ {0}]
    /\ \A s \in Shapes : s.samp = "float" => s.kind # "AIFF"
    /\ WriteModes \subseteq [clip : BOOLEAN, double : BOOLEAN]

VARIABLES
    disk,    \* the file: header fields, data words, stray bytes after the data
    handle,  \* psf_files' entry for it, or the empty set
    sound    \* what a program has asked to be kept, frame by frame, for the properties

soundFileVars == <<disk, handle, sound>>

DWORD == 2 ^ 20

Reading == handle # {} /\ (CHOOSE h \in handle : TRUE).isRead

The == CHOOSE h \in handle : TRUE

psf_wordsize(samp) == CASE samp = "16" -> 2 [] samp = "24" -> 3 [] OTHER -> 4

BlockAlign(shape) == shape.chans * psf_wordsize(shape.samp)

IsAiff(shape) == shape.kind \in {"AIFF", "AIFC"}

\* The peak chunk, when there is one: version, time, and a value and a position per channel.
\* On 64-bit builds PSF_CHPEAK, with its position an unsigned long, has 16 bytes.
PeakChunk(shape, peaks) == IF peaks = <<>> THEN 0 ELSE 16 + 16 * shape.chans

IsFloat(shape) == shape.samp = "float"

\* Where each of the header writers puts the data: behind form and kind, the version chunk of
\* AIFC, the format, the peaks, and the data chunk's head, in AIFF with offset and block size.
wavWriteHeader(shape, peaks) ==
    12 + (IF IsFloat(shape) THEN 26 ELSE 24) + PeakChunk(shape, peaks) + 8

waveExWriteHeader(shape, peaks) == 12 + 48 + PeakChunk(shape, peaks) + 8

aiffWriteHeader(shape, peaks) == 12 + 26 + PeakChunk(shape, peaks) + 16

aifcWriteHeader(shape, peaks) ==
    12 + 12 + (IF IsFloat(shape) THEN 40 ELSE 46) + PeakChunk(shape, peaks) + 16

DataOffset(shape, peaks) ==
    CASE shape.kind = "WAVE"    -> wavWriteHeader(shape, peaks)
      [] shape.kind = "WAVE_EX" -> waveExWriteHeader(shape, peaks)
      [] shape.kind = "AIFF"    -> aiffWriteHeader(shape, peaks)
      [] shape.kind = "AIFC"    -> aifcWriteHeader(shape, peaks)

\* The header before anything is written: sizes and peaks are zero.
WriteHeader(shape, minheader) ==
    [shape |-> shape, formSize |-> 0, dataSize |-> 0, tail |-> 0, data |-> <<>>,
     spoilt |-> FALSE,
     peaks |-> IF minheader THEN <<>> ELSE [c \in 1..shape.chans |-> [val |-> 0, pos |-> 0]]]

Clipped(f) == Min({Max({f, -FULL}), FULL})

\* A cast of a rounded product to the width of the file's words.
AsWord(f) == ((f + FULL) % (2 * FULL)) - FULL

Clips(h) == h.mode.clip \/ ~IsFloat(disk.shape)

\* The sample that the peaks are taken from.
Sampled(h, f) == IF Clips(h) THEN Clipped(f) ELSE f

\* The word of the file.  psf_sndWriteFloatFrames writes a float as it came, clipped or not.
StoredFloat(h, f) == IF IsFloat(disk.shape) THEN f ELSE AsWord(Sampled(h, f))

StoredDouble(h, f) == IF IsFloat(disk.shape) THEN Sampled(h, f) ELSE AsWord(Sampled(h, f))

Stored(h, f) == IF h.mode.double THEN StoredDouble(h, f) ELSE StoredFloat(h, f)

\* The sample a program asked for: clipped if it said so, or if the words are integers.
Asked(h, f) == IF h.mode.clip \/ ~IsFloat(disk.shape) THEN Clipped(f) ELSE f

Magnitude(f) == IF f < 0 THEN -f ELSE f

\* A slip to be caught: the peak is that of the last call alone.
PeaksOfCall(h, frames) ==
    [c \in DOMAIN h.peaks |->
        LET loud == Max({Magnitude(Sampled(h, frames[i][c])) : i \in DOMAIN frames})
        IN  [val |-> loud, pos |-> h.nFrames]]

\* pPeaks after the frames of a call: the first frame louder than all before it, counted
\* from the frames the file has.
NewPeaks(h, frames) ==
    [c \in DOMAIN h.peaks |->
        LET loud(i) == Magnitude(Sampled(h, frames[i][c]))
            most    == Max({loud(i) : i \in DOMAIN frames})
        IN  IF most <= h.peaks[c].val THEN h.peaks[c]
            ELSE [val |-> most,
                  pos |-> h.nFrames + Min({i \in DOMAIN frames : loud(i) = most}) - 1]]

\* Bytes put at a position of the data, over what is there.  A hole before them reads as zeros;
\* what is put before the data is not of the data.
Over(data, pos, frames) ==
    [i \in 1..Max({Len(data), pos + Len(frames)}) |->
        IF i \in pos + 1..pos + Len(frames) THEN frames[i - pos]
        ELSE IF i \in DOMAIN data THEN data[i]
        ELSE [c \in 1..disk.shape.chans |-> 0]]

\* A file without frames, as this library closes it, is there to begin with.
SoundFileInit ==
    /\ \E shape \in Shapes :
         disk = [WriteHeader(shape, TRUE) EXCEPT !.formSize = DataOffset(shape, <<>>) - 8,
                                                 !.dataSize = IF IsAiff(shape) THEN 8 ELSE 0]
    /\ handle = {} /\ sound = <<>>

psf_sndCreate ==
    /\ handle = {}
    /\ \E shape \in Shapes, mode \in WriteModes, minheader \in BOOLEAN :
         LET header == WriteHeader(shape, minheader) IN
         /\ disk' = header
         /\ handle' = {[isRead |-> FALSE, mode |-> mode, nFrames |-> 0, cur |-> 0, lastwrite |-> 0,
                        pos |-> 0, lastop |-> "write", rescale |-> FALSE, fac |-> FULL,
                        peaks |-> header.peaks]}
    /\ sound' = <<>>

\* psf_sndWriteFloatFrames and psf_sndWriteDoubleFrames.
WriteFrames ==
    /\ handle # {} /\ ~Reading
    /\ Careful => The.lastop \notin {"read", "failed"}
    /\ \E n \in 1..2 : \E frames \in [1..n -> [1..disk.shape.chans -> Amplitudes]] :
         LET h    == The
             last == h.lastwrite + n
         IN  /\ h.pos + n <= MaxFrames
             /\ disk' = [disk EXCEPT !.data = Over(@, h.pos,
                            [i \in 1..n |-> [c \in 1..disk.shape.chans |-> Stored(h, frames[i][c])]]),
                                    !.spoilt = @ \/ h.pos < 0]
             /\ sound' = Over(sound, h.pos,
                            [i \in 1..n |-> [c \in 1..disk.shape.chans |-> Asked(h, frames[i][c])]])
             /\ handle' = {[h EXCEPT !.peaks = NewPeaks(h, frames), !.lastop = "write",
                                     !.pos = @ + n, !.lastwrite = last, !.cur = last,
                                     !.nFrames = Max({@, last})]}

\* A seek to a frame the file has, or to one behind its end.
SeekInside(h, to) ==
    handle' = {[h EXCEPT !.pos = to, !.cur = to, !.lastop = "sought",
                         !.lastwrite = IF h.isRead THEN @ ELSE to]}

\* A seek to before the data puts the file there, and is then an error: the descriptor goes on
\* counting from where it was.
SeekBefore(h, to) == handle' = {[h EXCEPT !.pos = to, !.lastop = "failed"]}

\* psf_sndSeek, as far as a frame before the data and one behind its end.
psf_sndSeek ==
    /\ handle # {}
    /\ \E to \in -1..The.nFrames + 1 :
         \/ to >= 0 /\ SeekInside(The, to)
         \/ to < 0 /\ SeekBefore(The, to)
    /\ UNCHANGED <<disk, sound>>

\* What the readers make of a word: a float is scaled down by the loudest peak on demand.
Returned(h, w) == IF IsFloat(disk.shape) /\ h.rescale THEN (w * FULL) \div h.fac ELSE w

\* The frames a read is for: as far as nFrames goes, an unsigned difference.
ToRead(h, n) == IF h.cur > h.nFrames THEN n ELSE Min({h.nFrames - h.cur, n})

\* Whether the file has all bytes before a frame.
Reaches(frame) ==
    frame * BlockAlign(disk.shape) <= Len(disk.data) * BlockAlign(disk.shape) + disk.tail

\* psf_sndReadFloatFrames and psf_sndReadDoubleFrames.  A read that finds too few bytes leaves
\* the file at its end.
ReadFrames ==
    /\ handle # {} /\ The.cur <= MaxFrames + 1     \* bound
    /\ Careful => The.lastop # "failed"
    /\ \E n \in 1..2 :
         LET h   == The
             got == ToRead(h, n)
         IN  /\ got > 0
             /\ \/ /\ Reaches(h.pos + got)
                   /\ handle' = {[h EXCEPT !.pos = @ + got, !.cur = @ + got, !.lastop = "read"]}
                \/ /\ ~Reaches(h.pos + got)
                   /\ handle' = {[h EXCEPT !.pos = Max({@, Len(disk.data)}), !.lastop = "failed"]}
    /\ UNCHANGED <<disk, sound>>

\* A slip to be caught: the sizes go by the last position written to.
wavUpdateLast(h) ==
    LET bytes == h.lastwrite * BlockAlign(disk.shape)
    IN  [disk EXCEPT !.formSize = bytes + DataOffset(disk.shape, h.peaks) - 8,
                     !.dataSize = bytes, !.peaks = h.peaks]

\* The header completed: form size, peaks, data size.
wavUpdate(h) ==
    LET bytes == h.nFrames * BlockAlign(disk.shape)
    IN  [disk EXCEPT !.formSize = bytes + DataOffset(disk.shape, h.peaks) - 8,
                     !.dataSize = bytes, !.peaks = h.peaks]

\* AIFF's data size counts offset and block size, and its pad byte goes where the data would
\* end if they came after the offset the data is at.
aiffUpdate(h) ==
    LET bytes == h.nFrames * BlockAlign(disk.shape) + 8
        off   == DataOffset(disk.shape, h.peaks)
    IN  [disk EXCEPT !.formSize = bytes - 8 + off - 8, !.dataSize = bytes, !.peaks = h.peaks,
                     !.tail = IF (off + bytes) % 2 = 1 THEN 9 ELSE 0]

psf_sndClose ==
    /\ handle # {}
    /\ disk' = CASE The.isRead                            -> disk
                 [] ~The.isRead /\ IsAiff(disk.shape)  -> aiffUpdate(The)
                 [] ~The.isRead /\ ~IsAiff(disk.shape) -> wavUpdate(The)
    /\ handle' = {}
    /\ UNCHANGED sound

Even(n) == n + (n % 2)

\* What the form has left, an unsigned number, after the chunks that the writers above write.
\* Both readers go on unless it is zero, and refuse the zero bytes after the data or the end.
aiffReadHeader(f) ==
    (f.formSize - 4 - 26 - PeakChunk(f.shape, f.peaks) - (8 + Even(f.dataSize))) % DWORD = 0

aifcReadHeader(f) ==
    (f.formSize - 4 - 12 - (IF IsFloat(f.shape) THEN 40 ELSE 46)
       - PeakChunk(f.shape, f.peaks) - (8 + Even(f.dataSize))) % DWORD = 0

\* The reader of WAVE asks the form for room for a format, and stops at the data.  Words of 32
\* bits are known by a GUID, which a plain WAVE does not have.
wavReadHeader(f) == f.formSize >= 22 /\ (f.shape.samp = "32" => f.shape.kind = "WAVE_EX")

ReadHeader(f) ==
    CASE f.shape.kind = "AIFF" -> aiffReadHeader(f)
      [] f.shape.kind = "AIFC" -> aifcReadHeader(f)
      [] OTHER                 -> wavReadHeader(f)

\* Frames the data chunk's size is for.
DataFrames(f) ==
    (IF IsAiff(f.shape) THEN f.dataSize - 8 ELSE f.dataSize) \div BlockAlign(f.shape)

\* The loudest peak, when the header has one over 1.0.
RescaleFactor(f) == Max({FULL} \cup {f.peaks[c].val : c \in DOMAIN f.peaks})

\* A file whose header was written over is not followed.
psf_sndOpen ==
    /\ handle = {} /\ ReadHeader(disk) /\ ~disk.spoilt
    /\ \E rescale \in BOOLEAN :
         handle' = {[isRead |-> TRUE, mode |-> [clip |-> TRUE, double |-> FALSE], cur |-> 0,
                     lastwrite |-> 0, pos |-> 0, lastop |-> "read", rescale |-> rescale,
                     nFrames |-> DataFrames(disk), fac |-> RescaleFactor(disk), peaks |-> disk.peaks]}
    /\ UNCHANGED <<disk, sound>>

SoundFileNext ==
    \/ psf_sndCreate \/ WriteFrames \/ psf_sndSeek \/ ReadFrames \/ psf_sndClose \/ psf_sndOpen

SoundFileSpec == SoundFileInit /\ [][SoundFileNext]_soundFileVars

----------------------------------------------------------------------------
\* Whatever was written, over what was there or after it or behind a gap, in however many calls
\* and with reads and seeks between, is what a reader finds: as many frames, in their places,
\* clipped where that was asked for.  Words of integers have no 1.0: for it nothing is said.
SoundsComeBack ==
    Reading =>
        /\ The.nFrames = Len(sound)
        /\ \A i \in DOMAIN sound, c \in 1..disk.shape.chans :
             IsFloat(disk.shape) \/ sound[i][c] < FULL => disk.data[i][c] = sound[i][c]

\* The same of a sample of 1.0, or of one clipped to it, too.  It does not hold: in a file of
\* integers it comes back as -1.0.
FullScaleComesBack ==
    Reading =>
        \A i \in DOMAIN sound, c \in 1..disk.shape.chans : disk.data[i][c] = sound[i][c]

\* portsf.h of psf_sndReadFloatFrames: with rescale, over-range floats come out within 1.0.
RescaledIsInRange ==
    Reading /\ The.rescale /\ disk.peaks # <<>> =>
        \A i \in DOMAIN disk.data, c \in 1..disk.shape.chans :
            Magnitude(Returned(The, disk.data[i][c])) <= FULL

\* A file the library closed is one it can open.
SoundsReopen == handle = {} => ReadHeader(disk)

=============================================================================
