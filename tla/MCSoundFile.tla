---------------------------- MODULE MCSoundFile ----------------------------
(* Values for SoundFile: a soft sample and ones beyond 1.0; files of every *)
(* form, of words of two and three bytes and of floats, of one channel and *)
(* of two.  MCOddShapes is the file that does not open again: SoundsReopen *)
(* fails with it.                                                          *)
EXTENDS SoundFile

MCAmplitudes == {-3, 1, 3}

MCShapes ==
    { [kind |-> "WAVE", samp |-> "24", chans |-> 1],
      [kind |-> "WAVE_EX", samp |-> "float", chans |-> 2],
      [kind |-> "AIFF", samp |-> "16", chans |-> 1],
      [kind |-> "AIFF", samp |-> "24", chans |-> 2],
      [kind |-> "AIFC", samp |-> "float", chans |-> 1] }

MCOddShapes == {[kind |-> "AIFF", samp |-> "24", chans |-> 1]}

MCModes ==
    { [clip |-> FALSE, double |-> FALSE], [clip |-> FALSE, double |-> TRUE],
      [clip |-> TRUE, double |-> TRUE] }
=============================================================================
