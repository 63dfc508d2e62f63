CONSTANTS
  MAX_PACKET = 15
  FRAMES_PER_BUFFER = 2
  Sizes = {1, 2}
  Latencies = {0, 1}
  Sample = {1}
  Silence = 0
  Ch = 0
SPECIFICATION FairSpec
INVARIANT BacklogBounded
PROPERTY KeepsPlaying
