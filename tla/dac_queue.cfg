CONSTANTS
  MAX_PACKET = 9
  FRAMES_PER_BUFFER = 2
  Sizes = {1}
  Latencies = {0, 1}
  Sample = {1, 2}
  Silence = 0
  Ch = 0
SPECIFICATION Spec
PROPERTY ImplementsQueue
