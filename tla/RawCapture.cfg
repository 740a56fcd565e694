\* Two captures, three frames a camera, rings of two; fair threads.
CONSTANTS
  N = 2
  Capacity = 2
  MaxFrames = 3
  MaxStarts = 2
SPECIFICATION FairSpec
CHECK_DEADLOCK FALSE
INVARIANTS
  EveryFrameAccounted
  StopFlushes
PROPERTY StopTerminates
