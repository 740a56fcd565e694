\* The threads of the pipeline from start to stop: two frames, each refused by any
\* processing step or none, and a bad sample a camera; fair threads.
CONSTANTS
  N = 2
  MaxFrames <- MCFrames
  MaxBad = 1
SPECIFICATION MCSpec
CHECK_DEADLOCK FALSE
INVARIANT StopsCleanly
PROPERTIES
  TakenFramesArrive
  StopReturns
