\* A match recorded under two users and another one; the clock may be set back.
SPECIFICATION DownloadSpec
CONSTANTS
  p1 = p1
  p2 = p2
  p3 = p3
  m1 = m1
  m2 = m2
  Paths = {p1, p2, p3}
  Stem <- TwoUsers
  Workers = {w1}
  TTL = 1
  MaxTime = 2
  MaxTokens = 2
  MaxTakes = 2
  MaxSize = 2
CHECK_DEADLOCK FALSE
INVARIANTS
  TokenOpensItsRecording
  SentInOrder
PROPERTY StopReturns
