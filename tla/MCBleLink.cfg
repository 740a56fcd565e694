\* Three commands, of which two or all may share an id, on a link that loses one
\* write and one notification; a second central on the same assembler.
CONSTANTS
  s = s
  a = a
  b = b
  a3 = a3
  a2 = a2
  x = x
  y = y
  z = z
  Nothing = Nothing
  Commands <- MCCommands
  Corr <- MCCorr
  Total <- MCTotal
  Reply <- MCReply
  MaxInflight = 1
  MaxAir = 2
  MaxLostUp = 1
  MaxLostDown = 1
  MaxCentrals = 2
SPECIFICATION MCSpec
CHECK_DEADLOCK FALSE
INVARIANTS
  NeverGarbled
  AckedCommandRan
  ReplyInTurn
PROPERTY CommandArrives
