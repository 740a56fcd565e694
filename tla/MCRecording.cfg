\* Three recordings of up to five frames on a disk that can fill up.
CONSTANTS
  Paths <- Writers
  Unwritable <- Extensionless
  Disk = 4
  MinFree = 1
  MaxFrames = 5
  MaxStarts = 3
SPECIFICATION Spec
CHECK_DEADLOCK FALSE
INVARIANTS
  NothingLost
  PlayableIsComplete
PROPERTY ThumbnailOfRecording
