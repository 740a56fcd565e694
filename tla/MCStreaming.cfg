\* Two streams, the second perhaps started while the first is being stopped, and two
\* previews, in any order.
CONSTANTS
  Streamers = {s1, s2}
  Keys <- AnyKey
  MaxLevel = 1
  MaxStreams = 2
  MaxServers = 2
SPECIFICATION Spec
CHECK_DEADLOCK FALSE
INVARIANTS
  ListedIsWatched
  FlushIsAlone
  
PROPERTY UplinkRecovers
