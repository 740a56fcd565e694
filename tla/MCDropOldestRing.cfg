\* Two producers and two consumers on a ring of two, four pushes: the ring
\* overflows twice.
CONSTANTS
  p1 = p1
  p2 = p2
  k1 = k1
  k2 = k2
  Producers <- MCProducers
  Consumers <- MCConsumers
  Capacity = 2
  MaxPushes = 4
SPECIFICATION FairSpec
INVARIANTS
  Accounting
  NoLostWakeup
PROPERTIES
  ImplementsBuffer
