\* Two starts, two reads each, one death of the process and one of dnsmasq.
SPECIFICATION Spec
CONSTANTS
  MaxEventReads = 2
  MaxCalls = 2
  MaxEvents = 1
  MaxCrashes = 1
  MaxDeaths = 1
CHECK_DEADLOCK FALSE
INVARIANT ToldGroupIsServed
INVARIANT NoDnsmasqSurvives
PROPERTY CommandReturns
PROPERTY StopRemovesGroup
PROPERTY ImplementsContract
