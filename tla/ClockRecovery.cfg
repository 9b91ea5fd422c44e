CONSTANTS
  n1 = n1
  n2 = n2
  n3 = n3
  Node = {n1, n2}
  NoState = NoState
  MaxPublish <- MCOnePublisher
  Stopping = {n1, n2}
  MaxCrash = 1
  MaxInFlight = 1
SPECIFICATION Spec
INVARIANTS ClockRecovered
