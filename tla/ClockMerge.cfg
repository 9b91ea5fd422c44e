CONSTANTS
  n1 = n1
  n2 = n2
  n3 = n3
  Node = {n1, n2}
  NoState = NoState
  MaxPublish <- MCTwoPublishers
  Stopping = {}
  MaxCrash = 0
  MaxInFlight = 1
SPECIFICATION Spec
PROPERTIES ReceivedClocksMerged
