CONSTANTS
  n1 = n1
  n2 = n2
  Node = {n1, n2}
  NoState = NoState
  Local = n1
  Removable = {n2}
  PeerRow <- MCPeerRow
  MaxInFlight = 2
  MaxRows = 2
  Sample <- MCSample
SPECIFICATION Spec
INVARIANTS TypeOK CompareIsCausal MergeIsJoin
PROPERTIES ClockGrows NoChangeSwallowed
