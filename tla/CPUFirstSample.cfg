CONSTANTS
  n1 = n1
  n2 = n2
  q1 = q1
  q2 = q2
  Node = {n1, n2}
  Local = n1
  Request = {q1}
  WSRequest = {}
  Input <- MCInput
SPECIFICATION Spec
INVARIANTS FirstSampleHasCPU
CHECK_DEADLOCK FALSE
