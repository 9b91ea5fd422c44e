CONSTANTS
  n1 = n1
  n2 = n2
  q1 = q1
  q2 = q2
  Node = {n1, n2}
  Local = n1
  Request = {q1, q2}
  WSRequest = {q2}
  Input <- MCInput
SPECIFICATION FairSpec
INVARIANTS TypeOK ConfigValid Precedence TemplateIsDefault ExitClosesStore StoreOutlivesRequests ListedIsFound
PROPERTIES ExitsAfterSignal WSHandlerReleased
CHECK_DEADLOCK FALSE
