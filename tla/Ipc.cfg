SPECIFICATION FairSpec
CONSTANTS
  c1 = c1
  c2 = c2
  NULL = NULL
  Client = {c1, c2}
  Steady = {c1}
  Request <- Mixed
  HdrLen = 2
  ShortLen = 1
  ListLen = {4, 6}
  MaxPayload = 5
  Cap = 3
  Backlog = 1
  Nonblock = TRUE
  Faults = {"malloc", "accept"}
CHECK_DEADLOCK FALSE
INVARIANTS
  TypeOK
  ConnectionsClosed
PROPERTIES
  ServiceKept
  Answered
