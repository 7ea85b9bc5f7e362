SPECIFICATION FairSpec
CONSTANTS
  c1 = c1
  c2 = c2
  NULL = NULL
  Client = {c1}
  Steady = {c1}
  Request <- OneLoad
  HdrLen = 2
  ShortLen = 1
  ListLen = {4, 6}
  MaxPayload = 5
  Cap = 3
  Backlog = 1
  Nonblock = TRUE
  Faults = {}
CHECK_DEADLOCK FALSE
PROPERTIES
  MessageDispatched
