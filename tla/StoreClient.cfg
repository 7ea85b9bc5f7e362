SPECIFICATION FairCSpec
CONSTANTS
  s1 = s1
  k1 = k1
  p1 = p1
  Session = {s1}
  NullSession = NullSession
  Key = {k1}
  Pattern = {p1}
  NoValue = NoValue
  None = None
  Matches <- MCMatches
  BadPattern = {}
  Writable <- MCWritable
  Notifiers <- MCNotifiers
  QLimit = 1
  Kinds = {"RunLoop", "Dispatch"}
  MaxCrashes = 2
INVARIANTS
  CTypeOK
  PortHeld
  NoLostWakeup
PROPERTIES
  ChangesFetched
  QueueTold
