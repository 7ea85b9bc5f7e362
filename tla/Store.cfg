SPECIFICATION Spec
CONSTANTS
  k1 = k1
  p1 = p1
  p2 = p2
  p3 = p3
  s1 = s1
  s2 = s2
  Session = {s1, s2}
  NullSession = NullSession
  Key = {k1}
  Pattern = {p1, p2, p3}
  NoValue = NoValue
  None = None
  Matches <- MCMatches
  BadPattern = {p3}
  Writable <- MCWritable
  Notifiers <- MCNotifiers
  QLimit = 1
SYMMETRY Alike
INVARIANTS
  WatcherCounts
  PatternIndex
  SessionKeysTracked
  ClosedForgotten
PROPERTY
  KeepsPromise
