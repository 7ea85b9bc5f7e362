SPECIFICATION MSpec
CONSTANTS
  a = a
  k = k
  None = None
  Partial = Partial
  Torn = Torn
  Session = {a}
  Key = {k}
  Ino = {1, 2}
  RemoveWhenEmpty = {}
  Faults = {}
  MaxCommits = 2
PROPERTY
  AppliesStored
