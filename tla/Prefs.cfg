SPECIFICATION FairSpec
CONSTANTS
  a = a
  b = b
  k = k
  None = None
  Partial = Partial
  Torn = Torn
  Session = {a, b}
  Key = {k}
  Ino = {1, 2, 3}
  RemoveWhenEmpty = {b}
  Faults = {"open", "write", "rename", "notify"}
  MaxCommits = 1
INVARIANTS
  TypeOK
  MutualExclusion
  FileWhole
PROPERTIES
  NoLostUpdate
  LockFreed
