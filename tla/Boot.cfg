SPECIFICATION FairSpec
CONSTANTS
  A = A
  B = B
  o1 = o1
  o2 = o2
  q1 = q1
  q2 = q2
  t1 = t1
  Absent = Absent
  Bad = Bad
  NULL = NULL
  Label = {A, B, C}
  File <- MCFile
  Plist <- MCPlist
  Obj = {o1, o2, o3}
  Pid = {q1, q2}
  Tid = {t1}
  Interval = 1
  Faults = {}
  StartupPlist = "once"
  ScanDirs <- MCScanDirs
  DaemonMode = FALSE
  Pid1 = FALSE
  Commands = {}
  C = C
  o3 = o3
CHECK_DEADLOCK FALSE
INVARIANTS
  BootComplete
  BootSpawns
PROPERTIES
  ExitsAfterSingleton
  SingletonExits
