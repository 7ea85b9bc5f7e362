SPECIFICATION FairSpec
CONSTANTS
  A = A
  B = B
  o1 = o1
  o2 = o2
  q1 = q1
  q2 = q2
  q3 = q3
  t1 = t1
  t2 = t2
  Absent = Absent
  Bad = Bad
  NULL = NULL
  Label = {A, B}
  File = {"keep", "both"}
  Plist <- MCPlist
  Obj = {o1, o2}
  Pid = {q1, q2}
  Tid = {t1, t2}
  Interval = 2
  Faults = {}
  StartupPlist = NULL
  ScanDirs <- BothDir
  DaemonMode = TRUE
  Pid1 = FALSE
  Commands = {"unload", "stop", "shutdown"}
CHECK_DEADLOCK FALSE
PROPERTIES
  ZombiesReaped
  KeepAliveRespawns
  UnloadCompletes
