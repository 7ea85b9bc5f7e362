SPECIFICATION Spec
CONSTANTS
  A = A
  B = B
  o1 = o1
  o2 = o2
  q1 = q1
  q2 = q2
  q3 = q3
  t1 = t1
  t2 = t2
  Absent = Absent
  Bad = Bad
  NULL = NULL
  Label = {A, B}
  File = {"keep", "once"}
  Plist <- MCPlist
  Obj = {o1, o2}
  Pid = {q1, q2, q3}
  Tid = {t1, t2}
  Interval = 1
  Faults = {}
  StartupPlist = NULL
  ScanDirs <- NoScan
  DaemonMode = TRUE
  Pid1 = FALSE
  Commands = {"load", "unload", "start", "stop"}
SYMMETRY Sym
CHECK_DEADLOCK FALSE
PROPERTIES
  OrphansAreReparented
