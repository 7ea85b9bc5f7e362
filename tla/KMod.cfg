SPECIFICATION FairSpec
CONSTANTS
  Kld <- MCKld
  Blank = Blank
  None = None
  Machines <- MCMachines
  Builtin = {"amdgpu"}
  Depends <- MCDepends
  PipeSize = 1
  MaxOutput = 2
  Faults = {"launch", "exit", "kldload"}
CHECK_DEADLOCK FALSE
INVARIANT
  AllLoaded
PROPERTIES
  GpuFirst
  Ends
