SPECIFICATION Spec
CONSTANTS
  Procs = {1, 2}
  Slots = {1, 2, 3, 4}
  Words = {1, 2}
  Regs = {1, 2}
  NoDependence = 0
  InvalidOutput = 9
  NoWord = 0
  PipeLength = 2
  MaxIRequests = 2
  FetchWidth = 2
  InstQueueSize = 2
  MaxROBSize = 3
  WinSize = 2
  MaxLoads = 3
  MaxStores = 3
  MaxBranches = 2
  MaxRegs = 4
  Confs <- MCConfs
  FakeBuckets <- MCFake
INVARIANTS InProgramOrder CountersExact DependencesExact LoadWaitsForStore FenceOrder
PROPERTIES EveryInstRetires
