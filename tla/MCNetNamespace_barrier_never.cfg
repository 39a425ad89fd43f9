CONSTANTS
  n1 = n1
  n2 = n2
  Default = Default
  UINT_MAX = UINT_MAX
  Names <- MCNames
  InitialDir <- MCInitialDir
  MaxObjs = 4
  SetnsAttempts = 2
  MaxDirChanges = 2
  MaxRescans = 1
SPECIFICATION Spec
CHECK_DEADLOCK FALSE
PROPERTY
  BarrierEventuallyFires
