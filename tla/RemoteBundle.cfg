SPECIFICATION Spec
CONSTANTS
  t1 = t1
  t2 = t2
  NoTarget = NoTarget
  Targets <- MCTargets
  DefaultTarget = t1
  Files <- MCFiles
  MaxEdits = 1
  MaxCommands = 1
INVARIANTS
  RemoteBundleInv
  PinnedIsApplied
  StatesAreTargets
  
  NobodyIsStuck
PROPERTIES
  CredentialsOnlyWhereAllowed
CHECK_DEADLOCK FALSE
