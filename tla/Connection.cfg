CONSTANTS
  Targets <- MCTargets
  Hosts <- MCHosts
  HostOf <- MCHostOf
  NoHost = NoHost
  NoTarget = NoTarget
  MaxChanges = 2
  MaxUserCalls = 2
SPECIFICATION FairSpec
CHECK_DEADLOCK FALSE
INVARIANTS
  ConnectionInv
  
PROPERTIES
  SignInSettles
  TargetChangeCompletes
