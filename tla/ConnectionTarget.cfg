CONSTANTS
  Targets <- MCTargets
  Hosts <- MCHosts
  HostOf <- MCHostOf
  NoHost = NoHost
  NoTarget = NoTarget
  MaxChanges = 2
  MaxUserCalls = 0
SPECIFICATION Spec
CHECK_DEADLOCK FALSE
INVARIANT OldConnectionDropped
