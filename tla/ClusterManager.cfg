SPECIFICATION Spec
CONSTANTS
    Starts = {s1}
    Stops = {t1}
    Ctor = Ctor
    Nothing = Nothing
    Polls = {p1}
    MaxChanges = 1
INVARIANTS ClusterInv OnlyEntangledTimersLeak
PROPERTIES StartReturnsRunning CancelledStartEnds FollowsTheCluster
CHECK_DEADLOCK FALSE
