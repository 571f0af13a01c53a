SPECIFICATION Spec
CONSTANTS
    N = 2
    Targets = {t1, t2}
    MaxActs = 1
INVARIANTS BundleRunInv  NobodyHangs
 
CHECK_DEADLOCK FALSE
