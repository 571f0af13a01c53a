SPECIFICATION Spec
CONSTANTS
    Folders <- MCFolders
    Real <- MCReal
    Root <- MCRoot
    Bounds <- MCBounds
    Computes = {c1, c2}
    None = None
    MaxRuns = 3
SYMMETRY Symmetry
CHECK_DEADLOCK FALSE
INVARIANTS PythonSetupInv ReadyMeansAdopted DriftIsCurrent
PROPERTIES RetryUndoesOnlyItsRun
