CONSTANTS
  Callers = {c1, c2}
  MaxVersion = 2
  MaxResets = 0
SPECIFICATION Spec
INVARIANT DirtyIsReread
