SPECIFICATION Spec
CONSTANTS
  Fibers = {f1, f2}
  N = 2
  MaxSlices = 0
  MaxWakes = 0
INVARIANT NoLostWakeup
SYMMETRY Symmetry
CHECK_DEADLOCK FALSE
