SPECIFICATION Spec
CONSTANTS
  Fibers = {f1, f2}
  N = 2
  MaxSlices = 1
  MaxWakes = 0
  MaxIo = 0
  MaxArrivals = 0
INVARIANTS
  TypeOK FiberExclusive NoLostWakeup NotStranded ActiveCount StopDrains
SYMMETRY Symmetry
CHECK_DEADLOCK FALSE
