\* Two pipelines, one after the other or at once.
SPECIFICATION Spec
CHECK_DEADLOCK FALSE
CONSTANTS
  j1 = j1  j2 = j2  b1 = b1  b2 = b2
  Job = {j1, j2}
  Byte = {b1, b2}
  Capacity = 1
  MaxOut = 2
  Faults = {"ctrlc", "deaf", "nomem"}
SYMMETRY JobByteSymmetry
INVARIANTS TypeOK PipeHeld UnitsConserved
