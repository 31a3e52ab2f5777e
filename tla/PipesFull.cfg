\* A program returns while the pipe it wrote to is full.
SPECIFICATION Spec
CHECK_DEADLOCK FALSE
CONSTANTS
  j1 = j1  j2 = j2  b1 = b1  b2 = b2
  Job = {j1}
  Byte = {b1, b2}
  Capacity = 2
  MaxOut = 2
  Faults = {"full"}
INVARIANTS ReadInOrder
