\* Programs that use up the block the heap began with, while others are free.
SPECIFICATION Spec
CONSTANTS
  p1 = p1  p2 = p2  p3 = p3  p4 = p4
  Client = {p1, p2, p3, p4}
  Request = {8, 17, 40}
  HeapSize = 96
  Exhaust = {"lowest"}
  Builds = {"STANDARD"}
SYMMETRY ClientSymmetry
INVARIANTS BlocksApart
