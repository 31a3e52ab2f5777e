\* Programs that use up the only free block.
SPECIFICATION Spec
CONSTANTS
  p1 = p1  p2 = p2  p3 = p3  p4 = p4
  Client = {p1, p2, p3, p4}
  Request = {8, 17, 40}
  HeapSize = 96
  Exhaust = {"last"}
  Builds = {"STANDARD"}
SYMMETRY ClientSymmetry
INVARIANTS BlocksApart
