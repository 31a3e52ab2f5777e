\* Four blocks at most, in a heap they can fill.
SPECIFICATION Spec
CONSTANTS
  p1 = p1  p2 = p2  p3 = p3  p4 = p4
  Client = {p1, p2, p3, p4}
  Request = {8, 17, 40, 100}
  HeapSize = 256
  Exhaust = {}
  Builds = {"STANDARD", "BUDDY"}
SYMMETRY ClientSymmetry
INVARIANTS TypeOK Tiled ListOrdered RefusesOnlyIfFull
PROPERTIES HeapAllocates
