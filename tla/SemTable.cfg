\* test_sync beside a guest table; processes are killed anywhere and any malloc may fail.
SPECIFICATION Spec
CONSTANTS
  o1 = o1  o2 = o2  o3 = o3  h = h  g1 = g1  g2 = g2
  Opener = {o1, o2, o3}
  Owner = h
  Guest = {g1, g2}
  Node = {0, 1, 2, 3, 4, 5, 6}
  Spelling <- MCSpelling
  Lower <- MCLower
  Amount <- MCAmount
  Rounds = 1
  Together = 3
  Faults = {"sem", "queue", "name", "pid", "node", "iterator"}
  MaxFailures = 1
CONSTRAINT FewFailures
SYMMETRY ClientSymmetry
CHECK_DEADLOCK FALSE
INVARIANTS TypeOK QueuesSound OpenedStays FinalValue
PROPERTIES StrandedByCloseOrMemory SemaphoresPromised
