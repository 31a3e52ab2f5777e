\* A program waits for a process that is not its child.
SPECIFICATION Spec
CONSTANTS
  idle = idle  init = init  shell = shell
  a = a  b = b  c = c  m = m
  Slot = {idle, init, shell, a, b, c}
  Idle = idle
  InitProc = init
  Shell = shell
  UserSem = {}
  SemValue = 0
  MaxPid = 6
  MaxSem = 1
  MaxWaiters = 1
  MaxPrio = 2
  Calls = {"start", "exit", "wait", "waitany"}
SYMMETRY SlotSymmetry
INVARIANTS OrphansAdopted
