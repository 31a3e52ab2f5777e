\* Programs that start children, wait for them and share a semaphore.
SPECIFICATION Spec
CONSTANTS
  idle = idle  init = init  shell = shell
  a = a  b = b  c = c  m = m
  Slot = {idle, init, shell, a, b, c}
  Idle = idle
  InitProc = init
  Shell = shell
  UserSem = {m}
  SemValue = 0
  MaxPid = 6
  MaxSem = 1
  MaxWaiters = 4
  MaxPrio = 2
  Calls = {"start", "exit", "wait", "sem"}
SYMMETRY SlotSymmetry
INVARIANTS BlockedIffWaiting ExitNotLost OrphansAdopted
PROPERTIES OnlyDeadReaped
