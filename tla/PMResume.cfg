\* A process blocked in waitpid is resumed.
SPECIFICATION Spec
CONSTANTS
  idle = idle  init = init  shell = shell
  a = a  b = b  c = c  m = m
  Slot = {idle, init, shell, a, b}
  Idle = idle
  InitProc = init
  Shell = shell
  UserSem = {}
  SemValue = 0
  MaxPid = 5
  MaxSem = 1
  MaxWaiters = 1
  MaxPrio = 2
  Calls = {"start", "wait", "resume"}
SYMMETRY SlotSymmetry
PROPERTIES OnlyDeadReaped
