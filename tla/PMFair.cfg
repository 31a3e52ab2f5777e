\* Programs that renice, block and resume each other.
SPECIFICATION FairSpec
CONSTANTS
  idle = idle  init = init  shell = shell
  a = a  b = b  c = c  m = m
  Slot = {idle, init, shell, a}
  Idle = idle
  InitProc = init
  Shell = shell
  UserSem = {}
  SemValue = 0
  MaxPid = 4
  MaxSem = 1
  MaxWaiters = 1
  MaxPrio = 2
  Calls = {"start", "nice", "block", "resume"}
PROPERTIES NoStarvation
