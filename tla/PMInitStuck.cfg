\* A waiter is killed after the exit it waits for and before it runs.
SPECIFICATION FairSpec
CONSTANTS
  idle = idle  init = init  shell = shell
  a = a  b = b  c = c  m = m
  Slot = {idle, init, shell, a, b}
  Idle = idle
  InitProc = init
  Shell = shell
  UserSem = {}
  SemValue = 0
  MaxPid = 5
  MaxSem = 1
  MaxWaiters = 4
  MaxPrio = 2
  Calls = {"start", "exit", "wait", "kill"}
PROPERTIES InitKeepsReaping
