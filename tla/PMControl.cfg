\* Programs that kill, block and resume each other, Ctrl-C, failing mallocs.
SPECIFICATION Spec
CONSTANTS
  idle = idle  init = init  shell = shell
  a = a  b = b  c = c  m = m
  Slot = {idle, init, shell, a, b}
  Idle = idle
  InitProc = init
  Shell = shell
  UserSem = {}
  SemValue = 0
  MaxPid = 5
  MaxSem = 1
  MaxWaiters = 2
  MaxPrio = 2
  Calls = {"start", "kill", "wait", "rewait", "resume", "ctrlc", "block", "nomem"}
SYMMETRY SlotSymmetry
INVARIANTS TypeOK ReadyCountExact ScanFinds QueueExact PidsDistinct SemSound
