SPECIFICATION FairSpec
CONSTANTS
  Shell = shell
  Idle = idle
  t1 = t1
  t2 = t2
  Task = {shell, idle, t1, t2}
  NPrio = 3
  MEDIUM = 1
  PROCESSOR_TIME = 2
  KernelCR3 = kernel
  MaxReprio = 1
INVARIANTS
  TypeOK
  QueuesExact
  WaitListExact
  AddressSpaceLive
  NextTaskFound
PROPERTIES
  SliceEnds
  TurnComes
  DeadReclaimed
