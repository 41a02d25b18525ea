SPECIFICATION Spec
CONSTANTS
  f1 = f1
  f2 = f2
  f3 = f3
  f4 = f4
  f5 = f5
  shell = shell
  idle = idle
  fork = fork
  None = None
  Frames <- MCFrames
  Window = 10
  PerTable = 4
  Tables0 <- MCTables
  Desc <- MCDesc
  PerSlab = 2
  Callers <- MCCallers
  Creators <- MCCreators
  Masked <- MCMasked
  Counts <- MCCounts
  Guards <- MCGuards
CONSTRAINT NoOverlap
SYMMETRY FrameSymmetry
INVARIANTS
  StacksApart
  OverflowIsDiagnosed
  AreasAccounted
