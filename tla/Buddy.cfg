SPECIFICATION Spec
CONSTANTS
  Total = 32
  MaxOrder = 4
  Firmwares <- MCFirmwares
  KernelEnds <- MCKernelEnds
  PageSize = 8
  LargePage = 16
  PdSpan = 96
  MaxEntries = 5
  MinTop = 120
  Window = 240
  KernelBase = 32
  BootTables <- MCBootTables
  Zeroed <- MCZeroed
  Fixed <- MCFixed
  IstEnd = 72
  BitmapWord = 8
  VmallocSlots = 1
INVARIANTS
  ListsExact
  ListsUseful
  MapFaithful
  FreeFramesAreUnused
  SufficientMachinesBoot
PROPERTIES
  HandsOutFreeRuns
