SPECIFICATION LoadSpec
CONSTANTS
  Word = 512
  PageSize = 4
  Fan = 4
  Depth = 3
  Frame = {1, 2, 3, 4, 5, 6, 7}
  KernelTable = 100
  FileSize = 6
  PhSize = 2
  Phoffs <- MCPhoffs
  MaxPhnum = 2
  Phdrs <- MCPhdrs
  StackStart = 112
  StackEnd = 120
INVARIANTS
  ImageLoaded
  RightsMatch
  FramesAccounted
  ReadsInside
