SPECIFICATION UserTestSpec
CONSTANTS
  a = a
  b = b
  c = c
  f1 = f1
  f2 = f2
  f3 = f3
  Mm = {a, b, c}
  Page <- MCPages
  Frame = {f1, f2, f3}
  Total = 10
  Table = {"pd", "pt1", "pt2"}
  PathOf <- MCPaths
  Value = {0, 1}
  Zero = 0
  Layout <- MCLayouts
  Kernel = Kernel
  None = None
SYMMETRY Symmetries
INVARIANTS
  NoDoubleFree
