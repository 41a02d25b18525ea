SPECIFICATION ListSpec
CONSTANTS
  Task = {t1, t2, t3, t4, t5}
  NULL = NULL
SYMMETRY Symmetry
INVARIANTS
  ListIsQueue
  FindsWhatStays
