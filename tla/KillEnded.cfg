SPECIFICATION Spec
CONSTANTS
  N = 3
  MaxMade = 5
  KillsMortal = TRUE
INVARIANT
  IdleSparesUsers
