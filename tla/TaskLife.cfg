SPECIFICATION Spec
CONSTANTS
  N = 3
  MaxMade = 5
  KillsMortal = FALSE
INVARIANTS
  StacksAccounted
  UsersEnded
  IdleFreesEnded
