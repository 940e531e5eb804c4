SPECIFICATION Spec
CONSTANTS
  Sessions = {c1, c2, c3}
  NoSession = NoSession
  IdSpace = 2
SYMMETRY Symmetry
INVARIANT NoUseAfterDestruction
CHECK_DEADLOCK FALSE
