SPECIFICATION Spec
CONSTANTS
  Sessions = {c1, c2, c3}
  NoSession = NoSession
  IdSpace = 2
SYMMETRY Symmetry
INVARIANTS
  TypeOK
  HandlerTable
  AnsweredOnce
  ResetIsLast
  ReceiveLoop
  WrongReplyNeedsWrap
  CollisionNeedsWrap
PROPERTY KeepsPromise
CHECK_DEADLOCK FALSE
