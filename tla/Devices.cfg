SPECIFICATION FairSpec
CONSTANTS
  Ops = {o1}
  Kinds = {"sale", "open", "close", "charge"}
  Urls = {u1, u2, u3}
  NoUrl = NoUrl
  MaxMoves = 2
\* When all operations have ended nothing has to happen.
CHECK_DEADLOCK FALSE
INVARIANTS
  ActsOnce
PROPERTIES
  IsRemoteCommand
  OperationsEnd
