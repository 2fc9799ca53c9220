\* Callers, consumers and the clock go on.
SPECIFICATION FairSpec
CONSTANTS
  c1 = c1  c2 = c2  k1 = k1  k2 = k2
  NoCommand = NoCommand
  Commands = {c1}
  Conns = {k1, k2}
INVARIANTS
  TypeOK
  RunsOncePerSocket
PROPERTIES
  IsRemoteCommand
  CallsEnd
  StatusFollowsConnection
