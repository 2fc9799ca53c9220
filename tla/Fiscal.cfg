\* One payment in two parts; two workers that may die, retries and lost answers.
\* Nobody has to retry, and the rows and registrations are bounded: the system may stop.
CHECK_DEADLOCK FALSE
SPECIFICATION Spec
CONSTANTS
  w1 = w1  w2 = w2
  Workers = {w1, w2}
  NumParts = 2
  MaxRows = 3
  MaxRegistered = 3
  MayCrash = TRUE
INVARIANTS
  TypeOK
  SentIsRegistered
  RegisteredOnce
  ResolvedIsRegistered
  RetryIsPossible
SYMMETRY Symmetry
