SPECIFICATION Spec
CONSTANTS
  Workers = {w1, w2}
  Tables = {t1, t2}
  Sessions = {s1, s2}
  Orders = {o1, o2}
  NoTable = NoTable
  NoSession = NoSession
  FormStatus = {"available", "blocked"}
  EditStatus = {"open", "pending_payment"}
  AfterOverlap = FALSE
SYMMETRY Interchangeable
CHECK_DEADLOCK FALSE
INVARIANTS
  OneSessionPerTable
  TableShowsSession
  UnpaidOrderIsSeated
PROPERTIES
  IsSeating
