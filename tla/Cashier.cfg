\* One request after another on two cash desks, with a worker that may die.
\* The shift and payment rows are bounded: the system may stop.
CHECK_DEADLOCK FALSE
SPECIFICATION Spec
CONSTANTS
  w1 = w1  w2 = w2  d1 = d1  d2 = d2  c1 = c1  c2 = c2  p1 = p1  p2 = p2
  NoDesk = NoDesk
  NoOne = NoOne
  Workers = {w1}
  Desks = {d1, d2}
  Cashiers = {c1, c2}
  Payments = {p1, p2}
  Keys = {NoDesk}
  MaxShifts = 2
  Flows = {"charge", "terminal"}
  MayCrash = TRUE
INVARIANTS
  TypeOK
  CountedIsTaken
  ClosedIsResolved
SYMMETRY Symmetry
