\* One worker: every sequence of complete requests.
SPECIFICATION Spec
CONSTANTS
  burger = burger  tea = tea  grill = grill  bar = bar
  w1 = w1  w2 = w2  p1 = p1  p2 = p2  none = none
  NoStation = none
  Cost <- MCCost
  StationOf <- TwoStations
  Workers = {w1}
  Items = {burger, tea}
  Stations = {grill, bar}
  MaxQty = 1
  Payments = {p1, p2}
  Amounts = {1, 2, 3, 4}
  Channel = "hall"
  Kinds = {"items", "submit", "patch", "kitchen", "pay"}
  Flows = {"charge", "terminal"}
  PosItemStatuses = {"new", "served"}
  PatchStatuses = {"cancelled"}
  MayCrash = FALSE
INVARIANTS
  TypeOK
  TicketsShowTheItems
  ReadyMeansAllDone
  TotalIsTheBill
PROPERTIES
  ClosedWhenCovered
