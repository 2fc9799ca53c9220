\* Takeaway orders; a worker may die in the middle of a request.
SPECIFICATION Spec
CONSTANTS
  burger = burger  tea = tea  grill = grill  bar = bar
  w1 = w1  w2 = w2  p1 = p1  p2 = p2  none = none
  NoStation = none
  Cost <- MCCost
  StationOf <- TwoStations
  Workers = {w1}
  Items = {burger}
  Stations = {grill}
  MaxQty = 1
  Payments = {p1, p2}
  Amounts = {1, 2, 3, 4}
  Channel = "takeaway"
  Kinds = {"items", "submit", "patch", "pay"}
  Flows = {"charge", "terminal"}
  PosItemStatuses = {"new"}
  PatchStatuses = {}
  MayCrash = TRUE
PROPERTIES
  ClosedWhenCovered
