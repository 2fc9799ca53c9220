\* Two workers: requests overlap wherever the code lets them.
\* Nobody has to send a request: the system may stop.
CHECK_DEADLOCK FALSE
SPECIFICATION FairSpec
CONSTANTS
  burger = burger  tea = tea  grill = grill  bar = bar
  w1 = w1  w2 = w2  p1 = p1  p2 = p2  none = none
  NoStation = none
  Cost <- MCCost
  StationOf <- TwoStations
  Workers = {w1, w2}
  Items = {burger}
  Stations = {grill}
  MaxQty = 2
  Payments = {p1, p2}
  Amounts = {2, 3, 6}
  Channel = "hall"
  Kinds = {"items", "submit", "pay"}
  Flows = {"charge"}
  PosItemStatuses = {"new"}
  PatchStatuses = {}
  MayCrash = FALSE
INVARIANTS
  NoTicketBeforeSubmission
  ClosedFreesTheTable
PROPERTIES
  ChargedMeansClosed
  ChargesSettle
