\* Two products: a marked one that may not be sold for cash, and one that may.
SPECIFICATION Spec
CONSTANTS
  bread = bread  tobacco = tobacco  barcode = barcode
  Workers = {w1, w2}
  Orders = {o1}
  Products = {bread, tobacco}
  Marked = {tobacco}
  CashForbidden = {tobacco}
  Codes = {c1, c2, barcode}
  ProductOf <- MCProductOf
  Price <- MCPrice
  FeePercent = 25
  MaxItems = 2
  MaxQty = 2
  MaxEdits = 1
  Together = {"scan", "delete", "charge"}
  AfterOverlap = FALSE
SYMMETRY Interchangeable
\* Nobody has to send a request: the system may stop.
CHECK_DEADLOCK FALSE
INVARIANTS
  TypeOK
  CodeOnce
  ClosedIsMarked
  ReceiptsAddUp
