\* Three requests for an order while the restaurant's settings are changed.
SPECIFICATION FairSpec
CONSTANTS
  w1 = w1  w2 = w2  w3 = w3  e1 = e1  e2 = e2
  Nobody = Nobody
  Creators = {w1, w2, w3}
  Editors = {e1, e2}
PROPERTIES
  IsNumbering
  OrdersGetMade
