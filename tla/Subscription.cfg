\* One task that goes on and may be killed, one admin who sends every kind of request.
\* The day is bounded: when it has reached the bound the admin may have nothing to send.
SPECIFICATION FairSpec
CONSTANTS
  t1 = t1  t2 = t2  a1 = a1  a2 = a2
  Nobody = Nobody
  Tasks = {t1}
  Admins = {a1}
  Kinds = {"top_up", "extend", "activate", "deactivate", "settings"}
  Amounts = {1, 2}
  Price = 2
  Period = 1
  MayCrash = TRUE
  MaxDay = 4
  MaxPaid = 4
INVARIANTS
  BalanceAdds
  NeverOverdrawn
  ChargedOnce
PROPERTIES
  ExpiryIsHandled
CHECK_DEADLOCK FALSE
