-------------------------- MODULE MCOrderLifecycle --------------------------
(* Instances of OrderLifecycle for TLC. *)
EXTENDS OrderLifecycle, FiniteSetsExt

CONSTANTS burger, tea, grill, bar, w1, w2, p1, p2, none

\* Prices and the restaurant's service fee, in percent.
Price == [i \in Items |-> IF i = burger THEN 2 ELSE 1]
FeePercent == 50

\* round(n / d) as Python rounds: to the nearest, halves to the even neighbour.
RoundHalfEven(n, d) ==
  LET q == n \div d
      r == n % d
  IN  IF 2 * r > d \/ (2 * r = d /\ q % 2 = 1) THEN q + 1 ELSE q

\* Order.recalculate_totals: the subtotal of the lines plus the service fee.
MCCost(bill) ==
  LET subtotal == MapThenSumSet(LAMBDA i : bill[i] * Price[i], Items)
  IN  subtotal + RoundHalfEven(subtotal * FeePercent, 100)

TwoStations == [i \in Items |-> IF i = burger THEN grill ELSE bar]
OneStation  == [i \in Items |-> IF i = burger THEN grill ELSE none]
=============================================================================
