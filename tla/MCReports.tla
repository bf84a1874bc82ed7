------------------------------ MODULE MCReports -------------------------------
(***************************************************************************)
(* Reports for TLC: two orders out of three sales, a refund, one report at *)
(* a time, and three years of two short months, the third one with a leap  *)
(* day. A behaviour lasts a night from any day of the third year.          *)
(***************************************************************************)
EXTENDS Reports, TLC

CONSTANTS o1, o2, f1, r1

MCOrders == {o1, o2}
MCRefunds == {f1}
MCRequests == {r1}
MCMonthDays == <<2, 1, 2, 1, 3, 2>>
MCOpenings == 6..9

Line(product, total, taxRate) == [product |-> product, total |-> total, taxRate |-> taxRate]

\* Two lines sold to an unknown customer for cash, with a cart discount; an order
\* without staff, not paid yet, that is shipped for more than its discount.
MCCatalog ==
  {[place |-> "north", staff |-> "ann", customer |-> "none", method |-> "cash",
    lines |-> {Line("tea", 2, "low"), Line("mug", 1, "high")}, discount |-> 1, shipping |-> 0],
   [place |-> "south", staff |-> "none", customer |-> "carol", method |-> "none",
    lines |-> {Line("tea", 2, "low")}, discount |-> 1, shipping |-> 2]}

MCCategoriesOf == [tea |-> {"drinks", "gifts"}, mug |-> {}]
MCAmounts == {1}
MCAsked == {"7d"}

Symmetry == Permutations(MCOrders)
=============================================================================
