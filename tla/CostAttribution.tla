--------------------------- MODULE CostAttribution ---------------------------
(***************************************************************************)
(* The cost arithmetic of the Runtime Gateway                              *)
(* (runtime_gateway/domain/cost.py).  Amounts are integers counted in the  *)
(* code's COST_QUANTUM, 10^-12 USD: a configured rate has at most twelve   *)
(* decimals, so a rate is an integer number of quanta per basis_units      *)
(* units, and quantizing a quotient to twelve decimals is rounding it to   *)
(* an integer number of quanta.                                            *)
(***************************************************************************)
EXTENDS Integers

CONSTANT Unknown        \* a usage dimension or a cost stored as NULL

(***************************************************************************)
(* Decimal.quantize(COST_QUANTUM, rounding=ROUND_HALF_EVEN) of n / d.      *)
(***************************************************************************)
RoundHalfEven(n, d) ==
  LET q == n \div d
      r == n % d
  IN  IF \/ 2 * r < d
         \/ 2 * r = d /\ q % 2 = 0
      THEN q
      ELSE q + 1

ComponentCost(units, rate, basis) == RoundHalfEven(units * rate, basis)

(***************************************************************************)
(* attribute_cost: no cost without a price, nor when the input or output   *)
(* units of the answer are missing; the total is the exact sum of the two  *)
(* rounded components.  A price is NULL (Unknown) for a model without a    *)
(* pricing entry.                                                          *)
(***************************************************************************)
CostWithoutUnitsGuard(usage, price) ==
  IF price = Unknown \/ usage.output = Unknown
  THEN Unknown
  ELSE LET units == [usage EXCEPT !.input = IF @ = Unknown THEN 0 ELSE @]
       IN  ComponentCost(units.input, price.input, price.basis)
             + ComponentCost(units.output, price.output, price.basis)

AttributedCost(usage, price) ==
  IF price = Unknown \/ Unknown \in {usage.input, usage.output}
  THEN Unknown
  ELSE ComponentCost(usage.input, price.input, price.basis)
         + ComponentCost(usage.output, price.output, price.basis)

(***************************************************************************)
(* What a rounding promises, without naming a quotient: q is the nearest   *)
(* integer to n / d, and the even one of the two when both are as near.    *)
(***************************************************************************)
Distance(q, n, d) == IF q * d >= n THEN q * d - n ELSE n - q * d

NearestEven(q, n, d) ==
  /\ 2 * Distance(q, n, d) <= d
  /\ 2 * Distance(q, n, d) = d => q % 2 = 0
=============================================================================
