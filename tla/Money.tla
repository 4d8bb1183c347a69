------------------------------- MODULE Money -------------------------------
(***************************************************************************)
(* Amounts of money as the code computes them: exact decimals in requests, *)
(* whole cents in the database.  An exact amount is an integer number of   *)
(* units, SubUnits of them to the cent; a stored amount is a number of     *)
(* cents.                                                                  *)
(***************************************************************************)
EXTENDS Integers

CONSTANT SubUnits       \* units in a cent: the finest fraction a request sends

ASSUME SubUnitsAssumption == SubUnits \in Nat \ {0}

\* Decimal.quantize(Decimal("0.01"), ROUND_HALF_UP) of a non-negative amount
\* rounds half a cent upwards.
HalfUp(a) == (2 * a + SubUnits) \div (2 * SubUnits)

\* The same for a signed amount: an entry is positive, an exit negative, and
\* the code rounds the absolute amount before it adds or subtracts it.
Quantize(a) == IF a >= 0 THEN HalfUp(a) ELSE -HalfUp(-a)

\* A stored amount as an exact one.
Exact(cents) == cents * SubUnits
============================================================================
