---------------------------- MODULE MoneyLemmas ----------------------------
(***************************************************************************)
(* Rounding and movements of money keep their types, and a movement that   *)
(* apply_movement does not refuse never makes a balance negative.          *)
(***************************************************************************)
EXTENDS WalletService, TLAPS

LEMMA HalfUpNat == ASSUME NEW a \in Nat PROVE HalfUp(a) \in Nat
<1> DEFINE n == 2 * a + SubUnits
           d == 2 * SubUnits
<1>1. n \in Nat /\ d \in Nat /\ d > 0
  BY SubUnitsAssumption
<1> HIDE DEF n, d
<1>2. n \div d \in Nat
  BY <1>1
<1> QED BY <1>2 DEF HalfUp, n, d

LEMMA QuantizeInt ==
  ASSUME NEW a \in Int
  PROVE  Quantize(a) \in Int /\ (a >= 0 => Quantize(a) \in Nat)
<1>1. CASE a >= 0
  BY <1>1, HalfUpNat DEF Quantize
<1>2. CASE ~(a >= 0)
  <2>1. -a \in Nat
    BY <1>2
  <2>2. HalfUp(-a) \in Nat
    BY <2>1, HalfUpNat
  <2> QED BY <1>2, <2>2 DEF Quantize
<1> QED BY <1>1, <1>2

\* A movement that apply_movement accepts leaves a natural balance.
LEMMA AppliedNat ==
  ASSUME NEW row \in WalletRow, NEW raw \in Int, CanApply(row, raw)
  PROVE  /\ Applied(row, raw) \in Nat
         /\ row.status = "active"
         /\ Quantize(raw) = Applied(row, raw) - row.balance
<1>1. row.balance \in Nat /\ Quantize(raw) \in Int
  BY QuantizeInt DEF WalletRow
<1>2. CASE raw >= 0
  BY <1>1, <1>2, QuantizeInt DEF Applied, CanApply
<1>3. CASE raw < 0
  BY <1>1, <1>3 DEF Applied, CanApply
<1> QED BY <1>2, <1>3

\* A quotient is known by its remainder.
LEMMA DivUnique ==
  ASSUME NEW n \in Nat, NEW d \in Nat \ {0}, NEW q \in Nat, d * q <= n, n < d * q + d
  PROVE  n \div d = q
<1> DEFINE p == n \div d
<1>1. p \in Int /\ d * p <= n /\ n < d * p + d
  OBVIOUS
<1> HIDE DEF p
<1>2. ~(p < q)
  <2> SUFFICES ASSUME p < q PROVE FALSE
    OBVIOUS
  <2>1. p + 1 <= q
    BY <1>1
  <2>2. d * (p+1) <= d * q
    BY <1>1, <2>1
  <2> QED BY <1>1, <2>2
<1>3. ~(q < p)
  <2> SUFFICES ASSUME q < p PROVE FALSE
    OBVIOUS
  <2>1. q + 1 <= p
    BY <1>1
  <2>2. d * (q+1) <= d * p
    BY <1>1, <2>1
  <2> QED BY <1>1, <2>2
<1> QED BY <1>1, <1>2, <1>3 DEF p

LEMMA HalfUpExact == ASSUME NEW c \in Nat PROVE HalfUp(Exact(c)) = c
<1> DEFINE n == 2 * Exact(c) + SubUnits
           d == 2 * SubUnits
<1>1. n \in Nat /\ d \in Nat \ {0} /\ d * c <= n /\ n < d * c + d
  BY SubUnitsAssumption DEF Exact
<1> HIDE DEF n, d
<1>2. n \div d = c
  BY <1>1, DivUnique
<1> QED BY <1>2 DEF HalfUp, n, d

\* Rounding leaves whole cents alone.
LEMMA QuantizeExact == ASSUME NEW c \in Int PROVE Quantize(Exact(c)) = c /\ Exact(c) \in Int
<1>1. Exact(c) \in Int /\ (c >= 0 => Exact(c) >= 0) /\ (c < 0 => Exact(c) < 0) /\ -Exact(c) = Exact(-c)
  BY SubUnitsAssumption DEF Exact
<1>2. CASE c >= 0
  BY <1>1, <1>2, HalfUpExact DEF Quantize
<1>3. CASE c < 0
  <2>1. -c \in Nat /\ HalfUp(Exact(-c)) = -c
    BY <1>3, HalfUpExact
  <2> QED BY <1>1, <1>3, <2>1 DEF Quantize
<1> QED BY <1>2, <1>3

\* Half a cent is rounded away from zero, on both sides.
LEMMA QuantizeOdd == ASSUME NEW a \in Nat PROVE Quantize(-a) = -Quantize(a)
<1>1. CASE a = 0
  <2>1. Exact(0) = 0
    BY SubUnitsAssumption DEF Exact
  <2>2. Quantize(0) = 0
    BY <2>1, QuantizeExact
  <2> QED BY <1>1, <2>2
<1>2. CASE a > 0
  BY <1>2, HalfUpNat DEF Quantize
<1> QED BY <1>1, <1>2

\* A factor greater than zero can be left out.
LEMMA FactorOut ==
  ASSUME NEW d \in Nat \ {0}, NEW u \in Int, NEW v \in Int
  PROVE  (d * u <= d * v => u <= v) /\ (d * u < d * v => u < v)
<1>1. ASSUME v + 1 <= u PROVE d * (v + 1) <= d * u
  BY <1>1
<1>2. ASSUME v <= u PROVE d * v <= d * u
  BY <1>2
<1>3. d * (v + 1) = d * v + d
  OBVIOUS
<1> QED BY <1>1, <1>2, <1>3

\* What rounding does to twice an amount.
LEMMA HalfUpBounds ==
  ASSUME NEW a \in Nat
  PROVE  /\ HalfUp(a) \in Nat /\ 2 * SubUnits \in Nat \ {0}
         /\ (2 * SubUnits) * HalfUp(a) <= 2 * a + SubUnits
         /\ 2 * a + SubUnits < (2 * SubUnits) * HalfUp(a) + 2 * SubUnits
<1> DEFINE n == 2 * a + SubUnits
           d == 2 * SubUnits
<1>1. n \in Nat /\ d \in Nat \ {0}
  BY SubUnitsAssumption
<1> HIDE DEF n, d
<1>2. n \div d \in Nat /\ d * (n \div d) <= n /\ n < d * (n \div d) + d
  BY <1>1
<1> QED BY <1>1, <1>2 DEF HalfUp, n, d

\* Whole cents are added before rounding or after it.
LEMMA HalfUpShift ==
  ASSUME NEW a \in Nat, NEW c \in Nat
  PROVE  HalfUp(a + Exact(c)) = HalfUp(a) + c
<1> DEFINE n == 2 * (a + Exact(c)) + SubUnits
           d == 2 * SubUnits
           q == HalfUp(a)
<1>1. q \in Nat /\ d \in Nat \ {0} /\ d * q <= 2 * a + SubUnits /\ 2 * a + SubUnits < d * q + d
  BY HalfUpBounds
<1>2. n \in Nat /\ n = 2 * a + SubUnits + d * c
  BY SubUnitsAssumption DEF Exact
<1> HIDE DEF n, d, q
<1>3. d * (q + c) = d * q + d * c /\ d * c \in Nat /\ d * q \in Nat
  BY <1>1
<1>4. d * (q + c) <= n /\ n < d * (q + c) + d
  BY <1>1, <1>2, <1>3, SubUnitsAssumption
<1>5. n \div d = q + c
  BY <1>1, <1>2, <1>4, DivUnique
<1> QED BY <1>5 DEF HalfUp, n, d, q

\* Two parts of whole cents are rounded to as many cents, or to one more.
LEMMA HalfUpParts ==
  ASSUME NEW a \in Nat, NEW x \in Nat, NEW c \in Nat, a + x = Exact(c)
  PROVE  HalfUp(a) + HalfUp(x) = c \/ HalfUp(a) + HalfUp(x) = c + 1
<1> DEFINE d == 2 * SubUnits
           p == HalfUp(a)
           q == HalfUp(x)
<1>1. /\ p \in Nat /\ d \in Nat \ {0} /\ d * p <= 2 * a + SubUnits /\ 2 * a + SubUnits < d * p + d
      /\ q \in Nat /\ d * q <= 2 * x + SubUnits /\ 2 * x + SubUnits < d * q + d
  BY HalfUpBounds
<1>2. 2 * a + 2 * x + 2 * SubUnits = d * c + d /\ SubUnits \in Nat
  BY SubUnitsAssumption DEF Exact
<1> HIDE DEF d, p, q
<1>3. /\ d * (p + q) = d * p + d * q /\ d * (c + 1) = d * c + d
      /\ d * (p + q + 2) = d * p + d * q + d + d
      /\ d * p \in Nat /\ d * q \in Nat /\ d * c \in Nat
  BY <1>1
<1>4. d * (p + q) <= d * (c + 1) /\ d * (c + 1) < d * (p + q + 2)
  BY <1>1, <1>2, <1>3
<1>5. p + q <= c + 1 /\ c + 1 < p + q + 2
  <2>1. p + q \in Int /\ c + 1 \in Int /\ p + q + 2 \in Int
    BY <1>1
  <2> QED BY <1>1, <1>4, <2>1, FactorOut
<1>6. p + q = c \/ p + q = c + 1
  BY <1>1, <1>5
<1> QED BY <1>6 DEF p, q

=============================================================================
