-------------------------- MODULE FixedPointProofs --------------------------
(***************************************************************************)
(* What the fixed-point operators guarantee for every operand: the bounds  *)
(* the market's proofs rest on.                                            *)
(***************************************************************************)
EXTENDS FixedPoint, TLAPS

\* Integer division: the quotient of a natural number by a positive one.
LEMMA DivBounds ==
  ASSUME NEW n \in Nat, NEW c \in Nat \ {0}
  PROVE  /\ n \div c \in Nat
         /\ c * (n \div c) <= n
         /\ n < c * (n \div c) + c
  BY SMT

LEMMA ProductInNat ==
  ASSUME NEW a \in Nat, NEW b \in Nat
  PROVE  a * b \in Nat
  BY SMT

\* mul_div_floor returns a natural number and never more than the quotient.
LEMMA FloorBounds ==
  ASSUME NEW a \in Nat, NEW b \in Nat, NEW c \in Nat \ {0}
  PROVE  /\ MulDivFloor(a, b, c) \in Nat
         /\ MulDivFloor(a, b, c) * c <= a * b
         /\ a * b < MulDivFloor(a, b, c) * c + c
  <1> DEFINE n == a * b
  <1>1. n \in Nat  BY ProductInNat
  <1> HIDE DEF n
  <1>2. n \div c \in Nat /\ c * (n \div c) <= n /\ n < c * (n \div c) + c
    BY <1>1, DivBounds
  <1> DEFINE q == n \div c
  <1>3. q * c = c * q  BY <1>2, SMT
  <1>4. q \in Nat /\ q * c <= n /\ n < q * c + c  BY <1>2, <1>3
  <1>5. QED  BY <1>4 DEF n, MulDivFloor

\* mul_div_ceil returns a natural number and never less than the quotient.
LEMMA CeilBounds ==
  ASSUME NEW a \in Nat, NEW b \in Nat, NEW c \in Nat \ {0}
  PROVE  /\ MulDivCeil(a, b, c) \in Nat
         /\ MulDivCeil(a, b, c) * c >= a * b
  <1> DEFINE n == a * b
             m == n + c - 1
             q == m \div c
  <1>1. n \in Nat  BY ProductInNat
  <1> HIDE DEF n
  <1>2. m \in Nat  BY <1>1
  <1> HIDE DEF m
  <1>3. q \in Nat /\ c * q <= m /\ m < c * q + c  BY <1>2, DivBounds
  <1> HIDE DEF q
  <1>4. q * c = c * q /\ c * q \in Nat  BY <1>3, SMT
  <1>5. q * c >= n  BY <1>1, <1>3, <1>4 DEF m
  <1>6. QED  BY <1>3, <1>5 DEF n, m, q, MulDivCeil

\* A common positive factor cancels.
LEMMA CancelFactor ==
  ASSUME NEW a \in Nat, NEW b \in Nat, NEW c \in Nat \ {0}, a * c <= b * c
  PROVE  a <= b
  BY SMT

LEMMA ProductMonotone ==
  ASSUME NEW a \in Nat, NEW b \in Nat, NEW c \in Nat, a <= b
  PROVE  a * c <= b * c
  BY SMT

\* Rounding down gives the greatest quotient that fits, rounding up the least
\* that covers.
LEMMA FloorIsGreatest ==
  ASSUME NEW a \in Nat, NEW b \in Nat, NEW c \in Nat \ {0}, NEW q \in Nat,
         q * c <= a * b
  PROVE  q <= MulDivFloor(a, b, c)
  <1> DEFINE n == a * b
             f == MulDivFloor(a, b, c)
  <1>1. n \in Nat  BY ProductInNat
  <1>2. f \in Nat /\ n < f * c + c  BY FloorBounds
  <1>3. q * c <= n  OBVIOUS
  <1> HIDE DEF n, f
  <1>4. SUFFICES ASSUME q >= f + 1 PROVE FALSE  BY <1>2 DEF f
  <1>5. q * c >= (f + 1) * c  BY <1>2, <1>4, ProductMonotone
  <1>6. (f + 1) * c = f * c + c /\ f * c \in Nat /\ q * c \in Nat  BY <1>2, SMT
  <1>7. QED  BY <1>1, <1>2, <1>3, <1>5, <1>6

LEMMA CeilIsLeast ==
  ASSUME NEW a \in Nat, NEW b \in Nat, NEW c \in Nat \ {0}, NEW q \in Nat,
         a * b <= q * c
  PROVE  MulDivCeil(a, b, c) <= q
  <1> DEFINE n == a * b
             m == n + c - 1
             u == m \div c
  <1>1. n \in Nat  BY ProductInNat
  <1>2. n <= q * c  OBVIOUS
  <1> HIDE DEF n
  <1>3. m \in Nat  BY <1>1
  <1>4. m < q * c + c  BY <1>1, <1>2, SMT DEF m
  <1> HIDE DEF m
  <1>5. u \in Nat /\ c * u <= m  BY <1>3, DivBounds
  <1> HIDE DEF u
  <1>6. SUFFICES ASSUME u >= q + 1 PROVE FALSE  BY <1>5 DEF u, m, n, MulDivCeil
  <1>7. u * c >= (q + 1) * c  BY <1>5, <1>6, ProductMonotone
  <1>8. (q + 1) * c = q * c + c /\ c * u = u * c /\ q * c \in Nat /\ u * c \in Nat
    BY <1>5, SMT
  <1>9. QED  BY <1>3, <1>4, <1>5, <1>7, <1>8

\* If x shares at rate k cover p units of face, then y shares that are at
\* least the same fraction of x as q is of p cover q units.
LEMMA SameShareCovers ==
  ASSUME NEW x \in Nat, NEW k \in Nat, NEW p \in Nat \ {0}, NEW w \in Nat,
         NEW y \in Nat, NEW q \in Nat,
         x * k >= p * w,
         y * p >= x * q
  PROVE  y * k >= q * w
  <1>1. (y * p) * k >= (x * q) * k  BY SMT
  <1>2. (x * k) * q >= (p * w) * q  BY SMT
  <1>3. (y * k) * p >= (q * w) * p  BY <1>1, <1>2, SMT
  <1>4. y * k \in Nat /\ q * w \in Nat  BY ProductInNat
  <1>5. QED  BY <1>3, <1>4, CancelFactor

\* Yield is a natural number of shares, and (rounded down twice) never worth
\* more than the asset gain it stands for: owed * r * c <= balance*(r-c)*WAD.
LEMMA OwedSharesBounds ==
  ASSUME NEW balance \in Nat, NEW c \in Nat \ {0}, NEW r \in Nat, c <= r
  PROVE  /\ OwedShares(balance, c, r) \in Nat
         /\ (OwedShares(balance, c, r) * r) * c <= (balance * (r - c)) * WAD
  <1> DEFINE gain == MulDivFloor(balance, r - c, c)
             owed == MulDivFloor(gain, WAD, r)
  <1>1. r - c \in Nat /\ r \in Nat \ {0} /\ WAD \in Nat
    BY WadAssumption
  <1>2. gain \in Nat /\ gain * c <= balance * (r - c)  BY <1>1, FloorBounds
  <1> HIDE DEF gain
  <1>3. owed \in Nat /\ owed * r <= gain * WAD  BY <1>1, <1>2, FloorBounds
  <1> HIDE DEF owed
  <1>4. (owed * r) * c <= (gain * WAD) * c
    BY <1>1, <1>2, <1>3, ProductInNat, ProductMonotone
  <1>5. balance * (r - c) \in Nat /\ gain * c \in Nat
    BY <1>1, <1>2, ProductInNat
  <1>6. (gain * c) * WAD <= (balance * (r - c)) * WAD
    BY <1>1, <1>2, <1>5, ProductMonotone
  <1>7. (gain * WAD) * c = (gain * c) * WAD  BY <1>1, <1>2, SMT
  <1>8. (owed * r) * c <= (balance * (r - c)) * WAD
    <2>1. (owed * r) * c \in Nat /\ (gain * WAD) * c \in Nat
          /\ (balance * (r - c)) * WAD \in Nat
      BY <1>1, <1>2, <1>3, <1>5, ProductInNat
    <2>2. QED  BY <2>1, <1>4, <1>6, <1>7
  <1>9. QED  BY <1>3, <1>8 DEF owed, gain, OwedShares
=============================================================================
