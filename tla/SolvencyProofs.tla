--------------------------- MODULE SolvencyProofs ---------------------------
(***************************************************************************)
(* The market's solvency to the last unit, for any finite set of holders:  *)
(* what the sums over holders are, the allocation of the escrow among them *)
(* that every step preserves, and the two solvency theorems.               *)
(***************************************************************************)
EXTENDS MarketSolvency, TokenizerProofs, FiniteSetTheorems, WellFoundedInduction

-----------------------------------------------------------------------------
(* Sums over a finite set.  Induction goes by a least counterexample.      *)

LEMMA LeastSubset ==
  ASSUME NEW S, IsFiniteSet(S), NEW Bad, Bad \subseteq SUBSET S, Bad # {}
  PROVE  \E A \in Bad : \A x \in A : A \ {x} \notin Bad
  <1>1. SUBSET S = FiniteSubsetsOf(S)  BY FS_FiniteSubsetsOfFinite
  <1>2. IsWellFoundedOn(StrictSubsetOrdering(S), SUBSET S)
    BY <1>1, FS_StrictSubsetOrderingWellFounded
  <1>3. PICK A \in Bad : \A B \in Bad : <<B, A>> \notin StrictSubsetOrdering(S)
    BY <1>2, WFMin
  <1>4. ASSUME NEW x \in A, A \ {x} \in Bad  PROVE FALSE
    <2>1. <<A \ {x}, A>> \in (SUBSET S) \X (SUBSET S)  BY <1>4
    <2>2. <<A \ {x}, A>> \in StrictSubsetOrdering(S)
      BY <2>1 DEF StrictSubsetOrdering
    <2>3. QED  BY <1>3, <1>4, <2>2
  <1>5. QED  BY <1>3, <1>4

\* One step of the fold that Total is: an element is taken out and added.
Picked(s) == CHOOSE x \in s : TRUE
SumStep(g, ledger, s) ==
  IF s = {} THEN 0 ELSE ledger[Picked(s)] + g[s \ {Picked(s)}]

Sums(A, ledger) == CHOOSE g : g = [s \in SUBSET A |-> SumStep(g, ledger, s)]

LEMMA TotalIsFold ==
  ASSUME NEW ledger \in Ledgers
  PROVE  Total(ledger) = Sums(Accounts, ledger)[Accounts]
  <1>1. DOMAIN ledger = Accounts  BY DEF Ledgers
  <1>2. QED
    BY <1>1 DEF Total, FoldFunction, FoldFunctionOnSet, MapThenFoldSet, Sums,
                SumStep, Picked

LEMMA PickedIsMember ==
  ASSUME NEW s, s # {}
  PROVE  Picked(s) \in s
  BY DEF Picked

\* The fold is well defined: some function meets its recursion.
LEMMA SumsExist ==
  ASSUME NEW A, IsFiniteSet(A), NEW ledger
  PROVE  \E g : g = [s \in SUBSET A |-> SumStep(g, ledger, s)]
  <1> DEFINE Solves(g, B) ==
               /\ DOMAIN g = SUBSET A
               /\ \A s \in SUBSET A :
                    Cardinality(s) <= Cardinality(B) => g[s] = SumStep(g, ledger, s)
             Bad == {B \in SUBSET A : ~\E g : g = [s \in SUBSET A |-> g[s]] /\ Solves(g, B)}
  <1>s. \A s \in SUBSET A : IsFiniteSet(s) /\ Cardinality(s) \in Nat
                            /\ Cardinality(s) <= Cardinality(A)
    BY FS_Subset, FS_CardinalityType
  <1>1. SUFFICES ASSUME Bad # {} PROVE FALSE
    <2>1. A \notin Bad  BY <1>1
    <2>2. PICK g : g = [s \in SUBSET A |-> g[s]] /\ Solves(g, A)  BY <2>1
    <2>3. \A s \in SUBSET A : g[s] = SumStep(g, ledger, s)  BY <1>s, <2>2
    <2>4. g = [s \in SUBSET A |-> SumStep(g, ledger, s)]  BY <2>2, <2>3
    <2>5. QED  BY <2>4
  <1>2. PICK B \in Bad : \A x \in B : B \ {x} \notin Bad
    <2>1. Bad \subseteq SUBSET A  OBVIOUS
    <2> HIDE DEF Bad
    <2>2. QED  BY <1>1, <2>1, LeastSubset
  <1>3. CASE B = {}
    <2> DEFINE g == [s \in SUBSET A |-> 0]
    <2>1. \A s \in SUBSET A : Cardinality(s) <= Cardinality({}) => s = {}
      BY <1>s, FS_EmptySet
    <2>2. Solves(g, B)  BY <1>3, <2>1 DEF SumStep
    <2>3. g = [s \in SUBSET A |-> g[s]]  OBVIOUS
    <2>4. QED  BY <2>2, <2>3
  <1>4. CASE B # {}
    <2>1. PICK x \in B : TRUE  BY <1>4
    <2>2. B \ {x} \in SUBSET A /\ B \ {x} \notin Bad  BY <1>2
    <2>3. PICK g : g = [s \in SUBSET A |-> g[s]] /\ Solves(g, B \ {x})  BY <2>2
    <2>4. Cardinality(B \ {x}) = Cardinality(B) - 1 /\ Cardinality(B) \in Nat
      BY <1>s, FS_RemoveElement
    <2> DEFINE h == [s \in SUBSET A |-> SumStep(g, ledger, s)]
    <2>5. ASSUME NEW s \in SUBSET A, Cardinality(s) <= Cardinality(B)
          PROVE  h[s] = SumStep(h, ledger, s)
      <3>1. CASE s = {}  BY <3>1 DEF SumStep
      <3>2. CASE s # {}
        <4> DEFINE r == s \ {Picked(s)}
        <4>1. Picked(s) \in s /\ r \in SUBSET A  BY <3>2, PickedIsMember
        <4>2. Cardinality(r) = Cardinality(s) - 1  BY <1>s, <4>1, FS_RemoveElement
        <4>3. Cardinality(s) \in Nat  BY <1>s
        <4>4. Cardinality(r) <= Cardinality(B \ {x})
          BY <2>4, <2>5, <4>2, <4>3
        <4>5. g[r] = SumStep(g, ledger, r)  BY <2>3, <4>1, <4>4
        <4>6. h[r] = g[r]  BY <4>1, <4>5
        <4>7. h[s] = ledger[Picked(s)] + g[r]  BY <3>2 DEF SumStep
        <4>8. QED  BY <3>2, <4>6, <4>7 DEF SumStep
      <3>3. QED  BY <3>1, <3>2
    <2>6. Solves(h, B) /\ h = [s \in SUBSET A |-> h[s]]  BY <2>5
    <2>7. QED  BY <2>6
  <1>5. QED  BY <1>3, <1>4

\* Summing the balances one by one gives every set of accounts its total,
\* whichever account is taken out first.
LEMMA SumsAreTotals ==
  ASSUME IsFiniteSet(Accounts), NEW ledger \in Ledgers
  PROVE  Totals(Sums(Accounts, ledger), ledger)
  <1> DEFINE S == Sums(Accounts, ledger)
  <1>1. S = [s \in SUBSET Accounts |-> SumStep(S, ledger, s)]
    BY SumsExist DEF Sums
  <1> HIDE DEF S
  <1>2. S[{}] = 0  BY <1>1 DEF SumStep
  <1>3. ASSUME NEW s \in SUBSET Accounts, s # {}
        PROVE  Picked(s) \in s /\ S[s] = ledger[Picked(s)] + S[s \ {Picked(s)}]
    BY <1>1, <1>3, PickedIsMember DEF SumStep
  <1>4. \A s \in SUBSET Accounts : S[s] \in Nat
    <2> DEFINE Bad == {s \in SUBSET Accounts : S[s] \notin Nat}
    <2>1. SUFFICES ASSUME Bad # {} PROVE FALSE  OBVIOUS
    <2>2. PICK s \in Bad : \A x \in s : s \ {x} \notin Bad
      <3>1. Bad \subseteq SUBSET Accounts  OBVIOUS
      <3> HIDE DEF Bad
      <3>2. QED  BY <2>1, <3>1, LeastSubset
    <2>3. s # {}  BY <1>2
    <2>4. S[s \ {Picked(s)}] \in Nat /\ ledger[Picked(s)] \in Nat
      BY <1>3, <2>2, <2>3 DEF Ledgers
    <2>5. S[s] = ledger[Picked(s)] + S[s \ {Picked(s)}]  BY <1>3, <2>2, <2>3
    <2>6. S[s] \in Nat  BY <2>4, <2>5
    <2>7. QED  BY <2>2, <2>6
  <1>5. ASSUME NEW B \in SUBSET Accounts, NEW y \in B
        PROVE  S[B] = S[B \ {y}] + ledger[y]
    <2> DEFINE Bad == {s \in SUBSET Accounts :
                         ~\A x \in s : S[s] = S[s \ {x}] + ledger[x]}
    <2>1. SUFFICES ASSUME Bad # {} PROVE FALSE  OBVIOUS
    <2>2. PICK s \in Bad : \A x \in s : s \ {x} \notin Bad
      <3>1. Bad \subseteq SUBSET Accounts  OBVIOUS
      <3> HIDE DEF Bad
      <3>2. QED  BY <2>1, <3>1, LeastSubset
    <2>3. ASSUME NEW x \in s  PROVE S[s] = S[s \ {x}] + ledger[x]
      <3> DEFINE c == Picked(s)
      <3>1. c \in s /\ S[s] = ledger[c] + S[s \ {c}]  BY <1>3
      <3>2. /\ ledger[c] \in Nat /\ ledger[x] \in Nat
            /\ S[s \ {c}] \in Nat /\ S[s \ {x}] \in Nat
        BY <1>4, <3>1 DEF Ledgers
      <3>3. CASE c = x  BY <3>1, <3>2, <3>3
      <3>4. CASE c # x
        <4> HIDE DEF c
        <4>1. x \in s \ {c} /\ c \in s \ {x}  BY <3>1, <3>4
        <4>2. S[s \ {c}] = S[(s \ {c}) \ {x}] + ledger[x]
          BY <2>2, <3>1, <4>1
        <4>3. S[s \ {x}] = S[(s \ {x}) \ {c}] + ledger[c]
          BY <2>2, <4>1
        <4>4. (s \ {c}) \ {x} = (s \ {x}) \ {c}  OBVIOUS
        <4>5. S[(s \ {x}) \ {c}] \in Nat  BY <1>4
        <4>6. QED  BY <3>1, <3>2, <4>2, <4>3, <4>4, <4>5
      <3>5. QED  BY <3>3, <3>4
    <2>4. QED  BY <2>2, <2>3
  <1>6. S \in [SUBSET Accounts -> Nat]  BY <1>1, <1>4
  <1>7. QED  BY <1>2, <1>5, <1>6 DEF Totals, S

LEMMA AccountsAreFinite == IsFiniteSet(Accounts)
  BY FiniteHolders, FS_AddElement DEF Accounts

LEMMA TotalOfLedger ==
  ASSUME NEW ledger \in Ledgers
  PROVE  HasTotal(ledger, Total(ledger)) /\ Total(ledger) \in Nat
  <1>1. Totals(Sums(Accounts, ledger), ledger)
    BY AccountsAreFinite, SumsAreTotals
  <1>2. Total(ledger) = Sums(Accounts, ledger)[Accounts]  BY TotalIsFold
  <1>3. Sums(Accounts, ledger)[Accounts] \in Nat  BY <1>1 DEF Totals
  <1>4. QED  BY <1>1, <1>2, <1>3 DEF HasTotal

\* Where every balance, scaled, is within another ledger's, so is the total.
LEMMA TotalsCompare ==
  ASSUME NEW small \in Ledgers, NEW large \in Ledgers, NEW k \in Nat,
         NEW m, NEW n, HasTotal(small, m), HasTotal(large, n),
         \A a \in Accounts : k * small[a] <= large[a]
  PROVE  k * m <= n
  <1>1. PICK S : Totals(S, small) /\ S[Accounts] = m  BY DEF HasTotal
  <1>2. PICK T : Totals(T, large) /\ T[Accounts] = n  BY DEF HasTotal
  <1> DEFINE Bad == {A \in SUBSET Accounts : ~(k * S[A] <= T[A])}
  <1>3. SUFFICES ASSUME Bad # {} PROVE FALSE  BY <1>1, <1>2
  <1>4. PICK A \in Bad : \A x \in A : A \ {x} \notin Bad
    <2>1. Bad \subseteq SUBSET Accounts  OBVIOUS
    <2> HIDE DEF Bad
    <2>2. QED  BY <1>3, <2>1, AccountsAreFinite, LeastSubset
  <1>5. CASE A = {}
    <2>1. S[{}] = 0 /\ T[{}] = 0  BY <1>1, <1>2 DEF Totals
    <2>2. k * 0 <= 0  BY SMT
    <2>3. QED  BY <1>4, <1>5, <2>1, <2>2
  <1>6. CASE A # {}
    <2>1. PICK x \in A : TRUE  BY <1>6
    <2>2. /\ S[A] = S[A \ {x}] + small[x] /\ T[A] = T[A \ {x}] + large[x]
          /\ S[A \ {x}] \in Nat /\ T[A \ {x}] \in Nat
      BY <1>1, <1>2, <2>1 DEF Totals
    <2>3. k * S[A \ {x}] <= T[A \ {x}]  BY <1>4
    <2>4. small[x] \in Nat /\ large[x] \in Nat /\ k * small[x] <= large[x]
      BY <1>4 DEF Ledgers
    <2>5. k * (S[A \ {x}] + small[x]) = k * S[A \ {x}] + k * small[x]
      BY <2>2, <2>4, SMT
    <2>6. k * S[A \ {x}] \in Nat /\ k * small[x] \in Nat
      BY <2>2, <2>4, ProductInNat
    <2>7. k * S[A] <= T[A]  BY <2>2, <2>3, <2>4, <2>5, <2>6
    <2>8. QED  BY <1>4, <2>7
  <1>7. QED  BY <1>5, <1>6

-----------------------------------------------------------------------------
(* Shares are allocated in parts, D to a share, so that no allocation is   *)
(* ever rounded.  Where every rate divides D, n face at r is worth exactly *)
(* D * n * WAD / r parts.                                                  *)

\* x parts are enough for `acc' banked shares and for what b YT earn while
\* the rate goes from c up to r, unrounded.
Backs(D, x, acc, c, b, r) ==
  c = NoRate \/ D * (acc * (c * r) + (b * (r - c)) * WAD) <= x * (c * r)

\* The parts, R * r times finer than D to a share, that n YT earn from R to r.
Earned(D, n, R, r) == D * ((n * (r - R)) * WAD)

LEMMA GainType ==
  ASSUME NEW n \in Nat, NEW R \in Nat, NEW r \in Nat, R <= r
  PROVE  (n * (r - R)) * WAD \in Nat
  <1>1. WAD \in Nat /\ r - R \in Nat  BY WadAssumption
  <1>2. n * (r - R) \in Nat  BY <1>1, ProductInNat
  <1>3. QED  BY <1>1, <1>2, ProductInNat

LEMMA EarnedType ==
  ASSUME NEW D \in Nat, NEW n \in Nat, NEW R \in Nat, NEW r \in Nat, R <= r
  PROVE  Earned(D, n, R, r) \in Nat
  BY GainType, ProductInNat DEF Earned

\* Allocating finer parts changes nothing.
LEMMA BacksFiner ==
  ASSUME NEW D \in Nat, NEW x \in Nat, NEW acc \in Nat, NEW c \in Nat,
         NEW b \in Nat, NEW r \in Nat, c <= r, NEW k \in Nat,
         Backs(D, x, acc, c, b, r)
  PROVE  Backs(D * k, x * k, acc, c, b, r)
  <1>1. CASE c = NoRate  BY <1>1 DEF Backs
  <1>2. CASE c # NoRate
    <2> DEFINE v == c * r
               w == acc * v + (b * (r - c)) * WAD
    <2>1. v \in Nat /\ (b * (r - c)) * WAD \in Nat  BY ProductInNat, GainType
    <2>2. acc * v \in Nat  BY <2>1, ProductInNat
    <2>3. w \in Nat  BY <2>1, <2>2
    <2>4. D * w <= x * v  BY <1>2 DEF Backs
    <2> HIDE DEF v, w
    <2>5. D * w \in Nat /\ x * v \in Nat  BY <2>1, <2>3, ProductInNat
    <2>6. (D * w) * k <= (x * v) * k  BY <2>4, <2>5, ProductMonotone
    <2>7. (D * k) * w = (D * w) * k /\ (x * k) * v = (x * v) * k
      BY <2>1, <2>3, SMT
    <2>8. (D * k) * w <= (x * k) * v  BY <2>6, <2>7
    <2>9. QED  BY <2>8 DEF Backs, v, w
  <1>3. QED  BY <1>1, <1>2

\* Settling at R moves what was earned from c to R, rounded down, into what is
\* banked: the same parts are enough.
LEMMA BacksSettled ==
  ASSUME NEW D \in Nat, NEW x \in Nat, NEW acc \in Nat, NEW c \in Nat \ {0},
         NEW b \in Nat, NEW R \in Nat, NEW r \in Nat, c <= R, R <= r,
         Backs(D, x, acc, c, b, r)
  PROVE  /\ OwedShares(b, c, R) \in Nat
         /\ Backs(D, x, acc + OwedShares(b, c, R), R, b, r)
  <1> DEFINE m == OwedShares(b, c, R)
             g == (b * (R - c)) * WAD
             h == (b * (r - R)) * WAD
             f == (b * (r - c)) * WAD
  <1>1. WAD \in Nat /\ g \in Nat /\ h \in Nat /\ f \in Nat
    <2>1. c <= r  OBVIOUS
    <2>2. QED  BY <2>1, WadAssumption, GainType
  <1>2. m \in Nat /\ (m * R) * c <= g  BY OwedSharesBounds
  <1>3. D * (acc * (c * r) + f) <= x * (c * r)  BY DEF Backs, NoRate
  <1>4. f * R = g * r + h * c  BY <1>1, SMT
  <1> HIDE DEF m, g, h, f
  \* c * D * ((acc + m) * (R * r) + h) <= R * D * (acc * (c * r) + f)
  <1>5. ((m * R) * c) * r <= g * r
    BY <1>1, <1>2, ProductInNat, ProductMonotone
  <1>6. ((acc + m) * (R * r) + h) * c
          = (acc * (c * r)) * R + (((m * R) * c) * r + h * c)
    BY <1>1, <1>2, SMT
  <1>7. (acc * (c * r) + f) * R = (acc * (c * r)) * R + (g * r + h * c)
    <2>1. (acc * (c * r) + f) * R = (acc * (c * r)) * R + f * R  BY <1>1, SMT
    <2>2. QED  BY <1>4, <2>1
  <1> DEFINE new == (acc + m) * (R * r) + h
             old == acc * (c * r) + f
  <1>8. new \in Nat /\ old \in Nat
    <2>1. (acc + m) * (R * r) \in Nat /\ acc * (c * r) \in Nat
      BY <1>2, ProductInNat
    <2>2. QED  BY <1>1, <2>1
  <1>9. new * c <= old * R
    <2>1. /\ (acc * (c * r)) * R \in Nat /\ ((m * R) * c) * r \in Nat
          /\ h * c \in Nat /\ g * r \in Nat
      BY <1>1, <1>2, ProductInNat
    <2>2. QED  BY <1>5, <1>6, <1>7, <2>1
  <1>10. D * old <= x * (c * r)  BY <1>3
  <1> HIDE DEF new, old
  <1>11. (D * new) * c <= (x * (R * r)) * c
    <2>1. (new * c) * D <= (old * R) * D  BY <1>8, <1>9, ProductInNat, ProductMonotone
    <2>2. (D * old) * R <= (x * (c * r)) * R
      BY <1>8, <1>10, ProductInNat, ProductMonotone
    <2>3. (new * c) * D = (D * new) * c /\ (old * R) * D = (D * old) * R
      BY <1>8, SMT
    <2>4. (x * (c * r)) * R = (x * (R * r)) * c  BY SMT
    <2>5. /\ (D * new) * c \in Nat /\ (D * old) * R \in Nat
          /\ (x * (R * r)) * c \in Nat
      BY <1>8, ProductInNat
    <2>6. QED  BY <2>1, <2>2, <2>3, <2>4, <2>5
  <1>12. D * new <= x * (R * r)
    BY <1>8, <1>11, ProductInNat, CancelFactor
  <1>13. QED  BY <1>2, <1>12 DEF Backs, new, m, h

\* A holder settled at R who receives n YT needs, in finer parts, what those
\* will earn on top; one who gives n YT up can give that up with them.
LEMMA BacksMore ==
  ASSUME NEW D \in Nat, NEW x \in Nat, NEW acc \in Nat, NEW R \in Nat \ {0},
         NEW b \in Nat, NEW r \in Nat, R <= r, NEW n \in Nat,
         Backs(D, x, acc, R, b, r)
  PROVE  Backs(D * (R * r), x * (R * r) + Earned(D, n, R, r), acc, R, b + n, r)
  <1> DEFINE k == R * r
             g == (b * (r - R)) * WAD
             h == (n * (r - R)) * WAD
             w == acc * k + g
  <1>1. g \in Nat /\ h \in Nat  BY GainType
  <1>2. ((b + n) * (r - R)) * WAD = g + h
    <2>1. WAD \in Nat  BY WadAssumption
    <2>2. QED  BY <2>1, SMT
  <1>3. k \in Nat  BY ProductInNat
  <1>4. acc * k \in Nat  BY <1>3, ProductInNat
  <1>5. w \in Nat  BY <1>1, <1>4
  <1>6. D * w <= x * k  BY DEF Backs, NoRate
  <1> HIDE DEF k, g, h
  <1>7. acc * k + (g + h) = w + h  BY <1>1, <1>4
  <1> HIDE DEF w
  <1>8. (D * w) * k <= (x * k) * k
    BY <1>3, <1>5, <1>6, ProductInNat, ProductMonotone
  <1>9. (D * k) * (w + h) = (D * w) * k + (D * h) * k  BY <1>1, <1>3, <1>5, SMT
  <1>10. (x * k + D * h) * k = (x * k) * k + (D * h) * k  BY <1>1, <1>3, SMT
  <1>11. (D * w) * k \in Nat /\ (x * k) * k \in Nat /\ (D * h) * k \in Nat
    BY <1>1, <1>3, <1>5, ProductInNat
  <1>12. (D * k) * (w + h) <= (x * k + D * h) * k  BY <1>8, <1>9, <1>10, <1>11
  <1>13. (D * k) * (acc * k + ((b + n) * (r - R)) * WAD) <= (x * k + D * h) * k
    BY <1>2, <1>7, <1>12
  <1>14. QED  BY <1>13 DEF Backs, Earned, k, h

LEMMA BacksLess ==
  ASSUME NEW D \in Nat, NEW x \in Nat, NEW acc \in Nat, NEW R \in Nat \ {0},
         NEW b \in Nat, NEW r \in Nat, R <= r, NEW n \in Nat, n <= b,
         Backs(D, x, acc, R, b, r)
  PROVE  /\ Earned(D, n, R, r) <= x * (R * r)
         /\ Backs(D * (R * r), x * (R * r) - Earned(D, n, R, r), acc, R, b - n, r)
  <1> DEFINE k == R * r
             g == ((b - n) * (r - R)) * WAD
             h == (n * (r - R)) * WAD
             w == acc * k + g
  <1>1. b - n \in Nat /\ g \in Nat /\ h \in Nat
    <2>1. b - n \in Nat  OBVIOUS
    <2>2. QED  BY <2>1, GainType
  <1>2. (b * (r - R)) * WAD = g + h
    <2>1. WAD \in Nat  BY WadAssumption
    <2>2. QED  BY <2>1, SMT
  <1>3. k \in Nat  BY ProductInNat
  <1>4. acc * k \in Nat  BY <1>3, ProductInNat
  <1>5. w \in Nat  BY <1>1, <1>4
  <1>6. D * (acc * k + (g + h)) <= x * k  BY <1>2 DEF Backs, NoRate
  <1> HIDE DEF k, g, h
  <1>7. acc * k + (g + h) = w + h  BY <1>1, <1>4
  <1> HIDE DEF w
  <1>8. D * w + D * h <= x * k
    <2>1. D * (w + h) = D * w + D * h  BY <1>1, <1>5, SMT
    <2>2. QED  BY <1>6, <1>7, <2>1
  <1>9. D * w \in Nat /\ D * h \in Nat /\ x * k \in Nat
    BY <1>1, <1>3, <1>5, ProductInNat
  <1>10. D * h <= x * k /\ D * w <= x * k - D * h /\ x * k - D * h \in Nat
    BY <1>8, <1>9
  <1>11. (D * w) * k <= (x * k - D * h) * k
    BY <1>3, <1>9, <1>10, ProductMonotone
  <1>12. (D * k) * w = (D * w) * k  BY <1>3, <1>5, SMT
  <1>13. (D * k) * w <= (x * k - D * h) * k  BY <1>11, <1>12
  <1>14. QED  BY <1>10, <1>13 DEF Backs, Earned, k, g, h, w

\* Burning YT gives up what it would have earned and needs nothing.
LEMMA BacksBurned ==
  ASSUME NEW D \in Nat, NEW x \in Nat, NEW acc \in Nat, NEW R \in Nat \ {0},
         NEW b \in Nat, NEW r \in Nat, R <= r, NEW n \in Nat, n <= b,
         Backs(D, x, acc, R, b, r)
  PROVE  Backs(D, x, acc, R, b - n, r)
  <1> DEFINE k == R * r
             g == ((b - n) * (r - R)) * WAD
             h == (n * (r - R)) * WAD
  <1>1. b - n \in Nat /\ g \in Nat /\ h \in Nat
    <2>1. b - n \in Nat  OBVIOUS
    <2>2. QED  BY <2>1, GainType
  <1>2. (b * (r - R)) * WAD = g + h
    <2>1. WAD \in Nat  BY WadAssumption
    <2>2. QED  BY <2>1, SMT
  <1>3. k \in Nat  BY ProductInNat
  <1>4. acc * k \in Nat  BY <1>3, ProductInNat
  <1>5. D * (acc * k + (g + h)) <= x * k  BY <1>2 DEF Backs, NoRate
  <1> HIDE DEF k, g, h
  <1> DEFINE w == acc * k + g
  <1>6. w \in Nat /\ acc * k + (g + h) = w + h  BY <1>1, <1>4
  <1> HIDE DEF w
  <1>7. D * w <= D * (w + h)
    <2>1. D * (w + h) = D * w + D * h /\ D * h \in Nat /\ D * w \in Nat
      BY <1>1, <1>6, SMT
    <2>2. QED  BY <2>1
  <1>8. D * w <= x * k
    <2>1. D * w \in Nat /\ D * (w + h) \in Nat /\ x * k \in Nat
      BY <1>1, <1>3, <1>6, ProductInNat
    <2>2. QED  BY <1>5, <1>6, <1>7, <2>1
  <1>9. QED  BY <1>8 DEF Backs, w, k, g

\* A payment of p banked shares takes p shares' worth of parts with it.
LEMMA BacksPaid ==
  ASSUME NEW D \in Nat, NEW x \in Nat, NEW acc \in Nat, NEW R \in Nat \ {0},
         NEW b \in Nat, NEW r \in Nat, R <= r, NEW p \in Nat, p <= acc,
         Backs(D, x, acc, R, b, r)
  PROVE  D * p <= x /\ Backs(D, x - D * p, acc - p, R, b, r)
  <1> DEFINE k == R * r
             g == (b * (r - R)) * WAD
             w == (acc - p) * k + g
  <1>1. g \in Nat /\ acc - p \in Nat
    <2>1. g \in Nat  BY GainType
    <2>2. QED  BY <2>1
  <1>2. k \in Nat \ {0}  BY SMT
  <1>3. (acc - p) * k \in Nat  BY <1>1, <1>2, ProductInNat
  <1>4. w \in Nat  BY <1>1, <1>3
  <1>5. D * (acc * k + g) <= x * k  BY DEF Backs, NoRate
  <1> HIDE DEF k, g
  <1>6. acc * k + g = w + p * k
    <2>1. acc * k = (acc - p) * k + p * k  BY <1>1, <1>2, SMT
    <2>2. p * k \in Nat  BY <1>2, ProductInNat
    <2>3. QED  BY <1>1, <1>3, <2>1, <2>2
  <1> HIDE DEF w
  <1>7. D * (w + p * k) = D * w + (D * p) * k  BY <1>2, <1>4, SMT
  <1>8. D * w \in Nat /\ D * p \in Nat /\ (D * p) * k \in Nat /\ x * k \in Nat
    BY <1>2, <1>4, ProductInNat
  <1>9. D * w + (D * p) * k <= x * k  BY <1>5, <1>6, <1>7
  <1>10. (D * p) * k <= x * k  BY <1>8, <1>9
  <1>11. D * p <= x  BY <1>2, <1>8, <1>10, CancelFactor
  <1>12. (x - D * p) * k = x * k - (D * p) * k  BY <1>2, <1>8, SMT
  <1>13. D * w <= (x - D * p) * k  BY <1>8, <1>9, <1>12
  <1>14. QED  BY <1>11, <1>13 DEF Backs, w, k, g

-----------------------------------------------------------------------------
(* The allocation: q gives each account parts of the escrow, t in all, and *)
(* u parts are set aside for PT, so that everything could be paid at r.    *)

Allocation(D, q, t, u, r) ==
  /\ D \in Nat \ {0} /\ q \in Ledgers /\ t \in Nat /\ u \in Nat
  /\ HasTotal(q, t)
  /\ t + u <= D * sy[Escrow]
  /\ D * (ptSupply * WAD) <= u * r
  /\ \A a \in Accounts : Backs(D, q[a], accrued[a], checkpoint[a], yt[a], r)

Covers(r) == \E D, q, t, u : Allocation(D, q, t, u, r)

\* The rates a transaction may yet settle at while the SY rate has not fallen:
\* before maturity any from the last one recorded up, then only that one.
Ahead(r) ==
  /\ r \in Nat \ {0} /\ peak <= r
  /\ IsMatured /\ peak # NoRate => r = peak

\* Whoever was never settled holds and is owed nothing.
Checkpointed ==
  \A a \in Accounts :
    /\ checkpoint[a] <= peak
    /\ checkpoint[a] = NoRate => yt[a] = 0 /\ accrued[a] = 0

\* The inductive invariant.  FullyCovered is not inductive by itself: what a
\* settle banks is rounded at the rate it happens at, so coverage at the rate
\* in force says nothing of coverage at the next one.
SolvencyInv == ~fell => \A r : Ahead(r) => Covers(r)

\* A transaction at R, seen from a rate r still ahead after it.
Settling(R, r) ==
  /\ TypeInv /\ Checkpointed
  /\ R \in Nat \ {0} /\ R = EffectiveRate
  /\ peak <= R /\ r \in Nat /\ R <= r

LEMMA LedgerTypes ==
  ASSUME TypeInv, NEW a \in Accounts
  PROVE  /\ yt[a] \in Nat /\ accrued[a] \in Nat /\ checkpoint[a] \in Nat
         /\ yt \in Ledgers /\ accrued \in Ledgers /\ checkpoint \in Ledgers
         /\ sy \in Ledgers /\ sy[Escrow] \in Nat /\ ptSupply \in Nat
  BY HolderIsAccount
     DEF TypeInv, TypeOK, SyTypeOK, PtTypeOK, YtTypeOK, Ledgers

\* A settle at R keeps every account backed, and leaves the settled ones at R.
LEMMA SettleBacks ==
  ASSUME NEW R, NEW r, Settling(R, r), NEW S \in SUBSET Accounts,
         NEW D \in Nat, NEW q \in Ledgers, NEW a \in Accounts,
         Backs(D, q[a], accrued[a], checkpoint[a], yt[a], r)
  PROVE  /\ SettledAccrued(S, R)[a] \in Nat
         /\ SettledCheckpoint(S, R)[a] \in Nat
         /\ SettledCheckpoint(S, R)[a] <= R
         /\ a \in S => SettledCheckpoint(S, R)[a] = R
         /\ Backs(D, q[a], SettledAccrued(S, R)[a], SettledCheckpoint(S, R)[a], yt[a], r)
  <1>1. /\ yt[a] \in Nat /\ accrued[a] \in Nat /\ checkpoint[a] \in Nat
        /\ q[a] \in Nat /\ R \in Nat \ {0} /\ r \in Nat /\ R <= r /\ peak \in Nat
    BY LedgerTypes, MarketTypes DEF Settling, TypeInv, Ledgers
  <1>2. checkpoint[a] <= R  BY <1>1 DEF Settling, Checkpointed
  <1>3. CASE a \notin S
    <2>1. SettledAccrued(S, R)[a] = accrued[a] /\ SettledCheckpoint(S, R)[a] = checkpoint[a]
      BY <1>3 DEF SettledAccrued, SettledCheckpoint
    <2>2. QED  BY <1>1, <1>2, <1>3, <2>1
  <1>4. CASE a \in S /\ checkpoint[a] = NoRate
    <2>1. yt[a] = 0 /\ accrued[a] = 0  BY <1>4 DEF Settling, Checkpointed
    <2>2. SettledAccrued(S, R)[a] = 0 /\ SettledCheckpoint(S, R)[a] = R
      BY <1>1, <1>4, <2>1 DEF SettledAccrued, SettledCheckpoint, PendingYield, NoRate
    <2>3. D * (0 * (R * r) + (0 * (r - R)) * WAD) = 0
      <3>1. WAD \in Nat /\ r - R \in Nat /\ R * r \in Nat
        BY <1>1, WadAssumption, ProductInNat
      <3>2. QED  BY <3>1, SMT
    <2>4. q[a] * (R * r) \in Nat  BY <1>1, ProductInNat
    <2>5. QED  BY <1>1, <1>4, <2>1, <2>2, <2>3, <2>4 DEF Backs
  <1>5. CASE a \in S /\ checkpoint[a] = R
    <2>1. SettledAccrued(S, R)[a] = accrued[a] /\ SettledCheckpoint(S, R)[a] = R
      BY <1>1, <1>5 DEF SettledAccrued, SettledCheckpoint, PendingYield
    <2>2. QED  BY <1>1, <1>5, <2>1
  <1>6. CASE a \in S /\ checkpoint[a] # NoRate /\ checkpoint[a] # R
    <2> DEFINE m == OwedShares(yt[a], checkpoint[a], R)
    <2>1. checkpoint[a] \in Nat \ {0} /\ checkpoint[a] < R
      BY <1>1, <1>2, <1>6 DEF NoRate
    <2>2. m \in Nat /\ Backs(D, q[a], accrued[a] + m, R, yt[a], r)
      BY <1>1, <1>2, <2>1, BacksSettled
    <2>3. SettledAccrued(S, R)[a] = accrued[a] + m /\ SettledCheckpoint(S, R)[a] = R
      BY <1>6, <2>1 DEF SettledAccrued, SettledCheckpoint, PendingYield
    <2>4. QED  BY <1>1, <1>6, <2>2, <2>3
  <1>7. QED  BY <1>3, <1>4, <1>5, <1>6

\* Finer parts.
Finer(q, k) == [a \in Accounts |-> q[a] * k]

LEMMA FinerTotal ==
  ASSUME NEW q \in Ledgers, NEW t \in Nat, HasTotal(q, t), NEW k \in Nat
  PROVE  Finer(q, k) \in Ledgers /\ HasTotal(Finer(q, k), t * k)
  <1>1. PICK S : Totals(S, q) /\ S[Accounts] = t  BY DEF HasTotal
  <1> DEFINE T == [A \in SUBSET Accounts |-> S[A] * k]
  <1>2. Finer(q, k) \in Ledgers  BY ProductInNat DEF Finer, Ledgers
  <1>3. T \in [SUBSET Accounts -> Nat]  BY <1>1, ProductInNat DEF Totals
  <1>4. T[{}] = 0
    <2>1. S[{}] = 0 /\ 0 * k = 0  BY <1>1, SMT DEF Totals
    <2>2. QED  BY <2>1
  <1>5. ASSUME NEW A \in SUBSET Accounts, NEW x \in A
        PROVE  T[A] = T[A \ {x}] + Finer(q, k)[x]
    <2>1. /\ S[A] = S[A \ {x}] + q[x] /\ S[A \ {x}] \in Nat /\ q[x] \in Nat
          /\ T[A] = S[A] * k /\ T[A \ {x}] = S[A \ {x}] * k
          /\ Finer(q, k)[x] = q[x] * k
      BY <1>1 DEF Totals, Ledgers, Finer
    <2>2. (S[A \ {x}] + q[x]) * k = S[A \ {x}] * k + q[x] * k  BY <2>1, SMT
    <2>3. QED  BY <2>1, <2>2
  <1>6. Totals(T, Finer(q, k)) /\ T[Accounts] = t * k
    BY <1>1, <1>3, <1>4, <1>5 DEF Totals
  <1>7. QED  BY <1>2, <1>6 DEF HasTotal

-----------------------------------------------------------------------------
(* What each operation does to the allocation.                             *)

\* n face is worth n * WAD / R shares: what is set aside for its PT at r and
\* what its YT earn from R to r come to exactly that.
LEMMA FaceSplits ==
  ASSUME NEW D \in Nat, NEW n \in Nat, NEW R \in Nat, NEW r \in Nat, R <= r
  PROVE  Earned(D, n, R, r) + (D * R) * (n * WAD) = (D * r) * (n * WAD)
  <1>1. WAD \in Nat /\ r - R \in Nat  BY WadAssumption
  <1>2. D * ((n * (r - R)) * WAD) + (D * R) * (n * WAD) = (D * r) * (n * WAD)
    BY <1>1, SMT
  <1>3. QED  BY <1>2 DEF Earned

\* Operations that bring shares in, or burn PT, and leave YT alone.
LEMMA QuietKeeps ==
  ASSUME NEW D, NEW q, NEW t, NEW u, NEW r \in Nat, Allocation(D, q, t, u, r), TypeInv,
         UNCHANGED <<accrued, checkpoint, yt>>,
         sy'[Escrow] \in Nat, sy'[Escrow] >= sy[Escrow],
         ptSupply' \in Nat, ptSupply' <= ptSupply
  PROVE  Allocation(D, q, t, u, r)'
  <1>1. D \in Nat \ {0} /\ t \in Nat /\ u \in Nat  BY DEF Allocation
  <1>2. /\ sy[Escrow] \in Nat /\ ptSupply \in Nat /\ WAD \in Nat
    BY MarketTypes DEF TypeInv
  <1>3. t + u <= D * sy'[Escrow]
    <2>1. sy[Escrow] * D <= sy'[Escrow] * D  BY <1>1, <1>2, ProductMonotone
    <2>2. sy[Escrow] * D = D * sy[Escrow] /\ sy'[Escrow] * D = D * sy'[Escrow]
      BY <1>1, <1>2, SMT
    <2>3. t + u <= D * sy[Escrow]  BY DEF Allocation
    <2>4. D * sy[Escrow] \in Nat /\ D * sy'[Escrow] \in Nat  BY <1>1, <1>2, ProductInNat
    <2>5. QED  BY <1>1, <2>1, <2>2, <2>3, <2>4
  <1>4. D * (ptSupply' * WAD) <= u * r
    <2>1. (ptSupply' * WAD) * D <= (ptSupply * WAD) * D
      BY <1>1, <1>2, ProductInNat, ProductMonotone
    <2>2. /\ (ptSupply' * WAD) * D = D * (ptSupply' * WAD)
          /\ (ptSupply * WAD) * D = D * (ptSupply * WAD)
      BY <1>1, <1>2, SMT
    <2>3. D * (ptSupply * WAD) <= u * r  BY DEF Allocation
    <2>4. /\ D * (ptSupply' * WAD) \in Nat /\ D * (ptSupply * WAD) \in Nat
          /\ u * r \in Nat
      BY <1>1, <1>2, ProductInNat
    <2>5. QED  BY <2>1, <2>2, <2>3, <2>4
  <1>5. QED  BY <1>3, <1>4 DEF Allocation

\* What the PT set aside for is, in finer parts, still enough for it, and for
\* as much PT less or more as is set aside less or more for.
LEMMA SetAsideLess ==
  ASSUME NEW D \in Nat, NEW u \in Nat, NEW p \in Nat, NEW n \in Nat, n <= p,
         NEW R \in Nat, NEW r \in Nat \ {0}, D * (p * WAD) <= u * r
  PROVE  /\ (D * R) * (n * WAD) <= u * (R * r)
         /\ (D * (R * r)) * ((p - n) * WAD) <= (u * (R * r) - (D * R) * (n * WAD)) * r
  <1> DEFINE j == n * WAD
             i == (p - n) * WAD
             x == (D * R) * j
             v == u * (R * r)
  <1>1. WAD \in Nat /\ p - n \in Nat  BY WadAssumption
  <1>2. p * WAD = i + j  BY <1>1, SMT
  <1>3. i \in Nat /\ j \in Nat  BY <1>1, ProductInNat
  <1>4. D * (i + j) <= u * r  BY <1>2
  <1> HIDE DEF i, j
  <1>5. /\ v \in Nat /\ x \in Nat /\ D * (i + j) \in Nat /\ u * r \in Nat
        /\ R * r \in Nat
    BY <1>3, ProductInNat
  <1>6. (D * (i + j)) * (R * r) <= v * r
    <2>1. (D * (i + j)) * (R * r) <= (u * r) * (R * r)
      BY <1>4, <1>5, ProductMonotone
    <2>2. (u * r) * (R * r) = v * r  BY SMT
    <2>3. QED  BY <2>1, <2>2
  <1>7. (D * (i + j)) * (R * r) = (D * (R * r)) * i + x * r  BY <1>3, SMT
  <1>8. (D * (R * r)) * i \in Nat /\ x * r \in Nat /\ v * r \in Nat
    BY <1>3, <1>5, ProductInNat
  <1>9. x * r <= v * r  BY <1>6, <1>7, <1>8
  <1>10. x <= v  BY <1>5, <1>9, CancelFactor
  <1> HIDE DEF x, v
  <1>11. (v - x) * r = v * r - x * r  BY <1>5, SMT
  <1>12. (D * (R * r)) * i <= (v - x) * r  BY <1>6, <1>7, <1>8, <1>11
  <1>13. QED  BY <1>10, <1>12 DEF x, v, i, j

LEMMA SetAsideMore ==
  ASSUME NEW D \in Nat, NEW u \in Nat, NEW p \in Nat, NEW n \in Nat,
         NEW R \in Nat, NEW r \in Nat, D * (p * WAD) <= u * r
  PROVE  (D * (R * r)) * ((p + n) * WAD) <= (u * (R * r) + (D * R) * (n * WAD)) * r
  <1> DEFINE i == p * WAD
             j == n * WAD
             x == (D * R) * j
             v == u * (R * r)
  <1>1. WAD \in Nat  BY WadAssumption
  <1>2. (p + n) * WAD = i + j  BY <1>1, SMT
  <1>3. i \in Nat /\ j \in Nat  BY <1>1, ProductInNat
  <1>4. D * i <= u * r  OBVIOUS
  <1> HIDE DEF i, j
  <1>5. D * i \in Nat /\ u * r \in Nat /\ R * r \in Nat  BY <1>3, ProductInNat
  <1>6. (D * i) * (R * r) <= (u * r) * (R * r)  BY <1>4, <1>5, ProductMonotone
  <1>7. (u * r) * (R * r) = v * r /\ v \in Nat /\ x \in Nat
    BY <1>3, ProductInNat, SMT
  <1>8. (D * (R * r)) * (i + j) = (D * i) * (R * r) + x * r  BY <1>3, SMT
  <1> HIDE DEF x, v
  <1>9. (v + x) * r = v * r + x * r  BY <1>7, SMT
  <1>10. (D * i) * (R * r) \in Nat /\ x * r \in Nat /\ v * r \in Nat
    BY <1>5, <1>7, ProductInNat
  <1>11. (D * (R * r)) * (i + j) <= (v + x) * r
    BY <1>6, <1>7, <1>8, <1>9, <1>10
  <1>12. QED  BY <1>2, <1>11 DEF x, v, j

\* burn on YT: nothing is paid and less is owed.
LEMMA BurnYtKeeps ==
  ASSUME NEW R, NEW r, Settling(R, r), NEW D, NEW q, NEW t, NEW u,
         Allocation(D, q, t, u, r), NEW h \in Holders, NEW n \in Amounts, BurnYt(h, n)
  PROVE  Allocation(D, q, t, u, r)'
  <1>1. /\ R \in Nat \ {0} /\ r \in Nat /\ R <= r /\ R = EffectiveRate /\ n \in Nat
        /\ {h} \in SUBSET Accounts /\ h \in Accounts
        /\ D \in Nat /\ q \in Ledgers
        /\ \A a \in Accounts : Backs(D, q[a], accrued[a], checkpoint[a], yt[a], r)
    BY MarketAssumption, HolderIsAccount DEF Settling, Allocation
  <1>2. /\ sy' = sy /\ ptSupply' = ptSupply /\ n <= yt[h]
        /\ accrued' = SettledAccrued({h}, R) /\ checkpoint' = SettledCheckpoint({h}, R)
        /\ yt' = Debited(yt, h, n)
    BY <1>1 DEF BurnYt, YtBurn, Settle, CanDebit, ptVars
  <1>3. ASSUME NEW a \in Accounts
        PROVE  Backs(D, q[a], accrued'[a], checkpoint'[a], yt'[a], r)
    <2>1. /\ yt[a] \in Nat /\ yt \in Ledgers /\ q[a] \in Nat
      BY <1>1, LedgerTypes DEF Settling, Ledgers
    <2>2. /\ Backs(D, q[a], accrued'[a], checkpoint'[a], yt[a], r)
          /\ accrued'[a] \in Nat /\ (a = h => checkpoint'[a] = R)
      BY <1>1, <1>2, SettleBacks
    <2>3. CASE a # h
      <3>1. yt'[a] = yt[a]  BY <1>2, <2>1, <2>3 DEF Debited, Ledgers
      <3>2. QED  BY <2>2, <3>1
    <2>4. CASE a = h
      <3>1. yt'[a] = yt[a] - n  BY <1>1, <1>2, <2>1, <2>4 DEF Debited, Ledgers
      <3>2. /\ Backs(D, q[a], accrued'[a], R, yt[a], r) /\ checkpoint'[a] = R
            /\ n <= yt[a]
        BY <1>2, <2>2, <2>4
      <3>3. Backs(D, q[a], accrued'[a], R, yt[a] - n, r)
        BY <1>1, <2>1, <2>2, <3>2, BacksBurned
      <3>4. QED  BY <3>1, <3>2, <3>3
    <2>5. QED  BY <2>3, <2>4
  <1>4. QED  BY <1>2, <1>3 DEF Allocation

\* claim_yield: the shares paid leave with the parts that backed them.
LEMMA ClaimKeeps ==
  ASSUME NEW R, NEW r, Settling(R, r), NEW D, NEW q, NEW t, NEW u,
         Allocation(D, q, t, u, r), NEW h \in Holders, ClaimYield(h),
         NEW p \in Nat, p = YieldPayout(h)
  PROVE  Allocation(D, Debited(q, h, D * p), t - D * p, u, r)'
  <1> DEFINE q1 == Debited(q, h, D * p)
             t1 == t - D * p
  <1>1. /\ R \in Nat \ {0} /\ r \in Nat /\ R <= r /\ R = EffectiveRate
        /\ {h} \in SUBSET Accounts /\ h \in Accounts
        /\ D \in Nat \ {0} /\ q \in Ledgers /\ t \in Nat /\ u \in Nat /\ HasTotal(q, t)
        /\ \A a \in Accounts : Backs(D, q[a], accrued[a], checkpoint[a], yt[a], r)
        /\ t + u <= D * sy[Escrow]
        /\ sy[Escrow] \in Nat
    BY HolderIsAccount, LedgerTypes DEF Settling, Allocation
  <1>2. /\ ptSupply' = ptSupply /\ yt' = yt
        /\ p <= SettledAccrued({h}, R)[h]
        /\ accrued' = Debited(SettledAccrued({h}, R), h, p)
        /\ checkpoint' = SettledCheckpoint({h}, R)
    BY <1>1 DEF ClaimYield, SettleAndConsume, ptVars
  <1>3. sy'[Escrow] = sy[Escrow] - p /\ p <= sy[Escrow]
    <2>1. CASE p > 0
      <3>1. SyTransfer(Escrow, h, p)  BY <2>1 DEF ClaimYield
      <3>2. QED  BY <1>1, <3>1, LedgerTypes, MovedOutOfEscrow
                 DEF SyTransfer, CanDebit, Settling
    <2>2. CASE p = 0
      <3>1. sy' = sy  BY <2>2 DEF ClaimYield
      <3>2. QED  BY <1>1, <2>2, <3>1
    <2>3. QED  BY <2>1, <2>2
  <1>s. ASSUME NEW a \in Accounts
        PROVE  /\ SettledAccrued({h}, R)[a] \in Nat
               /\ (a = h => SettledCheckpoint({h}, R)[a] = R)
               /\ Backs(D, q[a], SettledAccrued({h}, R)[a], SettledCheckpoint({h}, R)[a], yt[a], r)
    BY <1>1, SettleBacks
  <1>4. D * p \in Nat /\ D * p <= q[h]
        /\ Backs(D, q[h] - D * p, SettledAccrued({h}, R)[h] - p, R, yt[h], r)
    <2>1. yt[h] \in Nat /\ q[h] \in Nat  BY <1>1, LedgerTypes DEF Settling, Ledgers
    <2>2. /\ SettledAccrued({h}, R)[h] \in Nat /\ SettledCheckpoint({h}, R)[h] = R
          /\ Backs(D, q[h], SettledAccrued({h}, R)[h], SettledCheckpoint({h}, R)[h], yt[h], r)
      BY <1>1, <1>s
    <2>3. Backs(D, q[h], SettledAccrued({h}, R)[h], R, yt[h], r)  BY <2>2
    <2>4. D * p \in Nat  BY <1>1, ProductInNat
    <2>5. QED  BY <1>1, <1>2, <2>1, <2>2, <2>3, <2>4, BacksPaid
  <1>5. ASSUME NEW a \in Accounts
        PROVE  Backs(D, q1[a], accrued'[a], checkpoint'[a], yt'[a], r)
    <2>1. /\ Backs(D, q[a], SettledAccrued({h}, R)[a], SettledCheckpoint({h}, R)[a], yt[a], r)
          /\ (a = h => SettledCheckpoint({h}, R)[a] = R)
      BY <1>s
    <2>2. CASE a # h
      <3>1. q1[a] = q[a] /\ accrued'[a] = SettledAccrued({h}, R)[a]
        BY <1>1, <1>2, <2>2 DEF Debited, Ledgers, SettledAccrued
      <3>2. QED  BY <1>2, <2>1, <3>1
    <2>3. CASE a = h
      <3>1. q1[h] = q[h] - D * p /\ accrued'[h] = SettledAccrued({h}, R)[h] - p
        BY <1>1, <1>2 DEF Debited, Ledgers, SettledAccrued
      <3>2. QED  BY <1>2, <1>4, <2>1, <2>3, <3>1
    <2>4. QED  BY <2>2, <2>3
  <1>6. q1 \in Ledgers /\ HasTotal(q1, t1) /\ t1 \in Nat
    <2>1. q1 \in Ledgers /\ HasTotal(q1, t1)
      BY <1>1, <1>4, DebitedLedger, DebitedTotal
    <2>2. t1 \in Nat  BY <1>1, <2>1, BalanceWithinTotal
    <2>3. QED  BY <2>1, <2>2
  <1>7. t1 + u <= D * sy'[Escrow]
    <2>1. D * (sy[Escrow] - p) = D * sy[Escrow] - D * p  BY <1>1, SMT
    <2>2. D * sy[Escrow] \in Nat  BY <1>1, ProductInNat
    <2>3. QED  BY <1>1, <1>3, <1>4, <2>1, <2>2
  <1>8. D * (ptSupply' * WAD) <= u * r  BY <1>2 DEF Allocation
  <1>9. QED  BY <1>1, <1>5, <1>6, <1>7, <1>8 DEF Allocation

\* What a settling step starts from, in one place.
LEMMA SettlingFacts ==
  ASSUME NEW R, NEW r, Settling(R, r), NEW D, NEW q, NEW t, NEW u,
         Allocation(D, q, t, u, r)
  PROVE  /\ TypeInv
         /\ R \in Nat \ {0} /\ r \in Nat \ {0} /\ R <= r /\ R = EffectiveRate
         /\ D \in Nat \ {0} /\ q \in Ledgers /\ t \in Nat /\ u \in Nat
         /\ HasTotal(q, t) /\ t + u <= D * sy[Escrow]
         /\ D * (ptSupply * WAD) <= u * r
         /\ \A a \in Accounts : Backs(D, q[a], accrued[a], checkpoint[a], yt[a], r)
         /\ R * r \in Nat \ {0} /\ D * (R * r) \in Nat \ {0}
         /\ sy \in Ledgers /\ sy[Escrow] \in Nat /\ ptSupply \in Nat
         /\ WAD \in Nat
  <1>1. /\ R \in Nat \ {0} /\ r \in Nat \ {0} /\ D \in Nat \ {0}
    BY DEF Settling, Allocation
  <1>2. R * r \in Nat \ {0}  BY <1>1, SMT
  <1>3. D * (R * r) \in Nat \ {0}  BY <1>1, <1>2, SMT
  <1>4. /\ sy \in Ledgers /\ sy[Escrow] \in Nat /\ ptSupply \in Nat /\ WAD \in Nat
    BY MarketTypes DEF Settling, TypeInv, TypeOK, SyTypeOK
  <1>5. QED  BY <1>1, <1>2, <1>3, <1>4 DEF Settling, Allocation

\* After a settle at R each account is backed in finer parts too; a settled
\* one also with n more YT and what they earn, or with n less.
LEMMA SettledParts ==
  ASSUME NEW R, NEW r, Settling(R, r), NEW D, NEW q, NEW t, NEW u,
         Allocation(D, q, t, u, r), NEW S \in SUBSET Accounts, NEW n \in Nat,
         accrued' = SettledAccrued(S, R), checkpoint' = SettledCheckpoint(S, R),
         NEW a \in Accounts
  PROVE  /\ yt[a] \in Nat /\ q[a] \in Nat /\ Finer(q, R * r)[a] = q[a] * (R * r)
         /\ q[a] * (R * r) \in Nat /\ Earned(D, n, R, r) \in Nat
         /\ Backs(D * (R * r), q[a] * (R * r), accrued'[a], checkpoint'[a], yt[a], r)
         /\ a \in S =>
              Backs(D * (R * r), q[a] * (R * r) + Earned(D, n, R, r),
                    accrued'[a], checkpoint'[a], yt[a] + n, r)
         /\ a \in S /\ n <= yt[a] =>
              /\ Earned(D, n, R, r) <= q[a] * (R * r)
              /\ Backs(D * (R * r), q[a] * (R * r) - Earned(D, n, R, r),
                       accrued'[a], checkpoint'[a], yt[a] - n, r)
  <1> DEFINE k == R * r
             y == Earned(D, n, R, r)
  <1>1. /\ R \in Nat \ {0} /\ r \in Nat \ {0} /\ R <= r /\ k \in Nat
        /\ D \in Nat \ {0} /\ q \in Ledgers
        /\ \A b \in Accounts : Backs(D, q[b], accrued[b], checkpoint[b], yt[b], r)
    BY SettlingFacts
  <1>2. yt[a] \in Nat /\ q[a] \in Nat /\ Finer(q, k)[a] = q[a] * k
    BY <1>1, LedgerTypes DEF Settling, Ledgers, Finer
  <1>3. /\ accrued'[a] \in Nat /\ checkpoint'[a] \in Nat /\ checkpoint'[a] <= R
        /\ a \in S => checkpoint'[a] = R
        /\ Backs(D, q[a], accrued'[a], checkpoint'[a], yt[a], r)
    <2>1. Backs(D, q[a], accrued[a], checkpoint[a], yt[a], r)  BY <1>1
    <2>2. /\ SettledAccrued(S, R)[a] \in Nat
          /\ SettledCheckpoint(S, R)[a] \in Nat
          /\ SettledCheckpoint(S, R)[a] <= R
          /\ a \in S => SettledCheckpoint(S, R)[a] = R
          /\ Backs(D, q[a], SettledAccrued(S, R)[a], SettledCheckpoint(S, R)[a], yt[a], r)
      BY <1>1, <2>1, SettleBacks
    <2>3. QED  BY <2>2
  <1>4. q[a] * k \in Nat /\ y \in Nat  BY <1>1, <1>2, ProductInNat, EarnedType
  <1>5. Backs(D * k, q[a] * k, accrued'[a], checkpoint'[a], yt[a], r)
    <2>1. checkpoint'[a] <= r  BY <1>1, <1>3
    <2>2. QED  BY <1>1, <1>2, <1>3, <2>1, BacksFiner
  <1>6. ASSUME a \in S
        PROVE  Backs(D * k, q[a] * k + y, accrued'[a], checkpoint'[a], yt[a] + n, r)
    <2>1. checkpoint'[a] = R /\ Backs(D, q[a], accrued'[a], R, yt[a], r)
      BY <1>3, <1>6
    <2>2. Backs(D * k, q[a] * k + y, accrued'[a], R, yt[a] + n, r)
      BY <1>1, <1>2, <1>3, <2>1, BacksMore
    <2>3. QED  BY <2>1, <2>2
  <1>7. ASSUME a \in S, n <= yt[a]
        PROVE  /\ y <= q[a] * k
               /\ Backs(D * k, q[a] * k - y, accrued'[a], checkpoint'[a], yt[a] - n, r)
    <2>1. checkpoint'[a] = R /\ Backs(D, q[a], accrued'[a], R, yt[a], r)
      BY <1>3, <1>7
    <2>2. /\ y <= q[a] * k
          /\ Backs(D * k, q[a] * k - y, accrued'[a], R, yt[a] - n, r)
      BY <1>1, <1>2, <1>3, <1>7, <2>1, BacksLess
    <2>3. QED  BY <2>1, <2>2
  <1>8. QED  BY <1>2, <1>4, <1>5, <1>6, <1>7

\* Transferring YT: the parts its yield is backed with go along.
LEMMA TransferYtKeeps ==
  ASSUME NEW R, NEW r, Settling(R, r), NEW D, NEW q, NEW t, NEW u,
         Allocation(D, q, t, u, r), NEW h \in Holders, NEW to \in Accounts,
         NEW n \in Amounts, TransferYt(h, to, n)
  PROVE  Allocation(D * (R * r), Moved(Finer(q, R * r), h, to, Earned(D, n, R, r)),
                    t * (R * r), u * (R * r), r)'
  <1> DEFINE k == R * r
             y == Earned(D, n, R, r)
             q1 == Moved(Finer(q, k), h, to, y)
             S == {h, to}
  <1>1. /\ R \in Nat \ {0} /\ r \in Nat \ {0} /\ R <= r /\ R = EffectiveRate /\ n \in Nat
        /\ S \in SUBSET Accounts /\ h \in Accounts /\ k \in Nat
    BY MarketAssumption, HolderIsAccount, SettlingFacts
  <1>2. /\ D \in Nat \ {0} /\ q \in Ledgers /\ t \in Nat /\ u \in Nat /\ HasTotal(q, t)
        /\ D * k \in Nat \ {0}
        /\ \A a \in Accounts : Backs(D, q[a], accrued[a], checkpoint[a], yt[a], r)
    BY SettlingFacts
  <1>3. /\ sy' = sy /\ ptSupply' = ptSupply /\ n <= yt[h]
        /\ accrued' = SettledAccrued(S, R) /\ checkpoint' = SettledCheckpoint(S, R)
        /\ yt' = Moved(yt, h, to, n)
    BY <1>1 DEF TransferYt, YtTransfer, Settle, CanDebit, ptVars
  <1>4. yt \in Ledgers /\ yt[h] \in Nat  BY <1>1, LedgerTypes DEF Settling
  <1>5. y \in Nat /\ Finer(q, k) \in Ledgers /\ HasTotal(Finer(q, k), t * k)
    BY <1>1, <1>2, EarnedType, FinerTotal
  <1>6. ASSUME NEW a \in Accounts
        PROVE  /\ yt[a] \in Nat /\ q[a] * k \in Nat /\ Finer(q, k)[a] = q[a] * k
               /\ Backs(D * k, q[a] * k, accrued'[a], checkpoint'[a], yt[a], r)
               /\ a \in S =>
                    Backs(D * k, q[a] * k + y, accrued'[a], checkpoint'[a], yt[a] + n, r)
               /\ a = h =>
                    /\ y <= q[a] * k
                    /\ Backs(D * k, q[a] * k - y, accrued'[a], checkpoint'[a], yt[a] - n, r)
    <2> HIDE DEF S
    <2>1. /\ yt[a] \in Nat /\ q[a] * k \in Nat /\ Finer(q, k)[a] = q[a] * k
          /\ Backs(D * k, q[a] * k, accrued'[a], checkpoint'[a], yt[a], r)
          /\ a \in S =>
               Backs(D * k, q[a] * k + y, accrued'[a], checkpoint'[a], yt[a] + n, r)
          /\ a \in S /\ n <= yt[a] =>
               /\ y <= q[a] * k
               /\ Backs(D * k, q[a] * k - y, accrued'[a], checkpoint'[a], yt[a] - n, r)
      BY <1>1, <1>3, SettledParts
    <2>2. QED  BY <1>3, <2>1 DEF S
  <1> HIDE DEF y, k
  <1>7. y <= Finer(q, k)[h]  BY <1>1, <1>6
  <1>8. q1 \in Ledgers /\ HasTotal(q1, t * k)
    <2>1. t * k \in Nat  BY <1>1, <1>2, ProductInNat
    <2>2. QED  BY <1>1, <1>5, <1>7, <2>1, MovedLedger, MovedTotal
  <1>9. ASSUME NEW a \in Accounts
        PROVE  Backs(D * k, q1[a], accrued'[a], checkpoint'[a], yt'[a], r)
    <2>1. CASE a # h /\ a # to
      <3>1. q1[a] = q[a] * k /\ yt'[a] = yt[a]
        BY <1>3, <1>4, <1>5, <1>6, <2>1 DEF Moved, Ledgers
      <3>2. QED  BY <1>6, <3>1
    <2>2. CASE a = to /\ to # h
      <3>1. q1[a] = q[a] * k + y /\ yt'[a] = yt[a] + n
        BY <1>3, <1>4, <1>5, <1>6, <2>2 DEF Moved, Ledgers
      <3>2. QED  BY <1>6, <2>2, <3>1
    <2>3. CASE a = h /\ to # h
      <3>1. q1[a] = q[a] * k - y /\ yt'[a] = yt[a] - n
        BY <1>3, <1>4, <1>5, <1>6, <2>3 DEF Moved, Ledgers
      <3>2. QED  BY <1>6, <2>3, <3>1
    <2>4. CASE a = h /\ to = h
      <3>1. q1[a] = q[a] * k - y + y /\ yt'[a] = yt[a] - n + n
        BY <1>3, <1>4, <1>5, <1>6, <2>4 DEF Moved, Ledgers
      <3>2. q1[a] = q[a] * k /\ yt'[a] = yt[a]  BY <1>1, <1>5, <1>6, <3>1
      <3>3. QED  BY <1>6, <3>2
    <2>5. QED  BY <2>1, <2>2, <2>3, <2>4
  <1>10. t * k + u * k <= (D * k) * sy'[Escrow]
    <2>1. sy[Escrow] \in Nat /\ t + u <= D * sy[Escrow]  BY SettlingFacts
    <2>2. (t + u) * k <= (D * sy[Escrow]) * k
      BY <1>1, <1>2, <2>1, ProductInNat, ProductMonotone
    <2>3. (t + u) * k = t * k + u * k  BY <1>1, <1>2, SMT
    <2>4. (D * sy[Escrow]) * k = (D * k) * sy[Escrow]  BY <1>1, <1>2, <2>1, SMT
    <2>5. QED  BY <1>3, <2>2, <2>3, <2>4
  <1>11. (D * k) * (ptSupply' * WAD) <= (u * k) * r
    <2>1. /\ D * (ptSupply * WAD) <= u * r
          /\ ptSupply \in Nat /\ WAD \in Nat
      BY SettlingFacts
    <2>2. (D * (ptSupply * WAD)) * k <= (u * r) * k
      BY <1>1, <1>2, <2>1, ProductInNat, ProductMonotone
    <2>3. /\ (D * (ptSupply * WAD)) * k = (D * k) * (ptSupply * WAD)
          /\ (u * r) * k = (u * k) * r
      BY <1>1, <1>2, <2>1, SMT
    <2>4. QED  BY <1>3, <2>2, <2>3
  <1>12. t * k \in Nat /\ u * k \in Nat  BY <1>1, <1>2, ProductInNat
  <1>13. QED  BY <1>2, <1>8, <1>9, <1>10, <1>11, <1>12 DEF Allocation, k, y

\* split: n shares come in, which cover the face they mint; what its YT will
\* earn is backed for the depositor and the rest is set aside for its PT.
LEMMA SplitKeeps ==
  ASSUME NEW R, NEW r, Settling(R, r), NEW D, NEW q, NEW t, NEW u,
         Allocation(D, q, t, u, r), NEW h \in Holders, NEW n \in Amounts,
         NEW f, f = MintedFace(n), Split(h, n)
  PROVE  Allocation(D * (R * r), Credited(Finer(q, R * r), h, Earned(D, f, R, r)),
                    t * (R * r) + Earned(D, f, R, r),
                    u * (R * r) + (D * R) * (f * WAD), r)'
  <1> DEFINE k == R * r
             y == Earned(D, f, R, r)
             x == (D * R) * (f * WAD)
             q1 == Credited(Finer(q, k), h, y)
             S == {h}
             e == sy[Escrow]
  <1>1. /\ R \in Nat \ {0} /\ r \in Nat \ {0} /\ R <= r /\ R = EffectiveRate /\ n \in Nat
        /\ S \in SUBSET Accounts /\ h \in Accounts /\ k \in Nat /\ WAD \in Nat
        /\ e \in Nat /\ sy \in Ledgers /\ ptSupply \in Nat
    BY MarketAssumption, HolderIsAccount, SettlingFacts
  <1>2. /\ D \in Nat \ {0} /\ q \in Ledgers /\ t \in Nat /\ u \in Nat /\ HasTotal(q, t)
        /\ D * k \in Nat \ {0} /\ t + u <= D * e
        /\ D * (ptSupply * WAD) <= u * r
    BY SettlingFacts
  <1>3. f \in Nat /\ f * WAD <= n * R
    BY <1>1, WadAssumption, FloorBounds DEF MintedFace
  <1>4. /\ ptSupply' = ptSupply + f
        /\ accrued' = SettledAccrued(S, R) /\ checkpoint' = SettledCheckpoint(S, R)
        /\ yt' = Credited(yt, h, f)
    BY <1>1 DEF Split, YtMint, PtMint, Settle
  <1>5. sy'[Escrow] = e + n
    BY <1>1, HolderIsAccount, MovedIntoEscrow DEF Split, SyTransfer
  <1>6. /\ y \in Nat /\ x \in Nat /\ t * k \in Nat /\ u * k \in Nat
        /\ Finer(q, k) \in Ledgers /\ HasTotal(Finer(q, k), t * k) /\ yt \in Ledgers
    BY <1>1, <1>2, <1>3, EarnedType, FinerTotal, ProductInNat, LedgerTypes DEF Settling
  <1>7. ASSUME NEW a \in Accounts
        PROVE  /\ yt[a] \in Nat /\ q[a] * k \in Nat /\ Finer(q, k)[a] = q[a] * k
               /\ Backs(D * k, q[a] * k, accrued'[a], checkpoint'[a], yt[a], r)
               /\ a = h =>
                    Backs(D * k, q[a] * k + y, accrued'[a], checkpoint'[a], yt[a] + f, r)
    <2> HIDE DEF S
    <2>1. /\ yt[a] \in Nat /\ q[a] * k \in Nat /\ Finer(q, k)[a] = q[a] * k
          /\ Backs(D * k, q[a] * k, accrued'[a], checkpoint'[a], yt[a], r)
          /\ a \in S =>
               Backs(D * k, q[a] * k + y, accrued'[a], checkpoint'[a], yt[a] + f, r)
      BY <1>1, <1>3, <1>4, SettledParts
    <2>2. QED  BY <2>1 DEF S
  <1> HIDE DEF y
  <1>8. q1 \in Ledgers /\ HasTotal(q1, t * k + y)
    BY <1>1, <1>6, CreditedLedger, CreditedTotal
  <1>9. ASSUME NEW a \in Accounts
        PROVE  Backs(D * k, q1[a], accrued'[a], checkpoint'[a], yt'[a], r)
    <2> HIDE DEF k
    <2>1. CASE a # h
      <3>1. q1[a] = q[a] * k /\ yt'[a] = yt[a]
        BY <1>4, <1>6, <1>7, <2>1 DEF Credited, Ledgers
      <3>2. QED  BY <1>7, <3>1
    <2>2. CASE a = h
      <3>1. q1[a] = q[a] * k + y /\ yt'[a] = yt[a] + f
        BY <1>4, <1>6, <1>7, <2>2 DEF Credited, Ledgers
      <3>2. QED  BY <1>7, <2>2, <3>1
    <2>3. QED  BY <2>1, <2>2
  <1>10. (t * k + y) + (u * k + x) <= (D * k) * sy'[Escrow]
    <2>1. y + x = (D * r) * (f * WAD)  BY <1>1, <1>2, <1>3, FaceSplits DEF y
    <2>2. (D * r) * (f * WAD) <= (D * r) * (n * R)
      <3>1. (f * WAD) * (D * r) <= (n * R) * (D * r)
        BY <1>1, <1>2, <1>3, ProductInNat, ProductMonotone
      <3>2. QED  BY <1>1, <1>2, <1>3, <3>1, SMT
    <2>3. (D * r) * (n * R) = (D * k) * n  BY <1>1, <1>2, SMT
    <2>4. (t + u) * k <= (D * e) * k
      BY <1>1, <1>2, ProductInNat, ProductMonotone
    <2>5. (t + u) * k = t * k + u * k /\ (D * e) * k = (D * k) * e
      BY <1>1, <1>2, SMT
    <2>6. (D * k) * (e + n) = (D * k) * e + (D * k) * n  BY <1>1, <1>2, SMT
    <2>7. /\ (D * r) * (f * WAD) \in Nat /\ (D * k) * n \in Nat /\ (D * k) * e \in Nat
      BY <1>1, <1>2, <1>3, ProductInNat
    <2> HIDE DEF k, x
    <2>8. QED  BY <1>5, <1>6, <2>1, <2>2, <2>3, <2>4, <2>5, <2>6, <2>7
  <1>11. (D * k) * (ptSupply' * WAD) <= (u * k + x) * r
    BY <1>1, <1>2, <1>3, <1>4, SetAsideMore
  <1>12. t * k + y \in Nat /\ u * k + x \in Nat  BY <1>6
  <1>13. QED  BY <1>2, <1>8, <1>9, <1>10, <1>11, <1>12 DEF Allocation, k, y, x

\* An exit pays at most the face of the PT it burns.
LEMMA PrincipalWithinFace ==
  ASSUME TypeOK, NEW n \in Nat, ptSupply > 0
  PROVE  Principal(n) \in Nat /\ Principal(n) * EffectiveRate <= n * WAD
  <1> DEFINE full == MulDivFloor(n, WAD, EffectiveRate)
             share == MulDivFloor(sy[Escrow], n, ptSupply)
  <1>1. /\ ptSupply \in Nat \ {0} /\ WAD \in Nat
        /\ EffectiveRate \in Nat \ {0} /\ sy[Escrow] \in Nat
    BY MarketTypes
  <1>2. full \in Nat /\ full * EffectiveRate <= n * WAD  BY <1>1, FloorBounds
  <1>3. share \in Nat  BY <1>1, FloorBounds
  <1> HIDE DEF full, share
  <1>4. Least(full, share) \in Nat /\ Least(full, share) <= full
    BY <1>2, <1>3 DEF Least
  <1>5. Least(full, share) * EffectiveRate <= full * EffectiveRate
    BY <1>1, <1>2, <1>4, ProductMonotone
  <1>6. /\ Least(full, share) * EffectiveRate \in Nat
        /\ full * EffectiveRate \in Nat /\ n * WAD \in Nat
    BY <1>1, <1>2, <1>4, ProductInNat
  <1>7. QED  BY <1>2, <1>4, <1>5, <1>6 DEF Principal, full, share

\* What PT burned at R takes out of the escrow is covered by the face it had.
LEMMA ExitFacts ==
  ASSUME NEW R, NEW r, Settling(R, r), NEW h \in Holders, NEW n \in Amounts,
         PtBurn(h, n), NEW p, p = Principal(n), SyTransfer(Escrow, h, p)
  PROVE  /\ n \in Nat /\ n <= ptSupply /\ ptSupply' = ptSupply - n
         /\ p \in Nat /\ p * R <= n * WAD
         /\ p <= sy[Escrow] /\ sy'[Escrow] = sy[Escrow] - p
  <1>1. TypeInv /\ R = EffectiveRate /\ n \in Nat /\ h \in Accounts
    BY MarketAssumption, HolderIsAccount DEF Settling
  <1>2. n > 0 /\ n <= ptSupply /\ ptSupply' = ptSupply - n
    BY <1>1, PtBurnTypes DEF TypeInv
  <1>3. ptSupply \in Nat /\ sy \in Ledgers /\ sy[Escrow] \in Nat
    BY <1>1, MarketTypes DEF TypeInv, TypeOK, SyTypeOK
  <1>4. p \in Nat /\ p * R <= n * WAD
    BY <1>1, <1>2, <1>3, PrincipalWithinFace DEF TypeInv
  <1>5. sy'[Escrow] = sy[Escrow] - p  BY <1>3, <1>4, MovedOutOfEscrow DEF SyTransfer
  <1>6. p <= sy[Escrow]  BY DEF SyTransfer, CanDebit
  <1>7. QED  BY <1>1, <1>2, <1>4, <1>5, <1>6

\* redeem_at_maturity: the face burned was set aside for.
LEMMA RedeemKeeps ==
  ASSUME NEW R, Settling(R, R), NEW D, NEW q, NEW t, NEW u,
         Allocation(D, q, t, u, R), NEW h \in Holders, NEW n \in Amounts,
         NEW p, p = Principal(n), RedeemAtMaturity(h, n)
  PROVE  Allocation(D, q, t, u - D * p, R)'
  <1> DEFINE e == sy[Escrow]
  <1>1. /\ R \in Nat \ {0} /\ e \in Nat /\ ptSupply \in Nat /\ WAD \in Nat
        /\ D \in Nat \ {0} /\ t \in Nat /\ u \in Nat /\ t + u <= D * e
        /\ D * (ptSupply * WAD) <= u * R
    BY SettlingFacts
  <1>2. /\ n \in Nat /\ n <= ptSupply /\ ptSupply' = ptSupply - n
        /\ p \in Nat /\ p * R <= n * WAD /\ p <= e /\ sy'[Escrow] = e - p
    BY ExitFacts DEF RedeemAtMaturity
  <1>3. UNCHANGED <<yt, accrued, checkpoint>>  BY DEF RedeemAtMaturity, ytVars
  <1> HIDE DEF e
  <1> DEFINE i == (ptSupply - n) * WAD
             j == n * WAD
  <1>4. i \in Nat /\ j \in Nat
    <2>1. ptSupply - n \in Nat  BY <1>1, <1>2
    <2>2. QED  BY <1>1, <1>2, <2>1, ProductInNat
  <1>5. ptSupply * WAD = i + j  BY <1>1, <1>2, SMT
  <1>6. p * R <= j  BY <1>2
  <1> HIDE DEF i, j
  <1>7. D * i + D * j <= u * R
    <2>1. D * (i + j) = D * i + D * j  BY <1>1, <1>4, SMT
    <2>2. QED  BY <1>1, <1>5, <2>1
  <1>8. (D * p) * R <= D * j
    <2>1. (p * R) * D <= j * D
      BY <1>1, <1>2, <1>4, <1>6, ProductInNat, ProductMonotone
    <2>2. (p * R) * D = (D * p) * R /\ j * D = D * j  BY <1>1, <1>2, <1>4, SMT
    <2>3. QED  BY <2>1, <2>2
  <1>9. /\ D * i \in Nat /\ D * j \in Nat /\ u * R \in Nat /\ D * p \in Nat
        /\ (D * p) * R \in Nat /\ D * e \in Nat
    BY <1>1, <1>2, <1>4, ProductInNat
  <1>10. D * p <= u
    <2>1. (D * p) * R <= u * R  BY <1>7, <1>8, <1>9
    <2>2. QED  BY <1>1, <1>9, <2>1, CancelFactor
  <1>11. D * i <= (u - D * p) * R
    <2>1. (u - D * p) * R = u * R - (D * p) * R  BY <1>1, <1>9, SMT
    <2>2. QED  BY <1>7, <1>8, <1>9, <2>1
  <1>12. t + (u - D * p) <= D * (e - p)
    <2>1. D * (e - p) = D * e - D * p  BY <1>1, <1>2, SMT
    <2>2. QED  BY <1>1, <1>9, <1>10, <2>1
  <1>13. u - D * p \in Nat  BY <1>1, <1>9, <1>10
  <1>14. D * (ptSupply' * WAD) <= (u - D * p) * R  BY <1>2, <1>11 DEF i
  <1>15. t + (u - D * p) <= D * sy'[Escrow]  BY <1>2, <1>12
  <1>16. QED  BY <1>3, <1>13, <1>14, <1>15 DEF Allocation

\* recombine: PT gives up what was set aside for it and YT what it would earn,
\* together at least what is paid.
LEMMA RecombineKeeps ==
  ASSUME NEW R, NEW r, Settling(R, r), NEW D, NEW q, NEW t, NEW u,
         Allocation(D, q, t, u, r), NEW h \in Holders, NEW n \in Amounts,
         NEW p, p = Principal(n), Recombine(h, n)
  PROVE  Allocation(D * (R * r), Debited(Finer(q, R * r), h, Earned(D, n, R, r)),
                    t * (R * r) - Earned(D, n, R, r),
                    u * (R * r) - (D * R) * (n * WAD), r)'
  <1> DEFINE k == R * r
             y == Earned(D, n, R, r)
             x == (D * R) * (n * WAD)
             q1 == Debited(Finer(q, k), h, y)
             S == {h}
             e == sy[Escrow]
  <1>1. /\ R \in Nat \ {0} /\ r \in Nat \ {0} /\ R <= r /\ R = EffectiveRate
        /\ S \in SUBSET Accounts /\ h \in Accounts /\ k \in Nat /\ WAD \in Nat
        /\ e \in Nat /\ ptSupply \in Nat
    BY HolderIsAccount, SettlingFacts
  <1>2. /\ D \in Nat \ {0} /\ q \in Ledgers /\ t \in Nat /\ u \in Nat /\ HasTotal(q, t)
        /\ D * k \in Nat \ {0} /\ t + u <= D * e
        /\ D * (ptSupply * WAD) <= u * r
    BY SettlingFacts
  <1>3. /\ n \in Nat /\ n <= ptSupply /\ ptSupply' = ptSupply - n
        /\ p \in Nat /\ p * R <= n * WAD /\ p <= e /\ sy'[Escrow] = e - p
    BY ExitFacts DEF Recombine
  <1>4. /\ accrued' = SettledAccrued(S, R) /\ checkpoint' = SettledCheckpoint(S, R)
        /\ yt' = Debited(yt, h, n) /\ n <= yt[h]
    BY <1>1 DEF Recombine, YtBurn, Settle, CanDebit
  <1>6. /\ y \in Nat /\ x \in Nat /\ t * k \in Nat /\ u * k \in Nat
        /\ Finer(q, k) \in Ledgers /\ HasTotal(Finer(q, k), t * k) /\ yt \in Ledgers
    BY <1>1, <1>2, <1>3, EarnedType, FinerTotal, ProductInNat, LedgerTypes DEF Settling
  <1>7. ASSUME NEW a \in Accounts
        PROVE  /\ yt[a] \in Nat /\ q[a] * k \in Nat /\ Finer(q, k)[a] = q[a] * k
               /\ Backs(D * k, q[a] * k, accrued'[a], checkpoint'[a], yt[a], r)
               /\ a = h =>
                    /\ y <= q[a] * k
                    /\ Backs(D * k, q[a] * k - y, accrued'[a], checkpoint'[a], yt[a] - n, r)
    <2> HIDE DEF S
    <2>1. /\ yt[a] \in Nat /\ q[a] * k \in Nat /\ Finer(q, k)[a] = q[a] * k
          /\ Backs(D * k, q[a] * k, accrued'[a], checkpoint'[a], yt[a], r)
          /\ a \in S /\ n <= yt[a] =>
               /\ y <= q[a] * k
               /\ Backs(D * k, q[a] * k - y, accrued'[a], checkpoint'[a], yt[a] - n, r)
      BY <1>1, <1>3, <1>4, SettledParts
    <2>2. QED  BY <1>4, <2>1 DEF S
  <1> HIDE DEF y
  <1>8. q1 \in Ledgers /\ HasTotal(q1, t * k - y) /\ t * k - y \in Nat
    <2>1. y <= Finer(q, k)[h]  BY <1>1, <1>7
    <2>2. q1 \in Ledgers /\ HasTotal(q1, t * k - y)
      BY <1>1, <1>6, <2>1, DebitedLedger, DebitedTotal
    <2>3. t * k - y \in Nat  BY <1>1, <2>2, BalanceWithinTotal
    <2>4. QED  BY <2>2, <2>3
  <1>9. ASSUME NEW a \in Accounts
        PROVE  Backs(D * k, q1[a], accrued'[a], checkpoint'[a], yt'[a], r)
    <2> HIDE DEF k
    <2>1. CASE a # h
      <3>1. q1[a] = q[a] * k /\ yt'[a] = yt[a]
        BY <1>4, <1>6, <1>7, <2>1 DEF Debited, Ledgers
      <3>2. QED  BY <1>7, <3>1
    <2>2. CASE a = h
      <3>1. q1[a] = q[a] * k - y /\ yt'[a] = yt[a] - n
        BY <1>4, <1>6, <1>7, <2>2 DEF Debited, Ledgers
      <3>2. QED  BY <1>7, <2>2, <3>1
    <2>3. QED  BY <2>1, <2>2
  <1>10. /\ x <= u * k
         /\ (D * k) * ((ptSupply - n) * WAD) <= (u * k - x) * r
    BY <1>1, <1>2, <1>3, SetAsideLess
  <1>11. (t * k - y) + (u * k - x) <= (D * k) * sy'[Escrow]
    <2>1. y + x = (D * r) * (n * WAD)  BY <1>1, <1>2, <1>3, FaceSplits DEF y
    <2>2. (D * r) * (p * R) <= (D * r) * (n * WAD)
      <3>1. (p * R) * (D * r) <= (n * WAD) * (D * r)
        BY <1>1, <1>2, <1>3, ProductInNat, ProductMonotone
      <3>2. QED  BY <1>1, <1>2, <1>3, <3>1, SMT
    <2>3. (D * r) * (p * R) = (D * k) * p  BY <1>1, <1>2, <1>3, SMT
    <2>4. (t + u) * k <= (D * e) * k
      BY <1>1, <1>2, ProductInNat, ProductMonotone
    <2>5. (t + u) * k = t * k + u * k /\ (D * e) * k = (D * k) * e
      BY <1>1, <1>2, SMT
    <2>6. (D * k) * (e - p) = (D * k) * e - (D * k) * p  BY <1>1, <1>2, <1>3, SMT
    <2>7. /\ (D * r) * (n * WAD) \in Nat /\ (D * k) * p \in Nat /\ (D * k) * e \in Nat
      BY <1>1, <1>2, <1>3, ProductInNat
    <2> HIDE DEF k, x
    <2>8. QED  BY <1>3, <1>6, <1>8, <1>10, <2>1, <2>2, <2>3, <2>4, <2>5, <2>6, <2>7
  <1>12. u * k - x \in Nat  BY <1>6, <1>10
  <1>13. QED  BY <1>2, <1>3, <1>8, <1>9, <1>10, <1>11, <1>12 DEF Allocation, k, y, x

-----------------------------------------------------------------------------
(* The invariant holds at the start and every step keeps it.               *)

\* A step leaves the yield ledger alone, or commits a rate and settles at it
\* everyone whose balance or banked yield it changes.
LEMMA SettleSteps ==
  ASSUME TypeInv, [Next]_vars
  PROVE  /\ CommitRate \/ UNCHANGED peak
         /\ \/ UNCHANGED <<accrued, checkpoint, yt>>
            \/ /\ CommitRate
               /\ \E S \in SUBSET Accounts :
                    /\ checkpoint' = SettledCheckpoint(S, EffectiveRate)
                    /\ \A a \in Accounts \ S : accrued'[a] = accrued[a] /\ yt'[a] = yt[a]
  <1> USE HolderIsAccount
  <1>y. yt \in Ledgers /\ accrued \in Ledgers  BY DEF TypeInv, TypeOK, YtTypeOK
  <1>0. CommitRate \/ UNCHANGED peak  BY RateSteps DEF tokVars, Tick
  <1>1. ASSUME NEW h \in Holders, NEW n \in Amounts,
               Split(h, n) \/ Recombine(h, n) \/ BurnYt(h, n)
        PROVE  /\ CommitRate /\ {h} \in SUBSET Accounts
               /\ checkpoint' = SettledCheckpoint({h}, EffectiveRate)
               /\ \A a \in Accounts \ {h} : accrued'[a] = accrued[a] /\ yt'[a] = yt[a]
    BY <1>1, <1>y DEF Split, Recombine, BurnYt, YtMint, YtBurn, Settle,
                SettledAccrued, Credited, Debited, Ledgers
  <1>2. ASSUME NEW h \in Holders, ClaimYield(h)
        PROVE  /\ CommitRate /\ {h} \in SUBSET Accounts
               /\ checkpoint' = SettledCheckpoint({h}, EffectiveRate)
               /\ \A a \in Accounts \ {h} : accrued'[a] = accrued[a] /\ yt'[a] = yt[a]
    BY <1>2, <1>y DEF ClaimYield, SettleAndConsume, SettledAccrued, Debited, Ledgers
  <1>3. ASSUME NEW h \in Holders, NEW to \in Accounts, NEW n \in Amounts,
               TransferYt(h, to, n)
        PROVE  /\ CommitRate /\ {h, to} \in SUBSET Accounts
               /\ checkpoint' = SettledCheckpoint({h, to}, EffectiveRate)
               /\ \A a \in Accounts \ {h, to} : accrued'[a] = accrued[a] /\ yt'[a] = yt[a]
    BY <1>3, <1>y DEF TransferYt, YtTransfer, Settle, SettledAccrued, Moved, Ledgers
  <1>4. CASE UNCHANGED <<accrued, checkpoint, yt>>  BY <1>0, <1>4
  <1>5. CASE ~UNCHANGED <<accrued, checkpoint, yt>>
    <2>1. \/ \E h \in Holders : ClaimYield(h)
          \/ \E h \in Holders, n \in Amounts :
               Split(h, n) \/ Recombine(h, n) \/ BurnYt(h, n)
          \/ \E h \in Holders, to \in Accounts, n \in Amounts : TransferYt(h, to, n)
      BY <1>5
         DEF Next, vars, ytVars, ObserveRate, FreezeMaturityRate, RedeemAtMaturity,
             BurnPt, TransferSy, TransferPt, MoveRate, Tick
    <2>2. QED  BY <1>0, <1>1, <1>2, <1>3, <2>1
  <1>6. QED  BY <1>4, <1>5

LEMMA CheckpointedStep ==
  ASSUME TypeInv, Checkpointed, [Next]_vars
  PROVE  Checkpointed'
  <1>1. /\ peak \in Nat /\ EffectiveRate \in Nat \ {0}
        /\ \A a \in Accounts : checkpoint[a] \in Nat
    BY MarketTypes, LedgerTypes DEF TypeInv
  <1>2. peak' \in Nat /\ peak <= peak'
    BY <1>1, SettleSteps, PeakRises
  <1>3. CASE UNCHANGED <<accrued, checkpoint, yt>>
    BY <1>1, <1>2, <1>3 DEF Checkpointed
  <1>4. ASSUME CommitRate, NEW S \in SUBSET Accounts,
               checkpoint' = SettledCheckpoint(S, EffectiveRate),
               \A a \in Accounts \ S : accrued'[a] = accrued[a] /\ yt'[a] = yt[a]
        PROVE  Checkpointed'
    <2>1. EffectiveRate <= peak'  BY <1>4, PeakRises
    <2>2. ASSUME NEW a \in Accounts
          PROVE  /\ checkpoint'[a] <= peak'
                 /\ checkpoint'[a] = NoRate => yt'[a] = 0 /\ accrued'[a] = 0
      <3>1. /\ checkpoint[a] \in Nat /\ checkpoint[a] <= peak
            /\ checkpoint[a] = NoRate => yt[a] = 0 /\ accrued[a] = 0
        BY <1>1 DEF Checkpointed
      <3>2. checkpoint'[a] = IF a \in S /\ checkpoint[a] < EffectiveRate
                               THEN EffectiveRate ELSE checkpoint[a]
        BY <1>4 DEF SettledCheckpoint
      <3>3. CASE a \in S  BY <1>1, <1>2, <2>1, <3>1, <3>2, <3>3 DEF NoRate
      <3>4. CASE a \notin S  BY <1>1, <1>2, <1>4, <3>1, <3>2, <3>4
      <3>5. QED  BY <3>3, <3>4
    <2>3. QED  BY <2>2 DEF Checkpointed
  <1>5. QED  BY <1>3, <1>4, SettleSteps

\* Where a rate still ahead after a transaction stands to the one it used.
LEMMA AheadOfCommit ==
  ASSUME TypeInv, Checkpointed, RateInv, ~fell, CommitRate, NEW r, Ahead(r)'
  PROVE  /\ Settling(EffectiveRate, r)
         /\ Ahead(r)
         /\ IsMatured => r = EffectiveRate
  <1>1. /\ EffectiveRate \in Nat \ {0} /\ peak \in Nat /\ rate \in Nat \ {0}
        /\ lastObserved \in Nat /\ maturityRate \in Nat
    BY MarketTypes, RatesArePositive DEF TypeInv, TypeOK, SyTypeOK, NoRate
  <1>2. peak <= EffectiveRate /\ (peak # NoRate /\ IsMatured => EffectiveRate = peak)
    BY <1>1 DEF RateInv, EffectiveRate, FrozenRate, NoRate
  <1>3. peak' = EffectiveRate  BY <1>1, <1>2 DEF CommitRate, Greatest
  <1>4. IsMatured' = IsMatured  BY DEF CommitRate, IsMatured
  <1>5. r \in Nat \ {0} /\ EffectiveRate <= r /\ (IsMatured => r = EffectiveRate)
    BY <1>1, <1>3, <1>4 DEF Ahead, NoRate
  <1>6. Ahead(r)  BY <1>1, <1>2, <1>5 DEF Ahead
  <1>7. QED  BY <1>1, <1>2, <1>5, <1>6 DEF Settling

\* Every transaction that settles keeps the escrow allocated.
LEMMA SettleCovers ==
  ASSUME NEW R, NEW r, Settling(R, r), Covers(r), IsMatured => r = R,
         \/ \E h \in Holders : ClaimYield(h)
         \/ \E h \in Holders, n \in Amounts :
              Split(h, n) \/ Recombine(h, n) \/ RedeemAtMaturity(h, n) \/ BurnYt(h, n)
         \/ \E h \in Holders, to \in Accounts, n \in Amounts : TransferYt(h, to, n)
  PROVE  Covers(r)'
  <1>1. PICK D, q, t, u : Allocation(D, q, t, u, r)  BY DEF Covers
  <1>2. TypeInv /\ R \in Nat \ {0} /\ R = EffectiveRate  BY DEF Settling
  <1>3. ASSUME NEW h \in Holders, ClaimYield(h)  PROVE Covers(r)'
    <2>1. PICK p \in Nat : p = YieldPayout(h)  BY <1>2, PayoutBounds DEF TypeInv
    <2>2. Allocation(D, Debited(q, h, D * p), t - D * p, u, r)'
      BY <1>1, <1>3, <2>1, ClaimKeeps
    <2>3. QED  BY <2>2 DEF Covers
  <1>4. ASSUME NEW h \in Holders, NEW n \in Amounts, Split(h, n)  PROVE Covers(r)'
    <2>1. PICK f : f = MintedFace(n)  OBVIOUS
    <2>2. Allocation(D * (R * r), Credited(Finer(q, R * r), h, Earned(D, f, R, r)),
                     t * (R * r) + Earned(D, f, R, r),
                     u * (R * r) + (D * R) * (f * WAD), r)'
      BY <1>1, <1>4, <2>1, SplitKeeps
    <2>3. QED  BY <2>2 DEF Covers
  <1>5. ASSUME NEW h \in Holders, NEW n \in Amounts, Recombine(h, n)  PROVE Covers(r)'
    <2>1. PICK p : p = Principal(n)  OBVIOUS
    <2>2. Allocation(D * (R * r), Debited(Finer(q, R * r), h, Earned(D, n, R, r)),
                     t * (R * r) - Earned(D, n, R, r),
                     u * (R * r) - (D * R) * (n * WAD), r)'
      BY <1>1, <1>5, <2>1, RecombineKeeps
    <2>3. QED  BY <2>2 DEF Covers
  <1>6. ASSUME NEW h \in Holders, NEW n \in Amounts, RedeemAtMaturity(h, n)
        PROVE  Covers(r)'
    <2>1. PICK p : p = Principal(n)  OBVIOUS
    <2>2. r = R  BY <1>6 DEF RedeemAtMaturity
    <2>3. Settling(R, R) /\ Allocation(D, q, t, u, R)  BY <1>1, <2>2
    <2>4. Allocation(D, q, t, u - D * p, R)'
      BY <1>6, <2>1, <2>3, RedeemKeeps
    <2>5. QED  BY <2>2, <2>4 DEF Covers
  <1>7. ASSUME NEW h \in Holders, NEW n \in Amounts, BurnYt(h, n)  PROVE Covers(r)'
    <2>1. Allocation(D, q, t, u, r)'  BY <1>1, <1>7, BurnYtKeeps
    <2>2. QED  BY <2>1 DEF Covers
  <1>8. ASSUME NEW h \in Holders, NEW to \in Accounts, NEW n \in Amounts,
               TransferYt(h, to, n)
        PROVE  Covers(r)'
    <2>1. Allocation(D * (R * r), Moved(Finer(q, R * r), h, to, Earned(D, n, R, r)),
                     t * (R * r), u * (R * r), r)'
      BY <1>1, <1>8, TransferYtKeeps
    <2>2. QED  BY <2>1 DEF Covers
  <1>9. QED
    BY <1>3, <1>4, <1>5, <1>6, <1>7, <1>8

\* Every other step leaves YT alone, takes nothing from the escrow and mints
\* no PT.
LEMMA QuietCovers ==
  ASSUME TypeInv, NEW r, Covers(r), r \in Nat,
         \/ ObserveRate \/ FreezeMaturityRate \/ Tick \/ UNCHANGED vars
         \/ \E h \in Holders, n \in Amounts : BurnPt(h, n)
         \/ \E h \in Holders, to \in Accounts, n \in Amounts :
              TransferSy(h, to, n) \/ TransferPt(h, to, n)
         \/ \E x \in Rates : MoveRate(x)
  PROVE  Covers(r)'
  <1>1. PICK D, q, t, u : Allocation(D, q, t, u, r)  BY DEF Covers
  <1>2. /\ sy[Escrow] \in Nat /\ ptSupply \in Nat /\ sy \in Ledgers
        /\ Holders \subseteq Accounts /\ Amounts \subseteq Nat
    BY MarketTypes, MarketAssumption, HolderIsAccount DEF TypeInv, TypeOK, SyTypeOK
  <1>q. ASSUME UNCHANGED <<accrued, checkpoint, yt>>,
               sy'[Escrow] \in Nat, sy'[Escrow] >= sy[Escrow],
               ptSupply' \in Nat, ptSupply' <= ptSupply
        PROVE  Covers(r)'
    <2>1. Allocation(D, q, t, u, r)'  BY <1>1, <1>q, QuietKeeps
    <2>2. QED  BY <2>1 DEF Covers
  <1>3. CASE UNCHANGED <<accrued, checkpoint, yt, sy, ptSupply>>
    BY <1>q, <1>2, <1>3
  <1>4. ASSUME NEW h \in Holders, NEW n \in Amounts, BurnPt(h, n)
        PROVE  Covers(r)'
    <2>1. n > 0 /\ n <= ptSupply /\ ptSupply' = ptSupply - n
      BY <1>2, <1>4, PtBurnTypes DEF BurnPt, TypeInv
    <2>2. UNCHANGED <<accrued, checkpoint, yt, sy>>  BY <1>4 DEF BurnPt, ytVars
    <2>3. ptSupply' \in Nat /\ ptSupply' <= ptSupply  BY <1>2, <2>1
    <2>4. QED  BY <1>q, <1>2, <2>2, <2>3
  <1>5. ASSUME NEW h \in Holders, NEW to \in Accounts, NEW n \in Amounts,
               TransferSy(h, to, n)
        PROVE  Covers(r)'
    <2>1. sy'[Escrow] = IF to = Escrow THEN sy[Escrow] + n ELSE sy[Escrow]
      BY <1>2, <1>5, MovedIntoEscrow DEF TransferSy, SyTransfer
    <2>2. sy'[Escrow] \in Nat /\ sy[Escrow] <= sy'[Escrow]  BY <1>2, <2>1
    <2>3. UNCHANGED <<accrued, checkpoint, yt, ptSupply>>
      BY <1>5 DEF TransferSy, ptVars, ytVars
    <2>4. QED  BY <1>q, <1>2, <2>2, <2>3
  <1>6. ASSUME NEW h \in Holders, NEW to \in Accounts, NEW n \in Amounts,
               TransferPt(h, to, n)
        PROVE  UNCHANGED <<accrued, checkpoint, yt, sy, ptSupply>>
    BY <1>6 DEF TransferPt, PtTransfer, ytVars
  <1>7. CASE \/ ObserveRate \/ FreezeMaturityRate \/ Tick \/ UNCHANGED vars
             \/ \E x \in Rates : MoveRate(x)
    BY <1>3, <1>7 DEF ObserveRate, FreezeMaturityRate, Tick, vars, MoveRate, ytVars, ptVars
  <1>8. QED  BY <1>3, <1>4, <1>5, <1>6, <1>7

LEMMA SolvencyStep ==
  ASSUME TypeInv, Checkpointed, RateInv, SolvencyInv, [Next]_vars
  PROVE  SolvencyInv'
  <1>1. SUFFICES ASSUME ~fell', NEW r, Ahead(r)'  PROVE Covers(r)'
    BY DEF SolvencyInv
  <1>2. ~fell
    <2>1. CASE UNCHANGED rateVars  BY <1>1, <2>1 DEF rateVars
    <2>2. CASE \E x \in Rates : RateMoves(x)  BY <1>1, <2>2, Zenon DEF RateMoves
    <2>3. CASE Tick  BY <1>1, <2>3 DEF Tick, rateVars
    <2>4. QED  BY <2>1, <2>2, <2>3, RateSteps
  <1>3. ASSUME CommitRate
        PROVE  /\ Settling(EffectiveRate, r) /\ Covers(r)
               /\ IsMatured => r = EffectiveRate
    BY <1>1, <1>2, <1>3, AheadOfCommit DEF SolvencyInv
  <1>4. ASSUME UNCHANGED peak, IsMatured => IsMatured'  PROVE Covers(r)
    <2>1. Ahead(r)  BY <1>1, <1>4 DEF Ahead
    <2>2. QED  BY <1>2, <2>1 DEF SolvencyInv
  <1>5. r \in Nat  BY <1>1 DEF Ahead
  <1>6. CASE \/ \E h \in Holders : ClaimYield(h)
             \/ \E h \in Holders, n \in Amounts :
                  Split(h, n) \/ Recombine(h, n) \/ RedeemAtMaturity(h, n) \/ BurnYt(h, n)
             \/ \E h \in Holders, to \in Accounts, n \in Amounts : TransferYt(h, to, n)
    <2>1. CommitRate
      BY <1>6 DEF ClaimYield, Split, Recombine, RedeemAtMaturity, BurnYt, TransferYt
    <2>2. QED  BY <1>3, <1>6, <2>1, SettleCovers
  <1>7. CASE ObserveRate \/ FreezeMaturityRate
    <2>1. Covers(r)  BY <1>3, <1>7 DEF ObserveRate, FreezeMaturityRate
    <2>2. QED  BY <1>5, <1>7, <2>1, QuietCovers
  <1>8. CASE \/ Tick \/ UNCHANGED vars
             \/ \E h \in Holders, n \in Amounts : BurnPt(h, n)
             \/ \E h \in Holders, to \in Accounts, n \in Amounts :
                  TransferSy(h, to, n) \/ TransferPt(h, to, n)
             \/ \E x \in Rates : MoveRate(x)
    <2>1. UNCHANGED peak /\ (IsMatured => IsMatured')
      <3>1. now \in Nat /\ Maturity \in Nat
        BY MarketAssumption DEF TypeInv, TypeOK
      <3>2. UNCHANGED tokVars \/ Tick
        BY <1>8 DEF vars, BurnPt, TransferSy, TransferPt, MoveRate
      <3>3. QED  BY <3>1, <3>2 DEF Tick, tokVars, IsMatured
    <2>2. Covers(r)  BY <1>4, <2>1
    <2>3. QED  BY <1>5, <1>8, <2>2, QuietCovers
  <1>9. QED  BY <1>6, <1>7, <1>8 DEF Next

LEMMA SolvencyInit ==
  ASSUME Init
  PROVE  Checkpointed /\ SolvencyInv
  <1>1. /\ checkpoint = [a \in Accounts |-> NoRate] /\ yt = EmptyLedger
        /\ accrued = EmptyLedger /\ ptSupply = 0 /\ sy[Escrow] = 0 /\ peak = NoRate
    BY HolderIsAccount DEF Init, YtInit, PtInit, SyInit
  <1>2. Checkpointed  BY <1>1 DEF Checkpointed, EmptyLedger, NoRate
  <1>3. ASSUME NEW r \in Nat  PROVE Covers(r)
    <2>1. EmptyLedger \in Ledgers /\ HasTotal(EmptyLedger, 0)
      BY EmptyHasTotal DEF EmptyLedger, Ledgers
    <2>2. 1 * 0 = 0 /\ 1 * (0 * WAD) = 0 /\ 0 * r = 0  BY WadAssumption, SMT
    <2>3. \A a \in Accounts :
             Backs(1, EmptyLedger[a], accrued[a], checkpoint[a], yt[a], r)
      BY <1>1 DEF Backs
    <2>4. Allocation(1, EmptyLedger, 0, 0, r)
      BY <1>1, <2>1, <2>2, <2>3 DEF Allocation
    <2>5. QED  BY <2>4 DEF Covers
  <1>4. QED  BY <1>2, <1>3 DEF SolvencyInv, Ahead

LEMMA AllocationCorrect == Spec => [](TypeInv /\ RateInv /\ Checkpointed /\ SolvencyInv)
  <1>1. Init => Checkpointed /\ SolvencyInv  BY SolvencyInit
  <1>2. TypeInv /\ RateInv /\ Checkpointed /\ SolvencyInv /\ [Next]_vars
          => Checkpointed' /\ SolvencyInv'
    BY CheckpointedStep, SolvencyStep
  <1>3. QED  BY <1>1, <1>2, TypeInit, TypeStep, RatesCorrect, PTL DEF Spec

-----------------------------------------------------------------------------
(* What the allocation says of the escrow at the rate in force.            *)

Owed(r) == [a \in Accounts |-> accrued[a] + PendingYield(a, r)]

LEMMA AheadNow ==
  ASSUME TypeInv, Checkpointed, RateInv, ~fell
  PROVE  Ahead(EffectiveRate) /\ Settling(EffectiveRate, EffectiveRate)
  <1>1. /\ EffectiveRate \in Nat \ {0} /\ peak \in Nat /\ rate \in Nat \ {0}
        /\ lastObserved \in Nat /\ maturityRate \in Nat
    BY MarketTypes, RatesArePositive DEF TypeInv, TypeOK, SyTypeOK, NoRate
  <1>2. peak <= EffectiveRate /\ (peak # NoRate /\ IsMatured => EffectiveRate = peak)
    BY <1>1 DEF RateInv, EffectiveRate, FrozenRate, NoRate
  <1>3. QED  BY <1>1, <1>2 DEF Ahead, Settling

\* The parts allocated to an account are worth all it could claim.
LEMMA OwedIsAllocated ==
  ASSUME NEW R, Settling(R, R), NEW D, NEW q, NEW t, NEW u,
         Allocation(D, q, t, u, R), NEW a \in Accounts
  PROVE  /\ Owed(R)[a] \in Nat
         /\ D * Owed(R)[a] <= q[a]
  <1>1. /\ R \in Nat \ {0} /\ D \in Nat /\ q \in Ledgers
        /\ Backs(D, q[a], accrued[a], checkpoint[a], yt[a], R)
    BY SettlingFacts
  <1>2. yt[a] \in Nat /\ q[a] \in Nat  BY <1>1, LedgerTypes DEF Settling, Ledgers
  <1>3. /\ SettledAccrued(Accounts, R)[a] \in Nat
        /\ SettledCheckpoint(Accounts, R)[a] = R
        /\ Backs(D, q[a], SettledAccrued(Accounts, R)[a],
                 SettledCheckpoint(Accounts, R)[a], yt[a], R)
    BY <1>1, SettleBacks
  <1>4. SettledAccrued(Accounts, R)[a] = Owed(R)[a]  BY DEF SettledAccrued, Owed
  <1>5. Owed(R)[a] \in Nat /\ Backs(D, q[a], Owed(R)[a], R, yt[a], R)
    BY <1>3, <1>4
  <1> DEFINE p == Owed(R)[a]
             x == q[a]
             b == yt[a]
  <1> HIDE DEF p, x, b
  <1>6. /\ p \in Nat /\ p <= p /\ x \in Nat /\ b \in Nat /\ R <= R
        /\ Backs(D, x, p, R, b, R)
    BY <1>1, <1>2, <1>5 DEF p, x, b
  <1>7. D * p <= x  BY <1>1, <1>6, BacksPaid
  <1>8. QED  BY <1>5, <1>7 DEF p, x

\* Cancelling the parts: the escrow covers PT at face and all yield owed.
LEMMA EscrowCovers ==
  ASSUME TypeInv, Checkpointed, RateInv, SolvencyInv, ~fell
  PROVE  /\ Owed(EffectiveRate) \in Ledgers
         /\ HasTotal(Owed(EffectiveRate), OwedInAll(EffectiveRate))
         /\ OwedInAll(EffectiveRate) \in Nat
         /\ sy[Escrow] >= FaceReservation + OwedInAll(EffectiveRate)
  <1> DEFINE R == EffectiveRate
             m == OwedInAll(R)
             e == sy[Escrow]
             p == ptSupply
  <1>1. Settling(R, R) /\ Covers(R)  BY AheadNow DEF SolvencyInv
  <1>2. PICK D, q, t, u : Allocation(D, q, t, u, R)  BY <1>1 DEF Covers
  <1>3. /\ R \in Nat \ {0} /\ e \in Nat /\ p \in Nat /\ WAD \in Nat
        /\ D \in Nat \ {0} /\ t \in Nat /\ u \in Nat /\ t + u <= D * e
        /\ D * (p * WAD) <= u * R
        /\ q \in Ledgers /\ HasTotal(q, t)
    BY <1>1, <1>2, SettlingFacts
  <1>4. \A a \in Accounts : Owed(R)[a] \in Nat /\ D * Owed(R)[a] <= q[a]
    BY <1>1, <1>2, OwedIsAllocated
  <1>5. Owed(R) \in Ledgers  BY <1>4 DEF Owed, Ledgers
  <1>6. m = Total(Owed(R))  BY DEF OwedInAll, Owed
  <1>7. HasTotal(Owed(R), m) /\ m \in Nat  BY <1>5, <1>6, TotalOfLedger
  <1> HIDE DEF R, m
  <1>8. D * m <= t  BY <1>3, <1>4, <1>5, <1>7, TotalsCompare
  <1> HIDE DEF e, p
  <1>9. D * m \in Nat /\ D * e \in Nat /\ D * m + u <= D * e
    BY <1>3, <1>7, <1>8, ProductInNat
  <1>10. m <= e
    <2>1. m * D <= e * D  BY <1>3, <1>7, <1>9, SMT
    <2>2. QED  BY <1>3, <1>7, <2>1, CancelFactor
  <1>11. e - m \in Nat /\ u <= D * (e - m)
    <2>1. D * (e - m) = D * e - D * m  BY <1>3, <1>7, SMT
    <2>2. QED  BY <1>3, <1>7, <1>9, <1>10, <2>1
  <1>12. p * WAD <= (e - m) * R
    <2> DEFINE v == e - m
    <2>1. v \in Nat /\ u <= D * v  BY <1>11
    <2> HIDE DEF v
    <2>2. u * R <= (D * v) * R  BY <1>3, <2>1, ProductInNat, ProductMonotone
    <2>3. (D * v) * R = (v * R) * D /\ D * (p * WAD) = (p * WAD) * D
      BY <1>3, <2>1, SMT
    <2>4. /\ p * WAD \in Nat /\ v * R \in Nat /\ u * R \in Nat
          /\ (p * WAD) * D \in Nat /\ (v * R) * D \in Nat
      BY <1>3, <2>1, ProductInNat
    <2>5. (p * WAD) * D <= (v * R) * D  BY <1>3, <2>2, <2>3, <2>4
    <2>6. p * WAD <= v * R  BY <1>3, <2>4, <2>5, CancelFactor
    <2>7. QED  BY <2>6 DEF v
  <1>13. MulDivCeil(p, WAD, R) <= e - m  BY <1>3, <1>11, <1>12, CeilIsLeast
  <1>14. FaceReservation = MulDivCeil(p, WAD, R)  BY DEF FaceReservation, R, p
  <1>15. FaceReservation \in Nat  BY ReservationCovers DEF TypeInv
  <1>16. e >= FaceReservation + m  BY <1>3, <1>7, <1>10, <1>13, <1>14, <1>15
  <1>17. QED  BY <1>5, <1>7, <1>16 DEF R, m, e

\* Until the SY rate first falls the escrow covers every PT at face and all
\* yield owed to every holder, to the last unit, however many holders there
\* are and in whatever order they split, transfer, burn, claim and exit: no
\* rounding ever adds up against it.
THEOREM StaysFullyCovered == Spec => []FullyCovered
  <1>1. TypeInv /\ RateInv /\ Checkpointed /\ SolvencyInv => FullyCovered
    BY EscrowCovers DEF FullyCovered
  <1>2. QED  BY <1>1, AllocationCorrect, PTL

\* So no claim is ever cut short: claim_yield pays all that its holder is owed
\* and leaves nothing banked.
THEOREM ClaimsArePaid == Spec => ClaimsPaidInFull
  <1>1. TypeInv /\ RateInv /\ Checkpointed /\ SolvencyInv
          => (~fell => \A h \in Holders : ClaimYield(h) => accrued'[h] = 0)
    <2> SUFFICES ASSUME TypeInv, RateInv, Checkpointed, SolvencyInv, ~fell,
                        NEW h \in Holders, ClaimYield(h)
                 PROVE  accrued'[h] = 0
      OBVIOUS
    <2> DEFINE R == EffectiveRate
               m == OwedInAll(R)
               w == SettledAccrued({h}, R)
    <2>1. /\ Owed(R) \in Ledgers /\ HasTotal(Owed(R), m) /\ m \in Nat
          /\ sy[Escrow] >= FaceReservation + m
      BY EscrowCovers
    <2>2. h \in Accounts /\ R \in Nat \ {0} /\ YtTypeOK /\ sy[Escrow] \in Nat
          /\ FaceReservation \in Nat
      BY HolderIsAccount, MarketTypes, ReservationCovers DEF TypeInv
    <2>3. w[h] = Owed(R)[h]  BY <2>2 DEF SettledAccrued, Owed
    <2>4. w[h] \in Nat /\ w[h] <= m
      BY <2>1, <2>2, <2>3, BalanceWithinTotal DEF Ledgers
    <2>5. w \in Ledgers  BY <2>2, SettleTypes
    <2>6. accrued' = Debited(w, h, YieldPayout(h))
      BY DEF ClaimYield, SettleAndConsume
    <2>7. YieldPayout(h) = Least(w[h], Surplus)  BY DEF YieldPayout
    <2> HIDE DEF w, m
    <2>8. YieldPayout(h) = w[h]
      BY <2>1, <2>2, <2>4, <2>7 DEF Least, Surplus
    <2>9. QED  BY <2>2, <2>4, <2>5, <2>6, <2>8 DEF Debited, Ledgers
  <1>2. Spec => [][~fell => \A h \in Holders : ClaimYield(h) => accrued'[h] = 0]_vars
    BY <1>1, AllocationCorrect, PTL
  <1>3. QED  BY <1>2 DEF ClaimsPaidInFull
=============================================================================
