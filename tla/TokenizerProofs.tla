--------------------------- MODULE TokenizerProofs ---------------------------
(***************************************************************************)
(* Machine-checked facts about a market with any holders, rates, amounts   *)
(* and scale.  First the balance movements and the pricing operators, then *)
(* type correctness, then the safety theorems.                             *)
(***************************************************************************)
EXTENDS Tokenizer, FixedPointProofs

-----------------------------------------------------------------------------
(* Balance movements. *)

\* A transfer keeps a ledger a ledger, and moves the escrow's balance by n
\* exactly when the escrow is one of its two ends.
LEMMA MovedLedger ==
  ASSUME NEW balance \in Ledgers, NEW from \in Accounts, NEW to \in Accounts,
         NEW n \in Nat, n <= balance[from]
  PROVE  Moved(balance, from, to, n) \in Ledgers
  BY DEF Moved, Ledgers

LEMMA MovedIntoEscrow ==
  ASSUME NEW balance \in Ledgers, NEW from \in Holders, NEW to \in Accounts,
         NEW n \in Nat
  PROVE  Moved(balance, from, to, n)[Escrow] =
           IF to = Escrow THEN balance[Escrow] + n ELSE balance[Escrow]
  BY AccountAssumption DEF Moved, Ledgers, Accounts

LEMMA MovedOutOfEscrow ==
  ASSUME NEW balance \in Ledgers, NEW to \in Holders, NEW n \in Nat
  PROVE  Moved(balance, Escrow, to, n)[Escrow] = balance[Escrow] - n
  BY AccountAssumption DEF Moved, Ledgers, Accounts

LEMMA CreditedLedger ==
  ASSUME NEW balance \in Ledgers, NEW to \in Accounts, NEW n \in Nat
  PROVE  Credited(balance, to, n) \in Ledgers
  BY DEF Credited, Ledgers

LEMMA DebitedLedger ==
  ASSUME NEW balance \in Ledgers, NEW from \in Accounts, NEW n \in Nat,
         n <= balance[from]
  PROVE  Debited(balance, from, n) \in Ledgers
  BY DEF Debited, Ledgers

LEMMA HolderIsAccount == Holders \subseteq Accounts /\ Escrow \in Accounts
  BY DEF Accounts

-----------------------------------------------------------------------------
(* Totals.  That a supply is the sum of all balances is stated without     *)
(* summing: some function gives every set of accounts its total, growing   *)
(* by an account's balance as that account joins the set.  Each balance    *)
(* movement then has an explicit new totals function, so no induction over *)
(* the accounts is needed, and their number need not even be finite.       *)

Totals(S, ledger) ==
  /\ S \in [SUBSET Accounts -> Nat]
  /\ S[{}] = 0
  /\ \A A \in SUBSET Accounts : \A x \in A : S[A] = S[A \ {x}] + ledger[x]

HasTotal(ledger, n) == \E S : Totals(S, ledger) /\ S[Accounts] = n

LEMMA EmptyHasTotal == HasTotal(EmptyLedger, 0)
  <1> DEFINE S == [A \in SUBSET Accounts |-> 0]
  <1>1. Totals(S, EmptyLedger) /\ S[Accounts] = 0
    BY DEF Totals, EmptyLedger
  <1>2. QED  BY <1>1 DEF HasTotal

\* No balance exceeds the total.
LEMMA BalanceWithinTotal ==
  ASSUME NEW ledger \in Ledgers, NEW n, HasTotal(ledger, n), NEW a \in Accounts
  PROVE  n \in Nat /\ ledger[a] <= n
  <1>1. PICK S : Totals(S, ledger) /\ S[Accounts] = n  BY DEF HasTotal
  <1>2. S[Accounts] = S[Accounts \ {a}] + ledger[a]  BY <1>1 DEF Totals
  <1>3. S[Accounts] \in Nat /\ S[Accounts \ {a}] \in Nat
    BY <1>1 DEF Totals
  <1>4. QED  BY <1>1, <1>2, <1>3 DEF Ledgers

LEMMA CreditedTotal ==
  ASSUME NEW ledger \in Ledgers, NEW n, HasTotal(ledger, n),
         NEW to \in Accounts, NEW k \in Nat
  PROVE  HasTotal(Credited(ledger, to, k), n + k)
  <1>1. PICK S : Totals(S, ledger) /\ S[Accounts] = n  BY DEF HasTotal
  <1> DEFINE T == [A \in SUBSET Accounts |-> IF to \in A THEN S[A] + k ELSE S[A]]
             new == Credited(ledger, to, k)
  <1>2. T \in [SUBSET Accounts -> Nat] /\ T[{}] = 0
    BY <1>1 DEF Totals
  <1>3. ASSUME NEW A \in SUBSET Accounts, NEW x \in A
        PROVE  T[A] = T[A \ {x}] + new[x]
    <2>1. /\ S[A] = S[A \ {x}] + ledger[x]
          /\ S[A] \in Nat /\ S[A \ {x}] \in Nat /\ ledger[x] \in Nat
      BY <1>1 DEF Totals, Ledgers
    <2>2. new[x] = IF x = to THEN ledger[x] + k ELSE ledger[x]
      BY DEF Credited, Ledgers
    <2>3. A \ {x} \in SUBSET Accounts  OBVIOUS
    <2>4. T[A] = (IF to \in A THEN S[A] + k ELSE S[A])
          /\ T[A \ {x}] = (IF to \in A \ {x} THEN S[A \ {x}] + k ELSE S[A \ {x}])
      BY <2>3
    <2>5. QED  BY <2>1, <2>2, <2>4
  <1>4. T[Accounts] = n + k  BY <1>1
  <1>5. QED  BY <1>2, <1>3, <1>4 DEF HasTotal, Totals

LEMMA DebitedTotal ==
  ASSUME NEW ledger \in Ledgers, NEW n, HasTotal(ledger, n),
         NEW from \in Accounts, NEW k \in Nat, k <= ledger[from]
  PROVE  HasTotal(Debited(ledger, from, k), n - k)
  <1>1. PICK S : Totals(S, ledger) /\ S[Accounts] = n  BY DEF HasTotal
  <1> DEFINE T == [A \in SUBSET Accounts |->
                     IF from \in A THEN S[A] - k ELSE S[A]]
             new == Debited(ledger, from, k)
  <1>2. ASSUME NEW A \in SUBSET Accounts, from \in A  PROVE  S[A] >= k
    <2>1. S[A] = S[A \ {from}] + ledger[from]  BY <1>1, <1>2 DEF Totals
    <2>2. S[A \ {from}] \in Nat /\ ledger[from] \in Nat
      BY <1>1 DEF Totals, Ledgers
    <2>3. QED  BY <2>1, <2>2
  <1>3. T \in [SUBSET Accounts -> Nat] /\ T[{}] = 0
    BY <1>1, <1>2 DEF Totals
  <1>4. ASSUME NEW A \in SUBSET Accounts, NEW x \in A
        PROVE  T[A] = T[A \ {x}] + new[x]
    <2>1. /\ S[A] = S[A \ {x}] + ledger[x]
          /\ S[A] \in Nat /\ S[A \ {x}] \in Nat /\ ledger[x] \in Nat
      BY <1>1 DEF Totals, Ledgers
    <2>2. new[x] = IF x = from THEN ledger[x] - k ELSE ledger[x]
      BY DEF Debited, Ledgers
    <2>3. A \ {x} \in SUBSET Accounts  OBVIOUS
    <2>4. T[A] = (IF from \in A THEN S[A] - k ELSE S[A])
          /\ T[A \ {x}] = (IF from \in A \ {x} THEN S[A \ {x}] - k ELSE S[A \ {x}])
      BY <2>3
    <2>5. QED  BY <2>1, <2>2, <2>4
  <1>5. T[Accounts] = n - k  BY <1>1
  <1>6. QED  BY <1>3, <1>4, <1>5 DEF HasTotal, Totals

\* A transfer, to oneself included, leaves the total as it was.
LEMMA MovedTotal ==
  ASSUME NEW ledger \in Ledgers, NEW n \in Nat, HasTotal(ledger, n),
         NEW from \in Accounts, NEW to \in Accounts,
         NEW k \in Nat, k <= ledger[from]
  PROVE  HasTotal(Moved(ledger, from, to, k), n)
  <1>1. Debited(ledger, from, k) \in Ledgers  BY DebitedLedger
  <1>2. HasTotal(Debited(ledger, from, k), n - k)  BY DebitedTotal
  <1>3. HasTotal(Credited(Debited(ledger, from, k), to, k), (n - k) + k)
    BY <1>1, <1>2, CreditedTotal
  <1>4. (n - k) + k = n  OBVIOUS
  <1>5. Moved(ledger, from, to, k) = Credited(Debited(ledger, from, k), to, k)
    BY DEF Moved, Credited, Debited
  <1>6. QED  BY <1>3, <1>4, <1>5

-----------------------------------------------------------------------------
(* The yield engine and the pricing operators. *)

\* The rate a transaction commits is always a rate SY reported.
LEMMA EffectiveRateType ==
  ASSUME TypeOK
  PROVE  EffectiveRate \in Rates /\ FrozenRate \in Rates
  BY SyAssumption DEF TypeOK, SyTypeOK, EffectiveRate, FrozenRate, NoRate

LEMMA RatesArePositive == Rates \subseteq Nat \ {0}
  BY SyAssumption

\* What type correctness says of the quantities the pricing operators read.
LEMMA MarketTypes ==
  ASSUME TypeOK
  PROVE  /\ EffectiveRate \in Nat \ {0}
         /\ sy[Escrow] \in Nat
         /\ ptSupply \in Nat
         /\ WAD \in Nat \ {0}
         /\ peak \in Nat
         /\ YtTypeOK
  <1>1. EffectiveRate \in Rates  BY EffectiveRateType
  <1>2. EffectiveRate \in Nat \ {0}  BY <1>1, RatesArePositive
  <1>3. sy[Escrow] \in Nat
    BY HolderIsAccount DEF TypeOK, SyTypeOK, Ledgers
  <1>4. ptSupply \in Nat  BY DEF TypeOK, PtTypeOK
  <1>5. peak \in Nat  BY RatesArePositive DEF TypeOK, NoRate
  <1>6. YtTypeOK  BY DEF TypeOK
  <1>7. QED  BY <1>2, <1>3, <1>4, <1>5, <1>6, WadAssumption

LEMMA PendingYieldType ==
  ASSUME YtTypeOK, NEW a \in Accounts, NEW r \in Nat \ {0}
  PROVE  PendingYield(a, r) \in Nat
  <1>1. CASE checkpoint[a] # NoRate /\ checkpoint[a] < r
    <2>1. yt[a] \in Nat /\ checkpoint[a] \in Nat \ {0} /\ checkpoint[a] <= r
      BY <1>1 DEF YtTypeOK, Ledgers, NoRate
    <2>2. OwedShares(yt[a], checkpoint[a], r) \in Nat
      BY <2>1, OwedSharesBounds
    <2>3. QED  BY <1>1, <2>2 DEF PendingYield
  <1>2. CASE ~(checkpoint[a] # NoRate /\ checkpoint[a] < r)
    BY <1>2 DEF PendingYield
  <1>3. QED  BY <1>1, <1>2

LEMMA SettleTypes ==
  ASSUME YtTypeOK, NEW S \in SUBSET Accounts, NEW r \in Nat \ {0}
  PROVE  SettledAccrued(S, r) \in Ledgers /\ SettledCheckpoint(S, r) \in Ledgers
  <1>1. \A a \in Accounts : PendingYield(a, r) \in Nat
    BY PendingYieldType
  <1>2. SettledAccrued(S, r) \in Ledgers
    BY <1>1 DEF SettledAccrued, Ledgers, YtTypeOK
  <1>3. SettledCheckpoint(S, r) \in Ledgers
    BY DEF SettledCheckpoint, Ledgers, YtTypeOK
  <1>4. QED  BY <1>2, <1>3

\* The reservation covers all PT at face, at the rate it is computed at.
LEMMA ReservationCovers ==
  ASSUME TypeOK
  PROVE  /\ FaceReservation \in Nat
         /\ FaceReservation * EffectiveRate >= ptSupply * WAD
  <1>1. ptSupply \in Nat /\ WAD \in Nat /\ EffectiveRate \in Nat \ {0}
    BY MarketTypes
  <1>2. QED  BY <1>1, CeilBounds DEF FaceReservation

\* A yield payment is at most what is owed and leaves the reservation behind.
LEMMA PayoutBounds ==
  ASSUME TypeOK, NEW h \in Holders
  PROVE  /\ YieldPayout(h) \in Nat
         /\ YieldPayout(h) <= SettledAccrued({h}, EffectiveRate)[h]
         /\ YieldPayout(h) > 0 =>
              sy[Escrow] - YieldPayout(h) >= FaceReservation
  <1>1. SettledAccrued({h}, EffectiveRate)[h] \in Nat
    <2>1. SettledAccrued({h}, EffectiveRate) \in Ledgers
      BY MarketTypes, SettleTypes, HolderIsAccount
    <2>2. QED  BY <2>1, HolderIsAccount DEF Ledgers
  <1>2. FaceReservation \in Nat  BY ReservationCovers
  <1>3. sy[Escrow] \in Nat  BY MarketTypes
  <1>4. QED  BY <1>1, <1>2, <1>3 DEF YieldPayout, Least, Surplus

\* An exit pays a natural number of shares, never more than the escrow's
\* share of the PT burned: n PT take at most n / ptSupply of the escrow.
LEMMA PrincipalBounds ==
  ASSUME TypeOK, NEW n \in Nat, ptSupply > 0
  PROVE  /\ Principal(n) \in Nat
         /\ Principal(n) * ptSupply <= sy[Escrow] * n
  <1>1. /\ ptSupply \in Nat \ {0} /\ WAD \in Nat
        /\ EffectiveRate \in Nat \ {0} /\ sy[Escrow] \in Nat
    BY MarketTypes
  <1> DEFINE full == MulDivFloor(n, WAD, EffectiveRate)
             share == MulDivFloor(sy[Escrow], n, ptSupply)
  <1>2. full \in Nat  BY <1>1, FloorBounds
  <1>3. share \in Nat /\ share * ptSupply <= sy[Escrow] * n
    BY <1>1, FloorBounds
  <1> HIDE DEF full, share
  <1>4. Least(full, share) \in Nat /\ Least(full, share) <= share
    BY <1>2, <1>3 DEF Least
  <1>5. Least(full, share) * ptSupply <= share * ptSupply
    BY <1>1, <1>3, <1>4, ProductMonotone
  <1>6. Principal(n) = Least(full, share)  BY DEF Principal, full, share
  <1>7. /\ Least(full, share) * ptSupply \in Nat
        /\ share * ptSupply \in Nat
        /\ sy[Escrow] * n \in Nat
    BY <1>1, <1>3, <1>4, ProductInNat
  <1>8. QED  BY <1>3, <1>4, <1>5, <1>6, <1>7

-----------------------------------------------------------------------------
(* Type correctness. *)

\* Committing a rate records one SY reported.
LEMMA CommitTypes ==
  ASSUME TypeOK, CommitRate
  PROVE  /\ now' \in 0..MaxTime
         /\ lastObserved' \in Rates \cup {NoRate}
         /\ maturityRate' \in Rates \cup {NoRate}
         /\ peak' \in Rates \cup {NoRate}
  BY EffectiveRateType DEF TypeOK, CommitRate, Greatest

LEMMA SyTransferTypes ==
  ASSUME TypeOK, NEW from \in Accounts, NEW to \in Accounts, NEW n \in Nat,
         SyTransfer(from, to, n)
  PROVE  sy' \in Ledgers
  BY MovedLedger DEF TypeOK, SyTypeOK, SyTransfer, CanDebit

\* Each operation of a token keeps its supply the sum of its balances.
SuppliesAreTotals == HasTotal(pt, ptSupply) /\ HasTotal(yt, ytSupply)

LEMMA PtMintTypes ==
  ASSUME TypeOK, SuppliesAreTotals, NEW to \in Accounts, NEW n \in Nat,
         PtMint(to, n)
  PROVE  PtTypeOK' /\ HasTotal(pt', ptSupply')
  BY CreditedLedger, CreditedTotal
     DEF TypeOK, PtTypeOK, SuppliesAreTotals, PtMint

LEMMA PtTransferTypes ==
  ASSUME TypeOK, SuppliesAreTotals, NEW from \in Accounts,
         NEW to \in Accounts, NEW n \in Nat, PtTransfer(from, to, n)
  PROVE  PtTypeOK' /\ HasTotal(pt', ptSupply')
  BY MovedLedger, MovedTotal
     DEF TypeOK, PtTypeOK, SuppliesAreTotals, PtTransfer, CanDebit

LEMMA PtBurnTypes ==
  ASSUME TypeOK, SuppliesAreTotals, NEW from \in Accounts, NEW n \in Nat,
         PtBurn(from, n)
  PROVE  /\ PtTypeOK' /\ HasTotal(pt', ptSupply')
         /\ n > 0 /\ n <= ptSupply /\ ptSupply' = ptSupply - n
  <1>1. /\ pt \in Ledgers /\ ptSupply \in Nat /\ HasTotal(pt, ptSupply)
        /\ n > 0 /\ n <= pt[from]
        /\ pt' = Debited(pt, from, n) /\ ptSupply' = ptSupply - n
    BY DEF TypeOK, PtTypeOK, SuppliesAreTotals, PtBurn, CanDebit
  <1>2. pt[from] <= ptSupply  BY <1>1, BalanceWithinTotal
  <1>3. pt[from] \in Nat  BY <1>1 DEF Ledgers
  <1>4. HasTotal(pt', ptSupply')  BY <1>1, DebitedTotal
  <1>5. pt' \in Ledgers  BY <1>1, DebitedLedger
  <1>6. QED  BY <1>1, <1>2, <1>3, <1>4, <1>5 DEF PtTypeOK

LEMMA YtMintTypes ==
  ASSUME TypeOK, SuppliesAreTotals, NEW to \in Accounts, NEW n \in Nat,
         NEW r \in Nat \ {0}, YtMint(to, n, r)
  PROVE  YtTypeOK' /\ HasTotal(yt', ytSupply')
  <1>1. YtTypeOK /\ HasTotal(yt, ytSupply)  BY DEF TypeOK, SuppliesAreTotals
  <1>2. accrued' \in Ledgers /\ checkpoint' \in Ledgers
    BY <1>1, SettleTypes DEF YtMint, Settle
  <1>3. yt' \in Ledgers /\ ytSupply' \in Nat /\ HasTotal(yt', ytSupply')
    BY <1>1, CreditedLedger, CreditedTotal DEF YtMint, YtTypeOK
  <1>4. QED  BY <1>2, <1>3 DEF YtTypeOK

LEMMA YtTransferTypes ==
  ASSUME TypeOK, SuppliesAreTotals, NEW from \in Accounts,
         NEW to \in Accounts, NEW n \in Nat, NEW r \in Nat \ {0},
         YtTransfer(from, to, n, r)
  PROVE  YtTypeOK' /\ HasTotal(yt', ytSupply')
  <1>1. YtTypeOK /\ HasTotal(yt, ytSupply)  BY DEF TypeOK, SuppliesAreTotals
  <1>2. accrued' \in Ledgers /\ checkpoint' \in Ledgers
    BY <1>1, SettleTypes DEF YtTransfer, Settle
  <1>3. yt' \in Ledgers /\ ytSupply' \in Nat /\ HasTotal(yt', ytSupply')
    BY <1>1, MovedLedger, MovedTotal DEF YtTransfer, CanDebit, YtTypeOK
  <1>4. QED  BY <1>2, <1>3 DEF YtTypeOK

LEMMA YtBurnTypes ==
  ASSUME TypeOK, SuppliesAreTotals, NEW from \in Accounts, NEW n \in Nat,
         NEW r \in Nat \ {0}, YtBurn(from, n, r)
  PROVE  YtTypeOK' /\ HasTotal(yt', ytSupply')
  <1>1. /\ YtTypeOK /\ HasTotal(yt, ytSupply) /\ yt \in Ledgers
        /\ ytSupply \in Nat /\ n <= yt[from]
        /\ yt' = Debited(yt, from, n) /\ ytSupply' = ytSupply - n
    BY DEF TypeOK, SuppliesAreTotals, YtBurn, CanDebit, YtTypeOK
  <1>2. accrued' \in Ledgers /\ checkpoint' \in Ledgers
    BY <1>1, SettleTypes DEF YtBurn, Settle
  <1>3. yt[from] <= ytSupply  BY <1>1, BalanceWithinTotal
  <1>4. yt[from] \in Nat  BY <1>1 DEF Ledgers
  <1>5. yt' \in Ledgers /\ HasTotal(yt', ytSupply')
    BY <1>1, DebitedLedger, DebitedTotal
  <1>6. QED  BY <1>1, <1>2, <1>3, <1>4, <1>5 DEF YtTypeOK

LEMMA ClaimTypes ==
  ASSUME TypeOK, NEW h \in Holders,
         SettleAndConsume(h, EffectiveRate, YieldPayout(h))
  PROVE  YtTypeOK'
  <1>1. YtTypeOK /\ EffectiveRate \in Nat \ {0}  BY MarketTypes
  <1>2. h \in Accounts  BY HolderIsAccount
  <1>3. /\ SettledAccrued({h}, EffectiveRate) \in Ledgers
        /\ SettledCheckpoint({h}, EffectiveRate) \in Ledgers
    BY <1>1, <1>2, SettleTypes
  <1>4. YieldPayout(h) \in Nat  BY PayoutBounds
  <1>5. accrued' \in Ledgers /\ checkpoint' \in Ledgers
    BY <1>2, <1>3, <1>4, DebitedLedger DEF SettleAndConsume
  <1>6. QED  BY <1>1, <1>5 DEF SettleAndConsume, YtTypeOK

TypeInv == TypeOK /\ SuppliesAreTotals

LEMMA TypeInit == Init => TypeInv
  <1> SUFFICES ASSUME Init PROVE TypeInv  OBVIOUS
  <1>1. SyTypeOK
    BY SyAssumption DEF Init, SyInit, SyTypeOK, Ledgers, Accounts
  <1>2. PtTypeOK /\ HasTotal(pt, ptSupply)
    BY EmptyHasTotal DEF Init, PtInit, PtTypeOK, Ledgers, EmptyLedger
  <1>3. YtTypeOK /\ HasTotal(yt, ytSupply)
    BY EmptyHasTotal
       DEF Init, YtInit, YtTypeOK, Ledgers, EmptyLedger, NoRate
  <1>4. now \in 0..MaxTime  BY MarketAssumption DEF Init
  <1>5. QED  BY <1>1, <1>2, <1>3, <1>4 DEF Init, TypeInv, TypeOK, SuppliesAreTotals

LEMMA TypeStep == TypeInv /\ [Next]_vars => TypeInv'
  <1> SUFFICES ASSUME TypeInv, [Next]_vars  PROVE TypeInv'
    OBVIOUS
  <1> USE DEF TypeInv
  <1>r. EffectiveRate \in Nat \ {0}  BY MarketTypes
  <1>a. Amounts \subseteq Nat /\ Holders \subseteq Accounts /\ Escrow \in Accounts
    BY MarketAssumption, HolderIsAccount
  <1>1. CASE ObserveRate
    BY <1>1, CommitTypes
       DEF ObserveRate, TypeOK, SuppliesAreTotals, SyTypeOK, rateVars, PtTypeOK,
           YtTypeOK,
           ptVars, ytVars
  <1>2. CASE FreezeMaturityRate
    BY <1>2, CommitTypes
       DEF FreezeMaturityRate, TypeOK, SuppliesAreTotals, SyTypeOK, rateVars, PtTypeOK,
           YtTypeOK, ptVars, ytVars
  <1>3. ASSUME NEW h \in Holders, ClaimYield(h)  PROVE TypeInv'
    <2>1. YtTypeOK'  BY <1>3, ClaimTypes DEF ClaimYield
    <2>2. sy' \in Ledgers
      BY <1>3, <1>a, PayoutBounds, SyTransferTypes
         DEF ClaimYield, TypeOK, SyTypeOK
    <2>3. PtTypeOK' /\ SuppliesAreTotals' /\ rate' \in Rates /\ fell' \in BOOLEAN
      BY <1>3 DEF ClaimYield, SettleAndConsume, TypeOK, SyTypeOK, rateVars, PtTypeOK,
                  SuppliesAreTotals, ptVars
    <2>4. QED
      BY <1>3, <2>1, <2>2, <2>3, CommitTypes DEF ClaimYield, TypeOK, SyTypeOK, rateVars
  <1>4. ASSUME NEW h \in Holders, NEW n \in Amounts, Split(h, n)
        PROVE  TypeInv'
    <2> DEFINE face == MintedFace(n)
    <2>1. face \in Nat  BY <1>r, <1>a, WadAssumption, FloorBounds DEF MintedFace
    <2> HIDE DEF face
    <2>2. /\ CommitRate /\ SyTransfer(h, Escrow, n) /\ PtMint(h, face)
          /\ YtMint(h, face, EffectiveRate) /\ UNCHANGED rateVars
      BY <1>4 DEF Split, face
    <2>3. PtTypeOK' /\ HasTotal(pt', ptSupply')
      BY <1>a, <2>1, <2>2, PtMintTypes
    <2>4. YtTypeOK' /\ HasTotal(yt', ytSupply')
      BY <1>a, <1>r, <2>1, <2>2, YtMintTypes
    <2>5. sy' \in Ledgers  BY <1>a, <2>2, SyTransferTypes
    <2>6. QED
      BY <2>2, <2>3, <2>4, <2>5, CommitTypes
         DEF TypeOK, SyTypeOK, rateVars, SuppliesAreTotals
  <1>5. ASSUME NEW h \in Holders, NEW n \in Amounts, Recombine(h, n)
        PROVE  TypeInv'
    <2>1. PtTypeOK' /\ HasTotal(pt', ptSupply') /\ ptSupply > 0
      BY <1>5, <1>a, PtBurnTypes, MarketTypes DEF Recombine
    <2>2. YtTypeOK' /\ HasTotal(yt', ytSupply')
      BY <1>5, <1>a, <1>r, YtBurnTypes DEF Recombine
    <2>3. sy' \in Ledgers
      BY <1>5, <1>a, <2>1, PrincipalBounds, SyTransferTypes DEF Recombine
    <2>4. QED
      BY <1>5, <2>1, <2>2, <2>3, CommitTypes
         DEF Recombine, TypeOK, SyTypeOK, rateVars, SuppliesAreTotals
  <1>6. ASSUME NEW h \in Holders, NEW n \in Amounts, RedeemAtMaturity(h, n)
        PROVE  TypeInv'
    <2>1. PtTypeOK' /\ HasTotal(pt', ptSupply') /\ ptSupply > 0
      BY <1>6, <1>a, PtBurnTypes, MarketTypes DEF RedeemAtMaturity
    <2>2. YtTypeOK' /\ HasTotal(yt', ytSupply')
      BY <1>6 DEF RedeemAtMaturity, ytVars, TypeOK, YtTypeOK, SuppliesAreTotals
    <2>3. sy' \in Ledgers
      BY <1>6, <1>a, <2>1, PrincipalBounds, SyTransferTypes DEF RedeemAtMaturity
    <2>4. QED
      BY <1>6, <2>1, <2>2, <2>3, CommitTypes
         DEF RedeemAtMaturity, TypeOK, SyTypeOK, rateVars, SuppliesAreTotals
  <1>7. ASSUME NEW h \in Holders, NEW n \in Amounts, BurnPt(h, n)
        PROVE  TypeInv'
    <2>1. PtTypeOK' /\ HasTotal(pt', ptSupply')
      BY <1>7, <1>a, PtBurnTypes DEF BurnPt
    <2>2. QED
      BY <1>7, <2>1
         DEF BurnPt, TypeOK, SyTypeOK, rateVars, YtTypeOK, SuppliesAreTotals, ytVars, tokVars
  <1>8. ASSUME NEW h \in Holders, NEW n \in Amounts, BurnYt(h, n)
        PROVE  TypeInv'
    <2>1. YtTypeOK' /\ HasTotal(yt', ytSupply')
      BY <1>8, <1>a, <1>r, YtBurnTypes DEF BurnYt
    <2>2. QED
      BY <1>8, <2>1, CommitTypes
         DEF BurnYt, TypeOK, SyTypeOK, rateVars, PtTypeOK, SuppliesAreTotals, ptVars
  <1>9. ASSUME NEW h \in Holders, NEW to \in Accounts, NEW n \in Amounts,
               TransferSy(h, to, n)
        PROVE  TypeInv'
    <2>1. sy' \in Ledgers  BY <1>9, <1>a, SyTransferTypes DEF TransferSy
    <2>2. QED
      BY <1>9, <2>1
         DEF TransferSy, TypeOK, SyTypeOK, rateVars, PtTypeOK, YtTypeOK, SuppliesAreTotals,
             ptVars, ytVars, tokVars
  <1>10. ASSUME NEW h \in Holders, NEW to \in Accounts, NEW n \in Amounts,
                TransferPt(h, to, n)
         PROVE  TypeInv'
    <2>1. PtTypeOK' /\ HasTotal(pt', ptSupply')
      BY <1>10, <1>a, PtTransferTypes DEF TransferPt
    <2>2. QED
      BY <1>10, <2>1
         DEF TransferPt, TypeOK, SyTypeOK, rateVars, YtTypeOK, SuppliesAreTotals, ytVars,
             tokVars
  <1>11. ASSUME NEW h \in Holders, NEW to \in Accounts, NEW n \in Amounts,
                TransferYt(h, to, n)
         PROVE  TypeInv'
    <2>1. YtTypeOK' /\ HasTotal(yt', ytSupply')
      BY <1>11, <1>a, <1>r, YtTransferTypes DEF TransferYt
    <2>2. QED
      BY <1>11, <2>1, CommitTypes
         DEF TransferYt, TypeOK, SyTypeOK, rateVars, PtTypeOK, SuppliesAreTotals, ptVars
  <1>12. ASSUME NEW r \in Rates, MoveRate(r)  PROVE TypeInv'
    BY <1>12
       DEF MoveRate, RateMoves, TypeOK, SyTypeOK, rateVars, PtTypeOK,
           YtTypeOK,
           SuppliesAreTotals, ptVars, ytVars, tokVars
  <1>13. CASE Tick
    BY <1>13, MarketAssumption
       DEF Tick, TypeOK, SyTypeOK, rateVars, PtTypeOK, YtTypeOK, SuppliesAreTotals, ptVars,
           ytVars
  <1>14. CASE UNCHANGED vars
    BY <1>14
       DEF vars, TypeOK, SyTypeOK, rateVars, PtTypeOK, YtTypeOK, SuppliesAreTotals, ptVars,
           ytVars, tokVars
  <1>15. QED
    BY <1>1, <1>2, <1>3, <1>4, <1>5, <1>6, <1>7, <1>8, <1>9, <1>10, <1>11,
       <1>12, <1>13, <1>14 DEF Next

\* Every balance, supply, checkpoint and ledger of the four contracts stays a
\* natural number, and every rate on record is one SY reported.  The supplies
\* stay non-negative only because they stay the sums of the balances, so the
\* two are proved together.
THEOREM TypeCorrect == Spec => []TypeOK
  <1>1. TypeInv => TypeOK  BY DEF TypeInv
  <1>2. QED  BY TypeInit, TypeStep, <1>1, PTL DEF Spec

\* No sequence of splits, transfers, burns and redemptions makes a supply
\* differ from the sum of the balances.
THEOREM SuppliesCorrect == Spec => []SuppliesAreTotals
  <1>1. TypeInv => SuppliesAreTotals  BY DEF TypeInv
  <1>2. QED  BY TypeInit, TypeStep, <1>1, PTL DEF Spec

-----------------------------------------------------------------------------
(* The escrow under each kind of step. *)

\* Burning n PT for Principal(n) shares leaves at least as much escrow per PT.
LEMMA ExitKeepsShare ==
  ASSUME TypeInv, NEW n \in Nat, n > 0, n <= ptSupply
  PROVE  /\ Principal(n) \in Nat /\ Principal(n) <= sy[Escrow]
         /\ (sy[Escrow] - Principal(n)) * ptSupply
               >= sy[Escrow] * (ptSupply - n)
  <1> USE DEF TypeInv
  <1> DEFINE e == sy[Escrow]
             out == Principal(n)
             p == ptSupply
  <1>1. e \in Nat /\ p \in Nat \ {0}  BY MarketTypes
  <1>2. out \in Nat /\ out * p <= e * n  BY <1>1, PrincipalBounds
  <1> HIDE DEF e, out, p
  <1>3. n \in Nat /\ n <= p  BY DEF p
  <1>4. e * n <= e * p  BY <1>1, <1>3, SMT
  <1>5. out * p <= e * p  BY <1>1, <1>2, <1>3, <1>4, ProductInNat
  <1>6. out <= e  BY <1>1, <1>2, <1>5, CancelFactor
  <1>7. (e - out) * p = e * p - out * p  BY <1>1, <1>2, SMT
  <1>8. e * (p - n) = e * p - e * n  BY <1>1, <1>3, SMT
  <1>9. (e - out) * p >= e * (p - n)
    BY <1>1, <1>2, <1>3, <1>7, <1>8, ProductInNat
  <1>10. QED  BY <1>2, <1>6, <1>9 DEF e, out, p

\* A payment of yield leaves PT covered at face at the rate it was made at.
LEMMA ClaimLeavesFace ==
  ASSUME TypeInv, NEW h \in Holders, YieldPayout(h) > 0
  PROVE  /\ sy[Escrow] - YieldPayout(h) \in Nat
         /\ (sy[Escrow] - YieldPayout(h)) * EffectiveRate >= ptSupply * WAD
  <1> USE DEF TypeInv
  <1> DEFINE left == sy[Escrow] - YieldPayout(h)
  <1>1. /\ EffectiveRate \in Nat /\ ptSupply \in Nat /\ WAD \in Nat
        /\ sy[Escrow] \in Nat
    BY MarketTypes
  <1>2. YieldPayout(h) \in Nat /\ left >= FaceReservation  BY PayoutBounds
  <1>3. /\ FaceReservation \in Nat
        /\ FaceReservation * EffectiveRate >= ptSupply * WAD
    BY ReservationCovers
  <1>4. left \in Nat  BY <1>1, <1>2, <1>3
  <1> HIDE DEF left
  <1>5. FaceReservation * EffectiveRate <= left * EffectiveRate
    BY <1>1, <1>2, <1>3, <1>4, ProductMonotone
  <1>6. QED
    BY <1>1, <1>3, <1>4, <1>5, ProductInNat DEF left

\* A split adds shares worth at least the face it mints.
LEMMA SplitCoversFace ==
  ASSUME TypeInv, NEW n \in Nat, NEW k \in Nat, EffectiveRate <= k
  PROVE  n * k >= MintedFace(n) * WAD
  <1> USE DEF TypeInv
  <1> DEFINE face == MintedFace(n)
  <1>1. EffectiveRate \in Nat /\ WAD \in Nat \ {0}  BY MarketTypes
  <1>2. face \in Nat /\ face * WAD <= n * EffectiveRate  BY <1>1, FloorBounds DEF MintedFace
  <1> HIDE DEF face
  <1>3. n * EffectiveRate <= n * k  BY <1>1, SMT
  <1>4. QED  BY <1>1, <1>2, <1>3, ProductInNat DEF face

\* What committing a rate does to the high-water mark.
LEMMA PeakRises ==
  ASSUME TypeInv, CommitRate
  PROVE  peak' \in Nat /\ peak \in Nat /\ peak <= peak' /\ EffectiveRate <= peak'
  BY MarketTypes DEF TypeInv, CommitRate, Greatest

LEMMA CoveredStep ==
  TypeInv /\ PtCoveredAtPeak /\ [Next]_vars => PtCoveredAtPeak'
  <1> SUFFICES ASSUME TypeInv, PtCoveredAtPeak, [Next]_vars
               PROVE  PtCoveredAtPeak'
    OBVIOUS
  <1>a. Amounts \subseteq Nat /\ Holders \subseteq Accounts /\ Escrow \in Accounts
    BY MarketAssumption, HolderIsAccount
  <1>b. /\ sy[Escrow] \in Nat /\ ptSupply \in Nat /\ WAD \in Nat /\ peak \in Nat
        /\ EffectiveRate \in Nat \ {0} /\ sy \in Ledgers
    BY MarketTypes DEF TypeInv, TypeOK, SyTypeOK
  <1>c. sy[Escrow] * peak >= ptSupply * WAD  BY DEF PtCoveredAtPeak
  <1>d. ASSUME CommitRate  PROVE sy[Escrow] * peak' >= ptSupply * WAD
    <2>1. peak' \in Nat /\ peak <= peak'  BY <1>d, PeakRises
    <2>2. sy[Escrow] * peak <= sy[Escrow] * peak'  BY <1>b, <2>1, SMT
    <2>3. QED  BY <1>b, <1>c, <2>1, <2>2, ProductInNat
  <1>e. ASSUME UNCHANGED <<sy, ptSupply>>, UNCHANGED peak \/ CommitRate
        PROVE  PtCoveredAtPeak'
    BY <1>c, <1>d, <1>e DEF PtCoveredAtPeak
  <1>f. ASSUME NEW n \in Nat, n > 0, n <= ptSupply, CommitRate,
               sy'[Escrow] = sy[Escrow] - Principal(n), ptSupply' = ptSupply - n
        PROVE  PtCoveredAtPeak'
    <2>1. /\ sy'[Escrow] \in Nat
          /\ sy'[Escrow] * ptSupply >= sy[Escrow] * ptSupply'
      BY <1>b, <1>f, ExitKeepsShare
    <2>2. ptSupply' \in Nat /\ ptSupply \in Nat \ {0}  BY <1>b, <1>f
    <2>3. sy[Escrow] * peak' >= ptSupply * WAD /\ peak' \in Nat
      BY <1>d, <1>f, PeakRises
    <2>4. QED  BY <1>b, <2>1, <2>2, <2>3, SameShareCovers DEF PtCoveredAtPeak
  <1>1. CASE ObserveRate
    BY <1>1, <1>e DEF ObserveRate, ptVars
  <1>2. CASE FreezeMaturityRate
    BY <1>2, <1>e DEF FreezeMaturityRate, ptVars
  <1>3. ASSUME NEW h \in Holders, ClaimYield(h)  PROVE PtCoveredAtPeak'
    <2>1. CASE YieldPayout(h) > 0
      <3>1. sy'[Escrow] = sy[Escrow] - YieldPayout(h)
        BY <1>3, <2>1, <1>b, MovedOutOfEscrow, PayoutBounds
           DEF ClaimYield, SyTransfer, TypeInv
      <3>2. sy'[Escrow] \in Nat /\ sy'[Escrow] * EffectiveRate >= ptSupply * WAD
        BY <2>1, <3>1, ClaimLeavesFace
      <3>3. peak' \in Nat /\ EffectiveRate <= peak'
        BY <1>3, PeakRises DEF ClaimYield
      <3>4. sy'[Escrow] * EffectiveRate <= sy'[Escrow] * peak'
        BY <1>b, <3>2, <3>3, SMT
      <3>5. ptSupply' = ptSupply  BY <1>3 DEF ClaimYield, ptVars
      <3>6. QED
        BY <1>b, <3>2, <3>3, <3>4, <3>5, ProductInNat DEF PtCoveredAtPeak
    <2>2. CASE ~(YieldPayout(h) > 0)
      BY <1>3, <2>2, <1>e DEF ClaimYield, ptVars
    <2>3. QED  BY <2>1, <2>2
  <1>4. ASSUME NEW h \in Holders, NEW n \in Amounts, Split(h, n)
        PROVE  PtCoveredAtPeak'
    <2> DEFINE face == MintedFace(n)
    <2>1. /\ CommitRate /\ ptSupply' = ptSupply + face
          /\ sy' = Moved(sy, h, Escrow, n)
      BY <1>4 DEF Split, PtMint, SyTransfer
    <2>2. sy'[Escrow] = sy[Escrow] + n
      BY <2>1, <1>a, <1>b, MovedIntoEscrow
    <2>3. face \in Nat  BY <1>a, <1>b, WadAssumption, FloorBounds DEF MintedFace
    <2>4. peak' \in Nat /\ EffectiveRate <= peak'  BY <2>1, PeakRises
    <2>5. n * peak' >= face * WAD  BY <1>a, <2>4, SplitCoversFace
    <2>6. sy[Escrow] * peak' >= ptSupply * WAD  BY <1>d, <2>1
    <2> HIDE DEF face
    <2>7. /\ (sy[Escrow] + n) * peak' = sy[Escrow] * peak' + n * peak'
          /\ (ptSupply + face) * WAD = ptSupply * WAD + face * WAD
      BY <1>a, <1>b, <2>3, <2>4, SMT
    <2>p. /\ sy[Escrow] * peak' \in Nat /\ n * peak' \in Nat
          /\ ptSupply * WAD \in Nat /\ face * WAD \in Nat
      BY <1>a, <1>b, <2>3, <2>4, ProductInNat
    <2>q. sy[Escrow] * peak' + n * peak' >= ptSupply * WAD + face * WAD
      BY <2>p, <2>5, <2>6 DEF face
    <2>8. (sy[Escrow] + n) * peak' >= (ptSupply + face) * WAD
      BY <2>7, <2>q
    <2>9. QED  BY <2>1, <2>2, <2>8 DEF PtCoveredAtPeak
  <1>5. ASSUME NEW h \in Holders, NEW n \in Amounts, Recombine(h, n)
        PROVE  PtCoveredAtPeak'
    <2>1. n > 0 /\ n <= ptSupply /\ ptSupply' = ptSupply - n
      BY <1>5, <1>a, PtBurnTypes DEF Recombine, TypeInv
    <2>2. Principal(n) \in Nat  BY <1>a, <2>1, ExitKeepsShare
    <2>3. sy'[Escrow] = sy[Escrow] - Principal(n)
      BY <1>5, <1>b, <2>2, MovedOutOfEscrow DEF Recombine, SyTransfer
    <2>4. QED  BY <1>5, <1>a, <1>f, <2>1, <2>3 DEF Recombine
  <1>6. ASSUME NEW h \in Holders, NEW n \in Amounts, RedeemAtMaturity(h, n)
        PROVE  PtCoveredAtPeak'
    <2>1. n > 0 /\ n <= ptSupply /\ ptSupply' = ptSupply - n
      BY <1>6, <1>a, PtBurnTypes DEF RedeemAtMaturity, TypeInv
    <2>2. Principal(n) \in Nat  BY <1>a, <2>1, ExitKeepsShare
    <2>3. sy'[Escrow] = sy[Escrow] - Principal(n)
      BY <1>6, <1>b, <2>2, MovedOutOfEscrow DEF RedeemAtMaturity, SyTransfer
    <2>4. QED  BY <1>6, <1>a, <1>f, <2>1, <2>3 DEF RedeemAtMaturity
  <1>7. ASSUME NEW h \in Holders, NEW n \in Amounts, BurnPt(h, n)
        PROVE  PtCoveredAtPeak'
    <2>1. n \in Nat /\ n <= ptSupply /\ ptSupply' = ptSupply - n
      BY <1>7, <1>a, PtBurnTypes DEF BurnPt, TypeInv
    <2>2. ptSupply' * WAD <= ptSupply * WAD
      BY <1>b, <2>1, ProductMonotone
    <2>3. UNCHANGED <<sy, peak>>  BY <1>7 DEF BurnPt, tokVars
    <2>4. QED  BY <1>b, <1>c, <2>1, <2>2, <2>3, ProductInNat DEF PtCoveredAtPeak
  <1>8. ASSUME NEW h \in Holders, NEW n \in Amounts, BurnYt(h, n)
        PROVE  PtCoveredAtPeak'
    BY <1>8, <1>e DEF BurnYt, ptVars
  <1>9. ASSUME NEW h \in Holders, NEW to \in Accounts, NEW n \in Amounts,
               TransferSy(h, to, n)
        PROVE  PtCoveredAtPeak'
    <2>1. sy'[Escrow] = IF to = Escrow THEN sy[Escrow] + n ELSE sy[Escrow]
      BY <1>9, <1>a, <1>b, MovedIntoEscrow DEF TransferSy, SyTransfer
    <2>2. sy'[Escrow] \in Nat /\ sy[Escrow] <= sy'[Escrow]  BY <1>a, <1>b, <2>1
    <2>3. sy[Escrow] * peak <= sy'[Escrow] * peak
      BY <1>b, <2>2, ProductMonotone
    <2>4. UNCHANGED <<ptSupply, peak>>  BY <1>9 DEF TransferSy, ptVars, tokVars
    <2>5. QED  BY <1>b, <1>c, <2>2, <2>3, <2>4, ProductInNat DEF PtCoveredAtPeak
  <1>10. ASSUME NEW h \in Holders, NEW to \in Accounts, NEW n \in Amounts,
                TransferPt(h, to, n)
         PROVE  PtCoveredAtPeak'
    BY <1>10, <1>e DEF TransferPt, PtTransfer, tokVars
  <1>11. ASSUME NEW h \in Holders, NEW to \in Accounts, NEW n \in Amounts,
                TransferYt(h, to, n)
         PROVE  PtCoveredAtPeak'
    BY <1>11, <1>e DEF TransferYt, ptVars
  <1>12. ASSUME NEW r \in Rates, MoveRate(r)  PROVE PtCoveredAtPeak'
    BY <1>12, <1>e DEF MoveRate, ptVars, tokVars
  <1>13. CASE Tick
    BY <1>13, <1>e DEF Tick, ptVars
  <1>14. CASE UNCHANGED vars
    BY <1>14, <1>e DEF vars, ptVars, tokVars
  <1>15. QED
    BY <1>1, <1>2, <1>3, <1>4, <1>5, <1>6, <1>7, <1>8, <1>9, <1>10, <1>11,
       <1>12, <1>13, <1>14 DEF Next

\* PT is covered at the high-water rate in every reachable state, whatever
\* the SY rate does.  This needs TypeInv beside it and nothing more: the
\* high-water mark only rises, and every way of taking SY out of the escrow
\* either keeps the escrow per PT or stops at the reservation.
THEOREM PtCovered == Spec => []PtCoveredAtPeak
  <1>1. Init => PtCoveredAtPeak
    <2> SUFFICES ASSUME Init PROVE PtCoveredAtPeak  OBVIOUS
    <2>1. sy[Escrow] = 0 /\ peak = 0 /\ ptSupply = 0
      BY HolderIsAccount DEF Init, SyInit, PtInit, NoRate
    <2>2. 0 * WAD = 0  BY WadAssumption, SMT
    <2>3. QED  BY <2>1, <2>2 DEF PtCoveredAtPeak
  <1>2. QED  BY <1>1, TypeInit, TypeStep, CoveredStep, PTL DEF Spec

-----------------------------------------------------------------------------
(* The rates on record. *)

\* Nothing is frozen before maturity; and until the SY rate first falls, the
\* high-water mark is the rate last recorded and the live rate is above it.
RateInv ==
  /\ ~IsMatured => maturityRate = NoRate
  /\ ~fell =>
       /\ peak <= rate
       /\ peak = IF maturityRate # NoRate THEN maturityRate ELSE lastObserved

\* Every action commits the effective rate, moves the SY rate or the clock,
\* or leaves everything the rates on record depend on as it was.
LEMMA RateSteps ==
  ASSUME [Next]_vars
  PROVE  \/ CommitRate /\ UNCHANGED rateVars
         \/ UNCHANGED <<rateVars, tokVars>>
         \/ (\E r \in Rates : RateMoves(r)) /\ UNCHANGED tokVars
         \/ Tick
  BY DEF Next, vars, tokVars, ObserveRate, FreezeMaturityRate, ClaimYield, Split,
         Recombine, RedeemAtMaturity, BurnPt, BurnYt, TransferSy, TransferPt,
         TransferYt, MoveRate

LEMMA RateStep == TypeInv /\ RateInv /\ [Next]_vars => RateInv'
  <1> SUFFICES ASSUME TypeInv, RateInv, [Next]_vars  PROVE RateInv'
    OBVIOUS
  <1>1. /\ rate \in Nat \ {0} /\ peak \in Nat /\ now \in Nat
        /\ lastObserved \in Nat /\ maturityRate \in Nat
    BY RatesArePositive, MarketAssumption DEF TypeInv, TypeOK, SyTypeOK, NoRate
  <1>2. CASE CommitRate /\ UNCHANGED rateVars
    BY <1>1, <1>2
       DEF RateInv, CommitRate, IsMatured, EffectiveRate, FrozenRate, Greatest,
           NoRate, rateVars
  <1>3. CASE UNCHANGED <<rateVars, tokVars>>
    BY <1>3 DEF RateInv, rateVars, tokVars, IsMatured
  <1>4. CASE (\E r \in Rates : RateMoves(r)) /\ UNCHANGED tokVars
    <2>1. PICK r \in Rates : RateMoves(r)  BY <1>4
    <2>2. r \in Nat \ {0} /\ rate' = r  BY <2>1, RatesArePositive DEF RateMoves
    <2>3. ~fell' => ~fell /\ ~(r < rate)  BY <2>1, Zenon DEF RateMoves
    <2>4. r < rate \/ rate <= r  BY <1>1, <2>2
    <2>5. UNCHANGED <<now, lastObserved, maturityRate, peak>>  BY <1>4 DEF tokVars
    <2>6. ~IsMatured' => maturityRate' = NoRate  BY <2>5 DEF RateInv, IsMatured
    <2>7. ASSUME ~fell'
          PROVE  peak <= rate' /\ peak = IF maturityRate # NoRate THEN maturityRate
                                                               ELSE lastObserved
      <3>1. ~fell /\ rate <= r  BY <2>3, <2>4, <2>7
      <3>2. peak <= rate /\ peak = IF maturityRate # NoRate THEN maturityRate
                                                            ELSE lastObserved
        BY <3>1 DEF RateInv
      <3>3. QED  BY <1>1, <2>2, <3>1, <3>2
    <2>8. QED  BY <2>5, <2>6, <2>7 DEF RateInv
  <1>5. CASE Tick
    BY <1>1, <1>5, MarketAssumption DEF RateInv, Tick, IsMatured, rateVars
  <1>6. QED  BY <1>2, <1>3, <1>4, <1>5, RateSteps

LEMMA RatesCorrect == Spec => []RateInv
  <1>1. Init => RateInv
    <2> SUFFICES ASSUME Init PROVE RateInv  OBVIOUS
    <2>1. rate \in Nat  BY SyAssumption DEF Init, SyInit
    <2>2. QED  BY <2>1 DEF Init, RateInv, NoRate
  <1>2. QED  BY <1>1, TypeInit, TypeStep, RateStep, PTL DEF Spec

\* Until the SY rate first falls, the pro-rata cap never bites: recombine and
\* redeem_at_maturity pay every PT its face, in any order, at any time.
THEOREM ExitsAtFace == Spec => []PtExitsAtFace
  <1>1. TypeInv /\ PtCoveredAtPeak /\ RateInv => PtExitsAtFace
    <2> SUFFICES ASSUME TypeInv, PtCoveredAtPeak, RateInv, ~fell,
                        NEW n \in 1..ptSupply
                 PROVE  Principal(n) = MulDivFloor(n, WAD, EffectiveRate)
      BY DEF PtExitsAtFace
    <2> DEFINE e == sy[Escrow]
               p == ptSupply
               k == EffectiveRate
               full == MulDivFloor(n, WAD, k)
               share == MulDivFloor(e, n, p)
    <2>1. /\ e \in Nat /\ p \in Nat \ {0} /\ k \in Nat \ {0}
          /\ WAD \in Nat /\ n \in Nat /\ peak \in Nat /\ n <= p
      BY MarketTypes DEF TypeInv
    <2>2. peak <= k
      <3>1. /\ rate \in Nat \ {0} /\ lastObserved \in Nat
            /\ maturityRate \in Nat
        BY RatesArePositive DEF TypeInv, TypeOK, SyTypeOK, NoRate
      <3>2. QED
        BY <2>1, <3>1 DEF RateInv, EffectiveRate, FrozenRate, NoRate
    <2>3. e * peak >= p * WAD  BY DEF PtCoveredAtPeak
    <2> HIDE DEF e, p, k
    <2>4. full \in Nat /\ full * k <= n * WAD  BY <2>1, FloorBounds
    <2>5. share \in Nat /\ e * n < share * p + p  BY <2>1, FloorBounds
    <2> HIDE DEF full, share
    <2>6. e * k >= p * WAD
      <3>1. e * peak <= e * k  BY <2>1, <2>2, SMT
      <3>2. QED  BY <2>1, <2>3, <3>1, ProductInNat
    <2>7. full <= share
      \* Otherwise (share+1)*p*k <= full*p*k <= n*WAD*p <= n*e*k < (share+1)*p*k.
      <3>1. SUFFICES ASSUME share + 1 <= full PROVE FALSE
        BY <2>4, <2>5
      <3>2. (share + 1) * p <= full * p  BY <2>1, <2>4, <2>5, <3>1, SMT
      <3>3. (share + 1) * p = share * p + p  BY <2>1, <2>5, SMT
      <3>4. e * n \in Nat /\ full * p \in Nat /\ share * p \in Nat
        BY <2>1, <2>4, <2>5, ProductInNat
      <3>5. e * n + 1 <= full * p  BY <2>1, <2>5, <3>2, <3>3, <3>4
      <3>6. (e * n + 1) * k <= (full * p) * k
        BY <2>1, <3>4, <3>5, ProductMonotone
      <3>7. (full * k) * p <= (n * WAD) * p  BY <2>1, <2>4, SMT
      <3>8. (p * WAD) * n <= (e * k) * n  BY <2>1, <2>6, SMT
      <3>9. (e * n + 1) * k = (e * k) * n + k  BY <2>1, SMT
      <3>10. /\ (full * p) * k = (full * k) * p
             /\ (n * WAD) * p = (p * WAD) * n
        BY <2>1, <2>4, SMT
      <3>11. /\ (e * k) * n \in Nat /\ (p * WAD) * n \in Nat
             /\ (full * k) * p \in Nat
        BY <2>1, <2>4, ProductInNat
      <3>12. QED  BY <2>1, <3>6, <3>7, <3>8, <3>9, <3>10, <3>11
    <2>8. QED
      BY <2>1, <2>4, <2>5, <2>7 DEF Principal, Least, full, share, e, p, k
  <1>2. QED  BY <1>1, TypeCorrect, SuppliesCorrect, PtCovered, RatesCorrect, PTL
                DEF TypeInv

-----------------------------------------------------------------------------
(* Action properties. *)

\* The escrow's SY balance falls in three actions only.
LEMMA OutflowSteps ==
  ASSUME TypeInv, [Next]_vars, sy'[Escrow] < sy[Escrow]
  PROVE  \/ \E h \in Holders : ClaimYield(h) /\ YieldPayout(h) > 0
         \/ \E h \in Holders, n \in Amounts :
              Recombine(h, n) \/ RedeemAtMaturity(h, n)
  <1>a. Amounts \subseteq Nat /\ Holders \subseteq Accounts /\ Escrow \in Accounts
    BY MarketAssumption, HolderIsAccount
  <1>b. sy[Escrow] \in Nat /\ sy \in Ledgers
    BY MarketTypes DEF TypeInv, TypeOK, SyTypeOK
  <1>1. sy' # sy  BY <1>b
  <1>2. ASSUME NEW h \in Holders, NEW to \in Accounts, NEW n \in Amounts,
               SyTransfer(h, to, n)
        PROVE  FALSE
    BY <1>2, <1>a, <1>b, MovedIntoEscrow DEF SyTransfer
  <1>3. QED
    BY <1>1, <1>2, <1>a
       DEF Next, vars, ObserveRate, FreezeMaturityRate, ClaimYield, Split, BurnPt,
           BurnYt, TransferSy, TransferPt, TransferYt, MoveRate, Tick

\* SY leaves the escrow only fairly: a redemption never lowers the escrow per
\* remaining PT, and yield is only ever paid from what PT does not need.
THEOREM OutflowIsFair == Spec => EscrowOutflow
  <1>1. TypeInv /\ [Next]_vars => [FairOutflow]_vars
    <2> SUFFICES ASSUME TypeInv, [Next]_vars, sy'[Escrow] < sy[Escrow]
                 PROVE  IF ptSupply' < ptSupply
                          THEN sy'[Escrow] * ptSupply >= sy[Escrow] * ptSupply'
                          ELSE sy'[Escrow] * EffectiveRate >= ptSupply * WAD
      BY DEF FairOutflow
    <2>a. Amounts \subseteq Nat /\ Holders \subseteq Accounts
      BY MarketAssumption, HolderIsAccount
    <2>b. sy \in Ledgers /\ ptSupply \in Nat
      BY MarketTypes DEF TypeInv, TypeOK, SyTypeOK
    <2>1. ASSUME NEW h \in Holders, ClaimYield(h), YieldPayout(h) > 0
          PROVE  /\ ptSupply' = ptSupply
                 /\ sy'[Escrow] * EffectiveRate >= ptSupply * WAD
      <3>1. YieldPayout(h) \in Nat  BY PayoutBounds DEF TypeInv
      <3>2. sy'[Escrow] = sy[Escrow] - YieldPayout(h)
        BY <2>1, <2>b, <3>1, MovedOutOfEscrow DEF ClaimYield, SyTransfer
      <3>3. QED  BY <2>1, <3>2, ClaimLeavesFace DEF ClaimYield, ptVars
    <2>2. ASSUME NEW h \in Holders, NEW n \in Amounts,
                 Recombine(h, n) \/ RedeemAtMaturity(h, n)
          PROVE  /\ ptSupply' < ptSupply
                 /\ sy'[Escrow] * ptSupply >= sy[Escrow] * ptSupply'
      <3>1. PtBurn(h, n) /\ SyTransfer(Escrow, h, Principal(n))
        BY <2>2 DEF Recombine, RedeemAtMaturity
      <3>2. n > 0 /\ n <= ptSupply /\ ptSupply' = ptSupply - n
        BY <2>a, <3>1, PtBurnTypes DEF TypeInv
      <3>3. /\ Principal(n) \in Nat
            /\ (sy[Escrow] - Principal(n)) * ptSupply
                  >= sy[Escrow] * (ptSupply - n)
        BY <2>a, <3>2, ExitKeepsShare
      <3>4. sy'[Escrow] = sy[Escrow] - Principal(n)
        BY <2>b, <3>1, <3>3, MovedOutOfEscrow DEF SyTransfer
      <3>5. ptSupply - n < ptSupply  BY <2>a, <2>b, <3>2
      <3>6. QED  BY <3>2, <3>3, <3>4, <3>5
    <2>3. QED  BY <2>b, <2>1, <2>2, OutflowSteps
  <1>2. QED  BY <1>1, TypeInit, TypeStep, PTL DEF Spec, EscrowOutflow

\* A checkpoint moves only in a settle at the effective rate, in a
\* transaction that also commits that rate.
LEMMA CheckpointSteps ==
  ASSUME [Next]_vars
  PROVE  \/ UNCHANGED checkpoint
         \/ /\ CommitRate
            /\ \E S \in SUBSET Accounts :
                 checkpoint' = SettledCheckpoint(S, EffectiveRate)
  <1> USE HolderIsAccount
  <1>1. ASSUME NEW h \in Holders, NEW n \in Amounts,
               Split(h, n) \/ Recombine(h, n) \/ BurnYt(h, n) \/ ClaimYield(h)
        PROVE  CommitRate /\ checkpoint' = SettledCheckpoint({h}, EffectiveRate)
    BY <1>1 DEF Split, Recombine, BurnYt, ClaimYield, YtMint, YtBurn, Settle,
                SettleAndConsume
  <1>2. ASSUME NEW h \in Holders, ClaimYield(h)
        PROVE  CommitRate /\ checkpoint' = SettledCheckpoint({h}, EffectiveRate)
    BY <1>2 DEF ClaimYield, SettleAndConsume
  <1>3. ASSUME NEW h \in Holders, NEW to \in Accounts, NEW n \in Amounts,
               TransferYt(h, to, n)
        PROVE  CommitRate /\ checkpoint' = SettledCheckpoint({h, to}, EffectiveRate)
    BY <1>3 DEF TransferYt, YtTransfer, Settle
  <1>4. ASSUME NEW h \in Holders  PROVE {h} \in SUBSET Accounts
    OBVIOUS
  <1>5. ASSUME NEW h \in Holders, NEW to \in Accounts
        PROVE  {h, to} \in SUBSET Accounts
    OBVIOUS
  <1>6. QED
    BY <1>1, <1>2, <1>3, <1>4, <1>5
       DEF Next, vars, ytVars, ObserveRate, FreezeMaturityRate, RedeemAtMaturity,
           BurnPt, TransferSy, TransferPt, MoveRate, Tick

\* YT banks yield only at rates the maturity freeze has on record.
THEOREM BanksOnRecord == Spec => BankedRateIsOnRecord
  <1>1. TypeInv /\ RateInv /\ [Next]_vars => [BanksAtRecordedRate]_vars
    <2> SUFFICES ASSUME TypeInv, RateInv, [Next]_vars, NEW a \in Accounts,
                        checkpoint'[a] # checkpoint[a]
                 PROVE  checkpoint'[a] = IF maturityRate' # NoRate
                                           THEN maturityRate' ELSE lastObserved'
      BY DEF BanksAtRecordedRate
    <2>1. EffectiveRate # NoRate  BY MarketTypes DEF TypeInv, NoRate
    <2>2. CommitRate /\ checkpoint'[a] = EffectiveRate
      BY CheckpointSteps DEF SettledCheckpoint
    <2>3. QED
      BY <2>1, <2>2 DEF CommitRate, RateInv
  <1>2. QED  BY <1>1, TypeInit, TypeStep, RatesCorrect, PTL
                DEF Spec, BankedRateIsOnRecord

\* Settling an account at the frozen rate changes how its claim is split
\* between banked and pending yield, not what it comes to.
LEMMA SettleKeepsOwed ==
  ASSUME TypeInv, NEW S \in SUBSET Accounts, NEW a \in Accounts,
         checkpoint' = SettledCheckpoint(S, FrozenRate),
         FrozenRate' = FrozenRate,
         a \in S \/ yt'[a] = yt[a]
  PROVE  accrued'[a] = SettledAccrued(S, FrozenRate)[a]
           => OwedAtFreeze(a)' = OwedAtFreeze(a)
  <1> SUFFICES ASSUME accrued'[a] = SettledAccrued(S, FrozenRate)[a]
               PROVE  OwedAtFreeze(a)' = OwedAtFreeze(a)
    OBVIOUS
  <1>1. FrozenRate \in Nat \ {0}
    BY EffectiveRateType, RatesArePositive DEF TypeInv
  <1>2. /\ YtTypeOK
        /\ checkpoint[a] \in Nat /\ accrued[a] \in Nat /\ yt[a] \in Nat
    BY DEF TypeInv, TypeOK, YtTypeOK, Ledgers
  <1>3. PendingYield(a, FrozenRate) \in Nat  BY <1>1, <1>2, PendingYieldType
  <1>4. CASE a \in S
    <2>1. accrued'[a] = accrued[a] + PendingYield(a, FrozenRate)
      BY <1>4 DEF SettledAccrued
    <2>2. checkpoint'[a] \in Nat /\ checkpoint'[a] >= FrozenRate
      BY <1>1, <1>2, <1>4 DEF SettledCheckpoint
    <2>3. PendingYield(a, FrozenRate)' = 0
      BY <1>1, <2>2 DEF PendingYield
    <2>4. QED  BY <1>2, <1>3, <2>1, <2>3 DEF OwedAtFreeze
  <1>5. CASE a \notin S
    <2>1. accrued'[a] = accrued[a] /\ checkpoint'[a] = checkpoint[a]
          /\ yt'[a] = yt[a]
      BY <1>5 DEF SettledAccrued, SettledCheckpoint
    <2>2. QED  BY <2>1 DEF OwedAtFreeze, PendingYield
  <1>6. QED  BY <1>4, <1>5

\* Once a matured market has an observation, no step moves the frozen rate.
LEMMA FrozenRateIsFixed ==
  ASSUME TypeInv, [Next]_vars, IsMatured, lastObserved # NoRate
  PROVE  FrozenRate' = FrozenRate
  <1>1. CASE CommitRate /\ UNCHANGED rateVars
    <2>1. FrozenRate # NoRate
      BY EffectiveRateType, RatesArePositive DEF TypeInv, NoRate
    <2>2. maturityRate' = FrozenRate
      BY <1>1 DEF CommitRate, EffectiveRate
    <2>3. QED  BY <2>1, <2>2 DEF FrozenRate
  <1>2. CASE UNCHANGED <<rateVars, tokVars>>
    BY <1>2 DEF FrozenRate, tokVars
  <1>3. CASE UNCHANGED tokVars
    BY <1>3 DEF FrozenRate, tokVars
  <1>4. CASE Tick
    BY <1>4 DEF FrozenRate, Tick
  <1>5. QED  BY <1>1, <1>2, <1>3, <1>4, RateSteps

\* How a step after maturity can touch the yield ledger: not at all, by a
\* settle around a balance change, or by a claim.
LEMMA YieldLedgerSteps ==
  ASSUME TypeInv, [Next]_vars, IsMatured
  PROVE  \/ UNCHANGED <<accrued, checkpoint, yt>>
         \/ \E S \in SUBSET Accounts :
              /\ Settle(S, FrozenRate)
              /\ \A a \in Accounts : a \in S \/ yt'[a] = yt[a]
         \/ \E h \in Holders : ClaimYield(h)
  <1> USE HolderIsAccount
  <1>y. yt \in Ledgers  BY DEF TypeInv, TypeOK, YtTypeOK
  <1>e. EffectiveRate = FrozenRate  BY DEF EffectiveRate
  <1>1. ASSUME NEW h \in Holders, NEW n \in Amounts, BurnYt(h, n)
        PROVE  /\ {h} \in SUBSET Accounts /\ Settle({h}, FrozenRate)
               /\ \A a \in Accounts : a \in {h} \/ yt'[a] = yt[a]
    BY <1>1, <1>e, <1>y DEF BurnYt, YtBurn, Debited, Ledgers
  <1>2. ASSUME NEW h \in Holders, NEW to \in Accounts, NEW n \in Amounts,
               TransferYt(h, to, n)
        PROVE  /\ {h, to} \in SUBSET Accounts /\ Settle({h, to}, FrozenRate)
               /\ \A a \in Accounts : a \in {h, to} \/ yt'[a] = yt[a]
    BY <1>2, <1>e, <1>y DEF TransferYt, YtTransfer, Moved, Ledgers
  <1>3. QED
    BY <1>1, <1>2
       DEF Next, vars, ytVars, ObserveRate, FreezeMaturityRate, Split, Recombine,
           RedeemAtMaturity, BurnPt, TransferSy, TransferPt, MoveRate, Tick

\* A claim settles the claimant and pays from the escrow: the claimant's
\* claim falls by the payment, every other claim is as it was.
LEMMA ClaimKeepsOwed ==
  ASSUME TypeInv, IsMatured, FrozenRate' = FrozenRate,
         NEW h \in Holders, ClaimYield(h), NEW a \in Accounts
  PROVE  \/ OwedAtFreeze(a)' = OwedAtFreeze(a)
         \/ /\ OwedAtFreeze(a)' = OwedAtFreeze(a) - (sy[Escrow] - sy'[Escrow])
            /\ ptSupply' = ptSupply
  <1> DEFINE pay == YieldPayout(h)
             settled == SettledAccrued({h}, FrozenRate)
  <1>1. /\ sy \in Ledgers /\ sy[Escrow] \in Nat /\ pay \in Nat
        /\ h \in Accounts /\ EffectiveRate = FrozenRate
    BY MarketTypes, PayoutBounds, HolderIsAccount
       DEF TypeInv, TypeOK, SyTypeOK, EffectiveRate
  <1>2. FrozenRate \in Nat \ {0} /\ YtTypeOK
    BY <1>1, MarketTypes DEF TypeInv
  <1>3. settled \in Ledgers  BY <1>1, <1>2, SettleTypes
  <1>4. /\ accrued' = Debited(settled, h, pay)
        /\ checkpoint' = SettledCheckpoint({h}, FrozenRate)
        /\ yt' = yt /\ ptSupply' = ptSupply
    BY <1>1 DEF ClaimYield, SettleAndConsume, ptVars
  <1>5. sy[Escrow] - sy'[Escrow] = pay
    BY <1>1, MovedOutOfEscrow DEF ClaimYield, SyTransfer
  <1>6. CASE a # h
    <2>1. accrued'[a] = settled[a]  BY <1>3, <1>4, <1>6 DEF Debited, Ledgers
    <2>2. QED  BY <1>1, <1>4, <2>1, SettleKeepsOwed
  <1>7. CASE a = h
    <2>1. accrued'[h] = settled[h] - pay  BY <1>1, <1>3, <1>4 DEF Debited, Ledgers
    <2>2. settled[h] = OwedAtFreeze(h)
      BY <1>1 DEF SettledAccrued, OwedAtFreeze
    <2>3. checkpoint[h] \in Nat  BY <1>1, <1>2 DEF YtTypeOK, Ledgers
    <2>4. checkpoint'[h] \in Nat /\ checkpoint'[h] >= FrozenRate
      BY <1>1, <1>2, <1>4, <2>3 DEF SettledCheckpoint
    <2>5. PendingYield(h, FrozenRate)' = 0
      BY <1>2, <2>4 DEF PendingYield
    <2>6. settled[h] \in Nat  BY <1>1, <1>3 DEF Ledgers
    <2>7. OwedAtFreeze(h)' = settled[h] - pay
      BY <1>1, <2>1, <2>5, <2>6 DEF OwedAtFreeze
    <2>8. QED  BY <1>4, <1>5, <1>7, <2>2, <2>7
  <1>8. QED  BY <1>6, <1>7

\* After maturity what each account is owed is settled business: it falls by
\* what the escrow pays and changes in no other way, whatever the live SY
\* rate does and whoever calls when.
THEOREM ClaimsAreFixed == Spec => OwedFixedAfterMaturity
  <1>1. TypeInv /\ [Next]_vars => [KeepsClaimsAfterMaturity]_vars
    <2> SUFFICES ASSUME TypeInv, [Next]_vars, IsMatured, lastObserved # NoRate,
                        NEW a \in Accounts
                 PROVE  \/ OwedAtFreeze(a)' = OwedAtFreeze(a)
                        \/ /\ OwedAtFreeze(a)'
                               = OwedAtFreeze(a) - (sy[Escrow] - sy'[Escrow])
                           /\ ptSupply' = ptSupply
      BY DEF KeepsClaimsAfterMaturity
    <2>1. FrozenRate' = FrozenRate  BY FrozenRateIsFixed
    <2>2. CASE UNCHANGED <<accrued, checkpoint, yt>>
      BY <2>1, <2>2 DEF OwedAtFreeze, PendingYield
    <2>3. ASSUME NEW S \in SUBSET Accounts, Settle(S, FrozenRate),
                 \A b \in Accounts : b \in S \/ yt'[b] = yt[b]
          PROVE  OwedAtFreeze(a)' = OwedAtFreeze(a)
      BY <2>1, <2>3, SettleKeepsOwed DEF Settle
    <2>4. ASSUME NEW h \in Holders, ClaimYield(h)
          PROVE  \/ OwedAtFreeze(a)' = OwedAtFreeze(a)
                 \/ /\ OwedAtFreeze(a)'
                        = OwedAtFreeze(a) - (sy[Escrow] - sy'[Escrow])
                    /\ ptSupply' = ptSupply
      BY <2>1, <2>4, ClaimKeepsOwed
    <2>5. QED  BY <2>2, <2>3, <2>4, YieldLedgerSteps
  <1>2. QED  BY <1>1, TypeInit, TypeStep, PTL DEF Spec, OwedFixedAfterMaturity

-----------------------------------------------------------------------------
(* The market implements the senior escrow. *)

\* The three kinds of step the abstract escrow knows, from what a market step
\* does to the escrow's SY, the PT supply and the high-water mark.
LEMMA FundMaps ==
  ASSUME TypeInv, NEW d \in Nat, NEW k \in Nat, NEW top \in Nat,
         sy'[Escrow] = sy[Escrow] + d, ptSupply' = ptSupply + k, peak' = top,
         peak <= peak', k * WAD <= d * peak'
  PROVE  Promise!Next
  <1>1. sy[Escrow] \in Nat /\ ptSupply \in Nat /\ WAD \in Nat
    BY MarketTypes DEF TypeInv
  <1>2. ptSupply' - ptSupply = k /\ sy'[Escrow] - sy[Escrow] = d  BY <1>1
  <1>3. Promise!Fund  BY <1>1, <1>2 DEF Promise!Fund
  <1>4. QED  BY <1>3 DEF Promise!Next

LEMMA ExitMaps ==
  ASSUME TypeInv, NEW n \in Nat, n > 0, n <= ptSupply,
         ptSupply' = ptSupply - n, sy'[Escrow] <= sy[Escrow],
         sy'[Escrow] * ptSupply >= sy[Escrow] * ptSupply', peak <= peak'
  PROVE  Promise!Next
  <1>1. ptSupply \in Nat  BY MarketTypes DEF TypeInv
  <1>2. ptSupply' < ptSupply  BY <1>1
  <1>3. Promise!Exit  BY <1>2 DEF Promise!Exit
  <1>4. QED  BY <1>3 DEF Promise!Next

\* A step that leaves the escrow and PT alone is a stutter, or a Fund of
\* nothing when it raises the high-water mark.
LEMMA QuietMaps ==
  ASSUME TypeInv, UNCHANGED <<sy, ptSupply>>, CommitRate
  PROVE  Promise!Next
  <1>1. sy[Escrow] \in Nat /\ ptSupply \in Nat /\ WAD \in Nat
    BY MarketTypes DEF TypeInv
  <1>2. peak' \in Nat /\ peak <= peak'  BY PeakRises
  <1>z. \A x \in Nat : 0 * x = 0  BY SMT
  <1>3. 0 * WAD = 0 /\ 0 * peak' = 0  BY <1>1, <1>2, <1>z, Zenon
  <1>4. sy'[Escrow] = sy[Escrow] + 0 /\ ptSupply' = ptSupply + 0  BY <1>1
  <1>5. 0 * WAD <= 0 * peak'  BY <1>3
  <1>6. 0 \in Nat  OBVIOUS
  <1>7. QED  BY <1>2, <1>4, <1>5, <1>6, FundMaps

LEMMA RedemptionMaps ==
  ASSUME TypeInv, NEW h \in Holders, NEW n \in Amounts,
         Recombine(h, n) \/ RedeemAtMaturity(h, n)
  PROVE  Promise!Next
  <1>a. n \in Nat /\ h \in Accounts  BY MarketAssumption, HolderIsAccount
  <1>b. sy \in Ledgers /\ sy[Escrow] \in Nat /\ ptSupply \in Nat
    BY MarketTypes DEF TypeInv, TypeOK, SyTypeOK
  <1>1. CommitRate /\ PtBurn(h, n) /\ SyTransfer(Escrow, h, Principal(n))
    BY DEF Recombine, RedeemAtMaturity
  <1>2. n > 0 /\ n <= ptSupply /\ ptSupply' = ptSupply - n
    BY <1>a, <1>1, PtBurnTypes DEF TypeInv
  <1>3. /\ Principal(n) \in Nat /\ Principal(n) <= sy[Escrow]
        /\ (sy[Escrow] - Principal(n)) * ptSupply >= sy[Escrow] * (ptSupply - n)
    BY <1>a, <1>2, ExitKeepsShare
  <1>4. sy'[Escrow] = sy[Escrow] - Principal(n)
    BY <1>b, <1>1, <1>3, MovedOutOfEscrow DEF SyTransfer
  <1>5. sy'[Escrow] <= sy[Escrow]  BY <1>b, <1>3, <1>4
  <1>6. peak <= peak'  BY <1>1, PeakRises
  <1>7. QED  BY <1>a, <1>2, <1>3, <1>4, <1>5, <1>6, ExitMaps

LEMMA SplitMaps ==
  ASSUME TypeInv, NEW h \in Holders, NEW n \in Amounts, Split(h, n)
  PROVE  Promise!Next
  <1> DEFINE face == MintedFace(n)
  <1>a. n \in Nat /\ h \in Accounts /\ Escrow \in Accounts
    BY MarketAssumption, HolderIsAccount
  <1>b. sy \in Ledgers /\ WAD \in Nat \ {0} /\ EffectiveRate \in Nat
    BY MarketTypes DEF TypeInv, TypeOK, SyTypeOK
  <1>1. /\ CommitRate /\ ptSupply' = ptSupply + face
        /\ sy' = Moved(sy, h, Escrow, n)
    BY DEF Split, PtMint, SyTransfer
  <1>2. sy'[Escrow] = sy[Escrow] + n  BY <1>a, <1>b, <1>1, MovedIntoEscrow
  <1>3. peak' \in Nat /\ peak <= peak' /\ EffectiveRate <= peak'
    BY <1>1, PeakRises
  <1>4. n * peak' >= face * WAD  BY <1>a, <1>3, SplitCoversFace
  <1>5. face \in Nat  BY <1>a, <1>b, FloorBounds DEF MintedFace
  <1> HIDE DEF face
  <1>6. face * WAD \in Nat /\ n * peak' \in Nat
    BY <1>a, <1>b, <1>3, <1>5, ProductInNat
  <1>7. face * WAD <= n * peak'  BY <1>4, <1>6 DEF face
  <1>8. ptSupply' = ptSupply + face  BY <1>1 DEF face
  <1>9. QED  BY <1>a, <1>2, <1>3, <1>5, <1>7, <1>8, FundMaps

LEMMA ClaimMaps ==
  ASSUME TypeInv, NEW h \in Holders, ClaimYield(h)
  PROVE  Promise!Next
  <1>b. sy \in Ledgers /\ sy[Escrow] \in Nat /\ ptSupply \in Nat /\ WAD \in Nat
        /\ EffectiveRate \in Nat
    BY MarketTypes DEF TypeInv, TypeOK, SyTypeOK
  <1>1. CommitRate /\ ptSupply' = ptSupply  BY DEF ClaimYield, ptVars
  <1>2. CASE ~(YieldPayout(h) > 0)
    <2>1. sy' = sy  BY <1>2 DEF ClaimYield
    <2>2. QED  BY <1>1, <2>1, QuietMaps
  <1>3. CASE YieldPayout(h) > 0
    <2>1. YieldPayout(h) \in Nat  BY PayoutBounds DEF TypeInv
    <2>2. sy'[Escrow] = sy[Escrow] - YieldPayout(h)
      BY <1>b, <1>3, <2>1, MovedOutOfEscrow DEF ClaimYield, SyTransfer
    <2>3. sy'[Escrow] \in Nat /\ sy'[Escrow] * EffectiveRate >= ptSupply * WAD
      BY <1>3, <2>2, ClaimLeavesFace
    <2>4. peak' \in Nat /\ peak <= peak' /\ EffectiveRate <= peak'
      BY <1>1, PeakRises
    <2>5. sy'[Escrow] * EffectiveRate <= sy'[Escrow] * peak'
      BY <1>b, <2>3, <2>4, SMT
    <2>6. /\ sy'[Escrow] * EffectiveRate \in Nat /\ sy'[Escrow] * peak' \in Nat
          /\ ptSupply * WAD \in Nat
      BY <1>b, <2>3, <2>4, ProductInNat
    <2>7. sy'[Escrow] * peak' >= ptSupply * WAD  BY <2>3, <2>5, <2>6
    <2>8. sy'[Escrow] < sy[Escrow]  BY <1>b, <1>3, <2>1, <2>2
    <2>9. Promise!PayJunior  BY <1>1, <2>7, <2>8 DEF Promise!PayJunior
    <2>10. QED  BY <2>4, <2>9 DEF Promise!Next
  <1>4. QED  BY <1>2, <1>3

LEMMA BurnPtMaps ==
  ASSUME TypeInv, NEW h \in Holders, NEW n \in Amounts, BurnPt(h, n)
  PROVE  Promise!Next
  <1>a. n \in Nat /\ h \in Accounts  BY MarketAssumption, HolderIsAccount
  <1>b. sy[Escrow] \in Nat /\ ptSupply \in Nat /\ peak \in Nat
    BY MarketTypes DEF TypeInv
  <1>1. n > 0 /\ n <= ptSupply /\ ptSupply' = ptSupply - n
    BY <1>a, PtBurnTypes DEF BurnPt, TypeInv
  <1>2. sy' = sy /\ peak' = peak  BY DEF BurnPt, tokVars
  <1>3. ptSupply' \in Nat /\ ptSupply' <= ptSupply  BY <1>a, <1>b, <1>1
  <1>4. sy[Escrow] * ptSupply >= sy[Escrow] * ptSupply'  BY <1>b, <1>3, SMT
  <1>5. sy'[Escrow] <= sy[Escrow] /\ peak <= peak'  BY <1>b, <1>2
  <1>6. QED  BY <1>a, <1>1, <1>2, <1>4, <1>5, ExitMaps

LEMMA TransferSyMaps ==
  ASSUME TypeInv, NEW h \in Holders, NEW to \in Accounts, NEW n \in Amounts,
         TransferSy(h, to, n)
  PROVE  Promise!Next \/ UNCHANGED <<sy[Escrow], ptSupply, peak>>
  <1>a. n \in Nat /\ h \in Accounts  BY MarketAssumption, HolderIsAccount
  <1>b. sy \in Ledgers /\ ptSupply \in Nat /\ peak \in Nat /\ WAD \in Nat
    BY MarketTypes DEF TypeInv, TypeOK, SyTypeOK
  <1>1. ptSupply' = ptSupply /\ peak' = peak
    BY DEF TransferSy, ptVars, tokVars
  <1>2. sy'[Escrow] = IF to = Escrow THEN sy[Escrow] + n ELSE sy[Escrow]
    BY <1>a, <1>b, MovedIntoEscrow DEF TransferSy, SyTransfer
  <1>3. CASE to = Escrow
    <2>1. n * peak' \in Nat /\ 0 * WAD = 0
      BY <1>a, <1>b, <1>1, ProductInNat, SMT
    <2>2. 0 * WAD <= n * peak'  BY <2>1
    <2>3. /\ ptSupply' = ptSupply + 0 /\ peak <= peak' /\ 0 \in Nat
          /\ sy'[Escrow] = sy[Escrow] + n
      BY <1>b, <1>1, <1>2, <1>3
    <2>4. QED  BY <1>a, <1>b, <1>1, <2>2, <2>3, FundMaps
  <1>4. CASE to # Escrow
    BY <1>1, <1>2, <1>4
  <1>5. QED  BY <1>3, <1>4

\* The market implements SeniorEscrow: every transaction funds the escrow,
\* lets principal out at no more than its share, or pays yield principal does
\* not need.
THEOREM MarketKeepsPromise == Spec => KeepsPromise
  <1>1. Init => Promise!Init
    BY HolderIsAccount DEF Init, SyInit, PtInit, NoRate, Promise!Init
  <1>2. TypeInv /\ [Next]_vars
          => [Promise!Next]_<<sy[Escrow], ptSupply, peak>>
    <2> SUFFICES ASSUME TypeInv, [Next]_vars
                 PROVE  Promise!Next \/ UNCHANGED <<sy[Escrow], ptSupply, peak>>
      OBVIOUS
    <2>1. CASE ObserveRate \/ FreezeMaturityRate
      BY <2>1, QuietMaps DEF ObserveRate, FreezeMaturityRate, ptVars
    <2>2. ASSUME NEW h \in Holders, NEW n \in Amounts, BurnYt(h, n)
          PROVE  Promise!Next
      BY <2>2, QuietMaps DEF BurnYt, ptVars
    <2>3. ASSUME NEW h \in Holders, NEW to \in Accounts, NEW n \in Amounts,
                 TransferYt(h, to, n)
          PROVE  Promise!Next
      BY <2>3, QuietMaps DEF TransferYt, ptVars
    <2>4. ASSUME NEW h \in Holders, NEW to \in Accounts, NEW n \in Amounts,
                 TransferPt(h, to, n)
          PROVE  UNCHANGED <<sy[Escrow], ptSupply, peak>>
      BY <2>4 DEF TransferPt, PtTransfer, tokVars
    <2>5. CASE (\E r \in Rates : MoveRate(r)) \/ Tick \/ UNCHANGED vars
      BY <2>5 DEF MoveRate, Tick, vars, ptVars, tokVars
    <2>6. QED
      BY <2>1, <2>2, <2>3, <2>4, <2>5, RedemptionMaps, SplitMaps, ClaimMaps,
         BurnPtMaps, TransferSyMaps DEF Next
  <1>3. QED
    BY <1>1, <1>2, TypeInit, TypeStep, PTL DEF Spec, KeepsPromise, Promise!Spec
=============================================================================
