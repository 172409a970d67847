----------------------------- MODULE TokensProofs -----------------------------
(***************************************************************************)
(* The market's tokens for any number of holders and any amounts.          *)
(*   allowances  no grant is overspent or spent after it expired, and the  *)
(*               token's allowances implement those of SpendingGrants.     *)
(*   wrapper     what a deposit, a redemption and a transfer may do to the *)
(*               holders who take no part in it, whatever Blend rounds off *)
(*               or pays short.                                            *)
(***************************************************************************)
EXTENDS Allowances, SyWrapper, FixedPointProofs

IInv == TypeOK /\ EntryOutlivesGrant

\* The inductive invariant of allowances and their storage (approve, spend, archival):
\* it holds at the start ...
THEOREM InitInv == Init => IInv
  BY DEF Init, IInv, TypeOK, Entries, EntryOutlivesGrant

\* A write whose expiration is not past leaves an entry that outlives it.
LEMMA WriteKeepsInv ==
  ASSUME IInv, NEW p \in Pairs, NEW amount \in Nat, NEW expiration \in Nat,
         WriteAllowance(p, amount, expiration), UNCHANGED ledger
  PROVE  IInv'
<1> USE AllowanceAssumption
<1>1. stored[p] \in Entries /\ ledger \in Nat
  BY DEF IInv, TypeOK
<1>2. AfterSet(p) \in Int
  BY <1>1 DEF AfterSet, Entries
<1> DEFINE life == LiveUntil(p, amount, expiration)
<1>3. life \in Int /\ (amount > 0 => expiration <= life)
  BY <1>2 DEF LiveUntil
<1> DEFINE new == [amount |-> amount, expiration |-> expiration, liveUntil |-> life]
<1>4. stored' = [stored EXCEPT ![p] = new]
  BY DEF WriteAllowance
<1>5. new \in Entries
  BY <1>3 DEF Entries
<1> HIDE DEF life
<1>6. TypeOK'
  BY <1>4, <1>5 DEF IInv, TypeOK
<1>7. ASSUME NEW q \in Pairs
      PROVE  stored'[q].amount > 0 /\ ledger' <= stored'[q].expiration =>
               stored'[q].expiration <= stored'[q].liveUntil
  <2>1. CASE q = p
    BY <1>3, <1>4, <2>1 DEF IInv, TypeOK
  <2>2. CASE q # p
    <3>1. stored'[q] = stored[q]
      BY <1>4, <2>2 DEF IInv, TypeOK
    <3> QED  BY <3>1 DEF IInv, EntryOutlivesGrant
  <2> QED  BY <2>1, <2>2
<1> QED  BY <1>6, <1>7 DEF IInv, EntryOutlivesGrant

\* What is left after a spend is a whole number, and the entry had not expired.
LEMMA SpendIsWithin ==
  ASSUME IInv, NEW p \in Pairs, NEW n \in Amounts, n > 0, SpendAllowance(p, n)
  PROVE  /\ Readable(p)
         /\ Allowance(p) = stored[p].amount
         /\ Allowance(p) - n \in Nat
         /\ stored[p].expiration \in Nat
  BY AllowanceAssumption
     DEF IInv, TypeOK, Entries, SpendAllowance, Allowance

\* ... and every step keeps it.
THEOREM NextInv == IInv /\ [Next]_vars => IInv'
<1> SUFFICES ASSUME IInv, [Next]_vars PROVE IInv'
  OBVIOUS
<1> USE AllowanceAssumption
<1>1. CASE NextLedger
  BY <1>1 DEF NextLedger, IInv, TypeOK, Entries, EntryOutlivesGrant
<1>2. ASSUME NEW p \in Pairs, NEW n \in Amounts \cup {0}, NEW e \in Expirations, Approve(p, n, e)
      PROVE  IInv'
  BY <1>2, WriteKeepsInv DEF Approve, Expirations
<1>3. ASSUME NEW p \in Pairs, NEW n \in Amounts, n > 0, SpendAllowance(p, n),
             UNCHANGED ledger
      PROVE  IInv'
  <2>1. Allowance(p) - n \in Nat /\ stored[p].expiration \in Nat
    BY <1>3, SpendIsWithin
  <2>2. WriteAllowance(p, Allowance(p) - n, stored[p].expiration)
    BY <1>3 DEF SpendAllowance
  <2> QED  BY <1>3, <2>1, <2>2, WriteKeepsInv
<1>4. ASSUME UNCHANGED <<ledger, stored>> PROVE IInv'
  BY <1>4 DEF IInv, TypeOK, EntryOutlivesGrant
<1>5. ASSUME NEW p \in Pairs, NEW n \in Amounts, BurnFrom(p, n) PROVE IInv'
  BY <1>3, <1>5 DEF BurnFrom, PtBurn, CanDebit
<1>6. ASSUME NEW p \in Pairs, NEW n \in Amounts, NEW to \in Accounts,
             TransferFrom(p, to, n)
      PROVE  IInv'
  BY <1>3, <1>6 DEF TransferFrom, PtTransfer, CanDebit
<1> QED  BY <1>1, <1>2, <1>4, <1>5, <1>6
            DEF Next, Transfer, Burn, Mint, vars

\* write_allowance: no live allowance is ever left in an entry that the
\* network may archive before the allowance expires.
THEOREM EntriesOutliveGrants == Spec => []EntryOutlivesGrant
<1>1. IInv => EntryOutlivesGrant
  BY DEF IInv
<1> QED  BY <1>1, InitInv, NextInv, PTL DEF Spec
-----------------------------------------------------------------------------
View == [p \in Pairs |-> IF Allowance(p) > 0 THEN Current(p)
                         ELSE [amount |-> 0, expiration |-> 0]]

\* What a holder sees of an entry that was just written.
LEMMA WriteIsSeen ==
  ASSUME IInv, IInv', NEW p \in Pairs, NEW amount \in Nat, NEW expiration \in Nat,
         amount > 0 => ledger <= expiration,
         WriteAllowance(p, amount, expiration), UNCHANGED ledger
  PROVE  View' = [View EXCEPT ![p] = Promised!Granted(amount, expiration)]
<1>1. ledger \in Nat /\ stored \in [Pairs -> Entries] /\ stored' \in [Pairs -> Entries]
  BY DEF IInv, TypeOK
<1>2. \A q \in Pairs : q # p => stored'[q] = stored[q]
  BY <1>1 DEF WriteAllowance
<1>3. stored'[p].amount = amount /\ stored'[p].expiration = expiration
  BY <1>1 DEF WriteAllowance
<1>4. ASSUME NEW q \in Pairs, q # p PROVE View'[q] = View[q]
  BY <1>2, <1>4 DEF View, Allowance, Readable, Archived, Current
<1>5. View'[p] = Promised!Granted(amount, expiration)
  <2>1. CASE amount > 0
    <3>1. Readable(p)'
      BY <1>1, <1>3, <2>1 DEF Readable, Archived, IInv, EntryOutlivesGrant, Entries
    <3> QED  BY <1>3, <2>1, <3>1 DEF View, Allowance, Current, Promised!Granted
  <2>2. CASE amount = 0
    BY <1>3, <2>2 DEF View, Allowance, Current, Promised!Granted, Promised!Nothing
  <2> QED  BY <2>1, <2>2
<1>6. View' = [q \in Pairs |-> View'[q]] /\ View = [q \in Pairs |-> View[q]]
  BY DEF View
<1> HIDE DEF View
<1> QED  BY <1>4, <1>5, <1>6

LEMMA ApproveMaps ==
  ASSUME IInv, IInv', NEW p \in Pairs, NEW n \in Nat, NEW e \in Nat, Approve(p, n, e)
  PROVE  Promised!Approve(p, n, e)
<1>1. View' = [View EXCEPT ![p] = Promised!Granted(n, e)]
  BY WriteIsSeen DEF Approve, IInv, TypeOK
<1>2. QED  BY <1>1 DEF Approve, Promised!Approve, View, ptVars, Promised!ptVars

\* A spend charges the grant what the spender asked for.
LEMMA SpendCharges ==
  ASSUME IInv, IInv', NEW p \in Pairs, NEW n \in Amounts, n > 0,
         SpendAllowance(p, n), UNCHANGED ledger
  PROVE  Promised!Charge(p, n)
<1> USE AllowanceAssumption
<1>1. Readable(p) /\ Allowance(p) = stored[p].amount /\ Allowance(p) - n \in Nat
      /\ stored[p].expiration \in Nat
  BY SpendIsWithin
<1>2. ledger <= stored[p].expiration
  BY <1>1 DEF Readable, IInv, TypeOK
<1>3. View' = [View EXCEPT ![p] = Promised!Granted(Allowance(p) - n, stored[p].expiration)]
  BY <1>1, <1>2, WriteIsSeen DEF SpendAllowance
<1>4. Allowance(p) \in Nat /\ n \in Nat
  BY <1>1 DEF IInv, TypeOK, Entries
<1>5. View[p].amount = Allowance(p) /\ View[p].expiration = stored[p].expiration
  BY <1>1, <1>4 DEF View, Current
<1>6. n <= View[p].amount
  BY <1>1, <1>4, <1>5
<1>7. View' = [View EXCEPT ![p] = Promised!Granted(@.amount - n, @.expiration)]
  BY <1>3, <1>5 DEF View
<1> QED  BY <1>6, <1>7 DEF Promised!Charge, View

LEMMA BurnFromMaps ==
  ASSUME IInv, IInv', NEW p \in Pairs, NEW n \in Amounts, BurnFrom(p, n)
  PROVE  Promised!BurnFrom(p, n)
<1>1. Promised!Charge(p, n)
  BY SpendCharges DEF BurnFrom, PtBurn, CanDebit
<1>2. Promised!PtBurn(p[1], n)
  BY DEF BurnFrom, PtBurn, CanDebit, Debited,
         Promised!PtBurn, Promised!CanDebit, Promised!Debited
<1>3. QED  BY <1>1, <1>2 DEF BurnFrom, Promised!BurnFrom

LEMMA TransferFromMaps ==
  ASSUME IInv, IInv', NEW p \in Pairs, NEW n \in Amounts, NEW to \in Accounts,
         TransferFrom(p, to, n)
  PROVE  Promised!TransferFrom(p, to, n)
<1>1. Promised!Charge(p, n)
  BY SpendCharges DEF TransferFrom, PtTransfer, CanDebit
<1>2. Promised!PtTransfer(p[1], to, n)
  BY DEF TransferFrom, PtTransfer, CanDebit, Moved,
         Promised!PtTransfer, Promised!CanDebit, Promised!Moved
<1>3. QED  BY <1>1, <1>2 DEF TransferFrom, Promised!TransferFrom

\* What an owner or the tokenizer does itself leaves every grant as it was.
LEMMA OwnCallsMap ==
  ASSUME NEW h \in Holders, NEW n \in Amounts,
         Mint(h, n) \/ Burn(h, n) \/ \E to \in Accounts : Transfer(h, to, n)
  PROVE  Promised!Next
<1>1. View' = View /\ ledger' = ledger
  BY DEF Mint, Burn, Transfer, View, Allowance, Readable, Archived, Current
<1>2. CASE Mint(h, n)
  BY <1>1, <1>2 DEF Mint, PtMint, Credited, View,
     Promised!Next, Promised!Mint, Promised!PtMint, Promised!Credited
<1>3. CASE Burn(h, n)
  BY <1>1, <1>3 DEF Burn, PtBurn, CanDebit, Debited, View,
     Promised!Next, Promised!Burn, Promised!PtBurn, Promised!CanDebit, Promised!Debited
<1>4. ASSUME NEW to \in Accounts, Transfer(h, to, n) PROVE Promised!Next
  <2>1. Promised!Transfer(h, to, n) /\ to \in Promised!Accounts
    BY <1>4 DEF Transfer, PtTransfer, CanDebit, Moved, Accounts, Promised!Accounts,
       Promised!Transfer, Promised!PtTransfer, Promised!CanDebit, Promised!Moved
  <2>2. QED  BY <1>1, <2>1 DEF View, Promised!Next
<1>5. QED  BY <1>2, <1>3, <1>4

LEMMA LedgerMaps ==
  ASSUME IInv, NextLedger
  PROVE  Promised!NextLedger
<1>1. ledger \in Nat /\ stored \in [Pairs -> Entries]
  BY DEF IInv, TypeOK
<1>2. ASSUME NEW p \in Pairs
      PROVE  View'[p] = IF ledger' <= View[p].expiration THEN View[p] ELSE Promised!Nothing
  <2>1. stored[p] \in Entries /\ stored'[p] = stored[p] /\ ledger' = ledger + 1
    BY <1>1 DEF NextLedger
  <2>2. CASE stored[p].amount > 0 /\ ledger' <= stored[p].expiration
    <3>1. Readable(p) /\ Readable(p)'
      BY <1>1, <2>1, <2>2 DEF Readable, Archived, IInv, EntryOutlivesGrant, Entries
    <3> QED  BY <2>1, <2>2, <3>1 DEF View, Allowance, Current, Promised!Nothing
  <2>3. CASE stored[p].amount > 0 /\ stored[p].expiration = ledger
    BY <1>1, <2>1, <2>3
       DEF View, Allowance, Readable, Archived, Current, Promised!Nothing, Entries
  <2>4. CASE ~(stored[p].amount > 0) \/ stored[p].expiration < ledger
    BY <1>1, <2>1, <2>4
       DEF View, Allowance, Readable, Archived, Current, Promised!Nothing, Entries
  <2>5. ledger' \in Nat /\ stored[p].expiration \in Nat
    BY <1>1, <2>1 DEF Entries
  <2> QED  BY <1>1, <2>1, <2>2, <2>3, <2>4, <2>5
<1>3. ledger' = ledger + 1
  BY DEF NextLedger
<1>4. View' = [p \in Pairs |-> IF ledger' <= View[p].expiration THEN View[p]
                               ELSE Promised!Nothing]
  <2>1. View' = [p \in Pairs |-> View'[p]]
    BY DEF View
  <2> HIDE DEF View
  <2> QED  BY <1>2, <2>1
<1>5. ptVars' = ptVars /\ call' = <<"none">>
  BY DEF NextLedger
<1> QED  BY <1>3, <1>4, <1>5 DEF Promised!NextLedger, View, Promised!Nothing, ptVars, Promised!ptVars

LEMMA StepMaps ==
  ASSUME IInv, IInv', [Next]_vars
  PROVE  [Promised!Next]_(Promised!vars)
<1> USE AllowanceAssumption
<1>1. CASE NextLedger
  BY <1>1, LedgerMaps DEF Promised!Next
<1>2. ASSUME NEW p \in Pairs, NEW n \in Amounts \cup {0}, NEW e \in Expirations,
             Approve(p, n, e)
      PROVE  Promised!Next
  BY <1>2, ApproveMaps DEF Promised!Next, Expirations
<1>3. ASSUME NEW p \in Pairs, NEW n \in Amounts, BurnFrom(p, n) PROVE Promised!Next
  BY <1>3, BurnFromMaps DEF Promised!Next
<1>4. ASSUME NEW p \in Pairs, NEW n \in Amounts, NEW to \in Accounts,
             TransferFrom(p, to, n)
      PROVE  Promised!Next
  BY <1>4, TransferFromMaps DEF Promised!Next, Accounts, Promised!Accounts
<1>5. ASSUME UNCHANGED vars PROVE UNCHANGED Promised!vars
  BY <1>5 DEF vars, ptVars, Promised!vars, Promised!ptVars,
              Allowance, Readable, Archived, Current
<1> QED  BY <1>1, <1>2, <1>3, <1>4, <1>5, OwnCallsMap DEF Next

LEMMA InitMaps == Init => Promised!Init
  BY DEF Init, PtInit, EmptyLedger, Accounts,
         Promised!PtInit, Promised!EmptyLedger, Promised!Accounts, Promised!Init, Promised!Nothing, Allowance, Readable, Archived

\* allowance() answers what a grant without storage would: what was approved
\* less what transfer_from and burn_from moved, charged exactly; the archival
\* clock of temporary storage can never be seen.
THEOREM AllowancesAreGrants == Spec => KeepsGrants
<1>1. IInv /\ IInv' /\ [Next]_vars => [Promised!Next]_(Promised!vars)
  BY StepMaps
<1> QED  BY <1>1, InitInv, NextInv, InitMaps, PTL DEF Spec, KeepsGrants, Promised!Spec
-----------------------------------------------------------------------------
\* What a deposit's arithmetic relies on.  The position never goes negative:
\* the bTokens burnt for what the pool releases are always there.
RateTyped ==
  /\ bRate \in Nat \ {0}
  /\ bTokens \in Nat
  /\ supply \in Int
  /\ adminRate \in Nat \ {0}

LEMMA RateInNat ==
  ASSUME RateTyped
  PROVE  AUM \in Nat /\ Rate \in Nat
  <1>1. SC \in Nat \ {0} /\ WAD \in Nat \ {0}  BY PoolAssumption, WadAssumption
  <1>2. AUM \in Nat  BY <1>1, FloorBounds DEF AUM, Worth, RateTyped
  <1>3. supply > 0 => MulDivFloor(AUM, WAD, supply) \in Nat
    BY <1>1, <1>2, FloorBounds DEF RateTyped
  <1>4. DerivedRate(AUM, supply) \in Nat
    BY <1>1, <1>3 DEF DerivedRate, RateTyped
  <1>5. QED  BY <1>2, <1>4 DEF Rate, RateTyped

\* More bTokens are worth at least as much.
LEMMA WorthGrows ==
  ASSUME RateTyped, NEW n \in Nat, bTokens <= n
  PROVE  Worth(n) \in Nat /\ AUM <= Worth(n)
  <1>1. SC \in Nat \ {0} /\ bRate \in Nat  BY PoolAssumption DEF RateTyped
  <1>2. /\ AUM \in Nat /\ AUM * SC <= bTokens * bRate
        /\ Worth(n) \in Nat
    BY <1>1, FloorBounds DEF AUM, Worth, RateTyped
  <1>3. bTokens * bRate <= n * bRate  BY <1>1, ProductMonotone DEF RateTyped
  <1>4. AUM * SC <= n * bRate  BY <1>1, <1>2, <1>3, SMT DEF RateTyped
  <1>5. QED  BY <1>1, <1>2, <1>4, FloorIsGreatest DEF Worth

\* Minting floor(credited * WAD / rate) shares against `credited' more assets
\* keeps the rate, whether shares were outstanding or not.
LEMMA MintKeepsRate ==
  ASSUME RateTyped, NEW aum \in Nat, AUM <= aum, Blend, Rate # 0,
         NEW minted \in Nat, minted * Rate <= (aum - AUM) * WAD
  PROVE  DerivedRate(aum, supply + minted) >= Rate
  <1> DEFINE r == Rate
  <1>1. WAD \in Nat \ {0} /\ AUM \in Nat /\ r \in Nat /\ supply \in Int
    BY WadAssumption, RateInNat DEF RateTyped
  <1>2. r = DerivedRate(AUM, supply)  BY DEF Rate
  <1>3. CASE supply > 0
    <2>1. supply * r <= AUM * WAD
      <3>1. supply \in Nat \ {0} /\ r = MulDivFloor(AUM, WAD, supply)
        BY <1>1, <1>2, <1>3 DEF DerivedRate
      <3>2. r * supply <= AUM * WAD  BY <1>1, <3>1, FloorBounds
      <3>3. r * supply = supply * r  BY <1>1, SMT
      <3>4. QED  BY <3>2, <3>3
    <2>2. minted * r <= (aum - AUM) * WAD  OBVIOUS
    <2> HIDE DEF r
    <2>3. r * (supply + minted) <= aum * WAD
      <3>1. r * (supply + minted) = supply * r + minted * r  BY <1>1, SMT
      <3>2. AUM * WAD + (aum - AUM) * WAD = aum * WAD  BY <1>1, SMT
      <3>3. /\ supply * r \in Int /\ minted * r \in Int /\ AUM * WAD \in Int
            /\ (aum - AUM) * WAD \in Int
        BY <1>1, SMT
      <3>4. QED  BY <2>1, <2>2, <3>1, <3>2, <3>3
    <2>4. supply + minted \in Nat \ {0}  BY <1>1, <1>3
    <2>5. r <= MulDivFloor(aum, WAD, supply + minted)
      BY <1>1, <2>3, <2>4, FloorIsGreatest
    <2>6. DerivedRate(aum, supply + minted) = MulDivFloor(aum, WAD, supply + minted)
      BY <2>4 DEF DerivedRate
    <2>7. DerivedRate(aum, supply + minted) \in Nat  BY <1>1, <2>4, <2>6, FloorBounds
    <2>8. QED  BY <1>1, <2>5, <2>6, <2>7 DEF r
  <1>4. CASE supply <= 0
    <2>1. r = WAD  BY <1>2, <1>4 DEF DerivedRate
    <2>2. minted * WAD <= (aum - AUM) * WAD  BY <2>1
    <2>3. minted <= aum - AUM  BY <1>1, <2>2, CancelFactor
    <2>4. supply + minted <= aum  BY <1>1, <1>4, <2>3
    <2>5. CASE supply + minted <= 0
      <3>1. DerivedRate(aum, supply + minted) = WAD  BY <2>5 DEF DerivedRate
      <3>2. QED  BY <1>1, <2>1, <3>1
    <2>6. CASE supply + minted > 0
      <3>1. supply + minted \in Nat \ {0}  BY <1>1, <2>6
      <3>2. (supply + minted) * WAD <= aum * WAD  BY <1>1, <2>4, <3>1, ProductMonotone
      <3>3. WAD * (supply + minted) = (supply + minted) * WAD  BY <1>1, SMT
      <3>4. WAD <= MulDivFloor(aum, WAD, supply + minted)
        BY <1>1, <3>1, <3>2, <3>3, FloorIsGreatest
      <3>5. MulDivFloor(aum, WAD, supply + minted) \in Nat  BY <1>1, <3>1, FloorBounds
      <3>6. DerivedRate(aum, supply + minted) = MulDivFloor(aum, WAD, supply + minted)
        BY <3>1 DEF DerivedRate
      <3>7. QED  BY <1>1, <2>1, <3>4, <3>5, <3>6
    <2>7. QED  BY <1>1, <2>5, <2>6
  <1>5. QED  BY <1>1, <1>3, <1>4

LEMMA DepositStep ==
  ASSUME RateTyped, NEW h \in Shareholders, NEW amount \in WrapperAmounts, Deposit(h, amount)
  PROVE  RateTyped' /\ Rate' >= Rate
  <1>1. /\ SC \in Nat \ {0} /\ WAD \in Nat \ {0} /\ amount \in Nat
        /\ bRate \in Nat \ {0} /\ AUM \in Nat /\ Rate \in Nat
    BY PoolAssumption, WadAssumption, WrapperAssumption, RateInNat DEF RateTyped
  <1> DEFINE credited == IF Blend THEN Worth(bTokens') - AUM ELSE amount
             minted == Credit(amount, credited)
  <1>2. /\ Rate # 0 /\ supply' = supply + minted
        /\ custody' = custody /\ adminRate' = adminRate /\ bRate' = bRate
        /\ Blend => bTokens' = bTokens + MulDivFloor(amount, SC, bRate)
        /\ ~Blend => bTokens' = bTokens
    BY DEF Deposit, Supply
  <1>3. MulDivFloor(amount, SC, bRate) \in Nat  BY <1>1, FloorBounds
  <1>4. bTokens' \in Nat /\ bTokens' >= bTokens  BY <1>2, <1>3 DEF RateTyped
  <1>5. Worth(bTokens') \in Nat /\ AUM <= Worth(bTokens')  BY <1>4, WorthGrows
  <1>6. credited \in Nat  BY <1>1, <1>5
  <1>7. minted \in Nat /\ minted * Rate <= credited * WAD
    BY <1>1, <1>2, <1>6, FloorBounds DEF Credit
  <1>8. RateTyped'  BY <1>2, <1>4, <1>7 DEF RateTyped
  <1>9. CASE Blend
    <2>1. AUM' = Worth(bTokens')  BY <1>2 DEF AUM, Worth
    <2>2. Rate' = DerivedRate(Worth(bTokens'), supply + minted)
      BY <1>2, <1>9, <2>1 DEF Rate, Blend
    <2>3. credited = Worth(bTokens') - AUM  BY <1>9
    <2> HIDE DEF credited, minted
    <2>4. QED  BY <1>2, <1>5, <1>7, <1>8, <1>9, <2>2, <2>3, MintKeepsRate
  <1>10. CASE ~Blend
    BY <1>2, <1>8, <1>10 DEF Rate, Blend, RateTyped
  <1>11. QED  BY <1>9, <1>10

\* What the pool releases is covered by the position.
LEMMA PositionCovers ==
  ASSUME RateTyped, NEW amount \in Nat, NEW released \in Released(amount),
         Withdraw(amount, released)
  PROVE  bTokens' \in Nat /\ released \in Nat
  <1>1. /\ SC \in Nat \ {0} /\ bRate \in Nat \ {0} /\ bTokens \in Nat
        /\ LiquidityCaps \subseteq Nat
    BY PoolAssumption DEF RateTyped
  <1> DEFINE worth == MulDivFloor(bTokens, bRate, SC)
  <1>2. worth \in Nat /\ worth * SC <= bTokens * bRate  BY <1>1, FloorBounds
  <1>3. BurnedFor(amount) \in Nat /\ amount * SC <= BurnedFor(amount) * bRate
    BY <1>1, CeilBounds DEF BurnedFor
  <1>4. released \in Nat  BY <1>1, <1>2 DEF Released
  <1>5. BurnedFor(released) \in Nat  BY <1>1, <1>4, CeilBounds DEF BurnedFor
  <1>6. CASE BurnedFor(amount) > bTokens /\ released = worth
    <2>1. bTokens' = 0  BY <1>6 DEF Withdraw
    <2>2. QED  BY <1>4, <2>1
  <1>7. CASE ~(BurnedFor(amount) > bTokens /\ released = worth)
    <2>1. bTokens' = bTokens - BurnedFor(released)  BY <1>7 DEF Withdraw
    <2>2. released * SC <= bTokens * bRate
      <3>1. CASE BurnedFor(amount) <= bTokens
        <4>1. released <= amount  BY <1>1, <3>1 DEF Released
        <4>2. released * SC <= amount * SC  BY <1>1, <1>4, <4>1, ProductMonotone
        <4>3. BurnedFor(amount) * bRate <= bTokens * bRate
          BY <1>1, <1>3, <3>1, ProductMonotone
        <4>4. /\ released * SC \in Nat /\ amount * SC \in Nat
              /\ BurnedFor(amount) * bRate \in Nat /\ bTokens * bRate \in Nat
          BY <1>1, <1>3, <1>4, ProductInNat
        <4>5. QED  BY <1>3, <4>2, <4>3, <4>4
      <3>2. CASE BurnedFor(amount) > bTokens
        <4>1. released <= worth  BY <1>1, <1>2, <1>3, <3>2 DEF Released
        <4>2. released * SC <= worth * SC  BY <1>1, <1>2, <1>4, <4>1, ProductMonotone
        <4>3. released * SC \in Nat /\ worth * SC \in Nat /\ bTokens * bRate \in Nat
          BY <1>1, <1>2, <1>4, ProductInNat
        <4> HIDE DEF worth
        <4>4. QED  BY <1>2, <4>2, <4>3
      <3>3. QED  BY <1>1, <1>3, <3>1, <3>2
    <2>3. BurnedFor(released) <= bTokens
      BY <1>1, <1>4, <2>2, CeilIsLeast DEF BurnedFor
    <2>4. QED  BY <1>1, <1>4, <1>5, <2>1, <2>3
  <1>8. QED  BY <1>6, <1>7

LEMMA RedeemFromBlendStep ==
  ASSUME RateTyped, NEW h \in Shareholders, NEW n \in WrapperAmounts, RedeemFromBlend(h, n)
  PROVE  RateTyped' /\ supply' <= supply
  <1>1. WAD \in Nat \ {0} /\ n \in Nat /\ Rate \in Nat
    BY WadAssumption, WrapperAssumption, RateInNat
  <1>2. Value(n) \in Nat  BY <1>1, FloorBounds DEF Value
  <1>3. PICK received \in Released(Value(n)) :
          /\ received > 0
          /\ Withdraw(Value(n), received)
          /\ PayOut(h, BurnFor(n, Value(n), received), received)
    BY DEF RedeemFromBlend
  <1>4. bTokens' \in Nat /\ received \in Nat  BY <1>2, <1>3, PositionCovers
  <1>5. BurnFor(n, Value(n), received) \in Nat
    <2>1. CASE received >= Value(n)  BY <1>1, <2>1 DEF BurnFor
    <2>2. CASE ~(received >= Value(n))
      \* Something is asked for only at a rate above zero.
      <3>1. Rate # 0
        <4>1. SUFFICES ASSUME Rate = 0 PROVE FALSE  OBVIOUS
        <4>2. Value(n) * WAD <= n * 0  BY <1>1, <4>1, FloorBounds DEF Value
        <4>3. Value(n) > 0  BY <1>2, <1>3, <1>4, <2>2
        <4>4. Value(n) * WAD > 0  BY <1>1, <1>2, <4>3, SMT
        <4>5. n * 0 = 0 /\ Value(n) * WAD \in Nat  BY <1>1, <1>2, ProductInNat
        <4>6. QED  BY <4>2, <4>4, <4>5
      <3>2. MulDivFloor(received, WAD, Rate) \in Nat  BY <1>1, <1>4, <3>1, FloorBounds
      <3>3. QED  BY <2>2, <3>2 DEF BurnFor
    <2>3. QED  BY <2>1, <2>2
  <1>6. /\ supply' = supply - BurnFor(n, Value(n), received)
        /\ bRate' = bRate /\ adminRate' = adminRate
    BY <1>3 DEF PayOut
  <1>7. QED  BY <1>4, <1>5, <1>6 DEF RateTyped

LEMMA RedeemFromVaultStep ==
  ASSUME RateTyped, NEW h \in Shareholders, NEW n \in WrapperAmounts, RedeemFromVault(h, n)
  PROVE  RateTyped' /\ supply' <= supply
  <1>1. n \in Nat  BY WrapperAssumption
  <1>2. QED  BY <1>1 DEF RedeemFromVault, PayOut, RateTyped

LEMMA OtherSteps ==
  ASSUME RateTyped,
         \/ \E h, to \in Shareholders, n \in WrapperAmounts : TransferShares(h, to, n)
         \/ \E r \in AdminRates : SetExchangeRate(r)
         \/ MigrateReserveIndex \/ PoolAccrues \/ PoolReindexes
         \/ UNCHANGED wrapperVars
  PROVE  RateTyped' /\ supply' = supply
  <1> USE DEF RateTyped, books, poolVars
  <1>1. CASE \E h, to \in Shareholders, n \in WrapperAmounts : TransferShares(h, to, n)
    BY <1>1 DEF TransferShares
  <1>2. CASE \E r \in AdminRates : SetExchangeRate(r)
    BY <1>2, WrapperAssumption DEF SetExchangeRate
  <1>3. CASE MigrateReserveIndex  BY <1>3 DEF MigrateReserveIndex
  <1>4. CASE PoolAccrues  BY <1>4, PoolAssumption DEF PoolAccrues, Accrue
  <1>5. CASE PoolReindexes  BY <1>5 DEF PoolReindexes, Reindex
  <1>6. CASE UNCHANGED wrapperVars  BY <1>6 DEF wrapperVars
  <1>7. QED  BY <1>1, <1>2, <1>3, <1>4, <1>5, <1>6

LEMMA StepKeepsRate ==
  ASSUME RateTyped, [WrapperNext]_wrapperVars
  PROVE  RateTyped' /\ (supply' > supply => Rate' >= Rate)
  <1>1. CASE \E h \in Shareholders, n \in WrapperAmounts : Deposit(h, n)
    BY <1>1, DepositStep
  <1>2. CASE \E h \in Shareholders, n \in WrapperAmounts : RedeemFromBlend(h, n)
    <2>1. RateTyped' /\ supply' <= supply  BY <1>2, RedeemFromBlendStep
    <2>2. QED  BY <2>1 DEF RateTyped
  <1>3. CASE \E h \in Shareholders, n \in WrapperAmounts : RedeemFromVault(h, n)
    <2>1. RateTyped' /\ supply' <= supply  BY <1>3, RedeemFromVaultStep
    <2>2. QED  BY <2>1 DEF RateTyped
  <1>4. CASE \/ \E h, to \in Shareholders, n \in WrapperAmounts : TransferShares(h, to, n)
             \/ \E r \in AdminRates : SetExchangeRate(r)
             \/ MigrateReserveIndex \/ PoolAccrues \/ PoolReindexes
             \/ UNCHANGED wrapperVars
    <2>1. RateTyped' /\ supply' = supply  BY <1>4, OtherSteps
    <2>2. QED  BY <2>1 DEF RateTyped
  <1>5. QED  BY <1>1, <1>2, <1>3, <1>4 DEF WrapperNext

\* In every wrapper, on any pool: a deposit, however Blend rounds it, never
\* lowers the rate at which the shares already issued are valued (deposit).
THEOREM DepositsDoNotDilute == WrapperSpec => DepositNeverDilutes
  <1>1. WrapperInit => RateTyped
    BY WadAssumption, PoolAssumption DEF WrapperInit, PoolInit, RateTyped
  <1>2. RateTyped /\ [WrapperNext]_wrapperVars => RateTyped'  BY StepKeepsRate
  <1>3. RateTyped /\ [WrapperNext]_wrapperVars => [supply' > supply => Rate' >= Rate]_wrapperVars
    BY StepKeepsRate
  <1>4. QED  BY <1>1, <1>2, <1>3, PTL DEF WrapperSpec, DepositNeverDilutes

-----------------------------------------------------------------------------
(* Cost basis.                                                             *)

HoldingsTyped ==
  /\ shares \in [Shareholders -> Nat]
  /\ principal \in [Shareholders -> Nat]
  /\ wallet \in [Shareholders -> Nat]

\* Shares take their part of the cost basis with them, and all shares take
\* all of it.
LEMMA BasisTaken ==
  ASSUME HoldingsTyped, NEW h \in Shareholders, NEW n \in Nat, n <= shares[h], shares[h] > 0
  PROVE  /\ PrincipalOf(h, n) \in Nat /\ PrincipalOf(h, n) <= principal[h]
         /\ n = shares[h] => PrincipalOf(h, n) = principal[h]
  <1> DEFINE p == principal[h]
             s == shares[h]
             m == MulDivFloor(p, n, s)
  <1>1. p \in Nat /\ s \in Nat \ {0} /\ n <= s  BY DEF HoldingsTyped
  <1> HIDE DEF p, s
  <1>2. m \in Nat /\ m * s <= p * n  BY <1>1, FloorBounds
  <1>3. p * n <= p * s  BY <1>1, SMT
  <1>4. m * s \in Nat /\ p * n \in Nat /\ p * s \in Nat  BY <1>1, <1>2, ProductInNat
  <1>5. m <= p  BY <1>1, <1>2, <1>3, <1>4, CancelFactor
  <1>6. n = s => p <= m
    <2>1. n = s => p * s <= p * n  BY <1>4
    <2>2. QED  BY <1>1, <2>1, FloorIsGreatest
  <1>7. PrincipalOf(h, n) = m  BY DEF PrincipalOf, p, s
  <1> HIDE DEF m
  <1>8. n = s => m = p  BY <1>1, <1>2, <1>5, <1>6
  <1>9. QED  BY <1>2, <1>5, <1>7, <1>8 DEF p, s

\* What a short payout burns is worth what was paid: at most the shares
\* presented, and within a share of the payout.
LEMMA BurnBounds ==
  ASSUME RateTyped, NEW n \in Nat, n > 0, NEW received \in Nat, received > 0,
         received <= Value(n)
  PROVE  LET burned == BurnFor(n, Value(n), received) IN
         /\ burned \in Nat /\ burned <= n
         /\ burned * Rate < (received + 1) * WAD
         /\ \/ received * WAD <= burned * Rate
            \/ received # Value(burned) /\ received * WAD < burned * Rate + Rate
  <1> DEFINE burned == BurnFor(n, Value(n), received)
             r == Rate
  <1>1. WAD \in Nat \ {0} /\ r \in Nat  BY WadAssumption, RateInNat
  <1>2. /\ Value(n) \in Nat /\ Value(n) * WAD <= n * r
        /\ n * r < Value(n) * WAD + WAD
    BY <1>1, FloorBounds DEF Value
  <1>3. (received + 1) * WAD = received * WAD + WAD /\ received * WAD \in Nat
    BY <1>1, SMT
  <1>4. CASE received >= Value(n)
    <2>1. burned = n /\ received = Value(n)  BY <1>2, <1>4 DEF BurnFor
    <2> HIDE DEF burned, r
    <2>2. burned * r = n * r /\ received * WAD = Value(n) * WAD  BY <2>1
    <2>3. n * r \in Nat  BY <1>1, ProductInNat
    <2>4. burned * r < (received + 1) * WAD /\ received * WAD <= burned * r
      BY <1>1, <1>2, <1>3, <2>2, <2>3
    <2>5. burned \in Nat /\ burned <= n  BY <2>1
    <2>6. QED  BY <2>4, <2>5 DEF burned, r
  <1>5. CASE received < Value(n)
    <2>1. received * WAD < Value(n) * WAD
      <3>1. (received + 1) * WAD <= Value(n) * WAD  BY <1>1, <1>2, <1>5, ProductMonotone
      <3>2. Value(n) * WAD \in Nat  BY <1>1, <1>2, ProductInNat
      <3>3. QED  BY <1>1, <1>3, <3>1, <3>2
    <2>2. r # 0
      <3>1. SUFFICES ASSUME r = 0 PROVE FALSE  OBVIOUS
      <3>2. n * r = 0  BY <3>1, SMT
      <3>3. Value(n) * WAD \in Nat  BY <1>1, <1>2, ProductInNat
      <3>4. QED  BY <1>2, <1>3, <2>1, <3>2, <3>3
    <2>3. burned = MulDivFloor(received, WAD, r)  BY <1>2, <1>5 DEF BurnFor
    <2> HIDE DEF burned
    <2>4. /\ burned \in Nat /\ burned * r <= received * WAD
          /\ received * WAD < burned * r + r
      BY <1>1, <2>2, <2>3, FloorBounds
    <2>5. burned <= n
      <3>1. burned * r \in Nat /\ n * r \in Nat /\ Value(n) * WAD \in Nat
        BY <1>1, <1>2, <2>4, ProductInNat
      <3>2. burned * r <= n * r  BY <1>2, <1>3, <2>1, <2>4, <3>1
      <3>3. QED  BY <1>1, <2>2, <2>4, <3>2, CancelFactor
    <2>6. burned * r < (received + 1) * WAD
      <3>1. burned * r \in Nat  BY <1>1, <2>4, ProductInNat
      <3>2. QED  BY <1>1, <1>3, <2>4, <3>1
    <2>7. received = Value(burned) => received * WAD <= burned * r
      BY <1>1, <2>4, FloorBounds DEF Value
    <2>8. QED  BY <2>4, <2>5, <2>6, <2>7 DEF burned
  <1>6. QED  BY <1>2, <1>4, <1>5

\* The pool never pays more than is asked for.
LEMMA ReleasedWithin ==
  ASSUME RateTyped, NEW amount \in Nat, NEW released \in Released(amount)
  PROVE  released \in Nat /\ released <= amount
  <1>1. /\ SC \in Nat \ {0} /\ bRate \in Nat \ {0} /\ bTokens \in Nat
        /\ LiquidityCaps \subseteq Nat
    BY PoolAssumption DEF RateTyped
  <1> DEFINE worth == MulDivFloor(bTokens, bRate, SC)
  <1>2. worth \in Nat /\ worth * SC <= bTokens * bRate  BY <1>1, FloorBounds
  <1>3. BurnedFor(amount) \in Nat  BY <1>1, CeilBounds DEF BurnedFor
  <1>4. CASE BurnedFor(amount) <= bTokens  BY <1>1, <1>4 DEF Released
  <1>5. CASE ~(BurnedFor(amount) <= bTokens)
    <2>1. released \in Nat /\ released <= worth  BY <1>1, <1>2, <1>5 DEF Released
    <2>2. bTokens * bRate < amount * SC
      <3>1. SUFFICES ASSUME amount * SC <= bTokens * bRate PROVE FALSE
        BY <1>1, ProductInNat
      <3>2. QED  BY <1>1, <1>5, <3>1, CeilIsLeast DEF BurnedFor
    <2>3. worth <= amount
      <3>1. worth * SC \in Nat /\ bTokens * bRate \in Nat /\ amount * SC \in Nat
        BY <1>1, <1>2, ProductInNat
      <3>2. worth * SC <= amount * SC  BY <1>2, <2>2, <3>1
      <3>3. QED  BY <1>1, <1>2, <3>2, CancelFactor
    <2> HIDE DEF worth
    <2>4. QED  BY <1>2, <2>1, <2>3
  <1>6. QED  BY <1>4, <1>5

\* How a redemption out of Blend comes about.
LEMMA RedeemFacts ==
  ASSUME RateTyped, NEW h \in Shareholders, NEW n \in WrapperAmounts, RedeemFromBlend(h, n)
  PROVE  \E received \in Nat \ {0}, burned \in Nat :
           /\ n \in Nat /\ n > 0 /\ n <= shares[h] /\ burned <= n /\ Blend
           /\ received \in Released(Value(n)) /\ Withdraw(Value(n), received)
           /\ Value(n) \in Nat
           /\ PayOut(h, burned, received)
           /\ burned * Rate < (received + 1) * WAD
           /\ \/ received * WAD <= burned * Rate
              \/ received # Value(burned) /\ received * WAD < burned * Rate + Rate
  <1>1. WAD \in Nat \ {0} /\ n \in Nat /\ Rate \in Nat
    BY WadAssumption, WrapperAssumption, RateInNat
  <1>2. Value(n) \in Nat  BY <1>1, FloorBounds DEF Value
  <1>3. PICK received \in Released(Value(n)) :
          /\ received > 0
          /\ Withdraw(Value(n), received)
          /\ PayOut(h, BurnFor(n, Value(n), received), received)
    BY DEF RedeemFromBlend
  <1>4. received \in Nat \ {0} /\ received <= Value(n)  BY <1>2, <1>3, ReleasedWithin
  <1>5. n > 0 /\ n <= shares[h] /\ Blend  BY DEF RedeemFromBlend
  <1> DEFINE burned == BurnFor(n, Value(n), received)
  <1>6. /\ burned \in Nat /\ burned <= n
        /\ burned * Rate < (received + 1) * WAD
        /\ \/ received * WAD <= burned * Rate
           \/ received # Value(burned) /\ received * WAD < burned * Rate + Rate
    BY <1>1, <1>4, <1>5, BurnBounds
  <1> HIDE DEF burned
  <1>7. PayOut(h, burned, received)  BY <1>3 DEF burned
  <1>8. QED  BY <1>1, <1>2, <1>3, <1>4, <1>5, <1>6, <1>7

\* Burning shares keeps the books, and the basis with the shares.
LEMMA PayOutKeepsBooks ==
  ASSUME HoldingsTyped, BasisGoesWithShares, NEW h \in Shareholders, NEW n \in Nat,
         n <= shares[h], shares[h] > 0, NEW out \in Nat, PayOut(h, n, out)
  PROVE  HoldingsTyped' /\ BasisGoesWithShares'
  <1> DEFINE m == PrincipalOf(h, n)
  <1>1. /\ m \in Nat /\ m <= principal[h] /\ (n = shares[h] => m = principal[h])
    BY BasisTaken
  <1> HIDE DEF m
  <1>2. /\ shares' = [shares EXCEPT ![h] = @ - n]
        /\ principal' = [principal EXCEPT ![h] = @ - m]
        /\ wallet' = [wallet EXCEPT ![h] = @ + out]
    BY DEF PayOut, m
  <1>3. HoldingsTyped'  BY <1>1, <1>2 DEF HoldingsTyped
  <1>4. ASSUME NEW a \in Shareholders, shares'[a] = 0  PROVE principal'[a] = 0
    BY <1>1, <1>2, <1>4 DEF HoldingsTyped, BasisGoesWithShares
  <1>5. QED  BY <1>3, <1>4 DEF BasisGoesWithShares

LEMMA TransferKeepsBooks ==
  ASSUME HoldingsTyped, BasisGoesWithShares, NEW h \in Shareholders,
         NEW to \in Shareholders, NEW n \in Nat, TransferShares(h, to, n)
  PROVE  HoldingsTyped' /\ BasisGoesWithShares'
  <1> DEFINE m == PrincipalOf(h, n)
  <1>1. n > 0 /\ n <= shares[h] /\ shares[h] \in Nat
    BY DEF TransferShares, HoldingsTyped
  <1>2. /\ m \in Nat /\ m <= principal[h] /\ (n = shares[h] => m = principal[h])
    BY <1>1, BasisTaken
  <1> HIDE DEF m
  <1>3. /\ shares' = [[shares EXCEPT ![h] = @ - n] EXCEPT ![to] = @ + n]
        /\ principal' = [[principal EXCEPT ![h] = @ - m] EXCEPT ![to] = @ + m]
        /\ wallet' = wallet
    BY DEF TransferShares, MovedShares, MovedPrincipal, m
  <1>4. HoldingsTyped'  BY <1>1, <1>2, <1>3 DEF HoldingsTyped
  <1>5. ASSUME NEW a \in Shareholders, shares'[a] = 0  PROVE principal'[a] = 0
    <2>1. /\ shares[a] \in Nat /\ principal[a] \in Nat /\ shares[to] \in Nat
          /\ principal[h] \in Nat
          /\ (shares[a] = 0 => principal[a] = 0)
      BY DEF HoldingsTyped, BasisGoesWithShares
    <2>2. CASE a = to
      <3>1. CASE to = h  BY <1>1, <1>2, <1>3, <1>5, <2>1, <2>2, <3>1 DEF HoldingsTyped
      <3>2. CASE to # h  BY <1>1, <1>2, <1>3, <1>5, <2>1, <2>2, <3>2 DEF HoldingsTyped
      <3>3. QED  BY <3>1, <3>2
    <2>3. CASE a = h /\ a # to
      BY <1>1, <1>2, <1>3, <1>5, <2>1, <2>3 DEF HoldingsTyped
    <2>4. CASE a # h /\ a # to
      BY <1>1, <1>2, <1>3, <1>5, <2>1, <2>4 DEF HoldingsTyped
    <2>5. QED  BY <2>2, <2>3, <2>4
  <1>6. QED  BY <1>4, <1>5 DEF BasisGoesWithShares

LEMMA DepositKeepsBooks ==
  ASSUME RateTyped, HoldingsTyped, BasisGoesWithShares, NEW h \in Shareholders,
         NEW amount \in WrapperAmounts, Deposit(h, amount)
  PROVE  HoldingsTyped' /\ BasisGoesWithShares'
  <1>1. amount \in Nat  BY WrapperAssumption
  <1>2. PICK minted : /\ minted > 0 /\ supply' = supply + minted
                      /\ shares' = [shares EXCEPT ![h] = @ + minted]
                      /\ minted = Credit(amount, IF Blend THEN Worth(bTokens') - AUM ELSE amount)
    BY DEF Deposit
  <1>3. /\ principal' = [principal EXCEPT ![h] = @ + amount]
        /\ wallet' = [wallet EXCEPT ![h] = @ - amount] /\ amount <= wallet[h]
    BY DEF Deposit
  <1>4. minted \in Nat
    <2>1. /\ SC \in Nat \ {0} /\ WAD \in Nat \ {0} /\ bRate \in Nat \ {0}
          /\ AUM \in Nat /\ Rate \in Nat /\ Rate # 0
      BY PoolAssumption, WadAssumption, RateInNat DEF RateTyped, Deposit
    <2>2. CASE Blend
      <3>1. bTokens' = bTokens + MulDivFloor(amount, SC, bRate)
        BY <2>2 DEF Deposit, Supply
      <3>2. MulDivFloor(amount, SC, bRate) \in Nat  BY <1>1, <2>1, FloorBounds
      <3>3. bTokens' \in Nat /\ bTokens <= bTokens'  BY <3>1, <3>2 DEF RateTyped
      <3>4. Worth(bTokens') \in Nat /\ AUM <= Worth(bTokens')  BY <3>3, WorthGrows
      <3>5. Worth(bTokens') - AUM \in Nat  BY <2>1, <3>4
      <3>6. QED  BY <1>2, <2>1, <2>2, <3>5, FloorBounds DEF Credit
    <2>3. CASE ~Blend  BY <1>1, <1>2, <2>1, <2>3, FloorBounds DEF Credit
    <2>4. QED  BY <2>2, <2>3
  <1>5. HoldingsTyped'  BY <1>1, <1>2, <1>3, <1>4 DEF HoldingsTyped
  <1>6. ASSUME NEW a \in Shareholders, shares'[a] = 0  PROVE principal'[a] = 0
    BY <1>1, <1>2, <1>3, <1>4, <1>6 DEF HoldingsTyped, BasisGoesWithShares
  <1>7. QED  BY <1>5, <1>6 DEF BasisGoesWithShares

WrapperInv == RateTyped /\ HoldingsTyped /\ BasisGoesWithShares

LEMMA BooksStep ==
  ASSUME WrapperInv, [WrapperNext]_wrapperVars
  PROVE  WrapperInv'
  <1> USE DEF WrapperInv
  <1>1. RateTyped'  BY StepKeepsRate
  <1>2. WrapperAmounts \subseteq Nat /\ WAD \in Nat \ {0} /\ Rate \in Nat
    BY WrapperAssumption, WadAssumption, RateInNat
  <1>3. ASSUME NEW h \in Shareholders, NEW n \in WrapperAmounts, RedeemFromBlend(h, n)
        PROVE  HoldingsTyped' /\ BasisGoesWithShares'
    <2>1. PICK received \in Nat \ {0}, burned \in Nat :
            n > 0 /\ n <= shares[h] /\ burned <= n /\ PayOut(h, burned, received)
      BY <1>3, RedeemFacts
    <2>2. burned <= shares[h] /\ shares[h] > 0  BY <1>2, <2>1 DEF HoldingsTyped
    <2>3. QED  BY <2>1, <2>2, PayOutKeepsBooks
  <1>4. ASSUME NEW h \in Shareholders, NEW n \in WrapperAmounts, RedeemFromVault(h, n)
        PROVE  HoldingsTyped' /\ BasisGoesWithShares'
    <2>1. n > 0 /\ n <= shares[h] /\ PayOut(h, n, Value(n)) /\ shares[h] > 0
      BY <1>2, <1>4 DEF RedeemFromVault, HoldingsTyped
    <2>2. n \in Nat /\ Value(n) \in Nat  BY <1>2, FloorBounds DEF Value
    <2>3. QED  BY <2>1, <2>2, PayOutKeepsBooks
  <1>5. ASSUME UNCHANGED <<shares, principal, wallet>>
        PROVE  HoldingsTyped' /\ BasisGoesWithShares'
    BY <1>5 DEF HoldingsTyped, BasisGoesWithShares
  <1>6. ASSUME NEW h \in Shareholders, NEW n \in WrapperAmounts, Deposit(h, n)
        PROVE  HoldingsTyped' /\ BasisGoesWithShares'
    BY <1>6, DepositKeepsBooks
  <1>7. ASSUME NEW h \in Shareholders, NEW to \in Shareholders, NEW n \in WrapperAmounts,
               TransferShares(h, to, n)
        PROVE  HoldingsTyped' /\ BasisGoesWithShares'
    BY <1>2, <1>7, TransferKeepsBooks
  <1>8. ASSUME \/ \E r \in AdminRates : SetExchangeRate(r)
               \/ MigrateReserveIndex \/ PoolAccrues \/ PoolReindexes
               \/ UNCHANGED wrapperVars
        PROVE  HoldingsTyped' /\ BasisGoesWithShares'
    BY <1>5, <1>8
       DEF SetExchangeRate, MigrateReserveIndex, PoolAccrues, PoolReindexes,
           wrapperVars, books
  <1>9. HoldingsTyped' /\ BasisGoesWithShares'
    BY <1>3, <1>4, <1>6, <1>7, <1>8 DEF WrapperNext
  <1>10. QED  BY <1>1, <1>9

LEMMA BooksInit == WrapperInit => WrapperInv
  BY WadAssumption, PoolAssumption, WrapperAssumption
     DEF WrapperInit, PoolInit, WrapperInv, RateTyped, HoldingsTyped, BasisGoesWithShares

\* However shares are split up, moved and redeemed, a holder left without any
\* has no cost basis left: the roundings of the parts never strand a remainder
\* (move_balance, redeem).
THEOREM BasisFollowsShares == WrapperSpec => []BasisGoesWithShares
  <1>1. WrapperInv => BasisGoesWithShares  BY DEF WrapperInv
  <1>2. QED  BY <1>1, BooksInit, BooksStep, PTL DEF WrapperSpec

-----------------------------------------------------------------------------
(* What a redemption costs, and whom.                                      *)

\* Rounded up by less than a unit.
LEMMA CeilTight ==
  ASSUME NEW a \in Nat, NEW b \in Nat, NEW c \in Nat \ {0}
  PROVE  MulDivCeil(a, b, c) * c < a * b + c
  <1> DEFINE n == a * b
             m == n + c - 1
             q == m \div c
  <1>1. n \in Nat  BY ProductInNat
  <1> HIDE DEF n
  <1>2. m \in Nat  BY <1>1
  <1>3. m = n + c - 1  OBVIOUS
  <1> HIDE DEF m
  <1>4. q \in Nat /\ c * q <= m  BY <1>2, DivBounds
  <1> HIDE DEF q
  <1>5. q * c = c * q /\ c * q \in Nat  BY <1>4, SMT
  <1>6. q * c < n + c  BY <1>1, <1>3, <1>4, <1>5
  <1>7. QED  BY <1>6 DEF n, m, q, MulDivCeil

\* A withdrawal leaves the position worth what it was less the payment, up to
\* the fraction of a bToken Blend keeps and the unit the valuation drops.
LEMMA PositionKeeps ==
  ASSUME RateTyped, NEW amount \in Nat, NEW released \in Released(amount),
         Withdraw(amount, released), bRate' = bRate
  PROVE  /\ AUM' \in Nat
         /\ (AUM - released) * SC < (AUM' + 1) * SC + bRate
  <1>1. /\ SC \in Nat \ {0} /\ bRate \in Nat \ {0} /\ bTokens \in Nat
    BY PoolAssumption DEF RateTyped
  <1>2. released \in Nat /\ bTokens' \in Nat  BY PositionCovers
  <1>3. AUM' = MulDivFloor(bTokens', bRate, SC) /\ AUM = MulDivFloor(bTokens, bRate, SC)
    BY DEF AUM, Worth
  <1>4. /\ AUM' \in Nat /\ bTokens' * bRate < AUM' * SC + SC
        /\ AUM \in Nat /\ AUM * SC <= bTokens * bRate
    BY <1>1, <1>2, <1>3, FloorBounds
  <1> DEFINE v == AUM
             w == AUM'
             b == bTokens
             c == bTokens'
             k == BurnedFor(released)
  <1>t. w \in Nat  BY <1>4
  <1> HIDE DEF w
  <1>5. (w + 1) * SC = w * SC + SC /\ w * SC \in Nat  BY <1>1, <1>t, SMT
  <1> USE DEF w
  <1>6. CASE BurnedFor(amount) > bTokens /\ released = MulDivFloor(bTokens, bRate, SC)
    <2>1. AUM - released = 0  BY <1>3, <1>4, <1>6
    <2>2. (AUM - released) * SC = 0  BY <1>1, <2>1, SMT
    <2>3. QED  BY <1>1, <1>4, <1>5, <2>2
  <1>7. CASE ~(BurnedFor(amount) > bTokens /\ released = MulDivFloor(bTokens, bRate, SC))
    <2>1. c = b - k  BY <1>7 DEF Withdraw
    <2>2. k \in Nat /\ k * bRate < released * SC + bRate
      BY <1>1, <1>2, CeilBounds, CeilTight DEF BurnedFor
    <2>3. /\ v \in Nat /\ v * SC <= b * bRate /\ c * bRate < w * SC + SC
          /\ b \in Nat /\ c \in Nat
      BY <1>1, <1>2, <1>4
    <2> HIDE DEF v, w, b, c, k
    <2>4. c * bRate = b * bRate - k * bRate  BY <1>1, <2>1, <2>2, <2>3, SMT
    <2>5. (v - released) * SC = v * SC - released * SC  BY <1>1, <1>2, <2>3, SMT
    <2>6. /\ v * SC \in Nat /\ released * SC \in Nat /\ b * bRate \in Nat
          /\ k * bRate \in Nat /\ w * SC \in Nat
      BY <1>1, <1>2, <1>5, <2>2, <2>3, ProductInNat
    <2>7. (v - released) * SC < w * SC + SC + bRate
      BY <1>1, <2>2, <2>3, <2>4, <2>5, <2>6
    <2>8. (v - released) * SC < (w + 1) * SC + bRate  BY <1>5, <2>7
    <2>9. QED  BY <1>4, <2>8 DEF v, w
  <1>8. QED  BY <1>6, <1>7

\* The same over integers: a short wrapper may have issued more than it holds.
LEMMA IntMonotone ==
  ASSUME NEW a \in Int, NEW b \in Int, NEW c \in Nat, a <= b
  PROVE  a * c <= b * c
  BY SMT

\* Adding up what a redemption may cost those who stay: e is the share a short
\* payout may leave unburned.
LEMMA CostOfRedemption ==
  ASSUME RateTyped, Blend, NEW paid \in Nat, NEW burned \in Nat, NEW e \in Nat,
         paid * WAD <= burned * Rate + e,
         supply' = supply - burned, AUM' \in Nat,
         (AUM - paid) * SC < (AUM' + 1) * SC + bRate
  PROVE  supply' * Rate * SC < (AUM' + 1) * WAD * SC + bRate * WAD + e * SC
  <1> DEFINE r == Rate
             v == AUM
             w == AUM' + 1
             s == supply'
  <1>t. AUM \in Nat /\ Rate \in Nat /\ supply \in Int
    BY RateInNat DEF RateTyped, Worth
  <1>u. w \in Nat \ {0}
    <2>1. AUM' \in Nat  OBVIOUS
    <2>2. \A i \in Nat : i + 1 \in Nat \ {0}  OBVIOUS
    <2>3. QED  BY <2>1, <2>2
  <1>v. s \in Int  BY <1>t
  <1>1. /\ SC \in Nat \ {0} /\ WAD \in Nat \ {0} /\ bRate \in Nat \ {0}
        /\ v \in Nat /\ r \in Nat /\ supply \in Int /\ w \in Nat \ {0} /\ s \in Int
    BY <1>t, <1>u, <1>v, PoolAssumption, WadAssumption DEF RateTyped
  <1>p. /\ w * WAD * SC \in Nat \ {0} /\ bRate * WAD \in Nat /\ e * SC \in Nat
    <2> HIDE DEF w
    <2>1. w * WAD \in Nat \ {0}  BY <1>1, SMT
    <2> DEFINE x == w * WAD
    <2> HIDE DEF x
    <2>2. x \in Nat \ {0}  BY <2>1 DEF x
    <2>3. x * SC \in Nat \ {0}  BY <1>1, <2>2, SMT
    <2>4. QED  BY <1>1, <2>3, ProductInNat DEF x
  <1>2. CASE supply <= 0
    <2>1. s <= 0  BY <1>1, <1>2
    <2> HIDE DEF s, w, r, v
    <2>2. s * r <= 0 * r  BY <1>1, <2>1, IntMonotone
    <2>3. 0 * r = 0 /\ 0 * SC = 0 /\ s * r \in Int  BY <1>1, SMT
    <2>4. (s * r) * SC <= 0 * SC  BY <1>1, <2>2, <2>3, IntMonotone
    <2>5. (s * r) * SC \in Int  BY <1>1, <2>3, SMT
    <2>6. s * r * SC < w * WAD * SC + bRate * WAD + e * SC  BY <1>p, <2>3, <2>4, <2>5
    <2>7. QED  BY <2>6 DEF s, w, r, v
  <1>3. CASE supply > 0
    <2>1. supply \in Nat \ {0} /\ r = MulDivFloor(v, WAD, supply)
      BY <1>1, <1>3 DEF DerivedRate, Rate
    <2>2. r * supply <= v * WAD  BY <1>1, <2>1, FloorBounds
    <2>3. s = supply - burned /\ paid * WAD <= burned * r + e
          /\ (v - paid) * SC < w * SC + bRate
      OBVIOUS
    <2> HIDE DEF s, w, r, v
    <2>4. s * r = r * supply - burned * r  BY <1>1, <2>1, <2>3, SMT
    <2>5. (v - paid) * WAD = v * WAD - paid * WAD  BY <1>1, SMT
    <2>6. /\ r * supply \in Nat /\ burned * r \in Nat /\ v * WAD \in Nat
          /\ paid * WAD \in Nat
      BY <1>1, <2>1, ProductInNat
    <2> DEFINE y == (v - paid) * WAD
    <2>7. y \in Int /\ s * r \in Int /\ s * r <= y + e
      BY <2>2, <2>3, <2>4, <2>5, <2>6
    <2> HIDE DEF y
    <2>8. (s * r) * SC <= (y + e) * SC  BY <1>1, <2>7, IntMonotone
    <2>9. (y + e) * SC = y * SC + e * SC /\ y * SC \in Int  BY <1>1, <2>7, SMT
    <2>10. y * SC < w * WAD * SC + bRate * WAD
      <3> DEFINE z == (v - paid) * SC
                 g == w * SC + bRate
      <3>1. z \in Int /\ w * SC \in Int  BY <1>1, SMT
      <3>2. g \in Int /\ z + 1 <= g  BY <1>1, <2>3, <3>1
      <3>3. y * SC = z * WAD  BY <1>1, SMT DEF y
      <3>4. g * WAD = w * WAD * SC + bRate * WAD  BY <1>1, SMT
      <3> HIDE DEF z, g
      <3>5. (z + 1) * WAD <= g * WAD  BY <1>1, <3>1, <3>2, IntMonotone
      <3>6. (z + 1) * WAD = z * WAD + WAD /\ z * WAD \in Int /\ g * WAD \in Int
        BY <1>1, <3>1, <3>2, SMT
      <3>7. QED  BY <1>1, <3>3, <3>4, <3>5, <3>6
    <2>11. s * r * SC < w * WAD * SC + bRate * WAD + e * SC
      <3>1. (s * r) * SC \in Int  BY <1>1, <2>7, SMT
      <3>2. QED  BY <1>p, <2>8, <2>9, <2>10, <3>1
    <2>12. QED  BY <2>11 DEF s, w, r, v
  <1>4. supply <= 0 \/ supply > 0  BY <1>t
  <1> HIDE DEF s, w, r, v
  <1>5. QED  BY <1>2, <1>3, <1>4

\* Only a redemption pays underlying out to a holder.
LEMMA PayingSteps ==
  ASSUME WrapperInv, [WrapperNext]_wrapperVars, NEW h \in Shareholders,
         wallet'[h] - wallet[h] > 0
  PROVE  \/ \E n \in WrapperAmounts : RedeemFromBlend(h, n)
         \/ \E n \in WrapperAmounts : RedeemFromVault(h, n)
  <1>1. wallet \in [Shareholders -> Nat]  BY DEF WrapperInv, HoldingsTyped
  <1>2. wallet' # wallet  BY <1>1
  <1>3. ASSUME NEW a \in Shareholders, NEW n \in WrapperAmounts, Deposit(a, n)
        PROVE  FALSE
    <2>1. n \in Nat /\ wallet' = [wallet EXCEPT ![a] = @ - n]
      BY <1>3, WrapperAssumption DEF Deposit
    <2>2. QED  BY <1>1, <2>1
  <1>4. ASSUME NEW a \in Shareholders, NEW n \in WrapperAmounts,
               RedeemFromBlend(a, n) \/ RedeemFromVault(a, n)
        PROVE  a = h
    <2>1. PICK out : wallet' = [wallet EXCEPT ![a] = @ + out]
      BY <1>4 DEF RedeemFromBlend, RedeemFromVault, PayOut
    <2>2. QED  BY <1>1, <2>1
  <1>5. QED
    BY <1>2, <1>3, <1>4
       DEF WrapperNext, TransferShares, SetExchangeRate, MigrateReserveIndex, PoolAccrues,
           PoolReindexes, wrapperVars

\* What the redeemer gave and got.
LEMMA PayOutMoves ==
  ASSUME HoldingsTyped, NEW h \in Shareholders, NEW n \in Nat, NEW out \in Nat,
         PayOut(h, n, out)
  PROVE  /\ shares[h] - shares'[h] = n /\ wallet'[h] - wallet[h] = out
         /\ supply' = supply - n /\ bRate' = bRate
  BY DEF PayOut, HoldingsTyped

\* A redeemer is charged what the payout is worth: never a share more, also
\* when Blend pays short (redeem).
THEOREM RedeemersAreChargedFairly == WrapperSpec => ChargedForThePayout
  <1>1. WrapperInv /\ [WrapperNext]_wrapperVars
          => [\A h \in Shareholders :
                LET burned == shares[h] - shares'[h]
                    paid   == wallet'[h] - wallet[h]
                IN  paid > 0 => burned * Rate < (paid + 1) * WAD]_wrapperVars
    <2> SUFFICES ASSUME WrapperInv, [WrapperNext]_wrapperVars, NEW h \in Shareholders,
                        wallet'[h] - wallet[h] > 0
                 PROVE  (shares[h] - shares'[h]) * Rate
                          < (wallet'[h] - wallet[h] + 1) * WAD
      OBVIOUS
    <2> USE DEF WrapperInv
    <2>1. WAD \in Nat \ {0} /\ Rate \in Nat /\ WrapperAmounts \subseteq Nat
      BY WadAssumption, WrapperAssumption, RateInNat
    <2>2. ASSUME NEW n \in WrapperAmounts, RedeemFromBlend(h, n)
          PROVE  (shares[h] - shares'[h]) * Rate < (wallet'[h] - wallet[h] + 1) * WAD
      <3>1. PICK received \in Nat \ {0}, burned \in Nat :
              PayOut(h, burned, received) /\ burned * Rate < (received + 1) * WAD
        BY <2>2, RedeemFacts
      <3>2. shares[h] - shares'[h] = burned /\ wallet'[h] - wallet[h] = received
        BY <3>1, PayOutMoves
      <3>3. QED  BY <3>1, <3>2
    <2>3. ASSUME NEW n \in WrapperAmounts, RedeemFromVault(h, n)
          PROVE  (shares[h] - shares'[h]) * Rate < (wallet'[h] - wallet[h] + 1) * WAD
      <3> DEFINE out == Value(n)
      <3>1. PayOut(h, n, out) /\ n \in Nat  BY <2>1, <2>3 DEF RedeemFromVault
      <3>2. out \in Nat /\ n * Rate < out * WAD + WAD  BY <2>1, <3>1, FloorBounds DEF Value
      <3> HIDE DEF out
      <3>3. (out + 1) * WAD = out * WAD + WAD  BY <2>1, <3>2, SMT
      <3>4. shares[h] - shares'[h] = n /\ wallet'[h] - wallet[h] = out
        BY <3>1, <3>2, PayOutMoves
      <3>5. QED  BY <3>2, <3>3, <3>4
    <2>4. QED  BY <2>2, <2>3, PayingSteps
  <1>2. QED  BY <1>1, BooksInit, BooksStep, PTL DEF WrapperSpec, ChargedForThePayout

\* A redemption out of Blend costs the holders who stay no more than the two
\* roundings and, when the pool pays short, one share's worth (redeem).
THEOREM StayersKeepTheirValue == WrapperSpec => RemainingKeepTheirValue
  <1>1. WrapperInv /\ [WrapperNext]_wrapperVars
          => [\A h \in Shareholders :
                LET paid  == wallet'[h] - wallet[h]
                    short == paid # Value(shares[h] - shares'[h])
                IN  Blend /\ paid > 0 =>
                      supply' * Rate * SC < (AUM' + 1) * WAD * SC + bRate * WAD
                                            + (IF short THEN Rate * SC ELSE 0)]_wrapperVars
    <2> SUFFICES ASSUME WrapperInv, [WrapperNext]_wrapperVars, NEW h \in Shareholders,
                        Blend, wallet'[h] - wallet[h] > 0
                 PROVE  supply' * Rate * SC < (AUM' + 1) * WAD * SC + bRate * WAD
                          + (IF wallet'[h] - wallet[h] # Value(shares[h] - shares'[h])
                               THEN Rate * SC ELSE 0)
      OBVIOUS
    <2> USE DEF WrapperInv
    <2>1. PICK n \in WrapperAmounts : RedeemFromBlend(h, n)
      BY PayingSteps DEF RedeemFromVault
    <2>2. PICK paid \in Nat \ {0}, burned \in Nat :
            /\ paid \in Released(Value(n)) /\ Withdraw(Value(n), paid)
            /\ Value(n) \in Nat
            /\ PayOut(h, burned, paid)
            /\ \/ paid * WAD <= burned * Rate
               \/ paid # Value(burned) /\ paid * WAD < burned * Rate + Rate
      BY <2>1, RedeemFacts
    <2>3. /\ shares[h] - shares'[h] = burned /\ wallet'[h] - wallet[h] = paid
          /\ supply' = supply - burned /\ bRate' = bRate
      BY <2>2, PayOutMoves
    <2>4. AUM' \in Nat /\ (AUM - paid) * SC < (AUM' + 1) * SC + bRate
      BY <2>2, <2>3, PositionKeeps
    <2>5. /\ SC \in Nat /\ Rate \in Nat /\ paid * WAD \in Nat /\ burned * Rate \in Nat
          /\ Rate * SC \in Nat /\ 0 * SC = 0
      <3>1. SC \in Nat /\ Rate \in Nat /\ WAD \in Nat
        BY PoolAssumption, WadAssumption, RateInNat
      <3>2. QED  BY <3>1, ProductInNat, SMT
    <2>6. CASE paid * WAD <= burned * Rate
      <3>1. paid * WAD <= burned * Rate + 0  BY <2>5, <2>6
      <3>2. supply' * Rate * SC < (AUM' + 1) * WAD * SC + bRate * WAD + 0 * SC
        BY <2>3, <2>4, <3>1, CostOfRedemption
      <3> DEFINE x == supply' * Rate * SC
                 y == (AUM' + 1) * WAD * SC + bRate * WAD
      <3>3. x \in Int /\ y \in Int
        <4>1. supply' \in Int /\ WAD \in Int /\ bRate \in Int /\ SC \in Int
              /\ Rate \in Int /\ AUM' \in Int
          BY <2>3, <2>4, <2>5, WadAssumption DEF RateTyped
        <4>2. QED  BY <4>1, SMT
      <3>4. x < y + 0  BY <2>5, <3>2
      <3> HIDE DEF x, y
      <3>5. x < y + (IF wallet'[h] - wallet[h] # Value(shares[h] - shares'[h])
                       THEN Rate * SC ELSE 0)
        BY <2>5, <3>3, <3>4
      <3>6. QED  BY <3>5 DEF x, y
    <2>7. CASE paid # Value(burned) /\ paid * WAD < burned * Rate + Rate
      <3>1. paid * WAD <= burned * Rate + Rate  BY <2>5, <2>7
      <3>2. supply' * Rate * SC < (AUM' + 1) * WAD * SC + bRate * WAD + Rate * SC
        BY <2>3, <2>4, <2>5, <3>1, CostOfRedemption
      <3>3. wallet'[h] - wallet[h] # Value(shares[h] - shares'[h])  BY <2>3, <2>7
      <3>4. QED  BY <3>2, <3>3
    <2>8. QED  BY <2>2, <2>6, <2>7
  <1>2. QED  BY <1>1, BooksInit, BooksStep, PTL DEF WrapperSpec, RemainingKeepTheirValue
=============================================================================
