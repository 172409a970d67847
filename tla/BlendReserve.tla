---------------------------- MODULE BlendReserve ----------------------------
(***************************************************************************)
(* A Blend reserve as the SDK reads it: users of the pool (external)       *)
(* supply, borrow, repay and withdraw, interest accrues, a bad debt is     *)
(* written off the suppliers, and the app computes its figures from the    *)
(* state of the moment with the SDK's arithmetic.                          *)
(***************************************************************************)
EXTENDS BlendRates

CONSTANTS
  Curve,        \* the reserve's interest rate curve
  BstopRate,    \* the backstop's take
  Modifiers,    \* values the pool's rate modifier takes
  Amounts,      \* amounts users move
  Growth,       \* by how much the indexes move when interest accrues
  MaxTokens     \* bound of the run

ASSUME ReserveAssumption ==
  /\ Curve \in Curves /\ BstopRate \in 0 .. BLEND_SCALAR_7
  /\ Modifiers \subseteq Nat /\ Modifiers # {} /\ Amounts \subseteq Nat \ {0}
  /\ Growth \subseteq Nat \ {0} /\ MaxTokens \in Nat

VARIABLES
  reserve,   \* reserve.data
  held       \* a holder's bTokens: [supply, collateral]

Buckets == {"supply", "collateral"}
blendVars == <<reserve, held>>

BlendInit ==
  /\ reserve = [bRate |-> BLEND_SCALAR_12, bSupply |-> 0, dRate |-> BLEND_SCALAR_12, dSupply |-> 0,
                irMod |-> BLEND_SCALAR_7]
  /\ held = [b \in Buckets |-> 0]

\* The pool rounds in its own favour.
Credited(n)   == MulDivFloor(n, BLEND_SCALAR_12, reserve.bRate)
BurnedFor(n)  == MulDivCeil(n, BLEND_SCALAR_12, reserve.bRate)
Owed(n)       == MulDivCeil(n, BLEND_SCALAR_12, reserve.dRate)

HolderSupplies(b, n) ==
  /\ reserve.bSupply + Credited(n) <= MaxTokens
  /\ reserve' = [reserve EXCEPT !.bSupply = @ + Credited(n)]
  /\ held' = [held EXCEPT ![b] = @ + Credited(n)]

OthersSupply(n) ==
  /\ reserve.bSupply + Credited(n) <= MaxTokens
  /\ reserve' = [reserve EXCEPT !.bSupply = @ + Credited(n)]
  /\ UNCHANGED held

OthersWithdraw(n) ==
  /\ BurnedFor(n) <= reserve.bSupply - held["supply"] - held["collateral"]
  /\ reserve' = [reserve EXCEPT !.bSupply = @ - BurnedFor(n)]
  /\ UNCHANGED held

Borrow(n) ==
  /\ reserve.dSupply + Owed(n) <= MaxTokens
  /\ reserve' = [reserve EXCEPT !.dSupply = @ + Owed(n)]
  /\ UNCHANGED held

Repay(n) ==
  /\ Owed(n) <= reserve.dSupply
  /\ reserve' = [reserve EXCEPT !.dSupply = @ - Owed(n)]
  /\ UNCHANGED held

\* Borrowers owe more, suppliers get a part of it; the modifier adapts.
Accrue(g) ==
  /\ reserve.dRate + g <= 2 * BLEND_SCALAR_12
  /\ \E b \in {0, g}, m \in Modifiers :
       reserve' = [reserve EXCEPT !.dRate = @ + g, !.bRate = @ + b, !.irMod = m]
  /\ UNCHANGED held

\* Bad debt leaves the reserve at the suppliers' cost.
WriteOff(g) ==
  /\ g < reserve.bRate /\ reserve.dSupply > 0
  /\ reserve' = [reserve EXCEPT !.bRate = @ - g, !.dSupply = 0]
  /\ UNCHANGED held

BlendNext ==
  \/ \E n \in Amounts : OthersSupply(n) \/ OthersWithdraw(n) \/ Borrow(n) \/ Repay(n)
  \/ \E n \in Amounts, b \in Buckets : HolderSupplies(b, n)
  \/ \E g \in Growth : Accrue(g) \/ WriteOff(g)

BlendSpec == BlendInit /\ [][BlendNext]_blendVars
-----------------------------------------------------------------------------
Index  == 0
Config == [index |-> Index, curve |-> Curve]
Rates  == blendRates(Config, reserve, BstopRate)

Map(n) == IF n = 0 THEN <<>> ELSE [i \in {Index} |-> n]
Shown  ==
  blendPositionFor(Config, reserve,
    [supply |-> Map(held["supply"]), collateral |-> Map(held["collateral"]), liabilities |-> <<>>])

\* The variable rate the app shows beside the fixed one is never above what
\* borrowers pay for it, whatever the utilization (blendSupplyApr: the estimate
\* never overstates; blendUtilization: capped at 1.0 as bad debt accrues).
SupplyAprIsPaidFor == Rates.supplyApr <= Rates.borrowApr

\* A withdrawal of the deposit as it was just read empties both buckets,
\* roundings and written-off debts included (tokenizeSteps' buildBlendWithdraw:
\* a bucket that is shown to be worth nothing stays).
DrainsBuckets ==
  /\ Shown.supplyValue > 0 => held["supply"] <= BurnedFor(WithdrawRequest(Shown.supplyValue))
  /\ Shown.collateralValue > 0 => held["collateral"] <= BurnedFor(WithdrawRequest(Shown.collateralValue))
=============================================================================
