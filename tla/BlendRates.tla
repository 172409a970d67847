----------------------------- MODULE BlendRates -----------------------------
(***************************************************************************)
(* The SDK's own copy of Blend's arithmetic: what bTokens and dTokens are  *)
(* worth, the utilization of a reserve, its three-slope rate curve and the *)
(* supply rate shown beside the market's fixed rate.  A reserve is what    *)
(* get_reserve returns, decoded.                                           *)
(***************************************************************************)
EXTENDS FixedPoint

CONSTANTS
  BLEND_SCALAR_7,    \* scale of rates and utilization
  BLEND_SCALAR_12,   \* scale of the cumulative indexes
  UTIL_BREAKPOINT    \* where the third slope begins

ASSUME BlendAssumption ==
  /\ BLEND_SCALAR_7 \in Nat \ {0} /\ BLEND_SCALAR_12 \in Nat \ {0}
  /\ UTIL_BREAKPOINT \in Nat /\ UTIL_BREAKPOINT < BLEND_SCALAR_7

\* A curve a pool accepts: the target lies below the breakpoint.
Curves ==
  {c \in [util : Nat \ {0}, rBase : Nat, rOne : Nat, rTwo : Nat, rThree : Nat] :
     c.util < UTIL_BREAKPOINT}

ReserveConfigs == [index : Nat, curve : Curves]
ReserveData    == [bRate : Nat \ {0}, bSupply : Nat, dRate : Nat \ {0}, dSupply : Nat, irMod : Nat]

mulCeil(a, b, scalar) == MulDivCeil(a, b, scalar)
divCeil(a, b, scalar) == MulDivCeil(a, scalar, b)

blendAssetsFromBTokens(bTokens, bRate) == MulDivFloor(bTokens, bRate, BLEND_SCALAR_12)
blendAssetsFromDTokens(dTokens, dRate) == MulDivFloor(dTokens, dRate, BLEND_SCALAR_12)

\* Mutant of blendUtilization: it is not capped when more is owed than supplied.
blendUtilizationUncapped(borrowed, supplied) ==
  IF borrowed <= 0 \/ supplied <= 0 THEN 0 ELSE divCeil(borrowed, supplied, BLEND_SCALAR_7)

blendUtilization(borrowed, supplied) ==
  IF borrowed <= 0 THEN 0
  ELSE IF borrowed >= supplied THEN BLEND_SCALAR_7
  ELSE divCeil(borrowed, supplied, BLEND_SCALAR_7)

\* How far u is from `from' to `to', of BLEND_SCALAR_7.
Along(u, from, to) == divCeil(u - from, to - from, BLEND_SCALAR_7)

blendBorrowApr(curve, u, irMod) ==
  LET S == BLEND_SCALAR_7 IN
  IF u <= curve.util
  THEN mulCeil(mulCeil(Along(u, 0, curve.util), curve.rOne, S) + curve.rBase, irMod, S)
  ELSE IF u <= UTIL_BREAKPOINT
  THEN mulCeil(mulCeil(Along(u, curve.util, UTIL_BREAKPOINT), curve.rTwo, S)
                 + curve.rOne + curve.rBase, irMod, S)
  ELSE mulCeil(Along(u, UTIL_BREAKPOINT, S), curve.rThree, S)
         + mulCeil(irMod, curve.rTwo + curve.rOne + curve.rBase, S)

blendSupplyApr(borrowApr, u, bstopRate) ==
  MulDivFloor(MulDivFloor(borrowApr, u, BLEND_SCALAR_7), BLEND_SCALAR_7 - bstopRate, BLEND_SCALAR_7)

blendRates(config, data, bstopRate) ==
  LET totalSupplied == blendAssetsFromBTokens(data.bSupply, data.bRate)
      totalBorrowed == blendAssetsFromDTokens(data.dSupply, data.dRate)
      utilization   == blendUtilization(totalBorrowed, totalSupplied)
      borrowApr     == blendBorrowApr(config.curve, utilization, data.irMod)
  IN  [utilization |-> utilization, borrowApr |-> borrowApr,
       supplyApr |-> blendSupplyApr(borrowApr, utilization, bstopRate),
       totalSupplied |-> totalSupplied, totalBorrowed |-> totalBorrowed]

\* A holder's maps, by reserve index; a missing key is no balance.
BalanceAt(tokens, index) == IF index \in DOMAIN tokens THEN tokens[index] ELSE 0

blendPositionFor(config, data, positions) ==
  LET value(tokens) == blendAssetsFromBTokens(BalanceAt(tokens, config.index), data.bRate)
  IN  [supplyValue |-> value(positions.supply),
       collateralValue |-> value(positions.collateral),
       underlyingValue |-> value(positions.supply) + value(positions.collateral),
       borrowedValue |->
         blendAssetsFromDTokens(BalanceAt(positions.liabilities, config.index), data.dRate)]

\* Mutant of WithdrawRequest: the value is asked for as it is shown.
WithdrawOfValue(value) == value

\* What the app asks the pool to withdraw of a bucket: past its shown value,
\* which is rounded down.
WithdrawRequest(value) == IF value > 0 THEN value + 1 ELSE 0
=============================================================================
