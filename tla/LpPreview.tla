----------------------------- MODULE LpPreview -----------------------------
(***************************************************************************)
(* The pool page's own arithmetic for a deposit and a withdrawal, and what *)
(* the pool contract computes for the same call (Amm.tla has the call      *)
(* itself); and the slippage tolerance the trade and pool pages share.  A  *)
(* pool is a record of its reserves and its LP supply.                     *)
(***************************************************************************)
EXTENDS FixedPoint

CONSTANTS
  BpsDenominator,
  Tolerances        \* SLIPPAGE_OPTIONS, in basis points

ASSUME BpsAssumption ==
  /\ BpsDenominator \in Nat \ {0}
  /\ Tolerances # {} /\ Tolerances \subseteq 0..BpsDenominator

applySlippage(out, slip) == MulDivFloor(out, BpsDenominator - slip, BpsDenominator)

\* The tolerance a page opens with.
DEFAULT_SLIPPAGE_BPS == CHOOSE s \in Tolerances : TRUE

Pools == [pt : Nat, sy : Nat, lp : Nat]

\* Mutant of mulDivUp: it truncates.
mulDivTruncated(a, b, c) == (a * b) \div c

mulDivUp(a, b, c) == ((a * b) \div c) + (IF (a * b) % c = 0 THEN 0 ELSE 1)

EmptyPool(pool) == pool.pt <= 0 \/ pool.sy <= 0 \/ pool.lp <= 0

zeroAddPreview(reason) ==
  [reason |-> reason, lpOut |-> 0, ptUsed |-> 0, syUsed |-> 0, ptUnused |-> 0, syUnused |-> 0,
   shareBpsAfter |-> 0]

zeroRemovePreview(reason) == [reason |-> reason, ptOut |-> 0, syOut |-> 0, shareBps |-> 0]

Excess(given, used) == IF given > used THEN given - used ELSE 0

LpFor(ptIn, syIn, pool) == Least((ptIn * pool.lp) \div pool.pt, (syIn * pool.lp) \div pool.sy)

previewAddLiquidity(ptIn, syIn, pool) ==
  IF ptIn <= 0 \/ syIn <= 0 THEN zeroAddPreview("invalid-input")
  ELSE IF EmptyPool(pool) THEN zeroAddPreview("empty-pool")
  ELSE LET lpOut  == LpFor(ptIn, syIn, pool)
           ptUsed == mulDivUp(pool.pt, lpOut, pool.lp)
           syUsed == mulDivUp(pool.sy, lpOut, pool.lp)
       IN  IF lpOut <= 0 THEN zeroAddPreview("insufficient-liquidity")
           ELSE [reason |-> "ok", lpOut |-> lpOut, ptUsed |-> ptUsed, syUsed |-> syUsed,
                 ptUnused |-> Excess(ptIn, ptUsed), syUnused |-> Excess(syIn, syUsed),
                 shareBpsAfter |-> (lpOut * BpsDenominator) \div (pool.lp + lpOut)]

previewRemoveLiquidity(lpIn, pool) ==
  IF lpIn <= 0 THEN zeroRemovePreview("invalid-input")
  ELSE IF EmptyPool(pool) THEN zeroRemovePreview("empty-pool")
  ELSE LET ptOut == (lpIn * pool.pt) \div pool.lp
           syOut == (lpIn * pool.sy) \div pool.lp
       IN  IF ptOut = 0 /\ syOut = 0 THEN zeroRemovePreview("insufficient-liquidity")
           ELSE [reason |-> "ok", ptOut |-> ptOut, syOut |-> syOut,
                 shareBps |-> (lpIn * BpsDenominator) \div pool.lp]

\* add_liquidity to a pool that has LP shares: what is minted, what is taken.
Mints(ptIn, syIn, pool) ==
  Least(MulDivFloor(ptIn, pool.lp, pool.pt), MulDivFloor(syIn, pool.lp, pool.sy))
Takes(total, minted, pool) == MulDivCeil(total, minted, pool.lp)

\* remove_liquidity: what LP shares redeem.
Redeems(total, n, pool) == MulDivFloor(total, n, pool.lp)
=============================================================================
