-------------------------------- MODULE Amm --------------------------------
(***************************************************************************)
(* The PT/SY market: reserves, LP shares, the four swaps and the flash     *)
(* split and recombine behind the YT routes.  The curve is abstracted to   *)
(* the exchange rate (PT per SY, at least WAD) it quotes for a trade: any  *)
(* member of Prices, independently each time.  A call that traps changes   *)
(* nothing; the min_out arguments only add traps and are left out.         *)
(***************************************************************************)
EXTENDS Twap, FiniteSets

CONSTANTS
  Holders,       \* traders and liquidity providers
  Endowment,     \* the PT, SY and YT each of them starts with
  Amounts,       \* amounts they pass to the entrypoints
  Prices,        \* exchange rates the curve may quote
  FeeBps, Bps,   \* config.fee_bps and BPS_DENOMINATOR
  MinLiq,        \* MINIMUM_LIQUIDITY
  MaxReserve,    \* MAX_RESERVE_UNITS
  SyRates        \* values of the SY exchange rate

ASSUME AmmAssumption ==
  /\ Endowment \in [pt : Nat, sy : Nat, yt : Nat]
  /\ Amounts \subseteq Nat
  /\ Prices # {} /\ Prices \subseteq Nat /\ \A x \in Prices : x >= WAD
  /\ FeeBps \in Nat /\ Bps \in Nat /\ FeeBps < Bps
  /\ MinLiq \in Nat /\ MaxReserve \in Nat
  /\ SyRates \subseteq Nat \ {0}

VARIABLES
  totalPt, totalSy, totalLp,   \* the reserves and LP supply in State
  lp,                          \* DataKey::LpBalance
  pool,                        \* the tokens the AMM's address really holds
  wallet,                      \* what each holder holds
  rate                         \* exchange_rate() of SY

vars == <<totalPt, totalSy, totalLp, lp, pool, wallet, rate, now, twapVars>>

Init ==
  /\ TwapInit
  /\ totalPt = 0 /\ totalSy = 0 /\ totalLp = 0
  /\ lp = [h \in Holders |-> 0]
  /\ pool = [pt |-> 0, sy |-> 0, yt |-> 0]
  /\ wallet = [h \in Holders |-> Endowment]
  /\ rate \in SyRates

\* require_bounded_amount, require_live, require_seeded
Bounded(n) == n > 0 /\ n <= MaxReserve
Seeded     == totalLp > 0 /\ totalPt > 0 /\ totalSy > 0
Trading(n) == Bounded(n) /\ Live /\ Seeded

\* integer_sqrt
Isqrt(n) == Cardinality({r \in 1..n : r * r <= n})

Tokens(p, s, y) == [pt |-> p, sy |-> s, yt |-> y]
Nothing         == Tokens(0, 0, 0)
Plus(a, b)      == [t \in DOMAIN a |-> a[t] + b[t]]
Minus(a, b)     == [t \in DOMAIN a |-> a[t] - b[t]]

\* h hands `given' to the pool and gets `got'; meanwhile the pool trades with
\* the tokenizer, giving `burned' and getting `made'.
Flash(h, given, made, burned, got) ==
  /\ \A t \in DOMAIN given : given[t] <= wallet[h][t]
  /\ wallet' = [wallet EXCEPT ![h] = Plus(Minus(@, given), got)]
  /\ pool' = Minus(Plus(Plus(pool, given), made), Plus(burned, got))

Exchange(h, given, got) == Flash(h, given, Nothing, Nothing, got)

\* reconcile_reserves: the reserves are whatever the pool's address holds.
Reconcile == totalPt' = pool'.pt /\ totalSy' = pool'.sy

----------------------------------------------------------------------------
\* Quotes at exchange rate x, the fee rounded against the trader.

\* SY paid for n PT, exact_pt_in_sy_out
SyForPtIn(n, x) ==
  LET gross == MulDivFloor(n, WAD, x) IN gross - MulDivFloor(gross, FeeBps, Bps)

\* Mutant of SyForPtOut: rounded in the trader's favour.
SyForPtOutDown(n, x) ==
  LET gross == MulDivFloor(n, WAD, x) IN gross + MulDivFloor(gross, FeeBps, Bps)

\* SY asked for n PT, exact_pt_out_sy_in
SyForPtOut(n, x) ==
  LET gross == MulDivCeil(n, WAD, x) IN gross + MulDivCeil(gross, FeeBps, Bps)

\* The curve takes n PT in at x: what it pays leaves some SY behind.
CurveBuys(n, x) ==
  /\ SyForPtIn(n, x) > 0 /\ SyForPtIn(n, x) < totalSy
  /\ totalPt + n <= MaxReserve

\* The curve gives n PT out at x for `paid' SY.
CurveSells(n, x, paid) ==
  /\ n > 0 /\ n < totalPt
  /\ SyForPtOut(n, x) <= paid
  /\ totalSy + paid <= MaxReserve

----------------------------------------------------------------------------
\* Liquidity

AddFirstLiquidity(h, p, s, r) ==
  /\ Bounded(p) /\ Bounded(s) /\ Live
  /\ totalLp = 0
  /\ Isqrt(p * s) > MinLiq
  /\ totalLp' = Isqrt(p * s)
  /\ lp' = [lp EXCEPT ![h] = @ + Isqrt(p * s) - MinLiq]
  /\ Exchange(h, Tokens(p, s, 0), Nothing)
  /\ Reconcile
  /\ OpenAt(r)
  /\ UNCHANGED <<rate, now>>

\* Mutant of UsedFor: rounded in the depositor's favour.
UsedForDown(total, minted) == MulDivFloor(total, minted, totalLp)

\* What a deposit really takes for the LP shares it mints, rounded up.
UsedFor(total, minted) == MulDivCeil(total, minted, totalLp)

\* add_liquidity to a pool that has LP shares
AddLiquidity(h, p, s) ==
  /\ Bounded(p) /\ Bounded(s) /\ Live
  /\ totalLp > 0 /\ totalPt > 0 /\ totalSy > 0
  /\ LET minted == Least(MulDivFloor(p, totalLp, totalPt), MulDivFloor(s, totalLp, totalSy))
         ptUsed == UsedFor(totalPt, minted)
         syUsed == UsedFor(totalSy, minted)
     IN  /\ minted > 0
         /\ totalPt + ptUsed <= MaxReserve /\ totalSy + syUsed <= MaxReserve
         /\ totalLp' = totalLp + minted
         /\ lp' = [lp EXCEPT ![h] = @ + minted]
         /\ Exchange(h, Tokens(ptUsed, syUsed, 0), Nothing)
  /\ Reconcile
  /\ UNCHANGED <<rate, now, twapVars>>

\* The part of a reserve n LP shares redeem, rounded down.
ShareOf(total, n) == MulDivFloor(total, n, totalLp)

\* A holder's own shares, and never all of them.
MayLeave(h, n) == n <= lp[h] /\ n < totalLp

\* remove_liquidity, after maturity too
RemoveLiquidity(h, n) ==
  /\ Bounded(n) /\ Seeded
  /\ MayLeave(h, n)
  /\ ShareOf(totalPt, n) > 0 \/ ShareOf(totalSy, n) > 0
  /\ totalLp' = totalLp - n
  /\ lp' = [lp EXCEPT ![h] = @ - n]
  /\ Exchange(h, Nothing, Tokens(ShareOf(totalPt, n), ShareOf(totalSy, n), 0))
  /\ Reconcile
  /\ UNCHANGED <<rate, now, twapVars>>

----------------------------------------------------------------------------
\* Swaps

\* What every trade ends with: settle_and_record.
Settle(r) == Reconcile /\ Observe(r) /\ UNCHANGED <<totalLp, lp, rate, now>>

SwapPtForSy(h, n, x, r) ==
  /\ Trading(n)
  /\ CurveBuys(n, x)
  /\ Exchange(h, Tokens(n, 0, 0), Tokens(0, SyForPtIn(n, x), 0))
  /\ Settle(r)

\* The solver finds some amount of PT the SY pays for.
SwapSyForPt(h, s, out, x, r) ==
  /\ Trading(s)
  /\ CurveSells(out, x, s)
  /\ Exchange(h, Tokens(0, s, 0), Tokens(out, 0, 0))
  /\ Settle(r)

\* What the tokenizer mints for shares, and pays for a pair while its escrow
\* covers PT at face.
Minted(shares) == MulDivFloor(shares, rate, WAD)
Paid(face)     == MulDivFloor(face, WAD, rate)

\* The shares to split for a face, and the shares to budget for a pair.
SharesIn(face)  == MulDivCeil(face, WAD, rate)
SharesOut(face) == MulDivFloor(face, WAD, rate)

\* solve_yt_out: the buyer's SY and the curve's payment for the PT leg fund
\* the split.
AffordsFlash(face, s, funded) == funded < SharesIn(face) /\ SharesIn(face) <= s + funded

\* Buy YT: the pool splits SY, keeps the PT and the rounding's YT, and gives
\* the buyer the YT quoted.
SwapSyForYt(h, s, out, x, r) ==
  /\ Trading(s)
  /\ out > 0
  /\ CurveBuys(out, x)
  /\ AffordsFlash(out, s, SyForPtIn(out, x))
  /\ out <= Minted(SharesIn(out))
  /\ LET face == Minted(SharesIn(out))
     IN  Flash(h, Tokens(0, s, 0), Tokens(face, 0, face), Tokens(0, SharesIn(out), 0),
               Tokens(0, 0, out))
  /\ Settle(r)

\* Sell YT: the pool recombines it with PT of its own and pays the seller what
\* is left of the SY after the curve's price for that PT.
SwapYtForSy(h, n, x, r) ==
  /\ Trading(n)
  /\ n < totalPt
  /\ SyForPtOut(n, x) < SharesOut(n)
  /\ CurveSells(n, x, SyForPtOut(n, x))
  /\ Paid(n) >= SharesOut(n)
  /\ Flash(h, Tokens(0, 0, n), Tokens(0, Paid(n), 0), Tokens(n, 0, n),
           Tokens(0, SharesOut(n) - SyForPtOut(n, x), 0))
  /\ Settle(r)
----------------------------------------------------------------------------

\* Anyone may send the pool tokens; its books learn of them at the next call.
Donate(h, given) ==
  /\ Exchange(h, given, Nothing)
  /\ UNCHANGED <<totalPt, totalSy, totalLp, lp, rate, now, twapVars>>

SyAccrues(k) ==
  /\ k > rate /\ rate' = k
  /\ UNCHANGED <<totalPt, totalSy, totalLp, lp, pool, wallet, now, twapVars>>

Tick ==
  /\ now < MaxTime /\ now' = now + 1
  /\ UNCHANGED <<totalPt, totalSy, totalLp, lp, pool, wallet, rate, twapVars>>

Next ==
  \/ \E h \in Holders, n, m \in Amounts :
       \/ \E r \in LnRates : AddFirstLiquidity(h, n, m, r)
       \/ AddLiquidity(h, n, m)
  \/ \E h \in Holders, n \in Amounts : RemoveLiquidity(h, n)
  \/ \E h \in Holders, n \in Amounts, x \in Prices, r \in LnRates :
       \/ SwapPtForSy(h, n, x, r)
       \/ SwapYtForSy(h, n, x, r)
       \/ \E out \in 1..totalPt : SwapSyForPt(h, n, out, x, r)
       \/ \E out \in Amounts : SwapSyForYt(h, n, out, x, r)
  \/ \E h \in Holders : Donate(h, Tokens(1, 1, 0))
  \/ \E k \in SyRates : SyAccrues(k)
  \/ Tick

Spec == Init /\ [][Next]_vars

----------------------------------------------------------------------------

\* The pool's reserves valued at exchange rate x, in PT.
Value(x) == totalSy * x + totalPt * WAD

\* An LP share never loses: whatever is traded, added or removed, at some
\* price the curve quotes the reserves per LP share are worth no less than
\* before.  Every fee and rounding, of the trades, of the flash split and
\* recombine and of the two sides of a deposit, falls on the caller
\* (apply_exact_*, add_liquidity, remove_liquidity).
LpShareNeverLoses ==
  [][\E x \in Prices : Value(x)' * totalLp >= Value(x) * totalLp']_vars

\* Adding or removing liquidity leaves every other provider's part of each
\* reserve as it was or larger (add_liquidity, remove_liquidity).
LiquidityIsProRata ==
  [][totalLp # 0 /\ totalLp' # totalLp =>
       totalPt' * totalLp >= totalPt * totalLp' /\ totalSy' * totalLp >= totalSy * totalLp']_vars

Abs(n) == IF n < 0 THEN -n ELSE n

\* While readers may trust the average, one trade moves it by at most the part
\* of the window that passed since the trade before it, and never decides it
\* (sync_twap).
TrustedTwapMovesSlowly ==
  [][~WarmingUp' /\ totalLp > 0 =>
       Abs(twap' - twap) * Window
         <= Abs(lastLnRate' - twap) * Least(now - lastObs, Window - 1) + 2 * Window]_vars
=============================================================================
