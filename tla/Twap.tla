-------------------------------- MODULE Twap --------------------------------
(***************************************************************************)
(* The AMM's record of implied rates: the last trade's rate, a time        *)
(* weighted average blended into at each trade, and the warm-up flag that  *)
(* tells readers not to trust the average yet.  Rates are ln-rates, WAD    *)
(* scaled, and stand for what the curve implies after a trade.             *)
(***************************************************************************)
EXTENDS FixedPoint

CONSTANTS
  LnRates,    \* rates a trade may leave behind
  Window,     \* config.twap_window
  Maturity,   \* config.maturity
  OpensAt,    \* times the market may be initialized at
  MaxTime     \* the clock stops here

ASSUME TwapAssumption ==
  /\ LnRates \subseteq Nat
  /\ Window \in Nat \ {0} /\ Maturity \in Nat \ {0} /\ MaxTime \in Nat
  /\ OpensAt \subseteq 0..MaxTime

VARIABLES
  now,           \* ledger timestamp
  lastLnRate,    \* state.last_ln_implied_rate
  twap,          \* state.twap_ln_implied_rate
  lastObs,       \* state.last_observation
  warmupUntil    \* state.warmup_until

twapVars == <<lastLnRate, twap, lastObs, warmupUntil>>

TwapInit ==
  /\ now \in OpensAt /\ lastObs = now /\ warmupUntil = now + Window
  /\ lastLnRate = 0 /\ twap = 0

Live == now < Maturity

\* twap_warming_up
WarmingUp == now < warmupUntil

\* The first liquidity sets the average to the pool's opening rate.
OpenAt(r) ==
  /\ lastLnRate' = r /\ twap' = r /\ lastObs' = now
  /\ UNCHANGED warmupUntil

\* The weight of an observation: the part of the window that has passed since
\* the one before it.
Weight(elapsed) == MulDivFloor(elapsed, WAD, Window)

\* Mutant of AfterGap: the snap leaves the flag alone.
AfterGapTrusted == warmupUntil

\* After an idle window one trade decides the average, so readers are warned.
AfterGap == now + Window

\* A trade that leaves the implied rate r: the new last rate, and sync_twap.
Observe(r) ==
  LET elapsed == now - lastObs
      w       == Weight(elapsed)
  IN  /\ lastLnRate' = r
      /\ \/ /\ elapsed = 0
            /\ UNCHANGED <<twap, lastObs, warmupUntil>>
         \/ /\ elapsed >= Window
            /\ twap' = r /\ lastObs' = now /\ warmupUntil' = AfterGap
         \/ /\ 0 < elapsed /\ elapsed < Window
            /\ twap' = MulDivFloor(twap, WAD - w, WAD) + MulDivFloor(r, w, WAD)
            /\ lastObs' = now
            /\ UNCHANGED warmupUntil
=============================================================================
