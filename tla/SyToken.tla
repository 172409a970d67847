------------------------------- MODULE SyToken -------------------------------
(***************************************************************************)
(* The standardized-yield share as the rest of a market sees it: SEP-41    *)
(* balances and one exchange rate (asset per share, WAD scaled).  How the  *)
(* wrapper derives that rate is the wrapper's business; here it moves      *)
(* between transactions, upward as yield accrues and sometimes downward    *)
(* (an admin's set_exchange_rate, a loss in the pool, the one-notch dip    *)
(* Blend's rounding leaves behind a withdrawal).                           *)
(***************************************************************************)
EXTENDS Accounts

CONSTANTS
  Rates,         \* the values the exchange rate takes
  SyEndowment    \* SY shares each holder starts with, a function

ASSUME SyAssumption ==
  /\ Rates \subseteq Nat \ {0}
  /\ SyEndowment \in [Holders -> Nat]

VARIABLES
  rate,   \* exchange_rate()
  fell,   \* history: whether the rate has ever fallen
  sy      \* SY share balances

rateVars == <<rate, fell>>

SyTypeOK == rate \in Rates /\ fell \in BOOLEAN /\ sy \in Ledgers

SyInit ==
  /\ rate \in Rates /\ fell = FALSE
  /\ sy = [a \in Accounts |-> IF a = Escrow THEN 0 ELSE SyEndowment[a]]

SyTransfer(from, to, n) ==
  /\ CanDebit(sy, from, n)
  /\ sy' = Moved(sy, from, to, n)

RateMoves(r) ==
  /\ r # rate
  /\ rate' = r
  /\ fell' = (fell \/ r < rate)
=============================================================================
