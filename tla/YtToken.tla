------------------------------- MODULE YtToken -------------------------------
(***************************************************************************)
(* The yield token: SEP-41 balances plus the yield engine.  Each holder    *)
(* has a checkpoint (the rate their yield was last settled at) and a       *)
(* ledger of banked, unpaid SY shares.  Every balance change settles the   *)
(* parties first.  The rate is an argument everywhere: the contract takes  *)
(* it from the tokenizer, which is how the code avoids re-entering it.     *)
(***************************************************************************)
EXTENDS Accounts, FixedPoint

NoRate == 0   \* an unset rate slot (the contract's None, or its 0 default)

VARIABLES
  yt,           \* YT balances, in asset units
  ytSupply,     \* total_supply()
  checkpoint,   \* rate each holder was last settled at, NoRate if never
  accrued       \* banked yield of each holder, in SY shares

ytVars == <<yt, ytSupply, checkpoint, accrued>>

YtTypeOK ==
  /\ yt \in Ledgers
  /\ ytSupply \in Nat
  /\ checkpoint \in Ledgers
  /\ accrued \in Ledgers

YtInit ==
  /\ yt = EmptyLedger
  /\ ytSupply = 0
  /\ checkpoint = [a \in Accounts |-> NoRate]
  /\ accrued = EmptyLedger

-----------------------------------------------------------------------------
(* The yield engine. *)

\* Mutant of PendingYield: the naive (r - c) / WAD accrual.
PendingYieldNaive(a, r) ==
  IF checkpoint[a] # NoRate /\ checkpoint[a] < r
    THEN MulDivFloor(yt[a], r - checkpoint[a], WAD)
    ELSE 0

\* What settling `a' at r would bank: nothing for a holder never settled,
\* nothing while r has not risen above the checkpoint.
PendingYield(a, r) ==
  IF checkpoint[a] # NoRate /\ checkpoint[a] < r
    THEN OwedShares(yt[a], checkpoint[a], r)
    ELSE 0

\* settle_into_ledger for each account of S: bank, then raise the checkpoint.
\* A checkpoint above r is held.
SettledAccrued(S, r) ==
  [a \in Accounts |-> IF a \in S THEN accrued[a] + PendingYield(a, r)
                                 ELSE accrued[a]]

SettledCheckpoint(S, r) ==
  [a \in Accounts |-> IF a \in S /\ checkpoint[a] < r THEN r
                                                      ELSE checkpoint[a]]

Settle(S, r) ==
  /\ accrued' = SettledAccrued(S, r)
  /\ checkpoint' = SettledCheckpoint(S, r)

\* settle followed, in the same transaction, by consume(holder, n).
SettleAndConsume(holder, r, n) ==
  /\ n <= SettledAccrued({holder}, r)[holder]
  /\ accrued' = Debited(SettledAccrued({holder}, r), holder, n)
  /\ checkpoint' = SettledCheckpoint({holder}, r)
  /\ UNCHANGED <<yt, ytSupply>>

-----------------------------------------------------------------------------
(* Token operations, each at the rate r the caller's path resolves. *)

YtMint(to, n, r) ==
  /\ n > 0
  /\ Settle({to}, r)
  /\ yt' = Credited(yt, to, n)
  /\ ytSupply' = ytSupply + n

YtTransfer(from, to, n, r) ==
  /\ CanDebit(yt, from, n)
  /\ Settle({from, to}, r)
  /\ yt' = Moved(yt, from, to, n)
  /\ UNCHANGED ytSupply

YtBurn(from, n, r) ==
  /\ CanDebit(yt, from, n)
  /\ Settle({from}, r)
  /\ yt' = Debited(yt, from, n)
  /\ ytSupply' = ytSupply - n
=============================================================================
