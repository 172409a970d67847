------------------------------- MODULE PtToken -------------------------------
(***************************************************************************)
(* The principal token: a SEP-41 token whose supply only the tokenizer can *)
(* raise and any holder can lower by burning.  Allowances are not part of  *)
(* this module: transfer_from and burn_from move the same balances as      *)
(* transfer and burn once the spender is cleared.                          *)
(***************************************************************************)
EXTENDS Accounts

VARIABLES
  pt,        \* PT balances, in asset units
  ptSupply   \* total_supply()

ptVars == <<pt, ptSupply>>

PtTypeOK == pt \in Ledgers /\ ptSupply \in Nat

PtInit == pt = EmptyLedger /\ ptSupply = 0

PtMint(to, n) ==
  /\ n > 0
  /\ pt' = Credited(pt, to, n)
  /\ ptSupply' = ptSupply + n

PtTransfer(from, to, n) ==
  /\ CanDebit(pt, from, n)
  /\ pt' = Moved(pt, from, to, n)
  /\ UNCHANGED ptSupply

PtBurn(from, n) ==
  /\ CanDebit(pt, from, n)
  /\ pt' = Debited(pt, from, n)
  /\ ptSupply' = ptSupply - n
=============================================================================
