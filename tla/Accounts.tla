------------------------------ MODULE Accounts ------------------------------
(***************************************************************************)
(* The addresses of a market and the SEP-41 balance movements every token  *)
(* contract (SY, PT, YT) performs on its own ledger.                       *)
(***************************************************************************)
EXTENDS Integers

CONSTANTS
  Holders,     \* addresses whose key can authorize a call
  Escrow       \* the tokenizer contract's own address

ASSUME AccountAssumption == Escrow \notin Holders

\* A transfer may name any address as its destination, the tokenizer included.
Accounts == Holders \cup {Escrow}

Ledgers == [Accounts -> Nat]
EmptyLedger == [a \in Accounts |-> 0]

\* move_balance: debit first, then read and credit the destination, so that a
\* transfer to oneself leaves the balance as it was.
Moved(balance, from, to, n) ==
  [[balance EXCEPT ![from] = @ - n] EXCEPT ![to] = @ + n]

Credited(balance, to, n)   == [balance EXCEPT ![to] = @ + n]
Debited(balance, from, n)  == [balance EXCEPT ![from] = @ - n]

\* require_amount_or_panic and the balance check every debit makes.
CanDebit(balance, from, n) == n > 0 /\ n <= balance[from]
=============================================================================
