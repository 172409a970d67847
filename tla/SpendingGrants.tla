--------------------------- MODULE SpendingGrants ---------------------------
(***************************************************************************)
(* What approve, transfer_from and burn_from promise, without storage: a   *)
(* grant is what the owner's last approval said, less exactly what the     *)
(* spender's calls have moved since, through the ledger it names, and      *)
(* nothing afterwards.  Every step carries the call that made it, so a     *)
(* spend that is charged wrongly, or a grant that moves with no call of    *)
(* its own pair, is no step of this specification.                         *)
(***************************************************************************)
EXTENDS PtToken

CONSTANTS
  Pairs,         \* <<owner, spender>>
  Amounts,       \* amounts a caller passes
  Expirations    \* ledgers an owner names

VARIABLES
  ledger,   \* the ledger sequence number
  grant,    \* what each spender may still take
  call      \* the call that was made last, with its arguments

vars == <<ptVars, ledger, grant, call>>

Nothing == [amount |-> 0, expiration |-> 0]

\* A grant of nothing is no grant, whatever ledger it names.
Granted(amount, expiration) ==
  IF amount > 0 THEN [amount |-> amount, expiration |-> expiration] ELSE Nothing

Init ==
  /\ PtInit
  /\ ledger = 0 /\ call = <<"none">>
  /\ grant = [p \in Pairs |-> Nothing]

\* Something is granted through this ledger at least, or nothing at all.
Approve(p, n, e) ==
  /\ call' = <<"approve", p, n, e>>
  /\ n > 0 => ledger <= e
  /\ grant' = [grant EXCEPT ![p] = Granted(n, e)]
  /\ UNCHANGED <<ptVars, ledger>>

\* A spender takes what it asks for, and its grant falls by as much.
Charge(p, n) ==
  /\ n <= grant[p].amount
  /\ grant' = [grant EXCEPT ![p] = Granted(@.amount - n, @.expiration)]
  /\ UNCHANGED ledger

TransferFrom(p, to, n) ==
  /\ call' = <<"transfer_from", p, to, n>>
  /\ PtTransfer(p[1], to, n)
  /\ Charge(p, n)

BurnFrom(p, n) ==
  /\ call' = <<"burn_from", p, n>>
  /\ PtBurn(p[1], n)
  /\ Charge(p, n)

\* What holders and the tokenizer do themselves touches no grant.
Transfer(from, to, n) == call' = <<"transfer", from, to, n>> /\ PtTransfer(from, to, n)
Burn(from, n)         == call' = <<"burn", from, n>> /\ PtBurn(from, n)
Mint(to, n)           == call' = <<"mint", to, n>> /\ PtMint(to, n)

NextLedger ==
  /\ call' = <<"none">>
  /\ ledger' = ledger + 1
  /\ grant' = [p \in Pairs |->
                 IF ledger' <= grant[p].expiration THEN grant[p] ELSE Nothing]
  /\ UNCHANGED ptVars

Next ==
  \/ NextLedger
  \/ \E p \in Pairs :
       \/ \E n \in Amounts \cup {0}, e \in Expirations : Approve(p, n, e)
       \/ \E n \in Amounts : BurnFrom(p, n) \/ \E to \in Accounts : TransferFrom(p, to, n)
  \/ \E h \in Holders, n \in Amounts :
       /\ Mint(h, n) \/ Burn(h, n) \/ \E to \in Accounts : Transfer(h, to, n)
       /\ UNCHANGED <<ledger, grant>>

Spec == Init /\ [][Next]_vars
=============================================================================
