----------------------------- MODULE Allowances -----------------------------
(***************************************************************************)
(* SEP-41 allowances as the PT, YT and SY contracts keep them: a value in  *)
(* temporary storage that carries its own expiration ledger, in an entry   *)
(* whose time to live the network sets and the contract must extend.  Two  *)
(* clocks therefore end an allowance, and the code promises that the       *)
(* entry's never runs out first.  The ledger moved is PT's.                *)
(***************************************************************************)
EXTENDS PtToken

CONSTANTS
  Pairs,        \* <<owner, spender>> that use an allowance
  MinTtl,       \* ledgers a new temporary entry lives, this one included
  MaxTtl,       \* ledgers the network lets an entry live, this one included
  Amounts,      \* amounts a caller passes
  MaxLedger,    \* bound of the run
  MaxSupply     \* bound of the run

ASSUME AllowanceAssumption ==
  /\ Pairs \subseteq Holders \X Holders
  /\ MinTtl \in Nat \ {0} /\ MaxTtl \in Nat /\ MinTtl <= MaxTtl
  /\ Amounts \subseteq Nat
  /\ MaxLedger \in Nat /\ MaxSupply \in Nat

VARIABLES
  ledger,   \* env.ledger().sequence()
  stored,   \* the temporary entry of each pair and the last ledger it lives in
  call      \* history: the call that was made last, with its arguments

vars == <<ptVars, ledger, stored, call>>

Entries == [amount : Nat, expiration : Nat, liveUntil : Int]

TypeOK ==
  /\ ledger \in Nat
  /\ stored \in [Pairs -> Entries]

Init ==
  /\ PtInit
  /\ ledger = 0 /\ call = <<"none">>
  /\ stored = [p \in Pairs |-> [amount |-> 0, expiration |-> 0, liveUntil |-> -1]]

Archived(p) == stored[p].liveUntil < ledger

\* read_allowance: an entry that is gone, or past its expiration, grants nothing.
Readable(p) == ~Archived(p) /\ stored[p].expiration >= ledger
Allowance(p) == IF Readable(p) THEN stored[p].amount ELSE 0

\* The entry's lifetime after a plain set: a new entry gets the network's
\* minimum, a live one keeps what it has.
AfterSet(p) == IF Archived(p) THEN ledger + MinTtl - 1 ELSE stored[p].liveUntil

\* extend_ttl(live_for, live_for) reaches the expiration and shortens nothing.
LiveUntil(p, amount, expiration) ==
  IF amount > 0 /\ AfterSet(p) < expiration THEN expiration ELSE AfterSet(p)

\* The host refuses to extend a temporary entry beyond the network's maximum.
WriteAllowance(p, amount, expiration) ==
  /\ amount > 0 => expiration - ledger < MaxTtl
  /\ stored' = [stored EXCEPT ![p] =
       [amount |-> amount, expiration |-> expiration,
        liveUntil |-> LiveUntil(p, amount, expiration)]]

Approve(p, amount, expiration) ==
  /\ call' = <<"approve", p, amount, expiration>>
  /\ amount > 0 => expiration >= ledger
  /\ WriteAllowance(p, amount, expiration)
  /\ UNCHANGED <<ptVars, ledger>>

\* Mutant of SpendAllowance: what is written back is what was read.
SpendUncharged(p, n) ==
  /\ n <= Allowance(p)
  /\ WriteAllowance(p, Allowance(p), stored[p].expiration)

SpendAllowance(p, n) ==
  /\ n <= Allowance(p)
  /\ WriteAllowance(p, Allowance(p) - n, stored[p].expiration)

TransferFrom(p, to, n) ==
  /\ call' = <<"transfer_from", p, to, n>>
  /\ SpendAllowance(p, n)
  /\ PtTransfer(p[1], to, n)
  /\ UNCHANGED ledger

BurnFrom(p, n) ==
  /\ call' = <<"burn_from", p, n>>
  /\ SpendAllowance(p, n)
  /\ PtBurn(p[1], n)
  /\ UNCHANGED ledger

\* What the owner does itself, and what the tokenizer mints.
Transfer(from, to, n) ==
  /\ call' = <<"transfer", from, to, n>>
  /\ PtTransfer(from, to, n)
  /\ UNCHANGED <<ledger, stored>>

Burn(from, n) ==
  /\ call' = <<"burn", from, n>>
  /\ PtBurn(from, n)
  /\ UNCHANGED <<ledger, stored>>

Mint(to, n) ==
  /\ call' = <<"mint", to, n>>
  /\ ptSupply + n <= MaxSupply
  /\ PtMint(to, n)
  /\ UNCHANGED <<ledger, stored>>

\* The network closes a ledger.
NextLedger ==
  /\ ledger < MaxLedger
  /\ ledger' = ledger + 1 /\ call' = <<"none">>
  /\ UNCHANGED <<ptVars, stored>>

\* The ledgers an owner names, past ones among them.
Expirations == 0 .. MaxLedger + 1

Next ==
  \/ NextLedger
  \/ \E p \in Pairs :
       \/ \E n \in Amounts \cup {0}, e \in Expirations : Approve(p, n, e)
       \/ \E n \in Amounts : \/ BurnFrom(p, n)
                             \/ \E to \in Accounts : TransferFrom(p, to, n)
  \/ \E h \in Holders, n \in Amounts :
       \/ Mint(h, n)
       \/ Burn(h, n)
       \/ \E to \in Accounts : Transfer(h, to, n)

Spec == Init /\ [][Next]_vars
-----------------------------------------------------------------------------
\* An allowance that is still worth something before its expiration sits in
\* an entry that lives at least that long, through every spend that rewrites
\* it and every approval over an older one (write_allowance's extend_ttl).
EntryOutlivesGrant ==
  \A p \in Pairs :
    stored[p].amount > 0 /\ ledger <= stored[p].expiration =>
      stored[p].expiration <= stored[p].liveUntil

Current(p) == [amount |-> Allowance(p), expiration |-> stored[p].expiration]

Promised == INSTANCE SpendingGrants WITH
  grant <- [p \in Pairs |->
              IF Allowance(p) > 0 THEN Current(p)
              ELSE [amount |-> 0, expiration |-> 0]]

\* What allowance() answers behaves as a grant with no storage behind it: it
\* is set by an approval of that pair to what the call says, falls by exactly
\* what each transfer_from and burn_from moves, by nothing else, ends exactly
\* after its expiration ledger, and is never cut short by archival.
KeepsGrants == Promised!Spec
=============================================================================
