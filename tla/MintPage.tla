------------------------------ MODULE MintPage ------------------------------
(***************************************************************************)
(* The mint page: the deposit form (the transactions behind it are         *)
(* TokenizeFlow's), the balance it is checked against, and on testnet the  *)
(* faucet, whose transaction is fetched, signed and sent outside the       *)
(* page's transaction phase and goes on when the wallet changes.           *)
(***************************************************************************)
EXTENDS Cards, FixedPoint

CONSTANTS
  MintAmounts,   \* what may be typed
  MaxGrants      \* times the faucet is used (bound)

ASSUME MintAssumption == MintAmounts \subseteq Nat \ {0} /\ MaxGrants \in Nat

Story(kind, step) == [kind |-> kind, step |-> step]

MintFirst ==
  [amount |-> 0, split |-> FALSE, grants |-> 0, faucet |-> Story("idle", "none"),
   begun |-> 0, flows |-> {}, grantedAt |-> 0]

balanceKnown == shown["underlying"].at # 0
balanceError == shown["underlying"] # Blank /\ ~balanceKnown
usdcOf       == Ledgers[shown["underlying"].at].usdc[shown["underlying"].of]

\* A read that fails is an error beside the field.
mintError == balanceError \/ (balanceKnown /\ form.amount > usdcOf)

\* SY for a deposit, PT and YT for that SY.
Receipt(n, rate) ==
  LET syOut == (n * WAD) \div rate
  IN  [syOut |-> syOut, splitOut |-> (syOut * rate) \div WAD]

\* At the rate the page has read; null until there are both.
mintPreview ==
  IF form.amount = 0 \/ ~MarketKnown THEN {} ELSE {Receipt(form.amount, market.exchangeRate)}

canMint == address # Nobody /\ mintPreview # {} /\ ~mintError /\ phase # "working"

\* walletTokenBalanceError: what a missing trustline is told by
trustlineMissing == balanceError /\ shown["underlying"].upTo = NoTrustline

showFaucet ==
  address # Nobody /\ MarketKnown /\ (trustlineMissing \/ (balanceKnown /\ usdcOf = 0))

\* Balances, and the rates of a market the wallet has no Blend deposit to move
\* into.
MintHeader ==
  [figures |-> MaturityBadge \cup PositionCard, choice |-> IF BlendDeposit THEN {} ELSE {YieldChoiceCard}]

MintForm ==
  [field   |-> AmountField(form.amount, mintError, IF balanceKnown THEN usdcOf ELSE 0),
   balance |-> IF address = Nobody THEN {} ELSE LiveValue("underlying", shown["underlying"] = Blank),
   split   |-> form.split]

FaucetView ==
  [button |-> showFaucet /\ form.faucet.kind # "working", story |-> form.faucet.kind]

\* What is minted, or that there is no market.
ReceiptPreview ==
  [receipt  |-> mintPreview,
   noMarket |-> mintPreview = {} /\ ~MarketKnown]

MintAside == YieldSourceCard \cup Figures("market")

MintFigures == MintHeader.figures \cup MintForm.balance \cup MintAside
MintButton  == SubmitButton(phase, ~canMint)
MintStatus  == TxStatus(phase, "sy")

onMint ==
  /\ page = "mint" /\ MintButton.enabled
  /\ Submit([page |-> "mint", op |-> "mint", of |-> address, amount |-> form.amount,
             steps |-> IF form.split THEN 2 ELSE 1, landed |-> 0, seen |-> shown["market"].at,
             preview |-> mintPreview, got |-> [syOut |-> 0, splitOut |-> 0, rate |-> 0], error |-> NoError], form)

\* The wrapper's shares for a deposit, the tokenizer's face for shares.
SharesFor(n, rate) == MulDivFloor(n, WAD, rate)
FaceOf(n, rate)    == MulDivFloor(n, rate, WAD)

\* The first of two signatures: the deposit is in a ledger.
DepositLands ==
  /\ page = "mint" /\ phase = "working" /\ job.steps = 2 /\ job.landed = 0 /\ ledger < Height
  /\ ledger' = ledger + 1
  /\ job' = [job EXCEPT !.landed = 1, !.got.syOut = SharesFor(job.amount, Now.rate), !.got.rate = Now.rate]
  /\ UNCHANGED <<page, address, moves, readVars, phase, hash, form>>

\* The split: of the SY of the mintPreview, not of what the deposit brought.
SplitLands ==
  /\ page = "mint" /\ phase = "working" /\ job.landed = 1 /\ ~Now.matured
  /\ \E promised \in job.preview :
       /\ promised.syOut <= Now.position[job.of].sy + job.got.syOut
       /\ Confirmed([job EXCEPT !.landed = 2, !.got.splitOut = FaceOf(promised.syOut, Now.rate)])

SplitRefused ==
  page = "mint" /\ phase = "working" /\ job.landed = 1 /\ Now.matured /\ Refused("tokenizer", 6)

Minted ==
  /\ page = "mint" /\ phase = "working" /\ job.steps = 1
  /\ Confirmed([job EXCEPT !.landed = 1, !.got.syOut = SharesFor(job.amount, Now.rate), !.got.rate = Now.rate])

-----------------------------------------------------------------------------
\* The faucet.  A flow belongs to the wallet that pressed the button; whatever
\* it reports is the page's one story.

FlowStep(f, next, story) ==
  Fields("mint", [form EXCEPT !.flows = (@ \ {f}) \cup next, !.faucet = story])

onGetTestUsdc ==
  /\ page = "mint" /\ FaucetView.button /\ form.begun < MaxGrants
  /\ Fields("mint", [form EXCEPT
       !.begun = @ + 1,
       !.flows = @ \cup {[of |-> address, id |-> form.begun, step |-> "request", signer |-> Nobody, at |-> 0]},
       !.faucet = Story("working", "request")])

GoesTo(f, step) == FlowStep(f, {[f EXCEPT !.step = step]}, Story("working", step))

\* The faucet's answer, which the app's own server passes on: a transaction to
\* sign, or that it does not know the account (any other is an error).
FaucetResult == {"transaction", "account_not_found"}

\* An account it does not know is funded first; asked again, it may know it only
\* after some attempts.
fetchBlendFaucetTransaction(f) ==
  /\ f.step \in {"request", "retry"}
  /\ \E kind \in FaucetResult :
       \/ kind = "transaction" /\ GoesTo(f, "sign")
       \/ kind = "account_not_found" /\ f.step = "request" /\ GoesTo(f, "fund")

fundWithFriendbot(f) == f.step = "fund" /\ GoesTo(f, "retry")

\* The wallet whose button it was: the handler keeps its own address and
\* signTransaction.
Signer(f) == f.of

SignsGrant(f) ==
  /\ f.step = "sign"
  /\ FlowStep(f, {[f EXCEPT !.step = "submit", !.signer = Signer(f)]}, Story("working", "submit"))

\* Horizon reports the ledger the grant is in.
GrantLands(f) ==
  /\ page = "mint" /\ f.step = "submit" /\ ledger < Height
  /\ ledger' = ledger + 1
  /\ form' = [form EXCEPT !.flows = (@ \ {f}) \cup {[f EXCEPT !.step = "poll", !.at = ledger + 1]},
                          !.faucet = Story("working", "poll")]
  /\ UNCHANGED <<page, address, moves, readVars, txVars>>

Refreshed == form.grants + 1

\* The balance was seen, or twenty seconds passed.
GrantSeen(f) ==
  LET next == [form EXCEPT !.flows = @ \ {f}, !.faucet = Story("done", "none"),
                           !.grants = Refreshed, !.grantedAt = f.at]
  IN  /\ page = "mint" /\ f.step = "poll" /\ form' = next
      /\ EffectsRun(address, KeyOf(phase, hash, next), ledger)
      /\ UNCHANGED <<page, address, moves, ledger, txVars>>

GrantFails(f) == f.step # "poll" /\ FlowStep(f, {}, Story("error", "none"))

Granting == page = "mint" /\ \E f \in form.flows :
  fetchBlendFaucetTransaction(f) \/ fundWithFriendbot(f) \/ SignsGrant(f) \/ GrantLands(f) \/ GrantSeen(f) \/ GrantFails(f)

\* Another wallet: the story shown starts over, the flow under way does not.
MintWallet(a) ==
  page = "mint" /\ AddressChanges(a, [form EXCEPT !.faucet = Story("idle", "none")])

MintNext ==
  \/ \E n \in MintAmounts \cup {0} : Fields("mint", [form EXCEPT !.amount = n])
  \/ \E split \in BOOLEAN : Fields("mint", [form EXCEPT !.split = split])
  \/ onMint \/ Minted \/ DepositLands \/ SplitLands \/ SplitRefused
  \/ onGetTestUsdc \/ Granting
  \/ \E a \in Users \cup {Nobody} : MintWallet(a)

-----------------------------------------------------------------------------

\* When the page says the grant has arrived, the balance it then settles on is
\* the grant's ledger's or later, but for the lag of the node and whichever
\* reads were under way: the form unlocks and the button goes (faucetRefresh).
SeesGrant ==
  page = "mint" /\ form.grantedAt # 0 /\ Settled("underlying") /\ balanceKnown
    => form.grantedAt <= shown["underlying"].at + Lag
=============================================================================
