---------------------------- MODULE TokenizeFlow ----------------------------
(***************************************************************************)
(* The app's multi-signature flows.  A Stellar transaction carries one     *)
(* contract call, so moving a Blend position into the market takes three   *)
(* or four, and minting PT and YT takes two; each is built from what the   *)
(* wallet holds when its turn comes, and any of them can be declined, fail *)
(* or be reported as failed while it still lands (see Submission).  The    *)
(* user may start again after an error, and nothing keeps two flows of one *)
(* wallet apart: the panel's button stays enabled until the read before a  *)
(* flow is answered, the mint form has a phase of its own, and a page that *)
(* was left and opened again knows nothing of the flow it started.         *)
(***************************************************************************)
EXTENDS FixedPoint, Sequences

CONSTANTS
  Modes,         \* the forms: "keep" and "fixed" (the Blend panel), "mint"
  OldUsdc, OldSy, OldYt,   \* what the wallet held before
  Position,      \* value of the Blend deposit
  Shortfalls,    \* by how much a withdrawal may fall short of the request
  Rates,         \* exchange rates the SY wrapper may move to
  SalePrices,    \* SY paid per YT
  MintAmounts,   \* amounts entered in the mint form
  MaxFlows       \* flows the user starts (bound of the run)

ASSUME FlowAssumption ==
  /\ Modes \subseteq {"keep", "fixed", "mint"}
  /\ {OldUsdc, OldSy, OldYt, Position, MaxFlows} \subseteq Nat
  /\ Shortfalls \subseteq Nat /\ MintAmounts \subseteq Nat
  /\ Rates \subseteq Nat \ {0} /\ SalePrices \subseteq Nat

Flows == 1 .. MaxFlows

VARIABLES
  usdc, sy, pt, yt, position,   \* the wallet's balances and its Blend deposit
  rate,        \* the SY exchange rate
  known,       \* the rate and the deposit the page has read
  flow,        \* each flow: its form, its phase, the step it is at or failed
               \* at, what it captured when it started, depositAmount, the
               \* transaction built for the step, and the USDC its withdrawal
               \* has brought
  overlapped   \* history: a flow that sells was started beside another one

chain == <<usdc, sy, pt, yt, position, rate>>
vars  == <<chain, known, flow, overlapped>>

Steps(mode) ==
  CASE mode = "mint"  -> <<"Deposit", "Split">>
    [] mode = "keep"  -> <<"Withdraw", "Deposit", "Split">>
    [] mode = "fixed" -> <<"Withdraw", "Deposit", "Split", "Sell">>

NoCall == [op |-> "none", amount |-> 0]

\* A flow reported as failed is in "error", or in "unknown" while the
\* transaction it failed with may still land.
NotStarted ==
  [mode |-> "none", status |-> "idle", step |-> 0, seen |-> [rate |-> WAD, target |-> 0, yt |-> 0],
   deposit |-> 0, call |-> NoCall, arrived |-> 0]

Init ==
  /\ usdc = OldUsdc /\ sy = OldSy /\ pt = 0 /\ yt = OldYt /\ position = Position
  /\ rate = WAD
  /\ known = [rate |-> WAD, position |-> Position]
  /\ flow = [f \in Flows |-> NotStarted]
  /\ overlapped = FALSE

-----------------------------------------------------------------------------
\* What each call does on the ledger, when and if it lands.

Withdraw(amount) ==
  /\ \E short \in Shortfalls :
       LET got == Least(position, amount) - short IN
       /\ got > 0
       /\ usdc' = usdc + got /\ position' = position - got
  /\ UNCHANGED <<sy, pt, yt, rate>>

Deposit(amount) ==
  /\ 0 < amount /\ amount <= usdc
  /\ MulDivFloor(amount, WAD, rate) > 0
  /\ usdc' = usdc - amount /\ sy' = sy + MulDivFloor(amount, WAD, rate)
  /\ UNCHANGED <<pt, yt, position, rate>>

Split(amount) ==
  LET face == MulDivFloor(amount, rate, WAD) IN
  /\ 0 < amount /\ amount <= sy /\ face > 0
  /\ sy' = sy - amount /\ pt' = pt + face /\ yt' = yt + face
  /\ UNCHANGED <<usdc, position, rate>>

Sell(amount) ==
  /\ 0 < amount /\ amount <= yt
  /\ yt' = yt - amount
  /\ \E price \in SalePrices : sy' = sy + MulDivFloor(amount, price, WAD)
  /\ UNCHANGED <<usdc, pt, position, rate>>

Lands(c) ==
  \/ c.op = "Withdraw" /\ Withdraw(c.amount)
  \/ c.op = "Deposit" /\ Deposit(c.amount)
  \/ c.op = "Split" /\ Split(c.amount)
  \/ c.op = "Sell" /\ Sell(c.amount)

RateMoves ==
  /\ \E r \in Rates : r > rate /\ rate' = r
  /\ UNCHANGED <<usdc, sy, pt, yt, position, known, flow, overlapped>>

\* useBlendPosition and useMarket read now and then.
PageReads ==
  /\ known' = [rate |-> rate, position |-> position]
  /\ UNCHANGED <<chain, flow, overlapped>>
-----------------------------------------------------------------------------
\* The amounts the steps of a flow compute.

DepositAmount(s) == IF s.mode = "mint" THEN s.deposit ELSE Least(usdc, s.seen.target)

\* From the rate the page had read; the Blend panel also looks at the balance.
SplitAmount(s) ==
  LET computed == MulDivFloor(s.deposit, WAD, s.seen.rate) IN
  IF s.mode = "mint" THEN computed ELSE Least(sy, computed)

\* Mutant of SaleAmount: all the wallet's YT is sold.
SaleOfAll(s) == yt

\* What the wallet has gained since the flow started.
SaleAmount(s) == IF s.seen.yt < yt THEN yt - s.seen.yt ELSE 0

Request(s, op) ==
  [op |-> op, amount |-> CASE op = "Withdraw" -> s.seen.target + 1
                           [] op = "Deposit"  -> DepositAmount(s)
                           [] op = "Split"    -> SplitAmount(s)
                           [] op = "Sell"     -> SaleAmount(s)]
-----------------------------------------------------------------------------
Running(s) == s.status \in {"read", "build", "submit"}

Becomes(f, s) == flow' = [flow EXCEPT ![f] = s]

AnotherSells == \E g \in Flows : flow[g].mode = "fixed" /\ Running(flow[g])

\* The press.  Rate and deposit are the page's; a flow that will sell reads the
\* wallet's YT before it begins.
Begin(f) ==
  /\ flow[f].status = "idle" /\ \A g \in 1 .. f - 1 : flow[g].status # "idle"
  /\ \E mode \in Modes, amount \in MintAmounts :
       /\ mode # "mint" => known.position > 0
       /\ Becomes(f, [NotStarted EXCEPT
            !.mode = mode, !.status = IF mode = "fixed" THEN "read" ELSE "build", !.step = 1,
            !.seen = [rate |-> known.rate, target |-> known.position, yt |-> 0],
            !.deposit = IF mode = "mint" THEN amount ELSE 0])
       /\ overlapped' = (overlapped \/ (mode = "fixed" /\ AnotherSells))
  /\ UNCHANGED <<chain, known>>

\* initialYtBalance.
ReadYt(f) ==
  /\ flow[f].status = "read"
  /\ Becomes(f, [flow[f] EXCEPT !.seen.yt = yt, !.status = "build"])
  /\ UNCHANGED <<chain, known, overlapped>>

\* A step that has nothing to move throws.
Built(f, request) ==
  LET s == [flow[f] EXCEPT !.deposit = IF request.op = "Deposit" THEN request.amount ELSE @] IN
  Becomes(f, IF request.amount > 0 THEN [s EXCEPT !.call = request, !.status = "submit"]
                                   ELSE [s EXCEPT !.status = "error"])

BuildStep(f) ==
  /\ flow[f].status = "build"
  /\ Built(f, Request(flow[f], Steps(flow[f].mode)[flow[f].step]))
  /\ UNCHANGED <<chain, known, overlapped>>

\* A read or a simulation fails, or the user declines to sign.
GivesUp(f) ==
  /\ Running(flow[f]) /\ Becomes(f, [flow[f] EXCEPT !.status = "error"])
  /\ UNCHANGED <<chain, known, overlapped>>

Brought(s) == IF s.call.op = "Withdraw" THEN usdc' - usdc ELSE s.arrived

Advanced(s) ==
  IF s.step = Len(Steps(s.mode)) THEN [s EXCEPT !.status = "done"]
                                 ELSE [s EXCEPT !.status = "build", !.step = @ + 1]

\* submit() resolved, so the transaction landed.
SubmitStep(f) ==
  /\ flow[f].status = "submit"
  /\ Lands(flow[f].call)
  /\ Becomes(f, [Advanced(flow[f]) EXCEPT !.arrived = Brought(flow[f])])
  /\ UNCHANGED <<known, overlapped>>

\* submit() threw: the transaction failed, or nobody knows.
SubmitUnknown(f) ==
  /\ flow[f].status = "submit" /\ Becomes(f, [flow[f] EXCEPT !.status = "unknown"])
  /\ UNCHANGED <<chain, known, overlapped>>

LandsLate(f) ==
  /\ flow[f].status = "unknown" /\ Becomes(f, [flow[f] EXCEPT !.status = "error"])
  /\ Lands(flow[f].call) \/ UNCHANGED chain
  /\ UNCHANGED <<known, overlapped>>

Next ==
  \/ RateMoves \/ PageReads
  \/ \E f \in Flows :
       \/ Begin(f) \/ ReadYt(f) \/ BuildStep(f) \/ GivesUp(f)
       \/ SubmitStep(f) \/ SubmitUnknown(f) \/ LandsLate(f)

Spec == Init /\ [][Next]_vars
-----------------------------------------------------------------------------
\* Unless two flows that sell ran at once, selling "the newly minted YT" never
\* touches the YT the wallet already had: not when an earlier flow's
\* transactions land in the middle of a later one, nor beside flows that mint
\* (initialYtBalance and the sale's amountIn, tokenizeSteps.ts).
KeepsOldYt == ~overlapped => OldYt <= yt

\* What the panel says of its last step, whatever else runs: only newly minted
\* YT is sold (TokenizeBlendPanel.tsx, buildTokenizeBlendSteps).
SellsOnlyNewYt == OldYt <= yt

\* What the panel says of its deposit step: sized from what the withdrawal
\* brought, so that the flow never takes up more (TokenizeBlendPanel.tsx,
\* DepositAmount).
DepositsWhatArrived ==
  \A f \in Flows :
    flow[f].status = "submit" /\ flow[f].call.op = "Deposit" /\ flow[f].mode # "mint" =>
      flow[f].call.amount <= flow[f].arrived
=============================================================================
