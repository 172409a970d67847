--------------------------- MODULE PortfolioPage ---------------------------
(***************************************************************************)
(* The portfolio page: claim the yield, redeem PT (with YT before          *)
(* maturity), and turn SY back into the underlying.  The page goes by the  *)
(* browser's clock and a market read once; what a redemption calls is      *)
(* decided when it is built, by asking the chain.                          *)
(***************************************************************************)
EXTENDS Cards, FixedPoint

CONSTANT RedeemAmounts   \* what may be typed

ASSUME PortfolioAssumption == RedeemAmounts \subseteq Nat \ {0}

PortfolioFirst == [active |-> "none", amount |-> 0, syAmount |-> 0]

\* market.secondsToMaturity = 0, as read when the page was opened
seemsMatured == MarketKnown /\ market.seemsMatured

maxRedeemable ==
  IF ~PositionKnown THEN 0
  ELSE IF seemsMatured \/ heldPosition.pt < heldPosition.yt THEN heldPosition.pt ELSE heldPosition.yt

redeemError == PositionKnown /\ form.amount > maxRedeemable
unwrapError == PositionKnown /\ form.syAmount > heldPosition.sy

canRedeem == address # Nobody /\ form.amount # 0 /\ ~redeemError /\ phase # "working"
canUnwrap == address # Nobody /\ form.syAmount # 0 /\ ~unwrapError /\ phase # "working"

canClaim ==
  address # Nobody /\ PositionKnown /\ heldPosition.yield > 0 /\ phase # "working"

PhaseUnder(f) == IF form.active = f THEN phase ELSE "idle"

\* What the SY typed is worth at the rate the page has read.
underlyingPreview ==
  IF form.syAmount = 0 \/ ~MarketKnown THEN {} ELSE {(form.syAmount * market.exchangeRate) \div WAD}

RedeemStatus(f, ctx) == TxStatus(PhaseUnder(f), ctx)

\* The three forms.
RedeemForms ==
  [claim  |-> [button |-> SubmitButton(PhaseUnder("claim"), ~canClaim), status |-> RedeemStatus("claim", "tokenizer")],
   redeem |-> [title  |-> IF seemsMatured THEN "Redeem PT" ELSE "Recombine PT + YT",
               field  |-> AmountField(form.amount, redeemError, maxRedeemable),
               button |-> SubmitButton(PhaseUnder("redeem"), ~canRedeem), status |-> RedeemStatus("redeem", "tokenizer")],
   unwrap |-> [field  |-> AmountField(form.syAmount, unwrapError, IF PositionKnown THEN heldPosition.sy ELSE 0),
               preview |-> underlyingPreview,
               button |-> SubmitButton(PhaseUnder("unwrap"), ~canUnwrap), status |-> RedeemStatus("unwrap", "sy")]]

\* Maturity and exchange rate, as read.
MaturityContext == YieldSourceCard \cup Figures("market")

PortfolioFigures ==
  MaturityBadge \cup BlendPositionCard("full").figures \cup PositionCard \cup MaturityContext

Press(button, amount, preview) ==
  Submit([page |-> "portfolio", op |-> button, of |-> address, amount |-> amount, call |-> "none",
          seen |-> shown["market"].at, preview |-> preview, got |-> 0, error |-> NoError],
         [form EXCEPT !.active = button])

onClaim  == page = "portfolio" /\ canClaim /\ Press("claim", 0, {})
onRedeem == page = "portfolio" /\ canRedeem /\ Press("redeem", form.amount, {})
onUnwrap == page = "portfolio" /\ canUnwrap /\ Press("unwrap", form.syAmount, underlyingPreview)

Build(button, call) ==
  /\ page = "portfolio" /\ phase = "working" /\ job.op = button /\ job.call = "none"
  /\ job' = [job EXCEPT !.call = call]
  /\ UNCHANGED <<page, address, moves, ledger, readVars, phase, hash, form>>

\* A claim of nothing is not built.
buildClaimYield ==
  /\ page = "portfolio" /\ phase = "working"
  /\ \E k \in Recent : Ledgers[k].position[job.of].yield > 0
  /\ Build("claim", "claim_yield")

\* Mutant of RedeemCall: the call follows the page's title.
RedeemCallByTitle(k) == IF seemsMatured THEN "redeem_at_maturity" ELSE "recombine"

\* is_matured, asked of the chain
RedeemCall(k) == IF Ledgers[k].matured THEN "redeem_at_maturity" ELSE "recombine"

buildRedeem   == \E k \in Recent : Build("redeem", RedeemCall(k))
buildRedeemSy == Build("unwrap", "redeem")

\* The wrapper, for n shares.
Unwraps(n, rate) == MulDivFloor(n, rate, WAD)

\* The contracts: a recombination only before maturity, PT alone only after.
Accepts ==
  CASE job.call = "recombine"          -> ~Now.matured
    [] job.call = "redeem_at_maturity" -> Now.matured
    [] job.call \in {"claim_yield", "redeem"} -> TRUE
    [] job.call = "none"               -> FALSE

Redeemed ==
  /\ page = "portfolio" /\ phase = "working" /\ Accepts
  /\ Confirmed([job EXCEPT !.got = IF job.call = "redeem" THEN Unwraps(job.amount, Now.rate) ELSE 0])

RedeemRefused ==
  /\ page = "portfolio" /\ phase = "working"
  /\ job.call = "recombine" /\ Now.matured /\ Refused("tokenizer", 6)

PortfolioWallet(a) == page = "portfolio" /\ AddressChanges(a, form)

PortfolioNext ==
  \/ \E n \in RedeemAmounts \cup {0} :
       \/ Fields("portfolio", [form EXCEPT !.amount = n])
       \/ Fields("portfolio", [form EXCEPT !.syAmount = n])
  \/ onClaim \/ onRedeem \/ onUnwrap
  \/ buildClaimYield \/ buildRedeem \/ buildRedeemSy
  \/ Redeemed \/ RedeemRefused
  \/ \E a \in Users \cup {Nobody} : PortfolioWallet(a)

-----------------------------------------------------------------------------

\* A redemption the user has signed is never refused for being early: however
\* long before the page read the market, and whatever the browser's clock says,
\* PT alone is only presented once the chain has reached maturity (buildRedeem).
RedemptionIsNeverEarly ==
  page = "portfolio" /\ job # NoJob /\ job.call = "redeem_at_maturity" => Now.matured
=============================================================================
