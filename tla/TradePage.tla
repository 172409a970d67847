----------------------------- MODULE TradePage -----------------------------
(***************************************************************************)
(* The trade page: an amount, a route and a tolerance, a quote that is     *)
(* asked for a moment after they last changed, and the swap whose minimum  *)
(* output is worked out from the quote on display.                         *)
(***************************************************************************)
EXTENDS Cards, LpPreview

CONSTANTS
  TradeAmounts,     \* what may be typed, in base units
  Routes            \* the directions tried

DIRECTIONS == {"buy-pt", "sell-pt", "buy-yt", "sell-yt"}

ASSUME TradeAssumption ==
  /\ TradeAmounts \subseteq Nat \ {0}
  /\ Routes \subseteq DIRECTIONS

MAX_PRICE_IMPACT_BPS == 2000
NoAmount == 0
NoQuote  == [kind |-> "none"]

\* What the market pays for n on a route in ledger k.
AmountOut(k, route, n) == MulDivFloor(n, Ledgers[k].pays[route], WAD)

\* Against a 1:1 rate of PT to SY shares.
priceImpactBps(in, out) == MulDivFloor(in - out, BpsDenominator, in)

TradeFirst ==
  [amount |-> NoAmount, route |-> "buy-pt", slip |-> DEFAULT_SLIPPAGE_BPS,
   quote |-> NoQuote, quoting |-> {}]

\* The cleanup of the quote's effect: a timer that has not fired is cleared,
\* a read already sent is only marked.
QuoteDropped == {[r EXCEPT !.cancelled = TRUE] : r \in {x \in form.quoting : x.sent /\ ~x.cancelled}}

\* The page after its effect ran for this amount, route and wallet.
Requoted(amount, route, user) ==
  [form EXCEPT
     !.amount = amount, !.route = route,
     !.quote = NoQuote,
     !.quoting = QuoteDropped \cup
       (IF amount = NoAmount \/ user = Nobody THEN {}
        ELSE {[amount |-> amount, route |-> route, of |-> user,
               since |-> 0, sent |-> FALSE, cancelled |-> FALSE]})]

TypeAmount(n)   == n # form.amount /\ Fields("trade", Requoted(n, form.route, address))
PickRoute(r)    == r # form.route /\ Fields("trade", Requoted(form.amount, r, address))
PickTolerance(s) == Setting("trade", [form EXCEPT !.slip = s])

\* 350 ms without a change
DebounceFires(r) ==
  /\ ~r.sent
  /\ Fields("trade", [form EXCEPT !.quoting = (@ \ {r}) \cup {[r EXCEPT !.sent = TRUE, !.since = Since(ledger)]}])

\* Mutant of QuoteHeeded: an answer is shown although the form has changed.
QuoteHeededAlways(r) == TRUE

QuoteHeeded(r) == ~r.cancelled

\* Mutant of QuoteArrives: the effect depends on the quote it sets.
QuoteArrivesAgain(r, at) ==
  /\ r.sent /\ r.since <= at
  /\ Fields("trade", [form EXCEPT !.quoting = (@ \ {r}) \cup {[r EXCEPT !.since = 0, !.sent = FALSE]}])

QuoteArrives(r, at) ==
  /\ r.sent /\ r.since <= at
  /\ Fields("trade", [form EXCEPT
       !.quoting = @ \ {r},
       !.quote = IF QuoteHeeded(r)
                 THEN [kind |-> "quote", amount |-> r.amount, route |-> r.route, of |-> r.of,
                       out |-> AmountOut(at, r.route, r.amount)]
                 ELSE @])

QuoteFails(r) ==
  /\ r.sent
  /\ Fields("trade", [form EXCEPT
       !.quoting = @ \ {r},
       !.quote = IF QuoteHeeded(r) THEN [kind |-> "error"] ELSE @])

balanceIn == IF shown["position"] = Blank THEN 0 ELSE Ledgers[shown["position"].at].holds

TradeAmountError == shown["position"] # Blank /\ form.amount > balanceIn

\* A quote is being waited for.
quoting ==
  form.amount # NoAmount /\ address # Nobody /\ form.quote = NoQuote /\ ~TradeAmountError

priceImpactTooHigh ==
  /\ form.route \in {"buy-pt", "sell-pt"}
  /\ form.quote.kind = "quote"
  /\ priceImpactBps(form.quote.amount, form.quote.out) > MAX_PRICE_IMPACT_BPS

canTrade ==
  /\ address # Nobody
  /\ form.quote.kind = "quote"
  /\ ~TradeAmountError /\ ~priceImpactTooHigh
  /\ phase # "working"

\* The page around the form.
TradeRail ==
  MaturityBadge \cup PositionCard \cup BlendPositionCard("banner").figures
    \cup YieldSourceCard \cup Stat("market")

\* What a quote says: nothing, the figures, or that there is none.
TradeForm ==
  [route    |-> form.route,
   flash    |-> form.route \in {"buy-yt", "sell-yt"},
   field    |-> AmountField(form.amount, TradeAmountError, balanceIn),
   spinner  |-> quoting,
   expected |-> IF form.quote.kind = "quote" THEN form.quote.out ELSE 0,
   slip     |-> form.slip]

\* Mutant of QuotePanel: a quote that failed is not mentioned.
QuotePanelSilent == [kind |-> "none"]

QuotePanel ==
  CASE form.quote.kind = "quote" ->
         [kind |-> "quote", expected |-> form.quote.out,
          minReceived |-> applySlippage(form.quote.out, form.slip)]
    [] form.quote.kind # "quote" -> [kind |-> form.quote.kind]

TradeButton == SubmitButton(phase, ~canTrade)
TradeStatus == TxStatus(phase, "amm")

Trade ==
  /\ page = "trade" /\ TradeButton.enabled
  /\ Submit([page |-> "trade", of |-> address, amount |-> form.amount, route |-> form.route,
             quoted |-> form.quote.out, slip |-> form.slip,
             min |-> applySlippage(form.quote.out, form.slip), error |-> NoError], form)

\* The swap is built, signed and lands; the market pays what it pays now, or
\* refuses to pay less than the minimum.
Traded ==
  /\ page = "trade" /\ phase = "working"
  /\ ~Now.matured /\ AmountOut(ledger, job.route, job.amount) >= job.min
  /\ Confirmed([job EXCEPT !.min = AmountOut(ledger, job.route, job.amount)])

TradeRefused ==
  /\ page = "trade" /\ phase = "working"
  /\ \/ Now.matured /\ Refused("amm", 10)
     \/ AmountOut(ledger, job.route, job.amount) < job.min /\ Refused("amm", 11)

TradeWallet(a) ==
  page = "trade" /\ AddressChanges(a, Requoted(form.amount, form.route, a))

TradeQuoting ==
  /\ page = "trade"
  /\ \E r \in form.quoting :
       DebounceFires(r) \/ QuoteFails(r) \/ \E at \in 1..ledger : QuoteArrives(r, at)

TradeNext ==
  \/ page = "trade" /\ \E n \in TradeAmounts \cup {NoAmount} : TypeAmount(n)
  \/ page = "trade" /\ \E r \in Routes : PickRoute(r)
  \/ page = "trade" /\ \E s \in Tolerances : PickTolerance(s)
  \/ TradeQuoting
  \/ Trade \/ Traded \/ TradeRefused
  \/ \E a \in Users \cup {Nobody} : TradeWallet(a)

-----------------------------------------------------------------------------

\* Whenever the button works, the quote beside it was given for the amount, the
\* route and the wallet now in the form: typing ahead of the quote, switching
\* routes and answers out of order never leave another swap's minimum on this
\* one (the quote's effect on the trade page).
QuoteIsForTheForm ==
  page = "trade" /\ canTrade =>
    <<form.quote.amount, form.quote.route, form.quote.of>> = <<form.amount, form.route, address>>

\* A swap that lands pays what the trader was shown when they pressed the
\* button, less no more than the tolerance then chosen, whatever the market did
\* in between (onSubmit, applySlippage, min_out).
PaysWhatWasShown ==
  page = "trade" /\ phase = "done" =>
    job.min * BpsDenominator > job.quoted * (BpsDenominator - job.slip) - BpsDenominator

\* A quote that is being waited for comes, or its error does, unless the visitor
\* keeps changing what it is for.
Asking == <<form.amount, form.route>>
QuoteComes ==
  \/ []<>(page = "trade" => form.quoting = {})
  \/ []<><<page = "trade" /\ page' = page /\ Asking' # Asking>>_vars
=============================================================================
