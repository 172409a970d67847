----------------------------- MODULE BlendPanel -----------------------------
(***************************************************************************)
(* The panel of the mint page that moves a Blend deposit into the market,  *)
(* followed on a page of its own: what it shows, the quote it asks for     *)
(* whenever what it depends on changes, and the start of its flow (whose   *)
(* transactions are TokenizeFlow's; here a flow only ends).                *)
(***************************************************************************)
EXTENDS Cards, LpPreview

CONSTANT MaxPresses   \* times the button is pressed (bound)

ASSUME PanelAssumption == MaxPresses \in Nat

NoSale == [kind |-> "none"]

PanelFirst ==
  [mode |-> "keep", quote |-> NoSale, asking |-> {}, presses |-> 0, starting |-> {}, runs |-> {}]

\* The face the split will give, as far as the page can tell; 0 without a
\* market or a deposit.
FaceAt(value, rate) == (((value * WAD) \div rate) * rate) \div WAD

HasDeposit(known) ==
  known["blend"] # Blank /\ Ledgers[known["blend"].at].blend[known["blend"].of].value > 0

estimatedFace(known) ==
  IF known["market"] = Blank \/ ~HasDeposit(known) THEN 0
  ELSE FaceAt(Ledgers[known["blend"].at].blend[known["blend"].of].value, MarketOf(known["market"]).exchangeRate)

\* What the quote's effect depends on; anyone may ask (from a simulation account).
SaleDeps(mode, user, known) ==
  [mode |-> mode, of |-> user, market |-> known["market"], face |-> estimatedFace(known)]

isEligible == MarketKnown /\ BlendDeposit

WantsQuote(deps, face) == deps.mode = "fixed" /\ deps.market # Blank /\ face > 0

\* The panel after a render with this mode, wallet and knowledge: when the
\* dependencies changed, the read under way is cancelled and another begins.
Rerendered(fields, user, known) ==
  LET before == SaleDeps(form.mode, address, shown)
      after  == SaleDeps(fields.mode, user, known)
      face   == estimatedFace(known)
  IN  IF before = after THEN fields
      ELSE [fields EXCEPT
              !.quote  = NoSale,
              !.asking = {[r EXCEPT !.cancelled = TRUE] : r \in {x \in form.asking : ~x.cancelled}} \cup
                (IF WantsQuote(after, face) THEN {[face |-> face, of |-> user, cancelled |-> FALSE]} ELSE {})]

PickMode(m) == page = "panel" /\ Fields("panel", Rerendered([form EXCEPT !.mode = m], address, shown))

SaleOutcomes(r) == {[kind |-> "unavailable"], [kind |-> "quote", face |-> r.face, of |-> r.of]}

SaleQuoteEnds(r, outcome) ==
  Fields("panel", [form EXCEPT !.asking = @ \ {r}, !.quote = IF r.cancelled THEN @ ELSE outcome])

SaleQuoting ==
  page = "panel" /\ \E r \in form.asking : \E outcome \in SaleOutcomes(r) : SaleQuoteEnds(r, outcome)

\* What the sale will bring, or that this is not known (yet).
ReceiptOfSale ==
  CASE form.mode = "keep" -> "yt kept"
    [] form.mode = "fixed" -> form.quote.kind

PanelView ==
  [shown    |-> isEligible,
   figures  |-> IF isEligible THEN Figures("blend") \cup Figures("market") ELSE {},
   steps    |-> IF form.mode = "fixed" THEN 4 ELSE 3,
   choice   |-> YieldChoiceCard,
   receipt  |-> ReceiptOfSale,
   borrowed |-> isEligible /\ blendPosition.borrowed > 0,
   saleFailed |-> phase = "error" /\ job.sale,
   button   |-> SubmitButton(phase, address = Nobody \/ phase = "working" \/ ~isEligible)]

\* The flow as it was captured when the button was pressed.
PanelJob ==
  [page |-> "panel", op |-> form.mode, of |-> address, position |-> shown["blend"],
   id |-> form.presses, sale |-> FALSE, error |-> NoError]

\* A "keep" flow starts at once.  A "fixed" one first reads the wallet's YT, and
\* until that is answered the button stays enabled.
onTokenize ==
  /\ page = "panel" /\ PanelView.button.enabled /\ form.presses < MaxPresses
  /\ IF form.mode = "keep"
     THEN Submit(PanelJob, [form EXCEPT !.presses = @ + 1, !.runs = @ \cup {PanelJob}])
     ELSE Fields("panel", [form EXCEPT !.presses = @ + 1, !.starting = @ \cup {PanelJob}])

Starts(j) ==
  Submit(j, [form EXCEPT !.starting = @ \ {j}, !.runs = @ \cup {j}])

\* The read fails: the handler's promise is rejected and nobody is told.
StartFails(j) == Fields("panel", [form EXCEPT !.starting = @ \ {j}])

Starting == page = "panel" /\ \E j \in form.starting : Starts(j) \/ StartFails(j)

\* The last transaction of a flow is confirmed; of two flows under way, each
\* sets the one phase.
RunLands(j) ==
  /\ ledger < Height
  /\ ledger' = ledger + 1 /\ phase' = "done" /\ hash' = ledger + 1 /\ job' = j
  /\ form' = [form EXCEPT !.runs = @ \ {j}]
  /\ EffectsRun(address, KeyOf("done", ledger + 1, form), ledger + 1)
  /\ UNCHANGED <<page, address, moves>>

\* `sale': it was the last of four, the sale.
RunFails(j, sale) ==
  /\ phase' = "error" /\ job' = [j EXCEPT !.sale = sale] /\ form' = [form EXCEPT !.runs = @ \ {j}]
  /\ EffectsRun(address, KeyOf("error", hash, form), ledger)
  /\ UNCHANGED <<page, address, moves, ledger, hash>>

\* A disconnected wallet leaves no deposit on the page; another one's is shown
\* until its own is read.
PanelWallet(a) ==
  /\ page = "panel"
  /\ AddressChanges(a, Rerendered(form, a, IF a = Nobody THEN [shown EXCEPT !["blend"] = Blank] ELSE shown))

PanelNext ==
  \/ \E m \in {"keep", "fixed"} : PickMode(m)
  \/ SaleQuoting
  \/ onTokenize \/ Starting
  \/ page = "panel" /\ \E j \in form.runs : RunLands(j) \/ RunFails(j, FALSE) \/ (j.op = "fixed" /\ RunFails(j, TRUE))
  \/ \E a \in Users \cup {Nobody} : PanelWallet(a)

-----------------------------------------------------------------------------

\* A sale quote on the panel is for the amount the panel shows, now: it goes
\* when a refreshed deposit, another wallet or the other mode changes what
\* would be sold, and an answer to an earlier one is not put in its place (the
\* effect of TokenizeBlendPanel).
SaleQuoteIsCurrent ==
  page = "panel" /\ form.quote.kind = "quote" =>
    form.mode = "fixed" /\ form.quote.face = estimatedFace(shown) /\ form.quote.of = address

\* The deposit the flow is computed from is the wallet's own
\* (useBlendPosition.ts: the connected wallet's deposit, null while loading).
TokenizesOwnPosition ==
  page = "panel" => \A j \in form.starting \cup form.runs : j.position.of = j.of
=============================================================================
