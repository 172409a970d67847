-------------------------------- MODULE App --------------------------------
(***************************************************************************)
(* The app: one of its pages is mounted at a time, on top of the wallet    *)
(* and the chain, which outlive it.                                        *)
(***************************************************************************)
EXTENDS TradePage, PoolPage, PortfolioPage, MintPage, StrategyPage, BlendPanel

\* What the reads find in a ledger: the market, and what each wallet has in it,
\* in Blend and of the underlying.
Contents ==
  [rate : Nat \ {0}, twap : Int, warming : BOOLEAN, apr : Int, pays : [DIRECTIONS -> Nat],
   pool : Pools, matured : BOOLEAN, seemsMatured : BOOLEAN, lpBalance : [Users -> Nat],
   holds : Nat, usdc : [Users -> Nat],
   blend : [Users -> [value : Nat, borrowed : Nat]],
   position : [Users -> [pt : Nat, yt : Nat, sy : Nat, yield : Nat]]]

\* Time does not run backwards: a market that has matured stays so.
ASSUME AppAssumption ==
  /\ Pages \subseteq {"trade", "pool", "portfolio", "mint", "strategy", "panel"}
  /\ Ledgers \in Seq(Contents)
  /\ \A j, k \in DOMAIN Ledgers : j <= k /\ Ledgers[j].matured => Ledgers[k].matured

First(p) ==
  CASE p = "trade" -> TradeFirst [] p = "pool" -> PoolFirst
    [] p = "portfolio" -> PortfolioFirst [] p = "mint" -> MintFirst
    [] p = "strategy" -> StrategyFirst [] p = "panel" -> PanelFirst

AppInit == \E p \in Pages : OpenPage(p, First(p))

\* An answer renders the page; the panel's effect looks at what it brought.
PageReading ==
  Reading /\ form' = IF page = "panel" THEN Rerendered(form, address, shown') ELSE form

\* The panel's flows end in actions of their own.
PageFails == page # "panel" /\ Fails

AppNext ==
  \/ TradeNext \/ PoolNext \/ PortfolioNext \/ MintNext \/ StrategyNext \/ PanelNext
  \/ LedgerCloses \/ PageReading \/ PageFails
  \/ \E p \in Pages : Navigate(p, First(p))

\* A debounce fires, and a quote is answered or fails after the attempts that a
\* read has (SdkReads).  Nothing is owed of the visitor, the wallet, the chain, or
\* of what the page awaits without a limit of its own.
AppSpec == AppInit /\ [][AppNext]_vars /\ WF_vars(TradeQuoting)

-----------------------------------------------------------------------------

Screen ==
  CASE page = "trade" -> TradeRail
    [] page = "pool" -> PoolRail
    [] page = "portfolio" -> PortfolioFigures
    [] page = "mint" -> MintFigures
    [] page = "strategy" -> StrategyMetrics.figures
    [] page = "panel" -> PanelView.figures

\* The status lines of the pages with several forms, by form.
StatusLines ==
  IF page = "pool" THEN [add |-> AddView.status, remove |-> RemoveView.status]
  ELSE [f \in DOMAIN RedeemForms |-> RedeemForms[f].status]

\* A page that is not waiting for a read shows the connected wallet its own
\* balances, never those of a wallet that was connected before, however the
\* reads of the two overlapped (the cleanups of usePosition.ts and the rest).
ShowsOwnBalances ==
  \A figure \in Screen :
    figure.from \notin {"market", "rates"} /\ Settled(figure.from) /\ figure.answer # Blank
      => figure.answer.of = address

\* What a page reads again for its own transaction.  The rates and, outside the
\* pool page, the market are read once; so is the mint page's balance of the
\* underlying, which the faucet refreshes and a deposit does not.
Refetches(h) == h \in {"position", "lp", "blend"} \/ (h = "market" /\ page = "pool")

\* Once the reads a confirmed transaction sets off are answered, what they show
\* is as new as the ledger of that transaction, but for the lag of the node: a
\* read that began before it cannot put older balances back (refreshKey).
SeesOwnTransaction ==
  \A figure \in Screen :
    phase = "done" /\ Refetches(figure.from) /\ Settled(figure.from) /\ figure.answer # Blank
    => hash <= figure.answer.at + Lag

\* On a page with several forms, "confirmed" or an error stands under the form
\* whose button was pressed, and only there (activeAction).
StatusIsUnderItsForm ==
  page \in {"pool", "portfolio"} /\ phase \in {"done", "error"} =>
    \A f \in DOMAIN StatusLines : StatusLines[f].kind # "nothing" <=> f = job.op

\* A connected visitor who has typed an amount and still cannot press the
\* button is told why: something is under way or the page names what is wrong.
\* A deposit too small for a share is previewed as none.  The Blend panel's button
\* closes for a transaction only.
SaysWhyNot ==
  address # Nobody /\ phase # "working" =>
    CASE page = "trade" -> form.amount # NoAmount /\ ~TradeButton.enabled =>
           TradeForm.spinner \/ TradeForm.field.error \/ priceImpactTooHigh \/ QuotePanel.kind = "error"
      [] page = "pool" -> form.pt # 0 /\ form.sy # 0 /\ ~AddView.button.enabled =>
           \/ AddView.notice # "none" \/ \E f \in AddView.fields : f.error
           \/ \E p \in AddView.preview : p.out.lpOut = 0
      [] page = "mint" -> form.amount # 0 /\ ~MintButton.enabled =>
           MintForm.field.error \/ ReceiptPreview.noMarket
      [] page = "portfolio" ->
           /\ form.amount # 0 /\ ~RedeemForms.redeem.button.enabled => RedeemForms.redeem.field.error
           /\ form.syAmount # 0 /\ ~RedeemForms.unwrap.button.enabled => RedeemForms.unwrap.field.error
      [] page = "panel" -> PanelView.shown => PanelView.button.enabled
      [] OTHER -> TRUE

\* The visitor can tell how things stand: an outcome stands where it belongs, a
\* button that stays closed is explained, and a strategy without a market shows no
\* figures of one.  That a button is open does not say that nothing is under way:
\* the Blend panel's stays open before and between its flows.
SaysWhatGoesOn == StatusIsUnderItsForm /\ SaysWhyNot /\ OffersOnlyWhatIsLive

\* What the mint and portfolio pages said would be received is received when the
\* transaction lands at the rate they had read.  They have no tolerance: once the
\* rate has risen, a deposit brings fewer shares than shown, and once it has
\* fallen, an unwrapping brings less; but never the other way round.  A split,
\* which is of the shares shown, brings no less PT and YT unless the rate fell,
\* whatever the deposit before it brought (the wallet's own SY makes up for it).
ReceiptIsKept ==
  phase = "done" =>
    CASE page = "mint" -> \A promised \in job.preview :
           /\ job.got.rate = Ledgers[job.seen].rate => job.got.syOut = promised.syOut
           /\ job.got.rate <= Ledgers[job.seen].rate => promised.syOut <= job.got.syOut
           /\ job.steps = 2 /\ Ledgers[job.seen].rate <= Ledgers[hash - 1].rate
                => promised.splitOut <= job.got.splitOut
      [] page = "portfolio" /\ job.op = "unwrap" -> \A promised \in job.preview :
           /\ Ledgers[job.seen].rate = Ledgers[hash - 1].rate => job.got = promised
           /\ Ledgers[job.seen].rate <= Ledgers[hash - 1].rate => promised <= job.got
      [] OTHER -> TRUE

\* Once the reads that a confirmed transaction or a faucet's grant sets off are
\* answered, what they show has it, and it cannot be put back by a read begun
\* before (refreshKey, faucetRefresh).
SeesWhatLanded == SeesOwnTransaction /\ SeesGrant

\* A quote on display is for what the page would send now: the amount, route
\* and wallet of the trade form, the deposit of the Blend panel (the cleanups
\* of the two quote effects).
QuotesAreCurrent == QuoteIsForTheForm /\ SaleQuoteIsCurrent

\* What lands is what was shown when the button was pressed, to the last unit, in
\* a market that has not changed since it was read.  In one that has, a swap and a
\* change of liquidity bring no less than the tolerance allows, or do not land; a
\* deposit or an unwrapping brings what the rate then is (lpPreview.ts, slippage.ts,
\* the previews and the minimum outputs of the pages).
GetsWhatWasShown ==
  PreviewIsExact /\ ReceiptIsKept /\ PaysWhatWasShown /\ LiquidityWithinTolerance

\* A page's words for a contract's error say what the contract meant by it
\* (errors.ts: a numeric error code maps to the right message).
ErrorIsExplained ==
  phase = "error" /\ job.error # NoError =>
    LET status == CASE page = "trade" -> TradeStatus [] page \in {"mint", "panel"} -> MintStatus
                    [] page \in {"pool", "portfolio"} -> StatusLines[job.op]
    IN  status.text \in {ErrorsOf[job.error.contract][job.error.code], "failed"}
=============================================================================
