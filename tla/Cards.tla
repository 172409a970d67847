-------------------------------- MODULE Cards --------------------------------
(***************************************************************************)
(* The components the app's pages share: what is on the screen, from which *)
(* read, and under which condition.  A figure is known by the read it is   *)
(* taken from; wording and layout are left out.                            *)
(***************************************************************************)
EXTENDS AppReads, TLC

\* A read of the market is ten simulations; of those the average and the PT
\* reserve stand for the early ones and the rest for the late ones.
MarketOf(answer) ==
  LET early == Ledgers[answer.at] late == Ledgers[answer.upTo] IN
  [exchangeRate |-> early.rate, impliedApy |-> early.twap, twapWarmingUp |-> late.warming,
   pool |-> [late.pool EXCEPT !.pt = early.pool.pt], seemsMatured |-> early.seemsMatured]

MarketKnown == shown["market"] # Blank
market      == MarketOf(shown["market"])
rates       == IF shown["rates"] = Blank THEN {} ELSE {Ledgers[shown["rates"].at].apr}

PositionKnown == shown["position"] # Blank
heldPosition  == Ledgers[shown["position"].at].position[shown["position"].of]

\* What the wallet has in Blend, as its page read it.
blendPosition == Ledgers[shown["blend"].at].blend[shown["blend"].of]
BlendDeposit  == shown["blend"] # Blank /\ blendPosition.value > 0

\* While loading, a skeleton: no figure.
LiveValue(h, loading) == IF loading THEN {} ELSE {[from |-> h, answer |-> shown[h]]}

Figures(h)   == LiveValue(h, FALSE)
Stat(h)      == LiveValue(h, ~Settled(h))
MaturityBadge == Figures("market")
PositionCard  == Figures("position")

\* Nothing for a wallet without a deposit; the loan only with one.
BlendPositionCard(variant) ==
  IF BlendDeposit
  THEN [figures |-> Figures("blend") \cup Figures("rates"),
        borrowed |-> variant = "full" /\ blendPosition.borrowed > 0]
  ELSE [figures |-> {}, borrowed |-> FALSE]

YieldSourceCard == Figures("market") \cup LiveValue("rates", rates = {})

AmountField(amount, error, max) ==
  [amount |-> amount, error |-> error, max |-> IF max > 0 THEN {max} ELSE {}]

SubmitButton(ph, disabled) ==
  [enabled |-> ~disabled,
   label   |-> IF address = Nobody THEN "connect" ELSE IF ph = "working" THEN "step" ELSE "action"]

\* The contracts' codes.
AmmError ==
  <<"AlreadyInitialized", "NotInitialized", "InvalidMaturity", "InvalidAmount",
    "InvalidScalarRoot", "InvalidAnchor", "InvalidFee", "InvalidTwapWindow",
    "MarketNotSeeded", "Matured", "SlippageExceeded", "InsufficientLiquidity">>
TokenizerError ==
  <<"AlreadyInitialized", "NotInitialized", "InvalidMaturity", "InvalidAmount",
    "AmountMismatch", "Matured", "MathOverflow", "LiveMarket", "Insolvent">>
SyError ==
  <<"AlreadyInitialized", "NotInitialized", "InvalidAmount", "InvalidExchangeRate",
    "InsufficientBalance", "MathOverflow">>
ErrorsOf == [amm |-> AmmError, tokenizer |-> TokenizerError, sy |-> SyError]

\* By context and code, what the page says has happened.
MESSAGES ==
  [amm       |-> 4 :> "InvalidAmount" @@ 9 :> "MarketNotSeeded" @@ 10 :> "Matured"
                 @@ 11 :> "SlippageExceeded" @@ 12 :> "InsufficientLiquidity",
   tokenizer |-> 3 :> "InvalidMaturity" @@ 4 :> "InvalidAmount" @@ 5 :> "AmountMismatch"
                 @@ 6 :> "Matured" @@ 7 :> "InsufficientBalance" @@ 8 :> "LiveMarket"
                 @@ 9 :> "MathOverflow",
   sy        |-> 3 :> "InvalidAmount" @@ 4 :> "InvalidExchangeRate" @@ 5 :> "InsufficientBalance"
                 @@ 6 :> "MathOverflow" @@ 12 :> "NotAuthorized"]

\* A code the table lacks is shown as a number.
describeError(error, ctx) ==
  IF error.code \in DOMAIN MESSAGES[ctx] THEN MESSAGES[ctx][error.code] ELSE "failed"

TxStatus(ph, ctx) ==
  [kind |-> IF ph = "done" THEN "confirmed" ELSE IF ph = "error" THEN "error" ELSE "nothing",
   text |-> IF ph = "error" THEN describeError(job.error, ctx) ELSE "none",
   context |-> ctx]

-----------------------------------------------------------------------------
\* The two rates a visitor chooses between.

fixedRateDisplay ==
  IF ~MarketKnown THEN [tone |-> "idle"]
  ELSE IF market.pool.pt <= 0 \/ market.pool.sy <= 0 THEN [tone |-> "warning"]
  ELSE IF market.twapWarmingUp THEN [tone |-> "warning"]
  ELSE [tone |-> "live", apy |-> market.impliedApy]

variableRateDisplay == IF rates = {} THEN "idle" ELSE "live"

YieldChoiceCard == [fixed |-> fixedRateDisplay, variable |-> variableRateDisplay]
=============================================================================
