------------------------------ MODULE PoolPage ------------------------------
(***************************************************************************)
(* The pool page: a deposit of PT and SY and a withdrawal of LP shares,    *)
(* each with a preview worked out from the market the page last read, and  *)
(* minimum outputs worked out from that preview.                           *)
(***************************************************************************)
EXTENDS Cards, LpPreview

CONSTANTS
  PoolAmounts       \* what may be typed into the three fields

ASSUME PoolPageAssumption == PoolAmounts \subseteq Nat \ {0}

PoolFirst == [active |-> "none", pt |-> 0, sy |-> 0, lp |-> 0, slip |-> DEFAULT_SLIPPAGE_BPS]

poolSeeded  == MarketKnown /\ ~EmptyPool(market.pool)
matured     == MarketKnown /\ market.seemsMatured

\* Balances are only compared once they have been read.
overBalance(n) ==
  shown["position"] # Blank /\ n > Ledgers[shown["position"].at].holds

\* null while a field is empty or the market is not known
addPreview ==
  IF form.pt = 0 \/ form.sy = 0 \/ ~MarketKnown THEN zeroAddPreview("null")
  ELSE previewAddLiquidity(form.pt, form.sy, market.pool)
removePreview ==
  IF form.lp = 0 \/ ~MarketKnown THEN zeroRemovePreview("null")
  ELSE previewRemoveLiquidity(form.lp, market.pool)

lpError ==
  \/ shown["lp"] # Blank /\ form.lp > Ledgers[shown["lp"].at].lpBalance[shown["lp"].of]
  \/ removePreview.reason = "ok" /\ form.lp >= market.pool.lp

canAdd ==
  /\ address # Nobody
  /\ poolSeeded /\ ~matured
  /\ addPreview.reason = "ok"
  /\ ~overBalance(form.pt) /\ ~overBalance(form.sy)
  /\ phase # "working"

canRemove ==
  /\ address # Nobody
  /\ removePreview.reason = "ok"
  /\ ~lpError
  /\ phase # "working"

\* Each form has its button and, while it was the last one used, the state of
\* the transaction under it.
PoolPhase(f)  == IF form.active = f THEN phase ELSE "idle"
PoolStatus(f) == IF form.active = f THEN TxStatus(phase, "amm") ELSE TxStatus("idle", "amm")

AddView ==
  [fields  |-> {AmountField(form.pt, overBalance(form.pt), 0), AmountField(form.sy, overBalance(form.sy), 0)},
   notice  |-> IF matured THEN "closed" ELSE IF ~poolSeeded THEN "unseeded" ELSE "none",
   preview |-> IF addPreview.reason = "null" THEN {}
               ELSE {[out |-> addPreview, minLpOut |-> applySlippage(addPreview.lpOut, form.slip)]},
   button  |-> SubmitButton(PoolPhase("add"), ~canAdd),
   status  |-> PoolStatus("add")]

RemoveView ==
  [field   |-> AmountField(form.lp, lpError, 0),
   preview |-> IF removePreview.reason = "null" THEN {}
               ELSE {[out |-> removePreview,
                      minPtOut |-> applySlippage(removePreview.ptOut, form.slip),
                      minSyOut |-> applySlippage(removePreview.syOut, form.slip)]},
   button  |-> SubmitButton(PoolPhase("remove"), ~canRemove),
   status  |-> PoolStatus("remove")]

\* The header, the pool's figures and the LP position.
PoolRail ==
  MaturityBadge \cup PositionCard \cup YieldSourceCard \cup Stat("market") \cup Figures("lp")

\* One setting for both forms, at any time.
SlippageControl(s) == Setting("pool", [form EXCEPT !.slip = s])

onAddLiquidity ==
  /\ page = "pool" /\ canAdd
  /\ Submit([page |-> "pool", op |-> "add", of |-> address, pt |-> form.pt, sy |-> form.sy,
             slip |-> form.slip, pool |-> market.pool, preview |-> addPreview,
             minLpOut |-> applySlippage(addPreview.lpOut, form.slip), got |-> addPreview, error |-> NoError],
            [form EXCEPT !.active = "add"])

onRemoveLiquidity ==
  /\ page = "pool" /\ canRemove
  /\ Submit([page |-> "pool", op |-> "remove", of |-> address, lp |-> form.lp,
             slip |-> form.slip, pool |-> market.pool, preview |-> removePreview,
             minPtOut |-> applySlippage(removePreview.ptOut, form.slip),
             minSyOut |-> applySlippage(removePreview.syOut, form.slip), got |-> removePreview, error |-> NoError],
            [form EXCEPT !.active = "remove"])

\* The pool contract, on its reserves of the moment.
Deposited ==
  LET pool   == Now.pool
      minted == Mints(job.pt, job.sy, pool)
  IN  /\ page = "pool" /\ job.page = "pool" /\ job.op = "add"
      /\ ~Now.matured /\ ~EmptyPool(pool)
      /\ minted > 0 /\ minted >= job.minLpOut
      /\ Confirmed([job EXCEPT !.got.lpOut = minted,
                               !.got.ptUsed = Takes(pool.pt, minted, pool),
                               !.got.syUsed = Takes(pool.sy, minted, pool)])

Withdrawn ==
  LET pool == Now.pool
      pt   == Redeems(pool.pt, job.lp, pool)
      sy   == Redeems(pool.sy, job.lp, pool)
  IN  /\ page = "pool" /\ job.page = "pool" /\ job.op = "remove"
      /\ ~EmptyPool(pool)
      /\ job.lp <= Now.lpBalance[job.of] /\ job.lp < pool.lp
      /\ pt > 0 \/ sy > 0
      /\ pt >= job.minPtOut /\ sy >= job.minSyOut
      /\ Confirmed([job EXCEPT !.got.ptOut = pt, !.got.syOut = sy])

PoolRefused ==
  /\ page = "pool" /\ phase = "working"
  /\ \/ job.op = "add" /\ Now.matured /\ Refused("amm", 10)
     \/ job.op = "add" /\ Mints(job.pt, job.sy, Now.pool) < job.minLpOut /\ Refused("amm", 11)

PoolWallet(a) == page = "pool" /\ AddressChanges(a, form)

PoolNext ==
  \/ \E n \in PoolAmounts \cup {0} :
       \/ Fields("pool", [form EXCEPT !.pt = n])
       \/ Fields("pool", [form EXCEPT !.sy = n])
       \/ Fields("pool", [form EXCEPT !.lp = n])
  \/ \E s \in Tolerances : SlippageControl(s)
  \/ onAddLiquidity \/ onRemoveLiquidity
  \/ Deposited \/ Withdrawn \/ PoolRefused
  \/ \E a \in Users \cup {Nobody} : PoolWallet(a)

-----------------------------------------------------------------------------

Finished == page = "pool" /\ phase = "done"

\* What the preview promised is what the pool does when the pool is as the page
\* read it: the page's arithmetic, rounding included, is the contract's
\* (previewAddLiquidity, add_liquidity).
PreviewIsExact ==
  Finished /\ job.pool = Ledgers[hash - 1].pool => job.got = job.preview

\* When the pool has moved, or was read in part before and in part after it
\* moved, a deposit still takes no more than was typed, and no output is further
\* below its preview than the tolerance chosen (the mins of onAddLiquidity and
\* onRemoveLiquidity).
Close(got, preview) == got * BpsDenominator > preview * (BpsDenominator - job.slip) - BpsDenominator
LiquidityWithinTolerance ==
  Finished =>
    CASE job.op = "add" ->
           /\ job.got.ptUsed <= job.pt /\ job.got.syUsed <= job.sy
           /\ Close(job.got.lpOut, job.preview.lpOut)
      [] job.op = "remove" ->
           /\ Close(job.got.ptOut, job.preview.ptOut)
           /\ Close(job.got.syOut, job.preview.syOut)
=============================================================================
