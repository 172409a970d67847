------------------------------- MODULE AppProofs -------------------------------
(***************************************************************************)
(* The pages: whatever the ledgers hold, whichever reads are answered      *)
(* late, twice replaced or of different ledgers, and whatever the visitor  *)
(* does meanwhile.                                                         *)
(***************************************************************************)
EXTENDS App, FixedPointProofs, TLAPS

-----------------------------------------------------------------------------
(* Arithmetic: the pages' own and the contracts' come to the same.         *)

LEMMA SlippageInNat ==
  ASSUME NEW out \in Nat, NEW slip \in Tolerances
  PROVE  applySlippage(out, slip) \in Nat
<1>1. BpsDenominator - slip \in Nat /\ BpsDenominator \in Nat \ {0}
  BY BpsAssumption
<1> QED  BY <1>1, FloorBounds DEF applySlippage

LEMMA ToleranceBound ==
  ASSUME NEW out \in Nat, NEW slip \in Tolerances, NEW got \in Nat, got >= applySlippage(out, slip)
  PROVE  got * BpsDenominator > out * (BpsDenominator - slip) - BpsDenominator
<1> DEFINE d == BpsDenominator
           n == out * (d - slip)
<1>1. d \in Nat \ {0} /\ slip \in Nat /\ d - slip \in Nat
  BY BpsAssumption
<1>2. n \in Nat
  BY <1>1, ProductInNat
<1>3. applySlippage(out, slip) = n \div d
  BY DEF applySlippage, MulDivFloor
<1> HIDE DEF n
<1>4. n \div d \in Nat /\ n < d * (n \div d) + d
  BY <1>1, <1>2, DivBounds
<1>5. (n \div d) * d <= got * d
  BY <1>1, <1>3, <1>4, ProductMonotone
<1>6. got * d \in Nat /\ (n \div d) * d \in Nat /\ (n \div d) * d = d * (n \div d)
  BY <1>1, <1>4, ProductInNat
<1> HIDE DEF d
<1>7. got * d > n - d
  BY <1>1, <1>2, <1>4, <1>5, <1>6
<1> QED  BY <1>7 DEF n, d

LEMMA RoundsUpAlike ==
  ASSUME NEW a \in Nat, NEW b \in Nat, NEW c \in Nat \ {0}
  PROVE  mulDivUp(a, b, c) = MulDivCeil(a, b, c)
<1> DEFINE n == a * b
           q == n \div c
           m == n % c
<1>1. n \in Nat
  BY ProductInNat
<1> HIDE DEF n
<1>2. q \in Nat /\ m \in 0 .. (c - 1) /\ n = c * q + m
  BY <1>1
<1> HIDE DEF q, m
<1>3. CASE m = 0
  <2>1. (n + c - 1) \div c = q
    <3>1. n + c - 1 = c * q + (c - 1) /\ c - 1 \in 0 .. (c - 1)
      BY <1>1, <1>2, <1>3
    <3> QED  BY <1>2, <3>1
  <2> QED  BY <1>3, <2>1 DEF mulDivUp, MulDivCeil, n, q, m
<1>4. CASE m # 0
  <2>1. (n + c - 1) \div c = q + 1
    <3>1. n + c - 1 = c * (q + 1) + (m - 1) /\ m - 1 \in 0 .. (c - 1) /\ q + 1 \in Nat
      BY <1>1, <1>2, <1>4
    <3> QED  BY <1>2, <3>1
  <2> QED  BY <1>4, <2>1 DEF mulDivUp, MulDivCeil, n, q, m
<1> QED  BY <1>3, <1>4

\* An LP share of both reserves costs no more than what was given for it.
LEMMA TakesNoMore ==
  ASSUME NEW given \in Nat, NEW total \in Nat, NEW minted \in Nat, NEW pool \in Pools,
         total > 0, pool.lp > 0, minted <= MulDivFloor(given, pool.lp, total)
  PROVE  Takes(total, minted, pool) \in Nat /\ Takes(total, minted, pool) <= given
<1> DEFINE l == pool.lp
           most == MulDivFloor(given, l, total)
<1>1. l \in Nat \ {0} /\ total \in Nat \ {0}
  BY DEF Pools
<1>2. most \in Nat /\ most * total <= given * l
  BY <1>1, FloorBounds
<1> HIDE DEF most, l
<1>3. minted * total <= most * total
  BY <1>2, ProductMonotone DEF most, l
<1>4. total * minted <= given * l
  <2>1. total * minted = minted * total /\ minted * total \in Nat /\ most * total \in Nat /\ given * l \in Nat
    BY <1>1, <1>2, ProductInNat
  <2> QED  BY <1>2, <1>3, <2>1
<1> QED  BY <1>1, <1>4, CeilIsLeast, CeilBounds DEF Takes, l

\* What the previews that are shown promise is what the contract computes.
PromisesLp(p, pt, sy, pool) ==
  /\ DOMAIN p = {"reason", "lpOut", "ptUsed", "syUsed", "ptUnused", "syUnused", "shareBpsAfter"}
  /\ p.lpOut \in Nat /\ p.lpOut = Mints(pt, sy, pool)
  /\ p.ptUsed = Takes(pool.pt, p.lpOut, pool) /\ p.syUsed = Takes(pool.sy, p.lpOut, pool)
  /\ p = [p EXCEPT !.lpOut = p.lpOut, !.ptUsed = p.ptUsed, !.syUsed = p.syUsed]

PromisesTokens(p, n, pool) ==
  /\ DOMAIN p = {"reason", "ptOut", "syOut", "shareBps"}
  /\ p.ptOut \in Nat /\ p.ptOut = Redeems(pool.pt, n, pool)
  /\ p.syOut \in Nat /\ p.syOut = Redeems(pool.sy, n, pool)
  /\ p = [p EXCEPT !.ptOut = p.ptOut, !.syOut = p.syOut]

LEMMA AddIsPreviewed ==
  ASSUME NEW pt \in Nat, NEW sy \in Nat, NEW pool \in Pools,
         previewAddLiquidity(pt, sy, pool).reason = "ok"
  PROVE  PromisesLp(previewAddLiquidity(pt, sy, pool), pt, sy, pool)
<1> DEFINE p == previewAddLiquidity(pt, sy, pool)
           m == Mints(pt, sy, pool)
<1>1. /\ pool.pt \in Nat \ {0} /\ pool.sy \in Nat \ {0} /\ pool.lp \in Nat \ {0}
      /\ DOMAIN p = {"reason", "lpOut", "ptUsed", "syUsed", "ptUnused", "syUnused", "shareBpsAfter"}
      /\ p.lpOut = LpFor(pt, sy, pool)
      /\ p.ptUsed = mulDivUp(pool.pt, p.lpOut, pool.lp) /\ p.syUsed = mulDivUp(pool.sy, p.lpOut, pool.lp)
  BY DEF previewAddLiquidity, zeroAddPreview, EmptyPool, Pools
<1>2. p.lpOut = m
  BY <1>1 DEF LpFor, Mints, MulDivFloor
<1>3. p = [p EXCEPT !.lpOut = p.lpOut, !.ptUsed = p.ptUsed, !.syUsed = p.syUsed]
  BY DEF previewAddLiquidity, zeroAddPreview
<1> HIDE DEF p
<1>4. MulDivFloor(pt, pool.lp, pool.pt) \in Nat /\ MulDivFloor(sy, pool.lp, pool.sy) \in Nat
  BY <1>1, FloorBounds
<1>5. m \in Nat
  BY <1>4 DEF Mints, Least
<1> HIDE DEF m
<1>6. p.ptUsed = Takes(pool.pt, m, pool) /\ p.syUsed = Takes(pool.sy, m, pool)
  BY <1>1, <1>2, <1>5, RoundsUpAlike DEF Takes
<1> QED  BY <1>1, <1>2, <1>3, <1>5, <1>6 DEF PromisesLp, p, m

LEMMA RemoveIsPreviewed ==
  ASSUME NEW n \in Nat, NEW pool \in Pools, previewRemoveLiquidity(n, pool).reason = "ok"
  PROVE  PromisesTokens(previewRemoveLiquidity(n, pool), n, pool)
<1> DEFINE p == previewRemoveLiquidity(n, pool)
<1>1. /\ pool.pt \in Nat /\ pool.sy \in Nat /\ pool.lp \in Nat \ {0}
      /\ DOMAIN p = {"reason", "ptOut", "syOut", "shareBps"}
      /\ p.ptOut = (n * pool.pt) \div pool.lp /\ p.syOut = (n * pool.sy) \div pool.lp
  BY DEF previewRemoveLiquidity, zeroRemovePreview, EmptyPool, Pools
<1>2. p = [p EXCEPT !.ptOut = p.ptOut, !.syOut = p.syOut]
  BY DEF previewRemoveLiquidity, zeroRemovePreview
<1> HIDE DEF p
<1>3. n * pool.pt = pool.pt * n /\ n * pool.sy = pool.sy * n
  BY <1>1
<1>4. p.ptOut = Redeems(pool.pt, n, pool) /\ p.syOut = Redeems(pool.sy, n, pool)
  BY <1>1, <1>3 DEF Redeems, MulDivFloor
<1>5. Redeems(pool.pt, n, pool) \in Nat /\ Redeems(pool.sy, n, pool) \in Nat
  BY <1>1, FloorBounds DEF Redeems
<1> QED  BY <1>1, <1>2, <1>4, <1>5 DEF PromisesTokens, p

-----------------------------------------------------------------------------
(* The reads.  The hooks whose answers are a wallet's own.                *)

Own == {"position", "lp", "blend", "underlying"}

Requests == [of : Users \cup {Nobody}, since : Nat \ {0}, cancelled : BOOLEAN]
Replies  == [of : Users \cup {Nobody}, at : Nat, upTo : Nat]

CoreInv ==
  /\ page \in Pages /\ address \in Users \cup {Nobody}
  /\ ledger \in 1 .. Height
  /\ phase \in {"idle", "working", "done", "error"}
  /\ hash \in 0 .. ledger /\ (phase = "done" => hash > 1)
  /\ DOMAIN asked = Hooks /\ DOMAIN shown = Hooks

HookTyped(h) ==
  /\ asked[h] \subseteq Requests
  /\ shown[h] \in Replies /\ shown[h].at <= ledger
  /\ h # "underlying" /\ shown[h] # Blank => shown[h].at # 0 /\ shown[h].upTo \in 1 .. ledger
  /\ h \notin Watched[page] => asked[h] = {} /\ shown[h] = Blank

\* Reads that are not replaced are of the wallet connected; so is what they
\* brought once they are over.
IsOwn(h) ==
  /\ \A r \in Live(h) : r.of = address
  /\ Settled(h) /\ shown[h] # Blank => shown[h].of = address
  /\ address = Nobody => Settled(h) /\ shown[h] = Blank

\* They began no earlier than the ledger of the page's transaction.
IsNew(h) ==
  /\ \A r \in Live(h) : hash <= r.since + Lag
  /\ Settled(h) /\ shown[h] # Blank => hash <= shown[h].at + Lag

HookInv(h) ==
  HookTyped(h) /\ (h \in Own => IsOwn(h)) /\ (Refetches(h) /\ phase = "done" => IsNew(h))

ReadInv == CoreInv /\ \A h \in Hooks : HookInv(h)

\* The four ways in which a step bears on the reads.
Still ==
  /\ UNCHANGED <<page, address, readVars>>
  /\ ledger' \in {ledger, ledger + 1} /\ ledger' <= Height
  /\ phase' \in {phase, "error"} /\ UNCHANGED hash

Refreshes ==
  /\ UNCHANGED page /\ address' \in Users \cup {Nobody}
  /\ EffectsRun(address', RefreshKey', ledger')
  /\ \/ UNCHANGED <<phase, hash, ledger>>
     \/ phase' \in {"working", "error"} /\ UNCHANGED <<hash, ledger, address>>
     \/ /\ phase' = "done" /\ ledger < Height
        /\ ledger' = ledger + 1 /\ hash' = ledger + 1 /\ UNCHANGED address

Turns == \E p \in Pages : Navigate(p, First(p))

LEMMA HeightInNat == Height \in Nat /\ DOMAIN Ledgers = 1 .. Height
<1>1. Ledgers \in Seq(Contents)
  BY AppAssumption
<1> QED  BY <1>1 DEF Height

LEMMA LedgersHold ==
  ASSUME NEW k \in 1 .. Height
  PROVE  Ledgers[k] \in Contents
<1>1. Ledgers \in Seq(Contents)
  BY AppAssumption
<1> QED  BY <1>1 DEF Height

LEMMA SinceIsRecent ==
  ASSUME NEW k \in Nat \ {0}
  PROVE  Since(k) \in 1 .. k /\ k <= Since(k) + Lag
  BY ReadsAssumption DEF Since

LEMMA Felt ==
  ASSUME CoreInv
  PROVE  /\ \A p, next : Fields(p, next) \/ Setting(p, next) => Still
         /\ \A a \in Users \cup {Nobody} : \A next : AddressChanges(a, next) => Refreshes
         /\ \A call, next : Submit(call, next) => Refreshes
         /\ \A done : Confirmed(done) => Refreshes
         /\ \A contract, code : Refused(contract, code) => Still
         /\ Fails => Still
<1> USE HeightInNat DEF CoreInv
<1>1. \A p, next : Fields(p, next) \/ Setting(p, next) => Still
  BY DEF Fields, Setting, Still, txVars
<1>2. \A a \in Users \cup {Nobody} : \A next : AddressChanges(a, next) => Refreshes
  BY DEF AddressChanges, Refreshes, RefreshKey, KeyOf, txVars
<1>3. \A call, next : Submit(call, next) => Refreshes
  BY DEF Submit, Refreshes, RefreshKey, KeyOf
<1>4. \A done : Confirmed(done) => Refreshes
  BY DEF Confirmed, Refreshes, RefreshKey, KeyOf
<1>5. \A error : FailsWith(error) => Still
  BY DEF FailsWith, Still
<1> QED  BY <1>1, <1>2, <1>3, <1>4, <1>5 DEF Refused, Fails

\* Each step of the app is one of the four.
LEMMA FourKinds ==
  ASSUME CoreInv, AppNext
  PROVE  Still \/ Refreshes \/ Turns \/ PageReading
<1>1. CASE LedgerCloses
  BY <1>1, HeightInNat DEF LedgerCloses, Still, txVars, CoreInv
<1>2. CASE TradeNext
  <2>1. TradeQuoting => Still
    BY Felt DEF TradeQuoting, DebounceFires, QuoteFails, QuoteArrives
  <2> QED  BY <1>2, <2>1, Felt
    DEF TradeNext, TypeAmount, PickRoute, PickTolerance, Trade, Traded, TradeRefused, TradeWallet
<1>3. CASE PoolNext
  BY <1>3, Felt DEF PoolNext, SlippageControl, onAddLiquidity, onRemoveLiquidity, Deposited, Withdrawn,
                    PoolRefused, PoolWallet
<1>4. CASE PortfolioNext
  <2>1. \A button, call : Build(button, call) => Still
    BY HeightInNat DEF Build, Still, CoreInv
  <2> QED  BY <1>4, <2>1, Felt DEF PortfolioNext, onClaim, onRedeem, onUnwrap, Press, buildClaimYield,
                    buildRedeem, buildRedeemSy, Redeemed, RedeemRefused, PortfolioWallet
<1>5. CASE MintNext
  <2>1. Granting => Still \/ Refreshes
    <3>1. ASSUME NEW f, GrantLands(f)  PROVE  Still
      BY <3>1, HeightInNat DEF GrantLands, Still, txVars, CoreInv
    <3>2. ASSUME NEW f, GrantSeen(f)  PROVE  Refreshes
      BY <3>2 DEF GrantSeen, Refreshes, RefreshKey, KeyOf, txVars, CoreInv
    <3> QED  BY <3>1, <3>2, Felt DEF Granting, fetchBlendFaucetTransaction, fundWithFriendbot, SignsGrant,
               GrantFails, GoesTo, FlowStep
  <2>2. DepositLands => Still
    BY HeightInNat DEF DepositLands, Still, CoreInv
  <2> QED  BY <1>5, <2>1, <2>2, Felt
    DEF MintNext, onMint, Minted, SplitLands, SplitRefused, onGetTestUsdc, MintWallet
<1>6. CASE StrategyNext
  BY <1>6, Felt DEF StrategyNext
<1>7. CASE PanelNext
  <2>1. ASSUME NEW j, page = "panel", RunLands(j)  PROVE  Refreshes
    <3>1. RefreshKey' = KeyOf("done", ledger + 1, form)
      BY <2>1 DEF RunLands, RefreshKey, KeyOf
    <3> QED  BY <2>1, <3>1 DEF RunLands, Refreshes, CoreInv
  <2>2. ASSUME NEW j, NEW sale, page = "panel", RunFails(j, sale)  PROVE  Refreshes
    <3>1. RefreshKey' = KeyOf("error", hash, form)
      BY <2>2 DEF RunFails, RefreshKey, KeyOf
    <3> QED  BY <2>2, <3>1 DEF RunFails, Refreshes, CoreInv
  <2>3. SaleQuoting => Still
    BY Felt DEF SaleQuoting, SaleQuoteEnds
  <2>4. onTokenize \/ Starting => Still \/ Refreshes
    BY Felt DEF onTokenize, Starting, Starts, StartFails
  <2> QED  BY <1>7, <2>1, <2>2, <2>3, <2>4, Felt DEF PanelNext, PickMode, PanelWallet
<1> QED  BY <1>1, <1>2, <1>3, <1>4, <1>5, <1>6, <1>7, Felt DEF AppNext, Turns, PageFails

LEMMA CoreStays ==
  ASSUME CoreInv, AppNext
  PROVE  CoreInv'
<1> USE DEF CoreInv
<1>1. CASE Still
  BY <1>1 DEF Still, readVars
<1>2. CASE Refreshes
  <2>1. DOMAIN asked' = Hooks /\ DOMAIN shown' = Hooks
    BY <1>2 DEF Refreshes, EffectsRun
  <2> QED  BY <1>2, <2>1, HeightInNat DEF Refreshes
<1>3. CASE Turns
  BY <1>3 DEF Turns, Navigate, FirstReads
<1>4. CASE PageReading
  BY <1>4 DEF PageReading, Reading, ReadEnds, Answer, Unanswered, Ends, txVars
<1> QED  BY <1>1, <1>2, <1>3, <1>4, FourKinds

\* What the hooks depend on.
LEMMA EffectsAre ==
  ASSUME NEW h \in Hooks, NEW user, NEW key
  PROVE  LET e == EffectOf(h, user, key)
         IN  /\ e.of = IF h \in Own THEN user ELSE Nobody
             /\ h \notin Own => e.wants
             /\ h \in Own /\ user = Nobody => ~e.wants
             /\ Refetches(h) => e.key = key /\ (e.wants <=> h = "market" \/ user # Nobody)
  BY DEF Hooks, Own, Refetches, EffectOf, Effect, usePosition, useLpPosition, useBlendPosition,
         useBlendRates, useMarketStatus, useUnderlying

\* An effect that runs asks anew, or empties the hook.
LEMMA EffectRuns ==
  ASSUME CoreInv, NEW h \in Hooks, HookTyped(h), Refreshes
  PROVE  LET e == EffectOf(h, address', RefreshKey')
         IN  \/ /\ asked'[h] = asked[h] /\ shown'[h] = shown[h]
                /\ h \notin Watched[page] \/ e = EffectOf(h, address, RefreshKey)
             \/ /\ h \in Watched[page] /\ asked'[h] \subseteq Requests
                /\ shown'[h] \in {shown[h], Blank}
                /\ \A r \in Live(h)' : r.of = e.of /\ r.since = Since(ledger')
                /\ e.wants => ~Settled(h)'
                /\ ~e.wants => Settled(h)' /\ shown'[h] = Blank
<1> DEFINE e == EffectOf(h, address', RefreshKey')
           runs == h \in Watched[page] /\ e # EffectOf(h, address, RefreshKey)
           replaced == IF Settled(h) THEN asked[h] ELSE Cancelled(h)
<1>1. /\ asked'[h] = IF runs THEN Ask(e, ledger') \cup replaced ELSE asked[h]
      /\ shown'[h] = IF runs /\ (h = "underlying" \/ ~e.wants) THEN Blank ELSE shown[h]
  BY DEF Refreshes, EffectsRun
<1>2. e.of \in Users \cup {Nobody}
  BY EffectsAre DEF Refreshes
<1>3. Since(ledger') \in Nat \ {0}
  BY SinceIsRecent DEF Refreshes, CoreInv
<1>4. replaced \subseteq Requests /\ \A r \in replaced : r.cancelled
  BY DEF HookTyped, Settled, Live, Cancelled, Requests
<1> HIDE DEF e, replaced
<1>5. /\ Ask(e, ledger') \subseteq Requests
      /\ \A r \in Ask(e, ledger') : ~r.cancelled /\ r.of = e.of /\ r.since = Since(ledger')
      /\ e.wants => Ask(e, ledger') # {}
      /\ ~e.wants => Ask(e, ledger') = {}
  <2> DEFINE r == [of |-> e.of, since |-> Since(ledger'), cancelled |-> FALSE]
  <2>1. r \in Requests /\ ~r.cancelled /\ r.of = e.of /\ r.since = Since(ledger')
    BY <1>2, <1>3 DEF Requests
  <2>2. Ask(e, ledger') = IF e.wants THEN {r} ELSE {}
    BY DEF Ask
  <2> QED  BY <2>1, <2>2
<1>6. CASE runs
  <2>1. asked'[h] = Ask(e, ledger') \cup replaced
    BY <1>1, <1>6
  <2>2. Live(h)' = Ask(e, ledger')
    BY <1>4, <1>5, <2>1 DEF Live
  <2> QED  BY <1>1, <1>4, <1>5, <1>6, <2>1, <2>2 DEF Settled, e
<1>7. CASE ~runs
  BY <1>1, <1>7 DEF e
<1> QED  BY <1>6, <1>7

LEMMA RefreshKeepsHook ==
  ASSUME CoreInv, CoreInv', NEW h \in Hooks, HookInv(h), Refreshes
  PROVE  HookInv(h)'
<1> DEFINE e == EffectOf(h, address', RefreshKey')
<1>0. /\ HookTyped(h) /\ UNCHANGED page /\ ledger' \in {ledger, ledger + 1} /\ ledger' \in Nat \ {0}
      /\ ledger \in Nat /\ hash' \in 0 .. ledger' /\ Lag \in Nat
      /\ (Refetches(h)' <=> Refetches(h))
  BY ReadsAssumption DEF HookInv, Refreshes, CoreInv, Refetches
<1>1. CASE /\ asked'[h] = asked[h] /\ shown'[h] = shown[h]
           /\ h \notin Watched[page] \/ e = EffectOf(h, address, RefreshKey)
  <2>1. HookTyped(h)'
    <3>1. shown[h] \in Replies => shown[h].at \in Nat /\ shown[h].upTo \in Nat
      BY DEF Replies
    <3> QED  BY <1>0, <1>1, <3>1 DEF HookTyped
  <2>2. Live(h)' = Live(h) /\ (Settled(h)' <=> Settled(h))
    BY <1>1 DEF Live, Settled
  <2>3. CASE h \notin Watched[page]
    <3>1. Live(h)' = {} /\ Settled(h)' /\ shown'[h] = Blank
      BY <1>1, <1>0, <2>3 DEF HookTyped, Live, Settled
    <3> QED  BY <2>1, <3>1 DEF HookInv, IsOwn, IsNew
  <2>4. CASE e = EffectOf(h, address, RefreshKey)
    <3>1. h \in Own => address' = address
      BY <2>4, EffectsAre
    <3>2. Refetches(h) => RefreshKey' = RefreshKey
      BY <2>4, EffectsAre
    <3>3. h \in Own => IsOwn(h)'
      BY <1>1, <2>2, <3>1 DEF HookInv, IsOwn
    <3>4. ASSUME Refetches(h), phase' = "done"  PROVE  IsNew(h)'
      <4>1. RefreshKey'.tx = hash' /\ hash' # 0
        BY <3>4 DEF RefreshKey, KeyOf, CoreInv
      <4>2. RefreshKey.tx = hash' /\ phase = "done" /\ hash = hash'
        BY <3>2, <3>4, <4>1 DEF RefreshKey, KeyOf
      <4> QED  BY <1>1, <2>2, <3>4, <4>2 DEF HookInv, IsNew
    <3> QED  BY <1>0, <2>1, <3>3, <3>4 DEF HookInv
  <2> QED  BY <1>1, <2>3, <2>4
<1>2. CASE /\ h \in Watched[page] /\ asked'[h] \subseteq Requests
           /\ shown'[h] \in {shown[h], Blank}
           /\ \A r \in Live(h)' : r.of = e.of /\ r.since = Since(ledger')
           /\ e.wants => ~Settled(h)'
           /\ ~e.wants => Settled(h)' /\ shown'[h] = Blank
  <2>1. HookTyped(h)'
    <3>1. Blank \in Replies /\ Blank.at = 0
      BY DEF Blank, Reply, Replies
    <3> QED  BY <1>0, <1>2, <3>1 DEF HookTyped, Replies
  <2>2. h \in Own => IsOwn(h)'
    BY <1>2, EffectsAre DEF IsOwn
  <2>3. IsNew(h)'
    BY <1>0, <1>2, SinceIsRecent DEF IsNew
  <2> QED  BY <2>1, <2>2, <2>3 DEF HookInv
<1> QED  BY <1>0, <1>1, <1>2, EffectRuns

\* A read that is over: what it leaves in its hook and what it sets off.
IsOver(g, r, answer, begun) ==
  /\ Ends(g, r, answer, begun)
  /\ answer \in Replies /\ answer.at <= ledger /\ (answer # Blank => answer.of = r.of)
  /\ answer.at # 0 => r.since <= answer.at
  /\ g # "underlying" /\ answer # Blank => answer.at # 0 /\ answer.upTo \in 1 .. ledger
  /\ begun = {} \/ begun = Awaited(g, r)

LEMMA ReadIsOver ==
  ASSUME CoreInv, NEW g \in Hooks, HookTyped(g), ReadEnds(g)
  PROVE  \E r \in asked[g] : \E answer, begun : IsOver(g, r, answer, begun)
<1>1. PICK r \in asked[g] : Unanswered(g, r) \/ Answer(g, r)
  BY DEF ReadEnds
<1>2. r \in Requests /\ ledger \in Nat
  BY HeightInNat DEF HookTyped, CoreInv
<1>3. \E answer, begun : IsOver(g, r, answer, begun)
  <2>1. CASE Unanswered(g, r)
    <3>1. /\ Blank \in Replies /\ Blank.at = 0
          /\ \A code \in {0, NoTrustline} :
               /\ Failure(r.of, code) \in Replies /\ Failure(r.of, code).at = 0
               /\ Failure(r.of, code).of = r.of
      BY <1>2 DEF Blank, Failure, Reply, Replies, Requests, NoTrustline
    <3>2. \E answer \in {Blank} \cup {Failure(r.of, code) : code \in {0, NoTrustline}} :
            Ends(g, r, answer, {}) /\ (g # "underlying" => answer = Blank)
      BY <2>1 DEF Unanswered
    <3> QED  BY <1>2, <3>1, <3>2 DEF IsOver
  <2>2. CASE Answer(g, r)
    <3>1. PICK at \in r.since .. ledger, upTo \in r.since .. ledger :
            Ends(g, r, Reply(r.of, at, upTo), IF Heeds(r) THEN Awaited(g, r) ELSE {})
      BY <1>2, <2>2 DEF Answer, Requests
    <3>2. /\ Reply(r.of, at, upTo) \in Replies /\ Reply(r.of, at, upTo).of = r.of
          /\ Reply(r.of, at, upTo).at = at /\ Reply(r.of, at, upTo).upTo = upTo
          /\ at # 0 /\ upTo \in 1 .. ledger
      BY <1>2, <3>1 DEF Reply, Replies, Requests
    <3> QED  BY <1>2, <3>1, <3>2 DEF IsOver
  <2> QED  BY <1>1, <2>1, <2>2
<1> QED  BY <1>3

LEMMA ReadLeaves ==
  ASSUME CoreInv, NEW g \in Hooks, NEW r, NEW answer, NEW begun, IsOver(g, r, answer, begun), NEW h \in Hooks
  PROVE  /\ UNCHANGED <<page, address, ledger, phase, hash>>
         /\ shown'[h] = IF h = g /\ ~r.cancelled THEN answer ELSE shown[h]
         /\ asked'[h] = (asked[h] \ (IF h = g THEN {r} ELSE {})) \cup (IF h = "underlying" THEN begun ELSE {})
  BY DEF IsOver, Ends, Heeds, CoreInv, txVars

LEMMA AnswerKeepsHook ==
  ASSUME CoreInv, NEW g \in Hooks, NEW h \in Hooks, HookInv(g), HookInv(h), ReadEnds(g)
  PROVE  HookInv(h)'
<1>1. HookTyped(g)
  BY DEF HookInv
<1>2. PICK r, answer, begun : r \in asked[g] /\ IsOver(g, r, answer, begun)
  BY <1>1, ReadIsOver
<1>3. /\ HookTyped(h) /\ r \in Requests
      /\ ledger \in Nat /\ Lag \in Nat /\ hash \in Nat /\ address \in Users \cup {Nobody}
  BY <1>1, <1>2, ReadsAssumption, HeightInNat DEF HookInv, HookTyped, CoreInv
<1>4. /\ UNCHANGED <<page, address, ledger, phase, hash>>
      /\ shown'[h] = IF h = g /\ ~r.cancelled THEN answer ELSE shown[h]
      /\ asked'[h] = (asked[h] \ (IF h = g THEN {r} ELSE {})) \cup (IF h = "underlying" THEN begun ELSE {})
  BY <1>2, ReadLeaves
<1>5. Refetches(h)' <=> Refetches(h)
  BY <1>4 DEF Refetches
<1>6. CASE h = g
  <2>1. asked'[h] = asked[h] \ {r}
    BY <1>2, <1>4, <1>6 DEF IsOver, Awaited
  <2>2. HookTyped(h)'
    BY <1>2, <1>3, <1>4, <1>6, <2>1 DEF IsOver, HookTyped
  <2>3. CASE r.cancelled
    <3>1. shown'[h] = shown[h] /\ Live(h)' = Live(h)
      BY <1>4, <2>1, <2>3 DEF Live
    <3> QED  BY <1>4, <1>5, <2>2, <3>1 DEF HookInv, IsOwn, IsNew, Settled
  <2>4. CASE ~r.cancelled
    <3>1. shown'[h] = answer /\ r \in Live(h) /\ Live(h)' \subseteq Live(h)
      BY <1>2, <1>4, <1>6, <2>1, <2>4 DEF Live
    <3>2. h \in Own => IsOwn(h)'
      BY <1>2, <1>4, <3>1 DEF IsOver, HookInv, IsOwn, Settled
    <3>3. ASSUME Refetches(h), phase = "done"  PROVE  IsNew(h)'
      <4>1. h # "underlying" /\ hash <= r.since + Lag /\ \A x \in Live(h)' : hash <= x.since + Lag
        BY <3>1, <3>3 DEF HookInv, IsNew, Refetches
      <4>2. answer # Blank => hash <= answer.at + Lag
        BY <1>2, <1>3, <1>6, <4>1 DEF IsOver, Replies, Requests
      <4> QED  BY <1>4, <3>1, <4>1, <4>2 DEF IsNew
    <3> QED  BY <1>4, <1>5, <2>2, <3>2, <3>3 DEF HookInv
  <2> QED  BY <2>3, <2>4
<1>7. CASE h # g
  <2>1. CASE h # "underlying" \/ begun = {}
    <3>1. asked'[h] = asked[h] /\ shown'[h] = shown[h]
      BY <1>4, <1>7, <2>1
    <3> QED  BY <1>4, <1>5, <3>1 DEF HookInv, HookTyped, IsOwn, IsNew, Settled, Live
  <2>2. CASE h = "underlying" /\ begun # {}
    <3> DEFINE new == [of |-> address, since |-> Since(ledger), cancelled |-> FALSE]
    <3>1. begun = {new} /\ h \in Watched[page] /\ address # Nobody
      BY <1>2, <2>2 DEF IsOver, Awaited
    <3>2. new \in Requests /\ new.of = address
      BY <1>3, SinceIsRecent DEF Requests, CoreInv
    <3>3. asked'[h] = asked[h] \cup {new} /\ shown'[h] = shown[h]
      BY <1>4, <1>7, <2>2, <3>1
    <3>4. HookTyped(h)' /\ h \in Own /\ ~Refetches(h)'
      BY <1>3, <1>4, <2>2, <3>1, <3>2, <3>3 DEF HookTyped, Own, Refetches
    <3>5. IsOwn(h)'
      BY <1>4, <3>1, <3>2, <3>3, <3>4 DEF HookInv, IsOwn, Settled, Live
    <3> QED  BY <3>4, <3>5 DEF HookInv
  <2> QED  BY <2>1, <2>2
<1> QED  BY <1>6, <1>7

LEMMA FirstReadsAre ==
  ASSUME NEW p, NEW user \in Users \cup {Nobody}, NEW now \in Nat \ {0}, NEW h \in Hooks
  PROVE  LET first == FirstReads(p, user, now)[h]
         IN  /\ first \subseteq Requests
             /\ h \notin Watched[p] => first = {}
             /\ h \in Own => \A r \in first : r.of = user
             /\ h \in Own /\ user = Nobody => first = {}
<1> DEFINE e == EffectOf(h, user, FirstKey)
           r == [of |-> e.of, since |-> Since(now), cancelled |-> FALSE]
<1>1. /\ e.of = IF h \in Own THEN user ELSE Nobody
      /\ h \in Own /\ user = Nobody => ~e.wants
  BY EffectsAre
<1>2. r \in Requests /\ r.of = e.of
  BY <1>1, SinceIsRecent DEF Requests
<1>3. FirstReads(p, user, now)[h] = IF h \in Watched[p] \ {"underlying"} /\ e.wants THEN {r} ELSE {}
  BY DEF FirstReads, Ask
<1> HIDE DEF e, r
<1> QED  BY <1>1, <1>2, <1>3

LEMMA ReadsStay ==
  ASSUME ReadInv, AppNext
  PROVE  ReadInv'
<1>1. CoreInv /\ CoreInv' /\ \A h \in Hooks : HookInv(h)
  BY CoreStays DEF ReadInv
<1>2. ASSUME NEW h \in Hooks  PROVE  HookInv(h)'
  <2>1. CASE Still
    <3>1. Live(h)' = Live(h) /\ (Refetches(h)' <=> Refetches(h)) /\ shown'[h] \in Replies /\ ledger \in Nat
      BY <1>1, <1>2, <2>1, HeightInNat DEF Still, Live, Refetches, readVars, HookInv, HookTyped, CoreInv
    <3> QED  BY <1>1, <2>1, <3>1 DEF Still, readVars, HookInv, HookTyped, Replies, IsOwn, IsNew, Settled
  <2>2. CASE Refreshes
    BY <1>1, <2>2, RefreshKeepsHook
  <2>3. CASE Turns
    <3>1. PICK p \in Pages : Navigate(p, First(p))
      BY <2>3 DEF Turns
    <3>2. /\ page' = p /\ shown'[h] = Blank /\ asked'[h] = FirstReads(p, address, ledger)[h]
          /\ UNCHANGED <<address, ledger>> /\ phase' = "idle"
      BY <3>1 DEF Navigate
    <3>3. address \in Users \cup {Nobody} /\ ledger \in Nat \ {0}
      BY <1>1 DEF CoreInv
    <3> DEFINE first == FirstReads(p, address, ledger)[h]
    <3>4. /\ first \subseteq Requests /\ (h \notin Watched[p] => first = {})
          /\ h \in Own => \A r \in first : r.of = address
          /\ h \in Own /\ address = Nobody => first = {}
      BY <3>3, FirstReadsAre
    <3>5. asked'[h] = first
      BY <3>2
    <3> HIDE DEF first
    <3>6. Blank \in Replies /\ Blank.at = 0
      BY DEF Blank, Reply, Replies
    <3>7. HookTyped(h)'
      BY <3>2, <3>3, <3>4, <3>5, <3>6 DEF HookTyped
    <3>8. h \in Own => IsOwn(h)'
      BY <3>2, <3>4, <3>5 DEF IsOwn, Live, Settled
    <3> QED  BY <3>2, <3>7, <3>8 DEF HookInv
  <2>4. CASE PageReading
    BY <1>1, <2>4, AnswerKeepsHook DEF PageReading, Reading
  <2> QED  BY <1>1, <2>1, <2>2, <2>3, <2>4, FourKinds
<1> QED  BY <1>1, <1>2 DEF ReadInv

LEMMA ReadsStep == ReadInv /\ [AppNext]_vars => ReadInv'
<1>1. ReadInv /\ UNCHANGED vars => ReadInv'
  BY DEF vars, readVars, txVars, ReadInv, CoreInv, HookInv, HookTyped, IsOwn, IsNew, Settled, Live, Refetches
<1> QED  BY <1>1, ReadsStay

LEMMA ReadsBegin == AppInit => ReadInv
<1> SUFFICES ASSUME AppInit
             PROVE  ReadInv
  OBVIOUS
<1>1. PICK p \in Pages : OpenPage(p, First(p))
  BY DEF AppInit
<1>2. /\ page = p /\ ledger = 1 /\ phase = "idle" /\ hash = 0
      /\ address \in Users \cup {Nobody} /\ ledger \in Nat \ {0}
  BY <1>1, ReadsAssumption DEF OpenPage
<1>3. Height \in Nat /\ Height # 0
  <2>1. Ledgers \in Seq(Contents) /\ Ledgers # <<>>
    BY AppAssumption, ReadsAssumption
  <2> QED  BY <2>1 DEF Height
<1>4. CoreInv
  BY <1>1, <1>2, <1>3 DEF CoreInv, OpenPage, FirstReads
<1>5. ASSUME NEW h \in Hooks  PROVE  HookInv(h)
  <2>1. shown[h] = Blank /\ asked[h] = FirstReads(p, address, ledger)[h]
    BY <1>1 DEF OpenPage
  <2> DEFINE first == FirstReads(p, address, ledger)[h]
  <2>2. /\ first \subseteq Requests /\ (h \notin Watched[p] => first = {})
        /\ h \in Own => \A r \in first : r.of = address
        /\ h \in Own /\ address = Nobody => first = {}
    BY <1>1, <1>2, FirstReadsAre
  <2> HIDE DEF first
  <2>3. HookTyped(h)
    BY <1>2, <2>1, <2>2 DEF HookTyped, Blank, Reply, Replies, first
  <2>4. h \in Own => IsOwn(h)
    BY <1>2, <2>1, <2>2 DEF IsOwn, Live, Settled, first
  <2> QED  BY <1>2, <2>3, <2>4 DEF HookInv, Refetches
<1> QED  BY <1>4, <1>5 DEF ReadInv

\* What is on the screen is what its hook holds.
LEMMA ScreenIsHooks ==
  ASSUME ReadInv, NEW figure \in Screen
  PROVE  figure.from \in Hooks /\ figure.answer = shown[figure.from]
<1> DEFINE Shows(S) == \A f \in S : f.from \in Hooks /\ f.answer = shown[f.from]
<1>1. \A h \in Hooks, loading \in BOOLEAN : Shows(LiveValue(h, loading))
  BY DEF LiveValue
<1> HIDE DEF Shows
<1>2. \A A, B : Shows(A) /\ Shows(B) => Shows(A \cup B)
  BY DEF Shows
<1>3. Shows({})
  BY DEF Shows
<1>4. \A h \in Hooks : Shows(Figures(h)) /\ Shows(Stat(h))
  BY <1>1 DEF Figures, Stat, Settled
<1> HIDE DEF Hooks
<1>5. /\ Shows(MaturityBadge) /\ Shows(PositionCard) /\ Shows(YieldSourceCard)
      /\ \A variant : Shows(BlendPositionCard(variant).figures)
  <2>1. {"market", "position", "blend", "rates"} \subseteq Hooks
    BY DEF Hooks
  <2>2. Shows(LiveValue("rates", rates = {}))
    BY <1>1, <2>1
  <2>3. Shows(YieldSourceCard)
    BY <1>2, <1>4, <2>1, <2>2 DEF YieldSourceCard
  <2>4. ASSUME NEW variant  PROVE  Shows(BlendPositionCard(variant).figures)
    BY <1>2, <1>3, <1>4, <2>1 DEF BlendPositionCard
  <2> QED  BY <1>4, <2>1, <2>3, <2>4 DEF MaturityBadge, PositionCard
<1>6. {"market", "position", "blend", "rates", "underlying", "lp"} \subseteq Hooks
  BY DEF Hooks
<1>7. Shows(TradeRail) /\ Shows(PoolRail)
  BY <1>2, <1>4, <1>5, <1>6 DEF TradeRail, PoolRail
<1>8. Shows(PortfolioFigures) /\ Shows(MintFigures)
  <2>1. Shows(MintForm.balance)
    BY <1>1, <1>3, <1>6 DEF MintForm
  <2>2. Shows(MintHeader.figures) /\ Shows(MintAside) /\ Shows(MaturityContext)
    BY <1>2, <1>4, <1>5, <1>6 DEF MintHeader, MintAside, MaturityContext
  <2> QED  BY <1>2, <1>5, <2>1, <2>2 DEF PortfolioFigures, MintFigures
<1>9. Shows(StrategyMetrics.figures) /\ Shows(PanelView.figures)
  BY <1>1, <1>2, <1>3, <1>4, <1>6 DEF StrategyMetrics, PanelView
<1>10. Shows(Screen)
  BY <1>7, <1>8, <1>9, AppAssumption DEF Screen, ReadInv, CoreInv
<1> QED  BY <1>10 DEF Shows

\* A page that has its answers shows the connected wallet its own balances,
\* however the reads of several wallets overlapped (usePosition.ts and the
\* rest): a read that is not replaced is of the wallet connected.
THEOREM BalancesAreOwn == AppSpec => []ShowsOwnBalances
<1>1. ReadInv => ShowsOwnBalances
  BY ScreenIsHooks DEF ShowsOwnBalances, ReadInv, HookInv, IsOwn, Hooks, Own
<1> QED  BY <1>1, ReadsBegin, ReadsStep, PTL DEF AppSpec

-----------------------------------------------------------------------------
(* The pages.  Each has an invariant of its fields and of the transaction  *)
(* its buttons start.                                                      *)

\* A step that ends on a page begins there, or opens it.
LEMMA OnePageAtATime ==
  ASSUME AppNext, page' \in {"trade", "pool", "portfolio", "mint", "strategy", "panel"}
  PROVE  \/ Navigate(page', First(page'))
         \/ /\ page' = page
            /\ \/ LedgerCloses \/ PageReading \/ PageFails
               \/ page = "trade" /\ TradeNext
               \/ page = "pool" /\ PoolNext
               \/ page = "portfolio" /\ PortfolioNext
               \/ page = "mint" /\ MintNext
               \/ page = "strategy" /\ StrategyNext
               \/ page = "panel" /\ PanelNext
<1>1. CASE \E p \in Pages : Navigate(p, First(p))
  BY <1>1 DEF Navigate
<1>2. CASE LedgerCloses \/ PageReading \/ PageFails
  BY <1>2 DEF LedgerCloses, PageReading, PageFails, Fails, FailsWith, Reading, ReadEnds, Answer, Unanswered, Ends
<1>3. CASE TradeNext
  <2>1. TradeNext => page = "trade" /\ page' = page
    BY DEF TradeNext, TypeAmount, PickRoute, PickTolerance, Trade, Traded, TradeRefused, TradeWallet,
           TradeQuoting, DebounceFires, QuoteFails, QuoteArrives, Fields, Setting, Submit, Confirmed,
           Refused, FailsWith, AddressChanges
  <2> QED  BY <1>3, <2>1
<1>4. CASE PoolNext
  <2>1. PoolNext => page = "pool" /\ page' = page
    BY DEF PoolNext, SlippageControl, onAddLiquidity, onRemoveLiquidity, Deposited, Withdrawn, PoolRefused,
           PoolWallet, Fields, Setting, Submit, Confirmed, Refused, FailsWith, AddressChanges
  <2> QED  BY <1>4, <2>1
<1>5. CASE PortfolioNext
  <2>1. PortfolioNext => page = "portfolio" /\ page' = page
    BY DEF PortfolioNext, onClaim, onRedeem, onUnwrap, Press, buildClaimYield, buildRedeem, buildRedeemSy, Build,
           Redeemed, RedeemRefused, PortfolioWallet, Fields, Submit, Confirmed, Refused, FailsWith, AddressChanges
  <2> QED  BY <1>5, <2>1
<1>6. CASE MintNext
  <2>1. MintNext => page = "mint" /\ page' = page
    BY DEF MintNext, onMint, Minted, DepositLands, SplitLands, SplitRefused, onGetTestUsdc, MintWallet, Granting,
           fetchBlendFaucetTransaction, fundWithFriendbot, SignsGrant, GrantLands, GrantSeen, GrantFails,
           GoesTo, FlowStep, Fields, Submit, Confirmed, Refused, FailsWith, AddressChanges
  <2> QED  BY <1>6, <2>1
<1>7. CASE StrategyNext
  BY <1>7 DEF StrategyNext, Fields, AddressChanges
<1>8. CASE PanelNext
  <2>1. PanelNext => page = "panel" /\ page' = page
    BY DEF PanelNext, PickMode, SaleQuoting, SaleQuoteEnds, onTokenize, Starting, Starts, StartFails, RunLands,
           RunFails, PanelWallet, Fields, Submit, AddressChanges
  <2> QED  BY <1>8, <2>1
<1> QED  BY <1>1, <1>2, <1>3, <1>4, <1>5, <1>6, <1>7, <1>8 DEF AppNext

\* What passes on a page without its doing.
Passes ==
  /\ UNCHANGED <<page, address, hash>> /\ ledger' \in {ledger, ledger + 1}
  /\ \/ UNCHANGED <<phase, job>>
     \/ phase = "working" /\ phase' = "error" /\ job' = [job EXCEPT !.error = NoError]

LEMMA PassesBy ==
  ASSUME LedgerCloses \/ PageReading \/ PageFails
  PROVE  Passes /\ (page # "panel" => UNCHANGED form)
  BY DEF LedgerCloses, PageReading, PageFails, Fails, FailsWith, Passes, txVars, Reading, ReadEnds, Answer,
         Unanswered, Ends

-----------------------------------------------------------------------------
(* The portfolio page.                                                     *)

PortfolioInv ==
  /\ DOMAIN form = {"active", "amount", "syAmount"} /\ form.amount \in Nat /\ form.syAmount \in Nat
  /\ phase = "idle" => job = NoJob
  /\ phase # "idle" =>
       /\ DOMAIN job = {"page", "op", "of", "amount", "call", "seen", "preview", "got", "error"}
       /\ form.active = job.op /\ job.op \in {"claim", "redeem", "unwrap"}
       /\ job.op = "unwrap" => job.call \in {"none", "redeem"}
       /\ job.call = "redeem_at_maturity" => Now.matured
       /\ job.preview # {} => job.amount \in Nat /\ job.seen \in 1 .. Height
       /\ job.preview \subseteq {Unwraps(job.amount, Ledgers[job.seen].rate)}
       /\ job.op = "unwrap" /\ phase = "done" => job.got = Unwraps(job.amount, Ledgers[hash - 1].rate)

LEMMA MarketIsTyped ==
  ASSUME ReadInv, MarketKnown
  PROVE  /\ market.pool \in Pools /\ shown["market"].at \in 1 .. Height
         /\ market.exchangeRate = Ledgers[shown["market"].at].rate /\ market.exchangeRate \in Nat \ {0}
<1> DEFINE a == shown["market"]
<1>1. a # Blank /\ HookTyped("market") /\ ledger \in 1 .. Height
  BY DEF ReadInv, CoreInv, HookInv, MarketKnown, Hooks
<1>2. a.at \in 1 .. Height /\ a.upTo \in 1 .. Height
  BY <1>1, HeightInNat DEF HookTyped, Replies
<1>3. Ledgers[a.at] \in Contents /\ Ledgers[a.upTo] \in Contents
  BY <1>2, LedgersHold
<1> HIDE DEF a
<1>4. /\ Ledgers[a.at].pool.pt \in Nat /\ Ledgers[a.upTo].pool \in Pools /\ Ledgers[a.at].rate \in Nat \ {0}
  BY <1>3 DEF Contents, Pools
<1>5. [Ledgers[a.upTo].pool EXCEPT !.pt = Ledgers[a.at].pool.pt] \in Pools
  BY <1>4 DEF Pools
<1>6. market.pool = [Ledgers[a.upTo].pool EXCEPT !.pt = Ledgers[a.at].pool.pt]
      /\ market.exchangeRate = Ledgers[a.at].rate
  BY DEF market, MarketOf, a
<1> QED  BY <1>2, <1>4, <1>5, <1>6 DEF a

LEMMA MaturityStays ==
  ASSUME CoreInv, CoreInv', NEW k \in 1 .. ledger, Ledgers[k].matured, ledger' \in {ledger, ledger + 1}
  PROVE  Now.matured /\ Now'.matured
<1>1. {k, ledger, ledger'} \subseteq 1 .. Height /\ k <= ledger /\ k <= ledger'
  BY HeightInNat DEF CoreInv
<1>2. Ledgers[ledger].matured /\ Ledgers[ledger'].matured
  BY <1>1, HeightInNat, AppAssumption
<1> QED  BY <1>2 DEF Now

LEMMA PortfolioOpens ==
  ASSUME form = PortfolioFirst, phase = "idle", job = NoJob
  PROVE  PortfolioInv
  BY DEF PortfolioInv, PortfolioFirst

LEMMA PortfolioStays ==
  ASSUME ReadInv, ReadInv', AppNext, page' = "portfolio", page = "portfolio" => PortfolioInv
  PROVE  PortfolioInv'
<1>0. CoreInv /\ CoreInv'
  BY DEF ReadInv
<1>1. CASE Navigate("portfolio", First("portfolio"))
  BY <1>1 DEF Navigate, First, PortfolioInv, PortfolioFirst
<1>2. CASE page = "portfolio" /\ (LedgerCloses \/ PageReading \/ PageFails)
  <2>1. Passes /\ UNCHANGED form /\ PortfolioInv /\ ledger \in 1 .. ledger
    BY <1>0, <1>2, PassesBy, HeightInNat DEF CoreInv
  <2>2. phase # "idle" /\ job.call = "redeem_at_maturity" => Now'.matured
    BY <1>0, <2>1, MaturityStays DEF Passes, PortfolioInv, Now
  <2> QED  BY <2>1, <2>2 DEF Passes, PortfolioInv
<1>3. CASE page = "portfolio" /\ PortfolioNext
  <2> SUFFICES ASSUME page = "portfolio", PortfolioInv, PortfolioNext
               PROVE  PortfolioInv'
    BY <1>3
  <2>1. ASSUME NEW next, Fields("portfolio", next), DOMAIN next = DOMAIN form, next.active = form.active,
               next.amount \in Nat, next.syAmount \in Nat
        PROVE  PortfolioInv'
    BY <2>1 DEF Fields, txVars, PortfolioInv, Now
  <2>2. ASSUME NEW button \in {"claim", "redeem", "unwrap"}, NEW amount, NEW preview,
               Press(button, amount, preview),
               preview # {} => amount \in Nat /\ shown["market"].at \in 1 .. Height,
               preview \subseteq {Unwraps(amount, Ledgers[shown["market"].at].rate)}
        PROVE  PortfolioInv'
    BY <2>2 DEF Press, Submit, PortfolioInv
  <2>3. ASSUME NEW button, NEW call, Build(button, call),
               button = "unwrap" => call = "redeem",
               call = "redeem_at_maturity" => Now.matured
        PROVE  PortfolioInv'
    BY <2>3 DEF Build, PortfolioInv, Now
  <2>4. CASE Redeemed
    <3>1. Now.matured => Now'.matured
      BY <1>0, <2>4, MaturityStays, HeightInNat DEF Redeemed, Confirmed, Now, CoreInv
    <3>2. job.call # "none"
      BY <2>4 DEF Redeemed, Accepts
    <3>3. /\ phase = "working" /\ phase' = "done" /\ UNCHANGED form /\ hash' = ledger + 1
          /\ job' = [job EXCEPT !.got = IF job.call = "redeem" THEN Unwraps(job.amount, Now.rate) ELSE 0]
      BY <2>4 DEF Redeemed, Confirmed
    <3>4. hash' - 1 = ledger
      BY <1>0, <3>3, HeightInNat DEF CoreInv
    <3>5. job.op = "unwrap" => job'.got = Unwraps(job.amount, Ledgers[hash' - 1].rate)
      BY <3>2, <3>3, <3>4 DEF PortfolioInv, Now
    <3> QED  BY <3>1, <3>2, <3>3, <3>5 DEF PortfolioInv
  <2>5. CASE RedeemRefused
    BY <2>5 DEF RedeemRefused, Refused, FailsWith, PortfolioInv, Now
  <2>6. CASE \E a \in Users \cup {Nobody} : PortfolioWallet(a)
    BY <2>6 DEF PortfolioWallet, AddressChanges, txVars, PortfolioInv, Now
  <2>7. CASE onClaim \/ onRedeem \/ onUnwrap
    <3>1. underlyingPreview \subseteq {Unwraps(form.syAmount, Ledgers[shown["market"].at].rate)}
      BY DEF underlyingPreview, market, MarketOf, Unwraps, MulDivFloor
    <3>2. underlyingPreview # {} => form.syAmount \in Nat /\ shown["market"].at \in 1 .. Height
      BY MarketIsTyped DEF underlyingPreview, PortfolioInv
    <3> QED  BY <2>2, <2>7, <3>1, <3>2 DEF onClaim, onRedeem, onUnwrap
  <2>8. CASE buildClaimYield \/ buildRedeem \/ buildRedeemSy
    <3>1. ASSUME NEW k \in Recent, RedeemCall(k) = "redeem_at_maturity"
          PROVE  Now.matured
      <4>1. k \in 1 .. ledger /\ ledger \in 1 .. Height /\ Ledgers[k].matured
        BY <1>0, <3>1, SinceIsRecent, HeightInNat DEF Recent, RedeemCall, CoreInv
      <4> QED  BY <4>1, HeightInNat, AppAssumption DEF Now
    <3> QED  BY <2>3, <2>8, <3>1 DEF buildClaimYield, buildRedeem, buildRedeemSy
  <2>9. CASE \E n \in RedeemAmounts \cup {0} : \/ Fields("portfolio", [form EXCEPT !.amount = n])
                                               \/ Fields("portfolio", [form EXCEPT !.syAmount = n])
    BY <2>1, <2>9, PortfolioAssumption DEF PortfolioInv
  <2> QED  BY <2>4, <2>5, <2>6, <2>7, <2>8, <2>9 DEF PortfolioNext
<1> QED  BY <1>1, <1>2, <1>3, OnePageAtATime

\* PT alone is presented for redemption only once the chain has reached
\* maturity, whatever the page believes of the time (buildRedeem).
THEOREM RedemptionsAreInTime == AppSpec => []RedemptionIsNeverEarly
<1> DEFINE Inv == ReadInv /\ (page = "portfolio" => PortfolioInv)
<1>1. AppInit => Inv
  <2>1. AppInit /\ page = "portfolio" => PortfolioInv
    BY PortfolioOpens DEF AppInit, OpenPage, First
  <2> QED  BY <2>1, ReadsBegin
<1>2. Inv /\ [AppNext]_vars => Inv'
  <2>1. Inv /\ AppNext => Inv'
    BY ReadsStay, PortfolioStays
  <2>2. Inv /\ UNCHANGED vars => Inv'
    <3>1. PortfolioInv /\ UNCHANGED vars => PortfolioInv'
      BY DEF vars, readVars, txVars, PortfolioInv, Now
    <3>2. UNCHANGED vars => UNCHANGED page
      BY DEF vars
    <3> QED  BY <3>1, <3>2, ReadsStep
  <2> QED  BY <2>1, <2>2
<1>3. Inv => RedemptionIsNeverEarly
  BY DEF RedemptionIsNeverEarly, PortfolioInv, NoJob
<1> QED  BY <1>1, <1>2, <1>3, PTL DEF AppSpec

-----------------------------------------------------------------------------
(* The pool page.                                                          *)

PoolBefore == Ledgers[hash - 1].pool

AddJob ==
  /\ DOMAIN job = {"page", "op", "of", "pt", "sy", "slip", "pool", "preview", "minLpOut", "got", "error"}
  /\ job.op = "add" /\ job.pt \in Nat /\ job.sy \in Nat /\ job.slip \in Tolerances /\ job.pool \in Pools
  /\ job.preview = previewAddLiquidity(job.pt, job.sy, job.pool) /\ job.preview.reason = "ok"
  /\ job.minLpOut = applySlippage(job.preview.lpOut, job.slip)
  /\ job.got = [job.preview EXCEPT !.lpOut = job.got.lpOut, !.ptUsed = job.got.ptUsed, !.syUsed = job.got.syUsed]
  /\ phase = "done" =>
       /\ ~EmptyPool(PoolBefore) /\ job.minLpOut <= job.got.lpOut
       /\ job.got.lpOut = Mints(job.pt, job.sy, PoolBefore)
       /\ job.got.ptUsed = Takes(PoolBefore.pt, job.got.lpOut, PoolBefore)
       /\ job.got.syUsed = Takes(PoolBefore.sy, job.got.lpOut, PoolBefore)

RemoveJob ==
  /\ DOMAIN job = {"page", "op", "of", "lp", "slip", "pool", "preview", "minPtOut", "minSyOut", "got", "error"}
  /\ job.op = "remove" /\ job.lp \in Nat /\ job.slip \in Tolerances /\ job.pool \in Pools
  /\ job.preview = previewRemoveLiquidity(job.lp, job.pool) /\ job.preview.reason = "ok"
  /\ job.minPtOut = applySlippage(job.preview.ptOut, job.slip)
  /\ job.minSyOut = applySlippage(job.preview.syOut, job.slip)
  /\ job.got = [job.preview EXCEPT !.ptOut = job.got.ptOut, !.syOut = job.got.syOut]
  /\ phase = "done" =>
       /\ ~EmptyPool(PoolBefore) /\ job.minPtOut <= job.got.ptOut /\ job.minSyOut <= job.got.syOut
       /\ job.got.ptOut = Redeems(PoolBefore.pt, job.lp, PoolBefore)
       /\ job.got.syOut = Redeems(PoolBefore.sy, job.lp, PoolBefore)

PoolInv ==
  /\ DOMAIN form = {"active", "pt", "sy", "lp", "slip"}
  /\ form.pt \in Nat /\ form.sy \in Nat /\ form.lp \in Nat /\ form.slip \in Tolerances
  /\ phase # "idle" => form.active = job.op /\ (AddJob \/ RemoveJob)

LEMMA ToleranceIsGiven == DEFAULT_SLIPPAGE_BPS \in Tolerances
  BY BpsAssumption DEF DEFAULT_SLIPPAGE_BPS

LEMMA FormIsPreviewed ==
  ASSUME ReadInv, PoolInv
  PROVE  /\ addPreview.reason = "ok" =>
              /\ market.pool \in Pools /\ addPreview = previewAddLiquidity(form.pt, form.sy, market.pool)
              /\ PromisesLp(addPreview, form.pt, form.sy, market.pool)
         /\ removePreview.reason = "ok" =>
              /\ market.pool \in Pools /\ removePreview = previewRemoveLiquidity(form.lp, market.pool)
              /\ PromisesTokens(removePreview, form.lp, market.pool)
<1>1. ASSUME addPreview.reason = "ok"
      PROVE  /\ market.pool \in Pools /\ addPreview = previewAddLiquidity(form.pt, form.sy, market.pool)
             /\ PromisesLp(addPreview, form.pt, form.sy, market.pool)
  <2>1. MarketKnown /\ addPreview = previewAddLiquidity(form.pt, form.sy, market.pool)
    BY <1>1 DEF addPreview, zeroAddPreview
  <2>2. market.pool \in Pools /\ form.pt \in Nat /\ form.sy \in Nat
    BY <2>1, MarketIsTyped DEF PoolInv
  <2> QED  BY <1>1, <2>1, <2>2, AddIsPreviewed
<1>2. ASSUME removePreview.reason = "ok"
      PROVE  /\ market.pool \in Pools /\ removePreview = previewRemoveLiquidity(form.lp, market.pool)
             /\ PromisesTokens(removePreview, form.lp, market.pool)
  <2>1. MarketKnown /\ removePreview = previewRemoveLiquidity(form.lp, market.pool)
    BY <1>2 DEF removePreview, zeroRemovePreview
  <2>2. market.pool \in Pools /\ form.lp \in Nat
    BY <2>1, MarketIsTyped DEF PoolInv
  <2> QED  BY <1>2, <2>1, <2>2, RemoveIsPreviewed
<1> QED  BY <1>1, <1>2

LEMMA JobIsPreviewed ==
  /\ AddJob => PromisesLp(job.preview, job.pt, job.sy, job.pool)
  /\ RemoveJob => PromisesTokens(job.preview, job.lp, job.pool)
  BY AddIsPreviewed, RemoveIsPreviewed DEF AddJob, RemoveJob

LEMMA PoolStays ==
  ASSUME ReadInv, CoreInv', AppNext, page' = "pool", page = "pool" => PoolInv
  PROVE  PoolInv'
<1>1. CASE Navigate("pool", First("pool"))
  BY <1>1, ToleranceIsGiven DEF Navigate, First, PoolInv, PoolFirst
<1>2. CASE page = "pool" /\ (LedgerCloses \/ PageReading \/ PageFails)
  <2>1. Passes /\ UNCHANGED form /\ PoolInv
    BY <1>2, PassesBy
  <2> QED  BY <2>1 DEF Passes, PoolInv, AddJob, RemoveJob, PoolBefore
<1>3. CASE page = "pool" /\ PoolNext
  <2> SUFFICES ASSUME page = "pool", PoolInv, PoolNext
               PROVE  PoolInv'
    BY <1>3
  <2>1. ASSUME NEW next, Fields("pool", next) \/ Setting("pool", next), DOMAIN next = DOMAIN form,
               next.active = form.active, next.pt \in Nat, next.sy \in Nat, next.lp \in Nat, next.slip \in Tolerances
        PROVE  PoolInv'
    BY <2>1 DEF Fields, Setting, txVars, PoolInv, AddJob, RemoveJob, PoolBefore
  <2>2. CASE onAddLiquidity
    <3> DEFINE p == addPreview
    <3>1. /\ p.reason = "ok" /\ MarketKnown /\ p = previewAddLiquidity(form.pt, form.sy, market.pool)
      BY <2>2 DEF onAddLiquidity, canAdd, addPreview, zeroAddPreview
    <3>2. market.pool \in Pools /\ p = [p EXCEPT !.lpOut = p.lpOut, !.ptUsed = p.ptUsed, !.syUsed = p.syUsed]
      BY <3>1, FormIsPreviewed DEF PromisesLp, PromisesTokens
    <3> HIDE DEF p
    <3>3. /\ phase' = "working" /\ form' = [form EXCEPT !.active = "add"]
          /\ job' = [page |-> "pool", op |-> "add", of |-> address, pt |-> form.pt, sy |-> form.sy,
                     slip |-> form.slip, pool |-> market.pool, preview |-> p,
                     minLpOut |-> applySlippage(p.lpOut, form.slip), got |-> p, error |-> NoError]
      BY <2>2 DEF onAddLiquidity, Submit, p
    <3>4. AddJob'
      BY <3>1, <3>2, <3>3 DEF AddJob, PoolInv
    <3> QED  BY <3>3, <3>4 DEF PoolInv, AddJob
  <2>3. CASE onRemoveLiquidity
    <3> DEFINE p == removePreview
    <3>1. /\ p.reason = "ok" /\ MarketKnown /\ p = previewRemoveLiquidity(form.lp, market.pool)
      BY <2>3 DEF onRemoveLiquidity, canRemove, removePreview, zeroRemovePreview
    <3>2. market.pool \in Pools /\ p = [p EXCEPT !.ptOut = p.ptOut, !.syOut = p.syOut]
      BY <3>1, FormIsPreviewed DEF PromisesLp, PromisesTokens
    <3> HIDE DEF p
    <3>3. /\ phase' = "working" /\ form' = [form EXCEPT !.active = "remove"]
          /\ job' = [page |-> "pool", op |-> "remove", of |-> address, lp |-> form.lp,
                     slip |-> form.slip, pool |-> market.pool, preview |-> p,
                     minPtOut |-> applySlippage(p.ptOut, form.slip),
                     minSyOut |-> applySlippage(p.syOut, form.slip), got |-> p, error |-> NoError]
      BY <2>3 DEF onRemoveLiquidity, Submit, p
    <3>4. RemoveJob'
      BY <3>1, <3>2, <3>3 DEF RemoveJob, PoolInv
    <3> QED  BY <3>3, <3>4 DEF PoolInv, RemoveJob
  <2>4. CASE Deposited
    <3> DEFINE pool == Now.pool
               minted == Mints(job.pt, job.sy, pool)
               took == Takes(pool.pt, minted, pool)
               sold == Takes(pool.sy, minted, pool)
    <3>1. /\ phase = "working" /\ phase' = "done" /\ UNCHANGED form /\ hash' = ledger + 1
          /\ job.op = "add" /\ ~EmptyPool(pool) /\ job.minLpOut <= minted
          /\ job' = [job EXCEPT !.got.lpOut = minted, !.got.ptUsed = took, !.got.syUsed = sold]
      BY <2>4 DEF Deposited, Confirmed
    <3>2. hash' - 1 = ledger
      BY <3>1 DEF ReadInv, CoreInv
    <3>3. PoolBefore' = pool
      BY <3>2 DEF PoolBefore, Now
    <3>4. AddJob /\ form.active = job.op
      BY <3>1 DEF PoolInv, RemoveJob
    <3> HIDE DEF pool, minted, took, sold
    <3>5. DOMAIN job.preview = {"reason", "lpOut", "ptUsed", "syUsed", "ptUnused", "syUnused", "shareBpsAfter"}
      BY <3>4, JobIsPreviewed DEF PromisesLp, PromisesTokens
    <3>6. job'.got = [job.got EXCEPT !.lpOut = minted, !.ptUsed = took, !.syUsed = sold]
      BY <3>1, <3>4 DEF AddJob
    <3>7. job'.got = [job.preview EXCEPT !.lpOut = minted, !.ptUsed = took, !.syUsed = sold]
      BY <3>4, <3>5, <3>6 DEF AddJob
    <3>8. /\ job'.got.lpOut = minted /\ job'.got.ptUsed = took /\ job'.got.syUsed = sold
      BY <3>5, <3>7
    <3>9. /\ DOMAIN job' = DOMAIN job
          /\ \A f \in DOMAIN job \ {"got"} : job'[f] = job[f]
      BY <3>1, <3>4 DEF AddJob
    <3>10. /\ job'.op = job.op /\ job'.pt = job.pt /\ job'.sy = job.sy /\ job'.slip = job.slip
           /\ job'.pool = job.pool /\ job'.preview = job.preview /\ job'.minLpOut = job.minLpOut
      BY <3>4, <3>9 DEF AddJob
    <3>11. AddJob'
      BY <3>1, <3>3, <3>4, <3>7, <3>8, <3>9, <3>10 DEF AddJob, minted, took, sold
    <3> QED  BY <3>1, <3>4, <3>10, <3>11 DEF PoolInv
  <2>5. CASE Withdrawn
    <3> DEFINE pool == Now.pool
               pt == Redeems(pool.pt, job.lp, pool)
               sy == Redeems(pool.sy, job.lp, pool)
    <3>1. /\ phase = "working" /\ phase' = "done" /\ UNCHANGED form /\ hash' = ledger + 1
          /\ job.op = "remove" /\ ~EmptyPool(pool) /\ job.minPtOut <= pt /\ job.minSyOut <= sy
          /\ job' = [job EXCEPT !.got.ptOut = pt, !.got.syOut = sy]
      BY <2>5 DEF Withdrawn, Confirmed
    <3>2. hash' - 1 = ledger
      BY <3>1 DEF ReadInv, CoreInv
    <3>3. PoolBefore' = pool
      BY <3>2 DEF PoolBefore, Now
    <3>4. RemoveJob /\ form.active = job.op
      BY <3>1 DEF PoolInv, AddJob
    <3> HIDE DEF pool, pt, sy
    <3>5. DOMAIN job.preview = {"reason", "ptOut", "syOut", "shareBps"}
      BY <3>4, JobIsPreviewed DEF PromisesLp, PromisesTokens
    <3>6. job'.got = [job.got EXCEPT !.ptOut = pt, !.syOut = sy]
      BY <3>1, <3>4 DEF RemoveJob
    <3>7. job'.got = [job.preview EXCEPT !.ptOut = pt, !.syOut = sy]
      BY <3>4, <3>5, <3>6 DEF RemoveJob
    <3>8. /\ job'.got.ptOut = pt /\ job'.got.syOut = sy
      BY <3>5, <3>7
    <3>9. /\ DOMAIN job' = DOMAIN job
          /\ \A f \in DOMAIN job \ {"got"} : job'[f] = job[f]
      BY <3>1, <3>4 DEF RemoveJob
    <3>10. /\ job'.op = job.op /\ job'.lp = job.lp /\ job'.slip = job.slip /\ job'.pool = job.pool
           /\ job'.preview = job.preview /\ job'.minPtOut = job.minPtOut /\ job'.minSyOut = job.minSyOut
      BY <3>4, <3>9 DEF RemoveJob
    <3>11. RemoveJob'
      BY <3>1, <3>3, <3>4, <3>7, <3>8, <3>9, <3>10 DEF RemoveJob, pt, sy
    <3> QED  BY <3>1, <3>4, <3>10, <3>11 DEF PoolInv
  <2>6. CASE PoolRefused
    BY <2>6 DEF PoolRefused, Refused, FailsWith, PoolInv, AddJob, RemoveJob, PoolBefore
  <2>7. CASE \E a \in Users \cup {Nobody} : PoolWallet(a)
    BY <2>7 DEF PoolWallet, AddressChanges, txVars, PoolInv, AddJob, RemoveJob, PoolBefore
  <2>8. CASE \E s \in Tolerances : SlippageControl(s)
    BY <2>1, <2>8 DEF SlippageControl, PoolInv
  <2>9. CASE \E n \in PoolAmounts \cup {0} :
               \/ Fields("pool", [form EXCEPT !.pt = n])
               \/ Fields("pool", [form EXCEPT !.sy = n])
               \/ Fields("pool", [form EXCEPT !.lp = n])
    BY <2>1, <2>9, PoolPageAssumption DEF PoolInv
  <2> QED  BY <2>2, <2>3, <2>4, <2>5, <2>6, <2>7, <2>8, <2>9 DEF PoolNext
<1> QED  BY <1>1, <1>2, <1>3, OnePageAtATime

\* A deposit or a withdrawal that has landed did what its preview said, or no
\* worse than the tolerance.
LEMMA PoolKeepsPromises ==
  ASSUME ReadInv, page = "pool", PoolInv, phase = "done"
  PROVE  PreviewIsExact /\ LiquidityWithinTolerance
<1> DEFINE before == PoolBefore
<1>1. hash - 1 \in 1 .. Height
  BY HeightInNat DEF ReadInv, CoreInv
<1>2. before \in Pools
  BY <1>1, LedgersHold DEF PoolBefore, Contents
<1>3. CASE AddJob
  <2>1. PromisesLp(job.preview, job.pt, job.sy, job.pool)
    BY <1>3, JobIsPreviewed
  <2>2. /\ before.pt \in Nat \ {0} /\ before.sy \in Nat \ {0} /\ before.lp \in Nat \ {0}
        /\ job.got.lpOut = Mints(job.pt, job.sy, before) /\ job.minLpOut <= job.got.lpOut
        /\ job.got.ptUsed = Takes(before.pt, job.got.lpOut, before)
        /\ job.got.syUsed = Takes(before.sy, job.got.lpOut, before)
        /\ job.pt \in Nat /\ job.sy \in Nat /\ job.op = "add" /\ job.slip \in Tolerances
        /\ job.minLpOut = applySlippage(job.preview.lpOut, job.slip)
    BY <1>2, <1>3 DEF AddJob, EmptyPool, Pools
  <2> HIDE DEF before
  <2>3. /\ MulDivFloor(job.pt, before.lp, before.pt) \in Nat
        /\ MulDivFloor(job.sy, before.lp, before.sy) \in Nat
    BY <2>2, FloorBounds
  <2>4. /\ job.got.lpOut \in Nat
        /\ job.got.lpOut <= MulDivFloor(job.pt, before.lp, before.pt)
        /\ job.got.lpOut <= MulDivFloor(job.sy, before.lp, before.sy)
    BY <2>2, <2>3 DEF Mints, Least
  <2>5. before.pt \in Nat /\ before.pt > 0 /\ before.sy \in Nat /\ before.sy > 0 /\ before.lp > 0
    BY <2>2
  <2>6. job.got.ptUsed <= job.pt
    BY <1>2, <2>2, <2>4, <2>5, TakesNoMore
  <2>7. job.got.syUsed <= job.sy
    BY <1>2, <2>2, <2>4, <2>5, TakesNoMore
  <2>8. Close(job.got.lpOut, job.preview.lpOut)
    <3>1. job.preview.lpOut \in Nat /\ job.got.lpOut >= applySlippage(job.preview.lpOut, job.slip)
      <4>1. job.preview.lpOut \in Nat
        BY <2>1 DEF PromisesLp
      <4> QED  BY <2>2, <4>1
    <3> QED  BY <2>2, <2>4, <3>1, ToleranceBound DEF Close
  <2>9. LiquidityWithinTolerance
    BY <2>2, <2>6, <2>7, <2>8 DEF LiquidityWithinTolerance
  <2>10. ASSUME job.pool = Ledgers[hash - 1].pool  PROVE  job.got = job.preview
    <3>1. job.pool = before
      BY <2>10 DEF before, PoolBefore
    <3>2. /\ job.got.lpOut = job.preview.lpOut /\ job.got.ptUsed = job.preview.ptUsed
          /\ job.got.syUsed = job.preview.syUsed
      BY <2>1, <2>2, <3>1 DEF PromisesLp
    <3>3. job.got = [job.preview EXCEPT !.lpOut = job.got.lpOut, !.ptUsed = job.got.ptUsed, !.syUsed = job.got.syUsed]
      BY <1>3 DEF AddJob
    <3> QED  BY <2>1, <3>2, <3>3 DEF PromisesLp
  <2> QED  BY <2>9, <2>10 DEF PreviewIsExact
<1>4. CASE RemoveJob
  <2>1. PromisesTokens(job.preview, job.lp, job.pool)
    BY <1>4, JobIsPreviewed
  <2>2. /\ before.pt \in Nat /\ before.sy \in Nat /\ before.lp \in Nat \ {0} /\ job.lp \in Nat
        /\ job.got.ptOut = Redeems(before.pt, job.lp, before) /\ job.minPtOut <= job.got.ptOut
        /\ job.got.syOut = Redeems(before.sy, job.lp, before) /\ job.minSyOut <= job.got.syOut
        /\ job.op = "remove" /\ job.slip \in Tolerances
        /\ job.minPtOut = applySlippage(job.preview.ptOut, job.slip)
        /\ job.minSyOut = applySlippage(job.preview.syOut, job.slip)
    BY <1>2, <1>4 DEF RemoveJob, EmptyPool, Pools
  <2> HIDE DEF before
  <2>3. job.got.ptOut \in Nat /\ job.got.syOut \in Nat
    BY <2>2, FloorBounds DEF Redeems
  <2>4. job.preview.ptOut \in Nat /\ job.preview.syOut \in Nat
    BY <2>1 DEF PromisesTokens
  <2>5. Close(job.got.ptOut, job.preview.ptOut) /\ Close(job.got.syOut, job.preview.syOut)
    <3>1. /\ job.got.ptOut >= applySlippage(job.preview.ptOut, job.slip)
          /\ job.got.syOut >= applySlippage(job.preview.syOut, job.slip)
      BY <2>2
    <3> QED  BY <2>2, <2>3, <2>4, <3>1, ToleranceBound DEF Close
  <2>6. LiquidityWithinTolerance
    BY <2>2, <2>5 DEF LiquidityWithinTolerance
  <2>7. ASSUME job.pool = Ledgers[hash - 1].pool  PROVE  job.got = job.preview
    <3>1. job.pool = before
      BY <2>7 DEF before, PoolBefore
    <3>2. job.got.ptOut = job.preview.ptOut /\ job.got.syOut = job.preview.syOut
      BY <2>1, <2>2, <3>1 DEF PromisesTokens
    <3>3. job.got = [job.preview EXCEPT !.ptOut = job.got.ptOut, !.syOut = job.got.syOut]
      BY <1>4 DEF RemoveJob
    <3> QED  BY <2>1, <3>2, <3>3 DEF PromisesTokens
  <2> QED  BY <2>6, <2>7 DEF PreviewIsExact
<1> QED  BY <1>3, <1>4 DEF PoolInv

-----------------------------------------------------------------------------
(* The trade page.                                                         *)

\* For the amount, route and wallet that the form would send.
Matches(q) == q.amount = form.amount /\ q.route = form.route /\ q.of = address

QuoteRequest(r) ==
  /\ DOMAIN r = {"amount", "route", "of", "since", "sent", "cancelled"}
  /\ r.amount \in Nat /\ r.route \in DIRECTIONS /\ r.cancelled \in BOOLEAN

QuoteInv ==
  /\ DOMAIN form = {"amount", "route", "slip", "quote", "quoting"}
  /\ form.amount \in Nat /\ form.route \in DIRECTIONS /\ form.slip \in Tolerances
  /\ \/ form.quote = NoQuote \/ form.quote.kind = "error"
     \/ form.quote.kind = "quote" /\ form.quote.out \in Nat /\ Matches(form.quote)
  /\ \A r \in form.quoting : QuoteRequest(r) /\ (~r.cancelled => Matches(r))

TradeJob ==
  /\ DOMAIN job = {"page", "of", "amount", "route", "quoted", "slip", "min", "error"}
  /\ job.amount \in Nat /\ job.route \in DIRECTIONS
  /\ job.quoted \in Nat /\ job.slip \in Tolerances /\ job.min \in Nat
  /\ job.min >= applySlippage(job.quoted, job.slip)

TradeInv == QuoteInv /\ (phase \in {"working", "done"} => TradeJob)

LEMMA AmountOutInNat ==
  ASSUME NEW k \in 1 .. Height, NEW route \in DIRECTIONS, NEW n \in Nat
  PROVE  AmountOut(k, route, n) \in Nat
<1>1. Ledgers[k].pays[route] \in Nat
  BY LedgersHold DEF Contents
<1> QED  BY <1>1, FloorBounds, WadAssumption DEF AmountOut

LEMMA Requotes ==
  ASSUME QuoteInv, NEW n \in Nat, NEW route \in DIRECTIONS, NEW user,
         form' = Requoted(n, route, user), address' = user
  PROVE  QuoteInv'
<1> DEFINE new == [amount |-> n, route |-> route, of |-> user, since |-> 0, sent |-> FALSE, cancelled |-> FALSE]
<1>1. /\ DOMAIN form' = DOMAIN form /\ form'.amount = n /\ form'.route = route /\ form'.slip = form.slip
      /\ form'.quote = NoQuote /\ form'.quoting \subseteq QuoteDropped \cup {new}
  BY DEF QuoteInv, Requoted
<1>2. \A r \in QuoteDropped : QuoteRequest(r) /\ r.cancelled
  BY DEF QuoteDropped, QuoteInv, QuoteRequest
<1>3. QuoteRequest(new) /\ new.amount = n /\ new.route = route /\ new.of = user
  BY DEF QuoteRequest
<1> HIDE DEF new
<1>4. ASSUME NEW r \in form'.quoting  PROVE  QuoteRequest(r) /\ (~r.cancelled => Matches(r)')
  BY <1>1, <1>2, <1>3 DEF Matches
<1> QED  BY <1>1, <1>4 DEF QuoteInv

LEMMA TradeStays ==
  ASSUME CoreInv, CoreInv', AppNext, page' = "trade", page = "trade" => TradeInv
  PROVE  TradeInv'
<1>1. CASE Navigate("trade", First("trade"))
  BY <1>1, ToleranceIsGiven DEF Navigate, First, TradeInv, QuoteInv, TradeFirst, NoAmount, DIRECTIONS
<1>2. CASE page = "trade" /\ (LedgerCloses \/ PageReading \/ PageFails)
  <2>1. Passes /\ UNCHANGED form /\ TradeInv
    BY <1>2, PassesBy
  <2> QED  BY <2>1 DEF Passes, TradeInv, QuoteInv, TradeJob, Matches
<1>3. CASE page = "trade" /\ TradeNext
  <2> SUFFICES ASSUME page = "trade", TradeInv, TradeNext
               PROVE  TradeInv'
    BY <1>3
  <2>1. ASSUME UNCHANGED txVars, QuoteInv'  PROVE  TradeInv'
    BY <2>1 DEF txVars, TradeInv, TradeJob
  <2>2. CASE \E n \in TradeAmounts \cup {NoAmount} : TypeAmount(n)
    BY <2>1, <2>2, Requotes, TradeAssumption DEF TypeAmount, Fields, TradeInv, QuoteInv, NoAmount
  <2>3. CASE \E r \in Routes : PickRoute(r)
    BY <2>1, <2>3, Requotes, TradeAssumption DEF PickRoute, Fields, TradeInv, QuoteInv
  <2>4. CASE \E a \in Users \cup {Nobody} : TradeWallet(a)
    BY <2>1, <2>4, Requotes DEF TradeWallet, AddressChanges, TradeInv, QuoteInv
  <2>5. CASE \E s \in Tolerances : PickTolerance(s)
    <3>1. QuoteInv'
      BY <2>5 DEF PickTolerance, Setting, TradeInv, QuoteInv, Matches
    <3> QED  BY <2>1, <2>5, <3>1 DEF PickTolerance, Setting
  <2>6. CASE TradeQuoting
    <3>1. PICK r \in form.quoting :
            DebounceFires(r) \/ QuoteFails(r) \/ \E at \in 1 .. ledger : QuoteArrives(r, at)
      BY <2>6 DEF TradeQuoting
    <3>2. QuoteInv /\ QuoteRequest(r) /\ (~r.cancelled => Matches(r)) /\ UNCHANGED address
      BY <3>1 DEF TradeInv, QuoteInv, DebounceFires, QuoteFails, QuoteArrives, Fields
    <3>3. CASE DebounceFires(r)
      <4> DEFINE sent == [r EXCEPT !.sent = TRUE, !.since = Since(ledger)]
      <4>1. form' = [form EXCEPT !.quoting = (@ \ {r}) \cup {sent}] /\ UNCHANGED txVars
        BY <3>3 DEF DebounceFires, Fields
      <4>2. QuoteRequest(sent) /\ (~sent.cancelled => Matches(sent))
        BY <3>2 DEF QuoteRequest, Matches
      <4> HIDE DEF sent
      <4>3. QuoteInv'
        BY <3>2, <4>1, <4>2 DEF QuoteInv, Matches
      <4> QED  BY <2>1, <4>1, <4>3
    <3>4. CASE QuoteFails(r)
      <4>1. form' = [form EXCEPT !.quoting = @ \ {r},
                                 !.quote = IF QuoteHeeded(r) THEN [kind |-> "error"] ELSE @]
            /\ UNCHANGED txVars
        BY <3>4 DEF QuoteFails, Fields
      <4>2. QuoteInv'
        BY <3>2, <4>1 DEF QuoteInv, Matches
      <4> QED  BY <2>1, <4>1, <4>2
    <3>5. ASSUME NEW at \in 1 .. ledger, QuoteArrives(r, at)  PROVE  TradeInv'
      <4> DEFINE quote == [kind |-> "quote", amount |-> r.amount, route |-> r.route, of |-> r.of,
                           out |-> AmountOut(at, r.route, r.amount)]
      <4>1. form' = [form EXCEPT !.quoting = @ \ {r}, !.quote = IF QuoteHeeded(r) THEN quote ELSE @]
            /\ UNCHANGED txVars
        BY <3>5 DEF QuoteArrives, Fields
      <4>2. at \in 1 .. Height
        BY HeightInNat DEF CoreInv
      <4>3. quote.out \in Nat
        BY <3>2, <4>2, AmountOutInNat DEF QuoteRequest
      <4>4. QuoteHeeded(r) => quote.kind = "quote" /\ quote.out \in Nat /\ Matches(quote)
        BY <3>2, <4>3 DEF QuoteHeeded, Matches
      <4> HIDE DEF quote
      <4>5. QuoteInv'
        BY <3>2, <4>1, <4>4 DEF QuoteInv, Matches
      <4> QED  BY <2>1, <4>1, <4>5
    <3> QED  BY <3>1, <3>3, <3>4, <3>5
  <2>7. CASE Trade
    <3> DEFINE least == applySlippage(form.quote.out, form.slip)
    <3>1. /\ canTrade /\ UNCHANGED <<form, address>>
          /\ job' = [page |-> "trade", of |-> address, amount |-> form.amount, route |-> form.route,
                     quoted |-> form.quote.out, slip |-> form.slip, min |-> least, error |-> NoError]
      BY <2>7 DEF Trade, TradeButton, SubmitButton, Submit
    <3>2. QuoteInv /\ form.quote.out \in Nat
      BY <3>1 DEF canTrade, TradeInv, QuoteInv, NoQuote
    <3>3. least \in Nat /\ least >= least
      <4>1. least \in Nat
        BY <3>2, SlippageInNat DEF QuoteInv
      <4> QED  BY <4>1
    <3> HIDE DEF least
    <3>4. TradeJob'
      BY <3>1, <3>2, <3>3 DEF QuoteInv, TradeJob, least
    <3>5. QuoteInv'
      BY <3>1, <3>2 DEF QuoteInv, Matches
    <3> QED  BY <3>4, <3>5 DEF TradeInv
  <2>8. CASE Traded
    <3> DEFINE out == AmountOut(ledger, job.route, job.amount)
    <3>1. /\ phase = "working" /\ out >= job.min /\ job' = [job EXCEPT !.min = out] /\ UNCHANGED <<form, address>>
      BY <2>8 DEF Traded, Confirmed
    <3>2. TradeJob /\ QuoteInv
      BY <3>1 DEF TradeInv
    <3>3. out \in Nat
      BY <3>2, AmountOutInNat DEF CoreInv, TradeJob
    <3> HIDE DEF out
    <3>4. applySlippage(job.quoted, job.slip) \in Nat
      BY <3>2, SlippageInNat DEF TradeJob
    <3>5. TradeJob'
      BY <3>1, <3>2, <3>3, <3>4 DEF TradeJob
    <3>6. QuoteInv'
      BY <3>1, <3>2 DEF QuoteInv, Matches
    <3> QED  BY <3>5, <3>6 DEF TradeInv
  <2>9. CASE TradeRefused
    BY <2>9 DEF TradeRefused, Refused, FailsWith, TradeInv, QuoteInv, Matches
  <2> QED  BY <2>2, <2>3, <2>4, <2>5, <2>6, <2>7, <2>8, <2>9 DEF TradeNext
<1> QED  BY <1>1, <1>2, <1>3, OnePageAtATime

LEMMA TradeKeepsPromise ==
  ASSUME TradeInv, page = "trade", phase = "done"
  PROVE  PaysWhatWasShown
  BY ToleranceBound DEF TradeInv, TradeJob, PaysWhatWasShown

-----------------------------------------------------------------------------
(* The mint page: its form and the transactions behind it, and the faucet. *)

FlowAt(f, now) == DOMAIN f = {"of", "id", "step", "signer", "at"} /\ f.at \in 0 .. now

\* Reads of the balance that are not replaced began after the last grant.
SeesGrants ==
  /\ \A r \in Live("underlying") : form.grantedAt <= r.since + Lag
  /\ Settled("underlying") /\ balanceKnown => form.grantedAt <= shown["underlying"].at + Lag

FaucetInv ==
  /\ DOMAIN form = {"amount", "split", "grants", "faucet", "begun", "flows", "grantedAt"}
  /\ form.amount \in Nat /\ form.grants \in Nat /\ form.grantedAt \in 0 .. ledger
  /\ \A f \in form.flows : FlowAt(f, ledger)
  /\ SeesGrants

MintJob ==
  /\ DOMAIN job = {"page", "op", "of", "amount", "steps", "landed", "seen", "preview", "got", "error"}
  /\ DOMAIN job.got = {"syOut", "splitOut", "rate"}
  /\ job.amount \in Nat /\ job.seen \in 1 .. Height
  /\ job.preview = {Receipt(job.amount, Ledgers[job.seen].rate)}
  /\ job.landed # 0 =>
       job.got.rate \in Nat \ {0} /\ job.got.syOut = SharesFor(job.amount, job.got.rate)
  /\ phase = "working" => job.landed = 0 \/ (job.landed = 1 /\ job.steps = 2)
  /\ phase = "done" => job.landed # 0
  /\ phase = "done" /\ job.steps = 2 =>
       \A promised \in job.preview : job.got.splitOut = FaceOf(promised.syOut, Ledgers[hash - 1].rate)

MintInv == FaucetInv /\ (phase \in {"working", "done"} => MintJob)

\* At a higher rate a share is worth no less, and a deposit no more shares.
LEMMA FaceRises ==
  ASSUME NEW s \in Nat, NEW a \in Nat, NEW b \in Nat, a <= b
  PROVE  MulDivFloor(s, a, WAD) <= MulDivFloor(s, b, WAD)
<1> DEFINE f == MulDivFloor(s, a, WAD)
<1>1. WAD \in Nat \ {0}
  BY WadAssumption
<1>2. f \in Nat /\ f * WAD <= s * a
  BY <1>1, FloorBounds
<1> HIDE DEF f
<1>3. a * s <= b * s
  BY ProductMonotone
<1>4. s * a \in Nat /\ s * b \in Nat /\ f * WAD \in Nat /\ a * s = s * a /\ b * s = s * b
  BY <1>1, <1>2, ProductInNat
<1>5. f * WAD <= s * b
  BY <1>2, <1>3, <1>4
<1> QED  BY <1>1, <1>2, <1>5, FloorIsGreatest DEF f

LEMMA SharesFall ==
  ASSUME NEW n \in Nat, NEW a \in Nat \ {0}, NEW b \in Nat \ {0}, a <= b
  PROVE  SharesFor(n, b) <= SharesFor(n, a)
<1> DEFINE f == MulDivFloor(n, WAD, b)
<1>1. WAD \in Nat
  BY WadAssumption
<1>2. f \in Nat /\ f * b <= n * WAD
  BY <1>1, FloorBounds
<1> HIDE DEF f
<1>3. a * f <= b * f
  BY <1>2, ProductMonotone
<1>4. n * WAD \in Nat /\ f * a \in Nat /\ f * b \in Nat /\ a * f = f * a /\ b * f = f * b
  BY <1>1, <1>2, ProductInNat
<1>5. f * a <= n * WAD
  BY <1>2, <1>3, <1>4
<1> QED  BY <1>1, <1>2, <1>5, FloorIsGreatest DEF f, SharesFor

LEMMA MintKeepsPromise ==
  ASSUME CoreInv, MintInv, page = "mint", phase = "done"
  PROVE  ReceiptIsKept
<1> DEFINE r0 == Ledgers[job.seen].rate
           r1 == Ledgers[hash - 1].rate
           promised == Receipt(job.amount, r0)
<1>1. MintJob /\ hash - 1 \in 1 .. Height
  BY HeightInNat DEF MintInv, CoreInv
<1>2. r0 \in Nat \ {0} /\ r1 \in Nat \ {0} /\ WAD \in Nat \ {0} /\ job.amount \in Nat
  BY <1>1, LedgersHold, WadAssumption DEF MintJob, Contents
<1>3. /\ promised.syOut = SharesFor(job.amount, r0)
      /\ promised.splitOut = FaceOf(promised.syOut, r0)
      /\ job.preview = {promised}
  BY <1>1 DEF Receipt, SharesFor, FaceOf, MulDivFloor, MintJob
<1> HIDE DEF r0, r1, promised
<1>4. promised.syOut \in Nat
  BY <1>2, <1>3, FloorBounds DEF SharesFor
<1>5. r0 <= r1 => FaceOf(promised.syOut, r0) <= FaceOf(promised.syOut, r1)
  BY <1>2, <1>4, FaceRises DEF FaceOf
<1>6. /\ job.got.rate = r0 => job.got.syOut = promised.syOut
      /\ job.got.rate <= r0 => promised.syOut <= job.got.syOut
  <2>1. job.got.syOut = SharesFor(job.amount, job.got.rate) /\ job.got.rate \in Nat \ {0}
    BY <1>1 DEF MintInv, MintJob
  <2> QED  BY <1>2, <1>3, <2>1, SharesFall
<1>7. job.steps = 2 => job.got.splitOut = FaceOf(promised.syOut, r1)
  BY <1>1, <1>3 DEF MintJob, r1
<1> QED  BY <1>3, <1>5, <1>6, <1>7 DEF ReceiptIsKept, r0, r1

\* A new read of the balance begins after the grants there have been.
LEMMA GrantsStaySeen ==
  ASSUME ReadInv, ReadInv', page = "mint", page' = "mint",
         SeesGrants, form.grantedAt \in 0 .. ledger, form'.grantedAt \in 0 .. ledger,
         \/ (Still \/ Refreshes \/ Reading) /\ form'.grantedAt = form.grantedAt
         \/ Refreshes /\ form.grants \in Nat /\ form'.grants = form.grants + 1
  PROVE  SeesGrants'
<1> DEFINE h == "underlying"
<1>1. /\ h \in Hooks /\ CoreInv /\ CoreInv' /\ HookTyped(h) /\ HookTyped(h)'
      /\ ledger \in Nat \ {0} /\ Lag \in Nat
  BY ReadsAssumption, HeightInNat DEF ReadInv, HookInv, Hooks, CoreInv
<1> DEFINE Kept == asked'[h] = asked[h] /\ shown'[h] = shown[h]
<1>2. ASSUME Kept, form'.grantedAt = form.grantedAt
      PROVE  SeesGrants'
  BY <1>2 DEF SeesGrants, Live, Settled, balanceKnown
<1>3. CASE Still /\ form'.grantedAt = form.grantedAt
  BY <1>2, <1>3 DEF Still, readVars
<1>4. CASE Refreshes
  <2> DEFINE e == EffectOf(h, address', RefreshKey')
  <2>1. CASE Kept /\ (h \notin Watched[page] \/ e = EffectOf(h, address, RefreshKey))
    <3>1. CASE form'.grantedAt = form.grantedAt
      BY <1>2, <2>1, <3>1
    <3>2. CASE form.grants \in Nat /\ form'.grants = form.grants + 1
      <4>1. e # EffectOf(h, address, RefreshKey)
        BY <3>2 DEF EffectOf, useUnderlying, Effect, RefreshKey, KeyOf
      <4>2. asked'[h] = {} /\ shown'[h] = Blank
        BY <1>1, <2>1, <4>1 DEF HookTyped
      <4> QED  BY <4>2 DEF SeesGrants, Live, balanceKnown, Blank, Reply
    <3> QED  BY <1>4, <3>1, <3>2
  <2>2. CASE /\ \A r \in Live(h)' : r.since = Since(ledger')
             /\ e.wants => ~Settled(h)'
             /\ ~e.wants => Settled(h)' /\ shown'[h] = Blank
    <3>1. form'.grantedAt <= Since(ledger') + Lag
      <4>1. ledger' \in Nat \ {0} /\ ledger <= ledger'
        BY <1>1, <1>4 DEF Refreshes
      <4>2. ledger' <= Since(ledger') + Lag /\ Since(ledger') \in 1 .. ledger'
        BY <4>1, SinceIsRecent
      <4> QED  BY <1>1, <4>1, <4>2
    <3> QED  BY <2>2, <3>1 DEF SeesGrants, balanceKnown, Blank, Reply
  <2> QED  BY <1>1, <1>4, <2>1, <2>2, EffectRuns
<1>5. CASE Reading /\ form'.grantedAt = form.grantedAt
  <2>1. PICK g \in Hooks : ReadEnds(g)
    BY <1>5 DEF Reading
  <2>2. HookTyped(g)
    BY DEF ReadInv, HookInv
  <2>3. PICK r, answer, begun : r \in asked[g] /\ IsOver(g, r, answer, begun)
    BY <1>1, <2>1, <2>2, ReadIsOver
  <2>4. /\ UNCHANGED <<page, address, ledger>>
        /\ shown'[h] = IF h = g /\ ~r.cancelled THEN answer ELSE shown[h]
        /\ asked'[h] = (asked[h] \ (IF h = g THEN {r} ELSE {})) \cup begun
    BY <1>1, <2>3, ReadLeaves
  <2>5. CASE h # g
    <3>1. shown'[h] = shown[h] /\ asked'[h] = asked[h] \cup begun
      BY <2>4, <2>5
    <3>2. \A x \in begun : x.since = Since(ledger)
      BY <2>3 DEF IsOver, Awaited
    <3>3. form.grantedAt <= Since(ledger) + Lag
      BY <1>1, SinceIsRecent
    <3> QED  BY <1>5, <3>1, <3>2, <3>3 DEF SeesGrants, Live, Settled, balanceKnown
  <2>6. CASE h = g
    <3>1. asked'[h] = asked[h] \ {r}
      BY <2>3, <2>4, <2>6 DEF IsOver, Awaited
    <3>2. CASE r.cancelled
      <4>1. shown'[h] = shown[h] /\ Live(h)' = Live(h)
        BY <2>4, <3>1, <3>2 DEF Live
      <4> QED  BY <1>5, <4>1 DEF SeesGrants, Settled, balanceKnown
    <3>3. CASE ~r.cancelled
      <4>1. shown'[h] = answer /\ r \in Live(h) /\ Live(h)' \subseteq Live(h)
        BY <2>3, <2>4, <2>6, <3>1, <3>3 DEF Live
      <4>2. form.grantedAt <= r.since + Lag /\ (answer.at # 0 => r.since <= answer.at)
        BY <2>3, <4>1 DEF SeesGrants, IsOver
      <4>3. r.since \in Nat /\ answer.at \in Nat
        BY <2>2, <2>3 DEF HookTyped, Requests, IsOver, Replies
      <4>4. answer.at # 0 => form.grantedAt <= answer.at + Lag
        BY <1>1, <4>2, <4>3
      <4> QED  BY <1>5, <4>1, <4>4 DEF SeesGrants, balanceKnown
    <3> QED  BY <3>2, <3>3
  <2> QED  BY <2>5, <2>6
<1> QED  BY <1>3, <1>4, <1>5

LEMMA MintStays ==
  ASSUME ReadInv, ReadInv', AppNext, page' = "mint", page = "mint" => MintInv
  PROVE  MintInv'
<1>0. /\ CoreInv /\ CoreInv' /\ ledger \in Nat \ {0} /\ ledger' \in Nat \ {0}
  BY HeightInNat DEF ReadInv, CoreInv
<1>1. CASE Navigate("mint", First("mint"))
  <2>1. form' = MintFirst /\ shown'["underlying"] = Blank /\ phase' = "idle" /\ UNCHANGED ledger
    BY <1>1 DEF Navigate, First, Hooks
  <2>2. \A r \in Live("underlying")' : r.since \in Nat
    BY DEF ReadInv, HookInv, HookTyped, Hooks, Live, Requests
  <2>3. FaucetInv'
    BY <1>0, <2>1, <2>2, ReadsAssumption DEF FaucetInv, SeesGrants, MintFirst, balanceKnown, Blank, Reply
  <2> QED  BY <2>1, <2>3 DEF MintInv
<1>2. CASE page = "mint" /\ (LedgerCloses \/ PageReading \/ PageFails)
  <2>1. Passes /\ UNCHANGED form /\ MintInv
    BY <1>2, PassesBy
  <2>2. Still \/ Reading
    BY <1>0, <1>2, HeightInNat DEF LedgerCloses, PageReading, PageFails, Fails, FailsWith, Still, txVars, CoreInv
  <2>3. SeesGrants'
    BY <1>0, <1>2, <2>1, <2>2, GrantsStaySeen DEF MintInv, FaucetInv, Passes
  <2>4. FaucetInv'
    BY <1>0, <2>1, <2>3 DEF Passes, MintInv, FaucetInv, FlowAt
  <2> QED  BY <2>1, <2>4 DEF Passes, MintInv, MintJob
<1>3. CASE page = "mint" /\ MintNext
  <2> SUFFICES ASSUME page = "mint", MintInv, MintNext
               PROVE  MintInv'
    BY <1>3
  <2>0. Now.rate \in Nat \ {0}
    BY <1>0, LedgersHold, HeightInNat DEF CoreInv, Now, Contents
  <2>1. ASSUME Still \/ Refreshes, DOMAIN form' = DOMAIN form, form'.amount \in Nat, form'.grants = form.grants,
               form'.grantedAt = form.grantedAt, \A f \in form'.flows : FlowAt(f, ledger')
        PROVE  FaucetInv'
    <3>1. ledger' \in {ledger, ledger + 1}
      BY <2>1 DEF Still, Refreshes
    <3>2. FaucetInv /\ form.grantedAt \in 0 .. ledger
      BY DEF MintInv, FaucetInv
    <3>3. SeesGrants'
      BY <1>3, <2>1, <3>2, GrantsStaySeen DEF FaucetInv
    <3> QED  BY <1>0, <2>1, <3>1, <3>2, <3>3 DEF FaucetInv
  <2>2. ASSUME UNCHANGED txVars, FaucetInv'  PROVE  MintInv'
    BY <2>2 DEF txVars, MintInv, MintJob
  <2>3. ASSUME Still \/ Refreshes, UNCHANGED form
        PROVE  FaucetInv'
    <3>1. ledger' \in {ledger, ledger + 1}
      BY <2>3 DEF Still, Refreshes
    <3>2. \A f \in form'.flows : FlowAt(f, ledger')
      BY <1>0, <2>3, <3>1 DEF MintInv, FaucetInv, FlowAt
    <3> QED  BY <2>1, <2>3, <3>2 DEF MintInv, FaucetInv
  <2>4. CASE onMint
    <3>1. /\ mintPreview # {} /\ UNCHANGED form /\ phase' = "working"
          /\ job' = [page |-> "mint", op |-> "mint", of |-> address, amount |-> form.amount,
                     steps |-> IF form.split THEN 2 ELSE 1, landed |-> 0, seen |-> shown["market"].at,
                     preview |-> mintPreview, got |-> [syOut |-> 0, splitOut |-> 0, rate |-> 0], error |-> NoError]
      BY <2>4 DEF onMint, MintButton, SubmitButton, canMint, Submit
    <3>2. MarketKnown /\ mintPreview = {Receipt(form.amount, market.exchangeRate)}
      BY <3>1 DEF mintPreview
    <3>3. shown["market"].at \in 1 .. Height /\ market.exchangeRate = Ledgers[shown["market"].at].rate
      BY <3>2, MarketIsTyped
    <3>4. Refreshes
      BY <1>0, <2>4, Felt DEF onMint
    <3>5. MintJob'
      BY <3>1, <3>2, <3>3 DEF MintJob, MintInv, FaucetInv
    <3> QED  BY <2>3, <3>1, <3>4, <3>5 DEF MintInv
  <2>5. ASSUME NEW done, Confirmed(done), phase = "working", DOMAIN done = DOMAIN job,
               DOMAIN done.got = DOMAIN job.got, done.amount = job.amount, done.seen = job.seen,
               done.preview = job.preview, done.landed # 0, done.got.rate \in Nat \ {0}, done.got.syOut = SharesFor(done.amount, done.got.rate),
               done.steps = 2 => \A promised \in done.preview : done.got.splitOut = FaceOf(promised.syOut, Now.rate)
        PROVE  MintInv'
    <3>1. Refreshes /\ UNCHANGED form /\ phase' = "done" /\ job' = done /\ hash' = ledger + 1
      BY <1>0, <2>5, Felt DEF Confirmed
    <3>2. hash' - 1 = ledger
      BY <1>0, <3>1
    <3>3. MintJob
      BY <2>5 DEF MintInv
    <3>4. MintJob'
      BY <2>5, <3>1, <3>2, <3>3 DEF MintJob, Now
    <3> QED  BY <2>3, <3>1, <3>4 DEF MintInv
  <2>6. CASE Minted
    <3> DEFINE n == SharesFor(job.amount, Now.rate)
               r == Now.rate
               done == [job EXCEPT !.landed = 1, !.got.syOut = n, !.got.rate = r]
    <3>1. /\ phase = "working" /\ job.steps = 1 /\ Confirmed(done)
          /\ n = SharesFor(job.amount, r) /\ r \in Nat \ {0}
      BY <2>0, <2>6 DEF Minted
    <3> HIDE DEF n, r
    <3>2. done = [job EXCEPT !.landed = 1, !.got.syOut = n, !.got.rate = r]
      OBVIOUS
    <3> HIDE DEF done
    <3>3. /\ DOMAIN job = {"page", "op", "of", "amount", "steps", "landed", "seen", "preview", "got", "error"}
          /\ DOMAIN job.got = {"syOut", "splitOut", "rate"}
      BY <3>1 DEF MintInv, MintJob
    <3>4. /\ DOMAIN done = DOMAIN job /\ done.steps = job.steps
          /\ done.amount = job.amount /\ done.seen = job.seen /\ done.preview = job.preview /\ done.landed = 1
          /\ done.got = [job.got EXCEPT !.syOut = n, !.rate = r]
      BY <3>2, <3>3
    <3>5. DOMAIN done.got = DOMAIN job.got /\ done.got.syOut = n /\ done.got.rate = r
      BY <3>3, <3>4
    <3>6. done.got.rate \in Nat \ {0} /\ done.got.syOut = SharesFor(done.amount, done.got.rate)
      BY <3>1, <3>4, <3>5
    <3>7. /\ DOMAIN done = DOMAIN job /\ done.steps # 2 /\ done.landed # 0
          /\ done.amount = job.amount /\ done.seen = job.seen /\ done.preview = job.preview
      BY <3>1, <3>4
    <3>8. phase = "working" /\ Confirmed(done)
      BY <3>1
    <3> QED  BY <2>5, <3>5, <3>6, <3>7, <3>8
  <2>7. CASE DepositLands
    <3> DEFINE n == SharesFor(job.amount, Now.rate)
               r == Now.rate
    <3>1. /\ phase = "working" /\ job.steps = 2 /\ job.landed = 0 /\ UNCHANGED <<phase, form, hash>>
          /\ job' = [job EXCEPT !.landed = 1, !.got.syOut = n, !.got.rate = r]
          /\ n = SharesFor(job.amount, r) /\ r \in Nat \ {0}
      BY <2>0, <2>7 DEF DepositLands
    <3> HIDE DEF n, r
    <3>2. MintJob
      BY <3>1 DEF MintInv
    <3>3. /\ DOMAIN job' = DOMAIN job /\ DOMAIN job'.got = DOMAIN job.got
          /\ job'.steps = 2 /\ job'.landed = 1 /\ job'.amount = job.amount /\ job'.seen = job.seen
          /\ job'.preview = job.preview /\ job'.got.syOut = n /\ job'.got.rate = r
      BY <3>1, <3>2 DEF MintJob
    <3>4. MintJob'
      BY <3>1, <3>2, <3>3 DEF MintJob
    <3>5. Still
      BY <1>0, <2>7, HeightInNat DEF DepositLands, Still, CoreInv
    <3> QED  BY <2>3, <3>1, <3>4, <3>5 DEF MintInv
  <2>8. CASE SplitLands
    <3>1. PICK promised \in job.preview :
            Confirmed([job EXCEPT !.landed = 2, !.got.splitOut = FaceOf(promised.syOut, Now.rate)])
      BY <2>8 DEF SplitLands
    <3> DEFINE face == FaceOf(promised.syOut, Now.rate)
               done == [job EXCEPT !.landed = 2, !.got.splitOut = face]
    <3>2. MintJob /\ phase = "working" /\ job.landed = 1 /\ Confirmed(done)
      BY <2>8, <3>1 DEF SplitLands, MintInv
    <3>3. \A p \in job.preview : face = FaceOf(p.syOut, Now.rate)
      BY <3>2 DEF MintJob
    <3> HIDE DEF face
    <3>4. /\ DOMAIN done = DOMAIN job /\ DOMAIN done.got = DOMAIN job.got
          /\ done.amount = job.amount /\ done.seen = job.seen /\ done.preview = job.preview /\ done.landed # 0
          /\ done.got.syOut = job.got.syOut /\ done.got.rate = job.got.rate /\ done.got.splitOut = face
      BY <3>2 DEF MintJob
    <3>5. job.got.rate \in Nat \ {0} /\ job.got.syOut = SharesFor(job.amount, job.got.rate)
      BY <3>2 DEF MintJob
    <3> HIDE DEF done
    <3> QED  BY <2>5, <3>2, <3>3, <3>4, <3>5
  <2>9. CASE SplitRefused
    <3>1. Still /\ UNCHANGED form /\ phase' = "error"
      BY <1>0, <2>9, Felt DEF SplitRefused, Refused, FailsWith
    <3> QED  BY <2>3, <3>1 DEF MintInv
  <2>10. CASE onGetTestUsdc
    <3> DEFINE f == [of |-> address, id |-> form.begun, step |-> "request", signer |-> Nobody, at |-> 0]
    <3>1. /\ form' = [form EXCEPT !.begun = @ + 1, !.flows = @ \cup {f}, !.faucet = Story("working", "request")]
          /\ UNCHANGED <<ledger, txVars>>
      BY <2>10 DEF onGetTestUsdc, Fields
    <3>2. FlowAt(f, ledger')
      BY <1>0 DEF FlowAt
    <3>3. Still
      BY <1>0, <2>10, Felt DEF onGetTestUsdc
    <3> HIDE DEF f
    <3>4. form'.flows = form.flows \cup {f} /\ \A g \in form.flows : FlowAt(g, ledger')
      BY <3>1 DEF MintInv, FaucetInv, FlowAt
    <3>5. \A g \in form'.flows : FlowAt(g, ledger')
      BY <3>2, <3>4
    <3>6. FaucetInv'
      BY <2>1, <3>1, <3>3, <3>5 DEF MintInv, FaucetInv
    <3> QED  BY <2>2, <3>1, <3>6
  <2>11. CASE Granting
    <3>1. PICK f \in form.flows :
            \/ fetchBlendFaucetTransaction(f) \/ fundWithFriendbot(f) \/ SignsGrant(f) \/ GrantFails(f)
            \/ GrantLands(f) \/ GrantSeen(f)
      BY <2>11 DEF Granting
    <3>2. FlowAt(f, ledger)
      BY DEF MintInv, FaucetInv
    <3>3. ASSUME NEW next, NEW story, FlowStep(f, next, story), \A g \in next : FlowAt(g, ledger)
          PROVE  MintInv'
      <4>1. Still /\ UNCHANGED <<ledger, txVars>>
        BY <1>0, <3>3, Felt DEF Fields, FlowStep
      <4>2. form' = [form EXCEPT !.flows = (@ \ {f}) \cup next, !.faucet = story]
        BY <3>3 DEF Fields, FlowStep
      <4>3. \A g \in form'.flows : FlowAt(g, ledger')
        BY <3>3, <4>1, <4>2 DEF MintInv, FaucetInv, FlowAt
      <4>4. FaucetInv'
        BY <2>1, <4>1, <4>2, <4>3 DEF MintInv, FaucetInv
      <4> QED  BY <2>2, <4>1, <4>4
    <3>4. ASSUME NEW step, GoesTo(f, step)  PROVE  MintInv'
      <4>1. FlowAt([f EXCEPT !.step = step], ledger)
        BY <3>2 DEF FlowAt
      <4>2. FlowStep(f, {[f EXCEPT !.step = step]}, Story("working", step))
        BY <3>4 DEF GoesTo
      <4> QED  BY <3>3, <4>1, <4>2
    <3>5. CASE SignsGrant(f)
      <4>1. FlowAt([f EXCEPT !.step = "submit", !.signer = Signer(f)], ledger)
        BY <3>2 DEF FlowAt
      <4>2. FlowStep(f, {[f EXCEPT !.step = "submit", !.signer = Signer(f)]}, Story("working", "submit"))
        BY <3>5 DEF SignsGrant
      <4> QED  BY <3>3, <4>1, <4>2
    <3>6. CASE GrantLands(f)
      <4> DEFINE g == [f EXCEPT !.step = "poll", !.at = ledger + 1]
      <4>1. /\ form' = [form EXCEPT !.flows = (@ \ {f}) \cup {g}, !.faucet = Story("working", "poll")]
            /\ ledger' = ledger + 1 /\ UNCHANGED txVars
        BY <3>6 DEF GrantLands
      <4>2. FlowAt(g, ledger')
        <5>1. DOMAIN g = DOMAIN f /\ g.at = ledger'
          BY <3>2, <4>1 DEF FlowAt
        <5> QED  BY <1>0, <3>2, <5>1 DEF FlowAt
      <4>3. Still
        BY <1>0, <3>6, HeightInNat DEF GrantLands, Still, txVars, CoreInv
      <4> HIDE DEF g
      <4>4. form'.flows = (form.flows \ {f}) \cup {g} /\ \A x \in form.flows : FlowAt(x, ledger')
        BY <1>0, <4>1 DEF MintInv, FaucetInv, FlowAt
      <4>5. \A x \in form'.flows : FlowAt(x, ledger')
        BY <4>2, <4>4
      <4>6. FaucetInv'
        BY <2>1, <4>1, <4>3, <4>5 DEF MintInv, FaucetInv
      <4> QED  BY <2>2, <4>1, <4>6
    <3>7. CASE GrantSeen(f)
      <4>1. /\ form' = [form EXCEPT !.flows = @ \ {f}, !.faucet = Story("done", "none"),
                                    !.grants = form.grants + 1, !.grantedAt = f.at]
            /\ UNCHANGED <<ledger, txVars>>
        BY <3>7 DEF GrantSeen, Refreshed
      <4>2. Refreshes
        BY <1>0, <3>7 DEF GrantSeen, Refreshes, RefreshKey, KeyOf, txVars, CoreInv
      <4>3. FaucetInv
        BY DEF MintInv
      <4>4. /\ DOMAIN form' = DOMAIN form /\ form'.amount = form.amount /\ form'.grants = form.grants + 1
            /\ form'.grantedAt = f.at /\ form'.flows \subseteq form.flows
        BY <4>1, <4>3 DEF FaucetInv
      <4>5. SeesGrants'
        BY <1>3, <3>2, <4>2, <4>3, <4>4, GrantsStaySeen DEF FaucetInv, FlowAt
      <4>6. FaucetInv'
        BY <1>0, <3>2, <4>1, <4>3, <4>4, <4>5 DEF FaucetInv, FlowAt
      <4> QED  BY <2>2, <4>1, <4>6
    <3>8. CASE GrantFails(f)
      <4>1. FlowStep(f, {}, Story("error", "none"))
        BY <3>8 DEF GrantFails
      <4> QED  BY <3>3, <4>1
    <3> QED  BY <3>1, <3>4, <3>5, <3>6, <3>7, <3>8 DEF fetchBlendFaucetTransaction, fundWithFriendbot
  <2>12. CASE \E a \in Users \cup {Nobody} : MintWallet(a)
    <3>1. /\ Refreshes /\ UNCHANGED <<ledger, txVars>>
          /\ form' = [form EXCEPT !.faucet = Story("idle", "none")]
      BY <1>0, <2>12, Felt DEF MintWallet, AddressChanges
    <3>2. \A f \in form'.flows : FlowAt(f, ledger')
      BY <3>1 DEF MintInv, FaucetInv, FlowAt
    <3>3. FaucetInv'
      BY <2>1, <3>1, <3>2 DEF MintInv, FaucetInv
    <3> QED  BY <2>2, <3>1, <3>3
  <2>13. ASSUME NEW next, Fields("mint", next), DOMAIN next = DOMAIN form, next.amount \in Nat,
                next.grants = form.grants, next.grantedAt = form.grantedAt, next.flows = form.flows
         PROVE  MintInv'
    <3>1. Still /\ form' = next /\ UNCHANGED <<ledger, txVars>>
      BY <1>0, <2>13, Felt DEF Fields
    <3>2. \A f \in form'.flows : FlowAt(f, ledger')
      BY <2>13, <3>1 DEF MintInv, FaucetInv, FlowAt
    <3>3. FaucetInv'
      BY <2>1, <2>13, <3>1, <3>2
    <3> QED  BY <2>2, <3>1, <3>3
  <2>14. CASE \E n \in MintAmounts \cup {0} : Fields("mint", [form EXCEPT !.amount = n])
    BY <2>13, <2>14, MintAssumption DEF MintInv, FaucetInv
  <2>15. CASE \E split \in BOOLEAN : Fields("mint", [form EXCEPT !.split = split])
    BY <2>13, <2>15 DEF MintInv, FaucetInv
  <2> QED  BY <2>4, <2>6, <2>7, <2>8, <2>9, <2>10, <2>11, <2>12, <2>14, <2>15 DEF MintNext
<1> QED  BY <1>1, <1>2, <1>3, OnePageAtATime

-----------------------------------------------------------------------------
(* The panel.                                                              *)

Sells(r) == r.face = estimatedFace(shown) /\ r.of = address

SaleInv ==
  /\ DOMAIN form = {"mode", "quote", "asking", "presses", "starting", "runs"}
  /\ form.mode \in {"keep", "fixed"}
  /\ form.quote.kind = "quote" => form.mode = "fixed" /\ Sells(form.quote)
  /\ \A r \in form.asking :
       /\ DOMAIN r = {"face", "of", "cancelled"}
       /\ ~r.cancelled => form.mode = "fixed" /\ Sells(r)

\* What the panel goes by does not change but by a read, or when the wallet is
\* disconnected.
LEMMA PanelKnows ==
  ASSUME ReadInv, page = "panel", NEW user, NEW key, NEW now, EffectsRun(user, key, now)
  PROVE  /\ shown'["market"] = shown["market"]
         /\ shown'["blend"] = IF user = Nobody THEN Blank ELSE shown["blend"]
<1>1. {"market", "blend"} \subseteq Hooks
  BY DEF Hooks
<1>2. ASSUME NEW h \in {"market", "blend"}
      PROVE  shown'[h] = IF /\ h \in Watched[page] /\ EffectOf(h, user, key) # EffectOf(h, address, RefreshKey)
                            /\ ~EffectOf(h, user, key).wants
                         THEN Blank ELSE shown[h]
  BY <1>1 DEF EffectsRun
<1>3. /\ EffectOf("market", user, key).wants
      /\ EffectOf("blend", user, key).wants <=> user # Nobody
      /\ user # address => EffectOf("blend", user, key) # EffectOf("blend", address, RefreshKey)
  BY DEF EffectOf, Effect, useMarketStatus, useBlendPosition
<1>4. /\ address = Nobody => shown["blend"] = Blank
      /\ "blend" \notin Watched[page] => shown["blend"] = Blank
  BY <1>1 DEF ReadInv, HookInv, HookTyped, IsOwn, Own
<1> QED  BY <1>2, <1>3, <1>4

LEMMA FaceIsOf ==
  ASSUME NEW one, NEW other, one["market"] = other["market"], one["blend"] = other["blend"]
  PROVE  estimatedFace(one) = estimatedFace(other)
  BY DEF estimatedFace, HasDeposit

\* A render that changes what would be sold drops the quote and what was asked.
LEMMA RerenderKeeps ==
  ASSUME SaleInv, NEW fields, NEW user, NEW known,
         DOMAIN fields = DOMAIN form, fields.mode \in {"keep", "fixed"},
         fields.quote = form.quote, fields.asking = form.asking,
         form' = Rerendered(fields, user, known), address' = user,
         estimatedFace(shown)' = estimatedFace(known)
  PROVE  SaleInv'
<1> DEFINE before == SaleDeps(form.mode, address, shown)
           after == SaleDeps(fields.mode, user, known)
           face == estimatedFace(known)
           dropped == {[r EXCEPT !.cancelled = TRUE] : r \in {x \in form.asking : ~x.cancelled}}
           begun == IF WantsQuote(after, face) THEN {[face |-> face, of |-> user, cancelled |-> FALSE]} ELSE {}
<1>1. CASE before = after
  <2>1. form' = fields
    BY <1>1 DEF Rerendered
  <2>2. fields.mode = form.mode /\ user = address /\ estimatedFace(known) = estimatedFace(shown)
    BY <1>1 DEF SaleDeps
  <2> QED  BY <2>1, <2>2 DEF SaleInv, Sells
<1>2. CASE before # after
  <2>1. form' = [fields EXCEPT !.quote = NoSale, !.asking = dropped \cup begun]
    BY <1>2 DEF Rerendered
  <2>2. \A r \in dropped : DOMAIN r = {"face", "of", "cancelled"} /\ r.cancelled
    BY DEF SaleInv
  <2>3. \A r \in begun : DOMAIN r = {"face", "of", "cancelled"} /\ fields.mode = "fixed" /\ r.face = face /\ r.of = user
    BY DEF WantsQuote, SaleDeps
  <2> HIDE DEF dropped, begun, face
  <2>4. /\ DOMAIN form' = DOMAIN form /\ form'.mode = fields.mode /\ form'.quote.kind # "quote"
        /\ form'.asking = dropped \cup begun
    BY <2>1 DEF SaleInv, NoSale
  <2> QED  BY <2>2, <2>3, <2>4 DEF SaleInv, Sells, face
<1> QED  BY <1>1, <1>2

LEMMA SaleStays ==
  ASSUME ReadInv, ReadInv', AppNext, page' = "panel", page = "panel" => SaleInv
  PROVE  SaleInv'
<1>1. CASE Navigate("panel", First("panel"))
  BY <1>1 DEF Navigate, First, SaleInv, PanelFirst, NoSale
<1>2. ASSUME page = "panel", DOMAIN form' = DOMAIN form, form'.mode = form.mode, form'.quote = form.quote,
             form'.asking = form.asking, UNCHANGED address,
             shown'["market"] = shown["market"], shown'["blend"] = shown["blend"]
      PROVE  SaleInv'
  <2>1. estimatedFace(shown)' = estimatedFace(shown)
    BY <1>2, FaceIsOf
  <2> QED  BY <1>2, <2>1 DEF SaleInv, Sells
<1>3. ASSUME page = "panel", NEW key, NEW now, EffectsRun(address, key, now)
      PROVE  shown'["market"] = shown["market"] /\ shown'["blend"] = shown["blend"]
  <2>1. address = Nobody => shown["blend"] = Blank
    BY DEF ReadInv, HookInv, IsOwn, Own, Hooks
  <2> QED  BY <1>3, <2>1, PanelKnows
<1>4. CASE page = "panel" /\ (LedgerCloses \/ PageReading \/ PageFails)
  <2>1. CASE LedgerCloses
    BY <1>2, <1>4, <2>1 DEF LedgerCloses, readVars
  <2>2. CASE PageReading
    <3>1. form' = Rerendered(form, address, shown') /\ UNCHANGED address
      BY <1>4, <2>2 DEF PageReading, Reading, ReadEnds, Answer, Unanswered, Ends
    <3> QED  BY <1>4, <3>1, RerenderKeeps DEF SaleInv
  <2> QED  BY <1>4, <2>1, <2>2 DEF PageFails
<1>5. CASE page = "panel" /\ PanelNext
  <2> SUFFICES ASSUME page = "panel", SaleInv, PanelNext
               PROVE  SaleInv'
    BY <1>5
  <2>1. ASSUME NEW next, Fields("panel", next), DOMAIN next = DOMAIN form, next.mode = form.mode,
               next.quote = form.quote, next.asking = form.asking
        PROVE  SaleInv'
    BY <1>2, <2>1 DEF Fields, readVars
  <2>2. ASSUME NEW call, NEW next, Submit(call, next), DOMAIN next = DOMAIN form, next.mode = form.mode,
               next.quote = form.quote, next.asking = form.asking
        PROVE  SaleInv'
    BY <1>2, <1>3, <2>2 DEF Submit
  <2>3. CASE \E m \in {"keep", "fixed"} : PickMode(m)
    <3>1. PICK m \in {"keep", "fixed"} : PickMode(m)
      BY <2>3
    <3>2. form' = Rerendered([form EXCEPT !.mode = m], address, shown) /\ UNCHANGED <<address, shown>>
      BY <3>1 DEF PickMode, Fields, readVars
    <3> QED  BY <3>2, RerenderKeeps DEF SaleInv
  <2>4. CASE SaleQuoting
    <3>1. PICK r \in form.asking : \E outcome \in SaleOutcomes(r) : SaleQuoteEnds(r, outcome)
      BY <2>4 DEF SaleQuoting
    <3>2. PICK outcome \in SaleOutcomes(r) : SaleQuoteEnds(r, outcome)
      BY <3>1
    <3>3. /\ form' = [form EXCEPT !.asking = @ \ {r}, !.quote = IF r.cancelled THEN @ ELSE outcome]
          /\ UNCHANGED <<address, shown>>
      BY <3>2 DEF SaleQuoteEnds, Fields, readVars
    <3>4. outcome.kind = "quote" => outcome.face = r.face /\ outcome.of = r.of
      BY <3>2 DEF SaleOutcomes
    <3>5. /\ DOMAIN form' = DOMAIN form /\ form'.mode = form.mode /\ form'.asking \subseteq form.asking
          /\ form'.quote = IF r.cancelled THEN form.quote ELSE outcome
      BY <3>3 DEF SaleInv
    <3> QED  BY <3>1, <3>3, <3>4, <3>5 DEF SaleInv, Sells
  <2>5. CASE onTokenize
    BY <2>1, <2>2, <2>5 DEF onTokenize, SaleInv
  <2>6. CASE Starting
    BY <2>1, <2>2, <2>6 DEF Starting, Starts, StartFails, SaleInv
  <2>7. ASSUME NEW j, RunLands(j)  PROVE  SaleInv'
    <3>1. /\ form' = [form EXCEPT !.runs = @ \ {j}] /\ UNCHANGED address
          /\ EffectsRun(address, KeyOf("done", ledger + 1, form), ledger + 1)
      BY <2>7 DEF RunLands
    <3> QED  BY <1>2, <1>3, <3>1 DEF SaleInv
  <2>8. ASSUME NEW j, NEW sale, RunFails(j, sale)  PROVE  SaleInv'
    <3>1. /\ form' = [form EXCEPT !.runs = @ \ {j}] /\ UNCHANGED address
          /\ EffectsRun(address, KeyOf("error", hash, form), ledger)
      BY <2>8 DEF RunFails
    <3> QED  BY <1>2, <1>3, <3>1 DEF SaleInv
  <2>9. CASE \E a \in Users \cup {Nobody} : PanelWallet(a)
    <3>1. PICK a \in Users \cup {Nobody} : PanelWallet(a)
      BY <2>9
    <3> DEFINE known == IF a = Nobody THEN [shown EXCEPT !["blend"] = Blank] ELSE shown
    <3>2. form' = Rerendered(form, a, known) /\ address' = a /\ EffectsRun(a, KeyOf(phase, hash, form'), ledger)
      BY <3>1 DEF PanelWallet, AddressChanges
    <3>3. known["market"] = shown["market"] /\ known["blend"] = IF a = Nobody THEN Blank ELSE shown["blend"]
      BY DEF ReadInv, CoreInv, Hooks
    <3> HIDE DEF known
    <3>4. estimatedFace(shown)' = estimatedFace(known)
      BY <3>2, <3>3, PanelKnows, FaceIsOf
    <3> QED  BY <3>2, <3>4, RerenderKeeps DEF SaleInv
  <2> QED  BY <2>3, <2>4, <2>5, <2>6, <2>7, <2>8, <2>9 DEF PanelNext
<1> QED  BY <1>1, <1>4, <1>5, OnePageAtATime

-----------------------------------------------------------------------------
(* All of the app.                                                         *)

PageInv ==
  /\ page = "trade" => TradeInv
  /\ page = "pool" => PoolInv
  /\ page = "portfolio" => PortfolioInv
  /\ page = "mint" => MintInv
  /\ page = "panel" => SaleInv

AppInv == ReadInv /\ PageInv

LEMMA AppBegins == AppInit => AppInv
<1> SUFFICES ASSUME AppInit
             PROVE  AppInv
  OBVIOUS
<1>1. ReadInv
  BY ReadsBegin
<1>2. page \in Pages /\ form = First(page) /\ phase = "idle" /\ job = NoJob /\ shown = [h \in Hooks |-> Blank]
  BY DEF AppInit, OpenPage
<1>3. page = "trade" => TradeInv
  BY <1>2, ToleranceIsGiven DEF First, TradeInv, QuoteInv, TradeFirst, NoAmount, DIRECTIONS
<1>4. page = "pool" => PoolInv
  BY <1>2, ToleranceIsGiven DEF First, PoolInv, PoolFirst
<1>5. page = "portfolio" => PortfolioInv
  BY <1>2, PortfolioOpens DEF First
<1>6. ASSUME page = "mint"  PROVE  MintInv
  <2>1. form = MintFirst /\ shown["underlying"] = Blank /\ ledger \in Nat
    BY <1>1, <1>2, <1>6, HeightInNat DEF First, Hooks, ReadInv, CoreInv
  <2>2. \A r \in Live("underlying") : r.since \in Nat
    BY <1>1 DEF ReadInv, HookInv, HookTyped, Hooks, Live, Requests
  <2>3. FaucetInv
    BY <2>1, <2>2, ReadsAssumption DEF FaucetInv, SeesGrants, MintFirst, balanceKnown, Blank, Reply
  <2> QED  BY <1>2, <2>3 DEF MintInv
<1>7. page = "panel" => SaleInv
  BY <1>2 DEF First, SaleInv, PanelFirst, NoSale
<1> QED  BY <1>1, <1>3, <1>4, <1>5, <1>6, <1>7 DEF AppInv, PageInv

LEMMA AppStays == AppInv /\ [AppNext]_vars => AppInv'
<1>1. ASSUME AppInv, AppNext  PROVE  AppInv'
  <2>1. ReadInv /\ ReadInv' /\ CoreInv /\ CoreInv'
    BY <1>1, ReadsStay DEF AppInv, ReadInv
  <2> QED  BY <1>1, <2>1, TradeStays, PoolStays, PortfolioStays, MintStays, SaleStays DEF AppInv, PageInv
<1>2. ASSUME AppInv, UNCHANGED vars  PROVE  AppInv'
  <2>1. ReadInv'
    BY <1>2, ReadsStep DEF AppInv
  <2> USE <1>2 DEF AppInv, PageInv, vars, readVars, txVars
  <2>2. (page = "trade" => TradeInv)'
    BY DEF TradeInv, QuoteInv, TradeJob, Matches
  <2>3. (page = "pool" => PoolInv)'
    BY DEF PoolInv, AddJob, RemoveJob, PoolBefore
  <2>4. (page = "portfolio" => PortfolioInv)'
    BY DEF PortfolioInv, Now
  <2>5. (page = "mint" => MintInv)'
    BY DEF MintInv, FaucetInv, SeesGrants, Live, Settled, balanceKnown, MintJob
  <2>6. (page = "panel" => SaleInv)'
    BY DEF SaleInv, Sells, estimatedFace, HasDeposit
  <2> QED  BY <2>1, <2>2, <2>3, <2>4, <2>5, <2>6
<1> QED  BY <1>1, <1>2

\* What lands is what was shown when the button was pressed, to the last unit, in
\* a market that has not changed since it was read; otherwise a swap and a change
\* of liquidity keep to the tolerance, and a deposit, a split and an unwrapping,
\* which have none, bring no less unless the rate moved against them (lpPreview.ts,
\* slippage.ts, the minimum outputs of the pages).
THEOREM PagesKeepTheirPromises == AppSpec => []GetsWhatWasShown
<1>1. ASSUME AppInv  PROVE  GetsWhatWasShown
  <2>1. PreviewIsExact /\ LiquidityWithinTolerance
    BY <1>1, PoolKeepsPromises DEF PreviewIsExact, LiquidityWithinTolerance, Finished, AppInv, PageInv
  <2>2. PaysWhatWasShown
    BY <1>1, TradeKeepsPromise DEF PaysWhatWasShown, AppInv, PageInv
  <2>3. ReceiptIsKept
    <3>1. CASE page = "mint" /\ phase = "done"
      BY <1>1, <3>1, MintKeepsPromise DEF AppInv, PageInv, ReadInv
    <3>2. CASE page = "portfolio" /\ phase = "done"
      <4>1. /\ job.preview \subseteq {Unwraps(job.amount, Ledgers[job.seen].rate)}
            /\ job.op = "unwrap" => job.got = Unwraps(job.amount, Ledgers[hash - 1].rate)
        BY <1>1, <3>2 DEF AppInv, PageInv, PortfolioInv
      <4>2. CASE job.op = "unwrap"
        <5> DEFINE r0 == Ledgers[job.seen].rate
                   r1 == Ledgers[hash - 1].rate
        <5>1. ASSUME NEW promised \in job.preview
              PROVE  /\ r0 = r1 => job.got = promised
                     /\ r0 <= r1 => promised <= job.got
          <6>1. promised = Unwraps(job.amount, r0) /\ job.got = Unwraps(job.amount, r1)
            BY <4>1, <4>2, <5>1
          <6>2. r0 \in Nat /\ r1 \in Nat /\ job.amount \in Nat
            BY <1>1, <3>2, <5>1, LedgersHold, HeightInNat DEF AppInv, PageInv, ReadInv, CoreInv, PortfolioInv, Contents
          <6> HIDE DEF r0, r1
          <6> QED  BY <6>1, <6>2, FaceRises DEF Unwraps
        <5> QED  BY <3>2, <5>1 DEF ReceiptIsKept
      <4>3. CASE job.op # "unwrap"
        BY <3>2, <4>3 DEF ReceiptIsKept
      <4> QED  BY <4>2, <4>3
    <3> QED  BY <3>1, <3>2 DEF ReceiptIsKept
  <2> QED  BY <2>1, <2>2, <2>3 DEF GetsWhatWasShown
<1> QED  BY <1>1, AppBegins, AppStays, PTL DEF AppSpec

\* A quote on display is for what the page would send now, whichever quotes were
\* asked for before and in whatever order they are answered (the cleanups of
\* the two quote effects).
THEOREM QuotesStayCurrent == AppSpec => []QuotesAreCurrent
<1>1. AppInv => QuotesAreCurrent
  BY DEF QuotesAreCurrent, QuoteIsForTheForm, SaleQuoteIsCurrent, AppInv, PageInv, TradeInv, QuoteInv, Matches,
         canTrade, NoQuote, SaleInv, Sells
<1> QED  BY <1>1, AppBegins, AppStays, PTL DEF AppSpec

\* What has landed cannot be put back by a read begun before it, in what the page
\* reads again for it (refreshKey, faucetRefresh).
THEOREM PagesShowWhatLanded == AppSpec => []SeesWhatLanded
<1>1. ASSUME AppInv  PROVE  SeesWhatLanded
  <2>1. ASSUME NEW figure \in Screen, phase = "done", Refetches(figure.from),
               Settled(figure.from), figure.answer # Blank
        PROVE  hash <= figure.answer.at + Lag
    <3>1. /\ figure.from \in Hooks /\ figure.answer = shown[figure.from] /\ HookInv(figure.from)
          /\ hash # 0
      BY <1>1, <2>1, ScreenIsHooks DEF AppInv, ReadInv, CoreInv
    <3> QED  BY <2>1, <3>1 DEF HookInv, IsNew
  <2>2. SeesOwnTransaction
    BY <2>1 DEF SeesOwnTransaction
  <2>3. SeesGrant
    BY <1>1 DEF SeesGrant, AppInv, PageInv, MintInv, FaucetInv, SeesGrants
  <2> QED  BY <2>2, <2>3 DEF SeesWhatLanded
<1> QED  BY <1>1, AppBegins, AppStays, PTL DEF AppSpec

LEMMA FormsAre ==
  /\ DOMAIN RedeemForms = {"claim", "redeem", "unwrap"}
  /\ RedeemForms["claim"].button = SubmitButton(PhaseUnder("claim"), ~canClaim)
  /\ RedeemForms["redeem"].button = SubmitButton(PhaseUnder("redeem"), ~canRedeem)
  /\ RedeemForms["unwrap"].button = SubmitButton(PhaseUnder("unwrap"), ~canUnwrap)
  /\ RedeemForms["claim"].status = RedeemStatus("claim", "tokenizer")
  /\ RedeemForms["redeem"].status = RedeemStatus("redeem", "tokenizer")
  /\ RedeemForms["unwrap"].status = RedeemStatus("unwrap", "sy")
  /\ RedeemForms["redeem"].field.error <=> redeemError
  /\ RedeemForms["unwrap"].field.error <=> unwrapError
  BY DEF RedeemForms, AmountField

LEMMA ButtonIs ==
  ASSUME NEW ph, NEW disabled
  PROVE  SubmitButton(ph, disabled).enabled <=> ~disabled
  BY DEF SubmitButton

\* A visitor who can send a transaction and has typed an amount, but finds the
\* button closed, is told why.
LEMMA ButtonsAreExplained ==
  ASSUME AppInv
  PROVE  SaysWhyNot
<1> SUFFICES ASSUME address # Nobody, phase # "working"
             PROVE  SaysWhyNot
  BY DEF SaysWhyNot
<1>1. CASE page = "trade"
  <2>1. form.quote = NoQuote \/ form.quote.kind \in {"error", "quote"}
    BY <1>1 DEF AppInv, PageInv, TradeInv, QuoteInv
  <2>2. /\ TradeButton.enabled <=> canTrade
        /\ TradeForm.spinner <=> quoting
        /\ TradeForm.field.error <=> TradeAmountError
        /\ form.quote.kind = "error" => QuotePanel.kind = "error"
    BY ButtonIs DEF TradeButton, TradeForm, AmountField, QuotePanel
  <2>3. form.amount # NoAmount /\ ~canTrade =>
          quoting \/ TradeAmountError \/ priceImpactTooHigh \/ form.quote.kind = "error"
    BY <2>1 DEF canTrade, quoting
  <2> QED  BY <1>1, <2>2, <2>3 DEF SaysWhyNot
<1>2. CASE page = "pool"
  <2>1. /\ AddView.button.enabled <=> canAdd
        /\ AddView.notice = IF matured THEN "closed" ELSE IF ~poolSeeded THEN "unseeded" ELSE "none"
        /\ overBalance(form.pt) \/ overBalance(form.sy) => \E f \in AddView.fields : f.error
        /\ addPreview.reason # "null" => \E p \in AddView.preview : p.out = addPreview
    BY ButtonIs DEF AddView, AmountField
  <2>2. form.pt # 0 /\ form.sy # 0 /\ MarketKnown /\ addPreview.reason # "ok" =>
          addPreview.reason # "null" /\ addPreview.lpOut = 0
    BY DEF addPreview, previewAddLiquidity, zeroAddPreview
  <2>3. form.pt # 0 /\ form.sy # 0 /\ ~AddView.button.enabled =>
          \/ AddView.notice # "none" \/ \E f \in AddView.fields : f.error
          \/ \E p \in AddView.preview : p.out.lpOut = 0
    BY <2>1, <2>2 DEF canAdd, poolSeeded
  <2> QED  BY <1>2, <2>3 DEF SaysWhyNot
<1>3. CASE page = "mint"
  <2>1. /\ MintButton.enabled <=> canMint
        /\ MintForm.field.error <=> mintError
        /\ ReceiptPreview.noMarket <=> mintPreview = {} /\ ~MarketKnown
    BY ButtonIs DEF MintButton, MintForm, AmountField, ReceiptPreview
  <2>2. form.amount # 0 /\ ~canMint => mintError \/ (mintPreview = {} /\ ~MarketKnown)
    BY DEF canMint, mintPreview
  <2> QED  BY <1>3, <2>1, <2>2 DEF SaysWhyNot
<1>4. CASE page = "portfolio"
  <2>1. /\ RedeemForms["redeem"].button.enabled <=> canRedeem
        /\ RedeemForms["unwrap"].button.enabled <=> canUnwrap
    BY FormsAre, ButtonIs
  <2>2. /\ form.amount # 0 /\ ~canRedeem => redeemError
        /\ form.syAmount # 0 /\ ~canUnwrap => unwrapError
    BY DEF canRedeem, canUnwrap
  <2> QED  BY <1>4, <2>1, <2>2, FormsAre DEF SaysWhyNot
<1>5. CASE page = "panel"
  <2>1. PanelView.shown => PanelView.button.enabled
    BY ButtonIs DEF PanelView
  <2> QED  BY <1>5, <2>1 DEF SaysWhyNot
<1>6. CASE page \notin {"trade", "pool", "mint", "portfolio", "panel"}
  BY <1>6 DEF SaysWhyNot
<1> QED  BY <1>1, <1>2, <1>3, <1>4, <1>5, <1>6

\* The visitor can tell how things stand: outcomes where they belong, closed
\* buttons explained, and figures of a strategy only where there is a market
\* (canSubmit and the rest, activeAction).
THEOREM PagesSayWhatGoesOn == AppSpec => []SaysWhatGoesOn
<1>1. ASSUME AppInv  PROVE  SaysWhatGoesOn
  <2>1. page \in {"trade", "pool", "portfolio", "mint", "strategy", "panel"}
    BY <1>1, AppAssumption DEF AppInv, ReadInv, CoreInv
  <2>3. StatusIsUnderItsForm
    <3>1. ASSUME NEW ctx  PROVE  /\ TxStatus("idle", ctx).kind = "nothing"
                                 /\ phase \in {"done", "error"} => TxStatus(phase, ctx).kind # "nothing"
      BY DEF TxStatus
    <3>2. CASE page = "pool" /\ phase \in {"done", "error"}
      <4>1. form.active = job.op
        BY <1>1, <3>2 DEF AppInv, PageInv, PoolInv
      <4>2. DOMAIN StatusLines = {"add", "remove"} /\ \A f \in DOMAIN StatusLines : StatusLines[f] = PoolStatus(f)
        BY <3>2 DEF StatusLines, AddView, RemoveView
      <4> QED  BY <3>1, <3>2, <4>1, <4>2 DEF StatusIsUnderItsForm, PoolStatus
    <3>3. CASE page = "portfolio" /\ phase \in {"done", "error"}
      <4>1. form.active = job.op
        BY <1>1, <3>3 DEF AppInv, PageInv, PortfolioInv
      <4>2. \A f \in DOMAIN StatusLines : StatusLines[f] = RedeemForms[f].status
        BY <3>3 DEF StatusLines
      <4>3. DOMAIN StatusLines = DOMAIN RedeemForms
        BY <3>3 DEF StatusLines
      <4>4. \A f \in DOMAIN StatusLines : \E ctx : StatusLines[f] = RedeemStatus(f, ctx)
        BY <4>2, <4>3, FormsAre
      <4> QED  BY <3>1, <3>3, <4>1, <4>4 DEF StatusIsUnderItsForm, RedeemStatus, PhaseUnder
    <3> QED  BY <3>2, <3>3 DEF StatusIsUnderItsForm
  <2>4. SaysWhyNot
    BY <1>1, ButtonsAreExplained
  <2>5. OffersOnlyWhatIsLive
    BY DEF OffersOnlyWhatIsLive, SelectedStrategy, StrategyMetrics, StrategyOptions, Stage, selectedIsLive, STRATEGIES
  <2> QED  BY <2>3, <2>4, <2>5 DEF SaysWhatGoesOn
<1> QED  BY <1>1, AppBegins, AppStays, PTL DEF AppSpec
=============================================================================
