------------------------------ MODULE AppReads ------------------------------
(***************************************************************************)
(* What an app page knows of the chain: React hooks that read on mount and *)
(* whenever the connected address or the refresh key changes, keep showing *)
(* the old answer meanwhile, and ignore the answer to a read they have     *)
(* replaced.  One page is mounted at a time; its fields and the phase of   *)
(* its transaction are gone when it unmounts.                              *)
(*                                                                         *)
(* The chain is a sequence of ledgers, which this module only counts.  A   *)
(* read of the market is several simulations, each answered of its own     *)
(* ledger; the node that answers may lag.                                  *)
(***************************************************************************)
EXTENDS Naturals, Sequences

CONSTANTS
  Users, Nobody,   \* wallet addresses, and null
  Restored,        \* what a page may open with (bound)
  Ledgers,         \* what each ledger of the run holds, a sequence
  Pages,           \* the pages checked
  Watched,         \* the hooks followed on each page, a function
  Lag,             \* ledgers the node that answers may be behind (bound)
  MaxMoves         \* connections, disconnections, navigations and changes of
                   \* tolerance (bound)

ASSUME ReadsAssumption ==
  /\ Nobody \notin Users /\ Restored \subseteq Users \cup {Nobody}
  /\ Ledgers # <<>> /\ MaxMoves \in Nat /\ Lag \in Nat
  /\ DOMAIN Watched = Pages

VARIABLES
  page,      \* the page mounted
  address,   \* useWallet().address
  moves,     \* what the visitor has done of the bounded things
  ledger,    \* the last ledger closed
  shown,     \* each hook's state: an answer, or Blank
  asked,     \* its reads under way, replaced ones included
  phase,     \* useTxFlow: idle, working, done or error
  hash,      \* the ledger the page's confirmed transaction is in
  job,       \* the transaction being signed and submitted
  form       \* the page's fields

readVars == <<shown, asked>>
txVars   == <<phase, hash, job>>
vars     == <<page, address, moves, ledger, readVars, txVars, form>>

Height == Len(Ledgers)
Now    == Ledgers[ledger]

\* Of the ledgers from `at' to `upTo'; what no answer has filled is Blank.
Reply(user, at, upTo) == [of |-> user, at |-> at, upTo |-> upTo]
Blank  == Reply(Nobody, 0, 0)
NoError == [contract |-> "none", code |-> 0]
NoJob  == [page |-> "none", error |-> NoError]

\* The ledgers a read begun in this one, or answered in this one, may show.
Since(k) == IF k > Lag THEN k - Lag ELSE 1
Recent   == Since(ledger) .. ledger

\* A hook: whether it asks at all, and the values its effect depends on.
Effect(wants, user, key) == [wants |-> wants, of |-> user, key |-> key]

\* The refresh key: the page's confirmed transaction, and on the mint page the
\* faucet's grants.
KeyOf(ph, hs, fields) ==
  [tx |-> IF ph = "done" THEN hs ELSE 0, grants |-> IF page = "mint" THEN fields.grants ELSE 0]
RefreshKey == KeyOf(phase, hash, form)
FirstKey   == [tx |-> 0, grants |-> 0]

\* The yield source is Blend's pool, with its addresses configured.
usePosition(user, key)      == Effect(user # Nobody, user, key)
useLpPosition(user, key)    == Effect(user # Nobody, user, key)
useBlendPosition(user, key) == Effect(user # Nobody, user, key)
useBlendRates               == Effect(TRUE, Nobody, FirstKey)

\* Only the pool page refreshes what it knows of the market.
useMarketStatus(key) == Effect(TRUE, Nobody, IF page = "pool" THEN key ELSE FirstKey)

\* The mint page's own effect, the balance of the underlying: it waits for the
\* market, which that page reads once, and not for the page's transactions.
useUnderlying(user, key) ==
  Effect(user # Nobody /\ shown["market"] # Blank, user, [key EXCEPT !.tx = 0])

EffectOf(h, user, key) ==
  CASE h = "position" -> usePosition(user, key)
    [] h = "lp"       -> useLpPosition(user, key)
    [] h = "blend"    -> useBlendPosition(user, key)
    [] h = "rates"    -> useBlendRates
    [] h = "market"   -> useMarketStatus(key)
    [] h = "underlying" -> useUnderlying(user, key)

Hooks == {"position", "lp", "blend", "rates", "market", "underlying"}

Live(h)  == {r \in asked[h] : ~r.cancelled}
Settled(h) == Live(h) = {}

\* The cleanup of the effect that runs last: its read is marked cancelled.
\* One replaced read is followed at a time.
Cancelled(h) == {[r EXCEPT !.cancelled = TRUE] : r \in Live(h)}

Ask(effect, now) ==
  IF effect.wants THEN {[of |-> effect.of, since |-> Since(now), cancelled |-> FALSE]} ELSE {}

\* The hooks see the address and the refresh key become these, in ledger `now'.
EffectsRun(user, key, now) ==
  LET effect(h) == EffectOf(h, user, key)
      runs(h)   == h \in Watched[page] /\ effect(h) # EffectOf(h, address, RefreshKey)
  IN  /\ asked' = [h \in Hooks |->
           IF runs(h)
           THEN Ask(effect(h), now) \cup (IF Settled(h) THEN asked[h] ELSE Cancelled(h))
           ELSE asked[h]]
      /\ shown' = [h \in Hooks |->
           IF runs(h) /\ (h = "underlying" \/ ~effect(h).wants) THEN Blank ELSE shown[h]]

\* The market is there: the effect that waits for it runs.
Awaited(h, r) ==
  IF h = "market" /\ shown[h] = Blank /\ "underlying" \in Watched[page] /\ address # Nobody
  THEN {[of |-> address, since |-> Since(ledger), cancelled |-> FALSE]} ELSE {}

\* Mutant of Heeds: an answer counts whatever became of its read.
HeedsAll(r) == TRUE

\* !cancelled && set
Heeds(r) == ~r.cancelled

Ends(h, r, answer, begun) ==
  /\ asked' = [g \in Hooks |->
       (asked[g] \ IF g = h THEN {r} ELSE {}) \cup IF g = "underlying" THEN begun ELSE {}]
  /\ shown' = [shown EXCEPT ![h] = IF Heeds(r) THEN answer ELSE @]
  /\ UNCHANGED <<page, address, moves, ledger, txVars>>

\* The simulations of one read may be answered of different ledgers; this is
\* followed for the market, from which the pool page works out its previews.
Answer(h, r) ==
  \E at \in r.since .. ledger :
    \E upTo \in (IF h = "market" /\ page = "pool" THEN at .. ledger ELSE {at}) :
      Ends(h, r, Reply(r.of, at, upTo), IF Heeds(r) THEN Awaited(h, r) ELSE {})

\* Every attempt failed: the hooks show nothing, and the mint page why.
NoTrustline == 13
Failure(user, code) == Reply(user, 0, code)
Unanswered(h, r) ==
  IF h = "underlying" THEN \E code \in {0, NoTrustline} : Ends(h, r, Failure(r.of, code), {})
                      ELSE Ends(h, r, Blank, {})

ReadEnds(h) == \E r \in asked[h] : Unanswered(h, r) \/ Answer(h, r)

FirstReads(p, user, now) ==
  [h \in Hooks |-> IF h \in Watched[p] \ {"underlying"} THEN Ask(EffectOf(h, user, FirstKey), now) ELSE {}]

\* The page opens with the wallet restored or not.
OpenPage(p, first) ==
  /\ page = p /\ form = first /\ address \in Restored /\ moves = 0 /\ ledger = 1
  /\ phase = "idle" /\ hash = 0 /\ job = NoJob
  /\ shown = [h \in Hooks |-> Blank] /\ asked = FirstReads(p, address, ledger)

Moves == moves < MaxMoves /\ moves' = moves + 1

\* The wallet connects, disconnects or is replaced by another; `next' is what
\* becomes of the page's fields.
AddressChanges(a, next) ==
  /\ Moves
  /\ a # address /\ address' = a /\ form' = next
  /\ EffectsRun(a, KeyOf(phase, hash, next), ledger)
  /\ UNCHANGED <<page, ledger, txVars>>

\* The visitor goes to another page and finds it as new.
Navigate(p, first) ==
  /\ Moves
  /\ page' = p /\ form' = first
  /\ phase' = "idle" /\ hash' = 0 /\ job' = NoJob
  /\ shown' = [h \in Hooks |-> Blank] /\ asked' = FirstReads(p, address, ledger)
  /\ UNCHANGED <<address, ledger>>

\* Everybody else's transactions.
LedgerCloses ==
  /\ ledger < Height /\ ledger' = ledger + 1
  /\ UNCHANGED <<page, address, moves, readVars, txVars, form>>

\* A form's button: build, sign and submit.
Submit(call, next) ==
  /\ phase' = "working" /\ job' = call /\ form' = next /\ UNCHANGED hash
  /\ EffectsRun(address, KeyOf("working", hash, next), ledger)
  /\ UNCHANGED <<page, address, moves, ledger>>

\* It is confirmed in the next ledger.
Confirmed(done) ==
  /\ phase = "working" /\ ledger < Height
  /\ ledger' = ledger + 1
  /\ phase' = "done" /\ hash' = ledger + 1 /\ job' = done
  /\ EffectsRun(address, KeyOf("done", ledger + 1, form), ledger + 1)
  /\ UNCHANGED <<page, address, moves, form>>

FailsWith(error) ==
  /\ phase = "working"
  /\ phase' = "error" /\ job' = [job EXCEPT !.error = error] /\ UNCHANGED hash
  /\ UNCHANGED <<page, address, moves, ledger, form, readVars>>

\* It is declined or lost, or refused without a contract's code.
Fails == FailsWith(NoError)

\* A contract refuses it, when it is built or when it is sent.
Refused(contract, code) == FailsWith([contract |-> contract, code |-> code])

\* The page's fields change, and nothing else.
Fields(p, next) ==
  /\ page = p /\ next # form /\ form' = next
  /\ UNCHANGED <<page, address, moves, ledger, readVars, txVars>>

\* A setting of the page, changed a bounded number of times.
Setting(p, next) ==
  /\ Moves
  /\ page = p /\ next # form /\ form' = next
  /\ UNCHANGED <<page, address, ledger, readVars, txVars>>

Reading == \E h \in Hooks : ReadEnds(h)
=============================================================================
