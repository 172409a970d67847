# Sidereal in TLA+

TLA+ models, TLC runs and TLAPS proofs for Sidereal, a yield-tokenization
protocol on Stellar's Soroban platform: Rust contracts (`contracts/`), a
TypeScript SDK (`sdk/`), a Next.js application (`app/`) and deployment scripts
(`scripts/`). Paths below are relative to the repository root.

Contents: 1 the system, 2 modules, 3 runs, 4 bounds, 5 fairness and deadlock,
6 proofs, 7 what the runs found, 8 what is left out, 9 plan.

## 1. The system

A holder deposits an underlying asset into the **SY wrapper** and gets SY
shares, whose exchange rate follows a position in a Blend lending pool. The
**tokenizer** of a market takes SY into escrow and mints equal amounts of **PT**
(principal, worth its face in the underlying at maturity) and **YT** (the yield
until maturity). The **AMM** trades PT against SY, and YT through flash splits
and recombines. The **SDK** reads the chain and builds, submits and polls the
transactions the **app** has a wallet sign.

| component | state | operations | talks to | hard behaviour | correct when |
|---|---|---|---|---|---|
| tokenizer | maturity, last observed rate, frozen rate; its SY balance is the escrow | split, recombine, redeem_at_maturity, claim_yield, observe_rate, freeze_maturity_rate | calls SY, PT, YT | which call freezes the rate; a rate that dips; exits in any order from a short escrow | PT is senior and covered, exits are fair, claims fixed after maturity |
| pt-token | balances, supply, allowances | mint (tokenizer), transfer, burn, approve, *_from | called by tokenizer and AMM | allowance storage that is archived | an allowance is a plain grant |
| yt-token | the same, and per holder a checkpoint and banked yield | as PT, plus settle, consume, burn_settled | direct calls re-enter the tokenizer for the rate | settlement at every move, rounding each time | nothing is banked twice, at no rate the freeze does not know |
| sy-wrapper | shares, cost bases, supply, admin rate, reserve index | deposit, redeem, transfer, set_exchange_rate, migrate_reserve_index | Blend pool | pool rounding, short or failed withdrawals, a moved reserve | nobody dilutes anybody beyond a stated unit |
| blend-adapter | none | three conversions | used by the wrapper | floor rounding | (through the wrapper) |
| amm | reserves, LP shares, last rate, TWAP, warm-up flag | add/remove liquidity, four swaps | calls tokenizer, PT, SY, YT | flash funding and dust, donations, idle gaps | an LP share never loses value; liquidity is pro rata; a trusted average is not one trade's |
| SDK pipeline | sequence floor per account | build, submit | several RPC providers | lagging views, lost replies, deadlines | success means it landed; no sequence is reused; a retry replaces what is still under way; submit returns if its calls end |
| SDK reads | the source account cached per provider | reads of one or two rounds of simulations, failover, retries | the same providers | late replies, shared promises, partial failures | a value is of one attempt; a read ends |
| SDK Blend figures | none | utilization, three-slope rate, supply APR, position value | Blend's storage | rounding, bad debt | never overstates; a withdrawal drains |
| app flows | phase and step of a flow | tokenize a Blend position (3 or 4 signatures), mint (2) | SDK, wallet | failure in the middle, late landings, moving rates, flows of one wallet that overlap | YT held before is left alone |
| app hooks and cards | each hook's answer and reads under way | effects on address and refresh key, cleanups | SDK reads | answers that overtake each other or the wallet | a page shows its wallet's balances; what it reads again is as new as its own transaction |
| app pages | fields, quotes, previews, one transaction phase | five pages and the Blend panel | hooks, flows, faucet | debounced quotes, torn reads, two clocks, several forms on one phase | what was shown is what is got; quotes are current and come |
| demo runner | active task, last result; a page's log | POST, GET, child callbacks | child processes, pages | callbacks and requests interleave, replies are lost, output is trimmed | one task at a time, no self-refusal, the slot is freed, the log is in order and whole |
| deployment script | state file, manifest | deploy, initialize, save, rerun | ledger | a stop between any two steps | a manifest is one consistent market; a rerun gets there |

Soroban transactions are atomic: a contract call with all its sub-calls commits
or reverts as a whole. What interleaves inside the contracts is therefore
transactions of different holders, the SY rate and the clock. Off chain every
step is interleaved: wallets, providers, reads, callbacks, crashes.

`PROJECT.json` lists all components (`components`), what is hard to test at
which line (`hazards`) and the lines every definition stands for (`map`).

## 2. Modules

In the order they build on each other:

| module | models | notes |
|---|---|---|
| `FixedPoint` | mul_div_floor/ceil, owed_shares | pure operators |
| `Accounts` | the balance writes every token shares | `Moved` writes the debit before it reads the destination, as move_balance does |
| `SyToken`, `PtToken`, `YtToken` | the tokens as the market sees them | SY is a ledger and a rate that may move; YT is the checkpoint ledger |
| `Tokenizer` | one market: the tokenizer composed with the three tokens | one action per entrypoint, sub-calls included; a call that reverts is an action that is not enabled |
| `SeniorEscrow` | abstract: what a market promises PT | `Tokenizer!KeepsPromise` maps escrow and PT supply to it |
| `MarketSolvency` | sums over every holder | a property module of its own, because sums need finitely many holders |
| `BlendPool` | external: the pool as the wrapper and the tests' mock use it | rounding in the pool's favour, short payouts, reserve moves |
| `SyWrapper` | the wrapper over `BlendPool` or idle custody | `custody` is chosen by which initializer ran |
| `Twap`, `Amm` | the market maker | the log curve is any exchange rate of `Prices`, at least WAD; its ln-rate any of `LnRates` |
| `SpendingGrants` | abstract: an allowance without storage, beside PT's ledger | each step carries the call that made it (`call`), so that the refinement says by how much which grant moves |
| `Allowances` | approve/transfer_from/burn_from with temporary storage that archives | on PT; YT and SY contain the same code |
| `Submission` | abstract: a client reports success only of what landed | |
| `TxSubmit` | SDK build, send, failover, poll, sequence floor | network, providers and another device as environment; a call is made, may arrive, and ends in an answer, an error or never |
| `SdkReads` | withReadClient over withProviderFailover and simulateRead | the simulations of every read of the client, round by round; a reply is the ledger it was made on |
| `BlendRates` | the arithmetic of `blend.ts` | pure operators, each with the code's rounding |
| `BlendReserve` | external: a reserve moved by its users, interest and bad debt | the figures are computed from each of its states |
| `TokenizeFlow` | runSequence with the Blend panel's and the mint form's steps | the contracts reduced to what a call moves; several flows at once; a submission may fail and still land later (what `Submission` leaves open); the rate and deposit a flow starts from are the page's last read |
| `AppReads` | the hooks, the wallet's address, the refresh key, the transaction phase | a chain is a sequence of ledgers given as a constant; an answer names the wallet and the ledgers it is of |
| `Cards` | what the shared components make of a hook's state, and the error table | a figure on a page is the answer it shows |
| `LpPreview` | the pool previews, minimum outputs, and the contract's own formulas beside them | |
| `TradePage`, `PoolPage`, `PortfolioPage`, `MintPage`, `StrategyPage`, `BlendPanel` | one page each | its fields, views, button, status and transaction; the mint page's faucet |
| `App` | the pages, one mounted at a time over one wallet and one chain | properties that range over all pages |
| `DemoRunner` | the demo API's slot and callbacks, its pages and their logs | a piece of output is its number; the server keeps the last `Buffer` of them |
| `DeployScript` | the resumable deployment script with its state file | |
| `FixedPointProofs`, `TokenizerProofs`, `SolvencyProofs`, `AmmProofs`, `TokensProofs`, `SdkProofs`, `FlowsProofs`, `AppProofs` | theorems | section 6; `TokensProofs` is on allowances and the wrapper, `SdkProofs` on submission, reads and Blend figures, `FlowsProofs` on flows, the demo and the deployment script |
| `MC*` | constants for TLC | `MCTokens`, `MCSdk` and `MCFlows` put components that share no state side by side: a behaviour picks one of them at the start (`scene`) and the others stand still, so each is explored as if alone. The violation runs of `TokenizeFlow` and `DeployScript` need none |

How components meet. `Tokenizer` composes the contracts that call each other;
`SyWrapper` runs over `BlendPool`; `TokenizeFlow` takes of the SDK exactly what
`TxSubmit` is shown to guarantee (`Submission`); `App` takes of
the reads that they end (`SdkReads!ReadReturns`) and may be torn over ledgers
(`PartsAreFresh` says how far), and of the contracts the formulas of the map's lines.

How state corresponds to code. Variables carry the name of the storage key they
stand for, in a comment where the name differs: `lastObserved`, `maturityRate`
are `DataKey::LastObservedRate`, `DataKey::MaturityRate`; `checkpoint` and
`accrued` are YT's ledgers; `totalPt`, `totalSy`, `totalLp` the AMM's `State`
while `pool` is what its address really holds; `floor` is
`sequenceFloorBySource`; `source` is `sourceAccountPromises`; `shown[h]` is hook
h's `useState` and `asked[h]` the reads its effects have begun, with the
`cancelled` flag each closure holds; `phase`, `hash` and `job` are useTxFlow's
phase and the transaction it stands for; `form` holds the page's other
`useState`s and timers; `active`, `result` are the demo's two globals; `file`
is the deployment state file and `shell` the running script's variables.
History variables: `peak` (highest rate a market transaction committed), `fell`
(the rate has fallen), `arrived` (what a flow's withdrawal brought), `oldest`
(the oldest view when an attempt began), `job.got` and `job.seen` (what a
transaction brought, and of which ledger it was previewed), `open` (what was still
unexecuted when a transaction was built), `call` (the token call made last),
`overlapped` (a flow that sells ran beside another), `owner` (who started a task),
`unmarked` (the script stopped after an initialization and before its save),
`replaced` (a run came with another `$UNDERLYING` after the SY wrapper's
initialization).

Points where the models follow the code rather than its documents:

- A direct YT transfer or burn records the rate in the tokenizer (observe_rate
  or freeze_maturity_rate), so `TransferYt` and `BurnYt` include `CommitRate`.
- `claim_yield` pays part of what is owed when the surplus over PT is smaller.
- Settling rounds down each time, so "telescopes ... exactly the same total"
  (`yt-token/src/lib.rs:467`) is an upper bound; `FullyCovered` only needs that.
- `escrowed_sy` is documented as equal to the PT supply (`tokenizer/src/lib.rs:208`);
  it is in shares, the supply in face units.
- Only the pool page refreshes the market after its own transaction; the others
  read it once (`useMarketStatus`).

Operators named as mutants ("Mutant of X: ...") are wrong variants of the
definition that follows them. Each property is broken by at least one of them
(`mutants` in `PROJECT.json`), which shows that the run can fail.

## 3. Runs

Passing:

| run | shows |
|---|---|
| `market` | with a rate that rises and falls: PT covered at the peak rate, fair outflow, banked rates on record, claims fixed after maturity, refinement of `SeniorEscrow`; and until the rate first falls, PT exits at face, the escrow covers all PT and all yield to the unit, claims are paid in full |
| `tokens` | allowances: refinement of `SpendingGrants`, so every spend is charged exactly what it moves to its own pair and nothing else changes a grant. Wrapper, in both custody modes, with payouts cut short and reserve moves: deposits never lower the rate, a redemption costs the others a bounded fraction and the redeemer what arrived, cost bases follow shares |
| `amm` | liquidity is pro rata; LP shares never lose through trades, flash routes, rounding or donations; a trusted average moves by no more than the elapsed part of the window |
| `sdk` | submission: no reused sequence; a transaction that had not executed when the next was built never executes beside it, whatever sequence number either has; refinement of `Submission`; every submission whose calls end returns. Reads: every read ends, and no part of a value is older than its attempt. Figures: the supply rate is paid for, a withdrawal as shown drains both buckets |
| `flows` | flows: as long as no flow that sells runs beside another such, YT held before is not sold. Demo: one task at a time; a page is never refused because of a task whose result it has seen; the slot is freed unless a process the killed child started holds its pipes; the log is in order, without repetition, and whole if nothing was trimmed. Deployment: with three stops anywhere and any `$UNDERLYING`, a manifest names one market (but for the underlying, if it was replaced after the wrapper's initialization), and reruns get to the manifest unless a stop fell between an initialization and its save |
| `app` | own balances only; what a page reads again is as new as what landed; quotes are for what is on the form, and come; what was previewed is got; every outcome stands under its form and every closed button is explained; no redemption before maturity |

Violations (section 7): `dip_double_count`, `deploy_resumable`,
`flow_overreach`, `flow_overlap`, `app_errors`, `app_stale`.

Properties that hold of several pages are stated of all of them in `App`, as
conjunctions of named parts that are stated where they belong: `GetsWhatWasShown`
of the pool's previews (`PreviewIsExact`, `LiquidityWithinTolerance`), the mint
and portfolio figures (`ReceiptIsKept`) and the trade's minimum output
(`PaysWhatWasShown`); `SaysWhatGoesOn`, `SeesWhatLanded` and `QuotesAreCurrent`
likewise. Type invariants are not among the runs: where they matter,
in the modules with proofs, they are proved (section 6).

## 4. Bounds

Amounts are small and WAD is 10 instead of 10^18, with rates that do not divide
(1.3, 1.4, 1.7) so that every floor and ceiling really loses something. Integers are
unbounded: i128 overflow is a revert in the code, and the models have no
action for a revert.

- Market: 5 SY shares of one depositor, two holders and the escrow, amounts
  {5, 7}, three rates, `Maturity = MaxTime = 1`. Two holders
  are what transfers, early exit and late exit need; one tick separates before
  from after maturity, and calls on either side are unlimited.
- Wrapper: two interchangeable holders with 5 units each, amounts {2, 5},
  bToken value 1.0 and 1.3, two reserve slots and one move, payouts that may be
  capped at 3, one rate an admin of an idle wrapper raises to. Symmetry over
  holders and slots is sound: no property or action names one, and the run
  checks no liveness.
- Allowances: minimum lifetime 2, maximum 4, four ledgers, supply 2, two pairs:
  expiries fall before, on and after the minimum lifetime.
- AMM: two interchangeable providers, amounts {3, 4}, curve price 2.0, 10% fee
  and SY rates 1.0 and 1.3, which give dust on both sides of the flash and make
  all four routes possible. A market opened one tick before maturity has every
  call and hardly any time; one opened at 0 has window 3 and the clock to 8, and
  only trades: a gap longer than the window, blending inside it, and time after.
- Submission: two transactions, two providers, three executed sequences: one
  for each of them and one for another device. Reads: the quote (one round of
  two) and the emission scan (two rounds), which are the two shapes a read has;
  two attempts, one ledger that closes meanwhile. Figures: a curve with a break
  at 60%, rates in hundredths, up to 11 tokens, amounts {3, 8}: utilization on
  each of the three slopes and past 100%.
- Flows: two flows of any of the three forms, at once or one after the other, so
  that a late landing of one can meet the other; the wallet already holds some of
  every token; one rise of the rate.
- Demo: two pages and three children, three pieces of output of which the
  server keeps two: trimming, a rerun after a lost reply, and a page's two tasks
  with another page's between them. `LogIsWhole` bites on the runs that write no
  more than two, `LogIsTrue` on all.
- App: two wallets, three ledgers that differ in rate, quotes, pool, position and
  maturity (the browser's clock passes it one ledger before the contract's), a
  node one ledger behind, one change of wallet, page or tolerance; each page
  follows the one or two hooks its properties are about (`MCWatched`); two
  presses of the panel's button, one faucet grant. The rate of these ledgers only
  rises, so what `ReceiptIsKept` says of a deposit at a lower rate than read is
  shown by its proof alone.
- DeployScript: three stops, one rerun after success, two revisions, two
  maturities, and `$UNDERLYING` unset, the default or another at each run.

`MaxTime`, `MaxTxs`, `MaxHeight`, `MaxLedger`, `MaxTokens`, `MaxFlows`, `MaxRuns`,
`MaxOutput`, `MaxMoves`, `MaxGrants`, `MaxPresses`, `MaxCrashes`, `MaxReruns`,
`MaxReindexes`, `MaxSupply`, `Lag` are bounds of the runs, not of the
system. `Kinds` and `Pages` name the reads and pages a run makes.

## 5. Fairness and deadlock

Contracts have no scheduler: no fairness, safety only. Off chain:

- `TxSubmit`: `WF(Client)`, `WF(Answered)`, `WF(TimePasses)`. The event loop runs
  the client's own steps, the clock runs, and a call that was made ends, in a
  reply or an error. The last is an assumption on providers and network:
  `sendTransaction` (`client.ts:815`) and `getTransaction` (`client.ts:859`) have no
  timeout, and a call that hangs keeps submit() for ever. The deadline is looked at
  only where the code looks, between rounds of calls (`client.ts:856`).
  `SubmitReturns` then rests on that deadline and on the send loop being finite.
- `SdkReads`: `WF(Answers)`. A request to a provider is answered or fails: the
  code sets no timeout of its own on a simulation, so an RPC call that hangs for
  ever is outside what `ReadReturns` says.
- `TokenizeFlow`: none. A flow waits for a wallet's prompt, for builds and for
  balance reads without any limit of its own, so nothing is claimed of its end.
- `App`: `WF(TradeQuoting)`: the debounce timer fires and a quote is answered or
  fails, which is `ReadReturns` with its assumption. Nothing is assumed of the
  visitor, the wallet, the faucet or the chain, and no other wait of a page is
  claimed to end; `QuoteComes` allows for a visitor who keeps changing the form.
- `DemoRunner`: `WF` of the server's timer and callbacks (`Server`). Nothing is
  assumed of a child: SIGTERM goes to the child alone (`route.ts:216`) and 'close'
  waits for every process that holds its pipes, so `SlotIsFreed` allows that a
  task that timed out keeps the slot.
- `DeployScript`: `WF` of the script and of the operator's rerun while there is
  no manifest; crashes are bounded.

`CHECK_DEADLOCK FALSE` in all runs, because each system may rightly stop: the
clock and the runs' bounds are reached, tokens run out, users and operators may
do nothing more.

## 6. Proofs

TLAPS proves every invariant and every safety property of the passing runs, for
all values of the constants that satisfy the named assumptions. Those of the
contracts and the SDK (`WadAssumption`, `AccountAssumption`, `SyAssumption`,
`MarketAssumption`, `PoolAssumption`, `WrapperAssumption`, `TwapAssumption`,
`AmmAssumption`, `AllowanceAssumption`, `SubmitAssumption`, `ReadsAssumption`,
`BlendAssumption`, `ReserveAssumption`) say that WAD and scales are positive,
rates positive, amounts natural, curve prices at least WAD, the fee below 100%,
the backstop's take at most 100%, sets disjoint where addresses are distinct;
`FiniteHolders` that holders can be summed over. Those of the flows and the app
(`FlowAssumption`, `DemoAssumption`, `DeployAssumption`, `BpsAssumption`, one for
each page, `AppAssumption`) type what forms and ledgers hold; of the chain
`AppAssumption` says one thing more, that a market that has matured stays so.

- `TokenizerProofs`: `TypeCorrect`, `SuppliesCorrect`, `PtCovered`, `ExitsAtFace`,
  `OutflowIsFair`, `BanksOnRecord`, `ClaimsAreFixed`, `MarketKeepsPromise`.
  The type invariant is not inductive alone: a burn subtracts from the supply
  what it takes from a balance, so the supply must be known to cover every
  balance. `TypeInv` adds `SuppliesAreTotals`: there is a function that gives
  each set of accounts its total, growing by a balance as an account joins, and
  the supply is its value at all accounts. Every balance movement has an
  explicit new such function, so neither induction nor finiteness is needed.
  `PtCoveredAtPeak` (escrow times peak covers PT at face) is then inductive:
  splits mint at a rate no higher than the peak, exits leave the ratio of
  escrow to PT (the pro-rata cap), claims leave the face reservation. With
  `RateInv` (the peak is the current rate while rates cannot fall) it gives
  `ExitsAtFace`. The refinement maps each action to Fund, Exit, PayJunior or a stutter.
- `SolvencyProofs`: `StaysFullyCovered`, `ClaimsArePaid`. `FullyCovered` is not
  inductive: what a settle banks is rounded at the rate it happens at, so
  coverage at that rate says nothing of coverage at the next. `SolvencyInv` says that
  for every rate still ahead (`Ahead`) the escrow can be allocated: parts to
  each holder that back what is banked and what the YT will gain until
  then, parts to PT at face, no part twice. Settling, transfers and claims move
  parts along with what they back, and flooring a gain in two steps never gives
  more than in one.
- `TokensProofs`, allowances: `EntriesOutliveGrants`, `AllowancesAreGrants`. The
  inductive invariant is `TypeOK` with `EntryOutlivesGrant`; from it an archived
  entry is one whose grant is over, so archival is a stutter of the grant, and
  every call maps to the abstract call of the same arguments.
- `TokensProofs`, wrapper: `DepositsDoNotDilute`, `BasisFollowsShares`,
  `RedeemersAreChargedFairly`, `StayersKeepTheirValue`.
  For a deposit, minted shares times the old rate never exceed what the
  position gained, and a floor of a mediant is no lower. For a redemption,
  what the pool burns beyond what it pays is less than one bToken, and the
  shares burned are within one of what the payout is worth, from both sides;
  the rest is the rounding of the derived rate. `WrapperInv` types the ledgers and
  says that a cost basis is only where there are shares.
- `AmmProofs`: `LpShareIsSafe`, `ProvidersAreNotDiluted`, from the invariant
  `Books` (types, and reserves never above what the pool holds). A trade at
  exchange rate x keeps value at x because each quote rounds for the pool; a
  flash split keeps it because what is funded by the curve is bounded by the
  shares split; liquidity because both sides round for the pool.
  `TrustedAverageMovesSlowly`, from `Observations` (no observation is later than
  the clock): inside the window the two floors of the blend move the average by at
  most the elapsed part and one unit each; after a whole window the flag is up.
- `SdkProofs`, submission: `SequencesAreFresh`, `SuccessMeansLanded`,
  `RetriesReplace`. The invariant `IInv` adds to `TypeOK` and
  `NeverReusesSequence`: only built transactions have a report or outcome, a
  success report has its sequence in the floor, only sent transactions are
  queued or landed. `RetriesReplace` adds that the ledger executes at most one of a
  sequence (`OnePerSequence`), that neither views nor numbers run ahead of the
  ledger (`NumbersFollowLedger`), and that of a transaction and one still
  unexecuted when it was built, either both ask for the same number or the older
  one has missed its own (`OpenOnesAreReplaced`).
- `SdkProofs`, reads: `ValuesAreFresh`. `ReadsInv` says that no provider's view
  is behind the oldest there was when the attempt began, that parts and
  replies of this attempt are no older, and that what earlier attempts left
  running is marked as theirs.
- `SdkProofs`, figures: `SuppliersArePaidFor`, `WithdrawalsDrain`. The typing of
  the reserve is inductive and enough: the first rests on a capped
  utilization and a take of at most 100% only scaling the borrow rate down, the
  second on ceiling division undoing floor division once the unit the flow
  adds is counted (`OneMoreCovers`). Interest between the read and the
  withdrawal is outside it.
- `FlowsProofs`, flows: `OldYtIsKept`, for any number of flows. Late landings make it
  hard: a sale that was given up may still land and sell YT that a later flow
  minted. `SalesArePaid` says that the wallet's YT beyond what it had before pays
  for all sales still outstanding at once (`Pay`), and that while a flow that
  sells runs, so does what it found beyond that, with its own sale on top. It
  holds until a flow that sells starts beside another one (`overlapped`); from
  then on it is false, see `flow_overlap`.
- `FlowsProofs`, demo: `TasksRunOneByOne`, `OwnTasksDoNotRefuse`, `LogsAreTrue`,
  `LogsAreWhole`. `DemoInv` relates the server's slot to the children (`ServerInv`)
  and each page to the task it believes in (`PageInv`): its log rises (`Rises`), what
  it holds of the current run has been taken note of (`Covered`: a full buffer
  has nothing new after the offset, one that is not full starts with the first
  piece), and it is complete up to the offset if nothing was trimmed (`LogFits`).
- `FlowsProofs`, deployment: `ManifestsAreOneMarket`. `DeployInv` says what is
  on the ledger (`LedgerInv`), that a saved marker means it happened (`Sound`),
  what the script knows at each stage (`ScriptInv`) and that a manifest
  matches (`ManifestInv`). Nothing is assumed of the `$UNDERLYING` a run is given;
  what is lost when it replaces the wrapper's is exactly the wrapper's line.
- `AppProofs`: `BalancesAreOwn`, `PagesShowWhatLanded`, `QuotesStayCurrent`,
  `PagesKeepTheirPromises`, `PagesSayWhatGoesOn`, `RedemptionsAreInTime`, for
  every chain and any number of wallets, ledgers and visits. `AppInv` has two
  parts. `ReadInv` is on the hooks: a read that is still live is of the
  connected wallet and was begun no earlier than the page's own transaction.
  It is proved once, by sorting the steps of all six pages into four kinds
  (nothing a hook sees, a new key, another page, a read). `PageInv` has
  one invariant per page: a live quote or quote request matches the form
  (`TradeInv`), a transaction's job carries the contract's formula at the ledger
  it was previewed on (`PoolInv`, `PortfolioInv`, `MintInv`), a live sale quote is of the
  face and wallet shown (`SaleInv`). The arithmetic is in lemmas about the previews
  themselves: slippage keeps a minimum within tolerance (`ToleranceBound`), the
  preview rounds as the contract does (`RoundsUpAlike`) and adding liquidity takes
  no more of either side than was typed (`TakesNoMore`).
  What was shown at another rate is compared through monotonicity (`FaceRises`,
  `SharesFall`).

Only model-checked: liveness (`SubmitReturns`, `ReadReturns`, `SlotIsFreed`,
`QuoteComes`, `ResumesOrUnmarked`). Liveness under fairness, ENABLED, and
what a definition by recursion over data computes are outside what this
prover does and stay with TLC. The properties of the violation runs are false.

## 7. What the runs found

Each violation run checks one sentence of the repository and finds a behaviour
of the code that contradicts it; `findings` in `PROJECT.json` quotes both.

- `dip_double_count` (code bug): YT that changes hands while the SY rate is below
  the sender's checkpoint starts again from the lower rate. Once the rate has recovered,
  the same gain is banked twice, and the escrow owes more than it holds.
  PT is not affected (it is senior); other YT holders are.
- `deploy_resumable` (code bug): stopped between an initialization and the save
  of its marker, the script can never finish: each rerun meets
  AlreadyInitialized. `ResumesOrUnmarked` shows that this is the only such place.
- `flow_overreach`: after a short Blend withdrawal the deposit step takes the
  wallet's own underlying up to the amount hoped for; the panel says it is
  sized from what arrives.
- `flow_overlap` (code bug): two flows that sell, started on one wallet by two
  presses before the first's read is answered (`TokenizeBlendPanel.tsx:117-129`) or
  by leaving the page and coming back. Each sells the wallet's whole gain since
  its own read, the other's YT included, and in the end old YT goes too.
- `app_errors`: a matured market refuses the mint form's split with the
  tokenizer's code 6, which the page explains as the wrapper's: "Amount is too
  large." The table also misnames the tokenizer's codes 7 and 9.
- `app_stale`: after another wallet is connected the Blend panel still holds the
  first one's deposit until the new read is answered, and a flow started then
  is sized from it; the hook is documented to return null while loading.

Met while modelling, where the models follow the code and no run is spent on
the wording:

- Between maturity and the first call the YT preview quotes the live SY rate;
  `yt-token/src/lib.rs:391` says it is the rate that will be frozen.
- The frozen rate is the last one observed, which after a dip may be above the
  rate at maturity; `tokenizer/src/lib.rs:559` says at most.
- A claim pays no more than the surplus over PT and leaves the rest banked
  (`tokenizer/src/lib.rs:394`); `ARCHITECTURE.md:153` says claims are never
  gated on coverage.
- Blend's rounding at a redemption lowers the derived rate of the shares that
  stay; `blend-adapter/src/lib.rs:137` calls the rate monotonic.
  `RemainingKeepTheirValue` bounds the fall.
- After an idle gap the warm-up flag clears with time alone;
  `amm/src/lib.rs:1133` says after a window of fresh observations.
- `$UNDERLYING` set on a rerun replaces the persisted address
  (`scripts/deploy-testnet-resilient.sh:309`), so after the wrapper was initialized the
  manifest can name an asset no contract was initialized with. The model has it
  (`replaced`), and `ManifestIsOneMarket` says that nothing else is wrong then.
- The mint form's split takes the SY of the preview: if the rate rose since,
  SY the wallet already had makes up the difference (`mint/page.tsx:214-217`).
  Neither it nor the portfolio's unwrapping has a tolerance: at a rate that moved,
  less may arrive than was shown (`ReceiptIsKept` says when).
  A sale reported as failed may still land.
- A read of the market is ten simulations that may be answered of different
  ledgers, so the maturity, the reserves and the rate of one `MarketState` need
  not have held together.
- The faucet flow of a wallet that is no longer connected still sets the page's
  story, which `mint/page.tsx:114` says the new wallet's own starts over; and
  the balance effect has no dependency on the page's own transaction
  (`mint/page.tsx:143`), so after a deposit the page keeps the older balance of the
  underlying. `Refetches` leaves it out of `SeesOwnTransaction` for that reason.
- The panel's button is enabled until the read in front of the flow is
  answered (`TokenizeBlendPanel.tsx:117-129`): two presses start two flows on one
  phase, and an error of that read is shown nowhere. The phase ends with the first of
  the two, so the panel then offers a third.
- The trade page's price-impact guard compares PT and SY one to one, and a quote is
  not refreshed after the trade it priced.
- Once the demo's server trims a task's output its length stays the same and the
  page, which goes by length (`demo/page.tsx:325-330`), logs nothing newer of it.
- A demo task whose child leaves a process with its pipes behind keeps the slot
  after SIGTERM (`route.ts:216`).
- The demo's log holds the last 400 lines, and a page that gives up blanks the
  output it had shown.
- With no deployment, or with a market or rates that cannot be read, the fixed
  rate stays at "Loading", the rates at their skeleton and the pool at "needs
  seeding" (`yieldChoice.ts:14`, `useBlendRates.ts:27`).
- In `wallet.tsx` neither the restore of a saved wallet nor a connection under
  way is cancelled by a disconnection, so either may bring an address back; a
  late `getNetwork` answer can put one wallet's network warning on another.

## 8. Left out

- The AMM's curve arithmetic (ln, exp, bisection): prices are any of a set, so
  what is proved holds for whatever the curve quotes at or above WAD; that it
  quotes well is not claimed. `min_out` arguments only add reverts.
- In `Amm`, the tokenizer is assumed to pay a recombine in full; the code
  reverts otherwise (`amm/src/lib.rs:483`), so a short escrow only disables the route.
- Authorization: every action is taken by the address that must sign it.
- Instance and balance TTL bumps; names, symbols, events, decimals.
- Encoding of calls and decoding of ledger entries in the SDK, and emission APR;
  parsing and formatting of amounts in the app; layout, wording, animation and
  the pages that only present text. `networkMismatch`, the wallet modal and the
  restore of a wallet on load: the pages see only the address.
- The demo's proxy, token check and deployment rows; the health route; the
  straight-line scripts. The YieldSource trait of blend-adapter has no
  implementation.
- i128 width: the YT multiplication (`yt-token/src/lib.rs:474`) overflows near
  1.7e20 units of yield and then reverts.
- In `TokenizeFlow` a balance read within a step is of the current ledger, and
  rates only rise.
- In `App` a flow of the Blend panel is its start, its end and the phase they
  set; its steps are `TokenizeFlow`'s.

## 9. Plan

Done in this order: market core and its proofs; wrapper and pool; AMM and
TWAP; allowances; transaction pipeline; flows; demo runner; deployment script;
SDK reads and Blend figures; hooks, cards, previews and pages, composed in `App`.
The order puts what holds user funds first, and what can lose track of it next.

What could follow, models: the curve's fixed-point ln and exp against a reference over
bounded inputs; the wallet's restore, connect and disconnect as a component of
`App`; YT's `transfer_from` with allowances inside the market.

Theorems: that `SyWrapper` gives the market the rate `SyToken` assumes, which
would join the market's theorems to the wrapper's; that a client built on
`TxSubmit` is all a flow needs (`Submission` as the environment of `TokenizeFlow`).
