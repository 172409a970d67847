------------------------------ MODULE Tokenizer ------------------------------
(***************************************************************************)
(* One yield-tokenization market: the tokenizer contract composed with the *)
(* SY, PT and YT contracts it drives.  A Soroban transaction is atomic, so *)
(* each top-level entrypoint, with every sub-contract call it makes, is    *)
(* one action; what interleaves is transactions of different holders, the  *)
(* SY rate and the ledger clock.  An action that is not enabled stands for *)
(* a transaction that reverts.                                             *)
(***************************************************************************)
EXTENDS SyToken, PtToken, YtToken

CONSTANTS
  Maturity,    \* timestamp at which the market matures
  MaxTime,     \* bound on the clock
  Amounts      \* the amounts a call may name

ASSUME MarketAssumption ==
  /\ Maturity \in Nat \ {0}
  /\ MaxTime \in Nat
  /\ Amounts \subseteq Nat \ {0}

VARIABLES
  now,            \* ledger timestamp
  lastObserved,   \* DataKey::LastObservedRate
  maturityRate,   \* DataKey::MaturityRate
  peak            \* history: the highest rate a transaction has committed

tokVars == <<now, lastObserved, maturityRate, peak>>
vars == <<rateVars, sy, ptVars, ytVars, tokVars>>

Init ==
  /\ SyInit /\ PtInit /\ YtInit
  /\ now = 0
  /\ lastObserved = NoRate
  /\ maturityRate = NoRate
  /\ peak = NoRate

-----------------------------------------------------------------------------
(* The rate a transaction values the escrow at, and what it records. *)

IsMatured == now >= Maturity

\* Mutant of FrozenRate: the first call after maturity reads the live rate.
FrozenAtFirstCall == IF maturityRate # NoRate THEN maturityRate ELSE rate

\* The last rate observed before maturity, once frozen or about to be.  A
\* market nobody touched in time has nothing outstanding and reads it live.
FrozenRate ==
  IF maturityRate # NoRate THEN maturityRate
  ELSE IF lastObserved # NoRate THEN lastObserved
  ELSE rate

EffectiveRate == IF IsMatured THEN FrozenRate ELSE rate

\* The storage writes of effective_rate: before maturity an observation,
\* after it the one-time freeze.  A direct YT call reaches the same writes
\* through observe_rate or freeze_maturity_rate.
CommitRate ==
  /\ lastObserved' = IF IsMatured THEN lastObserved ELSE EffectiveRate
  /\ maturityRate' = IF IsMatured THEN EffectiveRate ELSE maturityRate
  /\ peak' = Greatest(peak, EffectiveRate)
  /\ UNCHANGED now

-----------------------------------------------------------------------------
(* What the escrow owes and pays. *)

\* Mutant of MintedFace: rounded up.
MintedFaceUp(n) == MulDivCeil(n, EffectiveRate, WAD)

\* PT and YT minted for n SY.
MintedFace(n) == MulDivFloor(n, EffectiveRate, WAD)

\* Mutant of Principal: no pro-rata cap.
PrincipalUncapped(n) == MulDivFloor(n, WAD, EffectiveRate)

\* SY for n PT: face value at the effective rate, capped at n's pro-rata
\* share of the escrow.
Principal(n) ==
  Least(MulDivFloor(n, WAD, EffectiveRate),
        MulDivFloor(sy[Escrow], n, ptSupply))

\* SY that must stay behind so every PT can still redeem at face.
FaceReservation == MulDivCeil(ptSupply, WAD, EffectiveRate)

\* Mutant of Surplus: nothing is reserved for PT.
SurplusUnreserved == sy[Escrow]

\* What PT does not need.
Surplus ==
  IF sy[Escrow] > FaceReservation THEN sy[Escrow] - FaceReservation ELSE 0

\* Mutant of YieldPayout: first come, first served.
YieldPayoutInFull(h) == SettledAccrued({h}, EffectiveRate)[h]

\* What a claim pays: all that is owed, if the surplus over PT covers it.
YieldPayout(h) ==
  Least(SettledAccrued({h}, EffectiveRate)[h], Surplus)

-----------------------------------------------------------------------------
(* Tokenizer entrypoints. *)

ObserveRate ==
  /\ ~IsMatured
  /\ CommitRate
  /\ UNCHANGED <<rateVars, sy, ptVars, ytVars>>

FreezeMaturityRate ==
  /\ IsMatured
  /\ CommitRate
  /\ UNCHANGED <<rateVars, sy, ptVars, ytVars>>

Split(from, n) ==
  /\ ~IsMatured
  /\ CommitRate
  /\ SyTransfer(from, Escrow, n)
  /\ PtMint(from, MintedFace(n))
  /\ YtMint(from, MintedFace(n), EffectiveRate)
  /\ UNCHANGED rateVars

Recombine(from, n) ==
  /\ ~IsMatured
  /\ CommitRate
  /\ PtBurn(from, n)
  /\ YtBurn(from, n, EffectiveRate)
  /\ SyTransfer(Escrow, from, Principal(n))
  /\ UNCHANGED rateVars

RedeemAtMaturity(from, n) ==
  /\ IsMatured
  /\ CommitRate
  /\ PtBurn(from, n)
  /\ SyTransfer(Escrow, from, Principal(n))
  /\ UNCHANGED <<rateVars, ytVars>>

ClaimYield(h) ==
  /\ CommitRate
  /\ SettleAndConsume(h, EffectiveRate, YieldPayout(h))
  /\ IF YieldPayout(h) > 0 THEN SyTransfer(Escrow, h, YieldPayout(h))
                           ELSE UNCHANGED sy
  /\ UNCHANGED <<rateVars, ptVars>>

-----------------------------------------------------------------------------
(* Direct calls on the three tokens, by their holders. *)

TransferSy(from, to, n) ==
  /\ SyTransfer(from, to, n)
  /\ UNCHANGED <<rateVars, ptVars, ytVars, tokVars>>

TransferPt(from, to, n) ==
  /\ PtTransfer(from, to, n)
  /\ UNCHANGED <<rateVars, sy, ytVars, tokVars>>

BurnPt(from, n) ==
  /\ PtBurn(from, n)
  /\ UNCHANGED <<rateVars, sy, ytVars, tokVars>>

\* Mutant of TransferYt: YT settles at the rate it reads from SY itself, which
\* the tokenizer does not get to record.
TransferYtUnobserved(from, to, n) ==
  /\ YtTransfer(from, to, n, IF IsMatured THEN FrozenRate ELSE rate)
  /\ UNCHANGED <<rateVars, sy, ptVars, tokVars>>

TransferYt(from, to, n) ==
  /\ CommitRate
  /\ YtTransfer(from, to, n, EffectiveRate)
  /\ UNCHANGED <<rateVars, sy, ptVars>>

BurnYt(from, n) ==
  /\ CommitRate
  /\ YtBurn(from, n, EffectiveRate)
  /\ UNCHANGED <<rateVars, sy, ptVars>>

-----------------------------------------------------------------------------
(* The environment: the SY rate and the ledger clock. *)

MoveRate(r) ==
  /\ RateMoves(r)
  /\ UNCHANGED <<sy, ptVars, ytVars, tokVars>>

Tick ==
  /\ now < MaxTime
  /\ now' = now + 1
  /\ UNCHANGED <<rateVars, sy, ptVars, ytVars, lastObserved, maturityRate, peak>>

Next ==
  \/ ObserveRate
  \/ FreezeMaturityRate
  \/ \E h \in Holders : ClaimYield(h)
  \/ \E h \in Holders, n \in Amounts :
       \/ Split(h, n)
       \/ Recombine(h, n)
       \/ RedeemAtMaturity(h, n)
       \/ BurnPt(h, n)
       \/ BurnYt(h, n)
  \/ \E h \in Holders, to \in Accounts, n \in Amounts :
       \/ TransferSy(h, to, n)
       \/ TransferPt(h, to, n)
       \/ TransferYt(h, to, n)
  \/ \E r \in Rates : MoveRate(r)
  \/ Tick

Spec == Init /\ [][Next]_vars

-----------------------------------------------------------------------------
(* Invariants. *)

\* The type invariant: every balance, supply, checkpoint and banked yield is
\* a natural number and every recorded rate is unset or one SY reported.
TypeOK ==
  /\ SyTypeOK /\ PtTypeOK /\ YtTypeOK
  /\ now \in 0..MaxTime
  /\ lastObserved \in Rates \cup {NoRate}
  /\ maturityRate \in Rates \cup {NoRate}
  /\ peak \in Rates \cup {NoRate}

\* PT is covered at the high-water rate: whatever the SY rate does, the escrow
\* valued at the highest rate any transaction has committed is worth at least
\* the face of all PT.  Splits, haircut exits, yield claims, direct burns and
\* donations all preserve it.
PtCoveredAtPeak == sy[Escrow] * peak >= ptSupply * WAD

\* Until the SY rate first falls, the pro-rata cap of recombine and
\* redeem_at_maturity never bites: every PT is worth its face at any time.
PtExitsAtFace ==
  ~fell =>
    \A n \in 1..ptSupply : Principal(n) = MulDivFloor(n, WAD, EffectiveRate)

-----------------------------------------------------------------------------
(* Action properties: what a step may never do. *)

\* SY leaves the escrow in two ways only.  If PT is burned, the escrow per
\* remaining PT does not fall, so an early redeemer never takes from a later
\* one; if not, it is yield, and PT stays covered at face at the rate used.
FairOutflow ==
  sy'[Escrow] < sy[Escrow] =>
    IF ptSupply' < ptSupply
      THEN sy'[Escrow] * ptSupply >= sy[Escrow] * ptSupply'
      ELSE sy'[Escrow] * EffectiveRate >= ptSupply * WAD

\* Every SY outflow from the escrow is a fair one.
EscrowOutflow == [][FairOutflow]_vars

\* A step that moves a checkpoint leaves the same rate on record for the
\* maturity freeze, or moves it to the rate already frozen.
BanksAtRecordedRate ==
  \A a \in Accounts : checkpoint'[a] # checkpoint[a] =>
    checkpoint'[a] = IF maturityRate' # NoRate THEN maturityRate'
                                               ELSE lastObserved'

\* Every rate YT banks yield at is one the maturity freeze has on record, so
\* the freeze cannot fall short of yield the YT ledger already recognized.
BankedRateIsOnRecord == [][BanksAtRecordedRate]_vars

\* What an account could claim in all, were its yield settled at the rate the
\* market is frozen at.
OwedAtFreeze(a) == accrued[a] + PendingYield(a, FrozenRate)

\* In a matured market that was ever touched, an account's claim changes only
\* by what the escrow pays it.
KeepsClaimsAfterMaturity ==
  IsMatured /\ lastObserved # NoRate =>
    \A a \in Accounts :
      \/ OwedAtFreeze(a)' = OwedAtFreeze(a)
      \/ /\ OwedAtFreeze(a)' = OwedAtFreeze(a) - (sy[Escrow] - sy'[Escrow])
         /\ ptSupply' = ptSupply

\* After maturity neither the timing of calls, nor transfers, nor the live SY
\* rate changes what anyone is owed.
OwedFixedAfterMaturity == [][KeepsClaimsAfterMaturity]_vars

-----------------------------------------------------------------------------
(* The abstract market this one implements. *)

Promise == INSTANCE SeniorEscrow WITH escrow <- sy[Escrow],
                                      principal <- ptSupply

\* The market is a senior escrow: PT is the senior claim, YT the junior one,
\* and no holder, order of calls or SY rate can make it behave otherwise.
KeepsPromise == Promise!Spec
=============================================================================
