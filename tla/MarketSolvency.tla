--------------------------- MODULE MarketSolvency ---------------------------
(***************************************************************************)
(* The market's solvency as a whole: properties that sum over every holder *)
(* of a finite ledger, and what the repository's documents say of         *)
(* solvency.                                                               *)
(***************************************************************************)
EXTENDS Tokenizer, FiniteSets, Functions

\* Sums are over the addresses a ledger knows, finitely many.
ASSUME FiniteHolders == IsFiniteSet(Holders)

Total(ledger) == FoldFunction(LAMBDA x, y : x + y, 0, ledger)

\* All the yield holders could claim at rate r, banked or still pending.
OwedInAll(r) == Total([a \in Accounts |-> accrued[a] + PendingYield(a, r)])

-----------------------------------------------------------------------------

\* Until the SY rate first falls, the escrow covers every PT at face plus all
\* yield owed to every holder, to the last unit, at the rate in force.
FullyCovered ==
  ~fell =>
    sy[Escrow] >= FaceReservation + OwedInAll(EffectiveRate)

\* ... so a claim then pays all it owes and leaves nothing banked.
ClaimsPaidInFull ==
  [][~fell => \A h \in Holders : ClaimYield(h) => accrued'[h] = 0]_vars

\* A rate dip that has been made good leaves no scar: once the rate is back
\* at its high-water mark the escrow again covers PT and all yield owed.
CoveredOnceRecovered ==
  EffectiveRate >= peak =>
    sy[Escrow] >= FaceReservation + OwedInAll(EffectiveRate)
=============================================================================
