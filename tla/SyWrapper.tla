----------------------------- MODULE SyWrapper -----------------------------
(***************************************************************************)
(* The standardized-yield wrapper: shares over a Blend position            *)
(* (initialize_blend), or over idle custody at an administered rate        *)
(* (initialize).  A call that traps changes nothing, so its traps are the  *)
(* guards below; a failed Blend withdrawal is one of them.                 *)
(***************************************************************************)
EXTENDS BlendPool

CONSTANTS
  Shareholders,   \* addresses that hold shares
  Custodies,      \* which initializers may have run: "blend", "idle"
  Endowment,      \* underlying each holder starts with
  WrapperAmounts, \* amounts holders pass to the entrypoints
  AdminRates,     \* rates an admin sets on an idle wrapper
  MaxReindexes    \* how often the pool moves the underlying

ASSUME WrapperAssumption ==
  /\ Custodies # {} /\ Custodies \subseteq {"blend", "idle"}
  /\ Endowment \in Nat /\ MaxReindexes \in Nat
  /\ WrapperAmounts \subseteq Nat
  /\ AdminRates \subseteq Nat \ {0}

VARIABLES
  custody,        \* whether a BlendConfig is stored: which initializer ran
  shares,         \* DataKey::Balance
  principal,      \* DataKey::Principal
  supply,         \* DataKey::TotalSupply
  adminRate,      \* DataKey::ExchangeRate
  reserveIndex,   \* config.reserve_index
  wallet,         \* underlying the holders keep
  vault,          \* underlying the wrapper itself holds
  reindexes       \* moves so far

books       == <<shares, principal, supply>>
wrapperVars == <<custody, books, adminRate, reserveIndex, wallet, vault, reindexes, poolVars>>

Blend == custody = "blend"

WrapperInit ==
  /\ PoolInit
  /\ custody \in Custodies
  /\ shares = [h \in Shareholders |-> 0] /\ principal = [h \in Shareholders |-> 0]
  /\ supply = 0 /\ vault = 0
  /\ adminRate = WAD
  /\ reserveIndex = slot
  /\ wallet = [h \in Shareholders |-> Endowment]
  /\ reindexes = 0

\* blend_assets_under_management: what a position of n bTokens is worth.
Worth(n) == MulDivFloor(n, bRate, SC)
AUM      == Worth(bTokens)

\* Mutant of DerivedRate: the quotient is rounded up.
DerivedRateUp(aum, s) == IF s <= 0 THEN WAD ELSE MulDivCeil(aum, WAD, s)

\* derived_exchange_rate: WAD while no share exists.
DerivedRate(aum, s) == IF s <= 0 THEN WAD ELSE MulDivFloor(aum, WAD, s)

Rate == IF Blend THEN DerivedRate(AUM, supply) ELSE adminRate

\* Every rate read traps unless the pool still keeps the underlying at the
\* recorded index.
Priced == Blend => reserveIndex = slot

----------------------------------------------------------------------------

\* Mutant of Credit: the shares are priced on the amount asked for.
CreditRequested(amount, credited) == MulDivFloor(amount, WAD, Rate)

\* The shares a deposit mints: on what the position gained, not on what was
\* asked.
Credit(amount, credited) == MulDivFloor(credited, WAD, Rate)

\* deposit
Deposit(h, amount) ==
  /\ Priced
  /\ amount > 0 /\ amount <= wallet[h]
  /\ wallet' = [wallet EXCEPT ![h] = @ - amount]
  /\ IF Blend THEN Supply(amount) /\ UNCHANGED vault
              ELSE vault' = vault + amount /\ UNCHANGED bTokens
  /\ LET credited == IF Blend THEN Worth(bTokens') - AUM ELSE amount
         minted   == Credit(amount, credited)
     IN  /\ Rate # 0 /\ minted > 0
         /\ shares' = [shares EXCEPT ![h] = @ + minted]
         /\ principal' = [principal EXCEPT ![h] = @ + amount]
         /\ supply' = supply + minted
  /\ UNCHANGED <<custody, adminRate, reserveIndex, reindexes, bRate, slot, listedAt>>

\* The cost basis that goes with n of a holder's shares, rounded down.
PrincipalOf(h, n) == MulDivFloor(principal[h], n, shares[h])

\* Mutant of BurnFor: a short payout still costs every share presented.
BurnAll(n, requested, received) == n

\* The shares a redemption burns: all of them for a full payout, otherwise as
\* many as the payout is worth.
BurnFor(n, requested, received) ==
  IF received >= requested THEN n ELSE MulDivFloor(received, WAD, Rate)

\* Burns shares of h and pays `out' of underlying to h.
PayOut(h, burned, out) ==
  /\ shares' = [shares EXCEPT ![h] = @ - burned]
  /\ principal' = [principal EXCEPT ![h] = @ - PrincipalOf(h, burned)]
  /\ supply' = supply - burned
  /\ wallet' = [wallet EXCEPT ![h] = @ + out]
  /\ UNCHANGED <<custody, adminRate, reserveIndex, reindexes, bRate, slot, listedAt>>

\* The underlying n shares are worth.
Value(n) == MulDivFloor(n, Rate, WAD)

\* redeem, out of the Blend position: nothing released means failure.
RedeemFromBlend(h, n) ==
  /\ Blend /\ Priced
  /\ n > 0 /\ n <= shares[h]
  /\ LET requested == Value(n)
     IN  \E received \in Released(requested) :
           /\ received > 0
           /\ Withdraw(requested, received)
           /\ PayOut(h, BurnFor(n, requested, received), received)
  /\ UNCHANGED vault

\* redeem, out of idle custody: the transfer fails when the vault is short.
RedeemFromVault(h, n) ==
  /\ ~Blend
  /\ n > 0 /\ n <= shares[h]
  /\ Value(n) <= vault
  /\ vault' = vault - Value(n)
  /\ PayOut(h, n, Value(n))
  /\ UNCHANGED bTokens

\* Mutant of MovedPrincipal: a transfer leaves the cost basis behind.
PrincipalStays(from, to, n) == principal

\* The cost basis moves with the shares; the debit is written before the
\* destination is read, so a transfer to oneself changes nothing.
MovedPrincipal(from, to, n) ==
  LET moved == PrincipalOf(from, n)
  IN  [[principal EXCEPT ![from] = @ - moved] EXCEPT ![to] = @ + moved]

MovedShares(from, to, n) == [[shares EXCEPT ![from] = @ - n] EXCEPT ![to] = @ + n]

\* transfer (and transfer_from, once its allowance is spent)
TransferShares(from, to, n) ==
  /\ n > 0 /\ n <= shares[from]
  /\ shares' = MovedShares(from, to, n)
  /\ principal' = MovedPrincipal(from, to, n)
  /\ UNCHANGED <<custody, supply, adminRate, reserveIndex, wallet, vault, reindexes, poolVars>>

\* set_exchange_rate: only where no pool derives the rate.
SetExchangeRate(r) ==
  /\ ~Blend /\ r # adminRate
  /\ adminRate' = r
  /\ UNCHANGED <<custody, books, reserveIndex, wallet, vault, reindexes, poolVars>>

\* The list and the reserve's own record agree on where the underlying is.
Relocated(i) == i = listedAt /\ i = slot

\* migrate_reserve_index
MigrateReserveIndex ==
  /\ Blend
  /\ \E i \in Slots :
       /\ Relocated(i) /\ i # reserveIndex
       /\ reserveIndex' = i
  /\ UNCHANGED <<custody, books, adminRate, wallet, vault, reindexes, poolVars>>

----------------------------------------------------------------------------

PoolAccrues == \E b \in BRates : Blend /\ Accrue(b)
                /\ UNCHANGED <<custody, books, adminRate, reserveIndex, wallet, vault, reindexes>>

PoolReindexes ==
  /\ Blend /\ reindexes < MaxReindexes
  /\ \E s \in Slots, l \in Slots \cup {Absent} : Reindex(s, l)
  /\ reindexes' = reindexes + 1
  /\ UNCHANGED <<custody, books, adminRate, reserveIndex, wallet, vault>>

WrapperNext ==
  \/ \E h \in Shareholders, n \in WrapperAmounts :
       Deposit(h, n) \/ RedeemFromBlend(h, n) \/ RedeemFromVault(h, n)
  \/ \E h, to \in Shareholders, n \in WrapperAmounts : TransferShares(h, to, n)
  \/ \E r \in AdminRates : SetExchangeRate(r)
  \/ MigrateReserveIndex
  \/ PoolAccrues
  \/ PoolReindexes

WrapperSpec == WrapperInit /\ [][WrapperNext]_wrapperVars

----------------------------------------------------------------------------

\* A deposit never lowers the rate the other holders' shares are valued at,
\* whatever Blend's rounding withholds from it: minting is priced on what the
\* position gained, at the rate read before the deposit (deposit).
DepositNeverDilutes == [][supply' > supply => Rate' >= Rate]_wrapperVars

\* A redemption may cost the holders who stay the fraction of a bToken Blend
\* rounds up and one unit of underlying the valuation rounds down, and when
\* the pool pays short one share's worth more; never more than that (redeem).
RemainingKeepTheirValue ==
  [][\A h \in Shareholders :
       LET paid  == wallet'[h] - wallet[h]
           short == paid # Value(shares[h] - shares'[h])
       IN  Blend /\ paid > 0 =>
             supply' * Rate * SC < (AUM' + 1) * WAD * SC + bRate * WAD
                                   + (IF short THEN Rate * SC ELSE 0)]_wrapperVars

\* A redeemer is never charged more shares than the payout is worth, up to the
\* unit the payout is rounded down by, also when the pool pays short (redeem).
ChargedForThePayout ==
  [][\A h \in Shareholders :
       LET burned == shares[h] - shares'[h]
           paid   == wallet'[h] - wallet[h]
       IN  paid > 0 => burned * Rate < (paid + 1) * WAD]_wrapperVars

\* A holder without shares has no cost basis left behind, so the yield shown
\* for shares that come back later is not understated (move_balance, redeem).
BasisGoesWithShares == \A h \in Shareholders : shares[h] = 0 => principal[h] = 0
=============================================================================
