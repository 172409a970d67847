----------------------------- MODULE BlendPool -----------------------------
(***************************************************************************)
(* The lending pool the wrapper supplies to, as the wrapper's code and the *)
(* tests' mock of it use it (external): a position in bTokens whose value  *)
(* is bRate per bToken, roundings always in the pool's favour, a reserve   *)
(* slot the pool may move, and a withdrawal that may release less than was *)
(* asked when the pool is short of liquidity.                              *)
(***************************************************************************)
EXTENDS FixedPoint

CONSTANTS
  SC,              \* SCALAR_12, the scale of bRate
  BRates,          \* the values bRate takes
  Slots,           \* reserve indices the underlying may sit at
  Absent,          \* the underlying is not in the reserve list
  LiquidityCaps    \* the amounts a short pool may release

ASSUME PoolAssumption ==
  /\ SC \in Nat \ {0}
  /\ BRates \subseteq Nat \ {0}
  /\ Absent \notin Slots
  /\ LiquidityCaps \subseteq Nat

VARIABLES
  bRate,      \* reserve.data.b_rate
  bTokens,    \* the wrapper's supply position
  slot,       \* reserve.config.index of the underlying
  listedAt    \* its place in get_reserve_list, or Absent

poolVars == <<bRate, bTokens, slot, listedAt>>

PoolInit == bRate \in BRates /\ bTokens = 0 /\ slot \in Slots /\ listedAt = slot

\* A WITHDRAW burns as many bTokens as cover the amount, rounded up.
BurnedFor(amount) == MulDivCeil(amount, SC, bRate)

\* A SUPPLY request credits bTokens rounded down.
Supply(amount) == bTokens' = bTokens + MulDivFloor(amount, SC, bRate)

\* What a WITHDRAW may release: the amount asked, or a part of it when the pool
\* is short; if the position does not cover the amount, what the position is
\* worth.
Released(amount) ==
  LET worth == MulDivFloor(bTokens, bRate, SC)
  IN  IF BurnedFor(amount) <= bTokens
      THEN {amount} \cup {c \in LiquidityCaps : c < amount}
      ELSE {worth} \cup {c \in LiquidityCaps : c < worth}

\* The position after `released' left the pool on a request for `amount'.
Withdraw(amount, released) ==
  bTokens' = IF BurnedFor(amount) > bTokens /\ released = MulDivFloor(bTokens, bRate, SC)
             THEN 0 ELSE bTokens - BurnedFor(released)

\* Interest: the value of a bToken only rises.
Accrue(b) == b > bRate /\ bRate' = b /\ UNCHANGED <<bTokens, slot, listedAt>>

\* A reconfiguration of the pool moves the underlying, and may leave the
\* reserve list out of step with the reserve's own record.
Reindex(s, l) ==
  /\ <<s, l>> # <<slot, listedAt>>
  /\ slot' = s /\ listedAt' = l
  /\ UNCHANGED <<bRate, bTokens>>
=============================================================================
