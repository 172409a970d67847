----------------------------- MODULE FixedPoint -----------------------------
(***************************************************************************)
(* The fixed-point arithmetic the contracts share.  A rate is an integer   *)
(* scaled by WAD (1e18 in the contracts, a small constant in the runs), a  *)
(* token amount is a natural number of base units.  Rust's integer         *)
(* division truncates toward zero, which on the non-negative operands used *)
(* here is TLA+'s \div.                                                    *)
(***************************************************************************)
EXTENDS Integers

CONSTANT WAD   \* the scale of a rate: rate = WAD means one asset per share

ASSUME WadAssumption == WAD \in Nat \ {0}

\* a * b / c rounded down.  The 256-bit intermediate of the code means the
\* product never overflows, so the unbounded product below is the code's.
MulDivFloor(a, b, c) == (a * b) \div c

\* a * b / c rounded up, by the (n + c - 1) / c form the code uses.
MulDivCeil(a, b, c) == (a * b + c - 1) \div c

\* Mutant of OwedShares: the gain is converted to shares at the rate it
\* started from.
OwedSharesAtStart(balance, c, r) ==
  MulDivFloor(MulDivFloor(balance, r - c, c), WAD, c)

\* Yield, in SY shares, of `balance' YT held while the rate went from c up
\* to r: first the asset gain on the basis c, then converted at r.  Both
\* divisions round down, in favour of the escrow.
OwedShares(balance, c, r) ==
  MulDivFloor(MulDivFloor(balance, r - c, c), WAD, r)

Least(a, b)    == IF a < b THEN a ELSE b
Greatest(a, b) == IF a < b THEN b ELSE a
=============================================================================
