---------------------------- MODULE SeniorEscrow ----------------------------
(***************************************************************************)
(* What a market promises PT, with every holder, YT and clock forgotten:   *)
(* an escrow of shares backs a principal claim, `peak' is the highest rate *)
(* anyone has relied on, and the junior claim is served only from what the *)
(* principal does not need.                                                *)
(***************************************************************************)
EXTENDS Integers

CONSTANT WAD

VARIABLES
  escrow,      \* shares held
  principal,   \* face of the senior claim outstanding
  peak         \* the highest rate relied on so far

Init == escrow = 0 /\ principal = 0 /\ peak = 0

\* Shares come in and bring at most their worth of new principal (a donation
\* brings none).
Fund ==
  /\ escrow <= escrow' /\ principal <= principal'
  /\ (principal' - principal) * WAD <= (escrow' - escrow) * peak'

\* Principal leaves, with at most its own share of the escrow.
Exit ==
  /\ principal' < principal /\ escrow' <= escrow
  /\ escrow' * principal >= escrow * principal'

\* The junior claim is paid while the principal stays covered.
PayJunior ==
  /\ escrow' < escrow /\ UNCHANGED principal
  /\ escrow' * peak' >= principal * WAD

Next == peak <= peak' /\ (Fund \/ Exit \/ PayJunior)

Spec == Init /\ [][Next]_<<escrow, principal, peak>>
=============================================================================
