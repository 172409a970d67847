------------------------------- MODULE MCAmm -------------------------------
(***************************************************************************)
(* The market checked in one of two settings, picked at the start.  A      *)
(* market opened just before maturity keeps every call and hardly any time *)
(* (its ln-rate does not matter and stays 0); one opened at 0 has the      *)
(* whole life of the average before it, and only its seeding and trades    *)
(* that leave YT alone.                                                    *)
(***************************************************************************)
EXTENDS Amm, TLC
CONSTANTS h1, h2, Pt, Sy, Yt
VARIABLE setting
Stake == [pt |-> Pt, sy |-> Sy, yt |-> Yt]
Interchangeable == Permutations(Holders)

MCInit ==
  /\ Init
  /\ \/ setting = "every call" /\ now = Maturity - 1
     \/ setting = "whole life" /\ now = 0 /\ rate = WAD

\* Only seeding with 3 of each, and swaps of PT for SY and back that take what
\* was brought.
SeedsAndTrades ==
  /\ UNCHANGED rate
  /\ totalLp # 0 => UNCHANGED totalLp
  /\ <<totalPt', totalSy'>> = <<pool'.pt, pool'.sy>>
  /\ pool'.yt = 0
  /\ totalLp = 0 => totalPt' = 3 /\ totalSy' = 3
  /\ totalLp # 0 => totalPt' > totalPt \/ totalPt' < 3

MCNext ==
  /\ Next
  /\ UNCHANGED setting
  /\ CASE setting = "every call" -> lastLnRate' = 0
       [] setting = "whole life" -> SeedsAndTrades

MCSpec == MCInit /\ [][MCNext]_<<vars, setting>>
=============================================================================
