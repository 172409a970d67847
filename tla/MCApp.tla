------------------------------- MODULE MCApp -------------------------------
EXTENDS App
CONSTANTS u1, u2

MCWatched ==
  [p \in Pages |->
     CASE p = "trade" -> {"position"}
       [] p = "pool" -> {"market"}
       [] p = "portfolio" -> {"market", "position"}
       [] p = "mint" -> {"market", "underlying"}
       [] p = "strategy" -> {"market", "rates"}
       [] p = "panel" -> {"market", "blend"}]

Book(k) ==
  [rate |-> IF k = 1 THEN 1300 ELSE 1310, twap |-> 50 + k, warming |-> k = 1,
   apr |-> 30 + k,
   blend |-> [u \in Users |-> [value |-> IF u = u1 THEN 50 - 10 * k ELSE 20, borrowed |-> 1]],
   pays  |-> [r \in DIRECTIONS |->
                CASE k = 1 -> 1000 [] k = 2 -> IF r = "sell-pt" THEN 780 ELSE 998 [] OTHER -> 996],
   pool  |-> CASE k = 1 -> [pt |-> 7000, sy |-> 4500, lp |-> 6000]
               [] OTHER -> [pt |-> 7012, sy |-> 4493, lp |-> 6000],
   matured      |-> k >= 3,
   seemsMatured |-> k >= 2,
   lpBalance |-> [u \in Users |-> IF u = u1 THEN 2500 ELSE 0],
   holds |-> IF k = 3 THEN 1000 ELSE 2000,
   usdc  |-> [u \in Users |-> IF u = u1 /\ k = 1 THEN 0 ELSE 50],
   position |-> [u \in Users |-> [pt |-> 5, yt |-> IF u = u1 THEN 5 ELSE 0, sy |-> 5,
                                  yield |-> IF u = u1 THEN 1 ELSE 0]]]
MCLedgers == [k \in 1..3 |-> Book(k)]
=============================================================================
