---- MODULE MCTokenizer ----
EXTENDS MarketSolvency
CONSTANTS h1, h2, Shares
OneDepositor == [h \in Holders |-> IF h = h1 THEN Shares ELSE 0]
====
