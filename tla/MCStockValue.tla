---- MODULE MCStockValue ----
EXTENDS StockValue, TLC

CONSTANTS w1, w2, p1, p2

MCSite == p1 :> w1 @@ p2 :> w1
MCOrdered == p1 :> 2 @@ p2 :> 1
MCPrice == p1 :> 5 @@ p2 :> 62
====
