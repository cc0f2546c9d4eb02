---- MODULE MCOfflineSync ----
EXTENDS OfflineSync, TLC

CONSTANTS r1, r2, k1, k2, saleA, saleB, draft, shift

Command(s, p) == [seq |-> s, payload |-> p]
MCKey == r1 :> k1 @@ r2 :> k2
MCBatch == r1 :> <<Command(1, saleA), Command(2, saleB), Command(3, shift)>>
        @@ r2 :> <<Command(2, draft), Command(1, saleA), Command(1, saleB)>>
MCEntries == {<<r1, 1>>, <<r1, 2>>, <<r2, 2>>, <<r2, 3>>}
====
