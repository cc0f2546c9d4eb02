------------------------------ MODULE MCLedger ------------------------------
(* Two system lines that one statement line is near to; one document of    *)
(* each kind.                                                              *)
EXTENDS BankReconciliation, TLC

CONSTANTS s1, s2, u1

AmountOf == (s1 :> 7) @@ (s2 :> 7) @@ (u1 :> 8)
DateOf == (s1 :> 1) @@ (s2 :> 4) @@ (u1 :> 4)
=============================================================================
