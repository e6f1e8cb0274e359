----------------------------- MODULE TradeLocksMC -----------------------------
(* An instance of TradeLocks for TLC: two webhook trades, two signals for the  *)
(* second, and the order in which the lock keys sort.                          *)
EXTENDS TradeLocks, TLC

CONSTANTS h1, h2, fb, s1, s2, s3

TwiceOrder == <<h1, fb, h2>>
TwiceTarget == (s1 :> h1) @@ (s2 :> h2) @@ (s3 :> h2)
=============================================================================
