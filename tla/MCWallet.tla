------------------------------ MODULE MCWallet ------------------------------
(* Three nodes, one of which may lie, and two payments from two coins.     *)
EXTENDS Wallet, TLC

CONSTANTS n1, n2, n3, c1, c2, p1, p2

ThreeNodes == <<n1, n2, n3>>
TwoCoins == <<c1, c2>>
OneAndTwo == p1 :> 1 @@ p2 :> 2
=============================================================================
