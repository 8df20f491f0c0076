----------------------------- MODULE MCStratum ------------------------------
(* Two miners, each with an address of its own.                            *)
EXTENDS Stratum, TLC
CONSTANTS m1, m2, a1, a2
TwoMiners == {m1, m2}
OneAddressEach == m1 :> {a1} @@ m2 :> {a2}
=============================================================================
