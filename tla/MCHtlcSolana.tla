---------------------------- MODULE MCHtlcSolana ----------------------------
(* A user and the LP, who lock for each other under one hashlock whose     *)
(* preimage is known and one whose preimage is not; three swap ids.          *)
EXTENDS HtlcSolana, TLC
CONSTANTS user, lp, h1, h2, p1

MCSha256 == p1 :> h1
MCOffers ==
  { [sender |-> s, receiver |-> r, amount |-> n, hashlock |-> h, timelock |-> t] :
      s \in {user}, r \in {lp}, n \in {0, 2}, h \in {h1, h2}, t \in {1, 3} }
  \cup
  { [sender |-> lp, receiver |-> user, amount |-> 1, hashlock |-> h1, timelock |-> 2] }
=============================================================================
