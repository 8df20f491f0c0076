---------------------------- MODULE MCHtlcErc20 ----------------------------
(* Two users who lock for each other under two hashlocks, with short and   *)
(* long timelocks; the preimage of one hashlock only is known.             *)
EXTENDS HtlcErc20, TLC
CONSTANTS alice, bob, h1, h2, p1

MCSha256 == p1 :> h1
MCOffers ==
  { [sender |-> alice, receiver |-> bob, amount |-> 1, hashlock |-> h1, timelock |-> 1],
    [sender |-> alice, receiver |-> bob, amount |-> 2, hashlock |-> h2, timelock |-> 2],
    [sender |-> bob, receiver |-> alice, amount |-> 1, hashlock |-> h1, timelock |-> 2],
    [sender |-> bob, receiver |-> alice, amount |-> 0, hashlock |-> h1, timelock |-> 2] }
=============================================================================
