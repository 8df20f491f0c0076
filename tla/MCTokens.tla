------------------------------ MODULE MCTokens -------------------------------
(* Small sets of transactions for the token indexer.                       *)
EXTENDS TokenIndex

Plain == [op |-> "none", coin |-> Nil, pk |-> "alice", to |-> "alice", amount |-> 0,
          tokens |-> 0, back |-> 0, spends |-> {}, outs |-> {}, reveals |-> FALSE,
          ticker |-> Nil, chunk |-> Nil]
Op(op, coin, amount, spends) ==
  [Plain EXCEPT !.op = op, !.coin = coin, !.amount = amount, !.spends = spends]
Drawing(tx, set, idx) == [tx EXCEPT !.chunk = [set |-> set, idx |-> idx]]
Minting(tx, n) == [tx EXCEPT !.tokens = n, !.outs = {"token"}]

(* Two coins whose births are final, traded on a chain that is not: one on *)
(* its curve, one that graduates, in its pool; one ticker for both, and of *)
(* the two chunks of a logo the second in two versions.                    *)
TradeTx ==
  "c1" :> Minting(Op("C", "coin1", 2, {}), 2) @@
  "c2" :> Op("C", "coin2", 3, {}) @@
  "g2" :> Op("G", "coin2", 0, {<<"c2", "curve">>}) @@
  "b1" :> Drawing(Minting(Op("B", "coin1", 3, {<<"c1", "curve">>}), 3), "logo", 0) @@
  "s1" :> Op("S", "coin1", 4, {<<"b1", "curve">>, <<"c1", "token">>, <<"b1", "token">>}) @@
  "r1" :> Drawing(Op("R", "coin1", 9, {<<"s1", "curve">>}), "logo", 1) @@
  "p2" :> Op("P", "coin2", 1, {<<"g2", "pool">>}) @@
  "q2" :> Op("Q", "coin2", 2, {<<"p2", "pool">>}) @@
  "n1" :> Drawing([Plain EXCEPT !.coin = "coin1", !.ticker = "GOLD"], "other", 1) @@
  "n2" :> [Plain EXCEPT !.coin = "coin2", !.ticker = "GOLD"]
TradeBase == <<<<>>, <<"c1", "c2">>>>
TradeBlocks == {<<"b1">>, <<"b1", "g2", "p2", "n2">>, <<"s1", "n1">>, <<"s1","q2">>, <<"r1">>}

(* Locks, offers and transfers, and a coin whose birth is not final and    *)
(* which is named before it or after, on a chain any of whose blocks may   *)
(* go but the one that funds them.                                         *)
LockTx ==
  "m3" :> [Plain EXCEPT !.outs = {"coin", "lock", "offer"}] @@
  "c3" :> Minting(Op("C", "coin3", 3, {<<"m3", "coin">>}), 3) @@
  "t3" :> [Op("T", "coin3", 0, {<<"c3", "token">>})
             EXCEPT !.to = "bob", !.tokens = 1, !.back = 2, !.outs = {"token", "change"},
                    !.chunk = [set |-> "logo", idx |-> 1]] @@
  "n3" :> Drawing([Plain EXCEPT !.coin = "coin3", !.ticker = "LEAD"], "logo", 0) @@
  "h1" :> [Plain EXCEPT !.spends = {<<"m3", "lock">>}, !.outs = {"htlc"}] @@
  "k1" :> [Plain EXCEPT !.spends = {<<"h1", "htlc">>}, !.reveals = TRUE] @@
  "f1" :> [Plain EXCEPT !.spends = {<<"h1", "htlc">>}] @@
  "o1" :> [Plain EXCEPT !.spends = {<<"m3", "offer">>}, !.outs = {"offer"}] @@
  "x1" :> [Plain EXCEPT !.spends = {<<"o1", "offer">>}, !.outs = {"htlc"}] @@
  "w1" :> [Plain EXCEPT !.spends = {<<"o1", "offer">>}]
LockBase == <<<<"m3">>>>
LockBlocks == {<<"c3", "t3">>, <<"c3", "h1">>, <<"n3">>, <<"t3", "k1">>, <<"f1", "o1">>, <<"x1">>, <<"w1">>}

(* The coins of one base are not those of the other: a chain grows from    *)
(* either, by its own blocks.                                              *)
AllTx == TradeTx @@ LockTx
AllBlocks == TradeBlocks \cup LockBlocks
TwoBases == {TradeBase, LockBase}
=============================================================================
