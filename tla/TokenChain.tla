----------------------------- MODULE TokenChain ------------------------------
(***************************************************************************)
(* The chain token-index/scanner.js reads: the legal chains over a few     *)
(* given transactions, and what a node answers about one.  The consensus   *)
(* code is not in this repository; what is here is what the scanner's      *)
(* mirror of it presumes (scanner.js:223, :561).  Amounts are small, the   *)
(* bonding curve is linear (a token costs one unit) and there are no fees. *)
(*                                                                         *)
(* A block is a sequence of transaction names, a chain a sequence of       *)
(* blocks; a block's hash commits to all before it, so the hash of height  *)
(* h IS the chain up to h.  An outpoint is <<transaction, sort>>.          *)
(***************************************************************************)
EXTENDS Integers, Sequences, FiniteSets, SequencesExt

CONSTANTS
  Tx,          \* the transactions: name |-> record
  NewBlocks,   \* the blocks a miner may make of them
  Bases,       \* chains to start from: blocks beyond the reach of any reorganisation
  MaxNew,      \* bound: blocks above the base
  GradWindow,  \* GRAD_WINDOW: blocks for which a largest trade M stays live
  Nil

Smaller(a, b) == IF a < b THEN a ELSE b
CoinIds == {Tx[t].coin : t \in DOMAIN Tx} \ {Nil}

(* The transactions of a chain in order, each with its height.             *)
Mined(c) == FlattenSeq([h \in DOMAIN c |-> [i \in DOMAIN c[h] |-> [h |-> h, id |-> c[h][i]]]])

(* A coin on the chain: its curve or pool output, the curve's reserve, the *)
(* largest trade M and its stamp, the pool's GBX.                          *)
Unborn == [phase |-> "unborn", out |-> Nil, reserve |-> 0, m |-> 0, hM |-> 0, gbx |-> 0]

Traded(s, tx, trade, reserve, h) ==
  LET fresh == trade > 0 /\ (h - s.hM > GradWindow \/ trade > s.m) IN
  [s EXCEPT !.reserve = reserve,
            !.phase = IF reserve = 0 THEN "closed" ELSE @,
            !.out = IF reserve = 0 THEN Nil ELSE <<tx, "curve">>,
            !.m = IF fresh THEN trade ELSE @,
            !.hM = IF fresh THEN h ELSE @]

(* The coin after transaction t at height h.                               *)
Evolve(s, t, h) ==
  LET a == Tx[t].amount IN
  CASE Tx[t].op = "C" -> [Unborn EXCEPT !.phase = "live", !.out = <<t, "curve">>,
                                        !.reserve = a, !.m = a, !.hM = h]
    [] Tx[t].op = "B" -> Traded(s, t, a, s.reserve + a, h)
    [] Tx[t].op = "S" -> Traded(s, t, Smaller(a, s.reserve), s.reserve - Smaller(a, s.reserve), h)
    [] Tx[t].op = "R" -> Traded(s, t, 0, s.reserve - Smaller(a, s.reserve), h)
    [] Tx[t].op = "G" -> [s EXCEPT !.phase = "graduated", !.out = <<t, "pool">>, !.gbx = s.reserve]
    [] Tx[t].op = "P" -> [s EXCEPT !.out = <<t, "pool">>, !.gbx = @ + a]
    [] Tx[t].op = "Q" -> [s EXCEPT !.out = <<t, "pool">>, !.gbx = @ - a]
    [] OTHER -> s

(* A transaction stands once in a chain, spends what is there, and an      *)
(* operation on a coin spends the coin's present output.                   *)
MayStand(l, t) ==
  /\ t \notin DOMAIN l.after
  /\ Tx[t].op = "C" => l.coins[Tx[t].coin].phase = "unborn"
  /\ Tx[t].op \in {"B", "S", "R", "G"} =>
       l.coins[Tx[t].coin].phase = "live" /\ l.coins[Tx[t].coin].out \in Tx[t].spends
  /\ Tx[t].op \in {"P", "Q"} =>
       /\ l.coins[Tx[t].coin].phase = "graduated" /\ l.coins[Tx[t].coin].out \in Tx[t].spends
       /\ Tx[t].op = "Q" => l.coins[Tx[t].coin].gbx > Tx[t].amount
  /\ \A o \in Tx[t].spends : o \in l.unspent \/ o = l.coins[Tx[t].coin].out

(* A chain's ledger: is it legal, what is unspent, every coin, and for     *)
(* each transaction its coin before it (which the spent witness reveals)   *)
(* and after it (which its outputs commit to).                             *)
Record(l, x) ==
  LET coin == Tx[x.id].coin
      before == IF coin = Nil THEN Unborn ELSE l.coins[coin]
      after == IF coin = Nil THEN Unborn ELSE Evolve(before, x.id, x.h) IN
  IF ~l.legal \/ ~MayStand(l, x.id) THEN [l EXCEPT !.legal = FALSE] ELSE
  [legal |-> TRUE,
   unspent |-> (l.unspent \ Tx[x.id].spends) \cup {<<x.id, sort>> : sort \in Tx[x.id].outs},
   coins |-> IF coin = Nil THEN l.coins ELSE [l.coins EXCEPT ![coin] = after],
   before |-> [t \in DOMAIN l.before \cup {x.id} |-> IF t = x.id THEN before ELSE l.before[t]],
   after |-> [t \in DOMAIN l.after \cup {x.id} |-> IF t = x.id THEN after ELSE l.after[t]]]

Ledger(c) ==
  FoldLeft(Record, [legal |-> TRUE, unspent |-> {}, coins |-> [k \in CoinIds \cup {Nil} |-> Unborn],
                    before |-> <<>>, after |-> <<>>], Mined(c))

(* Every legal chain over a base, of every length up to the bound.         *)
Grown(cs) == {c \in {Append(d, b) : d \in cs, b \in NewBlocks} : Ledger(c).legal}
ChainsOf[n \in 0 .. MaxNew] == IF n = 0 THEN Bases ELSE Grown(ChainsOf[n - 1])
Chains == UNION {ChainsOf[n] : n \in 0 .. MaxNew}
LedgerOf == [c \in Chains \cup UNION {Prefixes(b) : b \in Bases} |-> Ledger(c)]
BaseOf(c) == CHOOSE b \in Bases : IsPrefix(b, c)
(* The outpoints an index follows by name; the other outputs are a coin's. *)
Outpoints == (DOMAIN Tx) \X {"token", "change", "htlc", "offer"}
ASSUME ChainAssumption ==
  /\ MaxNew \in Nat
  /\ \A b \in NewBlocks : b \in Seq(DOMAIN Tx)
  /\ \A c \in Bases : c \in Seq(Seq(DOMAIN Tx)) /\ Ledger(c).legal
  /\ \A o \in Outpoints : o # Nil
MaxHeight == Max({Len(c) : c \in Chains})

VARIABLE chain   \* the node's best chain

ChainInit == chain \in Bases

(* The node's tip rises by one block, on its chain or on a branch that     *)
(* leaves it anywhere above its base.                                      *)
Extend == \E c \in Chains : Len(c) = Len(chain) + 1 /\ Front(c) = chain /\ chain' = c
Switch == \E c \in Chains :
  Len(c) = Len(chain) + 1 /\ Front(c) # chain /\ IsPrefix(BaseOf(chain), c) /\ chain' = c

(* Blocks are taken back and nothing replaces them yet (scanner.js:712     *)
(* expects it).                                                            *)
Shrink == \E k \in Len(BaseOf(chain)) .. Len(chain) - 1 : chain' = SubSeq(chain, 1, k)
=============================================================================
