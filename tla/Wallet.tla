------------------------------- MODULE Wallet -------------------------------
(***************************************************************************)
(* A payment from the browser wallet over a federation of nodes:           *)
(*   client/v3/gbx-read.js         the nodes' scores, failover and quorum; *)
(*   client/crypto-utils-v2.js     fetchUtxos, the memory of spent coins,  *)
(*                                 sendGBX and its broadcast;              *)
(*   client/v3/send.html           the strict quorum before a payment.     *)
(* Every node indexes the chain at its own pace (or answers from a cache), *)
(* may not answer, and at most one of them lies about balances.  The page  *)
(* has other reads under way, the user may leave it at any await or close  *)
(* its tab, and may pay from another tab.  Coins have the same value; a    *)
(* transaction spends MaxInputs of them, so that a larger payment is a     *)
(* chain of transactions.  One spends coins c for a payment p, and is the  *)
(* same each time p is built from c.                                       *)
(***************************************************************************)
EXTENDS Naturals, Sequences, FiniteSets, FiniteSetsExt, SequencesExt

CONSTANTS
  Nodes,      \* GBX_NODES, as a sequence
  Liars,      \* nodes that say any balance
  Coins,      \* the coins of the wallet, as a sequence, the largest first
  Payments,   \* what the user wants paid
  Amount,     \* the coins each of them takes
  Width,      \* nodes asked in parallel (3 in the code)
  MaxTip,     \* bound: blocks mined
  MaxSends,   \* bound: attempts, retries included
  MaxLosses,  \* bound: requests without an answer
  MaxEvents,  \* bound: reads beside, pages left, payments of another tab
  NoPayment, Elsewhere  \* no payment; one of another tab

CoinSet == ToSet(Coins)
NodeSet == ToSet(Nodes)

(* add() takes no node twice.                                              *)
ASSUME Federation ==
  /\ Nodes \in Seq(ToSet(Nodes)) /\ \A i, j \in DOMAIN Nodes : Nodes[i] = Nodes[j] => i = j
  /\ Liars \subseteq ToSet(Nodes) /\ Cardinality(Liars) <= 1 /\ Width \in Nat \ {0}
ASSUME Purse ==
  /\ Coins \in Seq(ToSet(Coins)) /\ NoPayment \notin Payments /\ Amount \in [Payments -> Nat]
  /\ MaxTip \in Nat /\ MaxSends \in Nat /\ MaxLosses \in Nat /\ MaxEvents \in Nat
  /\ NoPayment \notin NodeSet /\ Elsewhere \notin Payments \cup {NoPayment}

VARIABLES
  spentIn, by, tip,  \* the chain: the block that spent a coin (0, or Pending in
                     \* the mempool), for which payment, the height
  idx,               \* the height of each node's index
  score,             \* SCORE
  last,              \* GBX_LAST_NODE, from an empty listing to the cross-check
  marks,             \* the tab's gbx_spent_outpoints: none, new, seen or old
  phase, pay,        \* where the payment is, and which one it is
  order, got, again, \* _quorum: nodes in order, what they said, what the retry heard
  turn, confirms,    \* the next node to ask; empty listings from others
  listing, paid,     \* the coins left to choose from, those of this attempt accepted
  result,            \* what the user was told last of each payment
  agreed, heard,     \* history: the balance the gate passed with; those that
                     \* honest nodes said in it
  emptySaid,         \* history: nodes that listed nothing in this read, until one does not
  overwritten,       \* history: another read set GBX_LAST_NODE before this one used it
  forgotten, reused, \* history: coins forgotten, with the reason; coins put in a
                     \* second transaction though the first was accepted
  begun,             \* history: payments that failed or were cut off with a
                     \* transaction accepted
  sends, losses, events

chainVars == <<spentIn, by, tip>>
gateVars == <<order, got, again>>
historyVars == <<agreed, heard, emptySaid, forgotten, reused, begun>>
sideVars == <<last, overwritten, events>>
walletVars == <<chainVars, idx, score, marks, phase, pay, gateVars, turn, confirms, listing, paid,
                result, historyVars, sends, losses, sideVars>>

Pending == MaxTip + 1   \* of spentIn: later than any block
UnspentAt(h) == {c \in CoinSet : spentIn[c] = 0 \/ spentIn[c] > h}
Free == {c \in CoinSet : spentIn[c] = 0}
Balances == SUBSET CoinSet
(* /api/address: the index without what the mempool spends.                *)
BalanceAt(n) == {c \in UnspentAt(idx[n]) : spentIn[c] # Pending}
Says(n) == IF n \in Liars THEN Balances ELSE {BalanceAt(n)}
Asked == [said |-> "asked", value |-> {}]
Failed == [said |-> "failed", value |-> {}]
NotAsked == [said |-> "no", value |-> {}]
Said(v) == [said |-> "value", value |-> v]

Loss == losses < MaxLosses /\ losses' = losses + 1
Replied == UNCHANGED losses

(* _ordered: the lowest score first, then the order of GBX_NODES.          *)
Ordered(sc) ==
  LET before(i, j) == sc[Nodes[i]] < sc[Nodes[j]] \/ (sc[Nodes[i]] = sc[Nodes[j]] /\ i < j)
      place(i) == 1 + Cardinality({j \in DOMAIN Nodes : before(j, i)}) IN
  [k \in DOMAIN Nodes |-> Nodes[CHOOSE i \in DOMAIN Nodes : place(i) = k]]
Ok(sc, n) == [sc EXCEPT ![n] = IF @ = 0 THEN 0 ELSE @ - 1]
Fail(sc, n) == [sc EXCEPT ![n] = @ + 1]

(* A transaction the network has not: its coins are free.  It answers with *)
(* the txid also when it has it in its mempool, and with an error when the *)
(* coins are spent otherwise or the transaction is in a block.             *)
Accepts(p, cs) == cs \subseteq Free \/ \A c \in cs : spentIn[c] = Pending /\ by[c] = p
Enter(p, cs) ==
  /\ spentIn' = [c \in CoinSet |-> IF c \in cs THEN Pending ELSE spentIn[c]]
  /\ by' = [c \in CoinSet |-> IF c \in cs THEN p ELSE by[c]]
-----------------------------------------------------------------------------
(* Around the wallet.                                                      *)
Mine ==
  /\ tip < MaxTip /\ tip' = tip + 1
  /\ \E S \in SUBSET {c \in CoinSet : spentIn[c] = Pending} :
       spentIn' = [c \in CoinSet |-> IF c \in S THEN tip + 1 ELSE spentIn[c]]
  /\ UNCHANGED <<by, idx, score, marks, phase, pay, gateVars, turn, confirms, listing, paid, result, historyVars, sends, losses, sideVars>>
IndexBlock(n) ==
  /\ idx[n] < tip /\ idx' = [idx EXCEPT ![n] = @ + 1]
  /\ UNCHANGED <<chainVars, score, marks, phase, pay, gateVars, turn, confirms, listing, paid, result, historyVars, sends, losses, sideVars>>
TenMinutes(c) ==
  /\ marks[c] \in {"new", "seen"} /\ marks' = [marks EXCEPT ![c] = "old"]
  /\ UNCHANGED <<chainVars, idx, score, phase, pay, gateVars, turn, confirms, listing, paid, result, historyVars, sends, losses, sideVars>>

(* A read of another part of the page (_rotate): the nodes before the k-th *)
(* did not answer it, the k-th did.                                        *)
Event == events < MaxEvents /\ events' = events + 1
ReadBeside(k) ==
  /\ Event /\ losses + k - 1 <= MaxLosses /\ losses' = losses + k - 1
  /\ score' = [n \in NodeSet |-> IF \E i \in 1..(k - 1) : Ordered(score)[i] = n THEN Fail(score, n)[n]
                                ELSE IF Ordered(score)[k] = n THEN Ok(score, n)[n] ELSE score[n]]
  /\ last' = IF phase = "emptied" THEN Ordered(score)[k] ELSE last
  /\ UNCHANGED <<chainVars, idx, marks, phase, pay, gateVars, turn, confirms, listing, paid, result, historyVars, sends, overwritten>>

(* Another tab pays with a coin: its marks are its own.                    *)
OtherTabPays(c) ==
  /\ Event /\ c \in Free /\ Enter(Elsewhere, {c})
  /\ forgotten' = forgotten \cup {<<c, "tab">>}
  /\ UNCHANGED <<tip, idx, score, marks, phase, pay, gateVars, turn, confirms, listing, paid, result,
                 agreed, heard, emptySaid, reused, begun, sends, losses, last, overwritten>>
-----------------------------------------------------------------------------
(* doSend: the user pays, or tries again what failed.                      *)
Ends(p, r) ==
  /\ phase' = "idle" /\ result' = [result EXCEPT ![p] = r]
  /\ pay' = NoPayment /\ turn' = 0 /\ confirms' = 0 /\ listing' = {} /\ paid' = {}
  /\ order' = <<>> /\ got' = [n \in NodeSet |-> NotAsked] /\ again' = <<>>

Send(p) ==
  /\ phase = "idle" /\ sends < MaxSends /\ result[p] \in {"none", "refused", "failed"}
  /\ phase' = "gate" /\ pay' = p /\ sends' = sends + 1
  /\ order' = Ordered(score)
  /\ got' = [n \in NodeSet |-> IF \E k \in DOMAIN Nodes : k <= Width /\ Ordered(score)[k] = n THEN Asked ELSE NotAsked]
  /\ emptySaid' = {} /\ agreed' = NotAsked /\ heard' = {} /\ overwritten' = FALSE
  /\ UNCHANGED <<chainVars, idx, score, marks, again, turn, confirms, listing, paid, result, forgotten, reused, begun, losses, last, events>>

(* _quorum.  An answer comes or does not.                                  *)
Hear(n) == heard' = IF n \in Liars THEN heard ELSE heard \cup {BalanceAt(n)}
Return(n) ==
  /\ phase = "gate" /\ got[n] = Asked
  /\ \/ Replied /\ Hear(n) /\ \E v \in Says(n) : got' = [got EXCEPT ![n] = Said(v)]
     \/ Loss /\ got' = [got EXCEPT ![n] = Failed] /\ UNCHANGED heard
  /\ UNCHANGED <<chainVars, idx, score, marks, phase, pay, order, again, turn, confirms, listing, paid, result,
                 agreed, emptySaid, forgotten, reused, begun, sends, sideVars>>

Settled == \A n \in NodeSet : got[n] # Asked
Answering == {n \in NodeSet : got[n].said = "value"}
Unasked == {k \in DOMAIN order : got[order[k]] = NotAsked}
Scores == [n \in NodeSet |-> IF got[n].said = "value" THEN Ok(score, n)[n]
                             ELSE IF got[n] = Failed THEN Fail(score, n)[n] ELSE score[n]]
Agree(v) == {n \in Answering : got[n].value = v}

(* Failures are refilled from the rest, one at a time.                     *)
Refill ==
  /\ phase = "gate" /\ Settled
  /\ Cardinality(Answering) < Width /\ Unasked # {}
  /\ got' = [got EXCEPT ![order[Min(Unasked)]] = Asked]
  /\ UNCHANGED <<chainVars, idx, score, marks, phase, pay, order, again, turn, confirms, listing, paid, result, historyVars, sends, losses, sideVars>>

(* Mutant: an answer agrees with itself. *)
OneIsEnough == {v \in Balances : Agree(v) # {}}
Majorities == {v \in Balances : Cardinality(Agree(v)) >= 2}
ToRead == phase' = "read" /\ turn' = 1 /\ order' = Ordered(score') /\ got' = [n \in NodeSet |-> NotAsked] /\ again' = <<>>
Tally ==
  /\ phase = "gate" /\ Settled /\ (Cardinality(Answering) >= Width \/ Unasked = {})
  /\ score' = Scores
  /\ IF Majorities # {}
       THEN /\ ToRead /\ UNCHANGED <<pay, result, confirms, listing, paid>>
            /\ \E v \in Majorities : agreed' = [said |-> "value", value |-> v]
     ELSE IF Cardinality(Answering) <= 1
       THEN /\ Ends(pay, IF Answering = {} THEN "failed" ELSE "refused")
            /\ UNCHANGED agreed
     ELSE phase' = "retry" /\ UNCHANGED <<pay, result, confirms, listing, paid, order, got, again, turn, agreed>>
  /\ UNCHANGED <<chainVars, idx, marks, heard, emptySaid, forgotten, reused, begun, sends, losses, sideVars>>

(* The first two again, one after the other; any failure refuses.          *)
Retry ==
  /\ phase = "retry" /\ UNCHANGED score
  /\ \/ /\ Replied /\ Hear(order[1 + Len(again)])
        /\ \E v \in Says(order[1 + Len(again)]) :
             IF again = <<>> THEN again' = <<v>> /\ UNCHANGED <<phase, pay, result, order, got, turn, confirms, listing, paid, agreed>>
             ELSE IF again[1] = v THEN ToRead /\ agreed' = Said(v) /\ UNCHANGED <<pay, result, confirms, listing, paid>>
             ELSE Ends(pay, "refused") /\ UNCHANGED agreed
     \/ Loss /\ Ends(pay, "refused") /\ UNCHANGED <<agreed, heard>>
  /\ UNCHANGED <<chainVars, idx, marks, emptySaid, forgotten, reused, begun, sends, sideVars>>
-----------------------------------------------------------------------------
(* _spent.filter: an entry seen in a listing before and now gone is        *)
(* forgotten, one past the ceiling too.                                    *)
(* Mutant: an entry never seen is forgotten as well. *)
ForgetsUnseen(l) == {c \in CoinSet : marks[c] # "none" /\ c \notin l}
Gone(l) == {c \in CoinSet : marks[c] = "seen" /\ c \notin l}
Expired == {c \in CoinSet : marks[c] = "old"}
Remember(l) ==
  /\ marks' = [c \in CoinSet |-> IF c \in Gone(l) \cup Expired THEN "none"
                                 ELSE IF marks[c] = "new" /\ c \in l THEN "seen" ELSE marks[c]]
  /\ forgotten' = forgotten \cup {c \in CoinSet : marks[c] = "seen" /\ c \notin l} \X {"gone"}
                        \cup {c \in CoinSet : marks[c] = "old"} \X {"expired"}
Filter(l) == Remember(l) /\ listing' = {c \in l : marks'[c] = "none"}
(* Another page of the wallet lists the coins (fetchUtxos) and spends none. *)
Browse(n) ==
  /\ phase = "idle" /\ UnspentAt(idx[n]) # {}
  /\ Remember(UnspentAt(idx[n])) /\ marks' # marks
  /\ UNCHANGED <<chainVars, idx, score, phase, pay, gateVars, turn, confirms, listing, paid, result,
                 agreed, heard, emptySaid, reused, begun, sends, losses, sideVars>>
(* sendGBX with what fetchUtxos gave it.                                   *)
Build(l) ==
  /\ Filter(l)
  /\ IF listing' = {} THEN phase' = "empty" ELSE phase' = "post"
  /\ turn' = 1 /\ confirms' = 0
  /\ UNCHANGED <<pay, result, paid, order, got, again>>

(* _fedReadUtxos: the first node that answers, whose _ok sets              *)
(* GBX_LAST_NODE; an empty list is checked with up to three others.        *)
ReadUtxos ==
  /\ phase = "read"
  /\ \/ /\ Replied
        /\ score' = Ok(score, order[turn])
        /\ IF UnspentAt(idx[order[turn]]) # {}
             THEN Build(UnspentAt(idx[order[turn]])) /\ emptySaid' = {} /\ UNCHANGED last
             ELSE /\ phase' = "emptied" /\ last' = order[turn]
                  /\ emptySaid' = {order[turn]}
                  /\ UNCHANGED <<marks, pay, order, got, again, turn, confirms, listing, paid, result, forgotten>>
     \/ /\ Loss
        /\ score' = Fail(score, order[turn])
        /\ IF turn < Len(order) THEN turn' = turn + 1 /\ UNCHANGED phase ELSE phase' = "lp" /\ turn' = 0
        /\ UNCHANGED <<marks, pay, order, got, again, confirms, listing, paid, result, emptySaid, forgotten, last>>
  /\ UNCHANGED <<chainVars, idx, agreed, heard, reused, begun, sends, overwritten, events>>

(* The others are all but GBX_LAST_NODE, read when the list has arrived: a *)
(* read beside this one may have set it since.                             *)
(* Mutant: the node that answered is asked again. *)
AskedAgain == Nodes
Others == RemoveAt(Nodes, CHOOSE k \in DOMAIN Nodes : Nodes[k] = last)
StartCross ==
  /\ phase = "emptied" /\ phase' = "cross"
  /\ order' = Others /\ turn' = 1 /\ last' = NoPayment
  /\ overwritten' = (last \notin emptySaid)
  /\ UNCHANGED <<chainVars, idx, score, marks, pay, got, again, confirms, listing, paid, result, historyVars, sends, losses, events>>

(* Mutant: the first empty list is believed. *)
Believed == TRUE
Confirmed == confirms > 0
CrossCheck ==
  /\ phase = "cross"
  /\ IF turn > Len(order) \/ turn > 3
       THEN /\ Replied
            /\ IF Confirmed THEN Build({}) ELSE phase' = "lp" /\ UNCHANGED <<marks, pay, turn, order, got, again, confirms, listing, paid, result, forgotten>>
            /\ UNCHANGED emptySaid
       ELSE \/ /\ Replied
               /\ IF UnspentAt(idx[order[turn]]) # {}
                    THEN Build(UnspentAt(idx[order[turn]])) /\ emptySaid' = {}
                    ELSE /\ confirms' = confirms + 1 /\ turn' = turn + 1 /\ emptySaid' = emptySaid \cup {order[turn]}
                         /\ UNCHANGED <<marks, phase, pay, order, got, again, listing, paid, result, forgotten>>
            \/ /\ Loss /\ turn' = turn + 1
               /\ UNCHANGED <<marks, phase, pay, order, got, again, confirms, listing, paid, result, emptySaid, forgotten>>
  /\ UNCHANGED <<chainVars, idx, score, agreed, heard, reused, begun, sends, sideVars>>

(* The LP's listing leaves out what its node's mempool spends.  Nothing    *)
(* here after a read that failed is an error, not an empty wallet.         *)
ReadLp ==
  /\ phase = "lp"
  /\ \/ /\ Replied
        /\ Filter(Free)
        /\ IF listing' = {} THEN phase' = "unread" ELSE phase' = "post"
        /\ turn' = 1 /\ UNCHANGED <<pay, order, got, again, confirms, paid, result>>
     \/ /\ Loss /\ phase' = "unread"
        /\ UNCHANGED <<marks, pay, order, got, again, turn, confirms, listing, paid, result, forgotten>>
  /\ UNCHANGED <<chainVars, idx, score, agreed, heard, emptySaid, reused, begun, sends, sideVars>>

GivesUp ==
  /\ phase \in {"empty", "unread"}
  /\ Ends(pay, IF phase = "empty" THEN "empty" ELSE "failed")
  /\ UNCHANGED <<chainVars, idx, score, marks, historyVars, sends, losses, sideVars>>
-----------------------------------------------------------------------------
(* The next transaction of the payment: the largest coins left.  Each node *)
(* is tried, then the LP (turn past the nodes); an answer with a txid ends *)
(* the round, anything else goes on to the next.                           *)
Batch == {Coins[Min({k \in DOMAIN Coins : Coins[k] \in listing})]}
Posters == Len(Nodes) + 1
(* Mutant: what was sent is not subtracted. *)
AllOfIt == Amount[pay]
Left == Amount[pay] - Cardinality(paid)
Posting == phase = "post" /\ Left > 0 /\ listing # {} /\ turn <= Posters

(* Mutant: what was sent is not remembered. *)
NotMarked(cs) == marks
Marked(cs) == [c \in CoinSet |-> IF c \in cs THEN "new" ELSE marks[c]]
Acknowledged(cs) ==
  /\ marks' = Marked(cs)
  /\ paid' = paid \cup cs /\ turn' = 1
  /\ listing' = listing \ cs
PostNext ==
  /\ Posting
  /\ LET cs == Batch IN
     /\ reused' = reused \cup {c \in cs : spentIn[c] # 0 /\ by[c] # pay}
     /\ \/ Accepts(pay, cs) /\ Enter(pay, cs) /\ Replied /\ Acknowledged(cs)
        \/ Accepts(pay, cs) /\ Enter(pay, cs) /\ Loss /\ turn' = turn + 1 /\ UNCHANGED <<marks, paid, listing>>
        \/ ~Accepts(pay, cs) /\ Replied /\ turn' = turn + 1 /\ UNCHANGED <<spentIn, by, marks, paid, listing>>
        \/ Loss /\ turn' = turn + 1 /\ UNCHANGED <<spentIn, by, marks, paid, listing>>
  /\ UNCHANGED <<tip, idx, score, phase, pay, gateVars, confirms, result, agreed, heard, emptySaid, forgotten, begun, sends, sideVars>>

(* All sent; or nobody gave a txid, or the coins do not suffice.           *)
Finish ==
  /\ phase = "post" /\ (Left = 0 \/ listing = {} \/ turn > Posters)
  /\ Ends(pay, IF Left = 0 THEN "paid" ELSE "failed")
  /\ begun' = IF Left # 0 /\ {c \in CoinSet : by[c] = pay} # {} THEN begun \cup {pay} ELSE begun
  /\ forgotten' = forgotten \cup {c \in CoinSet : by[c] = pay /\ marks[c] = "none" /\ Left # 0} \X {"failed"}
  /\ UNCHANGED <<chainVars, idx, score, marks, agreed, heard, emptySaid, reused, sends, losses, sideVars>>

(* The user leaves the page or, and then the marks go with sessionStorage, *)
(* closes the tab, at any await of a payment, the answer to a POST under   *)
(* way among them: then the coins are never marked.                        *)
Leaves ==
  /\ Event
  /\ \/ Posting /\ Accepts(pay, Batch) /\ Enter(pay, Batch)
     \/ UNCHANGED <<spentIn, by>>
  /\ reused' = IF Posting THEN reused \cup {c \in Batch : spentIn[c] # 0 /\ by[c] # pay} ELSE reused
  /\ marks' \in {marks, [c \in CoinSet |-> "none"]}
  /\ forgotten' = forgotten \cup {c \in CoinSet : marks'[c] = "none" /\ (marks[c] # "none" \/ (pay # NoPayment /\ by'[c] = pay))} \X {"left"}
  /\ begun' = IF pay # NoPayment /\ {c \in CoinSet : by'[c] = pay} # {} THEN begun \cup {pay} ELSE begun
  /\ phase' = "idle" /\ pay' = NoPayment /\ turn' = 0 /\ confirms' = 0 /\ listing' = {} /\ paid' = {}
  /\ order' = <<>> /\ got' = [n \in NodeSet |-> NotAsked] /\ again' = <<>> /\ last' = NoPayment
  /\ UNCHANGED <<tip, idx, score, result, agreed, heard, emptySaid, sends, losses, overwritten>>
-----------------------------------------------------------------------------
WalletInit ==
  /\ spentIn = [c \in CoinSet |-> 0] /\ by = [c \in CoinSet |-> NoPayment] /\ tip = 0
  /\ idx = [n \in NodeSet |-> 0] /\ score = [n \in NodeSet |-> 0]
  /\ marks = [c \in CoinSet |-> "none"]
  /\ phase = "idle" /\ pay = NoPayment /\ turn = 0 /\ confirms = 0 /\ listing = {} /\ paid = {}
  /\ order = <<>> /\ got = [n \in NodeSet |-> NotAsked] /\ again = <<>>
  /\ result = [p \in Payments |-> "none"]
  /\ agreed = NotAsked /\ heard = {} /\ emptySaid = {} /\ forgotten = {} /\ reused = {} /\ begun = {}
  /\ last = NoPayment /\ overwritten = FALSE /\ sends = 0 /\ losses = 0 /\ events = 0

Work ==
  \/ (\E n \in NodeSet : Return(n)) \/ Refill \/ Tally \/ Retry
  \/ ReadUtxos \/ StartCross \/ CrossCheck \/ ReadLp \/ GivesUp \/ PostNext \/ Finish
WalletNext ==
  \/ Work \/ (\E p \in Payments : Send(p))
  \/ Mine \/ (\E n \in NodeSet : IndexBlock(n) \/ Browse(n)) \/ (\E c \in CoinSet : TenMinutes(c) \/ OtherTabPays(c))
  \/ (\E k \in DOMAIN Nodes : ReadBeside(k)) \/ Leaves
WalletSpec == WalletInit /\ [][WalletNext]_walletVars
-----------------------------------------------------------------------------
WalletTypeOK ==
  /\ spentIn \in [CoinSet -> 0..Pending] /\ by \in [CoinSet -> Payments \cup {NoPayment, Elsewhere}]
  /\ \A c \in CoinSet : (spentIn[c] = 0) <=> (by[c] = NoPayment)
  /\ marks \in [CoinSet -> {"none", "new", "seen", "old"}]
  /\ phase \in {"idle", "gate", "retry", "read", "emptied", "cross", "lp", "post", "empty", "unread"}
  /\ (pay = NoPayment) <=> (phase = "idle")
  /\ \A c \in CoinSet : (marks[c] # "none") => (by[c] # NoPayment)

(* send.html:549, "if the live nodes cannot agree on this balance, the     *)
(* transaction is refused": past the gate, the balance is one that an      *)
(* honest node gave in this very gate, whatever the liar said, whoever did *)
(* not answer and whatever was mined meanwhile.                            *)
GateHeardHonest == (agreed.said = "value") => (agreed.value \in heard)

(* crypto-utils-v2.js:175, "only a confirmed empty is empty": the user is  *)
(* told that there are no coins only if two nodes list none, or every coin *)
(* listed is one this tab has spent.  The exception is a read beside this  *)
(* one that sets GBX_LAST_NODE before line 176 reads it: then the node     *)
(* that listed nothing is among the others, and confirms itself.           *)
EmptyConfirmed == phase = "empty" => Cardinality(emptySaid) >= 2 \/ emptySaid = {} \/ overwritten

(* crypto-utils-v2.js:210: a coin this wallet has spent does not go into a *)
(* transaction of another payment, but for the ways in which the tab does  *)
(* not know of it: a listing without the coin after one with it, ten       *)
(* minutes, a payment that failed although the network had its             *)
(* transaction, a tab closed or a page left while a POST was under way,    *)
(* and a payment from another tab.                                         *)
ReuseExplained == \A c \in reused : \E why \in {"gone", "expired", "failed", "left", "tab"} : <<c, why>> \in forgotten

(* A payment takes no more coins than it asked for, however its answers    *)
(* were lost, unless it was tried again after it had failed or been left   *)
(* half way; and it is reported as paid only when the network has all.     *)
TakenBy(p) == Cardinality({c \in CoinSet : by[c] = p})
PaysWhatIsAsked ==
  \A p \in Payments :
    /\ (p \notin begun) => (TakenBy(p) <= Amount[p])
    /\ (result[p] = "paid") => (TakenBy(p) >= Amount[p])

(* What the wallet was told by several nodes: a balance to spend from, and *)
(* that there is nothing to spend (gbx-read.js _quorum, _fedReadUtxos).    *)
ReadsAreConfirmed == WalletTypeOK /\ GateHeardHonest /\ EmptyConfirmed

(* A coin goes to one payment, and a payment takes what it needs (sendGBX),*)
(* for the causes named in the two conjuncts.                              *)
CoinsPayOnce == ReuseExplained /\ PaysWhatIsAsked
=============================================================================
