----------------------------- MODULE Launchpad -----------------------------
(***************************************************************************)
(* The market of one coin, from the pages of its traders to the chain:     *)
(*   client/v3/coin-x.html         the trade button, the cards, the wait   *)
(*                                 for the index, the refreshes;           *)
(*   client/gbx-launchpad-flow.mjs what the transactions say;              *)
(*   client/gbx-launchpad-tx.mjs   the node's rule for the curve's memory  *)
(*                                 (verifyOwnCurveState).                  *)
(* The node is the curve's own arithmetic applied at the height a          *)
(* transaction is mined.  The index is a copy of the chain that is brought *)
(* up to date from time to time.  A page works on its copy of the index,   *)
(* D, which every press on that page reads and replaces.  One trader's     *)
(* page is modelled press by press, the others by what they send.          *)
(***************************************************************************)
EXTENDS Curve, Sequences, FiniteSets, FiniteSetsExt, SequencesExt

CONSTANTS
  Me, Others,  \* the trader on the page, and the other one(s)
  Flights,     \* presses under way at once on the page
  Gross,       \* what a buyer commits
  DevBuy,      \* the first buy, by the creator
  Creator,
  Tries,       \* how often a trade waits for the index (14 in the code)
  MaxTip,      \* bound: blocks mined
  MaxSends,    \* bound: transactions accepted
  MaxPresses,  \* bound: buttons pressed
  MaxLost,     \* bound: requests without an answer
  None

(* The creator is one of the traders, and his first buy one that the curve *)
(* answers.                                                                *)
ASSUME MarketAssumption ==
  /\ Gross \subseteq Nat /\ DevBuy \in Nat /\ QuoteBuy(0, DevBuy) # {}
  /\ Creator \in Others \union {Me} /\ Tries \in Nat /\ MaxTip \in Nat \ {0}

VARIABLES
  tip, coin,   \* the chain: height; phase, outpoint, reserves, memory of the coin
  hold,        \* its token outputs
  log,         \* its transactions, in order
  wait,        \* transactions accepted and not mined
  ix,          \* the index
  flight,      \* what each press is doing
  D, held,     \* the page's copy of the index, myHolding
  spent,       \* gbx_spent_outpoints: curve outputs the page knows it spent
  locked, due, \* is the trade button disabled; refreshes to come
  presses, sends, lost,
  refused      \* history: operations the node refused, and why

chainVars == <<tip, coin, hold, log>>
pageVars == <<flight, D, held, spent, locked, due>>
vars == <<chainVars, wait, ix, pageVars, presses, sends, lost, refused>>

Chain == [tip |-> tip, coin |-> coin, hold |-> hold, log |-> log]
Before(h, g) == g.amount < h.amount \/ (g.amount = h.amount /\ h.id < g.id)
Largest(d, u) ==   \* findMyHolding: the first of the index's list, the largest first
  LET mine == {h \in d.hold : h.who = u} IN
  IF mine = {} THEN None
  ELSE CHOOSE h \in mine : \A g \in mine \ {h} : Before(h, g)
(* Mutant: the bar forgets the largest trade. *)
BarIsFlat(d) == GradMin
Bar(d) ==          \* bar_sat, the reserve at which the page offers graduation
  IF d.coin.hM # 0 /\ d.tip - d.coin.hM <= GradWindow /\ d.coin.m * GradDepth > GradMin
  THEN d.coin.m * GradDepth ELSE GradMin
Idle == [op |-> "none"]
Trades == {"buy", "sell"}

Born == CHOOSE q \in QuoteBuy(0, DevBuy) : TRUE
Init ==
  /\ tip = 1 /\ wait = {}
  /\ coin = [phase |-> "live", at |-> 1, gbx |-> Born.reserve, tokens |-> 0, m |-> Born.net, hM |-> 1]
  /\ hold = {[id |-> 1, who |-> Creator, amount |-> Born.tokens]}
  /\ log = <<[op |-> "C", by |-> Creator, h |-> 1, on |-> 0, at |-> 1, amount |-> DevBuy, out |-> Born.tokens,
              burn |-> Born.fee, moved |-> Born.net, phase |-> "live", gbx |-> Born.reserve, tokens |-> 0]>>
  /\ ix = Chain
  /\ flight = [f \in Flights |-> Idle]
  /\ D = Chain /\ held = Largest(Chain, Me) /\ spent = {} /\ locked = FALSE /\ due = 0
  /\ presses = 0 /\ sends = 1 /\ lost = 0 /\ refused = {}
-----------------------------------------------------------------------------
(* What the transactions say: each is the operation, the curve or pool     *)
(* output and the token outputs it spends, the coin it leaves, the tokens  *)
(* it gives to whom, and what it burns.                                    *)

(* Mutants: the record of the trade is never out of date; its stamp is a   *)
(* block too far.                                                          *)
MNeverExpires(m, hM, trade, spendH) == IF trade > m THEN [m |-> trade, hM |-> spendH] ELSE [m |-> m, hM |-> hM]
MStampsAhead(m, hM, trade, spendH) ==
  IF Expired(hM, spendH) \/ trade > m THEN [m |-> trade, hM |-> spendH + 1] ELSE [m |-> m, hM |-> hM]

NextM(m, hM, trade, spendH) ==
  IF Expired(hM, spendH) \/ trade > m THEN [m |-> trade, hM |-> spendH] ELSE [m |-> m, hM |-> hM]

Remembers(c, trade, spendH) ==
  LET n == NextM(c.m, c.hM, trade, spendH) IN [c EXCEPT !.m = n.m, !.hM = n.hM]

PoolBuyTx(u, d, gross) ==
  {[op |-> "P", by |-> u, on |-> d.coin.at, uses |-> {}, gives |-> {<<u, q.tokensOut>>}, burn |-> q.fee,
    amount |-> gross, out |-> q.tokensOut, moved |-> gross - q.fee,
    next |-> [d.coin EXCEPT !.gbx = q.gbx, !.tokens = q.tokens]] : q \in QuotePoolBuy(d.coin.gbx, d.coin.tokens, gross)}
BuyTx(u, d, h, gross) ==
  {[op |-> "B", by |-> u, on |-> d.coin.at, uses |-> {}, gives |-> {<<u, q.tokens>>}, burn |-> q.fee,
    amount |-> gross, out |-> q.tokens, moved |-> q.net,
    next |-> Remembers([d.coin EXCEPT !.gbx = q.reserve], q.net, h + 1)] : q \in QuoteBuy(d.coin.gbx, gross)}

(* A sale gives back what is left of the holding it spends.                *)
Rest(u, holding, n) == IF holding.amount > n THEN {<<u, holding.amount - n>>} ELSE {}
PoolSellTx(u, d, holding, n) ==
  {[op |-> "Q", by |-> u, on |-> d.coin.at, uses |-> {holding}, gives |-> Rest(u, holding, n), burn |-> q.fee,
    amount |-> n, out |-> holding.amount - n, moved |-> q.net + q.fee,
    next |-> [d.coin EXCEPT !.gbx = q.gbx, !.tokens = q.tokens]] :
     q \in {r \in QuotePoolSell(d.coin.gbx, d.coin.tokens, n) : n <= holding.amount}}
SellTx(u, d, h, holding, n) ==
  {[op |-> "S", by |-> u, on |-> d.coin.at, uses |-> {holding}, gives |-> Rest(u, holding, n), burn |-> q.fee,
    amount |-> n, out |-> holding.amount - n, moved |-> q.gross,
    next |-> Remembers([d.coin EXCEPT !.gbx = q.reserve], q.gross, h + 1)] :
     q \in {r \in QuoteSell(d.coin.gbx, n) : n <= holding.amount}}

(* The page takes the pool's once the coin has one.                        *)
Bought(u, d, h, gross) == IF d.coin.phase = "graduated" THEN PoolBuyTx(u, d, gross) ELSE BuyTx(u, d, h, gross)
Sold(u, d, h, holding, n) == IF d.coin.phase = "graduated" THEN PoolSellTx(u, d, holding, n) ELSE SellTx(u, d, h, holding, n)

(* The last one out takes the curve along: a reserve of dust is burned.    *)
RefundTx(u, d, holding) ==
  LET c == d.coin
      share == RefundShare(c.gbx, holding.amount)
      left == c.gbx - share
      closes == left <= Dust IN
  IF c.phase # "live" \/ CurveTokensSold(c.gbx) <= 0 \/ holding.amount > CurveTokensSold(c.gbx) THEN {}
  ELSE {[op |-> "R", by |-> u, on |-> c.at, uses |-> {holding}, gives |-> {}, burn |-> IF closes THEN left ELSE 0,
         amount |-> holding.amount, out |-> 0, moved |-> share,
         next |-> IF closes THEN [c EXCEPT !.phase = "closed", !.gbx = 0] ELSE [c EXCEPT !.gbx = left]]}

GraduateTx(u, d) ==
  {[op |-> "G", by |-> u, on |-> d.coin.at, uses |-> {}, gives |-> {}, burn |-> 0, amount |-> d.coin.gbx, out |-> 0,
    moved |-> 0, next |-> [d.coin EXCEPT !.phase = "graduated", !.tokens = PoolTokens(d.coin.gbx)]]}

(* buildTokenSendTx: the largest holdings first, until they cover it.      *)
Sum(holdings) == MapThenSumSet(LAMBDA h : h.amount, holdings)
Covering(d, u, n) ==
  LET mine == {h \in d.hold : h.who = u} IN
  IF Sum(mine) < n THEN {} ELSE {h \in mine : Sum({g \in mine : Before(g, h)}) < n}
SendTx(u, d, v, n) ==
  LET used == Covering(d, u, n)
      rest == Sum(used) - n IN
  IF used = {} THEN {}
  ELSE {[op |-> "T", by |-> u, on |-> 0, uses |-> used, gives |-> {<<v, n>>} \union (IF rest > 0 THEN {<<u, rest>>} ELSE {}),
         burn |-> 0, amount |-> n, out |-> 0, moved |-> 0, next |-> None]}
-----------------------------------------------------------------------------
(* The node.  The memory a trade leaves must be the one its own arithmetic *)
(* gives at the height of the block, with a stamp that is not in the       *)
(* future and not older than MaxAge.  When a refund is allowed is the      *)
(* node's business.                                                        *)
MemoryAsOwn(t, h) ==
  LET n == NextMarketMemory(coin.m, coin.hM, t.moved, h, t.next.hM) IN
  /\ t.next.m = n.m /\ t.next.hM = n.hM
  /\ n.updated => t.next.hM <= h /\ h - t.next.hM <= MaxAge

Spendable(t) == t.uses \subseteq hold /\ (t.op # "T" => t.on = coin.at /\ coin.phase # "closed")
Allowed(t, h) ==
  CASE t.op \in {"B", "S"} -> coin.phase = "live" /\ MemoryAsOwn(t, h)
    [] t.op = "G" -> coin.phase = "live" /\ CanGraduate(coin.gbx, coin.m, coin.hM, h)
    [] t.op = "R" -> coin.phase = "live"
    [] OTHER -> TRUE

Rivals(t) == {w \in wait : w.uses \cap t.uses # {} \/ (w.op # "T" /\ t.op # "T" /\ w.on = t.on)}

(* Why a transaction is refused: its maker had spent the same output       *)
(* before, as the page knew when it built this, or not; another has it;    *)
(* the curve's memory, for which it was too late, or wrong; another rule.  *)
Reason(t) ==
  LET twice == t.by = Me /\ t.op # "T" /\
               (\/ \E w \in Rivals(t) : w.by = Me /\ w.on = t.on
                \/ \E i \in DOMAIN log : log[i].by = Me /\ log[i].on = t.on)
      late == tip + 1 - t.h > MaxAge \/ Expired(coin.hM, tip + 1) # Expired(coin.hM, t.h) IN
  IF twice THEN (IF t.on \in t.knew THEN "twice" ELSE "meanwhile")
  ELSE IF Rivals(t) # {} \/ ~Spendable(t) THEN "taken"
  ELSE IF t.op \notin {"B", "S"} THEN "rule"
  ELSE IF late THEN "late" ELSE "memory"

Accept(t) == Rivals(t) = {} /\ Spendable(t) /\ Allowed(t, tip + 1)

Mine(t) ==
  /\ tip < MaxTip /\ t \in wait /\ Spendable(t) /\ Allowed(t, tip + 1)
  /\ tip' = tip + 1 /\ wait' = wait \ {t}
  /\ coin' = IF t.op = "T" THEN coin ELSE [t.next EXCEPT !.at = t.id]
  /\ hold' = (hold \ t.uses) \union {[id |-> t.id, who |-> g[1], amount |-> g[2]] : g \in t.gives}
  /\ log' = Append(log, [op |-> t.op, by |-> t.by, h |-> tip + 1, on |-> t.on, at |-> t.id, amount |-> t.amount,
                         out |-> t.out, burn |-> t.burn, moved |-> t.moved, phase |-> coin'.phase,
                         gbx |-> coin'.gbx, tokens |-> coin'.tokens])
  /\ UNCHANGED <<ix, pageVars, presses, sends, lost, refused>>
Block ==
  /\ tip < MaxTip /\ tip' = tip + 1
  /\ UNCHANGED <<coin, hold, log, wait, ix, pageVars, presses, sends, lost, refused>>
(* A transaction that its block would make invalid leaves the mempool.     *)
Evict(t) ==
  /\ t \in wait /\ ~(Spendable(t) /\ Allowed(t, tip + 1))
  /\ wait' = wait \ {t} /\ refused' = refused \union {[op |-> t.op, why |-> Reason(t)]}
  /\ UNCHANGED <<chainVars, ix, pageVars, presses, sends, lost>>
Scan ==
  /\ ix # Chain /\ ix' = Chain
  /\ UNCHANGED <<chainVars, wait, pageVars, presses, sends, lost, refused>>
-----------------------------------------------------------------------------
(* Mutant: the page does not wait for the index. *)
NeverBusy(f) == FALSE

(* The output this press would spend is one the page has already spent.    *)
Busy(f) == flight[f].op \in Trades /\ ix.coin.at \in spent

Press(f, op, n) ==
  /\ flight[f] = Idle /\ presses < MaxPresses /\ sends < MaxSends
  /\ op \in Trades => ~locked
  /\ op = "refund" => held # None
  /\ op = "graduate" => D.coin.phase = "live" /\ D.coin.gbx >= Bar(D)
  /\ flight' = [flight EXCEPT ![f] = [op |-> op, n |-> n, h |-> tip + 1, stage |-> "load", tries |-> 0, knew |-> {}]]
  /\ locked' = (locked \/ op \in Trades)
  /\ presses' = presses + 1
  /\ UNCHANGED <<chainVars, wait, ix, D, held, spent, due, sends, lost, refused>>

(* cleanup(): the press is over, and the button works again.               *)
Ends(f) ==
  /\ flight' = [flight EXCEPT ![f] = Idle]
  /\ locked' = (locked /\ flight[f].op \notin Trades)

(* Mutant: a busy page loads once more, however often it has.              *)
WaitsForever(f) ==
  /\ flight[f] # Idle /\ flight[f].stage = "load"
  /\ D' = ix /\ UNCHANGED locked
  /\ flight' = IF Busy(f) THEN flight ELSE [flight EXCEPT ![f].stage = "build"]
  /\ UNCHANGED <<chainVars, wait, ix, held, spent, due, presses, sends, lost, refused>>

Patient(f) == flight[f].tries < Tries

Load(f) ==
  /\ flight[f] # Idle /\ flight[f].stage = "load"
  /\ D' = ix
  /\ CASE Busy(f) /\ Patient(f) -> flight' = [flight EXCEPT ![f].tries = @ + 1] /\ UNCHANGED locked
       [] Busy(f) /\ ~Patient(f) -> Ends(f)
       [] OTHER -> flight' = [flight EXCEPT ![f].stage = "build", ![f].knew = spent] /\ UNCHANGED locked
  /\ UNCHANGED <<chainVars, wait, ix, held, spent, due, presses, sends, lost, refused>>

Named(txs, h, knew) ==
  {[op |-> t.op, by |-> t.by, on |-> t.on, uses |-> t.uses, gives |-> t.gives, burn |-> t.burn, amount |-> t.amount,
    out |-> t.out, moved |-> t.moved, next |-> t.next, h |-> h, id |-> sends + 1, knew |-> knew] : t \in txs}

(* What a press builds, from the page's copy as it is by now.              *)
Built(f) ==
  LET p == flight[f]
      own == Largest(D, Me) IN
  Named(CASE p.op = "buy" -> Bought(Me, D, p.h - 1, p.n)
          [] p.op = "sell" -> IF own = None THEN {} ELSE Sold(Me, D, p.h - 1, own, IF p.n = 0 THEN own.amount ELSE p.n)
          [] p.op = "refund" -> IF held = None THEN {} ELSE RefundTx(Me, D, held)
          [] p.op = "graduate" -> GraduateTx(Me, D), p.h, p.knew)

Submit(f) ==
  /\ flight[f] # Idle /\ flight[f].stage = "build"
  /\ held' = IF flight[f].op = "sell" THEN Largest(D, Me) ELSE held
  /\ \E t \in Built(f) :
       \/ /\ Accept(t)
          /\ wait' = wait \union {t} /\ sends' = sends + 1
          /\ spent' = spent \union {t.on} /\ due' = 2
          /\ flight' = [flight EXCEPT ![f] = Idle]
          /\ UNCHANGED <<locked, lost, refused>>
       \/ /\ Accept(t) /\ lost < MaxLost   \* accepted, and the page hears of an error
          /\ wait' = wait \union {t} /\ sends' = sends + 1 /\ lost' = lost + 1
          /\ Ends(f)
          /\ UNCHANGED <<spent, due, refused>>
       \/ /\ Accept(t) => t.op = "R"
          /\ refused' = refused \union {[op |-> t.op, why |-> Reason(t)]}
          /\ Ends(f)
          /\ UNCHANGED <<wait, sends, spent, due, lost>>
  /\ UNCHANGED <<chainVars, ix, D, presses>>
(* Nothing can be built, or a request on the way fails.                    *)
Fail(f) ==
  /\ flight[f] # Idle /\ flight[f].stage = "build" /\ Ends(f)
  /\ \/ Built(f) = {} /\ UNCHANGED lost
     \/ lost < MaxLost /\ lost' = lost + 1
  /\ UNCHANGED <<chainVars, wait, ix, D, held, spent, due, presses, sends, refused>>

(* refreshAll, 4 and 12 seconds after a trade was sent.                    *)
Refresh ==
  /\ due > 0 /\ due' = due - 1 /\ locked' = FALSE
  /\ D' = ix /\ held' = Largest(ix, Me)
  /\ UNCHANGED <<chainVars, wait, ix, flight, spent, presses, sends, lost, refused>>

(* Others trade, refund and graduate too, from the same index; and anyone  *)
(* sends tokens from the wallet's page.                                    *)
Elsewhere ==
  /\ sends < MaxSends
  /\ \E u \in Others :
       LET own == Largest(ix, u) IN
       \E t \in Named((UNION {Bought(u, ix, tip, n) : n \in Gross}) \union GraduateTx(u, ix)
                       \union SendTx(u, ix, Me, 1) \union SendTx(Me, ix, u, 1)
                       \union IF own = None THEN {} ELSE Sold(u, ix, tip, own, own.amount) \union RefundTx(u, ix, own),
                     tip + 1, {}) :
         Accept(t) /\ wait' = wait \union {t}
  /\ sends' = sends + 1
  /\ UNCHANGED <<chainVars, ix, pageVars, presses, lost, refused>>

Next ==
  \/ \E f \in Flights :
       \/ \E n \in Gross : Press(f, "buy", n)
       \/ \E n \in {0, 1} : Press(f, "sell", n)
       \/ \E op \in {"refund", "graduate"} : Press(f, op, 0)
       \/ Load(f) \/ Submit(f) \/ Fail(f)
  \/ \E t \in wait : Mine(t) \/ Evict(t)
  \/ Block \/ Scan \/ Refresh \/ Elsewhere

-----------------------------------------------------------------------------
TypeOK ==
  /\ tip \in 1 .. MaxTip /\ Len(log) <= tip /\ sends \in Nat
  /\ coin.phase \in {"live", "graduated", "closed"} /\ coin.gbx \in Nat /\ coin.tokens \in Nat
  /\ \A h \in hold : h.who \in Others \union {Me} /\ h.amount \in Nat \ {0}
  /\ \A t, w \in wait : t # w => t.uses \cap w.uses = {}
  /\ \A f \in Flights : flight[f] = Idle \/ (flight[f].tries <= Tries /\ flight[f].stage \in {"load", "build"})

(* The curve has sold at least what holders have, and a pool keeps what    *)
(* nobody holds: no token is without its market (curveTokensSold,          *)
(* curveBuy, the pro-rata refund, pool_tokens of GRADUATE).                *)
Backed ==
  /\ coin.phase = "live" => Sum(hold) <= CurveTokensSold(coin.gbx)
  /\ coin.phase = "graduated" => Sum(hold) + coin.tokens <= CurveTokens + LpTokens

(* No token without its market (gbx-curve.mjs, gbx-launchpad-flow.mjs).    *)
TokensBacked == TypeOK /\ Backed

(* The node never refuses a trade for the memory the page declared, unless *)
(* blocks went by since it looked: nextM and the node agree; and a trade   *)
(* never spends an output that the page knew it had spent (the wait of     *)
(* coin-x.html:819-834).                                                   *)
RefusedForAReason ==
  \A r \in refused : r.why # "memory" /\ (r.op \in {"B", "S", "P", "Q"} => r.why # "twice")

(* The index's bar is the node's rule: a page that offers graduation is    *)
(* not refused by it in the next block, and one that could graduate and is *)
(* not offered is sold out (a full curve is not in the bar), or its record *)
(* trade is forgotten with the next block.                                 *)
CardIsHonest ==
  LET c == ix.coin
      allowed == CanGraduate(c.gbx, c.m, c.hM, ix.tip + 1) IN
  c.phase = "live" =>
    /\ c.gbx >= Bar(ix) => allowed
    /\ allowed /\ c.gbx < Bar(ix) => CurveTokensSold(c.gbx) >= CurveTokens \/ Expired(c.hM, ix.tip + 1)

(* The page, the index and the node apply one rule to a trade and to a     *)
(* graduation (nextM, curveView, coin-x.html).                             *)
PageAndNodeAgree == RefusedForAReason /\ CardIsHonest

Fairness ==
  /\ \A f \in Flights : WF_vars(Load(f)) /\ WF_vars(Submit(f) \/ Fail(f))
  /\ WF_vars(Refresh)
Spec == Init /\ [][Next]_vars /\ Fairness

(* Every press comes to an end, however long its transaction waits for a   *)
(* block, and the trade button works again (the 14 loads, cleanup, the     *)
(* refreshes).                                                             *)
PressEnds ==
  /\ \A f \in Flights : flight[f] # Idle ~> flight[f] = Idle
  /\ locked ~> ~locked
=============================================================================
