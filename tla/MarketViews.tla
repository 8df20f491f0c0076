---------------------------- MODULE MarketViews ----------------------------
(***************************************************************************)
(* What the read API says of a coin's market, read-api/gbx-token-read.js:  *)
(* pure functions of one state x of the index.  The index has a row of the *)
(* curve for each of its operations (none for the pool's), a row of the    *)
(* pool for each of its own and for the graduation that fills it.          *)
(* Prices of a curve are cur^2 (over k, which is constant), those of a     *)
(* pool gbx/tokens in units of 1/PriceUnit.                                *)
(***************************************************************************)
EXTENDS Launchpad

CONSTANTS
  Widths,      \* of a candle, in blocks
  Window       \* blocks24: the blocks of a day

PriceUnit == 2520
Ratio(n, d) == (n * PriceUnit) \div d
Dist(m, n) == IF m < n THEN n - m ELSE m - n
Rows(x, ops) == SelectSeq(x.log, LAMBDA r : r.op \in ops)
Total(F(_), s) == FoldLeft(LAMBDA sum, r : sum + F(r), 0, s)

(* curve_log and pool_log.  A graduation leaves the curve without reserve. *)
CurveLog(x) == [i \in DOMAIN Rows(x, {"C", "B", "S", "R", "G"}) |->
                  LET r == Rows(x, {"C", "B", "S", "R", "G"})[i] IN
                  [h |-> r.h, phase |-> r.phase, gbx |-> IF r.op = "G" THEN 0 ELSE r.gbx]]
PoolLog(x) == Rows(x, {"G", "P", "Q"})

(* Mutant: the rows that end the curve are points too. *)
CurvePointsAll(x) ==
  LET rows == CurveLog(x) IN
  [i \in DOMAIN rows |-> [h |-> rows[i].h, p |-> (VGbx + rows[i].gbx) * (VGbx + rows[i].gbx), s |-> "c", live |-> TRUE,
                         v |-> IF i = 1 THEN 0 ELSE Dist(rows[i].gbx, rows[i - 1].gbx)]]

(* coinCandlesPro: a point per row, with what the reserve moved by since   *)
(* the row before.  Rows that end the curve are left out.                  *)
CurvePoints(x) ==
  LET rows == CurveLog(x)
      moved(i) == IF i = 1 \/ rows[i - 1].phase # "live" THEN 0 ELSE Dist(rows[i].gbx, rows[i - 1].gbx)
      point(i) == [h |-> rows[i].h, p |-> (VGbx + rows[i].gbx) * (VGbx + rows[i].gbx), v |-> moved(i),
                   s |-> "c", live |-> rows[i].phase = "live"] IN
  SelectSeq([i \in DOMAIN rows |-> point(i)], LAMBDA q : q.live)
PoolPoints(x) ==
  LET rows == PoolLog(x) IN
  [i \in DOMAIN rows |-> [h |-> rows[i].h, p |-> Ratio(rows[i].gbx, rows[i].tokens), s |-> "p", live |-> TRUE,
                         v |-> IF i = 1 THEN 0 ELSE Dist(rows[i].gbx, rows[i - 1].gbx)]]

(* Points become candles in order; a candle opens where the one before it  *)
(* in the same phase closed.                                               *)
Widen(c, q) == [c EXCEPT !.high = IF q.p > @ THEN q.p ELSE @, !.low = IF q.p < @ THEN q.p ELSE @,
                         !.close = q.p, !.v = @ + q.v]
Candles(points, width) ==
  FoldLeft(LAMBDA out, q :
             LET t == (q.h \div width) * width
                 same == out # <<>> /\ out[Len(out)].s = q.s
                 open == IF same THEN out[Len(out)].close ELSE q.p IN
             IF same /\ out[Len(out)].t = t THEN [out EXCEPT ![Len(out)] = Widen(@, q)]
             ELSE Append(out, Widen([t |-> t, s |-> q.s, open |-> open, high |-> q.p, low |-> q.p, close |-> q.p, v |-> 0], q)),
           <<>>, points)
CandlesPro(x, width, phaseOnly) ==
  Candles(SelectSeq(CurvePoints(x) \o PoolPoints(x), LAMBDA q : phaseOnly \in {"any", q.s}), width)
CoinCandles(x, width) ==
  LET bare(c) == [f \in DOMAIN c \ {"v"} |-> c[f]]
      out == Candles(CurvePoints(x) \o PoolPoints(x), width) IN
  [i \in DOMAIN out |-> bare(out[i])]

(* The reserves as they were at a height: the last row not above it.       *)
AsOf(rows, h) == SelectSeq(rows, LAMBDA r : r.h <= h)
(* curvesAll: the price now and a day back, if the coin was there.         *)
PriceOf(gbx) == Ratio(VGbx + gbx, K \div (VGbx + gbx))
Change(x) ==
  LET back == IF x.tip > Window THEN x.tip - Window ELSE 0
      rows == IF x.coin.phase = "graduated" THEN PoolLog(x) ELSE CurveLog(x)
      price(r) == IF x.coin.phase = "graduated" THEN Ratio(r.gbx, r.tokens) ELSE PriceOf(r.gbx)
      then == AsOf(rows, back) IN
  IF then = <<>> THEN {} ELSE {<<price(then[Len(then)]), price(rows[Len(rows)])>>}

(* Mutant: the first row of the window counts with all its reserve. *)
VolumeFromNothing(rows, since) ==
  LET w == SelectSeq(rows, LAMBDA r : r.h > since) IN
  MapThenSumSet(LAMBDA i : Dist(w[i].gbx, IF i = 1 THEN 0 ELSE w[i - 1].gbx), DOMAIN w)

(* stats24: the reserves of every market, and what they moved by, row      *)
(* after row among the rows of the window only.                            *)
WindowVolume(rows, since) ==
  LET w == SelectSeq(rows, LAMBDA r : r.h > since) IN
  MapThenSumSet(LAMBDA i : IF w[i].phase = "live" \/ w[i].op \in {"P", "Q"} THEN Dist(w[i].gbx, w[i - 1].gbx) ELSE 0,
                2 .. Len(w))
Stats24(x) ==
  LET since == x.tip - Window
      curve == [i \in DOMAIN CurveLog(x) |-> CurveLog(x)[i] @@ [op |-> "C"]] IN
  [tvl |-> IF x.coin.phase = "closed" THEN 0 ELSE x.coin.gbx,
   vol |-> WindowVolume(curve, since) + WindowVolume(PoolLog(x), since)]

(* Mutant: a pool row of the window counts only against another of it. *)
StatsOfTheWindow(x) ==
  [phase |-> IF PoolLog(x) = <<>> THEN "curve" ELSE "pool",
   price |-> IF PoolLog(x) = <<>> THEN PriceOf(x.coin.gbx) ELSE Ratio(PoolLog(x)[1].gbx, PoolLog(x)[1].tokens),
   vol24 |-> WindowVolume(PoolLog(x), x.tip - Window), txns |-> 0, traders |-> 0]

(* coinStats: the pool's price, and what it moved by in the window, each   *)
(* row against the row before it, inside the window or not.                *)
CoinStats(x) ==
  LET rows == PoolLog(x)
      since == x.tip - Window
      trades == {i \in DOMAIN x.log : x.log[i].h >= since /\ x.log[i].op # "T"} IN
  [phase |-> IF rows = <<>> THEN "curve" ELSE "pool",
   price |-> IF rows # <<>> THEN Ratio(rows[Len(rows)].gbx, rows[Len(rows)].tokens) ELSE PriceOf(x.coin.gbx),
   vol24 |-> MapThenSumSet(LAMBDA i : Dist(rows[i].gbx, rows[i - 1].gbx), {i \in 2 .. Len(rows) : rows[i].h > since}),
   txns |-> Cardinality(trades), traders |-> Cardinality({x.log[i].by : i \in trades})]

(* Mutant: only trades burn. *)
OpsOfTrades(x, since) == SelectSeq(x.log, LAMBDA r : r.h > since /\ r.op \in {"B", "S", "P", "Q"})

(* leaderboard: what each key burned, and how often it traded.             *)
Ops(x, since) == SelectSeq(x.log, LAMBDA r : r.h > since /\ r.op # "T")
Burners(x, since) ==
  [u \in {r.by : r \in {q \in ToSet(Ops(x, since)) : q.burn > 0}} |->
     Total(LAMBDA r : IF r.by = u THEN r.burn ELSE 0, Ops(x, since))]
Traders(x, since) ==
  LET trades == SelectSeq(Ops(x, since), LAMBDA r : r.op \in {"B", "S", "P", "Q"}) IN
  [u \in {r.by : r \in ToSet(trades)} |->
     [trades |-> Len(SelectSeq(trades, LAMBDA r : r.by = u)),
      gbx |-> Total(LAMBDA r : IF r.by = u /\ r.op \in {"B", "P"} THEN r.amount ELSE 0, trades)]]
BurnsAll(x) == LET burns == SelectSeq(x.log, LAMBDA r : r.burn > 0) IN
               [ops |-> Len(burns), total |-> Total(LAMBDA r : r.burn, burns)]
CoinTrades(x) == Reverse(SelectSeq(x.log, LAMBDA r : r.op # "T"))
-----------------------------------------------------------------------------
Moving == {"B", "S", "R", "P", "Q"}
Closing(x) == IF x.coin.phase = "closed" THEN {x.log[Len(x.log)].at} ELSE {}

(* The candles of a coin account for every trade and nothing else: their   *)
(* volumes add up to what traders moved, the closing refund apart; one     *)
(* follows on the other, each has its own time, and none loses the trades  *)
(* of its blocks.                                                          *)
CandlesTellTheTrades ==
  \A w \in Widths :
    LET c == CandlesPro(ix, w, "any")
        done == SelectSeq(ix.log, LAMBDA r : r.op \in Moving /\ r.at \notin Closing(ix)) IN
    /\ Total(LAMBDA k : k.v, c) = Total(LAMBDA r : r.moved, done)
    /\ \A i, j \in DOMAIN c : i # j => <<c[i].t, c[i].s>> # <<c[j].t, c[j].s>>
    /\ \A i \in 2 .. Len(c) : c[i].t >= c[i - 1].t /\ (c[i].s = c[i - 1].s => c[i].open = c[i - 1].close)
    /\ CandlesPro(ix, w, "c") \o CandlesPro(ix, w, "p") = c

(* Two pages that look at one index see one market: the last candle closes *)
(* at the pool's price, and the day's change goes the way the candles go;  *)
(* its volume is that of the pool trades of the day.                       *)
ViewsAgree ==
  LET c == CandlesPro(ix, 1, "p")
      s == CoinStats(ix)
      last(k) == k[Len(k)].close
      cc == SelectSeq(CoinCandles(ix, 1), LAMBDA k : k.s = IF ix.coin.phase = "graduated" THEN "p" ELSE "c")
      before == SelectSeq(cc, LAMBDA k : k.t <= ix.tip - Window) IN
  /\ ix.coin.phase = "graduated" => s.phase = "pool" /\ s.price = last(c)
  /\ ix.coin.phase # "closed" =>
       \A d \in Change(ix) : before # <<>> /\ (d[1] < d[2] <=> last(before) < last(cc))
  /\ s.vol24 = Total(LAMBDA r : r.moved, SelectSeq(ix.log, LAMBDA r : r.op \in {"P", "Q"} /\ r.h > ix.tip - Window))

(* The day's volume of the dashboard is never more than what was traded,   *)
(* and less by the first trade of each market that has one before the      *)
(* window: its row has no row before it to be compared with.               *)
DayVolumeFallsShort ==
  LET day == SelectSeq(ix.log, LAMBDA r : r.op \in Moving /\ r.h > ix.tip - Window /\ r.at \notin Closing(ix))
      first(ops) == LET w == SelectSeq(day, LAMBDA r : r.op \in ops) IN
                    IF w = <<>> \/ (\E i \in DOMAIN ix.log : /\ ix.log[i].h > ix.tip - Window
                                                             /\ ix.log[i].op = IF ops = {"P", "Q"} THEN "G" ELSE "C")
                    THEN 0 ELSE w[1].moved IN
  Stats24(ix).vol = Total(LAMBDA r : r.moved, day) - first({"B", "S", "R"}) - first({"P", "Q"})

(* What the burners of all time are credited with is what was burned, the  *)
(* fee of the birth and the dust of the last refund included; and no one   *)
(* is credited with a trade that was none.                                 *)
BurnsAddUp ==
  LET b == Burners(ix, -1)
      t == Traders(ix, -1) IN
  /\ MapThenSumSet(LAMBDA u : b[u], DOMAIN b) = BurnsAll(ix).total
  /\ MapThenSumSet(LAMBDA u : t[u].trades, DOMAIN t) =
       Len(CoinTrades(ix)) - Len(SelectSeq(ix.log, LAMBDA r : r.op \in {"C", "R", "G"}))
=============================================================================
