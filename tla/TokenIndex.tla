----------------------------- MODULE TokenIndex ------------------------------
(***************************************************************************)
(* The token indexer, token-index/scanner.js: it polls a node, applies     *)
(* block after block to an SQLite database in one transaction each, and    *)
(* rolls the database back when the node's chain leaves the one it read.   *)
(* What its readers see between any two steps is the database `db'.        *)
(* Left out: the description table (as coin_meta without the ticker), the  *)
(* burn total, the launchpad height (START says as much), and              *)
(* bootstrapPools, which serves databases older than the pool tables.      *)
(***************************************************************************)
EXTENDS TokenChain

CONSTANTS
  Start,        \* START: the first height indexed
  Keep,         \* KEEP: how many block hashes are kept
  LogoTotal,    \* chunks of a complete logo
  MaxSwitches,  \* bound: reorganisations
  MaxShrinks,   \* bound: falls of the node's tip
  MaxCrashes    \* bound: restarts of the indexer

VARIABLES
  db,        \* the database
  pc,        \* where syncOnce is
  nodeTip,   \* its `tip'
  blk,       \* the block it holds, named by the chain up to it
  search,    \* findCommonAncestor: the height it is at and the last it tries
  orphans,   \* history: coins whose birth was taken back, each with its creator
  switches, shrinks, crashes

tokenVars == <<chain, db, pc, nodeTip, blk, search, orphans, switches, shrinks, crashes>>

NoSearch == [at |-> 0, low |-> 0]
-----------------------------------------------------------------------------
(* The statements of one transaction of a block, in the order of the code. *)
(* l is the ledger of the block read: what outputs and witnesses show.     *)

(* UPDATE ... SET spent_height=h WHERE the outpoint AND spent_height IS    *)
(* NULL, in the three tables of outputs; an HTLC also keeps the preimage.  *)
Spent(row, t, h) == row.out \in Tx[t].spends /\ row.spent = 0
Spend(d, t, h) ==
  [d EXCEPT
    !.utxos = {IF Spent(r, t, h) THEN [r EXCEPT !.spent = h] ELSE r : r \in @},
    !.htlcs = {IF Spent(r, t, h) THEN [r EXCEPT !.spent = h, !.key = Tx[t].reveals] ELSE r : r \in @},
    !.offers = {IF Spent(r, t, h) THEN [r EXCEPT !.spent = h] ELSE r : r \in @}]

(* Mutant: INSERT without ON CONFLICT. *)
PutSecondCurve(curves, row) == curves \cup {row}

(* INSERT ... ON CONFLICT(coin_id) DO UPDATE: creator_pk stays.            *)
PutCurve(curves, row) ==
  LET old == {r \in curves : r.coin = row.coin} IN
  (curves \ old) \cup
    {[row EXCEPT !.pk = IF old = {} THEN Nil ELSE (CHOOSE r \in old : TRUE).pk]}
PutPool(pools, row) == {r \in pools : r.coin # row.coin} \cup {row}

LogCurve(d, row) ==
  [d EXCEPT !.curves = PutCurve(@, row), !.curveLog = Append(@, row)]
LogPool(d, row) == [d EXCEPT !.pools = PutPool(@, row), !.poolLog = Append(@, row)]

Gone(t, h, m, hM, status) ==
  [coin |-> Tx[t].coin, pk |-> Nil, out |-> Nil, reserve |-> 0,
   m |-> m, hM |-> hM, height |-> h, status |-> status]

(* curveApply: the output is recognised by the M and stamp computed for it.*)
CurveApply(d, t, h, m, hM, after) ==
  LogCurve(d,
    IF after.phase = "live" /\ after.m = m /\ after.hM = hM
    THEN [Gone(t, h, m, hM, "live") EXCEPT !.out = after.out, !.reserve = after.reserve]
    ELSE Gone(t, h, m, hM, "closed"))

(* A SELL's size is recomputed from the row of the curve output it spends. *)
TradeOf(d, t) ==
  LET prev == {r \in d.curves : r.out \in Tx[t].spends} IN
  CASE Tx[t].op = "B" -> Tx[t].amount
    [] Tx[t].op = "S" /\ prev # {} -> Smaller(Tx[t].amount, (CHOOSE r \in prev : TRUE).reserve)
    [] OTHER -> 0

IsExpired(hM, h) == hM # 0 /\ h - hM > GradWindow
CurveTrade(d, t, h, l) ==
  LET st == l.before[t]
      trade == TradeOf(d, t)
      fresh == trade > 0 /\ (IsExpired(st.hM, h) \/ trade > st.m) IN
  CurveApply(d, t, h, IF fresh THEN trade ELSE st.m, IF fresh THEN h ELSE st.hM, l.after[t])

CurveOp(d, t, h, l) ==
  CASE Tx[t].op = "C" ->
         LET row == [Gone(t, h, l.after[t].m, l.after[t].hM, "live")
                       EXCEPT !.out = l.after[t].out, !.reserve = l.after[t].reserve]
             born == LogCurve(d, row) IN
         [born EXCEPT !.curves = {IF r.coin = row.coin THEN [r EXCEPT !.pk = Tx[t].pk] ELSE r : r \in @}]
    [] Tx[t].op \in {"B", "S", "R"} -> CurveTrade(d, t, h, l)
    [] Tx[t].op = "G" ->
         LogPool(LogCurve(d, Gone(t, h, l.before[t].m, l.before[t].hM, "graduated")),
                 [coin |-> Tx[t].coin, out |-> l.after[t].out, gbx |-> l.after[t].gbx, height |-> h])
    [] OTHER -> d

(* applyPoolOp: the GBX side comes from the row of the pool output spent;  *)
(* the new output is found by what is computed from it.                    *)
PoolOp(d, t, h, l) ==
  LET prev == {r \in d.pools : r.out \in Tx[t].spends}
      gbx == (CHOOSE r \in prev : TRUE).gbx
             + IF Tx[t].op = "P" THEN Tx[t].amount ELSE -Tx[t].amount IN
  IF Tx[t].op \in {"P", "Q"} /\ prev # {} /\ gbx = l.after[t].gbx
  THEN LogPool(d, [coin |-> Tx[t].coin, out |-> l.after[t].out, gbx |-> gbx, height |-> h])
  ELSE d

(* A declaration about a coin counts if the key of its curves row signed.  *)
ByCreator(d, t) == \E r \in d.curves : r.coin = Tx[t].coin /\ r.pk # Nil /\ r.pk = Tx[t].pk

(* Mutant: two coins may share a ticker. *)
MetaSharingTickers(d, t, h) ==
  IF Tx[t].ticker # Nil /\ ByCreator(d, t) /\ \A r \in d.metas : r.coin # Tx[t].coin
  THEN [d EXCEPT !.metas = @ \cup {[coin |-> Tx[t].coin, ticker |-> Tx[t].ticker, height |-> h]}]
  ELSE d

Meta(d, t, h) ==
  IF /\ Tx[t].ticker # Nil /\ ByCreator(d, t)
     /\ \A r \in d.metas : r.coin # Tx[t].coin /\ r.ticker # Tx[t].ticker
  THEN [d EXCEPT !.metas = @ \cup {[coin |-> Tx[t].coin, ticker |-> Tx[t].ticker, height |-> h]}]
  ELSE d

(* Mutant: the last chunk is taken for the end of the set. *)
LogoOnLast(d, t, h) ==
  LET chunk == [coin |-> Tx[t].coin, idx |-> Tx[t].chunk.idx, set |-> Tx[t].chunk.set, height |-> h] IN
  IF Tx[t].chunk # Nil /\ ByCreator(d, t) /\ \A r \in d.logos : r.coin # Tx[t].coin
  THEN [d EXCEPT !.chunks = @ \cup {chunk},
                 !.logos = IF chunk.idx = LogoTotal - 1
                           THEN @ \cup {[coin |-> chunk.coin, set |-> chunk.set, height |-> h]} ELSE @]
  ELSE d

(* INSERT OR IGNORE on (coin_id, idx), then the set is whole when there    *)
(* are as many rows as it announces, all of it.                            *)
Logo(d, t, h) ==
  LET chunk == [coin |-> Tx[t].coin, idx |-> Tx[t].chunk.idx, set |-> Tx[t].chunk.set, height |-> h]
      rows == IF \E r \in d.chunks : r.coin = chunk.coin /\ r.idx = chunk.idx
              THEN d.chunks ELSE d.chunks \cup {chunk}
      mine == {r \in rows : r.coin = chunk.coin}
      whole == Cardinality(mine) = LogoTotal /\ \A r, s \in mine : r.set = s.set IN
  IF /\ Tx[t].chunk # Nil /\ ByCreator(d, t)
     /\ \A r \in d.logos : r.coin # Tx[t].coin
  THEN [d EXCEPT !.chunks = rows,
                 !.logos = IF whole THEN @ \cup {[coin |-> chunk.coin, set |-> chunk.set, height |-> h]}
                           ELSE @]
  ELSE d

(* An anchor records the lock; if its transaction also spends an offer,    *)
(* that was an execution of the offer.                                     *)
Anchor(d, t, h) ==
  IF "htlc" \notin Tx[t].outs THEN d ELSE
  [d EXCEPT
    !.htlcs = @ \cup {[out |-> <<t, "htlc">>, height |-> h, spent |-> 0, key |-> FALSE]},
    !.offers = {IF r.out \in Tx[t].spends /\ r.spent # 0 THEN [r EXCEPT !.exec = t] ELSE r : r \in @}]

Offer(d, t, h) ==
  IF "offer" \notin Tx[t].outs THEN d ELSE
  [d EXCEPT !.offers = @ \cup {[out |-> <<t, "offer">>, height |-> h, spent |-> 0, exec |-> Nil]}]

TokenRow(t, sort, pk, amount, h) ==
  [out |-> <<t, sort>>, coin |-> Tx[t].coin, pk |-> pk, amount |-> amount, height |-> h, spent |-> 0]
RowIf(found, row) == IF found THEN {row} ELSE {}
TotalOf(rows) == MapThenSumSet(LAMBDA r : r.amount, rows)

(* Mutant: tuGet filters on spent_height IS NULL. *)
TransferOfUnspent(d, t, h) ==
  LET back == TotalOf({r \in d.utxos : r.spent = 0 /\ r.out \in Tx[t].spends}) - Tx[t].tokens IN
  IF Tx[t].op # "T" THEN d ELSE
  [d EXCEPT !.utxos = @
      \cup RowIf("token" \in Tx[t].outs, TokenRow(t, "token", Tx[t].to, Tx[t].tokens, h))
      \cup RowIf(back > 0 /\ back = Tx[t].back, TokenRow(t, "change", Tx[t].pk, back, h))]

(* A declared transfer: the recipient's output, and what the sender keeps, *)
(* computed from the rows of the outputs spent.                            *)
Transfer(d, t, h) ==
  LET back == TotalOf({r \in d.utxos : r.out \in Tx[t].spends /\ r.coin = Tx[t].coin}) - Tx[t].tokens IN
  IF Tx[t].op # "T" THEN d ELSE
  [d EXCEPT !.utxos = @
      \cup RowIf("token" \in Tx[t].outs, TokenRow(t, "token", Tx[t].to, Tx[t].tokens, h))
      \cup RowIf("change" \in Tx[t].outs /\ back > 0 /\ back = Tx[t].back,
                 TokenRow(t, "change", Tx[t].pk, back, h))]

Minters == {"C", "B", "P", "S", "R", "Q"}
Mint(d, t, h) ==
  IF Tx[t].op \in Minters /\ Tx[t].tokens > 0 /\ "token" \in Tx[t].outs
  THEN [d EXCEPT !.utxos = @ \cup {TokenRow(t, "token", Tx[t].pk, Tx[t].tokens, h)}]
  ELSE d

History(d, t, h) ==
  [d EXCEPT !.ops = @ \cup IF Tx[t].op \in {"C", "B", "S", "R", "G", "P", "Q", "T"}
                           THEN {[id |-> t, height |-> h]} ELSE {}]

ApplyTx(d, t, h, l) ==
  LET d1 == History(PoolOp(CurveOp(Spend(d, t, h), t, h, l), t, h, l), t, h)
      d2 == Logo(Meta(d1, t, h), t, h) IN
  Mint(Transfer(Offer(Anchor(d2, t, h), t, h), t, h), t, h)

(* applyBlock, one database transaction: b is the block, named by its      *)
(* chain; old hashes are pruned.                                           *)
ApplyBlock(d, b) ==
  LET h == Len(b)
      l == LedgerOf[b]
      done == FoldLeft(LAMBDA e, t : ApplyTx(e, t, h, l), d, b[h]) IN
  [done EXCEPT !.blocks = [k \in {k \in DOMAIN d.blocks : k >= h - Keep} \cup {h} |->
                             IF k = h THEN b ELSE d.blocks[k]],
               !.scanned = h]
-----------------------------------------------------------------------------
(* rollbackTo(h), one database transaction.                                *)
RowsUpTo(rows, h) == {r \in rows : r.height <= h}
(* Mutant: spent_height >= h. *)
UnspendOneMore(rows, h) == {IF r.spent >= h THEN [r EXCEPT !.spent = 0] ELSE r : r \in RowsUpTo(rows, h)}
Unspend(rows, h) == {IF r.spent > h THEN [r EXCEPT !.spent = 0] ELSE r : r \in RowsUpTo(rows, h)}
LastOf(log, coin) ==
  log[CHOOSE i \in DOMAIN log : log[i].coin = coin /\ \A j \in DOMAIN log : log[j].coin = coin => j <= i]
CoinsIn(log) == {log[i].coin : i \in DOMAIN log}

(* Mutant: the current rows are left as they are. *)
RestoreNoCurve(curves, log) == curves

(* The current rows are restored from the log, coin by coin: of the coins  *)
(* the log still holds.                                                    *)
RestoreCurves(curves, log) ==
  {r \in curves : r.coin \notin CoinsIn(log)} \cup
  {CHOOSE r \in PutCurve(curves, LastOf(log, k)) : r.coin = k : k \in CoinsIn(log)}
RestorePools(pools, log) ==
  {r \in pools : r.coin \notin CoinsIn(log)} \cup {LastOf(log, k) : k \in CoinsIn(log)}

RollbackTo(d, h) ==
  LET curveLog == SelectSeq(d.curveLog, LAMBDA r : r.height <= h)
      poolLog == SelectSeq(d.poolLog, LAMBDA r : r.height <= h) IN
  [scanned |-> h,
   blocks |-> [k \in {k \in DOMAIN d.blocks : k <= h} |-> d.blocks[k]],
   utxos |-> Unspend(d.utxos, h),
   htlcs |-> {IF r.spent = 0 THEN [r EXCEPT !.key = FALSE] ELSE r : r \in Unspend(d.htlcs, h)},
   offers |-> {IF r.spent = 0 THEN [r EXCEPT !.exec = Nil] ELSE r : r \in Unspend(d.offers, h)},
   curveLog |-> curveLog,
   poolLog |-> poolLog,
   curves |-> RestoreCurves(d.curves, curveLog),
   pools |-> RestorePools(d.pools, poolLog),
   metas |-> RowsUpTo(d.metas, h), chunks |-> RowsUpTo(d.chunks, h), logos |-> RowsUpTo(d.logos, h),
   ops |-> RowsUpTo(d.ops, h)]
-----------------------------------------------------------------------------
TokenInit ==
  /\ ChainInit
  /\ db = [scanned |-> Start - 1, blocks |-> <<>>, utxos |-> {}, htlcs |-> {}, offers |-> {},
           curveLog |-> <<>>, poolLog |-> <<>>, curves |-> {}, pools |-> {},
           metas |-> {}, chunks |-> {}, logos |-> {}, ops |-> {}]
  /\ pc = "poll" /\ nodeTip = 0 /\ blk = <<>> /\ search = NoSearch
  /\ orphans = {} /\ switches = 0 /\ shrinks = 0 /\ crashes = 0

SearchFrom(h) == pc' = "search" /\ search' = [at |-> h, low |-> Max({Start, h - Keep})]
Throw == pc' = "poll" /\ nodeTip' = 0 /\ search' = NoSearch /\ UNCHANGED <<db, blk>>
NodeStays == UNCHANGED <<chain, orphans, switches, shrinks, crashes>>

(* syncOnce: the node's height; a tip below what was read starts a search. *)
Poll ==
  /\ pc = "poll"
  /\ nodeTip' = Len(chain)
  /\ IF db.scanned > nodeTip' THEN SearchFrom(nodeTip')
     ELSE pc' = "loop" /\ UNCHANGED search
  /\ UNCHANGED <<db, blk>> /\ NodeStays

(* The next block by its height; the call throws if the node has none.     *)
FetchBlock ==
  /\ pc = "loop"
  /\ \/ /\ db.scanned >= nodeTip
        /\ pc' = "poll" /\ nodeTip' = 0 /\ UNCHANGED blk
     \/ /\ db.scanned < nodeTip /\ db.scanned + 1 > Len(chain)
        /\ pc' = "poll" /\ nodeTip' = 0 /\ UNCHANGED blk
     \/ /\ db.scanned < nodeTip /\ db.scanned + 1 <= Len(chain)
        /\ pc' = "fetched" /\ blk' = SubSeq(chain, 1, db.scanned + 1) /\ UNCHANGED nodeTip
  /\ UNCHANGED <<db, search>> /\ NodeStays

(* Mutant: the block's parent is not compared. *)
NeverLeaves(b) == FALSE

(* Does the block continue what is stored?  If so it is applied.           *)
Leaves(b) ==
  LET h == Len(b) IN
  h > Start /\ h - 1 \in DOMAIN db.blocks /\ db.blocks[h - 1] # Front(b)

Apply ==
  /\ pc = "fetched"
  /\ IF Leaves(blk)
     THEN SearchFrom(Len(blk) - 1) /\ UNCHANGED db
     ELSE db' = ApplyBlock(db, blk) /\ pc' = "applied" /\ UNCHANGED search
  /\ blk' = <<>>
  /\ UNCHANGED nodeTip /\ NodeStays

Recount ==
  /\ pc = "applied"
  /\ nodeTip' = Len(chain) /\ pc' = "loop"
  /\ UNCHANGED <<db, blk, search>> /\ NodeStays

(* Mutant: off by one, the first block is kept. *)
FirstBlock(low) == Start
(* Beyond the window kept nothing is common: a full rescan.                *)
BeyondWindow(low) == Start - 1

(* The rows of curves that the log does not know.                          *)
Orphans(d) == {<<r.coin, r.pk>> : r \in {r \in d.curves : r.coin \notin CoinsIn(d.curveLog)}}
(* findCommonAncestor, one height at a time: the node is asked anew at     *)
(* each and may have moved.                                                *)
Compare ==
  /\ pc = "search"
  /\ \/ /\ search.at < search.low
        /\ db' = RollbackTo(db, BeyondWindow(search.low)) /\ pc' = "loop" /\ search' = NoSearch
        /\ UNCHANGED <<nodeTip, blk>>
     \/ /\ search.at >= search.low
        /\ IF search.at \notin DOMAIN db.blocks
           THEN search' = [search EXCEPT !.at = @ - 1] /\ UNCHANGED <<db, pc, nodeTip, blk>>
           ELSE IF search.at > Len(chain) THEN Throw
           ELSE IF db.blocks[search.at] = SubSeq(chain, 1, search.at)
           THEN /\ db' = RollbackTo(db, search.at) /\ pc' = "loop" /\ search' = NoSearch
                /\ UNCHANGED <<nodeTip, blk>>
           ELSE search' = [search EXCEPT !.at = @ - 1] /\ UNCHANGED <<db, pc, nodeTip, blk>>
  /\ orphans' = orphans \cup Orphans(db') /\ UNCHANGED <<chain, switches, shrinks, crashes>>

RestartIndexer ==
  /\ crashes < MaxCrashes /\ pc # "poll"
  /\ crashes' = crashes + 1
  /\ pc' = "poll" /\ nodeTip' = 0 /\ blk' = <<>> /\ search' = NoSearch
  /\ UNCHANGED <<chain, db, orphans, switches, shrinks>>

ChainMoves ==
  /\ \/ Extend /\ UNCHANGED <<switches, shrinks>>
     \/ switches < MaxSwitches /\ Switch /\ switches' = switches + 1 /\ UNCHANGED shrinks
     \/ shrinks < MaxShrinks /\ Shrink /\ shrinks' = shrinks + 1 /\ UNCHANGED switches
  /\ UNCHANGED <<db, pc, nodeTip, blk, search, orphans, crashes>>

Sync == Poll \/ FetchBlock \/ Apply \/ Recount \/ Compare
TokenNext == Sync \/ RestartIndexer \/ ChainMoves

(* The indexer loops for ever; the node owes nothing.  A step of Sync is   *)
(* possible in every state, so this is its weak fairness, said without the *)
(* ENABLED that TLC would spend its time on.                               *)
TokenSpec == TokenInit /\ [][TokenNext]_tokenVars /\ []<><<Sync>>_tokenVars
-----------------------------------------------------------------------------
(* The chain the database stands for: its last hash.                       *)
Read == IF db.scanned \in DOMAIN db.blocks THEN db.blocks[db.scanned] ELSE <<>>
Indexed == {x \in ToSet(Mined(Read)) : x.h >= Start}

(* What is known of an output when the transactions of es are: the height  *)
(* of its spending, and by which.                                          *)
SpendingIn(es, out) ==
  LET at == {x.h : x \in {y \in es : out \in Tx[y.id].spends}} IN
  IF at = {} THEN 0 ELSE CHOOSE h \in at : TRUE
SpenderIn(es, out) == CHOOSE t \in {x.id : x \in es} : out \in Tx[t].spends
Making(es, sort) == {x \in es : sort \in Tx[x.id].outs}

(* What consensus sees to, and the mirror of it in the scanner presumes    *)
(* (:561, :667-692): an output of tokens is the one of an operation or of  *)
(* a transfer, what a transfer hands back is what it spends of its coin    *)
(* less what it hands on, and there are no tokens before START.            *)
AmountOf(o) == IF o[2] = "token" THEN Tx[o[1]].tokens ELSE Tx[o[1]].back
TokensSpent(t) ==
  {o \in Tx[t].spends \cap Outpoints : o[2] \in {"token", "change"} /\ Tx[o[1]].coin = Tx[t].coin}
ASSUME TokensAssumption ==
  /\ Start \in Nat \ {0} /\ Keep \in Nat
  /\ \A t \in DOMAIN Tx :
       /\ Tx[t].tokens \in Nat /\ Tx[t].back \in Nat
       /\ Tx[t].reveals \in BOOLEAN /\ IsFiniteSet(Tx[t].spends)
       /\ "token" \in Tx[t].outs /\ Tx[t].op # "T" =>
            Tx[t].op \in Minters /\ Tx[t].tokens > 0 /\ Tx[t].to = Tx[t].pk
       /\ "change" \in Tx[t].outs =>
            /\ Tx[t].op = "T" /\ Tx[t].back > 0
            /\ Tx[t].back + Tx[t].tokens =
                 TotalOf({[out |-> o, amount |-> AmountOf(o)] : o \in TokensSpent(t)})
  /\ \A c \in Chains : \A h \in DOMAIN c : \A i \in DOMAIN c[h] :
       h < Start => {"token", "change"} \cap Tx[c[h][i]].outs = {}

TokenTypeOK ==
  /\ chain \in Chains
  /\ db.scanned \in Nat /\ DOMAIN db.blocks \subseteq Start .. db.scanned
  /\ pc \in {"poll", "loop", "fetched", "applied", "search"}
  /\ nodeTip \in 0 .. MaxHeight
  /\ blk \in DOMAIN LedgerOf
  /\ search.at \in 0 .. MaxHeight
  /\ \A r, s \in db.curves : r.coin = s.coin => r = s
  /\ \A r, s \in db.pools : r.coin = s.coin => r = s

(* The hashes kept (line 717 compares with the one below the next block)   *)
(* are one branch without a gap up to the last block applied: a rollback   *)
(* never leaves hashes of two branches, and the next block is always       *)
(* compared with something.                                                *)
Linked ==
  db.scanned >= Start =>
    /\ db.scanned \in DOMAIN db.blocks
    /\ \A h \in DOMAIN db.blocks :
         /\ db.blocks[h] = SubSeq(Read, 1, h)
         /\ h .. db.scanned \subseteq DOMAIN db.blocks

(* Header, lines 2-4: holdings are derived purely on-chain.  Whatever was  *)
(* reorganised, restarted or half read, the token outputs and their        *)
(* spending are those of the chain the database stands for, no more, no    *)
(* less.                                                                   *)
TokenRows(es) ==
  {[TokenRow(x.id, "token", Tx[x.id].to, Tx[x.id].tokens, x.h)
      EXCEPT !.spent = SpendingIn(es, <<x.id, "token">>)] : x \in Making(es, "token")}
ChangeRows(es) ==
  {[TokenRow(x.id, "change", Tx[x.id].pk, Tx[x.id].back, x.h)
      EXCEPT !.spent = SpendingIn(es, <<x.id, "change">>)] : x \in Making(es, "change")}
HoldingsFromChain == db.utxos = TokenRows(Indexed) \cup ChangeRows(Indexed)

(* The locks and the offers too (lines 628-656), with the preimage a claim *)
(* revealed and the execution an offer met, both forgotten when the        *)
(* spending is rolled back.                                                *)
LockRows(es) ==
  {LET out == <<x.id, "htlc">> IN
   [out |-> out, height |-> x.h, spent |-> SpendingIn(es, out),
    key |-> SpendingIn(es, out) # 0 /\ Tx[SpenderIn(es, out)].reveals] : x \in Making(es, "htlc")}
OfferRows(es) ==
  {LET out == <<x.id, "offer">>
       met == SpendingIn(es, out) # 0 /\ "htlc" \in Tx[SpenderIn(es, out)].outs IN
   [out |-> out, height |-> x.h, spent |-> SpendingIn(es, out),
    exec |-> IF met THEN SpenderIn(es, out) ELSE Nil] : x \in Making(es, "offer")}
LocksFromChain == db.htlcs = LockRows(Indexed) /\ db.offers = OfferRows(Indexed)

(* Lines 2-4, "derived purely on-chain": after any reorganisation, restart *)
(* or half-read block the hashes kept are one branch, and the token        *)
(* outputs, the locks and the offers are those of the one chain the        *)
(* database stands for.                                                    *)
OutputsFromChain == Linked /\ HoldingsFromChain /\ LocksFromChain

(* Line 223, "curve state tracked from the chain alone": a coin is listed  *)
(* with an entry in the log exactly when the chain has it, with the        *)
(* output, the reserve and the largest trade consensus gives it, and a     *)
(* pool exactly when it graduated.  (A coin whose birth was taken back     *)
(* stays listed without an entry: rollbackTo restores only the coins the   *)
(* log still holds.)                                                       *)
CurvesFromChain ==
  LET l == LedgerOf[Read] IN
  /\ {[coin |-> r.coin, out |-> r.out, reserve |-> r.reserve, m |-> r.m, hM |-> r.hM, status |-> r.status] :
        r \in {r \in db.curves : r.coin \in CoinsIn(db.curveLog)}}
     = {LET s == l.coins[k]
            up == s.phase = "live" IN
        [coin |-> k, out |-> IF up THEN s.out ELSE Nil, reserve |-> IF up THEN s.reserve ELSE 0,
         m |-> s.m, hM |-> s.hM, status |-> s.phase] :
          k \in {k \in CoinIds : l.coins[k].phase # "unborn"}}
  /\ {[coin |-> r.coin, out |-> r.out, gbx |-> r.gbx] :
        r \in {r \in db.pools : r.coin \in CoinsIn(db.poolLog)}}
     = {[coin |-> k, out |-> l.coins[k].out, gbx |-> l.coins[k].gbx] :
          k \in {k \in CoinIds : l.coins[k].phase = "graduated"}}

(* Lines 150-152 and 195-196: a name or a chunk of a logo is valid only if *)
(* the creator named by the coin's CREATE signed it, and the first valid   *)
(* one wins.  The CREATE is that of this chain, before the declaration;    *)
(* but rollbackTo leaves the row of a coin whose birth it takes back (509  *)
(* looks through the log), and the key in that row goes on validating      *)
(* (601, 615): against "purely from the chain" (README.md:15), some of the *)
(* declarations such a key signed ahead of the CREATE may count as well.   *)
CreatedBefore(s, i) ==
  \E j \in 1 .. i - 1 : Tx[s[j].id].op = "C" /\ Tx[s[j].id].coin = Tx[s[i].id].coin
                        /\ Tx[s[j].id].pk = Tx[s[i].id].pk
ByOrphans(s) == {i \in DOMAIN s : <<Tx[s[i].id].coin, Tx[s[i].id].pk>> \in orphans /\ ~CreatedBefore(s, i)}
Valid(s, early) == {i \in DOMAIN s : s[i].h >= Start /\ (i \in early \/ CreatedBefore(s, i))}
TickersOf(s, valid) ==
  LET Declare(got, i) ==
        IF /\ i \in valid /\ Tx[s[i].id].ticker # Nil
           /\ \A r \in got : r.coin # Tx[s[i].id].coin /\ r.ticker # Tx[s[i].id].ticker
        THEN got \cup {[coin |-> Tx[s[i].id].coin, ticker |-> Tx[s[i].id].ticker, height |-> s[i].h]}
        ELSE got IN
  FoldLeftDomain(LAMBDA got, i : Declare(got, i), {}, s)

(* A coin has a logo, since its last chunk, when the first chunks signed   *)
(* for each of its places are all of one set.  Of two sets the first       *)
(* complete one does not always win (196): a chunk of the other that was   *)
(* first at one of its places leaves the coin without a logo for good.     *)
LogosOf(s, valid) ==
  LET chunks == {i \in valid : Tx[s[i].id].chunk # Nil}
      firsts == {i \in chunks : \A j \in chunks :
                   Tx[s[j].id].coin = Tx[s[i].id].coin /\ Tx[s[j].id].chunk.idx = Tx[s[i].id].chunk.idx => i <= j}
      Of(i) == {j \in firsts : Tx[s[j].id].coin = Tx[s[i].id].coin} IN
  {[coin |-> Tx[s[i].id].coin, set |-> Tx[s[i].id].chunk.set, height |-> Max({s[j].h : j \in Of(i)})] :
     i \in {i \in firsts : /\ Cardinality(Of(i)) = LogoTotal
                           /\ \A j \in Of(i) : Tx[s[j].id].chunk.set = Tx[s[i].id].chunk.set}}
NamesFromChain ==
  LET s == Mined(Read) IN
  \E early \in SUBSET ByOrphans(s) :
    db.metas = TickersOf(s, Valid(s, early)) /\ db.logos = LogosOf(s, Valid(s, early))

(* And so are the coins with their states, their names and their logos.    *)
CoinsFromChain == TokenTypeOK /\ CurvesFromChain /\ NamesFromChain

(* When the node stops moving the index has all its blocks: no race of a   *)
(* reorganisation with the scan, the search or a restart leaves it short,  *)
(* on a dead branch or throwing for ever.  After a fall of the tip the     *)
(* blocks may be the old ones until the node passes the height it had:     *)
(* line 712 compares heights only.                                         *)
EventuallyCurrent ==
  <>[](db.scanned = Len(chain) /\ (shrinks = 0 /\ Len(chain) >= Start => Read = chain))
=============================================================================
