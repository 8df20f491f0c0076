------------------------------ MODULE ReadApi -------------------------------
(***************************************************************************)
(* One node's read API, read-api/read-api.js, over its node and its        *)
(* address index: handlers of concurrent requests that await the node's    *)
(* RPC and share caches.  One address; its coins may be spent in the       *)
(* mempool, then in a block, which the index reads later.  Between two     *)
(* awaits a handler runs alone.  A cached value's age is a step of its     *)
(* own: any value may get old at any time.                                 *)
(***************************************************************************)
EXTENDS Naturals, FiniteSets

CONSTANTS
  Owned,      \* the coins of the address
  Rewards,    \* those that are mining rewards
  Reqs,       \* requests at a time
  Asks,       \* what each of them asks: summary, utxos, chat
  Maturity,   \* confirmations a reward needs (100 in the code)
  MaxLag,     \* blocks the index may be behind (30 in the code)
  MaxTip,     \* bound: the chain
  MaxCalls,   \* bound: requests in all
  MaxFailures   \* bound: RPC calls that fail

ASSUME Bounds == MaxTip \in Nat \ {0} /\ Maturity \in Nat /\ MaxLag \in Nat /\ Rewards \subseteq Owned

VARIABLES
  height, spent, pool, \* the node: its height, the block that spent a coin, the mempool
  idx,                 \* the index: its height
  mp, refreshing, bg,  \* _mpCache with its age, _mpRefreshing, the background refresh
  summaries, listings, \* SUMMARY_CACHE and UTXO_CACHE for the address
  ctip,                \* _ctipCache with whether it is below 10 s old
  lib, rate,           \* whether __gbxSecp is loaded, the age of __gbxChatRate for a creator
  asks, req,           \* the requests
  posted, doubled,     \* history: the age of the last message; whether one followed
                       \* it too soon whose request had found the library loaded
  calls, failures

nodeVars == <<height, spent, pool, idx>>
mpVars == <<mp, refreshing, bg>>
chatVars == <<lib, rate, posted, doubled>>
cacheVars == <<mpVars, summaries, listings, ctip, chatVars>>
apiVars == <<nodeVars, cacheVars, asks, req, calls, failures>>

UnspentAt(h) == {c \in Owned : spent[c] = 0 \/ spent[c] > h}
(* Every coin is in the first block.                                       *)
MatureAt(h) == {c \in Owned : c \in Rewards => h >= Maturity}
Idle == [at |-> "idle", coins |-> {}, listed |-> {}, tip |-> 0]
NoAnswer == [coins |-> {}, due |-> {}, tip |-> 0, unsure |-> {}]
NoRefresh == [at |-> "off", listed |-> {}]

Fails == failures < MaxFailures /\ failures' = failures + 1
Works == UNCHANGED failures
Reply(r) == req' = [req EXCEPT ![r] = Idle] /\ UNCHANGED asks
Go(r, run) == req' = [req EXCEPT ![r] = run] /\ UNCHANGED asks
-----------------------------------------------------------------------------
(* The node and the index.                                                 *)
Pay(c) ==
  /\ spent[c] = 0 /\ c \notin pool /\ c \in MatureAt(height + 1)
  /\ pool' = pool \cup {c}
  /\ UNCHANGED <<height, spent, idx, cacheVars, asks, req, calls, failures>>
Mine ==
  /\ height < MaxTip
  /\ \E S \in SUBSET pool :
       /\ spent' = [c \in Owned |-> IF c \in S THEN height + 1 ELSE spent[c]]
       /\ pool' = pool \ S
  /\ height' = height + 1
  /\ UNCHANGED <<idx, cacheVars, asks, req, calls, failures>>
IndexBlock ==
  /\ idx < height /\ idx' = idx + 1
  /\ UNCHANGED <<height, spent, pool, cacheVars, asks, req, calls, failures>>

(* Time: each cache gets older.                                            *)
Older ==
  /\ \/ /\ mp.age \in {"fresh", "recent"}
        /\ mp' = [mp EXCEPT !.age = IF @ = "fresh" THEN "recent" ELSE "old"]
        /\ UNCHANGED <<summaries, listings, ctip, rate, posted>>
     \/ summaries # NoAnswer /\ summaries' = NoAnswer /\ UNCHANGED <<mp, listings, ctip, rate, posted>>
     \/ listings # NoAnswer /\ listings' = NoAnswer /\ UNCHANGED <<mp, summaries, ctip, rate, posted>>
     \/ ctip.fresh /\ ctip' = [ctip EXCEPT !.fresh = FALSE] /\ UNCHANGED <<mp, summaries, listings, rate, posted>>
     \/ posted = "recent" /\ rate' = "past" /\ posted' = "past" /\ UNCHANGED <<mp, summaries, listings, ctip>>
  /\ UNCHANGED <<nodeVars, refreshing, bg, lib, doubled, asks, req, calls, failures>>
-----------------------------------------------------------------------------
(* _mpRefresh: getrawmempool, then getrawtransaction of each; one that was *)
(* mined in between is not found and left out.                             *)
Fetched(listed) == {S \in SUBSET listed : listed \cap pool \subseteq S}
Published(G, listed) == [age |-> "fresh", data |-> G, listed |-> listed]

BgList ==
  /\ bg.at = "asked" /\ Works
  /\ bg' = [at |-> "listed", listed |-> pool]
  /\ UNCHANGED <<nodeVars, mp, refreshing, summaries, listings, ctip, chatVars, asks, req, calls>>
BgPublish ==
  /\ bg.at = "listed" /\ Works
  /\ \E G \in Fetched(bg.listed) : mp' = Published(G, bg.listed)
  /\ bg' = NoRefresh /\ refreshing' = FALSE
  /\ UNCHANGED <<nodeVars, summaries, listings, ctip, chatVars, asks, req, calls>>
(* Mutant: only a refresh that succeeds resets the flag. *)
StillRefreshing == TRUE
AfterFailure == FALSE
BgFails ==
  /\ bg.at = "asked" /\ Fails
  /\ bg' = NoRefresh /\ refreshing' = AfterFailure
  /\ UNCHANGED <<nodeVars, mp, summaries, listings, ctip, chatVars, asks, req, calls>>
-----------------------------------------------------------------------------
(* getAddressSummary.  What it counts as spendable: the mature coins of    *)
(* summaryFast but those the mempool set spends, looked up in the index.   *)
(* Mutant: the mempool is not subtracted from. *)
NotSubtracting(fast, fastTip, M) == fast
Spendable(fast, fastTip, M) == fast \ (M \cap UnspentAt(idx) \cap MatureAt(fastTip))
Summarise(r, fast, fastTip, set) ==
  LET a == [NoAnswer EXCEPT !.coins = Spendable(fast, fastTip, set.data), !.due = set.listed \cap UnspentAt(height)] IN
  Reply(r) /\ summaries' = a

Starts(r, kind) == req[r] = Idle /\ calls < MaxCalls /\ calls' = calls + 1 /\ asks[r] = kind
Running(r, kind, at) == asks[r] = kind /\ req[r].at = at

(* An answer of the last 30 s; else with a mempool set of the last 60 s,   *)
(* which may start a refresh behind the answer; else a refresh of its own. *)
(* An index without a block is an error (RA-1: no scan of the chain).      *)
AskSummary(r) ==
  /\ Starts(r, "summary") /\ Works
  /\ LET fast == UnspentAt(idx) \cap MatureAt(idx) IN
     IF summaries # NoAnswer
       THEN Reply(r) /\ UNCHANGED <<summaries, refreshing, bg>>
     ELSE IF idx = 0
       THEN Reply(r) /\ UNCHANGED <<summaries, refreshing, bg>>
     ELSE IF mp.age \in {"fresh", "recent"}
       THEN /\ Summarise(r, fast, idx, mp)
            /\ IF mp.age = "recent" /\ ~refreshing
                 THEN refreshing' = TRUE /\ bg' = [NoRefresh EXCEPT !.at = "asked"]
                 ELSE UNCHANGED <<refreshing, bg>>
     ELSE /\ Go(r, [Idle EXCEPT !.at = "asked", !.coins = fast, !.tip = idx])
          /\ UNCHANGED <<summaries, refreshing, bg>>
  /\ UNCHANGED <<nodeVars, mp, listings, ctip, chatVars>>
ListMempool(r) ==
  /\ Running(r, "summary", "asked") /\ Works
  /\ Go(r, [req[r] EXCEPT !.at = "listed", !.listed = pool])
  /\ UNCHANGED <<nodeVars, cacheVars, calls>>
FinishSummary(r) ==
  /\ Running(r, "summary", "listed") /\ Works
  /\ \E G \in Fetched(req[r].listed) :
       /\ mp' = Published(G, req[r].listed)
       /\ Summarise(r, req[r].coins, req[r].tip, Published(G, req[r].listed))
  /\ UNCHANGED <<nodeVars, refreshing, bg, listings, ctip, chatVars, calls>>
SummaryFails(r) ==
  /\ Running(r, "summary", "asked") /\ Fails
  /\ Reply(r)
  /\ UNCHANGED <<nodeVars, cacheVars, calls>>
-----------------------------------------------------------------------------
(* /api/utxos: the index's height, the node's height (getChainTipCached,   *)
(* which keeps the last one it had), the refusal, the index's list, and    *)
(* gettxout of the coins below the maturity, which takes a failure for no  *)
(* reward.                                                                 *)
(* Mutant: the refusal is one block late. *)
BehindByMore(h, t) == t - h > MaxLag + 1
Behind(h, t) == t - h > MaxLag
List(r, indexTip, t) ==
  IF idx = 0 \/ (indexTip # 0 /\ t # 0 /\ Behind(indexTip, t)) THEN Reply(r)
  ELSE Go(r, [Idle EXCEPT !.at = "listed", !.coins = UnspentAt(idx), !.tip = IF indexTip = 0 THEN 0 ELSE t])
AskUtxos(r) ==
  /\ Starts(r, "utxos") /\ Works
  /\ IF listings # NoAnswer THEN Reply(r)
     ELSE IF ctip.fresh THEN List(r, idx, ctip.v)
     ELSE Go(r, [Idle EXCEPT !.at = "asked", !.tip = idx])
  /\ UNCHANGED <<nodeVars, cacheVars>>
TipAnswered(r) ==
  /\ Running(r, "utxos", "asked")
  /\ \/ Works /\ ctip' = [v |-> height, fresh |-> TRUE]
     \/ Fails /\ UNCHANGED ctip
  /\ List(r, req[r].tip, ctip'.v)
  /\ UNCHANGED <<nodeVars, mpVars, summaries, listings, chatVars, calls>>
(* Mutant: a reward is looked up only until the block before. *)
TooFewLookedUp == Owned \ MatureAt(idx + 1)
LookedUp == Owned \ MatureAt(idx)
FinishUtxos(r) ==
  /\ Running(r, "utxos", "listed")
  /\ \E failed \in SUBSET (req[r].coins \cap LookedUp) :
       /\ IF failed = {} THEN Works ELSE Fails
       /\ LET rewards == {c \in (Rewards \cap LookedUp) \ failed : spent[c] = 0}
              a == [NoAnswer EXCEPT !.coins = req[r].coins \ rewards, !.tip = req[r].tip, !.unsure = failed] IN
          Reply(r) /\ listings' = a
  /\ UNCHANGED <<nodeVars, mpVars, summaries, ctip, chatVars, calls>>
-----------------------------------------------------------------------------
(* POST /api/chat of one creator: the rate is checked, then the library    *)
(* imported if nobody has, then the message taken and the rate set.        *)
(* Mutant: the rate is not kept. *)
ForgetRate == rate
RateSet == "recent"
Take(r, found) ==
  /\ Reply(r) /\ rate' = RateSet /\ posted' = "recent"
  /\ doubled' = (doubled \/ (found /\ posted = "recent"))
PostChat(r) ==
  /\ Starts(r, "chat") /\ Works
  /\ \/ rate = "recent" /\ Reply(r) /\ UNCHANGED chatVars
     \/ rate # "recent" /\ lib /\ Take(r, TRUE) /\ UNCHANGED lib
     \/ /\ rate # "recent" /\ ~lib
        /\ Go(r, [Idle EXCEPT !.at = "asked"]) /\ UNCHANGED chatVars
  /\ UNCHANGED <<nodeVars, mpVars, summaries, listings, ctip>>
LibLoaded(r) ==
  /\ Running(r, "chat", "asked") /\ Works
  /\ lib' = TRUE /\ Take(r, FALSE)
  /\ UNCHANGED <<nodeVars, mpVars, summaries, listings, ctip, calls>>
-----------------------------------------------------------------------------
ApiInit ==
  /\ height = 1 /\ spent = [c \in Owned |-> 0] /\ pool = {} /\ idx \in {0, 1}
  /\ mp \in [age : {"recent", "old"}, data : {{}}, listed : {{}}] /\ refreshing = FALSE /\ bg = NoRefresh
  /\ summaries = NoAnswer /\ listings = NoAnswer /\ ctip = [v |-> 0, fresh |-> FALSE]
  /\ lib = FALSE /\ rate = "past" /\ posted = "past" /\ doubled = FALSE
  /\ asks \in Asks /\ req = [r \in Reqs |-> Idle]
  /\ calls = 0 /\ failures = 0

Ask(r) == AskSummary(r) \/ AskUtxos(r) \/ PostChat(r)
Progress(r) ==
  \/ ListMempool(r) \/ FinishSummary(r) \/ SummaryFails(r)
  \/ TipAnswered(r) \/ FinishUtxos(r) \/ LibLoaded(r)
Background == BgList \/ BgPublish \/ BgFails
ApiNext ==
  \/ (\E r \in Reqs : Ask(r) \/ Progress(r)) \/ Background
  \/ (\E c \in Owned : Pay(c)) \/ Mine \/ IndexBlock \/ Older

(* Every call of the node returns, with a result or an error.              *)
ApiFairness == (\A r \in Reqs : WF_apiVars(Progress(r))) /\ WF_apiVars(Background)
ApiSpec == ApiInit /\ [][ApiNext]_apiVars /\ ApiFairness
-----------------------------------------------------------------------------
ApiTypeOK ==
  /\ height \in 1..MaxTip /\ idx \in 0..height /\ spent \in [Owned -> 0..height] /\ pool \subseteq Owned
  /\ mp.age \in {"fresh", "recent", "old"} /\ mp.data \subseteq mp.listed /\ mp.listed \subseteq Owned
  /\ (refreshing <=> bg.at # "off")

Answers == {summaries, listings}

(* A coin that was in the mempool when the set in use was listed, and not  *)
(* in a block yet when the summary was made, is not counted as spendable,  *)
(* whichever refresh made the set, and whatever the index did between the  *)
(* sum and the subtraction.                                                *)
PendingNotSpendable == \A a \in Answers : a.coins \cap a.due = {}

(* read-api.js:925, "An index behind the chain lies about spendability":   *)
(* a coin in a listing was still unspent MaxLag blocks before the tip that    *)
(* the listing was made under, even if it is served from the cache; but    *)
(* not if the index had no block yet when its height was read.             *)
ListingsWithinLag ==
  \A a \in Answers : \A c \in a.coins :
    a.tip # 0 /\ spent[c] # 0 => spent[c] > a.tip - MaxLag

(* No reward is offered before its maturity, except one whose gettxout     *)
(* failed.                                                                 *)
ImmatureNotOffered == \A a \in Answers : a.coins \subseteq MatureAt(height) \cup a.unsure

(* What the read API offers to spend is spendable (/api/address, /api/     *)
(* utxos): not pending, not long spent, not immature.                      *)
AnswersSpendable == ApiTypeOK /\ PendingNotSpendable /\ ListingsWithinLag /\ ImmatureNotOffered

(* One message of a creator in ten minutes, except from a request that was *)
(* checked while the signature library was being loaded.                   *)
OneMessagePerWindow == ~doubled

(* A refresh behind an answer ends, with or without an error, so that the  *)
(* next one can start.                                                     *)
RefreshEnds == []<>~refreshing
=============================================================================
