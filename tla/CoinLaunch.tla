----------------------------- MODULE CoinLaunch -----------------------------
(***************************************************************************)
(* The birth of a coin: client/v3/launch-x.html (forge), the transactions  *)
(* of client/gbx-launchpad-flow.mjs, the proof of client/gbx-pow.mjs and   *)
(* the broadcast of client/v3/gbx-lp.js.                                   *)
(* A create is paid for with the wallet's outputs and carries a proof of   *)
(* work made for the tip of a template.  The name, the description and the *)
(* pieces of the logo follow, each paid for with the change of the one     *)
(* before.  Every broadcast tries one node after another; a node knows     *)
(* what it was sent and what others relayed to it.                         *)
(* Money is counted in units of which a fee is a few.                      *)
(***************************************************************************)
EXTENDS Payloads, FiniteSets, FiniteSetsExt, SequencesExt

CONSTANTS
  Nodes,       \* providers and nodes that take a transaction
  Purses,      \* what fetchUtxos may answer: values, the largest first
  Forms,       \* [chars, bytes: of the name; about: is there a description; pieces: of the logo]
  FirstBuy,    \* the first buy
  DustSat, CreateFee, MetaFee,
  MaxInputs,   \* CREATE_MAX_INPUTS
  Rounds,      \* templates tried (3)
  Outrun,      \* blocks after which a proof is made again (80)
  PowMaxAge,   \* CREATE_POW_MAX_AGE
  MaxHeight,   \* bound: blocks mined
  MaxForges,   \* bound: coins forged
  MaxUnheard   \* bound: requests without an answer, pages closed

(* The form asks for a name; someone takes transactions.                   *)
ASSUME LaunchAssumption ==
  /\ IsFiniteSet(Nodes) /\ Nodes # {}
  /\ \A purse \in Purses : purse \in Seq(Nat)
  /\ \A f \in Forms : DOMAIN f = {"chars", "bytes", "about", "pieces"} /\ f.about \in BOOLEAN /\ f.pieces \in Nat
  /\ {FirstBuy, DustSat, CreateFee, MetaFee, MaxInputs, Rounds, Outrun, PowMaxAge} \subseteq Nat

VARIABLES
  height, mined, pools,       \* the chain and the mempools
  form, stage, round, tpl, checked,
  change, at,                 \* what the next record spends: its value, and whose change it is
  todo,                       \* the transactions still to be made
  sending, ask,               \* the one under way, the nodes not asked yet
  forges, unheard,
  got, heard,                 \* history: accepted by a node; confirmed to the page
  why                         \* history: why a transaction was not made or not taken

netVars == <<height, mined, pools>>
pageState == <<form, stage, round, tpl, checked, change, at, todo, sending, ask, forges>>
launchVars == <<netVars, pageState, unheard, got, heard, why>>

NoTx == <<>>
NoForm == [chars |-> 0, bytes |-> 0, about |-> FALSE, pieces |-> 0]
Kind(s) == Head(s)[1]
(* The place of a record in its launch.                                    *)
Place(r) == (CASE r[1] = "create" -> 1 [] r[1] = "name" -> 2 [] r[1] = "about" -> 3 [] OTHER -> 4) + r[2]

LaunchInit ==
  /\ height = 1 /\ mined = {} /\ pools = [n \in Nodes |-> {}]
  /\ form = NoForm /\ stage = "idle" /\ round = 0 /\ tpl = 0 /\ checked = 0
  /\ change = 0 /\ at = NoTx /\ todo = <<>> /\ sending = NoTx /\ ask = <<>>
  /\ forges = 0 /\ unheard = 0 /\ got = {} /\ heard = {} /\ why = {}
-----------------------------------------------------------------------------
(* The nodes.  A transaction is <<coin, record, what it spends, tip of its *)
(* proof>>.                                                                *)
ProofHolds(t) == t[2][1] # "create" \/ height - t[4] <= PowMaxAge
Rival(t, S) == \E w \in S : w # t /\ w[1] = t[1] /\ w[3] = t[3]
Knows(n, t) == t[3] = NoTx \/ t[3] \in pools[n] \union mined
(* No node can have t any more: it, or a record it builds on, is too old or *)
(* its money went elsewhere.                                               *)
Lapsed(t) ==
  \E w \in got \ mined : w[1] = t[1] /\ Place(w[2]) <= Place(t[2]) /\ (~ProofHolds(w) \/ Rival(w, mined))
Takes(n, t) == t \notin mined /\ ProofHolds(t) /\ Knows(n, t) /\ ~Rival(t, pools[n] \union mined)

Relay(n, m, t) ==
  /\ t \in pools[n] \ pools[m] /\ Takes(m, t)
  /\ pools' = [pools EXCEPT ![m] = @ \union {t}]
  /\ UNCHANGED <<height, mined, pageState, unheard, got, heard, why>>

(* Why a record was not made or not taken.                                 *)
Blamed(record, reason, t) ==
  why' = why \union
    {[record |-> record, reason |-> reason, tx |-> t, late |-> height - checked, coin |-> forges, form |-> form,
      parent |-> IF t = NoTx THEN "none" ELSE IF \E m \in Nodes : t[3] \in pools[m] THEN "elsewhere"
                 ELSE IF t[3] # NoTx /\ Lapsed(t[3]) THEN "lapsed" ELSE "lost"]}

(* A block with all that one node has, or with none of it.  A node forgets *)
(* what cannot be mined any more, and what builds on it.                   *)
Confirm(S) ==
  /\ height < MaxHeight /\ height' = height + 1
  /\ mined' = mined \union S
  /\ LET dead(t) == t \notin mined' /\ (Rival(t, mined') \/ (t[2][1] = "create" /\ height' - t[4] > PowMaxAge)) IN
     pools' = [n \in Nodes |->
       {t \in pools[n] \ mined' : \A w \in pools[n] : dead(w) /\ w[1] = t[1] => Place(w[2]) > Place(t[2])}]
  /\ UNCHANGED <<pageState, unheard, got, heard, why>>
-----------------------------------------------------------------------------
(* selectUtxos: the largest first, until they cover it.                    *)
Worth(purse, k) == MapThenSumSet(LAMBDA i : purse[i], 1 .. k)
Selected(purse, need) ==
  LET most == IF Len(purse) > MaxInputs THEN MaxInputs ELSE Len(purse)
      enough == {k \in 1 .. most : Worth(purse, k) >= need} IN
  IF enough = {} THEN {} ELSE {Worth(purse, Min(enough))}

(* Mutant: the pieces of the logo are not counted. *)
RoomForName(left, f) == left >= MetaFee + DustSat
Room(left, f) == left >= MetaFee * (1 + f.pieces) + DustSat
Records(f) ==
  <<<<"create", 0>>, <<"name", 0>>>> \o (IF f.about THEN <<<<"about", 0>>>> ELSE <<>>) \o [i \in 1 .. f.pieces |-> <<"logo", i - 1>>]

(* The button asks for a name of at most NameMax characters.               *)
Forge(f, purse) ==
  /\ stage \in {"idle", "done"} /\ forges < MaxForges /\ f.chars \in 1 .. NameMax
  /\ forges' = forges + 1 /\ form' = f
  /\ LET sums == Selected(purse, FirstBuy + DustSat + CreateFee) IN
     IF sums = {}
     THEN stage' = "idle" /\ UNCHANGED <<change, todo>>   \* TX_TOO_BIG, NO_UTXO
     ELSE /\ change' = Max(sums) - FirstBuy - DustSat - CreateFee
          /\ todo' = Records(f)
          /\ stage' = IF Room(change', f) THEN "template" ELSE "idle"   \* BAL
  /\ round' = 0 /\ at' = NoTx
  /\ UNCHANGED <<netVars, tpl, checked, sending, ask, unheard, got, heard, why>>

(* Mutant: a proof is never too old. *)
NeverOutrun == FALSE

AnotherRound == round < Rounds
IsOutrun == height - tpl > Outrun

Template ==
  /\ stage = "template"
  /\ IF AnotherRound THEN tpl' = height /\ round' = round + 1 /\ stage' = "mine"
                     ELSE stage' = "idle" /\ UNCHANGED <<tpl, round>>
  /\ UNCHANGED <<netVars, form, checked, change, at, todo, sending, ask, forges, unheard, got, heard, why>>
(* A proof is found, or not in any nonce.                                  *)
MinePow ==
  /\ stage = "mine" /\ stage' \in {"recheck", "template"}
  /\ UNCHANGED <<netVars, form, round, tpl, checked, change, at, todo, sending, ask, forges, unheard, got, heard, why>>
Recheck ==
  /\ stage = "recheck" /\ checked' = height
  /\ stage' = IF IsOutrun THEN "template" ELSE "build"
  /\ UNCHANGED <<netVars, form, round, tpl, change, at, todo, sending, ask, forges, unheard, got, heard, why>>

(* What becomes of the rest when the first of todo could not be sent: no   *)
(* create or no name, and all is over; without a description it goes on;   *)
(* a logo ends at its first missing piece.                                 *)
(* Mutants: it is tried again; it counts as sent. *)
TryAgain == /\ todo' = todo /\ stage' = "build" /\ UNCHANGED <<change, at>>
CountAsSent ==
  /\ todo' = IF Kind(todo) \in {"create", "name"} THEN <<>> ELSE Tail(todo)
  /\ stage' = IF Kind(todo) \in {"create", "name"} THEN "idle" ELSE IF todo' = <<>> THEN "done" ELSE "build"
  /\ at' = sending /\ change' = change - MetaFee

GiveUp ==
  /\ todo' = IF Kind(todo) = "about" THEN Tail(todo) ELSE <<>>
  /\ stage' = IF Kind(todo) \in {"create", "name"} THEN "idle" ELSE IF todo' = <<>> THEN "done" ELSE "build"
  /\ UNCHANGED <<change, at>>

Affordable == Kind(todo) = "create" \/ change >= MetaFee + DustSat
Fits == Kind(todo) = "name" => form.bytes <= NameMax
Build ==
  /\ stage = "build"
  /\ IF Fits /\ Affordable
     THEN /\ sending' = <<forges, Head(todo), at, IF Kind(todo) = "create" THEN tpl ELSE 0>>
          /\ ask' \in SetToSeqs(Nodes)
          /\ stage' = "send" /\ UNCHANGED <<change, at, todo, why>>
     ELSE /\ GiveUp /\ Blamed(Head(todo), IF Fits THEN "funds" ELSE "bytes", NoTx)
          /\ UNCHANGED <<sending, ask>>
  /\ UNCHANGED <<netVars, form, round, tpl, checked, forges, unheard, got, heard>>

Sent ==
  /\ heard' = heard \union {sending} /\ at' = sending
  /\ change' = IF Kind(todo) = "create" THEN change ELSE change - MetaFee
  /\ todo' = Tail(todo) /\ stage' = IF todo' = <<>> THEN "done" ELSE "build"
  /\ ask' = <<>> /\ UNCHANGED <<why>>
AskNext ==
  /\ ask' = Tail(ask) /\ UNCHANGED heard
  /\ IF ask' = <<>> THEN GiveUp ELSE UNCHANGED <<stage, todo, change, at>>

(* broadcastTx: the first node that answers with an id.  Missing inputs,   *)
(* -25, end it at once; any other error, and silence, is for the next node.*)
Broadcast ==
  /\ stage = "send" /\ ask # <<>>
  /\ LET n == Head(ask)
         t == sending
         store == pools' = [pools EXCEPT ![n] = @ \union {t}] /\ got' = got \union {t}
         silence == unheard < MaxUnheard /\ unheard' = unheard + 1 /\ AskNext
         says(reason) == Blamed(t[2], reason, t) IN
     \/ (t \in pools[n] \/ Takes(n, t)) /\ store /\ Sent /\ UNCHANGED unheard
     \/ Takes(n, t) /\ store /\ silence /\ UNCHANGED why
     \/ silence /\ UNCHANGED <<pools, got, why>>
     \/ /\ t \notin pools[n] /\ ~Takes(n, t)
        /\ UNCHANGED <<pools, got, unheard>>
        /\ CASE t \notin mined /\ ~Knows(n, t) -> says("unknown parent") /\ GiveUp /\ ask' = <<>> /\ UNCHANGED heard
             [] Rival(t, mined) -> says("spent") /\ GiveUp /\ ask' = <<>> /\ UNCHANGED heard
             [] OTHER -> AskNext /\ says(IF t \in mined THEN "in a block" ELSE IF ProofHolds(t) THEN "spent" ELSE "stale")
  /\ UNCHANGED <<height, mined, form, round, tpl, checked, sending, forges>>

(* The user stops, or a template does not come, or the page is closed.     *)
Stop ==
  /\ stage \notin {"idle", "done"} /\ unheard < MaxUnheard /\ unheard' = unheard + 1
  /\ stage' = "idle" /\ todo' = <<>>
  /\ UNCHANGED <<netVars, form, round, tpl, checked, change, at, sending, ask, forges, got, heard, why>>

LaunchNext ==
  \/ \E f \in Forms, purse \in Purses : Forge(f, purse)
  \/ Template \/ MinePow \/ Recheck \/ Build \/ Broadcast \/ Stop
  \/ \E n, m \in Nodes : \E t \in pools[n] : Relay(n, m, t)
  \/ \E S \in {pools[n] : n \in Nodes} \union {{}} : Confirm(S)
LaunchFairness ==
  WF_launchVars(Template) /\ WF_launchVars(MinePow) /\ WF_launchVars(Recheck) /\ WF_launchVars(Build) /\ WF_launchVars(Broadcast)
LaunchSpec == LaunchInit /\ [][LaunchNext]_launchVars /\ LaunchFairness
-----------------------------------------------------------------------------
LaunchTypeOK ==
  /\ stage \in {"idle", "template", "mine", "recheck", "build", "send", "done"}
  /\ round \in 0 .. Rounds /\ change \in Int /\ heard \subseteq got
  /\ stage = "send" => ask # <<>> /\ todo # <<>>
  /\ \A n \in Nodes : pools[n] \subseteq got

(* The change the page insists on pays for the name and every piece of the *)
(* logo ("funds: need first buy + dust + create fee + meta fee"): what is  *)
(* not made for want of money is the description of a coin without a logo, *)
(* or the last piece of the logo after a description, whose fee nobody     *)
(* counted.                                                                *)
BudgetHolds ==
  \A r \in why : r.reason = "funds" =>
    /\ r.form.about
    /\ IF r.form.pieces = 0 THEN r.record[1] = "about" ELSE r.record = <<"logo", r.form.pieces - 1>>

(* A create that was found fresh is refused as stale only if the chain     *)
(* grew by more than the margin (100 - 80 blocks) before a node saw it.    *)
ProofStaysFresh == \A r \in why : r.reason = "stale" => r.late > PowMaxAge - Outrun

(* Each record spends the change of the one before that a node accepted:   *)
(* where a node does not know the parent, another node has it, or it can   *)
(* no longer be mined, for its age or for a rival's; and an output is      *)
(* spent twice only if the page never heard of the first time.             *)
RecordsChain ==
  \A r \in why :
    /\ r.reason = "unknown parent" => r.tx[3] \in got /\ r.parent # "lost"
    /\ r.reason = "spent" => \E w \in got \ heard : w # r.tx /\ w[1] = r.tx[1] /\ w[3] = r.tx[3]

(* The forge comes to an end: three rounds, one try per node and record.   *)
ForgeEnds == stage \notin {"idle", "done"} ~> stage \in {"idle", "done"}

(* "Nothing is broadcast unless every self-verify passes": the header of   *)
(* the flow, of a create and its metadata.                                 *)
NothingBeforeItsName == \A t \in got : \A r \in why : ~(r.coin = t[1] /\ r.reason = "bytes")

(* What keeps the records of a launch from the chain has one of the named  *)
(* causes (forge, launch-x.html).                                          *)
LaunchIsSound == LaunchTypeOK /\ BudgetHolds /\ ProofStaysFresh /\ RecordsChain
=============================================================================
