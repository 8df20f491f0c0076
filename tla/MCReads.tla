------------------------------ MODULE MCReads -------------------------------
(* A node's two indexes, and its read API, in two parts that run apart.    *)
(* The indexes: a chain of two blocks and a longer branch of three, on     *)
(* which a swap's GBX is refunded and claimed and a second lock is         *)
(* claimed; and a chain of one block.  Every lock of the EVM chain is over *)
(* beside the first chain; the EVM chain grows beside the second.          *)
(* The read API: a coin and a mining reward of one address, two requests   *)
(* at a time.                                                              *)
EXTENDS TradeIndex, ReadApi, TLC

CONSTANTS g, a2, b2, b3, q, x, h1, h2, k1, k2, l1, l2, c1, m1, r1, r2

Chains == {g, a2, b2, b3, q}
ParentOf == g :> None @@ a2 :> g @@ b2 :> g @@ b3 :> b2 @@ q :> None
Created == g :> {x, h1, h2} @@ a2 :> {} @@ b2 :> {} @@ b3 :> {} @@ q :> {}
Spent == g :> {} @@ a2 :> {x, h1} @@ b2 :> {h2} @@ b3 :> {h1} @@ q :> {}
Revealed == g :> {} @@ a2 :> {} @@ b2 :> {h2} @@ b3 :> {h1} @@ q :> {}
OfHashlock == h1 :> k1 @@ h2 :> k2 @@ l1 :> k1 @@ l2 :> k2
TwoHtlcs == {h1, h2}
PastLocks == <<{Event(kind, l) : kind \in {"locked", "claimed"}, l \in {l1, l2}}>>
OneLock == <<{Event("locked", l1)}>>
OldEvents == {PastLocks, OneLock}

Pairs == {r1 :> "summary" @@ r2 :> "summary", r1 :> "utxos" @@ r2 :> "utxos", r1 :> "chat" @@ r2 :> "chat"}

VARIABLE part
allVars == <<part, tVars, apiVars>>

(* Beside the chain of one block the address index runs first; beside the  *)
(* other the EVM endpoints are not behind, and a restart is the one fault. *)
Indexes ==
  /\ part = "indexes"
  /\ IF tip = q THEN stored = <<>> => AddressIndexSteps ELSE faults' # faults => Crash
  /\ UNCHANGED <<part, apiVars>>
Api == part = "api" /\ UNCHANGED <<part, tVars>>

MCInit ==
  /\ TInit /\ ApiInit
  /\ \/ /\ part = "indexes" /\ (tip = g <=> evm = PastLocks)
        /\ asks = [r \in Reqs |-> "chat"] /\ idx = 0 /\ mp.age = "old"
     \/ part = "api" /\ tip = q /\ evm = OneLock /\ (asks[r1] = "summary" \/ mp.age = "old")
MCNext == (TNext /\ Indexes) \/ (Api /\ ApiNext)

(* The fairness of TSpec and of ApiSpec, each in its part; the requests    *)
(* are few, so that one of them or the refresh moving on is enough.        *)
MCFairness ==
  /\ WF_allVars(Count /\ AddressIndexSteps /\ Indexes)
  /\ SF_allVars(Fetch /\ AddressIndexSteps /\ Indexes)
  /\ SF_allVars((Undo \/ Store) /\ AddressIndexSteps /\ Indexes)
  /\ WF_allVars((TradeNext /\ Indexes) \/ (Api /\ (Background \/ \E r \in Reqs : Progress(r))))
MCSpec == MCInit /\ [][MCNext]_allVars /\ MCFairness

-----------------------------------------------------------------------------
(* IndexesCatchUp (gbx-trade-index.js:106-116, gbx-indexer.js:78-111), in  *)
(* the part where the indexes run.                                         *)
RunningIndexesCatchUp == part = "indexes" => IndexesCatchUp

(* The indexes reach the tip (gbx-indexer.js, gbx-trade-index.js), and the *)
(* read API's refresh behind answers ends (read-api.js, _mpRefresh).       *)
ReadsEnd == RunningIndexesCatchUp /\ RefreshEnds
=============================================================================
