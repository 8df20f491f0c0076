----------------------------- MODULE ReadsProofs -----------------------------
(***************************************************************************)
(* Theorems about what a node reads from: its address index, for any tree  *)
(* of blocks, any outputs, any moves of the node and any number of         *)
(* restarts; its read API, for any coins, requests, maturity and lag, and  *)
(* any order in which handlers, refreshes, blocks and the ages of the      *)
(* caches come; its trade index beside the address index, for any HTLCs,   *)
(* EVM histories, windows, answers of endpoints that lag and restarts; and *)
(* its token index, for any transactions and legal chains over them, any   *)
(* window of hashes and any number of reorganisations and restarts.        *)
(***************************************************************************)
EXTENDS TradeIndex, ReadApi, TokenIndex, SequenceTheorems, SumLemmas

(* Where syncTo stands: it writes the height after the last one it has,    *)
(* and none that the node has not.  A first block that it holds is one.    *)
Place ==
  /\ next # 0 => next = Len(stored) + 1 /\ next <= target
  /\ target <= Len(Chain)
  /\ held # None => next # 0
  /\ held # None /\ next = 1 => Parent[held] = None
Inv == TypeOK /\ Place /\ OneBranch /\ UtxosMatchBlocks
-----------------------------------------------------------------------------
(* What is appended to a sequence leaves its beginnings as they were.      *)
LEMMA AppendedBeginning ==
  ASSUME NEW S, NEW s \in Seq(S), NEW x \in S, NEW j \in Nat, j <= Len(s)
  PROVE  SubSeq(Append(s, x), 1, j) = SubSeq(s, 1, j)
<1>1. PICK w : w = Append(s, x)
  OBVIOUS
<1>2. Len(s) \in Nat /\ \A i \in 1 .. Len(s) : s[i] \in S /\ w[i] = s[i]
  BY <1>1, AppendProperties
<1>3. \A i \in 1 .. j : s[i] \in S /\ w[i] \in S /\ w[i] = s[i]
  BY <1>2
<1>4. PICK u : u = SubSeq(w, 1, j)
  OBVIOUS
<1>5. PICK v : v = SubSeq(s, 1, j)
  OBVIOUS
<1>6. u \in Seq(S) /\ Len(u) = (IF 1 <= j THEN j - 1 + 1 ELSE 0) /\ \A i \in 1 .. j - 1 + 1 : u[i] = w[1 + i - 1]
  BY <1>3, <1>4, SubSeqProperties
<1>7. v \in Seq(S) /\ Len(v) = (IF 1 <= j THEN j - 1 + 1 ELSE 0) /\ \A i \in 1 .. j - 1 + 1 : v[i] = s[1 + i - 1]
  BY <1>3, <1>5, SubSeqProperties
<1>8. Len(u) = j /\ Len(v) = j /\ \A i \in 1 .. j : u[i] = v[i]
  BY <1>3, <1>6, <1>7
<1>9. u = v
  BY <1>6, <1>7, <1>8, SeqEqual
<1> QED
  BY <1>1, <1>4, <1>5, <1>9

(* A branch ends with its block, and is not empty.                         *)
LEMMA BranchEnds ==
  ASSUME NEW b \in Blocks
  PROVE  /\ Branch[b] \in Seq(Blocks) /\ Len(Branch[b]) \in Nat \ {0}
         /\ Branch[b][Len(Branch[b])] = b
<1>1. Branch[b] \in Seq(Blocks)
  BY TreeAssumption
<1>2. CASE Parent[b] = None
  <2>1. Branch[b] = <<b>>
    BY <1>2, TreeAssumption
  <2> QED
    BY <1>1, <2>1
<1>3. CASE Parent[b] # None
  <2>1. Parent[b] \in Blocks /\ Branch[Parent[b]] \in Seq(Blocks)
    BY <1>3, TreeAssumption
  <2>2. Branch[b] = Append(Branch[Parent[b]], b)
    BY <1>3, TreeAssumption
  <2> QED
    BY <1>1, <2>1, <2>2
<1> QED
  BY <1>2, <1>3

(* Only a first block is alone in its branch.                              *)
LEMMA Longer == ASSUME NEW b \in Blocks, Len(Branch[b]) # 1 PROVE Parent[b] # None
<1>1. ASSUME Parent[b] = None PROVE Branch[b] = <<b>>
  BY <1>1, TreeAssumption
<1>2. Len(<<b>>) = 1
  OBVIOUS
<1> QED
  BY <1>1, <1>2

(* The rows of a block's branch: what BlocksAreValid says of it.           *)
LEMMA Once ==
  ASSUME NEW b \in Blocks, NEW i \in DOMAIN Branch[b], NEW j \in DOMAIN Branch[b], NEW c
  PROVE  /\ c \in Adds[Branch[b][i]] /\ c \in Adds[Branch[b][j]] => i = j
         /\ c \in Uses[Branch[b][i]] /\ c \in Uses[Branch[b][j]] => i = j
         /\ c \in Uses[Branch[b][i]] /\ c \in Adds[Branch[b][j]] => ~(i < j)
BY BlocksAreValid

LEMMA InitStep == Init => Inv
<1> SUFFICES ASSUME Init PROVE Inv
  OBVIOUS
<1>1. tip \in Blocks /\ Len(Chain) \in Nat
  BY BranchEnds DEF Init, Chain
<1>2. stored = <<>> /\ utxos = {} /\ next = 0 /\ target = 0 /\ held = None
  BY DEF Init
<1> QED
  BY <1>1, <1>2 DEF Inv, TypeOK, Place, OneBranch, UtxosMatchBlocks, SpentIn

(* The node moves to longer branches only.                                 *)
LEMMA MoveStep == ASSUME Inv, NEW b \in Blocks, NodeMoves(b) PROVE Inv'
<1>1. Len(Branch[b]) > Len(Branch[tip]) /\ tip' = b /\ Len(Branch[b]) \in Nat /\ Len(Branch[tip]) \in Nat
  BY BranchEnds DEF NodeMoves, Extends, Chain, Inv, TypeOK
<1>2. UNCHANGED <<stored, utxos, next, target, held>>
  BY DEF NodeMoves, indexVars
<1>3. Place'
  BY <1>1, <1>2 DEF Inv, Place, TypeOK, Chain
<1> QED
  BY <1>1, <1>2, <1>3 DEF Inv, TypeOK, OneBranch, UtxosMatchBlocks, SpentIn

LEMMA CountStep == ASSUME Inv, Count PROVE Inv'
<1>1. Len(Chain) \in Nat /\ Len(stored) \in Nat
  BY BranchEnds DEF Inv, TypeOK, Chain
<1> QED
  BY <1>1 DEF Count, Inv, TypeOK, Place, Chain, OneBranch, UtxosMatchBlocks, SpentIn

LEMMA FetchStep == ASSUME Inv, Fetch PROVE Inv'
<1>1. Chain \in Seq(Blocks) /\ Len(Chain) \in Nat /\ Parent[Chain[1]] = None
  BY BranchEnds, TreeAssumption DEF Inv, TypeOK, Chain
<1>2. next \in 1 .. Len(Chain)
  BY <1>1 DEF Fetch, Inv, TypeOK, Place
<1>3. Chain[next] \in Blocks
  BY <1>1, <1>2
<1> QED
  BY <1>1, <1>2, <1>3 DEF Fetch, Inv, TypeOK, Place, Chain, OneBranch, UtxosMatchBlocks, SpentIn

LEMMA RestartStep == ASSUME Inv, Restart PROVE Inv'
BY DEF Restart, Inv, TypeOK, Place, Chain, OneBranch, UtxosMatchBlocks, SpentIn

(* A reorganisation takes the last height off: what is left is the branch  *)
(* of the last block's parent, and the rows are those of its blocks.       *)
LEMMA UndoStep == ASSUME Inv, Undo PROVE Inv'
<1> DEFINE n == Len(stored)
           b == stored[n]
<1>1. /\ stored \in Seq(Blocks) /\ n \in Nat \ {0} /\ next = n + 1 /\ next <= target
      /\ utxos \subseteq [coin : Coins, height : Nat, spent : Nat] /\ target \in Nat
  BY DEF Undo, Forked, Inv, TypeOK, Place
<1>2. b \in Blocks /\ stored = Branch[b]
  BY <1>1 DEF Inv, OneBranch
<1>3. /\ stored' = SubSeq(stored, 1, n - 1) /\ utxos' = Rollback(utxos, n - 1)
      /\ next' = n /\ held' = None /\ tip' = tip /\ target' = target
  BY <1>1 DEF Undo
<1>4. /\ stored' \in Seq(Blocks) /\ Len(stored') = n - 1
      /\ \A i \in 1 .. (n - 1) : stored'[i] = stored[i]
  BY <1>1, <1>3
<1>5. DOMAIN stored = 1 .. n /\ DOMAIN stored' = 1 .. (n - 1)
  BY <1>1, <1>4
<1>6. OneBranch'
  <2> SUFFICES ASSUME n > 1 PROVE stored' = Branch[stored'[Len(stored')]]
    BY <1>1, <1>4 DEF OneBranch
  <2>1. Parent[b] # None
    <3>1. Len(Branch[b]) # 1
      BY <1>1, <1>2
    <3> QED
      BY <1>2, <3>1, Longer
  <2>2. Parent[b] \in Blocks /\ Branch[b] = Append(Branch[Parent[b]], b)
    BY <1>2, <2>1, TreeAssumption
  <2>3. Branch[Parent[b]] \in Seq(Blocks) /\ Branch[Parent[b]][Len(Branch[Parent[b]])] = Parent[b]
    BY <2>2, BranchEnds
  <2>4. stored = Append(Branch[Parent[b]], b) /\ Len(Branch[Parent[b]]) = n - 1
    BY <1>1, <1>2, <2>2, <2>3
  <2>5. stored' = Branch[Parent[b]]
    <3> DEFINE t == Branch[Parent[b]]
    <3>1. t \in Seq(Blocks) /\ Len(t) = n - 1 /\ stored = Append(t, b) /\ stored' = SubSeq(stored, 1, n - 1)
      BY <1>3, <2>3, <2>4
    <3>2. \A i \in 1 .. (n - 1) : stored'[i] = t[i]
      BY <1>1, <1>4, <3>1
    <3>3. stored' \in Seq(Blocks) /\ Len(stored') = Len(t) /\ \A i \in 1 .. Len(stored') : stored'[i] = t[i]
      BY <1>4, <3>1, <3>2
    <3> HIDE DEF t
    <3> QED
      BY <3>1, <3>3, SeqEqual DEF t
  <2> QED
    BY <1>4, <2>3, <2>4, <2>5
<1>7. \A c : SpentIn(stored', c) = SpentIn(stored, c) \ {n}
  BY <1>1, <1>4, <1>5 DEF SpentIn
<1>8. ASSUME NEW q \in utxos'
      PROVE  /\ q \in [coin : Coins, height : Nat, spent : Nat]
             /\ q.height \in DOMAIN stored' /\ q.coin \in Adds[stored'[q.height]]
             /\ IF q.spent = 0 THEN SpentIn(stored', q.coin) = {} ELSE SpentIn(stored', q.coin) = {q.spent}
  <2>1. PICK r \in utxos : r.height <= n - 1 /\ q = IF r.spent > n - 1 THEN [r EXCEPT !.spent = 0] ELSE r
    BY <1>3, <1>8 DEF Rollback
  <2>2. /\ r \in [coin : Coins, height : Nat, spent : Nat]
        /\ r.height \in DOMAIN stored /\ r.coin \in Adds[stored[r.height]]
        /\ IF r.spent = 0 THEN SpentIn(stored, r.coin) = {} ELSE SpentIn(stored, r.coin) = {r.spent}
    BY <1>1 DEF Inv, UtxosMatchBlocks
  <2>3. q.coin = r.coin /\ q.height = r.height /\ q \in [coin : Coins, height : Nat, spent : Nat]
    BY <2>1, <2>2
  <2>4. r.height \in 1 .. (n - 1)
    BY <1>5, <2>1, <2>2
  <2>5. CASE r.spent > n - 1
    <3>1. SpentIn(stored, r.coin) = {r.spent} /\ r.spent \in 1 .. n
      BY <1>1, <1>5, <2>2, <2>5 DEF SpentIn
    <3>2. r.spent = n /\ q.spent = 0
      BY <1>1, <2>1, <2>2, <2>5, <3>1
    <3> QED
      BY <1>4, <1>5, <1>7, <2>2, <2>3, <2>4, <3>1, <3>2
  <2>6. CASE ~(r.spent > n - 1)
    BY <1>1, <1>4, <1>5, <1>7, <2>1, <2>2, <2>3, <2>4, <2>6
  <2> QED
    BY <2>5, <2>6
<1>9. ASSUME NEW i \in DOMAIN stored', NEW c \in Adds[stored'[i]] PROVE \E r \in utxos' : r.coin = c
  <2>1. i \in 1 .. (n - 1) /\ i \in DOMAIN stored /\ c \in Adds[stored[i]]
    BY <1>1, <1>4, <1>5
  <2>2. PICK r \in utxos : r.coin = c
    BY <2>1 DEF Inv, UtxosMatchBlocks
  <2>3. r.height \in DOMAIN stored /\ c \in Adds[stored[r.height]]
    BY <2>2 DEF Inv, UtxosMatchBlocks
  <2>4. r.height = i
    BY <1>2, <2>1, <2>3, Once
  <2>5. r \in {q \in utxos : q.height <= n - 1} /\ r \in [coin : Coins, height : Nat, spent : Nat]
    BY <1>1, <2>1, <2>4
  <2>6. (IF r.spent > n - 1 THEN [r EXCEPT !.spent = 0] ELSE r) \in utxos'
    BY <1>3, <2>5 DEF Rollback
  <2> QED
    BY <2>2, <2>5, <2>6
<1>10. UtxosMatchBlocks' /\ TypeOK'
  BY <1>1, <1>3, <1>4, <1>8, <1>9 DEF UtxosMatchBlocks, TypeOK, Inv
<1>11. Place'
  BY <1>1, <1>3, <1>4 DEF Place, Inv, Chain
<1> QED
  BY <1>6, <1>10, <1>11 DEF Inv

(* A block is stored on its parent, or as the first; that a coin appears   *)
(* once and is spent once makes its row the block's.                       *)
LEMMA StoreStep == ASSUME Inv, Store PROVE Inv'
<1> DEFINE n == Len(stored)
           b == held
           Rec == [coin : Coins, height : Nat, spent : Nat]
           Marked(r) == IF r.coin \in Uses[b] THEN [r EXCEPT !.spent = n + 1] ELSE r
           Added == {r \in utxos : r.coin \notin Adds[b]} \cup {Row(c, n + 1) : c \in Adds[b]}
<1>1. /\ stored \in Seq(Blocks) /\ n \in Nat /\ next = n + 1 /\ next <= target /\ b \in Blocks
      /\ utxos \subseteq Rec /\ target \in Nat
  BY DEF Store, Inv, TypeOK, Place
<1>2. /\ stored' = Append(stored, b) /\ utxos' = {Marked(r) : r \in Added}
      /\ next' \in {next + 1, 0} /\ (next' # 0 => next < target) /\ held' = None /\ tip' = tip /\ target' = target
  BY <1>1 DEF Store, Process
<1>3. /\ stored' \in Seq(Blocks) /\ Len(stored') = n + 1 /\ stored'[n + 1] = b
      /\ \A i \in 1 .. n : stored'[i] = stored[i]
  BY <1>1, <1>2
<1>4. DOMAIN stored = 1 .. n /\ DOMAIN stored' = 1 .. (n + 1)
  BY <1>1, <1>3
<1>5. stored' = Branch[b]
  <2>1. CASE next = 1
    <3>1. Parent[b] = None /\ stored = <<>>
      BY <1>1, <2>1 DEF Store, Inv, Place
    <3>2. Branch[b] = <<b>>
      BY <1>1, <3>1, TreeAssumption
    <3> QED
      BY <1>2, <3>1, <3>2
  <2>2. CASE next > 1
    <3>1. stored[n] = Parent[b] /\ n \in 1 .. n
      BY <1>1, <2>2 DEF Store, Forked
    <3>2. Parent[b] \in Blocks
      BY <1>1, <3>1
    <3>3. stored = Branch[Parent[b]]
      BY <1>1, <2>2, <3>1 DEF Inv, OneBranch
    <3>4. Branch[b] = Append(Branch[Parent[b]], b)
      BY <1>1, <3>2, TreeAssumption
    <3> QED
      BY <1>2, <3>3, <3>4
  <2> QED
    BY <1>1, <2>1, <2>2
<1>6. OneBranch'
  BY <1>3, <1>5 DEF OneBranch
<1>7. \A c : SpentIn(stored', c) = SpentIn(stored, c) \cup (IF c \in Uses[b] THEN {n + 1} ELSE {})
  BY <1>1, <1>3, <1>4 DEF SpentIn
<1>8. \A c : c \in Uses[b] => SpentIn(stored, c) = {}
  <2> SUFFICES ASSUME NEW c \in Uses[b], NEW i \in SpentIn(stored, c) PROVE FALSE
    OBVIOUS
  <2>1. i \in 1 .. n /\ c \in Uses[stored'[i]] /\ c \in Uses[stored'[n + 1]]
    BY <1>3, <1>4 DEF SpentIn
  <2>2. i \in DOMAIN Branch[b] /\ n + 1 \in DOMAIN Branch[b]
    BY <1>1, <1>4, <1>5, <2>1
  <2>3. i = n + 1
    BY <1>1, <1>5, <2>1, <2>2, Once
  <2> QED
    BY <1>1, <2>1, <2>3
<1>9. \A c : c \in Adds[b] => SpentIn(stored, c) = {}
  <2> SUFFICES ASSUME NEW c \in Adds[b], NEW i \in SpentIn(stored, c) PROVE FALSE
    OBVIOUS
  <2>1. i \in 1 .. n /\ c \in Uses[stored'[i]] /\ c \in Adds[stored'[n + 1]]
    BY <1>3, <1>4 DEF SpentIn
  <2>2. i \in DOMAIN Branch[b] /\ n + 1 \in DOMAIN Branch[b]
    BY <1>1, <1>4, <1>5, <2>1
  <2>3. ~(i < n + 1)
    BY <1>1, <1>5, <2>1, <2>2, Once
  <2> QED
    BY <1>1, <2>1, <2>3
(* Before it is marked, a row is as the table was before, or new.          *)
<1>10. ASSUME NEW r \in Added
       PROVE  /\ r \in Rec /\ r.height \in DOMAIN stored' /\ r.coin \in Adds[stored'[r.height]]
              /\ IF r.spent = 0 THEN SpentIn(stored, r.coin) = {} ELSE SpentIn(stored, r.coin) = {r.spent}
  <2>1. CASE r \in utxos
    <3>1. /\ r \in Rec /\ r.height \in DOMAIN stored /\ r.coin \in Adds[stored[r.height]]
          /\ IF r.spent = 0 THEN SpentIn(stored, r.coin) = {} ELSE SpentIn(stored, r.coin) = {r.spent}
      BY <1>1, <2>1 DEF Inv, UtxosMatchBlocks
    <3> QED
      BY <1>1, <1>3, <1>4, <3>1
  <2>2. CASE \E c \in Adds[b] : r = Row(c, n + 1)
    <3>1. PICK c \in Adds[b] : r = [coin |-> c, height |-> n + 1, spent |-> 0]
      BY <2>2 DEF Row
    <3>2. c \in Coins
      BY <1>1 DEF Coins
    <3> QED
      BY <1>1, <1>3, <1>4, <1>9, <3>1, <3>2
  <2> QED
    BY <1>10, <2>1, <2>2
<1>11. ASSUME NEW q \in utxos'
       PROVE  /\ q \in Rec /\ q.height \in DOMAIN stored' /\ q.coin \in Adds[stored'[q.height]]
              /\ IF q.spent = 0 THEN SpentIn(stored', q.coin) = {} ELSE SpentIn(stored', q.coin) = {q.spent}
  <2>1. PICK r \in Added : q = Marked(r)
    BY <1>2, <1>11
  <2>2. /\ r \in Rec /\ r.height \in DOMAIN stored' /\ r.coin \in Adds[stored'[r.height]]
        /\ IF r.spent = 0 THEN SpentIn(stored, r.coin) = {} ELSE SpentIn(stored, r.coin) = {r.spent}
    BY <1>10
  <2> HIDE DEF Added
  <2>3. q \in Rec /\ q.height = r.height /\ q.coin = r.coin
    BY <1>1, <2>1, <2>2
  <2>4. CASE r.coin \in Uses[b]
    <3>1. q.spent = n + 1 /\ SpentIn(stored', q.coin) = {n + 1}
      BY <1>1, <1>7, <1>8, <2>1, <2>2, <2>3, <2>4
    <3> QED
      BY <1>1, <2>2, <2>3, <3>1
  <2>5. CASE r.coin \notin Uses[b]
    <3>1. q = r /\ SpentIn(stored', q.coin) = SpentIn(stored, r.coin)
      BY <1>7, <2>1, <2>3, <2>5
    <3> QED
      BY <2>2, <3>1
  <2> QED
    BY <2>4, <2>5
<1>12. ASSUME NEW i \in DOMAIN stored', NEW c \in Adds[stored'[i]] PROVE \E q \in utxos' : q.coin = c
  <2>1. \E r \in Added : r.coin = c
    <3>1. CASE c \in Adds[b]
      <4>1. Row(c, n + 1) \in Added
        BY <3>1
      <4>2. Row(c, n + 1).coin = c
        BY DEF Row
      <4> QED
        BY <4>1, <4>2
    <3>2. CASE c \notin Adds[b]
      <4>1. i \in DOMAIN stored /\ c \in Adds[stored[i]]
        BY <1>1, <1>3, <1>4, <3>2
      <4>2. PICK r \in utxos : r.coin = c
        BY <4>1 DEF Inv, UtxosMatchBlocks
      <4> QED
        BY <3>2, <4>2
    <3> QED
      BY <3>1, <3>2
  <2>2. PICK r \in Added : r.coin = c
    BY <2>1
  <2>3. Marked(r) \in utxos'
    BY <1>2, <2>2
  <2>4. r \in Rec
    BY <1>10, <2>2
  <2> HIDE DEF Added
  <2>5. Marked(r).coin = c
    BY <2>2, <2>4
  <2> QED
    BY <2>3, <2>5
<1>13. UtxosMatchBlocks' /\ TypeOK'
  <2>1. UtxosMatchBlocks'
    BY <1>11, <1>12 DEF UtxosMatchBlocks
  <2>2. utxos' \subseteq Rec /\ next' \in Nat
    BY <1>1, <1>2, <1>11
  <2> QED
    BY <1>1, <1>2, <1>3, <2>1, <2>2 DEF TypeOK, Inv
<1>14. Place'
  BY <1>1, <1>2, <1>3 DEF Place, Inv, Chain
<1> QED
  BY <1>6, <1>13, <1>14 DEF Inv
LEMMA Invariance == ASSUME Inv, [Next]_vars PROVE Inv'
<1>1. CASE UNCHANGED vars
  BY <1>1 DEF vars, indexVars, Inv, TypeOK, Place, Chain, OneBranch, UtxosMatchBlocks, SpentIn
<1>2. CASE \E b \in Blocks : NodeMoves(b)
  BY <1>2, MoveStep
<1>3. CASE IndexNext
  BY <1>3, CountStep, FetchStep, UndoStep, StoreStep, RestartStep DEF IndexNext
<1> QED
  BY <1>1, <1>2, <1>3 DEF Next
-----------------------------------------------------------------------------
(* "reorg-safe" (gbx-indexer.js:3): whatever branches the node takes while *)
(* syncTo undoes and stores blocks, and wherever it is stopped, the blocks *)
(* table is one branch and the utxos table is what its blocks say.         *)
THEOREM TheIndexIsABranch == Spec => []IndexIsABranch
<1>1. Init => Inv
  BY InitStep
<1>2. Inv /\ [Next]_vars => Inv'
  BY Invariance
<1>3. Inv => IndexIsABranch
  BY DEF Inv, IndexIsABranch
<1> QED
  BY <1>1, <1>2, <1>3, PTL DEF Spec
-----------------------------------------------------------------------------
Runs == [at : {"idle", "asked", "listed"}, coins : SUBSET Owned, listed : SUBSET Owned, tip : Nat]
AnswerSet == [coins : SUBSET Owned, due : SUBSET Owned, tip : Nat, unsure : SUBSET Owned]
Refreshes == [at : {"off", "asked", "listed"}, listed : SUBSET Owned]
Sets == [age : {"fresh", "recent", "old"}, data : SUBSET Owned, listed : SUBSET Owned]

(* The node and its index: no reward is taken before its time.             *)
Node ==
  /\ height \in 1..MaxTip /\ idx \in 0..height /\ spent \in [Owned -> 0..height] /\ pool \subseteq Owned
  /\ pool \subseteq MatureAt(height + 1)
  /\ \A c \in Owned : spent[c] # 0 => c \in MatureAt(height)

(* What was listed of the mempool is still there or in a block, and what a *)
(* set lacks of it is in a block.                                          *)
Seen(listed) == \A c \in listed : c \in pool \/ spent[c] # 0
Known(set) == set.data \subseteq set.listed /\ \A c \in set.listed \ set.data : spent[c] # 0
Mempool ==
  /\ mp \in Sets /\ Known(mp)
  /\ bg \in Refreshes /\ Seen(bg.listed) /\ refreshing \in BOOLEAN /\ (refreshing <=> bg.at # "off")
  /\ ctip \in [v : Nat, fresh : BOOLEAN] /\ ctip.v <= height

(* A coin of a listing made under a tip was unspent MaxLag blocks before.  *)
Recent(coins, t) == \A c \in coins : t # 0 /\ spent[c] # 0 => spent[c] > t - MaxLag

(* What a handler holds over its awaits: a sum was made of coins mature at *)
(* its tip; the index is at least where it was read; what is about to be   *)
(* listed is recent enough.                                                *)
Held(r, run) ==
  /\ Seen(run.listed)
  /\ asks[r] = "summary" => run.coins \subseteq MatureAt(run.tip) /\ run.tip <= height
  /\ asks[r] = "utxos" /\ run.at = "asked" => run.tip <= idx
  /\ asks[r] = "utxos" /\ run.at = "listed" => run.tip <= height /\ Recent(run.coins, run.tip)
Handlers == req \in [Reqs -> Runs] /\ \A r \in Reqs : Held(r, req[r])

(* What was answered, and is answered again from a cache.                  *)
Right(a) ==
  /\ a.tip <= height /\ a.coins \cap a.due = {} /\ Recent(a.coins, a.tip)
  /\ a.coins \subseteq MatureAt(height) \cup a.unsure
Answered == summaries \in AnswerSet /\ listings \in AnswerSet /\ Right(summaries) /\ Right(listings)

(* The rate kept tells when the last message was.                          *)
RateKept == posted = rate /\ ~doubled

ApiInv == Node /\ Mempool /\ Handlers /\ Answered /\ RateKept
-----------------------------------------------------------------------------
LEMMA Empties ==
  /\ Idle \in Runs /\ NoAnswer \in AnswerSet /\ NoRefresh \in Refreshes
  /\ ApiInv => Right(NoAnswer) /\ \A r \in Reqs : Held(r, Idle)
BY DEF Idle, NoAnswer, NoRefresh, Runs, AnswerSet, Refreshes, ApiInv, Node, Right, Recent, Held, Seen

LEMMA Initially == ApiInit => ApiInv
<1> SUFFICES ASSUME ApiInit PROVE ApiInv
  OBVIOUS
<1>1. Node
  BY Bounds DEF ApiInit, Node, MatureAt
<1>2. Mempool
  <2>1. mp \in Sets /\ mp.data = {} /\ mp.listed = {}
    BY DEF ApiInit, Sets
  <2>2. Known(mp)
    BY <2>1 DEF Known
  <2>3. bg \in Refreshes /\ bg.at = "off" /\ Seen(bg.listed) /\ refreshing = FALSE
    BY DEF ApiInit, Refreshes, NoRefresh, Seen
  <2>4. ctip \in [v : Nat, fresh : BOOLEAN] /\ ctip.v <= height
    BY DEF ApiInit
  <2> QED
    BY <2>1, <2>2, <2>3, <2>4 DEF Mempool
<1>3. Handlers
  BY <1>1 DEF ApiInit, Node, Handlers, Held, Seen, Idle, Runs
<1>4. Answered
  BY <1>1 DEF ApiInit, Node, Answered, AnswerSet, NoAnswer, Right, Recent
<1> QED
  BY <1>1, <1>2, <1>3, <1>4 DEF ApiInit, RateKept, ApiInv
-----------------------------------------------------------------------------
(* The node and the index move: what is spent stays so, and a spend is in  *)
(* a block above all there was.                                            *)
Onward ==
  /\ height' >= height /\ idx' >= idx
  /\ \A c \in Owned : spent'[c] = spent[c] \/ spent'[c] > height
  /\ \A c \in pool : c \in pool' \/ spent'[c] # 0

LEMMA NodeStep ==
  ASSUME ApiInv, Node', Onward, UNCHANGED <<cacheVars, asks, req>>
  PROVE  ApiInv'
<1>1. height \in Nat /\ height' \in Nat /\ idx \in Nat /\ idx' \in Nat /\ height <= height' /\ idx <= idx'
  BY DEF ApiInv, Node, Onward
<1>2. \A c \in Owned : spent[c] \in Nat /\ spent'[c] \in Nat /\ (spent[c] # 0 => spent'[c] # 0)
  BY <1>1 DEF ApiInv, Node, Onward
<1>3. ASSUME NEW S \in SUBSET Owned, Seen(S) PROVE Seen(S)'
  BY <1>2, <1>3 DEF Seen, Onward
<1>4. ASSUME NEW S \in SUBSET Owned, NEW t \in Nat, t <= height, Recent(S, t) PROVE Recent(S, t)'
  <2> SUFFICES ASSUME NEW c \in S, t # 0, spent'[c] # 0 PROVE spent'[c] > t - MaxLag
    BY DEF Recent
  <2>1. CASE spent'[c] = spent[c]
    BY <1>4, <2>1 DEF Recent
  <2>2. CASE spent'[c] > height
    BY <1>1, <1>2, <1>4, <2>2, Bounds
  <2> QED
    BY <2>1, <2>2 DEF Onward
<1>5. ASSUME NEW a \in AnswerSet, Right(a) PROVE Right(a)'
  <2>1. a.tip \in Nat /\ a.coins \in SUBSET Owned
    BY DEF AnswerSet
  <2>2. MatureAt(height) \subseteq MatureAt(height')
    BY <1>1, Bounds DEF MatureAt
  <2>3. Recent(a.coins, a.tip)'
    BY <1>4, <1>5, <2>1 DEF Right
  <2>4. a.tip <= height'
    BY <1>1, <1>5, <2>1 DEF Right
  <2>5. a.coins \subseteq MatureAt(height)' \cup a.unsure
    BY <1>5, <2>2 DEF Right, MatureAt
  <2> QED
    BY <1>5, <2>3, <2>4, <2>5 DEF Right
<1>6. Mempool'
  <2>1. Known(mp)'
    BY <1>2 DEF ApiInv, Mempool, Known, Sets, cacheVars, mpVars
  <2>2. Seen(bg.listed)'
    BY <1>3 DEF ApiInv, Mempool, Refreshes, cacheVars, mpVars
  <2>3. ctip.v <= height'
    BY <1>1 DEF ApiInv, Mempool
  <2> QED
    BY <2>1, <2>2, <2>3 DEF ApiInv, Mempool, cacheVars, mpVars
<1>7. Handlers'
  <2> SUFFICES ASSUME NEW r \in Reqs PROVE Held(r, req[r])'
    BY DEF ApiInv, Handlers
  <2>1. Held(r, req[r]) /\ req[r].listed \in SUBSET Owned /\ req[r].coins \in SUBSET Owned /\ req[r].tip \in Nat
    BY DEF ApiInv, Handlers, Runs
  <2>2. Seen(req[r].listed)'
    BY <1>3, <2>1 DEF Held
  <2>3. asks[r] = "summary" => req[r].tip <= height'
    BY <1>1, <2>1 DEF Held
  <2>4. asks[r] = "utxos" /\ req[r].at = "asked" => req[r].tip <= idx'
    BY <1>1, <2>1 DEF Held
  <2>5. asks[r] = "utxos" /\ req[r].at = "listed" => req[r].tip <= height'
    BY <1>1, <2>1 DEF Held
  <2>6. asks[r] = "utxos" /\ req[r].at = "listed" => Recent(req[r].coins, req[r].tip)'
    BY <1>4, <2>1 DEF Held
  <2> QED
    BY <2>1, <2>2, <2>3, <2>4, <2>5, <2>6 DEF Held, MatureAt
<1>8. Answered'
  BY <1>5 DEF ApiInv, Answered, cacheVars
<1> QED
  BY <1>6, <1>7, <1>8 DEF ApiInv, RateKept, cacheVars, chatVars

LEMMA Pays == ASSUME ApiInv, NEW c \in Owned, Pay(c) PROVE ApiInv'
<1>1. UNCHANGED <<height, spent, idx, cacheVars, asks, req>> /\ pool' = pool \cup {c} /\ c \in MatureAt(height + 1)
  BY DEF Pay
<1>2. Node' /\ Onward
  BY <1>1 DEF ApiInv, Node, Onward, MatureAt
<1> QED
  BY <1>1, <1>2, NodeStep

LEMMA Mines == ASSUME ApiInv, Mine PROVE ApiInv'
<1>1. UNCHANGED <<idx, cacheVars, asks, req>> /\ height < MaxTip /\ height' = height + 1
  BY DEF Mine
<1>2. PICK S \in SUBSET pool :
        /\ spent' = [c \in Owned |-> IF c \in S THEN height + 1 ELSE spent[c]]
        /\ pool' = pool \ S
  BY DEF Mine
<1>3. height \in Nat /\ height' \in 1..MaxTip /\ idx' \in 0..height' /\ height' = height + 1
  BY <1>1, Bounds DEF ApiInv, Node
<1>4. \A c \in Owned : spent'[c] = (IF c \in S THEN height + 1 ELSE spent[c])
  BY <1>2
<1>5. spent' \in [Owned -> 0..height']
  BY <1>2, <1>3 DEF ApiInv, Node
<1>6. Onward
  BY <1>1, <1>2, <1>3, <1>4 DEF Onward, ApiInv, Node
<1>7. MatureAt(height) \subseteq MatureAt(height') /\ MatureAt(height') \subseteq MatureAt(height' + 1)
  BY <1>3, Bounds DEF MatureAt
<1>8. pool' \subseteq MatureAt(height' + 1) /\ S \subseteq MatureAt(height')
  BY <1>2, <1>3, <1>7 DEF ApiInv, Node
<1>9. \A c \in Owned : spent'[c] # 0 => c \in MatureAt(height')
  BY <1>4, <1>7, <1>8 DEF ApiInv, Node
<1>10. Node'
  <2>1. pool' \subseteq Owned
    BY <1>2 DEF ApiInv, Node
  <2> QED
    BY <1>3, <1>5, <1>8, <1>9, <2>1 DEF Node, MatureAt
<1> QED
  BY <1>1, <1>6, <1>10, NodeStep

LEMMA Indexes == ASSUME ApiInv, IndexBlock PROVE ApiInv'
<1>1. UNCHANGED <<height, spent, pool, cacheVars, asks, req>> /\ idx < height /\ idx' = idx + 1
  BY DEF IndexBlock
<1>2. Node' /\ Onward
  BY <1>1 DEF ApiInv, Node, Onward, MatureAt
<1> QED
  BY <1>1, <1>2, NodeStep
-----------------------------------------------------------------------------
(* What a step of the API leaves alone.                                    *)
LEMMA MempoolStill == ASSUME ApiInv, UNCHANGED <<nodeVars, mpVars, ctip>> PROVE Mempool'
BY DEF ApiInv, Mempool, nodeVars, mpVars, Known, Seen

LEMMA AnswersStill == ASSUME ApiInv, UNCHANGED <<nodeVars, summaries, listings>> PROVE Answered'
BY DEF ApiInv, Answered, nodeVars, Right, Recent, MatureAt

(* A handler goes on with what it may hold, or replies.                    *)
LEMMA GoesOn ==
  ASSUME ApiInv, UNCHANGED nodeVars, NEW r \in Reqs, NEW run \in Runs, Held(r, run), Go(r, run)
  PROVE  Handlers'
<1>1. req \in [Reqs -> Runs] /\ req' = [req EXCEPT ![r] = run] /\ asks' = asks
  BY DEF ApiInv, Handlers, Go
<1>2. req' \in [Reqs -> Runs] /\ \A x \in Reqs : req'[x] = IF x = r THEN run ELSE req[x]
  BY <1>1
<1>3. ASSUME NEW x \in Reqs PROVE Held(x, req[x])' = Held(x, req'[x])
  BY <1>1 DEF Held, Seen, Recent, MatureAt, nodeVars
<1>4. \A x \in Reqs : Held(x, req'[x])
  BY <1>2 DEF ApiInv, Handlers
<1> QED
  BY <1>2, <1>3, <1>4 DEF Handlers

LEMMA Replies == ASSUME ApiInv, UNCHANGED nodeVars, NEW r \in Reqs, Reply(r) PROVE Handlers'
BY GoesOn, Empties DEF Reply, Go

(* A refresh publishes what it found of what it listed.                    *)
LEMMA PublishedKnown ==
  ASSUME ApiInv, NEW S \in SUBSET Owned, Seen(S), NEW G \in Fetched(S)
  PROVE  Published(G, S) \in Sets /\ Known(Published(G, S))
BY DEF Published, Fetched, Sets, Known, Seen

(* A summary made of coins mature at its tip subtracts what is pending.    *)
Sum(fast, t, set) ==
  [NoAnswer EXCEPT !.coins = Spendable(fast, t, set.data), !.due = set.listed \cap UnspentAt(height)]
LEMMA SumRight ==
  ASSUME ApiInv, NEW t \in Nat, t <= height, NEW fast \in SUBSET Owned, fast \subseteq MatureAt(t),
         NEW set \in Sets, Known(set)
  PROVE  Sum(fast, t, set) \in AnswerSet /\ Right(Sum(fast, t, set))
<1>1. PICK a : a = Sum(fast, t, set)
  OBVIOUS
<1>2. /\ a.coins = Spendable(fast, t, set.data) /\ a.due = set.listed \cap UnspentAt(height)
      /\ a.tip = 0 /\ a.unsure = {} /\ a \in AnswerSet
  BY <1>1 DEF Sum, NoAnswer, AnswerSet, Spendable, UnspentAt, Sets
<1>3. height \in Nat /\ idx \in Nat /\ idx <= height
  BY DEF ApiInv, Node
<1>4. MatureAt(t) \subseteq MatureAt(height)
  BY <1>3, Bounds DEF MatureAt
<1>5. a.coins \subseteq MatureAt(height) /\ Recent(a.coins, a.tip) /\ a.tip <= height
  BY <1>2, <1>3, <1>4 DEF Spendable, Recent
<1>6. UnspentAt(height) \subseteq UnspentAt(idx)
  BY <1>3 DEF UnspentAt, ApiInv, Node
<1>7. set.listed \cap UnspentAt(height) \subseteq set.data
  BY <1>3 DEF Known, UnspentAt, ApiInv, Node
<1>8. a.coins \cap a.due = {}
  BY <1>2, <1>6, <1>7 DEF Spendable
<1> QED
  BY <1>1, <1>2, <1>5, <1>8 DEF Right

LEMMA Summarised ==
  ASSUME ApiInv, UNCHANGED <<nodeVars, listings>>, NEW r \in Reqs,
         NEW t \in Nat, t <= height, NEW fast \in SUBSET Owned, fast \subseteq MatureAt(t),
         NEW set \in Sets, Known(set), Summarise(r, fast, t, set)
  PROVE  Answered' /\ Handlers'
<1>1. PICK a : a = Sum(fast, t, set)
  OBVIOUS
<1>2. summaries' = a /\ Reply(r)
  BY <1>1 DEF Summarise, Sum
<1>3. a \in AnswerSet /\ Right(a)
  BY <1>1, SumRight
<1>4. Right(a)' /\ Right(listings)'
  BY <1>3 DEF ApiInv, Answered, nodeVars, Right, Recent, MatureAt
<1>5. Answered'
  BY <1>2, <1>3, <1>4 DEF ApiInv, Answered
<1> QED
  BY <1>2, <1>5, Replies
-----------------------------------------------------------------------------
(* The caches and their ages.                                              *)
LEMMA Ages == ASSUME ApiInv, Older PROVE ApiInv'
<1>1. UNCHANGED <<nodeVars, refreshing, bg, doubled, asks, req>>
  BY DEF Older
<1>2. Handlers'
  BY <1>1 DEF ApiInv, Handlers, Held, Seen, Recent, MatureAt, nodeVars
<1>3. Mempool'
  <2>1. mp' \in Sets /\ mp'.data = mp.data /\ mp'.listed = mp.listed
    BY DEF Older, ApiInv, Mempool, Sets
  <2>2. ctip' \in [v : Nat, fresh : BOOLEAN] /\ ctip'.v = ctip.v
    BY DEF Older, ApiInv, Mempool
  <2>3. Known(mp)'
    BY <1>1, <2>1 DEF ApiInv, Mempool, Known, nodeVars
  <2> QED
    BY <1>1, <2>1, <2>2, <2>3 DEF ApiInv, Mempool, Seen, nodeVars
<1>4. Answered'
  <2>1. summaries' \in {summaries, NoAnswer} /\ listings' \in {listings, NoAnswer}
    BY DEF Older
  <2>2. ASSUME NEW a \in {summaries, listings, NoAnswer} PROVE a \in AnswerSet /\ Right(a) /\ Right(a)'
    BY <1>1, Empties DEF ApiInv, Answered, nodeVars, Right, Recent, MatureAt
  <2> QED
    BY <2>1, <2>2 DEF Answered
<1>5. RateKept'
  BY <1>1 DEF Older, ApiInv, RateKept
<1> QED
  BY <1>1, <1>2, <1>3, <1>4, <1>5 DEF ApiInv, Node, nodeVars, MatureAt
-----------------------------------------------------------------------------
(* A step of the API: the node stays, the rest is as it has to be.         *)
LEMMA ApiStep ==
  ASSUME ApiInv, UNCHANGED nodeVars, Mempool', Handlers', Answered', RateKept'
  PROVE  ApiInv'
BY DEF ApiInv, Node, nodeVars, MatureAt

LEMMA RateStill == ASSUME ApiInv, UNCHANGED chatVars PROVE RateKept'
BY DEF ApiInv, RateKept, chatVars

(* The refresh behind an answer.                                           *)
LEMMA BackgroundStep == ASSUME ApiInv, Background PROVE ApiInv'
<1>1. UNCHANGED <<nodeVars, summaries, listings, ctip, chatVars, asks, req>>
  BY DEF Background, BgList, BgPublish, BgFails
<1>2. Handlers'
  BY <1>1 DEF ApiInv, Handlers, Held, Seen, Recent, MatureAt, nodeVars
<1>3. CASE BgList
  <2>1. bg' \in Refreshes /\ bg'.at # "off" /\ bg.at # "off" /\ Seen(bg'.listed)
    BY <1>3 DEF BgList, ApiInv, Node, Refreshes, Seen
  <2>2. mp' = mp /\ refreshing' = refreshing
    BY <1>3 DEF BgList
  <2>3. Mempool'
    BY <1>1, <2>1, <2>2 DEF ApiInv, Mempool, nodeVars, Known, Seen
  <2> QED
    BY <1>1, <1>2, <2>3, AnswersStill, RateStill, ApiStep
<1>4. CASE BgPublish
  <2>1. PICK G \in Fetched(bg.listed) : mp' = Published(G, bg.listed)
    BY <1>4 DEF BgPublish
  <2>2. Published(G, bg.listed) \in Sets /\ Known(Published(G, bg.listed))
    BY <2>1, PublishedKnown DEF ApiInv, Mempool, Refreshes
  <2>3. bg' \in Refreshes /\ bg'.at = "off" /\ Seen(bg'.listed) /\ refreshing' = FALSE
    BY <1>4 DEF BgPublish, NoRefresh, Refreshes, Seen
  <2>4. mp' \in Sets /\ Known(mp)'
    BY <1>1, <2>1, <2>2 DEF Known, nodeVars
  <2>5. Mempool'
    BY <1>1, <2>3, <2>4 DEF ApiInv, Mempool, nodeVars, Seen
  <2> QED
    BY <1>1, <1>2, <2>5, AnswersStill, RateStill, ApiStep
<1>5. CASE BgFails
  <2>1. bg' \in Refreshes /\ bg'.at = "off" /\ Seen(bg'.listed) /\ refreshing' = FALSE /\ mp' = mp
    BY <1>5 DEF BgFails, NoRefresh, Refreshes, Seen, AfterFailure
  <2>2. Mempool'
    BY <1>1, <2>1 DEF ApiInv, Mempool, nodeVars, Known, Seen
  <2> QED
    BY <1>1, <1>2, <2>2, AnswersStill, RateStill, ApiStep
<1> QED
  BY <1>3, <1>4, <1>5 DEF Background
-----------------------------------------------------------------------------
(* The summary of an address.                                              *)
LEMMA AsksSummary == ASSUME ApiInv, NEW r \in Reqs, AskSummary(r) PROVE ApiInv'
<1>1. UNCHANGED <<nodeVars, mp, listings, ctip, chatVars>>
  BY DEF AskSummary
<1>2. PICK fast : fast = UnspentAt(idx) \cap MatureAt(idx)
  OBVIOUS
<1>3. /\ fast \in SUBSET Owned /\ fast \subseteq MatureAt(idx) /\ idx \in Nat /\ idx <= height
  BY <1>2 DEF UnspentAt, ApiInv, Node
<1>4. /\ mp \in Sets /\ Known(mp)
  BY DEF ApiInv, Mempool
<1>5. CASE Reply(r) /\ UNCHANGED <<summaries, refreshing, bg>>
  BY <1>1, <1>5, Replies, MempoolStill, AnswersStill, RateStill, ApiStep DEF mpVars
<1>6. CASE Summarise(r, fast, idx, mp) /\ IF mp.age = "recent" /\ ~refreshing
                 THEN refreshing' = TRUE /\ bg' = [NoRefresh EXCEPT !.at = "asked"]
                 ELSE UNCHANGED <<refreshing, bg>>
  <2>1. Answered' /\ Handlers'
    BY <1>1, <1>3, <1>4, <1>6, Summarised
  <2>2. bg' \in Refreshes /\ refreshing' \in BOOLEAN /\ (refreshing' <=> bg'.at # "off") /\ Seen(bg'.listed)
    BY <1>6 DEF ApiInv, Mempool, NoRefresh, Refreshes, Seen
  <2>3. Mempool'
    BY <1>1, <2>2 DEF ApiInv, Mempool, nodeVars, Known, Seen
  <2> QED
    BY <1>1, <2>1, <2>3, RateStill, ApiStep
<1>7. CASE Go(r, [Idle EXCEPT !.at = "asked", !.coins = fast, !.tip = idx]) /\ UNCHANGED <<summaries, refreshing, bg>>
  <2>1. PICK run : run = [Idle EXCEPT !.at = "asked", !.coins = fast, !.tip = idx]
    OBVIOUS
  <2>2. run \in Runs /\ run.at = "asked" /\ run.coins = fast /\ run.tip = idx /\ run.listed = {}
    BY <1>3, <2>1 DEF Idle, Runs
  <2>3. Held(r, run)
    BY <1>3, <2>2 DEF Held, Seen
  <2>4. Handlers'
    BY <1>1, <1>7, <2>1, <2>2, <2>3, GoesOn
  <2> QED
    BY <1>1, <1>7, <2>4, MempoolStill, AnswersStill, RateStill, ApiStep DEF mpVars
<1> QED
  BY <1>2, <1>5, <1>6, <1>7 DEF AskSummary

LEMMA ListsMempool == ASSUME ApiInv, NEW r \in Reqs, ListMempool(r) PROVE ApiInv'
<1>1. UNCHANGED <<nodeVars, cacheVars>> /\ asks[r] = "summary"
  BY DEF ListMempool, Running
<1>2. req[r] \in Runs /\ Held(r, req[r])
  BY DEF ApiInv, Handlers
<1>3. PICK run : run = [req[r] EXCEPT !.at = "listed", !.listed = pool]
  OBVIOUS
<1>4. run \in Runs /\ run.at = "listed" /\ run.listed = pool /\ run.coins = req[r].coins /\ run.tip = req[r].tip
  BY <1>2, <1>3 DEF Runs, ApiInv, Node
<1>5. Held(r, run)
  BY <1>1, <1>2, <1>4 DEF Held, Seen
<1>6. Handlers'
  BY <1>1, <1>3, <1>4, <1>5, GoesOn DEF ListMempool
<1> QED
  BY <1>1, <1>6, MempoolStill, AnswersStill, RateStill, ApiStep DEF cacheVars

LEMMA FinishesSummary == ASSUME ApiInv, NEW r \in Reqs, FinishSummary(r) PROVE ApiInv'
<1>1. UNCHANGED <<nodeVars, refreshing, bg, listings, ctip, chatVars>> /\ asks[r] = "summary"
  BY DEF FinishSummary, Running
<1>2. req[r] \in Runs /\ Held(r, req[r])
  BY DEF ApiInv, Handlers
<1>3. /\ req[r].tip \in Nat /\ req[r].tip <= height /\ req[r].coins \in SUBSET Owned
      /\ req[r].coins \subseteq MatureAt(req[r].tip) /\ req[r].listed \in SUBSET Owned /\ Seen(req[r].listed)
  BY <1>1, <1>2 DEF Runs, Held
<1>4. PICK G \in Fetched(req[r].listed) :
        /\ mp' = Published(G, req[r].listed)
        /\ Summarise(r, req[r].coins, req[r].tip, Published(G, req[r].listed))
  BY DEF FinishSummary
<1>5. Published(G, req[r].listed) \in Sets /\ Known(Published(G, req[r].listed))
  BY <1>3, <1>4, PublishedKnown
<1>6. Answered' /\ Handlers'
  BY <1>1, <1>3, <1>4, <1>5, Summarised
<1>7. mp' \in Sets /\ Known(mp)'
  BY <1>1, <1>4, <1>5 DEF Known, nodeVars
<1>8. Mempool'
  BY <1>1, <1>7 DEF ApiInv, Mempool, nodeVars, Seen
<1> QED
  BY <1>1, <1>6, <1>8, RateStill, ApiStep

LEMMA FailsSummary == ASSUME ApiInv, NEW r \in Reqs, SummaryFails(r) PROVE ApiInv'
BY Replies, MempoolStill, AnswersStill, RateStill, ApiStep DEF SummaryFails, cacheVars
-----------------------------------------------------------------------------
(* The coins of an address.                                                *)
LEMMA Lists ==
  ASSUME ApiInv, UNCHANGED nodeVars, NEW r \in Reqs, asks[r] = "utxos", NEW i \in Nat, i <= idx, NEW t \in Nat, t <= height, List(r, i, t)
  PROVE  Handlers'
<1>1. CASE Reply(r)
  BY <1>1, Replies
<1>2. CASE ~Reply(r)
  <2>1. PICK run : run = [Idle EXCEPT !.at = "listed", !.coins = UnspentAt(idx), !.tip = IF i = 0 THEN 0 ELSE t]
    OBVIOUS
  <2>2. /\ ~(i # 0 /\ t # 0 /\ t - i > MaxLag) /\ Go(r, run)
    BY <1>2, <2>1 DEF List, Behind
  <2>3. /\ run \in Runs /\ run.at = "listed" /\ run.coins = UnspentAt(idx) /\ run.listed = {}
        /\ run.tip = IF i = 0 THEN 0 ELSE t
    BY <2>1 DEF Runs, Idle, UnspentAt
  <2>4. ASSUME NEW c \in run.coins, run.tip # 0, spent[c] # 0 PROVE spent[c] > run.tip - MaxLag
    <3>1. spent[c] \in Nat /\ spent[c] > idx /\ idx \in Nat
      BY <2>3, <2>4 DEF UnspentAt, ApiInv, Node
    <3>2. run.tip = t /\ t - i <= MaxLag
      BY <2>2, <2>3, <2>4, Bounds
    <3> QED
      BY <3>1, <3>2, Bounds
  <2>5. Recent(run.coins, run.tip)
    BY <2>4 DEF Recent
  <2>6. run.tip <= height
    BY <2>3 DEF ApiInv, Node
  <2>7. Held(r, run)
    BY <2>3, <2>5, <2>6 DEF Held, Seen
  <2> QED
    BY <2>2, <2>7, <2>3, <2>5, GoesOn
<1> QED
  BY <1>1, <1>2

LEMMA AsksUtxos == ASSUME ApiInv, NEW r \in Reqs, AskUtxos(r) PROVE ApiInv'
<1>1. UNCHANGED <<nodeVars, cacheVars>> /\ asks[r] = "utxos"
  BY DEF AskUtxos, Starts
<1>2. idx \in Nat /\ idx <= height /\ ctip.v \in Nat /\ ctip.v <= height
  BY DEF ApiInv, Node, Mempool
<1>3. CASE Reply(r)
  BY <1>1, <1>3, Replies, MempoolStill, AnswersStill, RateStill, ApiStep DEF cacheVars
<1>4. CASE List(r, idx, ctip.v)
  BY <1>1, <1>2, <1>4, Lists, MempoolStill, AnswersStill, RateStill, ApiStep DEF cacheVars
<1>5. CASE Go(r, [Idle EXCEPT !.at = "asked", !.tip = idx])
  <2>1. PICK run : run = [Idle EXCEPT !.at = "asked", !.tip = idx]
    OBVIOUS
  <2>2. run \in Runs /\ run.at = "asked" /\ run.coins = {} /\ run.tip = idx /\ run.listed = {}
    BY <1>2, <2>1 DEF Idle, Runs
  <2>3. Held(r, run)
    BY <1>2, <2>2 DEF Held, Seen
  <2>4. Handlers'
    BY <1>1, <1>5, <2>1, <2>2, <2>3, GoesOn
  <2> QED
    BY <1>1, <2>4, MempoolStill, AnswersStill, RateStill, ApiStep DEF cacheVars
<1> QED
  BY <1>3, <1>4, <1>5 DEF AskUtxos

LEMMA HearsTip == ASSUME ApiInv, NEW r \in Reqs, TipAnswered(r) PROVE ApiInv'
<1>1. UNCHANGED <<nodeVars, mpVars, summaries, listings, chatVars>> /\ asks[r] = "utxos" /\ req[r].at = "asked"
  BY DEF TipAnswered, Running
<1>2. req[r] \in Runs /\ Held(r, req[r])
  BY DEF ApiInv, Handlers
<1>3. req[r].tip \in Nat /\ req[r].tip <= idx
  BY <1>1, <1>2 DEF Runs, Held
<1>4. ctip' \in [v : Nat, fresh : BOOLEAN] /\ ctip'.v <= height
  <2>1. CASE ctip' = [v |-> height, fresh |-> TRUE]
    BY <2>1 DEF ApiInv, Node
  <2>2. CASE UNCHANGED ctip
    BY <2>2 DEF ApiInv, Mempool
  <2> QED
    BY <2>1, <2>2 DEF TipAnswered
<1>5. PICK t : t = ctip'.v
  OBVIOUS
<1>6. t \in Nat /\ t <= height /\ List(r, req[r].tip, t)
  BY <1>4, <1>5 DEF TipAnswered
<1>7. Handlers'
  BY <1>1, <1>3, <1>6, Lists
<1>8. Mempool'
  BY <1>1, <1>4 DEF ApiInv, Mempool, nodeVars, mpVars, Known, Seen
<1> QED
  BY <1>1, <1>7, <1>8, AnswersStill, RateStill, ApiStep

LEMMA FinishesUtxos == ASSUME ApiInv, NEW r \in Reqs, FinishUtxos(r) PROVE ApiInv'
<1>1. UNCHANGED <<nodeVars, mpVars, summaries, ctip, chatVars>> /\ asks[r] = "utxos" /\ req[r].at = "listed"
  BY DEF FinishUtxos, Running
<1>2. req[r] \in Runs /\ Held(r, req[r])
  BY DEF ApiInv, Handlers
<1>3. /\ req[r].tip \in Nat /\ req[r].tip <= height /\ req[r].coins \in SUBSET Owned
      /\ Recent(req[r].coins, req[r].tip)
  BY <1>1, <1>2 DEF Runs, Held
<1>4. PICK failed \in SUBSET (req[r].coins \cap LookedUp) :
        LET rewards == {c \in (Rewards \cap LookedUp) \ failed : spent[c] = 0}
            a == [NoAnswer EXCEPT !.coins = req[r].coins \ rewards, !.tip = req[r].tip, !.unsure = failed] IN
        Reply(r) /\ listings' = a
  BY DEF FinishUtxos
<1>5. PICK rewards : rewards = {c \in (Rewards \cap LookedUp) \ failed : spent[c] = 0}
  OBVIOUS
<1>6. PICK a : a = [NoAnswer EXCEPT !.coins = req[r].coins \ rewards, !.tip = req[r].tip, !.unsure = failed]
  OBVIOUS
<1>7. Reply(r) /\ listings' = a
  BY <1>4, <1>5, <1>6
<1>8. /\ a \in AnswerSet /\ a.coins = req[r].coins \ rewards /\ a.tip = req[r].tip
      /\ a.unsure = failed /\ a.due = {}
  BY <1>3, <1>4, <1>6 DEF NoAnswer, AnswerSet
<1>9. ASSUME NEW c \in a.coins, c \notin failed PROVE c \in MatureAt(height)
  <2>1. c \in Owned /\ (c \in Rewards /\ c \in LookedUp => spent[c] # 0)
    BY <1>3, <1>5, <1>8, <1>9
  <2>2. CASE spent[c] # 0
    BY <2>1, <2>2 DEF ApiInv, Node
  <2>3. CASE c \notin Rewards
    BY <2>1, <2>3 DEF MatureAt
  <2>4. CASE c \notin LookedUp
    <3>1. c \in MatureAt(idx)
      BY <2>1, <2>4 DEF LookedUp
    <3> QED
      BY <3>1, Bounds DEF MatureAt, ApiInv, Node
  <2> QED
    BY <2>1, <2>2, <2>3, <2>4
<1>10. Recent(a.coins, a.tip) /\ a.tip <= height /\ a.coins \cap a.due = {}
  BY <1>3, <1>8 DEF Recent
<1>11. Right(a)
  BY <1>8, <1>9, <1>10 DEF Right
<1>12. Right(a)' /\ Right(summaries)'
  BY <1>1, <1>11 DEF ApiInv, Answered, nodeVars, Right, Recent, MatureAt
<1>13. Answered'
  BY <1>1, <1>7, <1>8, <1>12 DEF ApiInv, Answered
<1> QED
  BY <1>1, <1>7, <1>13, Replies, MempoolStill, RateStill, ApiStep
-----------------------------------------------------------------------------
(* The chat.                                                               *)
LEMMA Posts == ASSUME ApiInv, NEW r \in Reqs, PostChat(r) PROVE ApiInv'
<1>1. UNCHANGED <<nodeVars, mpVars, summaries, listings, ctip>>
  BY DEF PostChat
<1>2. PICK run : run = [Idle EXCEPT !.at = "asked"]
  OBVIOUS
<1>3. run \in Runs /\ Held(r, run)
  BY <1>2 DEF Idle, Runs, Held, Seen, ApiInv, Node, MatureAt
<1>4. Handlers'
  BY <1>1, <1>2, <1>3, GoesOn, Replies DEF PostChat, Take
<1>5. RateKept'
  <2>1. CASE UNCHANGED chatVars
    BY <2>1, RateStill
  <2>2. CASE rate # "recent" /\ Take(r, TRUE)
    <3>1. posted # "recent" /\ ~doubled
      BY <2>2 DEF ApiInv, RateKept
    <3>2. posted' = "recent" /\ rate' = "recent" /\ (doubled' <=> doubled \/ posted = "recent")
      BY <2>2 DEF Take, RateSet
    <3> QED
      BY <3>1, <3>2 DEF RateKept
  <2> QED
    BY <2>1, <2>2 DEF PostChat
<1> QED
  BY <1>1, <1>4, <1>5, MempoolStill, AnswersStill, ApiStep

LEMMA Loads == ASSUME ApiInv, NEW r \in Reqs, LibLoaded(r) PROVE ApiInv'
<1>1. UNCHANGED <<nodeVars, mpVars, summaries, listings, ctip>> /\ Take(r, FALSE)
  BY DEF LibLoaded
<1>2. Handlers' /\ RateKept'
  BY <1>1, Replies DEF Take, RateSet, ApiInv, RateKept
<1> QED
  BY <1>1, <1>2, MempoolStill, AnswersStill, ApiStep
-----------------------------------------------------------------------------
LEMMA ApiKeeps == ApiInv /\ [ApiNext]_apiVars => ApiInv'
<1> SUFFICES ASSUME ApiInv, [ApiNext]_apiVars PROVE ApiInv'
  OBVIOUS
<1>1. CASE UNCHANGED apiVars
  <2>1. UNCHANGED <<nodeVars, cacheVars, asks, req>>
    BY <1>1 DEF apiVars
  <2>2. Handlers'
    BY <2>1 DEF ApiInv, Handlers, Held, Seen, Recent, MatureAt, nodeVars
  <2> QED
    BY <2>1, <2>2, MempoolStill, AnswersStill, RateStill, ApiStep DEF cacheVars
<1>2. ASSUME NEW r \in Reqs, Ask(r) PROVE ApiInv'
  BY <1>2, AsksSummary, AsksUtxos, Posts DEF Ask
<1>3. ASSUME NEW r \in Reqs, Progress(r) PROVE ApiInv'
  BY <1>3, ListsMempool, FinishesSummary, FailsSummary, HearsTip, FinishesUtxos, Loads DEF Progress
<1> QED
  BY <1>1, <1>2, <1>3, BackgroundStep, Pays, Mines, Indexes, Ages DEF ApiNext

LEMMA ApiIsRight == ApiSpec => []ApiInv
BY Initially, ApiKeeps, PTL DEF ApiSpec

(* What /api/address and /api/utxos offer to spend is not pending, not     *)
(* long spent and not immature, from any cache and behind any index.       *)
THEOREM OffersAreSpendable == ApiSpec => []AnswersSpendable
<1>1. ApiInv => AnswersSpendable
  <2> SUFFICES ASSUME ApiInv PROVE AnswersSpendable
    OBVIOUS
  <2>1. ApiTypeOK
    BY DEF ApiInv, Node, Mempool, Sets, Known, ApiTypeOK
  <2>2. Right(summaries) /\ Right(listings)
    BY DEF ApiInv, Answered
  <2>3. PendingNotSpendable
    BY <2>2 DEF Right, PendingNotSpendable, Answers
  <2>4. ListingsWithinLag
    BY <2>2 DEF Right, Recent, ListingsWithinLag, Answers
  <2>5. ImmatureNotOffered
    BY <2>2 DEF Right, ImmatureNotOffered, Answers
  <2> QED
    BY <2>1, <2>3, <2>4, <2>5 DEF AnswersSpendable
<1> QED
  BY <1>1, ApiIsRight, PTL

(* A creator's second message within ten minutes comes only from a request *)
(* that was checked while the library was loading (POST /api/chat).        *)
THEOREM OneMessageAtATime == ApiSpec => []OneMessagePerWindow
<1>1. ApiInv => OneMessagePerWindow
  BY DEF ApiInv, RateKept, OneMessagePerWindow
<1> QED
  BY <1>1, ApiIsRight, PTL
-----------------------------------------------------------------------------
(* The L1 half of the trade index.  A spend has its leg; a height of the   *)
(* node's chain is settled when its block was passed or leapt over, or its  *)
(* spends have their legs.                                                 *)
Legged(b) == \A c \in Uses[b] \cap Htlcs : legs[HashlockOf[c]] # NoLeg
Settled(i) == Chain[i] \in passed \cup leapt \/ Legged(Chain[i])
IsOrPassed(b, i) == b = Chain[i] \/ Chain[i] \in passed

Places ==
  /\ cursor \in 0..Len(Chain) /\ seenTip \in 0..Len(Chain) /\ Len(stored) <= Len(Chain)
  /\ work \subseteq 1..Len(Chain) /\ passed \cup leapt \subseteq Blocks
Legs == \A k \in Hashlocks : legs[k].coin \in Htlcs \cup {None} /\ legs[k].kind \in {"none", "claim", "refund"}
Stages ==
  /\ at \in {"l1", "query", "empty", "fetch", "leg", "mark", "evm", "scan", "cursor", "settled"}
  /\ (work # {}) <=> (at \in {"fetch", "leg", "mark"})
  /\ (block # None) <=> (at \in {"leg", "mark"})
(* The address index follows the node's chain, up to blocks passed.        *)
Follows ==
  /\ \A i \in DOMAIN stored : IsOrPassed(stored[i], i)
  /\ held # None => IsOrPassed(held, next)
(* Below the cursor, and between the heights of the list; the block in     *)
(* hand is that of the lowest; and below where the cursor will jump.       *)
Below1 == \A i \in 1..cursor : Settled(i)
InList == at \in {"fetch", "leg", "mark"} =>
            \A i \in 1..Len(Chain) : i \notin work /\ (\E h \in work : i <= h) => Settled(i)
InHand == at \in {"leg", "mark"} => IsOrPassed(block, Min(work)) /\ block \in Blocks /\ (at = "mark" => Legged(block))
InJump == at = "empty" => \A i \in DOMAIN stored : i <= seenTip => Settled(i)
L1Inv == Places /\ Legs /\ Stages /\ Follows /\ Below1 /\ InList /\ InHand /\ InJump

(* The EVM half.                                                           *)
Noted(e) == IF e.kind = "locked" THEN e.lock \in mapped ELSE ended[e.lock] = e.kind
OfTopic(e) == IF e.kind = "locked" THEN "locked" ELSE "settled"
To(topic) == IF topic = "locked" THEN lockedTo ELSE settledTo
EvmPlaces ==
  /\ evm \in Seq(SUBSET [kind : Kinds, lock : Locks]) /\ Len(evm) \in 1..MaxEvm /\ OneEnd(evm)
  /\ mapped \subseteq Locks /\ lockedTo \in 0..Len(evm) /\ settledTo \in 0..Len(evm)
Noticed == \A i \in DOMAIN evm : \A e \in evm[i] :
             i <= To(OfTopic(e)) /\ <<OfTopic(e), i>> \notin blind => Noted(e)
Scanning == at \in {"scan", "cursor"} =>
  /\ scan \in [topic : {"locked", "settled"}, from : 1..Len(evm) + 1, latest : 0..Len(evm),
              out : SUBSET [kind : Kinds, lock : Locks]]
  /\ \A e \in scan.out : OfTopic(e) = scan.topic /\ \E i \in DOMAIN evm : e \in evm[i]
  /\ \A i \in DOMAIN evm : \A e \in evm[i] :
       OfTopic(e) = scan.topic /\ i < scan.from /\ <<scan.topic, i>> \notin blind =>
         Noted(e) \/ (at = "scan" /\ e \in scan.out)
  /\ at = "cursor" => scan.from > scan.latest
EvmInv == EvmPlaces /\ Noticed /\ Scanning
-----------------------------------------------------------------------------
(* A branch holds the branches of its blocks.                              *)
LEMMA BranchOfPart ==
  ASSUME NEW b \in Blocks, NEW i \in DOMAIN Branch[b]
  PROVE  Branch[b][i] \in Blocks /\ Branch[Branch[b][i]] = SubSeq(Branch[b], 1, i)
<1> DEFINE Part(x) == \A j \in DOMAIN Branch[x] : Branch[Branch[x][j]] = SubSeq(Branch[x], 1, j)
           Bad == {n \in Nat : \E x \in Blocks : Len(Branch[x]) = n /\ ~Part(x)}
<1>1. Bad = {}
  <2> SUFFICES ASSUME Bad # {} PROVE FALSE
    OBVIOUS
  <2>1. PICK n \in Bad : \A m \in Bad : n <= m
    BY LeastMember
  <2>2. PICK x \in Blocks : Len(Branch[x]) = n /\ ~Part(x)
    BY <2>1
  <2>3. PICK j \in DOMAIN Branch[x] : Branch[Branch[x][j]] # SubSeq(Branch[x], 1, j)
    BY <2>2
  <2>4. Branch[x] \in Seq(Blocks) /\ Len(Branch[x]) \in Nat \ {0} /\ Branch[x][Len(Branch[x])] = x
    BY BranchEnds
  <2>5. j \in 1..Len(Branch[x])
    BY <2>4
  <2>6. j # Len(Branch[x])
    <3>1. SubSeq(Branch[x], 1, Len(Branch[x])) = Branch[x]
      BY <2>4
    <3> QED
      BY <2>3, <2>4, <3>1
  <2>7. PICK p : p = Parent[x]
    OBVIOUS
  <2>8. p \in Blocks /\ Branch[p] \in Seq(Blocks) /\ Branch[x] = Append(Branch[p], x)
    <3>1. Len(Branch[x]) # 1
      BY <2>4, <2>5, <2>6
    <3>2. Parent[x] # None
      BY <3>1, Longer
    <3>3. Branch[x] = IF Parent[x] = None THEN <<x>> ELSE Append(Branch[Parent[x]], x)
      BY TreeAssumption
    <3>4. p \in Blocks
      BY <2>7, <3>2, TreeAssumption
    <3> QED
      BY <2>7, <3>2, <3>3, <3>4, BranchEnds
  <2>9. Len(Branch[p]) = n - 1 /\ j \in 1..Len(Branch[p]) /\ Branch[x][j] = Branch[p][j]
    BY <2>2, <2>5, <2>6, <2>8
  <2>10. Part(p)
    <3>1. Len(Branch[p]) \in Nat /\ ~(n <= Len(Branch[p]))
      BY <2>8, <2>9
    <3>2. Len(Branch[p]) \notin Bad
      BY <2>1, <3>1
    <3> QED
      BY <2>8, <3>1, <3>2
  <2>11. Branch[Branch[p][j]] = SubSeq(Branch[p], 1, j)
    <3>1. j \in DOMAIN Branch[p]
      BY <2>8, <2>9
    <3> QED
      BY <2>10, <3>1, Zenon
  <2>12. SubSeq(Branch[p], 1, j) = SubSeq(Branch[x], 1, j)
    <3>1. Branch[p] \in Seq(Blocks) /\ x \in Blocks /\ j \in Nat /\ j <= Len(Branch[p])
      BY <2>5, <2>8, <2>9
    <3>2. ASSUME NEW S, NEW s \in Seq(S), NEW y \in S, NEW k \in Nat, k <= Len(s)
          PROVE  SubSeq(Append(s, y), 1, k) = SubSeq(s, 1, k)
      BY <3>2, AppendedBeginning, Zenon
    <3>3. SubSeq(Append(Branch[p], x), 1, j) = SubSeq(Branch[p], 1, j)
      BY <3>1, <3>2, Zenon
    <3> QED
      BY <2>8, <3>3, Zenon
  <2> QED
    BY <2>3, <2>9, <2>11, <2>12
<1>2. Len(Branch[b]) \in Nat /\ Branch[b] \in Seq(Blocks)
  BY BranchEnds
<1> QED
  BY <1>1, <1>2

(* A block has one height, and two branches that share a block share what  *)
(* is before it.                                                           *)
LEMMA OneHeight ==
  ASSUME NEW a \in Blocks, NEW b \in Blocks, NEW i \in DOMAIN Branch[a], NEW j \in DOMAIN Branch[b],
         Branch[a][i] = Branch[b][j]
  PROVE  i = j /\ \A k \in 1..i : Branch[a][k] = Branch[b][k]
<1>1. Branch[a] \in Seq(Blocks) /\ Branch[b] \in Seq(Blocks)
  BY BranchEnds
<1>2. SubSeq(Branch[a], 1, i) = SubSeq(Branch[b], 1, j)
  BY BranchOfPart
<1>3. i \in 1..Len(Branch[a]) /\ j \in 1..Len(Branch[b])
  BY <1>1
<1>4. Len(SubSeq(Branch[a], 1, i)) = i /\ Len(SubSeq(Branch[b], 1, j)) = j
  BY <1>1, <1>3
<1>5. \A k \in 1..i : SubSeq(Branch[a], 1, i)[k] = Branch[a][k]
  BY <1>1, <1>3
<1>6. \A k \in 1..j : SubSeq(Branch[b], 1, j)[k] = Branch[b][k]
  BY <1>1, <1>3
<1> QED
  BY <1>2, <1>4, <1>5, <1>6
-----------------------------------------------------------------------------
(* What the address index says of a spend in a block it has.               *)
LEMMA SpendHasRow ==
  ASSUME Inv, NEW i \in DOMAIN stored, NEW c \in Uses[stored[i]] \cap Htlcs
  PROVE  \E r \in utxos : r.coin = c /\ r.spent = i
<1>1. stored \in Seq(Blocks) /\ stored # <<>>
  BY DEF Inv, TypeOK
<1>2. PICK l \in Blocks : stored = Branch[l]
  <2>1. stored[Len(stored)] \in Blocks
    BY <1>1
  <2> QED
    BY <1>1, <2>1 DEF Inv, OneBranch
<1>3. PICK b \in Blocks : b = stored[i]
  BY <1>1
<1>4. Branch[b] = SubSeq(stored, 1, i) /\ i \in 1..Len(stored)
  BY <1>1, <1>2, <1>3, BranchOfPart
<1>5. PICK j \in DOMAIN Branch[b] : c \in Adds[Branch[b][j]]
  BY <1>3, TradeAssumption
<1>6. j \in DOMAIN stored /\ Branch[b][j] = stored[j]
  BY <1>1, <1>4
<1>7. PICK r \in utxos : r.coin = c
  BY <1>5, <1>6 DEF Inv, UtxosMatchBlocks
<1>8. i \in SpentIn(stored, c)
  BY DEF SpentIn
<1>9. r.spent = i
  BY <1>7, <1>8 DEF Inv, UtxosMatchBlocks
<1> QED
  BY <1>7, <1>9

LEMMA SpendHeightsAreStored ==
  ASSUME Inv, L1Inv
  PROVE  /\ SpendHeights \subseteq DOMAIN stored /\ SpendHeights \subseteq cursor + 1 .. seenTip
         /\ \A i \in DOMAIN stored : cursor < i /\ i <= seenTip /\ i \notin SpendHeights => Settled(i)
<1>1. cursor \in Nat /\ seenTip \in Nat
  BY BranchEnds DEF L1Inv, Places, Inv, TypeOK, Chain
<1>2. ASSUME NEW r \in utxos, r.spent > cursor, r.spent <= seenTip
      PROVE  r.spent \in DOMAIN stored /\ r.spent \in cursor + 1 .. seenTip
  <2>1. r.spent \in Nat
    BY DEF Inv, TypeOK
  <2>2. r.spent # 0 /\ r.spent \in cursor + 1 .. seenTip
    BY <1>1, <1>2, <2>1
  <2>3. SpentIn(stored, r.coin) = {r.spent}
    BY <2>2 DEF Inv, UtxosMatchBlocks
  <2>4. r.spent \in SpentIn(stored, r.coin)
    BY <2>3
  <2> QED
    BY <2>2, <2>4 DEF SpentIn
<1>3. ASSUME NEW i \in DOMAIN stored, cursor < i, i <= seenTip, i \notin SpendHeights PROVE Settled(i)
  <2>1. Uses[stored[i]] \cap Htlcs = {}
    <3> SUFFICES ASSUME NEW c \in Uses[stored[i]] \cap Htlcs PROVE FALSE
      OBVIOUS
    <3>1. PICK r \in utxos : r.coin = c /\ r.spent = i
      BY SpendHasRow
    <3>2. i \in Nat
      BY DEF Inv, TypeOK
    <3>3. r.spent > cursor /\ r.spent <= seenTip
      BY <1>1, <1>3, <3>1, <3>2
    <3> QED
      BY <1>3, <3>1, <3>3 DEF SpendHeights
  <2>2. IsOrPassed(stored[i], i)
    BY DEF L1Inv, Follows
  <2> QED
    BY <2>1, <2>2 DEF IsOrPassed, Settled, Legged
<1> QED
  BY <1>2, <1>3 DEF SpendHeights

(* The lowest of a set that is not empty are some, and below them there is *)
(* no other.                                                               *)
LEMMA LowestOnes ==
  ASSUME NEW N \in Nat, NEW S \in SUBSET (1..N), NEW W, W = Lowest(Limit, S)
  PROVE  /\ W \subseteq S /\ (S # {} => W # {})
         /\ \A h \in W : \A i \in S : i <= h => i \in W
<1>1. W = {h \in S : Cardinality({g \in S : g < h}) < Limit}
  BY DEF Lowest
<1>2. Limit \in Nat \ {0}
  BY TradeAssumption
<1>3. S \in SUBSET Nat /\ IsFiniteSet(S)
  <2>1. IsFiniteSet(1..N)
    BY FS_Interval
  <2>2. S \subseteq 1..N
    OBVIOUS
  <2>3. IsFiniteSet(S)
    BY <2>1, <2>2, FS_Subset
  <2>4. 1..N \subseteq Nat
    OBVIOUS
  <2> QED
    BY <2>2, <2>3, <2>4
<1>4. ASSUME S # {} PROVE W # {}
  <2>1. PICK m \in S : \A n \in S : m <= n
    BY <1>3, <1>4, LeastMember
  <2>2. {g \in S : g < m} = {}
    <3>1. \A n \in S : n \in Nat /\ m \in Nat /\ m <= n
      BY <1>3, <2>1
    <3>2. \A n \in S : ~(n < m)
      BY <3>1
    <3> QED
      BY <3>2
  <2>3. Cardinality({g \in S : g < m}) = 0
    BY <2>2, FS_EmptySet
  <2> QED
    BY <1>1, <1>2, <2>1, <2>3
<1>5. ASSUME NEW h \in W, NEW i \in S, i <= h PROVE i \in W
  <2>1. PICK A : A = {g \in S : g < h}
    OBVIOUS
  <2>2. PICK B : B = {g \in S : g < i}
    OBVIOUS
  <2>3. IsFiniteSet(A) /\ B \subseteq A
    <3>1. A \subseteq S
      BY <2>1
    <3>2. h \in Nat /\ i \in Nat
      BY <1>1, <1>3
    <3>3. \A g \in S : g \in Nat /\ (g < i => g < h)
      BY <1>3, <1>5, <3>2
    <3>4. IsFiniteSet(A)
      BY <1>3, <3>1, FS_Subset
    <3> QED
      BY <2>1, <2>2, <3>3, <3>4
  <2>4. Cardinality(B) <= Cardinality(A) /\ Cardinality(A) \in Nat /\ Cardinality(B) \in Nat
    BY <2>3, FS_Subset, FS_CardinalityType
  <2>5. Cardinality(A) < Limit
    BY <1>1, <2>1
  <2>6. Cardinality(B) < Limit
    BY <1>2, <2>4, <2>5
  <2> QED
    BY <1>1, <2>2, <2>6
<1> QED
  BY <1>1, <1>4, <1>5
-----------------------------------------------------------------------------
(* Steps after which the loop holds nothing of L1, or holds what it held.  *)
LEMMA L1Leaves ==
  ASSUME L1Inv, UNCHANGED <<vars, cursor, legs, passed, leapt>>, seenTip' \in 0..Len(Chain), work' = {}, block' = None,
         at' \in {"l1", "query", "evm", "scan", "cursor", "settled"}
  PROVE  L1Inv'
<1>1. Chain' = Chain /\ UNCHANGED <<stored, held, next>>
  BY DEF vars, indexVars, Chain
<1>2. \A b : Legged(b) <=> Legged(b)'
  BY DEF Legged
<1>3. /\ \A i : Settled(i) <=> Settled(i)'
      /\ \A b, i : IsOrPassed(b, i) <=> IsOrPassed(b, i)'
  BY <1>1, <1>2 DEF Settled, IsOrPassed
<1>4. Places' /\ Legs' /\ Stages'
  BY <1>1 DEF L1Inv, Places, Legs, Stages
<1>5. Follows' /\ Below1'
  BY <1>1, <1>3 DEF L1Inv, Follows, Below1
<1> QED
  BY <1>4, <1>5 DEF L1Inv, InList, InHand, InJump

LEMMA L1Still ==
  ASSUME L1Inv, UNCHANGED <<vars, cursor, legs, seenTip, work, block, at, passed, leapt>>
  PROVE  L1Inv'
<1>1. Chain' = Chain /\ UNCHANGED <<stored, held, next>>
  BY DEF vars, indexVars, Chain
<1>2. \A b : Legged(b) <=> Legged(b)'
  BY DEF Legged
<1>3. /\ \A i : Settled(i) <=> Settled(i)'
      /\ \A b, i : IsOrPassed(b, i) <=> IsOrPassed(b, i)'
  BY <1>1, <1>2 DEF Settled, IsOrPassed
<1>4. Places' /\ Legs' /\ Stages'
  BY <1>1 DEF L1Inv, Places, Legs, Stages
<1>5. Follows' /\ Below1' /\ InList' /\ InJump'
  BY <1>1, <1>3 DEF L1Inv, Follows, Below1, InList, InJump
<1>6. InHand'
  BY <1>2, <1>3 DEF L1Inv, InHand
<1> QED
  BY <1>4, <1>5, <1>6 DEF L1Inv

LEMMA QueryStep == ASSUME Inv, L1Inv, Query PROVE L1Inv'
<1>1. Chain' = Chain /\ UNCHANGED <<stored, held, next, cursor, legs, seenTip, block, passed, leapt>>
  BY DEF Query, vars, indexVars, Chain
<1>2. \A b : Legged(b) <=> Legged(b)'
  BY <1>1 DEF Legged
<1>3. /\ \A i : Settled(i) <=> Settled(i)'
      /\ \A b, i : IsOrPassed(b, i) <=> IsOrPassed(b, i)'
  BY <1>1, <1>2 DEF Settled, IsOrPassed
<1>4. PICK S : S = SpendHeights
  OBVIOUS
<1>5. PICK n : n = Len(Chain)
  OBVIOUS
<1>6. n \in Nat /\ Len(stored) \in Nat /\ Len(stored) <= n /\ DOMAIN stored = 1..Len(stored)
  BY <1>5, BranchEnds DEF L1Inv, Places, Inv, TypeOK, Chain
<1>7. /\ S \subseteq 1..Len(stored) /\ S \subseteq cursor + 1 .. seenTip
      /\ \A i \in DOMAIN stored : cursor < i /\ i <= seenTip /\ i \notin S => Settled(i)
  BY <1>4, <1>6, SpendHeightsAreStored
<1>8. /\ work' \subseteq S /\ (S # {} => work' # {})
      /\ \A h \in work' : \A i \in S : i <= h => i \in work'
  BY <1>4, <1>6, <1>7, LowestOnes DEF Query
<1>9. /\ at = "query" /\ work = {} /\ block = None
      /\ at' = IF S = {} THEN "empty" ELSE "fetch"
  BY <1>4 DEF Query, L1Inv, Stages
<1>10. Stages'
  BY <1>1, <1>8, <1>9 DEF Stages
<1>11. Places' /\ Legs' /\ Follows' /\ Below1'
  BY <1>1, <1>3, <1>5, <1>6, <1>7, <1>8 DEF L1Inv, Places, Legs, Follows, Below1
<1>12. cursor \in Nat /\ seenTip \in Nat
  BY <1>5, <1>6 DEF L1Inv, Places
<1>13. \A i \in 1..n : i <= seenTip /\ i \notin S /\ i \in DOMAIN stored => Settled(i)
  <2> SUFFICES ASSUME NEW i \in 1..n, i <= seenTip, i \notin S, i \in DOMAIN stored PROVE Settled(i)
    OBVIOUS
  <2>1. CASE i <= cursor
    <3>1. i \in 1..cursor
      BY <1>12, <2>1
    <3> QED
      BY <3>1 DEF L1Inv, Below1
  <2>2. CASE cursor < i
    BY <1>7, <2>2
  <2> QED
    BY <1>12, <2>1, <2>2
<1>14. ASSUME NEW i \in 1..n, i \notin work', NEW h \in work', i <= h PROVE Settled(i)
  <2>1. h \in 1..Len(stored) /\ h <= seenTip /\ h \in Nat
    BY <1>7, <1>8, <1>12
  <2>2. i \in DOMAIN stored /\ i <= seenTip /\ i \notin S
    BY <1>6, <1>8, <1>12, <1>14, <2>1
  <2> QED
    BY <1>13, <2>2
<1>15. InList'
  BY <1>1, <1>3, <1>5, <1>14 DEF InList
<1>16. InJump'
  <2>1. at' = "empty" => S = {}
    BY <1>9
  <2>2. DOMAIN stored \subseteq 1..n
    BY <1>6
  <2> QED
    BY <1>1, <1>3, <1>13, <2>1, <2>2 DEF InJump
<1> QED
  BY <1>9, <1>10, <1>11, <1>15, <1>16 DEF L1Inv, InHand

LEMMA Same ==
  ASSUME UNCHANGED <<vars, legs, passed, leapt>>
  PROVE  /\ Chain' = Chain /\ UNCHANGED <<stored, held, next>>
         /\ \A b : Legged(b) <=> Legged(b)'
         /\ \A i : Settled(i) <=> Settled(i)'
         /\ \A b, i : IsOrPassed(b, i) <=> IsOrPassed(b, i)'
<1>1. Chain' = Chain /\ UNCHANGED <<stored, held, next>>
  BY DEF vars, indexVars, Chain
<1>2. \A b : Legged(b) <=> Legged(b)'
  BY DEF Legged
<1> QED
  BY <1>1, <1>2 DEF Settled, IsOrPassed

LEMMA Numbers ==
  ASSUME Inv, L1Inv
  PROVE  /\ Len(Chain) \in Nat \ {0} /\ Len(stored) \in Nat /\ Len(stored) <= Len(Chain)
         /\ DOMAIN stored = 1..Len(stored) /\ DOMAIN Chain = 1..Len(Chain) /\ cursor \in Nat /\ seenTip \in Nat
         /\ cursor <= Len(Chain) /\ seenTip <= Len(Chain) /\ work \subseteq 1..Len(Chain) /\ tip \in Blocks
         /\ \A i \in 1..Len(Chain) : Chain[i] \in Blocks
         /\ Chain[Len(Chain)] = tip
<1>1. tip \in Blocks /\ Chain = Branch[tip] /\ stored \in Seq(Blocks)
  BY DEF Inv, TypeOK, Chain
<1>2. Chain \in Seq(Blocks) /\ Len(Chain) \in Nat \ {0} /\ Chain[Len(Chain)] = tip
  BY <1>1, BranchEnds
<1>3. Len(stored) \in Nat /\ DOMAIN stored = 1..Len(stored) /\ DOMAIN Chain = 1..Len(Chain)
      /\ \A i \in 1..Len(Chain) : Chain[i] \in Blocks
  BY <1>1, <1>2
<1>4. cursor \in 0..Len(Chain) /\ seenTip \in 0..Len(Chain) /\ Len(stored) <= Len(Chain) /\ work \subseteq 1..Len(Chain)
  BY DEF L1Inv, Places
<1>5. cursor \in Nat /\ seenTip \in Nat /\ cursor <= Len(Chain) /\ seenTip <= Len(Chain)
  BY <1>2, <1>4
<1> QED
  BY <1>1, <1>2, <1>3, <1>4, <1>5

LEMMA JumpStep == ASSUME Inv, L1Inv, Jump PROVE L1Inv'
<1>1. /\ at = "empty" /\ work = {} /\ block = None /\ work' = {} /\ block' = None /\ at' = "evm"
      /\ UNCHANGED <<vars, legs, seenTip>>
  BY DEF Jump, L1Inv, Stages
<1>2. Chain' = Chain /\ UNCHANGED <<stored, held, next>>
  BY <1>1 DEF vars, indexVars, Chain
<1>3. /\ cursor' = JumpTo /\ passed' = passed
      /\ leapt' = IF stored = <<>> THEN leapt \cup {Chain[i] : i \in 1..seenTip} ELSE leapt
  BY DEF Jump
<1>4. \A i \in 1..Len(Chain) : Chain[i] \in Blocks
  BY Numbers
<1>5. passed' = passed /\ leapt \subseteq leapt' /\ passed' \cup leapt' \subseteq Blocks
  <2>1. \A i \in 1..seenTip : i \in 1..Len(Chain)
    BY Numbers
  <2> QED
    BY <1>3, <1>4, <2>1 DEF L1Inv, Places
<1>6. \A b : Legged(b) <=> Legged(b)'
  BY <1>1 DEF Legged
<1>7. /\ \A i : Settled(i) => Settled(i)'
      /\ \A b, i : IsOrPassed(b, i) => IsOrPassed(b, i)'
  BY <1>2, <1>5, <1>6 DEF Settled, IsOrPassed
<1>8. cursor' \in 0..seenTip /\ cursor' \in 0..Len(Chain)
  BY <1>3, Numbers DEF JumpTo, Least
<1>9. Places' /\ Legs' /\ Stages'
  BY <1>1, <1>2, <1>5, <1>8 DEF L1Inv, Places, Legs, Stages
<1>10. Follows'
  BY <1>2, <1>7 DEF L1Inv, Follows
<1>11. Below1'
  <2> SUFFICES ASSUME NEW i \in 1..cursor' PROVE Settled(i)'
    BY DEF Below1
  <2>1. i \in 1..seenTip
    BY <1>8, Numbers
  <2>2. CASE stored = <<>>
    <3>1. Chain[i] \in leapt'
      BY <1>3, <2>1, <2>2
    <3> QED
      BY <1>2, <3>1 DEF Settled
  <2>3. CASE stored # <<>>
    <3>1. i \in DOMAIN stored /\ i <= seenTip
      BY <1>3, <2>1, <2>3, Numbers DEF JumpTo, Least
    <3> QED
      BY <1>1, <1>7, <3>1 DEF L1Inv, InJump
  <2> QED
    BY <2>2, <2>3
<1> QED
  BY <1>1, <1>9, <1>10, <1>11 DEF L1Inv, InList, InHand, InJump

LEMMA FetchSpendsStep == ASSUME Inv, L1Inv, FetchSpends PROVE L1Inv'
<1>1. /\ at = "fetch" /\ at' = "leg" /\ block' = Chain[Min(work)]
      /\ UNCHANGED <<vars, cursor, legs, seenTip, work, passed, leapt>>
  BY DEF FetchSpends
<1>2. Min(work) \in work /\ Min(work) \in 1..Len(Chain)
  <2>1. work # {} /\ work \in SUBSET Nat
    BY <1>1, Numbers DEF L1Inv, Stages
  <2> QED
    BY <2>1, MinOf, Numbers
<1>3. block' \in Blocks /\ block' # None
  BY <1>1, <1>2, Numbers, TreeAssumption
<1>4. Places' /\ Legs' /\ Stages' /\ Follows' /\ Below1'
  BY <1>1, <1>3, Same DEF L1Inv, Places, Legs, Stages, Follows, Below1
<1>5. InList' /\ InJump'
  BY <1>1, Same DEF L1Inv, InList, InJump
<1>6. InHand'
  <2>1. (block = Chain[Min(work)])'
    BY <1>1, Same
  <2>2. IsOrPassed(block, Min(work))'
    BY <2>1 DEF IsOrPassed
  <2> QED
    BY <1>1, <1>3, <2>2 DEF InHand
<1> QED
  BY <1>4, <1>5, <1>6 DEF L1Inv

LEMMA LegOf ==
  ASSUME NEW b \in Blocks, NEW h, NEW k, SpendsOf(b, k) # {}
  PROVE  /\ LegFrom(b, h, k).coin \in Htlcs /\ LegFrom(b, h, k).kind \in {"claim", "refund"}
         /\ LegFrom(b, h, k) # NoLeg
<1>1. PICK c : c = CHOOSE d \in SpendsOf(b, k) : TRUE
  OBVIOUS
<1>2. c \in SpendsOf(b, k)
  BY <1>1
<1>3. LegFrom(b, h, k) = [coin |-> c, height |-> h, kind |-> IF c \in Claims[b] THEN "claim" ELSE "refund"]
  BY <1>1 DEF LegFrom
<1> QED
  BY <1>2, <1>3 DEF SpendsOf, NoLeg

LEMMA PutLegsStep == ASSUME Inv, L1Inv, PutLegs PROVE L1Inv'
<1>1. /\ at = "leg" /\ at' = "mark"
      /\ UNCHANGED <<vars, cursor, seenTip, work, block, passed, leapt>>
      /\ legs' = [k \in Hashlocks |-> IF SpendsOf(block, k) = {} THEN legs[k] ELSE LegFrom(block, Min(work), k)]
  BY DEF PutLegs
<1>2. Chain' = Chain /\ UNCHANGED <<stored, held, next>>
  BY <1>1 DEF vars, indexVars, Chain
<1>3. block \in Blocks
  BY <1>1 DEF L1Inv, InHand
<1>4. \A k \in Hashlocks : legs'[k] = IF SpendsOf(block, k) = {} THEN legs[k] ELSE LegFrom(block, Min(work), k)
  BY <1>1
<1>5. \A c \in Htlcs : HashlockOf[c] \in Hashlocks
  BY DEF Hashlocks
<1>6. \A b : Legged(b) => Legged(b)'
  BY <1>3, <1>4, <1>5, LegOf DEF Legged
<1>7. Legged(block)'
  <2> SUFFICES ASSUME NEW c \in Uses[block] \cap Htlcs PROVE legs'[HashlockOf[c]] # NoLeg
    BY <1>1 DEF Legged
  <2>1. c \in SpendsOf(block, HashlockOf[c])
    BY DEF SpendsOf
  <2> QED
    BY <1>3, <1>4, <1>5, <2>1, LegOf
<1>8. /\ \A i : Settled(i) => Settled(i)'
      /\ \A b, i : IsOrPassed(b, i) => IsOrPassed(b, i)'
  BY <1>1, <1>2, <1>6 DEF Settled, IsOrPassed
<1>9. Legs'
  BY <1>3, <1>4, LegOf DEF L1Inv, Legs
<1>10. Places' /\ Stages' /\ Follows' /\ Below1'
  BY <1>1, <1>2, <1>8 DEF L1Inv, Places, Stages, Follows, Below1
<1>11. InList' /\ InJump'
  BY <1>1, <1>2, <1>8 DEF L1Inv, InList, InJump
<1>12. InHand'
  BY <1>1, <1>7, <1>8 DEF L1Inv, InHand
<1> QED
  BY <1>9, <1>10, <1>11, <1>12 DEF L1Inv

LEMMA MarkStep == ASSUME Inv, L1Inv, Mark PROVE L1Inv'
<1>1. PICK h : h = Min(work)
  OBVIOUS
<1>2. /\ at = "mark" /\ cursor' = h /\ work' = work \ {h} /\ block' = None
      /\ at' = IF work' # {} THEN "fetch" ELSE IF more THEN "l1" ELSE "evm"
      /\ UNCHANGED <<vars, legs, seenTip, passed, leapt>>
  BY <1>1 DEF Mark, MarkAt
<1>3. h \in work /\ h \in 1..Len(Chain) /\ \A g \in work : h <= g
  <2>1. work # {} /\ work \in SUBSET Nat
    BY <1>2, Numbers DEF L1Inv, Stages
  <2> QED
    BY <1>1, <2>1, MinOf, Numbers
<1>4. h \in 0..Len(Chain)
  BY <1>3, Numbers
<1>5. Places' /\ Legs' /\ Stages' /\ Follows'
  BY <1>2, <1>4, Same DEF L1Inv, Places, Legs, Stages, Follows
<1>6. \A i \in 1..Len(Chain) : i \notin work /\ (\E g \in work : i <= g) => Settled(i)
  BY <1>2 DEF L1Inv, InList
<1>7. Settled(h)
  <2>1. IsOrPassed(block, h) /\ Legged(block)
    BY <1>1, <1>2 DEF L1Inv, InHand
  <2> QED
    BY <2>1 DEF IsOrPassed, Settled
<1>8. Below1'
  <2> SUFFICES ASSUME NEW i \in 1..h PROVE Settled(i)
    BY <1>2, Same DEF Below1
  <2>1. i \in 1..Len(Chain) /\ i <= h
    BY <1>3, Numbers
  <2>2. CASE i \in work
    <3>1. i = h
      BY <1>3, <2>1, <2>2, Numbers
    <3> QED
      BY <1>7, <3>1
  <2>3. CASE i \notin work
    BY <1>3, <1>6, <2>1, <2>3
  <2> QED
    BY <2>2, <2>3
<1>9. InList'
  <2> SUFFICES ASSUME NEW i \in 1..Len(Chain), i \notin work', NEW g \in work', i <= g PROVE Settled(i)
    BY Same, <1>2 DEF InList
  <2>1. CASE i = h
    BY <1>7, <2>1
  <2>2. CASE i # h
    BY <1>2, <1>6, <2>2
  <2> QED
    BY <2>1, <2>2
<1> QED
  BY <1>2, <1>5, <1>8, <1>9 DEF L1Inv, InHand, InJump

(* The heights the two indexes have read when the node turns away.         *)
Reading == {cursor, Len(stored) + (IF held = None THEN 0 ELSE 1)} \cup work \cup (IF at = "empty" THEN {seenTip} ELSE {})

LEMMA ReadingBelowTip ==
  ASSUME Inv, L1Inv
  PROVE  Max(Reading) \in 0..Len(Chain) /\ \A m \in Reading : m \in Nat /\ m <= Max(Reading)
<1>1. PICK n : n = Len(stored) + (IF held = None THEN 0 ELSE 1)
  OBVIOUS
<1>2. n \in Nat /\ n <= Len(Chain)
  <2>1. CASE held = None
    BY <1>1, <2>1, Numbers
  <2>2. CASE held # None
    <3>1. next = Len(stored) + 1 /\ next <= target /\ target <= Len(Chain) /\ next \in Nat /\ target \in Nat
      BY <2>2 DEF Inv, Place, TypeOK
    <3> QED
      BY <1>1, <2>2, <3>1, Numbers
  <2> QED
    BY <2>1, <2>2
<1>3. PICK S : S = Reading
  OBVIOUS
<1>4. S = {cursor, n} \cup work \cup (IF at = "empty" THEN {seenTip} ELSE {})
  BY <1>1, <1>3 DEF Reading
<1>5. \A m \in S : m \in Nat /\ m <= Len(Chain)
  BY <1>2, <1>4, Numbers
<1>6. S # {} /\ S \in SUBSET Nat /\ Len(Chain) \in Nat
  BY <1>4, <1>5, Numbers
<1>7. Max(S) \in S /\ \A m \in S : m <= Max(S)
  BY <1>5, <1>6, MaxOf
<1>8. Max(S) \in 0..Len(Chain)
  <2>1. PICK m : m = Max(S)
    OBVIOUS
  <2>2. m \in Nat /\ m <= Len(Chain)
    BY <1>5, <1>7, <2>1
  <2> QED
    BY <1>6, <2>1, <2>2
<1> QED
  BY <1>3, <1>5, <1>7, <1>8

(* A block at a height that was read is as before, or passed.              *)
LEMMA TurnPasses ==
  ASSUME Inv, L1Inv, NEW b \in Blocks, TurnTo(b)
  PROVE  /\ Chain' = Branch[b] /\ Len(Chain) < Len(Chain') /\ Len(Chain') \in Nat /\ passed \subseteq passed' /\ passed' \subseteq Blocks
         /\ \A m \in Reading : \A i \in 1..m : Chain'[i] = Chain[i] \/ Chain'[i] \in passed'
<1>1. PICK read : read = Max(Reading)
  OBVIOUS
<1>2. PICK C : C = Branch[b]
  OBVIOUS
<1>3. /\ tip' = b /\ Len(C) > Len(Chain)
      /\ passed' = IF C[Len(Chain)] = tip THEN passed
                   ELSE passed \cup ({C[i] : i \in 1..read} \ {Chain[i] : i \in DOMAIN Chain})
  BY <1>1, <1>2 DEF TurnTo, NodeMoves, Extends, Reading
<1>4. Chain' = C
  BY <1>2, <1>3 DEF Chain
<1>5. C \in Seq(Blocks) /\ Len(C) \in Nat
  BY <1>2, BranchEnds
<1>6. read \in 0..Len(Chain) /\ \A m \in Reading : m \in Nat /\ m <= read
  BY <1>1, ReadingBelowTip
<1>7. \A i \in 1..Len(Chain) : i \in DOMAIN C /\ C[i] \in Blocks /\ i \in DOMAIN Chain
  BY <1>3, <1>5, Numbers
<1>8. passed \subseteq passed' /\ passed' \subseteq Blocks
  <2>1. \A i \in 1..read : i \in 1..Len(Chain)
    BY <1>6, Numbers
  <2> QED
    BY <1>3, <1>7, <2>1 DEF L1Inv, Places
<1>9. ASSUME NEW i \in 1..read PROVE C[i] = Chain[i] \/ C[i] \in passed'
  <2>1. i \in 1..Len(Chain)
    BY <1>6, Numbers
  <2>2. CASE C[Len(Chain)] = tip
    <3>1. Chain = Branch[tip] /\ Chain[Len(Chain)] = tip /\ Len(Chain) \in 1..Len(Chain)
      BY Numbers DEF Chain
    <3>2. Branch[tip][Len(Chain)] = Branch[b][Len(Chain)]
      BY <1>2, <2>2, <3>1
    <3>3. Len(Chain) \in DOMAIN Branch[tip] /\ Len(Chain) \in DOMAIN Branch[b]
      BY <1>2, <1>7, <3>1
    <3>4. \A k \in 1..Len(Chain) : Branch[tip][k] = Branch[b][k]
      BY <3>2, <3>3, OneHeight, Numbers
    <3> QED
      BY <1>2, <2>1, <3>1, <3>4
  <2>3. CASE C[Len(Chain)] # tip
    <3>1. CASE \E j \in DOMAIN Chain : C[i] = Chain[j]
      <4>1. PICK j \in DOMAIN Chain : C[i] = Chain[j]
        BY <3>1
      <4>2. Branch[b][i] = Branch[tip][j] /\ i \in DOMAIN Branch[b] /\ j \in DOMAIN Branch[tip]
        BY <1>2, <1>7, <2>1, <4>1 DEF Chain
      <4>3. i = j
        BY <4>2, OneHeight, Numbers
      <4> QED
        BY <4>1, <4>3
    <3>2. CASE ~\E j \in DOMAIN Chain : C[i] = Chain[j]
      BY <1>3, <2>3, <3>2
    <3> QED
      BY <3>1, <3>2
  <2> QED
    BY <2>2, <2>3
<1>10. \A m \in Reading : \A i \in 1..m : i \in 1..read
  BY <1>6
<1> QED
  BY <1>2, <1>3, <1>4, <1>5, <1>8, <1>9, <1>10

LEMMA TurnStep == ASSUME Inv, L1Inv, NEW b \in Blocks, TurnTo(b) PROVE L1Inv'
<1>1. UNCHANGED <<stored, held, next, cursor, legs, seenTip, work, block, at, leapt>>
  BY DEF TurnTo, NodeMoves, indexVars, tradeVars
<1>2. /\ Len(Chain) < Len(Chain') /\ Len(Chain') \in Nat /\ passed \subseteq passed' /\ passed' \subseteq Blocks
      /\ \A m \in Reading : \A i \in 1..m : Chain'[i] = Chain[i] \/ Chain'[i] \in passed'
  BY TurnPasses
<1>3. \A b0 : Legged(b0) <=> Legged(b0)'
  BY <1>1 DEF Legged
<1>4. \A m \in Reading : \A i \in 1..m : Settled(i) => Settled(i)'
  BY <1>1, <1>2, <1>3 DEF Settled
<1>5. \A m \in Reading : \A i \in 1..m : \A x : IsOrPassed(x, i) => IsOrPassed(x, i)'
  BY <1>2 DEF IsOrPassed
<1>6. Places' /\ Legs' /\ Stages'
  <2>1. cursor' \in 0..Len(Chain') /\ seenTip' \in 0..Len(Chain') /\ Len(stored') <= Len(Chain') /\ work' \subseteq 1..Len(Chain')
    BY <1>1, <1>2, Numbers
  <2> QED
    BY <1>1, <1>2, <2>1 DEF L1Inv, Places, Legs, Stages
<1>7. cursor \in Reading /\ (\A h \in work : h \in Reading) /\ (at = "empty" => seenTip \in Reading)
  BY DEF Reading
<1>8. Below1'
  BY <1>1, <1>4, <1>7 DEF L1Inv, Below1
<1>9. PICK n : n = Len(stored) + (IF held = None THEN 0 ELSE 1)
  OBVIOUS
<1>10. n \in Reading
  BY <1>9 DEF Reading
<1>11. Follows'
  <2>1. \A i \in DOMAIN stored : i \in 1..n
    <3>1. Len(stored) \in Nat /\ DOMAIN stored = 1..Len(stored)
      BY Numbers
    <3>2. n = Len(stored) \/ n = Len(stored) + 1
      BY <1>9
    <3> QED
      BY <3>1, <3>2
  <2>2. held # None => next \in 1..n
    BY <1>9, Numbers DEF Inv, Place
  <2>3. \A i \in DOMAIN stored : IsOrPassed(stored[i], i)'
    BY <1>1, <1>5, <1>10, <2>1 DEF L1Inv, Follows
  <2>4. held # None => IsOrPassed(held, next)'
    BY <1>1, <1>5, <1>10, <2>2 DEF L1Inv, Follows
  <2> QED
    BY <1>1, <2>3, <2>4 DEF Follows
<1>12. InList'
  <2> SUFFICES ASSUME at \in {"fetch", "leg", "mark"}, NEW i \in 1..Len(Chain'), i \notin work, NEW h \in work, i <= h PROVE Settled(i)'
    BY <1>1 DEF InList
  <2>1. i \in 1..Len(Chain) /\ i \in 1..h
    BY <1>2, Numbers
  <2>2. Settled(i)
    BY <2>1 DEF L1Inv, InList
  <2> QED
    BY <1>4, <1>7, <2>1, <2>2
<1>13. InHand'
  <2> SUFFICES ASSUME at \in {"leg", "mark"} PROVE IsOrPassed(block, Min(work))'
    BY <1>1, <1>3 DEF L1Inv, InHand
  <2>1. work # {} /\ work \in SUBSET Nat
    BY Numbers DEF L1Inv, Stages
  <2>2. PICK h : h = Min(work)
    OBVIOUS
  <2>3. h \in work /\ h \in 1..h
    <3>1. h \in work
      BY <2>1, <2>2, MinOf
    <3> QED
      BY <3>1, Numbers
  <2>4. IsOrPassed(block, h)
    BY <2>2 DEF L1Inv, InHand
  <2>5. IsOrPassed(block, h)'
    BY <1>1, <1>5, <1>7, <2>3, <2>4 DEF IsOrPassed
  <2> QED
    BY <1>1, <2>2, <2>5
<1>14. InJump'
  <2> SUFFICES ASSUME at = "empty", NEW i \in DOMAIN stored, i <= seenTip PROVE Settled(i)'
    BY <1>1 DEF InJump
  <2>1. i \in 1..seenTip
    BY Numbers
  <2>2. Settled(i)
    BY DEF L1Inv, InJump
  <2> QED
    BY <1>4, <1>7, <2>1, <2>2
<1> QED
  BY <1>6, <1>8, <1>11, <1>12, <1>13, <1>14 DEF L1Inv

LEMMA IndexStep == ASSUME Inv, L1Inv, AddressIndexSteps PROVE L1Inv'
<1> DEFINE Shortened == /\ Len(stored') <= Len(stored) /\ Len(stored') \in Nat /\ DOMAIN stored' = 1..Len(stored')
                        /\ \A i \in DOMAIN stored' : stored'[i] = stored[i]
<1>1. /\ IndexNext /\ UNCHANGED <<cursor, legs, seenTip, work, block, at, leapt>>
      /\ passed' = IF at = "empty" /\ Len(stored') > Len(stored) THEN passed \cup {held} ELSE passed
  BY DEF AddressIndexSteps, tradeVars
<1>2. tip' = tip
  BY <1>1 DEF IndexNext, Count, Fetch, Undo, Store, Restart
<1>3. Chain' = Chain
  BY <1>2 DEF Chain
<1>4. \A b : Legged(b) <=> Legged(b)'
  BY <1>1 DEF Legged
<1>5. passed \subseteq passed'
  BY <1>1
<1>6. /\ \A i : Settled(i) => Settled(i)'
      /\ \A b, i : IsOrPassed(b, i) => IsOrPassed(b, i)'
  BY <1>1, <1>3, <1>4, <1>5 DEF Settled, IsOrPassed
<1>13. \A b, i : IsOrPassed(b, i) => b = Chain'[i] \/ Chain'[i] \in passed'
  BY <1>6 DEF IsOrPassed
<1>7. CASE UNCHANGED <<stored, held>> /\ (held # None => next' = next)
  <2>1. passed' = passed
    BY <1>1, <1>7, Numbers
  <2>2. Places' /\ Legs' /\ Stages' /\ Below1'
    BY <1>1, <1>3, <1>6, <1>7, <2>1 DEF L1Inv, Places, Legs, Stages, Below1
  <2>3. Follows'
    BY <1>6, <1>7 DEF L1Inv, Follows
  <2>4. InList' /\ InHand' /\ InJump'
    BY <1>1, <1>3, <1>4, <1>6, <1>7 DEF L1Inv, InList, InHand, InJump
  <2> QED
    BY <2>2, <2>3, <2>4 DEF L1Inv
<1>8. CASE Shortened
  <2>1. held' # None => IsOrPassed(held, next)'
    <3>1. CASE held' = held /\ next' = next
      <4>1. held # None => IsOrPassed(held, next)
        BY DEF L1Inv, Follows
      <4> QED
        BY <1>13, <3>1, <4>1 DEF IsOrPassed
    <3>2. CASE held' = None
      BY <3>2
    <3>3. CASE Fetch
      <4>1. held' = Chain'[next'] 
        BY <1>3, <3>3 DEF Fetch
      <4> QED
        BY <4>1 DEF IsOrPassed
    <3> QED
      BY <1>1, <3>1, <3>2, <3>3 DEF IndexNext, Count, Undo, Store, Restart, L1Inv, Inv, Place
  <2>2. passed' = passed
    BY <1>1, <1>8, Numbers
  <2>3. \A i \in DOMAIN stored' : i \in DOMAIN stored
    BY <1>8, Numbers
  <2>4. Len(stored') <= Len(Chain)
    BY <1>8, Numbers
  <2>5. Places' /\ Legs' /\ Stages' /\ Below1'
    BY <1>1, <1>3, <1>6, <2>2, <2>4 DEF L1Inv, Places, Legs, Stages, Below1
  <2>6. \A i \in DOMAIN stored' : IsOrPassed(stored[i], i)'
    <3>1. \A i \in DOMAIN stored' : IsOrPassed(stored'[i], i)
      BY <1>8, <2>3 DEF L1Inv, Follows
    <3> QED
      BY <1>13, <3>1 DEF IsOrPassed
  <2>7. Follows'
    BY <2>1, <2>6 DEF Follows
  <2>8. InList' /\ InHand'
    BY <1>1, <1>3, <1>4, <1>6 DEF L1Inv, InList, InHand
  <2>9. InJump'
    BY <1>1, <1>6, <2>3 DEF L1Inv, InJump
  <2> QED
    BY <2>5, <2>7, <2>8, <2>9 DEF L1Inv
<1>9. CASE Store
  <2>1. held # None /\ held \in Blocks /\ next = Len(stored) + 1 /\ next \in Nat /\ next <= Len(Chain) /\ stored \in Seq(Blocks)
    <3>1. held # None /\ held \in Blocks \cup {None} /\ next \in Nat /\ target \in Nat /\ stored \in Seq(Blocks)
      BY <1>9 DEF Store, Inv, TypeOK
    <3>2. next = Len(stored) + 1 /\ next <= target /\ target <= Len(Chain)
      BY <3>1 DEF Inv, Place
    <3> QED
      BY <3>1, <3>2, Numbers
  <2>2. /\ Len(stored') = next /\ DOMAIN stored' = DOMAIN stored \cup {next} /\ stored'[next] = held
        /\ (\A i \in DOMAIN stored : stored'[i] = stored[i]) /\ held' = None
    BY <1>9, <2>1 DEF Store
  <2>3. IsOrPassed(held, next)
    BY <2>1 DEF L1Inv, Follows
  <2>4. passed' \subseteq Blocks
    BY <1>1, <2>1 DEF L1Inv, Places
  <2>5. Places' /\ Legs' /\ Stages' /\ Below1'
    BY <1>1, <1>3, <1>6, <2>1, <2>2, <2>4 DEF L1Inv, Places, Legs, Stages, Below1
  <2>6. \A i \in DOMAIN stored' : IsOrPassed(stored[i], i)'
    <3>1. \A i \in DOMAIN stored' : IsOrPassed(stored'[i], i)
      BY <2>2, <2>3 DEF L1Inv, Follows
    <3> QED
      BY <1>13, <3>1 DEF IsOrPassed
  <2>7. Follows'
    BY <2>2, <2>6 DEF Follows
  <2>8. InList' /\ InHand'
    BY <1>1, <1>3, <1>4, <1>6 DEF L1Inv, InList, InHand
  <2>9. InJump'
    <3> SUFFICES ASSUME at = "empty", NEW i \in DOMAIN stored', i <= seenTip PROVE Settled(i)'
      BY <1>1 DEF InJump
    <3>1. CASE i \in DOMAIN stored
      BY <1>6, <3>1 DEF L1Inv, InJump
    <3>2. CASE i = next
      <4>1. held \in passed'
        BY <1>1, <2>1, <2>2, Numbers
      <4>2. Chain[next] \in passed'
        BY <1>5, <2>3, <4>1 DEF IsOrPassed
      <4> QED
        BY <1>3, <3>2, <4>2 DEF Settled
    <3> QED
      BY <2>2, <3>1, <3>2
  <2> QED
    BY <2>5, <2>7, <2>8, <2>9 DEF L1Inv
<1>10. Count => UNCHANGED <<stored, held>> /\ (held # None => next' = next)
  BY DEF Count, Inv, Place
<1>11. Fetch \/ Restart => Shortened
  BY Numbers DEF Fetch, Restart
<1>12. Undo => Shortened
  <2> SUFFICES ASSUME Undo PROVE Shortened
    OBVIOUS
  <2>1. stored' = SubSeq(stored, 1, next - 2) /\ next > 1 /\ held # None
    BY DEF Undo, Forked
  <2>2. next = Len(stored) + 1 /\ stored \in Seq(Blocks)
    BY <2>1 DEF Inv, Place, TypeOK
  <2>3. stored' = SubSeq(stored, 1, Len(stored) - 1) /\ Len(stored) - 1 \in Nat
    BY <2>1, <2>2, Numbers
  <2> QED
    BY <2>2, <2>3
<1> QED
  BY <1>1, <1>7, <1>8, <1>9, <1>10, <1>11, <1>12 DEF IndexNext

(* What the rest of the loop, a restart and the EVM chain leave as it is.  *)
LEMMA OtherStep ==
  ASSUME Inv, L1Inv,
         \/ L1Tip \/ EvmLocked \/ EvmSettled \/ Window \/ PutEvents \/ PutCursor \/ ScanFails \/ Crash
         \/ UNCHANGED tVars
         \/ \E l \in Locks : EvmBlock(l)
  PROVE  L1Inv'
<1>1. seenTip \in 0..Len(Chain) /\ Len(Chain) \in 0..Len(Chain) /\ 0 \in 0..Len(Chain)
  BY Numbers
<1>2. at \notin {"fetch", "leg", "mark"} => work = {} /\ block = None
  BY DEF L1Inv, Stages
<1>3. CASE L1Tip
  BY <1>1, <1>2, <1>3, L1Leaves DEF L1Tip
<1>4. CASE EvmLocked \/ EvmSettled \/ Window \/ PutEvents \/ ScanFails
  BY <1>1, <1>2, <1>4, L1Leaves DEF EvmLocked, EvmSettled, Window, PutEvents, ScanFails, l1Vars
<1>5. CASE PutCursor
  BY <1>1, <1>2, <1>5, L1Leaves DEF PutCursor, l1Vars
<1>6. CASE Crash
  BY <1>1, <1>6, L1Leaves DEF Crash
<1>7. CASE UNCHANGED tVars \/ \E l \in Locks : EvmBlock(l)
  BY <1>7, L1Still DEF EvmBlock, tVars, tradeVars
<1> QED
  BY <1>3, <1>4, <1>5, <1>6, <1>7

LEMMA L1Step == ASSUME Inv, L1Inv, [TNext]_tVars PROVE L1Inv'
<1>1. CASE UNCHANGED tVars
  BY <1>1, OtherStep
<1>2. CASE TradeNext
  BY <1>2, QueryStep, JumpStep, FetchSpendsStep, PutLegsStep, MarkStep, OtherStep DEF TradeNext
<1>3. CASE ScanFails \/ Crash \/ \E l \in Locks : EvmBlock(l)
  BY <1>3, OtherStep
<1>4. CASE AddressIndexSteps \/ \E b \in Blocks : TurnTo(b)
  BY <1>4, IndexStep, TurnStep
<1> QED
  BY <1>1, <1>2, <1>3, <1>4 DEF TNext
-----------------------------------------------------------------------------
(* The EVM half: steps that are not of a scan, and those that drop one.    *)
LEMMA EvmStill ==
  ASSUME EvmInv, UNCHANGED <<mapped, ended, lockedTo, settledTo, evm, blind>>,
         UNCHANGED <<at, scan>> \/ at' \notin {"scan", "cursor"}
  PROVE  EvmInv'
<1>1. /\ \A e : Noted(e) <=> Noted(e)'
      /\ \A t : To(t)' = To(t)
    BY DEF Noted, To
<1>2. EvmPlaces' /\ Noticed'
  BY <1>1 DEF EvmInv, EvmPlaces, Noticed
<1>3. Scanning'
  BY <1>1 DEF EvmInv, Scanning
<1> QED
  BY <1>2, <1>3 DEF EvmInv

LEMMA Ends ==
  ASSUME EvmInv
  PROVE  /\ Len(evm) \in Nat \ {0} /\ DOMAIN evm = 1..Len(evm) /\ Len(evm) <= MaxEvm
         /\ lockedTo \in Nat /\ lockedTo <= Len(evm) /\ settledTo \in Nat /\ settledTo <= Len(evm)
         /\ \A i \in DOMAIN evm : \A e \in evm[i] : e.kind \in Kinds /\ e.lock \in Locks
         /\ \A head \in Heads : head \in 0..Len(evm)
<1>1. evm \in Seq(SUBSET [kind : Kinds, lock : Locks]) /\ Len(evm) \in 1..MaxEvm
  BY DEF EvmInv, EvmPlaces
<1>2. Len(evm) \in Nat /\ DOMAIN evm = 1..Len(evm)
  BY <1>1
<1>3. Len(evm) \in Nat \ {0} /\ Len(evm) <= MaxEvm
  BY <1>1, <1>2
<1>4. \A i \in DOMAIN evm : evm[i] \in SUBSET [kind : Kinds, lock : Locks]
  BY <1>1
<1>5. lockedTo \in 0..Len(evm) /\ settledTo \in 0..Len(evm)
  BY DEF EvmInv, EvmPlaces
<1>6. \A head \in Heads : head \in 0..Len(evm)
  BY <1>3 DEF Heads
<1>7. \A i \in DOMAIN evm : \A e \in evm[i] : e.kind \in Kinds /\ e.lock \in Locks
  BY <1>4
<1> QED
  BY <1>2, <1>3, <1>5, <1>6, <1>7

LEMMA StartStep == ASSUME EvmInv, EvmLocked \/ EvmSettled PROVE EvmInv'
<1>1. PICK topic \in {"locked", "settled"} : /\ StartScan(topic, To(topic)) /\ at' = "scan"
                                             /\ UNCHANGED <<mapped, ended, lockedTo, settledTo, evm, blind>>
  BY DEF EvmLocked, EvmSettled, To
<1>2. PICK from : from = Max({1, To(topic)})
  OBVIOUS
<1>3. PICK head \in Heads : scan' = [topic |-> topic, from |-> from, latest |-> head, out |-> {}]
  BY <1>1, <1>2 DEF StartScan
<1>4. To(topic) \in Nat /\ To(topic) <= Len(evm)
  BY Ends DEF To
<1>5. from \in 1..Len(evm) /\ \A i \in Nat \ {0} : i < from => i <= To(topic)
  <2>1. PICK S : S = {1, To(topic)}
    OBVIOUS
  <2>2. S \in SUBSET Nat /\ S # {} /\ Len(evm) \in Nat /\ \A n \in S : n <= Len(evm)
    BY <1>4, <2>1, Ends
  <2>3. Max(S) \in S /\ \A n \in S : n <= Max(S)
    BY <2>2, MaxOf
  <2>4. from \in {1, To(topic)} /\ 1 <= from
    BY <1>2, <2>1, <2>3
  <2> QED
    BY <1>4, <2>4, Ends
<1>6. /\ \A e : Noted(e) <=> Noted(e)'
      /\ \A t : To(t)' = To(t)
  BY <1>1 DEF Noted, To
<1>7. EvmPlaces' /\ Noticed'
  BY <1>1, <1>6 DEF EvmInv, EvmPlaces, Noticed
<1>8. ASSUME NEW i \in DOMAIN evm, NEW e \in evm[i], OfTopic(e) = topic, i < from, <<topic, i>> \notin blind
      PROVE  Noted(e)
  <2>1. i <= To(topic)
    BY <1>5, <1>8, Ends
  <2> QED
    BY <1>8, <2>1 DEF EvmInv, Noticed
<1>9. from \in 1..Len(evm) + 1 /\ head \in 0..Len(evm)
  BY <1>5, Ends
<1>10. Scanning'
  BY <1>1, <1>3, <1>6, <1>8, <1>9 DEF Scanning
<1> QED
  BY <1>7, <1>10 DEF EvmInv

(* A window adds the events of its blocks, but for those it was blind to.  *)
LEMMA WindowStep == ASSUME EvmInv, Window PROVE EvmInv'
<1>1. PICK to \in scan.from..scan.latest, head \in Heads :
        /\ scan' = [scan EXCEPT !.from = After(to), !.out = @ \cup Logs(scan.topic, scan.from, Least(to, head))]
        /\ blind' = blind \cup {<<scan.topic, i>> : i \in {j \in scan.from..to : j > head}}
  BY DEF Window
<1>2. PICK logs : logs = Logs(scan.topic, scan.from, Least(to, head))
  OBVIOUS
<1>3. at = "scan" /\ at' = "scan" /\ UNCHANGED <<mapped, ended, lockedTo, settledTo, evm>>
  BY DEF Window
<1>4. /\ scan \in [topic : {"locked", "settled"}, from : 1..Len(evm) + 1, latest : 0..Len(evm),
                 out : SUBSET [kind : Kinds, lock : Locks]]
      /\ \A e \in scan.out : OfTopic(e) = scan.topic /\ \E i \in DOMAIN evm : e \in evm[i]
      /\ \A i \in DOMAIN evm : \A e \in evm[i] :
           OfTopic(e) = scan.topic /\ i < scan.from /\ <<scan.topic, i>> \notin blind => Noted(e) \/ e \in scan.out
  BY <1>3 DEF EvmInv, Scanning
<1>5. /\ to \in 1..Len(evm) /\ to \in Nat /\ head \in 0..Len(evm) /\ head \in Nat
      /\ scan.from \in Nat \ {0} /\ Len(evm) \in Nat /\ to + 1 \in 1..Len(evm) + 1
  <2>1. scan.from \in Nat \ {0} /\ scan.latest \in Nat /\ scan.latest <= Len(evm) /\ Len(evm) \in Nat
    BY <1>4, Ends
  <2>2. head \in 0..Len(evm)
    BY Ends
  <2> QED
    BY <1>1, <2>1, <2>2
<1>6. /\ \A e : Noted(e) <=> Noted(e)'
      /\ \A t : To(t)' = To(t)
  BY <1>3 DEF Noted, To
<1>7. blind \subseteq blind'
  BY <1>1
<1>8. EvmPlaces' /\ Noticed'
  BY <1>3, <1>6, <1>7 DEF EvmInv, EvmPlaces, Noticed
<1>9. scan'.topic = scan.topic /\ scan'.from = to + 1 /\ scan'.latest = scan.latest /\ scan'.out = scan.out \cup logs
      /\ scan' = [topic |-> scan.topic, from |-> to + 1, latest |-> scan.latest, out |-> scan.out \cup logs]
  BY <1>1, <1>2, <1>4 DEF After
<1>10. PICK last : last = Least(to, head)
  OBVIOUS
<1>11. last \in Nat /\ last <= Len(evm) /\ last <= to /\ (last < to => last = head)
  BY <1>5, <1>10 DEF Least
<1>12. \A e : e \in logs <=> (\E i \in scan.from..last : e \in evm[i]) /\ OfTopic(e) = scan.topic
  <2>1. \A e : e \in logs <=> /\ \E i \in scan.from..last : e \in evm[i]
                            /\ IF scan.topic = "locked" THEN e.kind = "locked" ELSE e.kind # "locked"
    BY <1>2, <1>10 DEF Logs
  <2>2. \A e : OfTopic(e) = scan.topic <=> IF scan.topic = "locked" THEN e.kind = "locked" ELSE e.kind # "locked"
    BY <1>4 DEF OfTopic
  <2> QED
    BY <2>1, <2>2
<1>13. \A i \in scan.from..last : i \in DOMAIN evm
  BY <1>5, <1>11, Ends
<1>14. logs \subseteq [kind : Kinds, lock : Locks]
  <2>1. \A i \in DOMAIN evm : evm[i] \in SUBSET [kind : Kinds, lock : Locks]
    BY DEF EvmInv, EvmPlaces
  <2> QED
    BY <1>12, <1>13, <2>1
<1>15. ASSUME NEW i \in DOMAIN evm, NEW e \in evm[i], OfTopic(e) = scan.topic, i < to + 1, <<scan.topic, i>> \notin blind'
       PROVE  Noted(e) \/ e \in scan.out \cup logs
  <2>1. i \in Nat
    BY Ends
  <2>2. CASE i < scan.from
    BY <1>4, <1>7, <1>15, <2>2
  <2>3. CASE ~(i < scan.from)
    <3>1. i \in scan.from..to
      BY <1>5, <1>15, <2>1, <2>3
    <3>2. ~(i > head)
      BY <1>1, <1>15, <3>1
    <3>3. i \in scan.from..last
      BY <1>5, <1>11, <2>1, <3>1, <3>2
    <3> QED
      BY <1>12, <1>15, <3>3
  <2> QED
    BY <2>2, <2>3
<1>16. Scanning'
  <2>1. scan' \in [topic : {"locked", "settled"}, from : 1..Len(evm') + 1, latest : 0..Len(evm'),
                    out : SUBSET [kind : Kinds, lock : Locks]]
    BY <1>3, <1>4, <1>5, <1>9, <1>14
  <2>2. \A e \in scan'.out : OfTopic(e) = scan'.topic /\ \E i \in DOMAIN evm' : e \in evm'[i]
    BY <1>3, <1>4, <1>9, <1>12, <1>13
  <2>3. \A i \in DOMAIN evm' : \A e \in evm'[i] :
          OfTopic(e) = scan'.topic /\ i < scan'.from /\ <<scan'.topic, i>> \notin blind' => Noted(e)' \/ e \in scan'.out
    BY <1>3, <1>6, <1>9, <1>15
  <2> QED
    BY <1>3, <2>1, <2>2, <2>3 DEF Scanning
<1> QED
  BY <1>8, <1>16 DEF EvmInv

(* The rows of a scan: what was noted stays, for the contract ends a lock  *)
(* once, and what the scan found is noted.                                 *)
LEMMA PutEventsStep == ASSUME EvmInv, PutEvents PROVE EvmInv'
<1>1. /\ at = "scan" /\ scan.from > scan.latest /\ at' = "cursor"
      /\ mapped' = mapped \cup {e.lock : e \in {x \in scan.out : x.kind = "locked"}}
      /\ UNCHANGED <<lockedTo, settledTo, scan, evm, blind>>
  BY DEF PutEvents
<1>2. /\ scan \in [topic : {"locked", "settled"}, from : 1..Len(evm) + 1, latest : 0..Len(evm),
                 out : SUBSET [kind : Kinds, lock : Locks]]
      /\ \A e \in scan.out : OfTopic(e) = scan.topic /\ \E i \in DOMAIN evm : e \in evm[i]
      /\ \A i \in DOMAIN evm : \A e \in evm[i] :
           OfTopic(e) = scan.topic /\ i < scan.from /\ <<scan.topic, i>> \notin blind => Noted(e) \/ e \in scan.out
  BY <1>1 DEF EvmInv, Scanning
<1>3. \A e \in scan.out : e.kind \in Kinds /\ e.lock \in Locks
  BY <1>2
<1>4. ASSUME NEW l \in Locks
      PROVE  \/ ended'[l] = ended[l] /\ \A e \in scan.out : e.lock = l => e.kind = "locked"
             \/ \E e \in scan.out : e.lock = l /\ e.kind # "locked" /\ ended'[l] = e.kind
  <2>1. PICK es : es = {e \in scan.out : e.lock = l /\ e.kind # "locked"}
    OBVIOUS
  <2>2. ended'[l] = IF es = {} THEN ended[l] ELSE (CHOOSE e \in es : TRUE).kind
    BY <2>1 DEF PutEvents
  <2>3. CASE es = {}
    BY <2>1, <2>2, <2>3
  <2>4. CASE es # {}
    <3>1. PICK e : e = CHOOSE x \in es : TRUE
      OBVIOUS
    <3>2. e \in es
      BY <2>4, <3>1
    <3> QED
      BY <2>1, <2>2, <2>4, <3>1, <3>2
  <2> QED
    BY <2>3, <2>4
<1>5. ASSUME NEW i \in DOMAIN evm, NEW e \in evm[i], Noted(e) \/ e \in scan.out
      PROVE  Noted(e)'
  <2>1. CASE e.kind = "locked"
    BY <1>1, <1>5, <2>1 DEF Noted
  <2>2. CASE e.kind # "locked"
    <3>1. e.lock \in Locks
      BY Ends
    <3>2. CASE ended'[e.lock] = ended[e.lock] /\ \A f \in scan.out : f.lock = e.lock => f.kind = "locked"
      BY <1>5, <2>2, <3>2 DEF Noted
    <3>3. CASE \E f \in scan.out : f.lock = e.lock /\ f.kind # "locked" /\ ended'[e.lock] = f.kind
      <4>1. PICK f \in scan.out : f.lock = e.lock /\ f.kind # "locked" /\ ended'[e.lock] = f.kind
        BY <3>3
      <4>2. PICK j \in DOMAIN evm : f \in evm[j]
        BY <1>2
      <4>3. OneEnd(evm)
        BY DEF EvmInv, EvmPlaces
      <4>4. e.kind = f.kind
        BY <2>2, <4>1, <4>2, <4>3 DEF OneEnd
      <4> QED
        BY <2>2, <4>1, <4>4 DEF Noted
    <3> QED
      BY <1>4, <3>1, <3>2, <3>3
  <2> QED
    BY <2>1, <2>2
<1>6. \A t : To(t)' = To(t)
  BY <1>1 DEF To
<1>7. EvmPlaces'
  BY <1>1, <1>3 DEF EvmInv, EvmPlaces
<1>8. Noticed'
  BY <1>1, <1>5, <1>6 DEF EvmInv, Noticed
<1>9. Scanning'
  BY <1>1, <1>2, <1>5 DEF Scanning
<1> QED
  BY <1>7, <1>8, <1>9 DEF EvmInv

(* The cursor moves below what was scanned.                                *)
LEMMA PutCursorStep == ASSUME EvmInv, PutCursor PROVE EvmInv'
<1>1. /\ at = "cursor" /\ at' \notin {"scan", "cursor"} /\ UNCHANGED <<mapped, ended, evm, blind>>
  BY DEF PutCursor
<1>2. /\ scan.topic \in {"locked", "settled"} /\ scan.from \in 1..Len(evm) + 1 /\ scan.latest \in 0..Len(evm)
      /\ scan.from > scan.latest
      /\ \A i \in DOMAIN evm : \A e \in evm[i] :
           OfTopic(e) = scan.topic /\ i < scan.from /\ <<scan.topic, i>> \notin blind => Noted(e)
  BY <1>1 DEF EvmInv, Scanning
<1>3. ASSUME NEW t \in {"locked", "settled"}, To(t)' # To(t) PROVE t = scan.topic /\ To(t)' = scan.latest
  <2>1. CASE t = "locked"
    BY <1>2, <1>3, <2>1 DEF PutCursor, To
  <2>2. CASE t = "settled"
    BY <1>2, <1>3, <2>2 DEF PutCursor, To
  <2> QED
    BY <1>3, <2>1, <2>2
<1>4. \A e : Noted(e) <=> Noted(e)'
  BY <1>1 DEF Noted
<1>5. EvmPlaces'
  BY <1>1, <1>2 DEF EvmInv, EvmPlaces, PutCursor
<1>6. Noticed'
  <2> SUFFICES ASSUME NEW i \in DOMAIN evm, NEW e \in evm[i], i <= To(OfTopic(e))', <<OfTopic(e), i>> \notin blind
               PROVE  Noted(e)
    BY <1>1, <1>4 DEF Noticed
  <2>1. CASE i <= To(OfTopic(e))
    BY <2>1 DEF EvmInv, Noticed
  <2>2. CASE OfTopic(e) = scan.topic /\ i <= scan.latest
    <3>1. i < scan.from
      BY <1>2, <2>2, Ends
    <3> QED
      BY <1>2, <2>2, <3>1
  <2>3. OfTopic(e) \in {"locked", "settled"}
    BY DEF OfTopic
  <2> QED
    BY <1>3, <2>1, <2>2, <2>3
<1> QED
  BY <1>1, <1>5, <1>6 DEF EvmInv, Scanning

(* A block with an event comes after what is scanned; the contract ends a  *)
(* lock once.                                                              *)
LEMMA EvmBlockStep == ASSUME EvmInv, NEW l \in Locks, EvmBlock(l) PROVE EvmInv'
<1>1. PICK kind \in Kinds :
        /\ kind # "locked" => ~Happened("claimed", l) /\ ~Happened("refunded", l)
        /\ evm' = Append(evm, {Event(kind, l)})
  BY DEF EvmBlock
<1>2. Len(evm) < MaxEvm /\ UNCHANGED <<mapped, ended, lockedTo, settledTo, at, scan, blind>>
  BY DEF EvmBlock, tradeVars
<1>3. PICK n : n = Len(evm)
  OBVIOUS
<1>4. evm \in Seq(SUBSET [kind : Kinds, lock : Locks]) /\ n \in Nat \ {0} /\ MaxEvm \in Nat /\ OneEnd(evm)
  BY <1>3, Ends, TradeAssumption DEF EvmInv, EvmPlaces
<1>5. PICK new : new = Event(kind, l)
  OBVIOUS
<1>6. new \in [kind : Kinds, lock : Locks] /\ new = [kind |-> kind, lock |-> l]
  BY <1>5 DEF Event
<1>7. /\ evm' \in Seq(SUBSET [kind : Kinds, lock : Locks]) /\ Len(evm') = n + 1
      /\ DOMAIN evm' = 1..n + 1 /\ DOMAIN evm = 1..n
      /\ evm'[n + 1] = {new} /\ \A i \in 1..n : evm'[i] = evm[i]
  BY <1>1, <1>3, <1>4, <1>5, <1>6
<1>8. \A i \in 1..n + 1 : \A e \in evm'[i] : e = new \/ (i \in 1..n /\ e \in evm[i])
  <2> SUFFICES ASSUME NEW i \in 1..n + 1, NEW e \in evm'[i] PROVE e = new \/ (i \in 1..n /\ e \in evm[i])
    OBVIOUS
  <2>1. i = n + 1 \/ i \in 1..n
    BY <1>4
  <2> QED
    BY <1>7, <2>1
<1>9. ASSUME NEW i \in 1..n, NEW e \in evm[i], e.lock = l, "locked" \notin {e.kind, kind} PROVE FALSE
  <2>1. e \in [kind : Kinds, lock : Locks]
    BY <1>4, <1>7
  <2>2. e = Event(e.kind, l) /\ e.kind \in Kinds
    BY <1>9, <2>1 DEF Event
  <2>3. Happened(e.kind, l)
    BY <1>7, <2>2 DEF Happened
  <2> QED
    BY <1>1, <1>9, <2>2, <2>3 DEF Kinds
<1>10. OneEnd(evm')
  <2> SUFFICES ASSUME NEW i \in 1..n + 1, NEW j \in 1..n + 1, NEW e \in evm'[i], NEW f \in evm'[j],
                      e.lock = f.lock, "locked" \notin {e.kind, f.kind}
               PROVE  e.kind = f.kind
    BY <1>7 DEF OneEnd
  <2>1. (e = new \/ (i \in 1..n /\ e \in evm[i])) /\ (f = new \/ (j \in 1..n /\ f \in evm[j]))
    BY <1>8
  <2>2. new.lock = l /\ new.kind = kind
    BY <1>6
  <2>3. CASE e = new
    BY <1>9, <2>1, <2>2, <2>3
  <2>4. CASE f = new
    BY <1>9, <2>1, <2>2, <2>4
  <2>5. CASE e # new /\ f # new
    BY <1>4, <1>7, <2>1, <2>5 DEF OneEnd
  <2> QED
    BY <2>3, <2>4, <2>5
<1>11. /\ \A e : Noted(e) <=> Noted(e)'
       /\ \A t : To(t)' = To(t) /\ To(t) \in Nat /\ To(t) <= n
  BY <1>2, <1>3, Ends DEF Noted, To
<1>12. EvmPlaces'
  <2>1. Len(evm') \in 1..MaxEvm
    BY <1>2, <1>3, <1>4, <1>7
  <2>2. lockedTo' \in 0..Len(evm') /\ settledTo' \in 0..Len(evm')
    BY <1>2, <1>3, <1>4, <1>7, Ends
  <2> QED
    BY <1>2, <1>7, <1>10, <2>1, <2>2 DEF EvmInv, EvmPlaces
<1>13. Noticed'
  <2> SUFFICES ASSUME NEW i \in 1..n + 1, NEW e \in evm'[i], i <= To(OfTopic(e)), <<OfTopic(e), i>> \notin blind
               PROVE  Noted(e)
    BY <1>2, <1>7, <1>11 DEF Noticed
  <2>1. i \in 1..n
    BY <1>4, <1>11
  <2> QED
    BY <1>7, <2>1 DEF EvmInv, Noticed
<1>14. Scanning'
  <2> SUFFICES ASSUME at \in {"scan", "cursor"} PROVE Scanning'
    BY <1>2 DEF Scanning
  <2>1. scan \in [topic : {"locked", "settled"}, from : 1..n + 1, latest : 0..n,
                  out : SUBSET [kind : Kinds, lock : Locks]]
    BY <1>3 DEF EvmInv, Scanning
  <2>2. scan' \in [topic : {"locked", "settled"}, from : 1..Len(evm') + 1, latest : 0..Len(evm'),
                   out : SUBSET [kind : Kinds, lock : Locks]]
    <3>1. 1..n + 1 \subseteq 1..(n + 1) + 1 /\ 0..n \subseteq 0..n + 1
      BY <1>4
    <3> QED
      BY <1>2, <1>7, <2>1, <3>1
  <2>3. \A e \in scan'.out : OfTopic(e) = scan'.topic /\ \E i \in DOMAIN evm' : e \in evm'[i]
    <3> SUFFICES ASSUME NEW e \in scan.out PROVE OfTopic(e) = scan.topic /\ \E i \in DOMAIN evm' : e \in evm'[i]
      BY <1>2
    <3>1. OfTopic(e) = scan.topic /\ \E i \in 1..n : e \in evm[i]
      BY <1>7 DEF EvmInv, Scanning
    <3>2. \A i \in 1..n : i \in 1..n + 1
      BY <1>4
    <3> QED
      BY <1>7, <3>1, <3>2
  <2>4. ASSUME NEW i \in 1..n + 1, NEW e \in evm'[i], OfTopic(e) = scan.topic, i < scan.from, <<scan.topic, i>> \notin blind
        PROVE  Noted(e) \/ (at = "scan" /\ e \in scan.out)
    <3>1. scan.from \in 1..n + 1
      BY <2>1
    <3>2. i \in 1..n
      BY <1>4, <2>4, <3>1
    <3> QED
      BY <1>7, <2>4, <3>2 DEF EvmInv, Scanning
  <2>5. at = "cursor" => scan.from > scan.latest
    BY DEF EvmInv, Scanning
  <2> QED
    BY <1>2, <1>7, <1>11, <2>2, <2>3, <2>4, <2>5 DEF Scanning
<1> QED
  BY <1>12, <1>13, <1>14 DEF EvmInv

LEMMA EvmStep == ASSUME L1Inv, EvmInv, [TNext]_tVars PROVE EvmInv'
<1>1. CASE UNCHANGED tVars \/ AddressIndexSteps \/ \E b \in Blocks : TurnTo(b)
  BY <1>1, EvmStill DEF tVars, tradeVars, AddressIndexSteps, TurnTo
<1>2. CASE L1Tip \/ Query \/ Jump \/ FetchSpends \/ PutLegs
  BY <1>2, EvmStill DEF L1Tip, Query, Jump, FetchSpends, PutLegs, evmVars
<1>3. CASE Mark \/ ScanFails \/ Crash
  BY <1>3, EvmStill DEF Mark, ScanFails, Crash, evmVars
<1>4. CASE EvmLocked \/ EvmSettled \/ Window \/ PutEvents \/ PutCursor
  BY <1>4, StartStep, WindowStep, PutEventsStep, PutCursorStep
<1>5. CASE \E l \in Locks : EvmBlock(l)
  BY <1>5, EvmBlockStep
<1> QED
  BY <1>1, <1>2, <1>3, <1>4, <1>5 DEF TNext, TradeNext
-----------------------------------------------------------------------------
LEMMA TradeInit == ASSUME TInit PROVE Inv /\ L1Inv /\ EvmInv
<1>1. Inv
  BY InitStep DEF TInit
<1>2. tip \in Blocks /\ Len(Chain) \in Nat /\ stored = <<>> /\ held = None
  BY BranchEnds DEF TInit, Init, Chain
<1>3. cursor = 0 /\ legs = [k \in Hashlocks |-> NoLeg] /\ at = "l1" /\ seenTip = 0 /\ work = {} /\ block = None /\ passed = {} /\ leapt = {}
  BY DEF TInit
<1>4. Places /\ Legs /\ Stages
  BY <1>2, <1>3 DEF Places, Legs, Stages, NoLeg
<1>5. Follows /\ Below1
  BY <1>2, <1>3 DEF Follows, Below1
<1>6. L1Inv
  BY <1>3, <1>4, <1>5 DEF L1Inv, InList, InHand, InJump
<1>7. evm \in Histories /\ mapped = {} /\ lockedTo = 0 /\ settledTo = 0
  BY DEF TInit
<1>8. evm \in Seq(SUBSET [kind : Kinds, lock : Locks]) /\ Len(evm) \in 1..MaxEvm /\ OneEnd(evm)
  BY <1>7, TradeAssumption
<1>9. Len(evm) \in Nat /\ DOMAIN evm = 1..Len(evm)
  BY <1>8
<1>10. EvmPlaces /\ Noticed
  <2>1. EvmPlaces
    BY <1>7, <1>8, <1>9 DEF EvmPlaces
  <2>2. \A t : To(t) = 0
    BY <1>7 DEF To
  <2>3. \A i \in DOMAIN evm : ~(i <= 0)
    BY <1>9
  <2> QED
    BY <2>1, <2>2, <2>3 DEF Noticed
<1> QED
  BY <1>1, <1>3, <1>6, <1>10 DEF EvmInv, Scanning

(* The address index beside the trade index takes the steps it takes alone.*)
LEMMA AddressIndexRefined == ASSUME [TNext]_tVars PROVE [Next]_vars
BY DEF TNext, TradeNext, tVars, L1Tip, Query, Jump, FetchSpends, PutLegs, Mark, EvmLocked, EvmSettled, Window, PutEvents,
       PutCursor, ScanFails, Crash, EvmBlock, TurnTo, AddressIndexSteps, Next

(* Whatever the node, the address index and the EVM endpoint do between    *)
(* two awaits of the loop, and wherever it is stopped, the cursors hide    *)
(* nothing but what the conjuncts of CursorsHideNothing except, the leap   *)
(* over an empty address index (gbx-trade-index.js:154-157) among it.      *)
THEOREM NeitherCursorHidesAnything == TSpec => []CursorsHideNothing
<1>1. TInit => Inv /\ L1Inv /\ EvmInv
  BY TradeInit
<1>2. ASSUME Inv, [TNext]_tVars PROVE Inv'
  BY <1>2, AddressIndexRefined, Invariance
<1>3. Inv /\ L1Inv /\ EvmInv /\ [TNext]_tVars => (Inv /\ L1Inv /\ EvmInv)'
  BY <1>2, L1Step, EvmStep
<1>4. ASSUME Inv, L1Inv, EvmInv PROVE CursorsHideNothing
  <2>1. TradeTypeOK
    <3>1. TypeOK /\ cursor \in Nat
      BY <1>4, Numbers DEF Inv
    <3>2. lockedTo <= MaxEvm /\ settledTo <= MaxEvm /\ mapped \subseteq Locks
      <4>1. MaxEvm \in Nat
        BY TradeAssumption
      <4> QED
        BY <1>4, <4>1, Ends DEF EvmInv, EvmPlaces
    <3> QED
      BY <1>4, <3>1, <3>2 DEF TradeTypeOK, L1Inv, Places, Legs, Stages
  <2>2. SpendsBelowCursorSeen
    <3> SUFFICES ASSUME NEW i \in DOMAIN Chain, i <= cursor, Chain[i] \notin passed \cup leapt PROVE Legged(Chain[i])
      BY DEF SpendsBelowCursorSeen, Legged
    <3>1. i \in 1..cursor
      BY <1>4, Numbers
    <3> QED
      BY <1>4, <3>1 DEF L1Inv, Below1, Settled
  <2>3. EventsBelowCursorSeen
    <3> SUFFICES ASSUME NEW i \in DOMAIN evm, NEW e \in evm[i]
                 PROVE  /\ e.kind = "locked" /\ i <= lockedTo /\ <<"locked", i>> \notin blind => e.lock \in mapped
                        /\ e.kind # "locked" /\ i <= settledTo /\ <<"settled", i>> \notin blind => ended[e.lock] = e.kind
      BY DEF EventsBelowCursorSeen
    <3>1. i <= To(OfTopic(e)) /\ <<OfTopic(e), i>> \notin blind => Noted(e)
      BY <1>4 DEF EvmInv, Noticed
    <3> QED
      BY <3>1 DEF To, OfTopic, Noted
  <2> QED
    BY <2>1, <2>2, <2>3 DEF CursorsHideNothing
<1> QED
  BY <1>1, <1>3, <1>4, PTL DEF TSpec
-----------------------------------------------------------------------------
Blocked == Seq(Seq(DOMAIN Tx))
Entry == [h : Nat, id : DOMAIN Tx]
-----------------------------------------------------------------------------
(* The chains grow from the bases by legal blocks.                         *)
IsGrowth(g, m) == g = [n \in 0 .. m |-> IF n = 0 THEN Bases ELSE Grown(g[n - 1])]

LEMMA GrowthExists == ASSUME NEW M \in Nat PROVE \E g : IsGrowth(g, M)
<1> DEFINE Bad == {m \in Nat : ~\E g : IsGrowth(g, m)}
<1>1. Bad = {}
  <2> SUFFICES ASSUME Bad # {} PROVE FALSE
    OBVIOUS
  <2>1. PICK m \in Bad : \A k \in Bad : m <= k
    BY LeastMember
  <2>2. CASE m = 0
    <3>1. PICK g : g = [n \in 0 .. 0 |-> Bases]
      OBVIOUS
    <3>2. IsGrowth(g, 0)
      BY <3>1 DEF IsGrowth
    <3> QED
      BY <2>1, <2>2, <3>2
  <2>3. CASE m # 0
    <3>1. m - 1 \in Nat /\ m \in Nat /\ ~(m <= m - 1)
      BY <2>1, <2>3
    <3>2. PICK h : IsGrowth(h, m - 1)
      BY <2>1, <3>1
    <3>3. PICK g : g = [n \in 0 .. m |-> IF n = 0 THEN Bases ELSE Grown(h[n - 1])]
      OBVIOUS
    <3> HIDE DEF Bad
    <3>4. \A n \in 0 .. m - 1 : g[n] = h[n]
      BY <3>1, <3>2, <3>3 DEF IsGrowth
    <3>5. \A n \in 0 .. m : n # 0 => n - 1 \in 0 .. m - 1
      BY <3>1
    <3>6. g = [n \in 0 .. m |-> IF n = 0 THEN Bases ELSE Grown(g[n - 1])]
      BY <3>3, <3>4, <3>5
    <3> QED
      BY <2>1, <3>6 DEF Bad, IsGrowth
  <2> QED
    BY <2>2, <2>3
<1> QED
  BY <1>1

(* The sets of chains by length are what the recursion says they are.      *)
LEMMA ChainsGrow ==
  \A n \in 0 .. MaxNew : ChainsOf[n] = IF n = 0 THEN Bases ELSE Grown(ChainsOf[n - 1])
<1>1. \E g : IsGrowth(g, MaxNew)
  BY GrowthExists, ChainAssumption
<1>2. ChainsOf = [n \in 0 .. MaxNew |-> IF n = 0 THEN Bases ELSE Grown(ChainsOf[n - 1])]
  BY <1>1 DEF ChainsOf, IsGrowth
<1> QED
  BY <1>2

AreLegal(S) == \A c \in S : c \in Blocked /\ Ledger(c).legal
LEMMA GrownAreLegal == ASSUME NEW S, AreLegal(S) PROVE AreLegal(Grown(S))
<1> SUFFICES ASSUME NEW c \in Grown(S) PROVE c \in Blocked /\ Ledger(c).legal
  BY DEF AreLegal
<1>1. PICK d \in S, b \in NewBlocks : c = Append(d, b) /\ Ledger(c).legal
  BY DEF Grown
<1>2. d \in Seq(Seq(DOMAIN Tx)) /\ b \in Seq(DOMAIN Tx)
  BY ChainAssumption DEF Blocked, AreLegal
<1>3. Append(d, b) \in Seq(Seq(DOMAIN Tx))
  BY <1>2, AppendProperties
<1> QED
  BY <1>1, <1>3 DEF Blocked

(* Every chain of the node has a legal ledger.                             *)
LEMMA ChainsLegal == AreLegal(Chains)
<1> DEFINE Bad == {n \in 0 .. MaxNew : ~AreLegal(ChainsOf[n])}
<1>1. Bad = {}
  <2> SUFFICES ASSUME Bad # {} PROVE FALSE
    OBVIOUS
  <2>0. Bad \in SUBSET Nat
    BY ChainAssumption
  <2>1. PICK n \in Bad : \A m \in Bad : n <= m
    BY <2>0, LeastMember
  <2>2. MaxNew \in Nat /\ n \in 0 .. MaxNew
    BY <2>1, ChainAssumption
  <2>3. CASE n = 0
    <3>1. ChainsOf[0] = Bases
      BY <2>2, ChainsGrow
    <3>2. AreLegal(Bases)
      BY ChainAssumption DEF AreLegal, Blocked
    <3> QED
      BY <2>1, <2>3, <3>1, <3>2
  <2>4. CASE n # 0
    <3>1. n - 1 \in 0 .. MaxNew /\ ~(n <= n - 1)
      BY <2>2, <2>4
    <3>2. AreLegal(ChainsOf[n - 1])
      BY <2>1, <3>1
    <3>3. ChainsOf[n] = Grown(ChainsOf[n - 1])
      BY <2>2, <2>4, ChainsGrow
    <3> QED
      BY <2>1, <3>2, <3>3, GrownAreLegal
  <2> QED
    BY <2>3, <2>4
<1> QED
  BY <1>1 DEF Chains, AreLegal
-----------------------------------------------------------------------------
(* Mined, block by block.                                                  *)
BlockEntries(c, h) == [i \in DOMAIN c[h] |-> [h |-> h, id |-> c[h][i]]]

LEMMA BlockEntriesTyped ==
  ASSUME NEW c \in Blocked, NEW h \in 1 .. Len(c)
  PROVE  /\ c[h] \in Seq(DOMAIN Tx) /\ BlockEntries(c, h) \in Seq(Entry)
         /\ Len(BlockEntries(c, h)) = Len(c[h]) /\ Len(c[h]) \in Nat /\ h \in Nat
         /\ \A i \in 1 .. Len(c[h]) : /\ BlockEntries(c, h)[i] = [h |-> h, id |-> c[h][i]]
                                      /\ c[h][i] \in DOMAIN Tx
<1>1. c[h] \in Seq(DOMAIN Tx) /\ h \in Nat
  BY DEF Blocked
<1>2. DOMAIN c[h] = 1 .. Len(c[h]) /\ Len(c[h]) \in Nat /\ \A i \in 1 .. Len(c[h]) : c[h][i] \in DOMAIN Tx
  BY <1>1
<1>3. BlockEntries(c, h) = [i \in 1 .. Len(c[h]) |-> [h |-> h, id |-> c[h][i]]]
  BY <1>2 DEF BlockEntries
<1>4. \A i \in 1 .. Len(c[h]) : [h |-> h, id |-> c[h][i]] \in Entry
  BY <1>1, <1>2 DEF Entry
<1>5. BlockEntries(c, h) \in Seq(Entry) /\ Len(BlockEntries(c, h)) = Len(c[h])
  BY <1>2, <1>3, <1>4, IsASeq
<1> QED
  BY <1>1, <1>2, <1>3, <1>5

(* Concatenation as FlattenSeq goes about it.                              *)
IsFlat(g, f, m) == g = [i \in 1 .. m |-> IF i = 1 THEN f[i] ELSE g[i - 1] \o f[i]]

LEMMA FlatExists == ASSUME NEW f, NEW M \in Nat PROVE \E g : IsFlat(g, f, M)
<1> DEFINE Bad == {m \in Nat : ~\E g : IsFlat(g, f, m)}
<1>1. Bad = {}
  <2> SUFFICES ASSUME Bad # {} PROVE FALSE
    OBVIOUS
  <2>1. PICK m \in Bad : \A k \in Bad : m <= k
    BY LeastMember
  <2>2. CASE m = 0
    <3>1. PICK g : g = [i \in 1 .. 0 |-> <<>>]
      OBVIOUS
    <3>2. IsFlat(g, f, 0)
      BY <3>1 DEF IsFlat
    <3> QED
      BY <2>1, <2>2, <3>2
  <2>3. CASE m # 0
    <3>1. m - 1 \in Nat /\ m \in Nat /\ ~(m <= m - 1)
      BY <2>1, <2>3
    <3>2. PICK h : IsFlat(h, f, m - 1)
      BY <2>1, <3>1
    <3>3. PICK g : g = [i \in 1 .. m |-> IF i = 1 THEN f[i] ELSE h[i - 1] \o f[i]]
      OBVIOUS
    <3> HIDE DEF Bad
    <3>4. \A i \in 1 .. m - 1 : g[i] = h[i]
      <4> SUFFICES ASSUME NEW i \in 1 .. m - 1 PROVE g[i] = h[i]
        OBVIOUS
      <4>1. i \in 1 .. m
        BY <3>1
      <4>2. h[i] = IF i = 1 THEN f[i] ELSE h[i - 1] \o f[i]
        BY <3>2 DEF IsFlat
      <4>3. g[i] = IF i = 1 THEN f[i] ELSE h[i - 1] \o f[i]
        BY <3>3, <4>1
      <4> QED
        BY <4>2, <4>3
    <3>5. \A i \in 1 .. m : i # 1 => i - 1 \in 1 .. m - 1
      BY <3>1
    <3>6. g = [i \in 1 .. m |-> IF i = 1 THEN f[i] ELSE g[i - 1] \o f[i]]
      BY <3>3, <3>4, <3>5
    <3> QED
      BY <2>1, <3>6 DEF Bad, IsFlat
  <2> QED
    BY <2>2, <2>3
<1> QED
  BY <1>1

(* The entries up to height h: one block after another.                    *)
LEMMA MinedByBlocks ==
  ASSUME NEW c \in Blocked
  PROVE  \E g : /\ g[0] = <<>> /\ Mined(c) = g[Len(c)]
                /\ \A h \in 1 .. Len(c) : g[h] = g[h - 1] \o BlockEntries(c, h)
<1>1. Len(c) \in Nat /\ DOMAIN c = 1 .. Len(c)
  BY DEF Blocked
<1> DEFINE f == [h \in DOMAIN c |-> [i \in DOMAIN c[h] |-> [h |-> h, id |-> c[h][i]]]]
<1>2. /\ DOMAIN f = 1 .. Len(c) /\ Len(f) = Len(c)
      /\ \A h \in 1 .. Len(c) : f[h] = BlockEntries(c, h) /\ f[h] \in Seq(Entry)
  BY <1>1, BlockEntriesTyped DEF BlockEntries
<1>3. Mined(c) = FlattenSeq(f)
  BY DEF Mined
<1> HIDE DEF f
<1>4. CASE Len(c) = 0
  <2>1. Mined(c) = <<>>
    BY <1>2, <1>3, <1>4 DEF FlattenSeq
  <2>2. PICK g : g = [h \in 0 .. 0 |-> <<>>]
    OBVIOUS
  <2> QED
    BY <1>4, <2>1, <2>2
<1>5. CASE Len(c) # 0
  <2>1. PICK flatten : flatten = CHOOSE g : g = [i \in 1 .. Len(f) |-> IF i = 1 THEN f[i] ELSE g[i - 1] \o f[i]]
    OBVIOUS
  <2>2. FlattenSeq(f) = flatten[Len(f)]
    BY <1>2, <1>5, <2>1 DEF FlattenSeq
  <2>3. \E g : IsFlat(g, f, Len(f))
    BY <1>1, <1>2, FlatExists
  <2>4. IsFlat(flatten, f, Len(f))
    BY <2>1, <2>3 DEF IsFlat
  <2>5. PICK G : G = [h \in 0 .. Len(c) |-> IF h = 0 THEN <<>> ELSE flatten[h]]
    OBVIOUS
  <2>6. G[0] = <<>> /\ Mined(c) = G[Len(c)]
    BY <1>1, <1>2, <1>3, <1>5, <2>2, <2>5
  <2>7. ASSUME NEW h \in 1 .. Len(c) PROVE G[h] = G[h - 1] \o BlockEntries(c, h)
    <3>1. G[h] = flatten[h] /\ h - 1 \in 0 .. Len(c) /\ G[h - 1] = IF h = 1 THEN <<>> ELSE flatten[h - 1]
      BY <1>1, <2>5
    <3>2. flatten[h] = IF h = 1 THEN f[h] ELSE flatten[h - 1] \o f[h]
      BY <1>2, <2>4 DEF IsFlat
    <3>3. <<>> \o f[h] = f[h]
      BY <1>2, ConcatEmptySeq
    <3> QED
      BY <1>2, <3>1, <3>2, <3>3
  <2> QED
    BY <2>6, <2>7
<1> QED
  BY <1>4, <1>5

(* The entries of the blocks up to height h, and those before the j-th of  *)
(* block h.                                                                *)
EntriesTo(c, h) == {e \in Entry : \E g \in 1 .. h : \E i \in 1 .. Len(c[g]) : e = [h |-> g, id |-> c[g][i]]}
Earlier(c, h, j) == EntriesTo(c, h - 1) \cup {[h |-> h, id |-> c[h][i]] : i \in 1 .. j - 1}
Firsts(s, k) == {s[i] : i \in 1 .. k}

(* The entries up to a height are those below it and the block's.          *)
LEMMA EntriesOfBlock ==
  ASSUME NEW c \in Blocked, NEW h \in 1 .. Len(c)
  PROVE  EntriesTo(c, h) = EntriesTo(c, h - 1) \cup Firsts(BlockEntries(c, h), Len(c[h]))
<1>1. h \in Nat /\ Len(c[h]) \in Nat /\ \A i \in 1 .. Len(c[h]) : /\ BlockEntries(c, h)[i] = [h |-> h, id |-> c[h][i]]
                                                                /\ c[h][i] \in DOMAIN Tx
  BY BlockEntriesTyped
<1>2. \A e : e \in Firsts(BlockEntries(c, h), Len(c[h])) <=> \E i \in 1 .. Len(c[h]) : e = [h |-> h, id |-> c[h][i]]
  BY <1>1 DEF Firsts
<1>3. \A i \in 1 .. Len(c[h]) : [h |-> h, id |-> c[h][i]] \in Entry
  BY <1>1 DEF Entry
<1>4. \A g : g \in 1 .. h <=> g \in 1 .. h - 1 \/ g = h
  BY <1>1
<1>5. \A e : e \in EntriesTo(c, h) <=> e \in EntriesTo(c, h - 1) \/ e \in Firsts(BlockEntries(c, h), Len(c[h]))
  BY <1>2, <1>3, <1>4 DEF EntriesTo
<1> QED
  BY <1>5

IsJoin(v, s, u, n) ==
  /\ v \in Seq(Entry) /\ Len(v) = Len(s) + n /\ Len(s) \in Nat /\ n \in Nat
  /\ \A j \in 0 .. n : Firsts(v, Len(s) + j) = Firsts(s, Len(s)) \cup Firsts(u, j)
  /\ \A i \in 1 .. Len(s) : v[i] = s[i]
  /\ \A i \in 1 .. n : v[Len(s) + i] = u[i]

(* The beginnings of a concatenation are those of its two parts.           *)
LEMMA FirstsConcat ==
  ASSUME NEW s \in Seq(Entry), NEW u \in Seq(Entry)
  PROVE  IsJoin(s \o u, s, u, Len(u))
<1>1. Len(s) \in Nat /\ Len(u) \in Nat
  OBVIOUS
<1>2. s \o u \in Seq(Entry) /\ Len(s \o u) = Len(s) + Len(u)
  BY ConcatProperties
<1>3. \A i \in 1 .. Len(s) + Len(u) : (s \o u)[i] = IF i <= Len(s) THEN s[i] ELSE u[i - Len(s)]
  BY ConcatProperties
<1>4. \A i \in 1 .. Len(s) : (s \o u)[i] = s[i]
  BY <1>1, <1>3
<1>5. ASSUME NEW i \in 1 .. Len(u) PROVE (s \o u)[Len(s) + i] = u[i]
  <2>1. Len(s) + i \in 1 .. Len(s) + Len(u) /\ ~(Len(s) + i <= Len(s)) /\ (Len(s) + i) - Len(s) = i
    BY <1>1
  <2> QED
    BY <1>3, <2>1
<1>6. ASSUME NEW j \in 0 .. Len(u), NEW e PROVE e \in Firsts(s \o u, Len(s) + j) <=> e \in Firsts(s, Len(s)) \/ e \in Firsts(u, j)
  <2>1. ASSUME e \in Firsts(s \o u, Len(s) + j) PROVE e \in Firsts(s, Len(s)) \/ e \in Firsts(u, j)
    <3>1. PICK i \in 1 .. Len(s) + j : e = (s \o u)[i]
      BY <2>1 DEF Firsts
    <3>2. CASE i <= Len(s)
      <4>1. i \in 1 .. Len(s)
        BY <1>1, <3>2
      <4> QED
        BY <1>4, <3>1, <4>1 DEF Firsts
    <3>3. CASE ~(i <= Len(s))
      <4>1. PICK k : k = i - Len(s)
        OBVIOUS
      <4>2. k \in 1 .. j /\ k \in 1 .. Len(u) /\ Len(s) + k = i
        BY <1>1, <3>3, <4>1
      <4> QED
        BY <1>5, <3>1, <4>2 DEF Firsts
    <3> QED
      BY <3>2, <3>3
  <2>2. ASSUME e \in Firsts(s, Len(s)) PROVE e \in Firsts(s \o u, Len(s) + j)
    <3>1. PICK i \in 1 .. Len(s) : e = s[i]
      BY <2>2 DEF Firsts
    <3>2. i \in 1 .. Len(s) + j
      BY <1>1
    <3> QED
      BY <1>4, <3>1, <3>2 DEF Firsts
  <2>3. ASSUME e \in Firsts(u, j) PROVE e \in Firsts(s \o u, Len(s) + j)
    <3>1. PICK i \in 1 .. j : e = u[i]
      BY <2>3 DEF Firsts
    <3>2. PICK k : k = Len(s) + i
      OBVIOUS
    <3>3. k \in 1 .. Len(s) + j /\ i \in 1 .. Len(u)
      BY <1>1, <3>2
    <3> QED
      BY <1>5, <3>1, <3>2, <3>3 DEF Firsts
  <2> QED
    BY <2>1, <2>2, <2>3
<1>7. \A j \in 0 .. Len(u) : Firsts(s \o u, Len(s) + j) = Firsts(s, Len(s)) \cup Firsts(u, j)
  BY <1>6
<1> QED
  BY <1>1, <1>2, <1>4, <1>5, <1>7 DEF IsJoin

LEMMA BlockFollows ==
  ASSUME NEW c \in Blocked, NEW h \in 1 .. Len(c), NEW s \in Seq(Entry)
  PROVE  IsJoin(s \o BlockEntries(c, h), s, BlockEntries(c, h), Len(c[h]))
<1>1. BlockEntries(c, h) \in Seq(Entry) /\ Len(BlockEntries(c, h)) = Len(c[h])
  BY BlockEntriesTyped
<1> QED
  BY <1>1, FirstsConcat

(* A transaction of a block has before it in Mined exactly the entries     *)
(* before it on the chain.                                                 *)
LEMMA MinedEntries ==
  ASSUME NEW c \in Blocked
  PROVE  /\ Mined(c) \in Seq(Entry) /\ ToSet(Mined(c)) = EntriesTo(c, Len(c))
         /\ \A h \in 1 .. Len(c) : \A j \in 1 .. Len(c[h]) :
              \E k \in 1 .. Len(Mined(c)) : /\ Mined(c)[k] = [h |-> h, id |-> c[h][j]]
                                            /\ Firsts(Mined(c), k - 1) = Earlier(c, h, j)
<1>1. Len(c) \in Nat
  BY DEF Blocked
<1>2. PICK g : /\ g[0] = <<>> /\ Mined(c) = g[Len(c)]
               /\ \A h \in 1 .. Len(c) : g[h] = g[h - 1] \o BlockEntries(c, h)
  BY MinedByBlocks
<1> DEFINE IsSoFar(n) == g[n] \in Seq(Entry) /\ Firsts(g[n], Len(g[n])) = EntriesTo(c, n)
           Bad == {n \in 0 .. Len(c) : ~IsSoFar(n)}
<1>3. Bad = {}
  <2> SUFFICES ASSUME Bad # {} PROVE FALSE
    OBVIOUS
  <2>0. Bad \in SUBSET Nat
    BY <1>1
  <2>1. PICK n \in Bad : \A m \in Bad : n <= m
    BY <2>0, LeastMember
  <2>2. CASE n = 0
    <3>1. g[0] \in Seq(Entry) /\ Len(g[0]) = 0
      BY <1>2
    <3>2. Firsts(g[0], 0) = {} /\ EntriesTo(c, 0) = {}
      BY DEF Firsts, EntriesTo
    <3> QED
      BY <2>1, <2>2, <3>1, <3>2
  <2>3. CASE n # 0
    <3>1. n \in 1 .. Len(c) /\ n - 1 \in 0 .. Len(c) /\ ~(n <= n - 1)
      BY <1>1, <2>1, <2>3
    <3>2. IsSoFar(n - 1)
      BY <2>1, <3>1
    <3>3. g[n] = g[n - 1] \o BlockEntries(c, n) /\ g[n - 1] \in Seq(Entry)
      BY <1>2, <3>1, <3>2
    <3>4. Len(c[n]) \in 0 .. Len(c[n])
      BY <3>1, BlockEntriesTyped
    <3>5. /\ g[n] \in Seq(Entry) /\ Len(g[n]) = Len(g[n - 1]) + Len(c[n])
          /\ Firsts(g[n], Len(g[n - 1]) + Len(c[n])) = Firsts(g[n - 1], Len(g[n - 1])) \cup Firsts(BlockEntries(c, n), Len(c[n]))
      <4>1. IsJoin(g[n], g[n - 1], BlockEntries(c, n), Len(c[n]))
        BY <3>1, <3>3, BlockFollows
      <4> QED
        BY <3>4, <4>1 DEF IsJoin
    <3>6. Firsts(g[n], Len(g[n])) = EntriesTo(c, n)
      BY <3>1, <3>2, <3>5, EntriesOfBlock
    <3> QED
      BY <2>1, <3>5, <3>6
  <2> QED
    BY <2>2, <2>3
<1>4. \A n \in 0 .. Len(c) : IsSoFar(n)
  BY <1>3
<1> HIDE DEF Bad
<1>5. Mined(c) \in Seq(Entry) /\ ToSet(Mined(c)) = EntriesTo(c, Len(c))
  <2>1. IsSoFar(Len(c))
    BY <1>1, <1>4
  <2>2. DOMAIN Mined(c) = 1 .. Len(Mined(c))
    BY <1>2, <2>1
  <2> QED
    BY <1>2, <2>1, <2>2 DEF ToSet, Firsts
<1>6. ASSUME NEW h \in 1 .. Len(c), NEW n \in h .. Len(c)
      PROVE  Len(g[h]) <= Len(g[n]) /\ \A i \in 1 .. Len(g[h]) : g[n][i] = g[h][i]
  <2> DEFINE Keeps(m) == Len(g[h]) <= Len(g[m]) /\ \A i \in 1 .. Len(g[h]) : g[m][i] = g[h][i]
             Cut == {m \in h .. Len(c) : ~Keeps(m)}
  <2>1. Cut = {}
    <3> SUFFICES ASSUME Cut # {} PROVE FALSE
      OBVIOUS
    <3>0. Cut \in SUBSET Nat
      BY <1>1
    <3>1. PICK m \in Cut : \A k \in Cut : m <= k
      BY <3>0, LeastMember
    <3>2. m \in 1 .. Len(c) /\ m \in h .. Len(c)
      BY <1>1, <3>1
    <3>3. Len(g[h]) \in Nat /\ g[m] \in Seq(Entry)
      <4>1. IsSoFar(h) /\ IsSoFar(m)
        BY <1>1, <1>4, <3>2
      <4> QED
        BY <4>1
    <3>4. m # h
      BY <3>1, <3>3
    <3>5. m - 1 \in h .. Len(c) /\ ~(m <= m - 1) /\ m - 1 \in 0 .. Len(c)
      BY <1>1, <3>2, <3>4
    <3>6. Keeps(m - 1) /\ g[m - 1] \in Seq(Entry)
      <4>1. IsSoFar(m - 1)
        BY <1>4, <3>5
      <4> QED
        BY <3>1, <3>5, <4>1
    <3>7. g[m] = g[m - 1] \o BlockEntries(c, m)
      BY <1>2, <3>2
    <3>8. /\ Len(g[m]) = Len(g[m - 1]) + Len(c[m]) /\ Len(g[m - 1]) \in Nat /\ Len(c[m]) \in Nat
          /\ \A i \in 1 .. Len(g[m - 1]) : g[m][i] = g[m - 1][i]
      <4>1. IsJoin(g[m], g[m - 1], BlockEntries(c, m), Len(c[m]))
        BY <3>2, <3>6, <3>7, BlockFollows
      <4> QED
        BY <4>1 DEF IsJoin
    <3>9. Len(g[h]) <= Len(g[m - 1]) /\ \A i \in 1 .. Len(g[h]) : g[m - 1][i] = g[h][i]
      BY <3>6
    <3>10. Len(g[h]) <= Len(g[m])
      <4>1. \A a, b, e, f \in Nat : a <= b /\ f = b + e => a <= f
        OBVIOUS
      <4>2. Len(g[m]) \in Nat
        BY <3>3
      <4> QED
        BY <3>3, <3>8, <3>9, <4>1, <4>2
    <3>11. \A i \in 1 .. Len(g[h]) : i \in 1 .. Len(g[m - 1])
      BY <3>3, <3>8, <3>9
    <3>12. Keeps(m)
      BY <3>8, <3>9, <3>10, <3>11
    <3> HIDE DEF Keeps
    <3> QED
      BY <3>1, <3>12
  <2> QED
    BY <2>1
<1>7. ASSUME NEW h \in 1 .. Len(c), NEW j \in 1 .. Len(c[h])
      PROVE  \E k \in 1 .. Len(Mined(c)) : /\ Mined(c)[k] = [h |-> h, id |-> c[h][j]]
                                           /\ Firsts(Mined(c), k - 1) = Earlier(c, h, j)
  <2>1. IsSoFar(h - 1) /\ IsSoFar(h) /\ Len(c) \in h .. Len(c)
    BY <1>1, <1>4
  <2>2. /\ BlockEntries(c, h) \in Seq(Entry) /\ Len(BlockEntries(c, h)) = Len(c[h]) /\ Len(c[h]) \in Nat
        /\ BlockEntries(c, h)[j] = [h |-> h, id |-> c[h][j]]
    BY BlockEntriesTyped
  <2>3. g[h] = g[h - 1] \o BlockEntries(c, h) /\ g[h - 1] \in Seq(Entry)
    BY <1>2, <2>1
  <2>4. /\ Len(g[h]) = Len(g[h - 1]) + Len(c[h]) /\ Len(g[h - 1]) \in Nat
        /\ Firsts(g[h], Len(g[h - 1]) + (j - 1)) = Firsts(g[h - 1], Len(g[h - 1])) \cup Firsts(BlockEntries(c, h), j - 1)
        /\ \A i \in 1 .. Len(c[h]) : g[h][Len(g[h - 1]) + i] = BlockEntries(c, h)[i]
    <3>1. IsJoin(g[h], g[h - 1], BlockEntries(c, h), Len(c[h]))
      BY <2>3, BlockFollows
    <3>2. j - 1 \in 0 .. Len(c[h])
      BY <2>2
    <3> QED
      BY <3>1, <3>2 DEF IsJoin
  <2>5. PICK k : k = Len(g[h - 1]) + j
    OBVIOUS
  <2>6. k \in 1 .. Len(g[h]) /\ k - 1 = Len(g[h - 1]) + (j - 1) /\ k \in Nat
    <3>1. \A a, b, i \in Nat : i \in 1 .. b => a + i \in 1 .. a + b /\ (a + i) - 1 = a + (i - 1) /\ a + i \in Nat
      OBVIOUS
    <3>2. j \in Nat /\ Len(c[h]) \in Nat /\ j \in 1 .. Len(c[h])
      BY <2>2
    <3> QED
      BY <2>4, <2>5, <3>1, <3>2
  <2>7. Len(g[h]) <= Len(Mined(c)) /\ \A i \in 1 .. Len(g[h]) : Mined(c)[i] = g[h][i]
    BY <1>2, <1>6, <2>1
  <2>8. Len(Mined(c)) \in Nat /\ Len(g[h]) \in Nat
    BY <1>5, <2>1
  <2>9. k \in 1 .. Len(Mined(c)) /\ \A i \in 1 .. k - 1 : i \in 1 .. Len(g[h])
    BY <2>6, <2>7, <2>8
  <2>10. Mined(c)[k] = [h |-> h, id |-> c[h][j]]
    BY <2>2, <2>4, <2>5, <2>6, <2>7
  <2>11. Firsts(Mined(c), k - 1) = Firsts(g[h], k - 1)
    BY <2>7, <2>9 DEF Firsts
  <2>12. Firsts(BlockEntries(c, h), j - 1) = {[h |-> h, id |-> c[h][i]] : i \in 1 .. j - 1}
    <3>1. \A i \in 1 .. j - 1 : i \in 1 .. Len(c[h])
      BY <2>2, <2>3
    <3>2. \A i \in 1 .. j - 1 : BlockEntries(c, h)[i] = [h |-> h, id |-> c[h][i]]
      BY <3>1, BlockEntriesTyped
    <3> QED
      BY <3>2 DEF Firsts
  <2>13. Firsts(Mined(c), k - 1) = Earlier(c, h, j)
    BY <2>1, <2>4, <2>6, <2>11, <2>12 DEF Earlier
  <2> QED
    BY <2>9, <2>10, <2>13
<1> QED
  BY <1>5, <1>7
-----------------------------------------------------------------------------
(* FoldLeft over a sequence takes the greatest index off first.            *)
LEMMA TakeMax ==
  ASSUME NEW N \in Nat, NEW d \in SUBSET (1 .. N), d # {}
  PROVE  /\ Max(d) \in d /\ IsFiniteSet(d) /\ Cardinality(d) \in Nat
         /\ Cardinality(d \ {Max(d)}) = Cardinality(d) - 1 /\ d \ {Max(d)} \in SUBSET (1 .. N)
<1>1. Max(d) \in d
  BY MaxOf
<1>2. IsFiniteSet(1 .. N)
  BY FS_Interval
<1>3. IsFiniteSet(d) /\ Cardinality(d) \in Nat
  BY <1>2, FS_Subset, FS_CardinalityType
<1>4. Cardinality(d \ {Max(d)}) = Cardinality(d) - 1
  BY <1>1, <1>3, TakeOne
<1> QED
  BY <1>1, <1>3, <1>4

LEMMA MaxOfInterval == ASSUME NEW k \in Nat \ {0} PROVE Max(1 .. k) = k /\ (1 .. k) \ {k} = 1 .. k - 1
<1>1. 1 .. k \in SUBSET Nat /\ 1 .. k # {} /\ k \in 1 .. k /\ \A n \in 1 .. k : n <= k
  OBVIOUS
<1>2. Max(1 .. k) \in 1 .. k /\ k <= Max(1 .. k)
  BY <1>1, MaxOf
<1> QED
  BY <1>2

(* The ledgers of a chain, transaction by transaction.                     *)
NoLedger == [legal |-> TRUE, unspent |-> {}, coins |-> [k \in CoinIds \cup {Nil} |-> Unborn],
             before |-> <<>>, after |-> <<>>]
AreLedgers(g, s, D) ==
  g = [d \in D |-> IF d = {} THEN NoLedger ELSE Record(g[d \ {Max(d)}], s[Max(d)])]

(* The ledgers of the beginnings of a chain, as FoldLeft computes them.    *)
LEMMA LedgersExist == ASSUME NEW N \in Nat, NEW s PROVE \E g : AreLedgers(g, s, SUBSET (1 .. N))
<1>1. \A d \in SUBSET (1 .. N) : Cardinality(d) \in Nat /\ Cardinality(d) <= N
  <2>1. IsFiniteSet(1 .. N) /\ Cardinality(1 .. N) = N
    BY FS_Interval
  <2> QED
    BY <2>1, FS_Subset, FS_CardinalityType
<1> DEFINE Bad == {n \in Nat : ~\E g : AreLedgers(g, s, UpTo(1 .. N, n))}
<1>2. Bad = {}
  <2> SUFFICES ASSUME Bad # {} PROVE FALSE
    OBVIOUS
  <2>1. PICK n \in Bad : \A m \in Bad : n <= m
    BY LeastMember
  <2>2. CASE n = 0
    <3>1. \A d \in UpTo(1 .. N, 0) : d = {}
      <4> SUFFICES ASSUME NEW d \in UpTo(1 .. N, 0), d # {} PROVE FALSE
        OBVIOUS
      <4>1. d \in SUBSET (1 .. N) /\ Cardinality(d) <= 0 /\ Cardinality(d) \in Nat
        BY <1>1 DEF UpTo
      <4>2. Cardinality(d \ {Max(d)}) = Cardinality(d) - 1 /\ d \ {Max(d)} \in SUBSET (1 .. N)
        BY <4>1, TakeMax
      <4>3. Cardinality(d \ {Max(d)}) \in Nat
        BY <1>1, <4>2
      <4> QED
        BY <4>1, <4>2, <4>3
    <3>2. PICK g : g = [d \in UpTo(1 .. N, 0) |-> NoLedger]
      OBVIOUS
    <3>3. AreLedgers(g, s, UpTo(1 .. N, 0))
      BY <3>1, <3>2 DEF AreLedgers
    <3> QED
      BY <2>1, <2>2, <3>3
  <2>3. CASE n # 0
    <3>1. n - 1 \in Nat /\ n \in Nat /\ ~(n <= n - 1)
      BY <2>1, <2>3
    <3>2. PICK h : AreLedgers(h, s, UpTo(1 .. N, n - 1))
      BY <2>1, <3>1
    <3>3. PICK g : g = [d \in UpTo(1 .. N, n) |-> IF d = {} THEN NoLedger ELSE Record(h[d \ {Max(d)}], s[Max(d)])]
      OBVIOUS
    <3> HIDE DEF Bad
    <3>4. ASSUME NEW d \in UpTo(1 .. N, n), d # {} PROVE g[d \ {Max(d)}] = h[d \ {Max(d)}]
      <4>1. d \in SUBSET (1 .. N) /\ Cardinality(d) <= n
        BY DEF UpTo
      <4>2. Cardinality(d \ {Max(d)}) = Cardinality(d) - 1 /\ d \ {Max(d)} \in SUBSET (1 .. N) /\ Cardinality(d) \in Nat
        BY <3>4, <4>1, TakeMax
      <4>3. d \ {Max(d)} \in UpTo(1 .. N, n - 1) /\ d \ {Max(d)} \in UpTo(1 .. N, n)
        BY <3>1, <4>1, <4>2 DEF UpTo
      <4> QED
        BY <3>2, <3>3, <4>3 DEF AreLedgers
    <3>5. AreLedgers(g, s, UpTo(1 .. N, n))
      BY <3>3, <3>4 DEF AreLedgers
    <3> QED
      BY <2>1, <3>5 DEF Bad
  <2> QED
    BY <2>2, <2>3
<1>3. UpTo(1 .. N, N) = SUBSET (1 .. N)
  BY <1>1 DEF UpTo
<1>4. \E g : AreLedgers(g, s, UpTo(1 .. N, N))
  BY <1>2
<1> QED
  BY <1>3, <1>4

(* A chain's ledger is made one transaction at a time.                     *)
LEMMA LedgerSteps ==
  ASSUME NEW c \in Blocked
  PROVE  \E L : /\ L[0] = NoLedger /\ Ledger(c) = L[Len(Mined(c))]
                /\ \A k \in 1 .. Len(Mined(c)) : L[k] = Record(L[k - 1], Mined(c)[k])
<1>1. PICK s : s = Mined(c)
  OBVIOUS
<1>2. DOMAIN s = 1 .. Len(s) /\ Len(s) \in Nat
  BY <1>1, MinedEntries
<1>3. PICK iter : iter = CHOOSE g : g = [d \in SUBSET DOMAIN s |->
                    IF d = {} THEN NoLedger ELSE Record(g[d \ {Max(d)}], s[Max(d)])]
  OBVIOUS
<1>4. Ledger(c) = iter[DOMAIN s]
  BY <1>1, <1>3 DEF Ledger, FoldLeft, MapThenFoldSet, NoLedger
<1>5. AreLedgers(iter, s, SUBSET (1 .. Len(s)))
  <2>1. \E g : AreLedgers(g, s, SUBSET (1 .. Len(s)))
    BY <1>2, LedgersExist
  <2>2. SUBSET DOMAIN s = SUBSET (1 .. Len(s))
    BY <1>2
  <2>3. iter = CHOOSE g : AreLedgers(g, s, SUBSET (1 .. Len(s)))
    BY <1>3, <2>2 DEF AreLedgers
  <2> QED
    BY <2>1, <2>3
<1>6. PICK L : L = [k \in 0 .. Len(s) |-> iter[1 .. k]]
  OBVIOUS
<1>7. L[0] = NoLedger
  <2>1. 1 .. 0 = {} /\ {} \in SUBSET (1 .. Len(s)) /\ 0 \in 0 .. Len(s)
    BY <1>2
  <2>2. iter[{}] = NoLedger
    BY <1>5, <2>1 DEF AreLedgers
  <2> QED
    BY <1>6, <2>1, <2>2
<1>8. ASSUME NEW k \in 1 .. Len(s) PROVE L[k] = Record(L[k - 1], s[k])
  <2>1. k \in Nat \ {0} /\ k \in 0 .. Len(s) /\ k - 1 \in 0 .. Len(s) /\ 1 .. k \in SUBSET (1 .. Len(s)) /\ 1 .. k # {}
    <3>1. \A N \in Nat : k \in 1 .. N => /\ k \in Nat \ {0} /\ k \in 0 .. N /\ k - 1 \in 0 .. N
                                        /\ 1 .. k \in SUBSET (1 .. N) /\ k \in 1 .. k
      OBVIOUS
    <3> QED
      BY <1>2, <3>1
  <2>2. iter[1 .. k] = Record(iter[(1 .. k) \ {Max(1 .. k)}], s[Max(1 .. k)])
    BY <1>5, <2>1 DEF AreLedgers
  <2>3. Max(1 .. k) = k /\ (1 .. k) \ {k} = 1 .. k - 1
    BY <2>1, MaxOfInterval
  <2> QED
    BY <1>6, <2>1, <2>2, <2>3
<1>9. Ledger(c) = L[Len(s)]
  BY <1>2, <1>4, <1>6
<1> QED
  BY <1>1, <1>7, <1>8, <1>9
-----------------------------------------------------------------------------
(* What a legal chain owes an index of its outputs: a transaction stands   *)
(* once, spends what stands and what nobody spent, and so an output has    *)
(* one spender, that came after it.                                        *)
Stands(E, o) == \E x \in E : x.id = o[1] /\ o[2] \in Tx[x.id].outs
Unspent(E, o) == \A x \in E : o \notin Tx[x.id].spends
ComesAfter(E, x) ==
  /\ \A y \in E : y.id # x.id
  /\ \A o \in Outpoints : o \in Tx[x.id].spends => Stands(E, o) /\ Unspent(E, o)
Sound(E) ==
  /\ E \subseteq Entry
  /\ \A x, y \in E : x.id = y.id => x = y
  /\ \A o \in Outpoints : \A x \in E : o \in Tx[x.id].spends =>
       Stands(E, o) /\ \A y \in E : o \in Tx[y.id].spends => y = x

(* A transaction that consensus lets follow keeps one spender to an        *)
(* output.                                                                 *)
LEMMA SoundGrows ==
  ASSUME NEW E, Sound(E), NEW x \in Entry, ComesAfter(E, x)
  PROVE  Sound(E \cup {x})
<1>1. E \cup {x} \subseteq Entry /\ \A y, z \in E \cup {x} : y.id = z.id => y = z
  BY DEF Sound, ComesAfter
<1>2. ASSUME NEW o \in Outpoints, NEW y \in E \cup {x}, o \in Tx[y.id].spends
      PROVE  Stands(E \cup {x}, o) /\ \A z \in E \cup {x} : o \in Tx[z.id].spends => z = y
  <2>1. Stands(E, o) => Stands(E \cup {x}, o)
    BY DEF Stands
  <2>2. CASE y \in E
    <3>1. Stands(E, o) /\ \A z \in E : o \in Tx[z.id].spends => z = y
      BY <1>2, <2>2 DEF Sound
    <3>2. o \notin Tx[x.id].spends
      BY <1>2, <2>2 DEF ComesAfter, Unspent
    <3> QED
      BY <2>1, <3>1, <3>2
  <2>3. CASE y = x
    <3>1. Stands(E, o) /\ Unspent(E, o)
      BY <1>2, <2>3 DEF ComesAfter
    <3> QED
      BY <2>1, <2>3, <3>1 DEF Unspent
  <2> QED
    BY <2>2, <2>3
<1> QED
  BY <1>1, <1>2 DEF Sound

(* A coin's output is none of those.                                       *)
IsCoin(s) ==
  /\ DOMAIN s = {"phase", "out", "reserve", "m", "hM", "gbx"}
  /\ s.out = Nil \/ \E t \in DOMAIN Tx : s.out = <<t, "curve">> \/ s.out = <<t, "pool">>

LEMMA UnbornIsCoin == IsCoin(Unborn)
BY DEF IsCoin, Unborn

(* A trade leaves a coin with an output of its own sort.                   *)
LEMMA TradedIsCoin ==
  ASSUME NEW s, IsCoin(s), NEW t \in DOMAIN Tx, NEW trade, NEW reserve, NEW h
  PROVE  IsCoin(Traded(s, t, trade, reserve, h))
<1> DEFINE u == Traded(s, t, trade, reserve, h)
<1>1. DOMAIN u = DOMAIN s
  BY DEF Traded
<1>2. u.out = IF reserve = 0 THEN Nil ELSE <<t, "curve">>
  BY DEF Traded, IsCoin
<1> HIDE DEF u
<1>3. IsCoin(u)
  BY <1>1, <1>2 DEF IsCoin
<1> QED
  BY <1>3 DEF u

(* So does every operation.                                                *)
LEMMA EvolvedIsCoin ==
  ASSUME NEW s, IsCoin(s), NEW t \in DOMAIN Tx, NEW h
  PROVE  IsCoin(Evolve(s, t, h))
<1> DEFINE u == Evolve(s, t, h)
<1>1. CASE Tx[t].op = "C"
  <2>1. DOMAIN u = DOMAIN Unborn /\ u.out = <<t, "curve">>
    BY <1>1 DEF Evolve, Unborn
  <2> QED
    BY <2>1 DEF IsCoin, Unborn
<1>2. CASE Tx[t].op \in {"B", "S", "R"}
  <2>1. \E trade, reserve : u = Traded(s, t, trade, reserve, h)
    BY <1>2 DEF Evolve
  <2> QED
    BY <2>1, TradedIsCoin
<1>3. CASE Tx[t].op \in {"G", "P", "Q"}
  <2>1. DOMAIN u = DOMAIN s /\ u.out = <<t, "pool">>
    BY <1>3 DEF Evolve, IsCoin
  <2> QED
    BY <2>1 DEF IsCoin
<1>4. CASE Tx[t].op \notin {"C", "B", "S", "R", "G", "P", "Q"}
  <2>1. u = s
    BY <1>4 DEF Evolve
  <2> QED
    BY <2>1
<1> QED
  BY <1>1, <1>2, <1>3, <1>4

(* What a ledger says of the transactions in it.                           *)
Tells(l, E) ==
  /\ DOMAIN l.after = {x.id : x \in E}
  /\ \A o \in Outpoints : o \in l.unspent <=> Stands(E, o) /\ Unspent(E, o)
  /\ DOMAIN l.coins = CoinIds \cup {Nil}
  /\ \A k \in CoinIds \cup {Nil} : IsCoin(l.coins[k])

(* What consensus lets stand comes after what it needs and spends nothing  *)
(* twice.                                                                  *)
LEMMA LegalFollows ==
  ASSUME NEW l, NEW E \in SUBSET Entry, NEW x \in Entry, Tells(l, E), MayStand(l, x.id)
  PROVE  ComesAfter(E, x)
<1>1. x.id \in DOMAIN Tx
  BY DEF Entry
<1>2. \A y \in E : y.id # x.id
  BY DEF MayStand, Tells
<1>3. ASSUME NEW o \in Outpoints, o \in Tx[x.id].spends PROVE Stands(E, o) /\ Unspent(E, o)
  <2>1. Tx[x.id].coin \in CoinIds \cup {Nil}
    BY <1>1 DEF CoinIds
  <2>2. IsCoin(l.coins[Tx[x.id].coin])
    BY <2>1 DEF Tells
  <2>3. o # Nil
    BY ChainAssumption
  <2>4. \A t \in DOMAIN Tx : o # <<t, "curve">> /\ o # <<t, "pool">>
    BY DEF Outpoints
  <2>5. o # l.coins[Tx[x.id].coin].out
    BY <2>2, <2>3, <2>4 DEF IsCoin
  <2>6. o \in l.unspent
    BY <1>3, <2>5 DEF MayStand
  <2> QED
    BY <2>6 DEF Tells
<1> QED
  BY <1>2, <1>3 DEF ComesAfter

(* The ledger tells of one more transaction.                               *)
LEMMA TellsGrows ==
  ASSUME NEW l, NEW E, Sound(E), NEW x \in Entry, Tells(l, E), ComesAfter(E, x), l.legal, MayStand(l, x.id)
  PROVE  Tells(Record(l, x), E \cup {x}) /\ "legal" \in DOMAIN Record(l, x)
<1> DEFINE coin == Tx[x.id].coin
           before == IF coin = Nil THEN Unborn ELSE l.coins[coin]
           after == IF coin = Nil THEN Unborn ELSE Evolve(before, x.id, x.h)
<1>1. PICK r : r = Record(l, x)
  OBVIOUS
<1>2. r = [legal |-> TRUE,
           unspent |-> (l.unspent \ Tx[x.id].spends) \cup {<<x.id, sort>> : sort \in Tx[x.id].outs},
           coins |-> IF coin = Nil THEN l.coins ELSE [l.coins EXCEPT ![coin] = after],
           before |-> [t \in DOMAIN l.before \cup {x.id} |-> IF t = x.id THEN before ELSE l.before[t]],
           after |-> [t \in DOMAIN l.after \cup {x.id} |-> IF t = x.id THEN after ELSE l.after[t]]]
  BY <1>1 DEF Record
<1>3. x.id \in DOMAIN Tx /\ coin \in CoinIds \cup {Nil}
  BY DEF Entry, CoinIds
<1>4. "legal" \in DOMAIN r /\ DOMAIN r.after = {y.id : y \in E \cup {x}}
  <2>1. DOMAIN r.after = DOMAIN l.after \cup {x.id}
    BY <1>2
  <2>2. "legal" \in DOMAIN r
    BY <1>2
  <2> QED
    BY <2>1, <2>2 DEF Tells
<1>5. DOMAIN r.coins = CoinIds \cup {Nil} /\ \A k \in CoinIds \cup {Nil} : IsCoin(r.coins[k])
  <2>1. coin # Nil => IsCoin(after)
    BY <1>3, EvolvedIsCoin DEF Tells
  <2>2. r.coins = IF coin = Nil THEN l.coins ELSE [l.coins EXCEPT ![coin] = after]
    BY <1>2
  <2> HIDE DEF after, coin
  <2> QED
    BY <1>3, <2>1, <2>2 DEF Tells
<1>6. ASSUME NEW o \in Outpoints PROVE o \in r.unspent <=> Stands(E \cup {x}, o) /\ Unspent(E \cup {x}, o)
  <2>1. o = <<o[1], o[2]>>
    BY DEF Outpoints
  <2>2. o \in r.unspent <=> (o \in l.unspent /\ o \notin Tx[x.id].spends) \/ (o[1] = x.id /\ o[2] \in Tx[x.id].outs)
    <3>1. r.unspent = (l.unspent \ Tx[x.id].spends) \cup {<<x.id, sort>> : sort \in Tx[x.id].outs}
      BY <1>2
    <3>2. o \in {<<x.id, sort>> : sort \in Tx[x.id].outs} <=> o[1] = x.id /\ o[2] \in Tx[x.id].outs
      BY <2>1
    <3> QED
      BY <3>1, <3>2
  <2>3. o \in l.unspent <=> Stands(E, o) /\ Unspent(E, o)
    BY DEF Tells
  <2>4. Unspent(E \cup {x}, o) <=> Unspent(E, o) /\ o \notin Tx[x.id].spends
    BY DEF Unspent
  <2>5. CASE o[1] = x.id
    <3>1. ~Stands(E, o)
      BY <2>5 DEF Stands, ComesAfter
    <3>2. Unspent(E, o) /\ o \notin Tx[x.id].spends
      BY <3>1 DEF Unspent, ComesAfter, Sound
    <3>3. Stands(E \cup {x}, o) <=> o[2] \in Tx[x.id].outs
      BY <2>5, <3>1 DEF Stands
    <3> QED
      BY <2>2, <2>3, <2>4, <2>5, <3>1, <3>2, <3>3
  <2>6. CASE o[1] # x.id
    <3>1. Stands(E \cup {x}, o) <=> Stands(E, o)
      BY <2>6 DEF Stands
    <3> QED
      BY <2>2, <2>3, <2>4, <2>6, <3>1
  <2> QED
    BY <2>5, <2>6
<1> QED
  BY <1>1, <1>4, <1>5, <1>6 DEF Tells

(* On a legal chain every transaction comes after what it needs.           *)
LEMMA LegalChain ==
  ASSUME NEW c \in Blocked, Ledger(c).legal
  PROVE  /\ Sound(Firsts(Mined(c), Len(Mined(c))))
         /\ \A k \in 1 .. Len(Mined(c)) : Sound(Firsts(Mined(c), k - 1)) /\ ComesAfter(Firsts(Mined(c), k - 1), Mined(c)[k])
<1>1. PICK s : s = Mined(c)
  OBVIOUS
<1>2. s \in Seq(Entry) /\ Len(s) \in Nat /\ \A k \in 1 .. Len(s) : s[k] \in Entry
  BY <1>1, MinedEntries
<1>3. PICK L : /\ L[0] = NoLedger /\ Ledger(c) = L[Len(s)]
               /\ \A k \in 1 .. Len(s) : L[k] = Record(L[k - 1], s[k])
  BY <1>1, LedgerSteps
<1> DEFINE Fine(k) == Sound(Firsts(s, k - 1)) /\ ComesAfter(Firsts(s, k - 1), s[k])
           Tale(k) ==
             /\ "legal" \in DOMAIN L[k]
             /\ L[k].legal => Tells(L[k], Firsts(s, k)) /\ Sound(Firsts(s, k)) /\ \A i \in 1 .. k : Fine(i)
           Bad == {k \in 0 .. Len(s) : ~Tale(k)}
<1>4. Tale(0)
  <2>1. Firsts(s, 0) = {}
    BY DEF Firsts
  <2>2. Sound({})
    BY DEF Sound
  <2>3. Tells(NoLedger, {})
    <3>1. /\ DOMAIN NoLedger.after = {} /\ NoLedger.unspent = {} /\ DOMAIN NoLedger.coins = CoinIds \cup {Nil}
          /\ \A k \in CoinIds \cup {Nil} : NoLedger.coins[k] = Unborn
      BY DEF NoLedger
    <3>2. \A o : ~Stands({}, o)
      BY DEF Stands
    <3> QED
      BY <3>1, <3>2, UnbornIsCoin DEF Tells
  <2>4. "legal" \in DOMAIN L[0]
    BY <1>3 DEF NoLedger
  <2>5. \A i \in 1 .. 0 : Fine(i)
    OBVIOUS
  <2> HIDE DEF Fine
  <2> QED
    BY <1>3, <2>1, <2>2, <2>3, <2>4, <2>5
<1>5. ASSUME NEW k \in 1 .. Len(s), Tale(k - 1) PROVE Tale(k)
  <2>1. PICK l : l = L[k - 1]
    OBVIOUS
  <2>2. PICK E : E = Firsts(s, k - 1)
    OBVIOUS
  <2>3. PICK x \in Entry : x = s[k]
    BY <1>2
  <2>4. L[k] = Record(l, x) /\ "legal" \in DOMAIN l
    BY <1>3, <1>5, <2>1, <2>3
  <2>5. CASE l.legal /\ MayStand(l, x.id)
    <3>1. Tells(l, E) /\ Sound(E) /\ \A i \in 1 .. k - 1 : Fine(i)
      BY <1>5, <2>1, <2>2, <2>5
    <3>2. E \in SUBSET Entry
      BY <3>1 DEF Sound
    <3>3. ComesAfter(E, x)
      BY <2>5, <3>1, <3>2, LegalFollows
    <3>4. Tells(L[k], E \cup {x}) /\ "legal" \in DOMAIN L[k]
      BY <2>4, <2>5, <3>1, <3>3, TellsGrows
    <3>5. Sound(E \cup {x})
      BY <3>1, <3>3, SoundGrows
    <3>6. Firsts(s, k) = E \cup {x}
      <4>1. \A i : i \in 1 .. k <=> i \in 1 .. k - 1 \/ i = k
        BY <1>2
      <4> QED
        BY <2>2, <2>3, <4>1 DEF Firsts
    <3>7. Fine(k)
      BY <2>2, <2>3, <3>1, <3>3
    <3>8. \A i \in 1 .. k : Fine(i)
      <4>1. \A i \in 1 .. k : i \in 1 .. k - 1 \/ i = k
        BY <1>2
      <4> QED
        BY <3>1, <3>7, <4>1
    <3> QED
      BY <3>4, <3>5, <3>6, <3>8
  <2>6. CASE ~(l.legal /\ MayStand(l, x.id))
    <3>1. L[k] = [l EXCEPT !.legal = FALSE]
      BY <2>4, <2>6 DEF Record
    <3>2. "legal" \in DOMAIN L[k] /\ ~L[k].legal
      BY <2>4, <3>1
    <3> QED
      BY <3>2
  <2> QED
    BY <2>5, <2>6
<1>6. Bad = {}
  <2> SUFFICES ASSUME Bad # {} PROVE FALSE
    OBVIOUS
  <2>1. Bad \in SUBSET Nat
    BY <1>2
  <2> HIDE DEF Tale
  <2>2. PICK k \in Bad : \A m \in Bad : k <= m
    BY <2>1, LeastMember
  <2>3. k # 0 /\ k \in 0 .. Len(s) /\ k \in Nat
    BY <1>2, <1>4, <2>2
  <2>4. k \in 1 .. Len(s) /\ k - 1 \in 0 .. Len(s) /\ ~(k <= k - 1)
    BY <1>2, <2>3
  <2>5. Tale(k - 1)
    BY <2>2, <2>4
  <2> QED
    BY <1>5, <2>2, <2>4, <2>5
<1>7. Tale(Len(s))
  <2> HIDE DEF Tale
  <2> QED
    BY <1>2, <1>6
<1> QED
  BY <1>1, <1>3, <1>7

(* The chains the node may have and the index may hold: the beginnings of  *)
(* the legal ones.                                                         *)
IsChain(p) == p \in Blocked /\ \E c \in Chains : Len(p) <= Len(c) /\ \A h \in 1 .. Len(p) : p[h] = c[h]

(* So it is on a beginning of one, wherever in a block the transaction     *)
(* is.                                                                     *)
LEMMA LegalPlaces ==
  ASSUME NEW p, IsChain(p), NEW h \in 1 .. Len(p), NEW j \in 1 .. Len(p[h])
  PROVE  /\ Sound(Earlier(p, h, j)) /\ ComesAfter(Earlier(p, h, j), [h |-> h, id |-> p[h][j]])
         /\ [h |-> h, id |-> p[h][j]] \in Entry
<1>1. PICK c \in Chains : Len(p) <= Len(c) /\ \A g \in 1 .. Len(p) : p[g] = c[g]
  BY DEF IsChain
<1>2. c \in Blocked /\ Ledger(c).legal /\ p \in Blocked
  BY ChainsLegal DEF AreLegal, IsChain
<1>3. Len(p) \in Nat /\ Len(c) \in Nat /\ h \in Nat
  BY <1>2 DEF Blocked
<1>4. h \in 1 .. Len(c) /\ j \in 1 .. Len(c[h]) /\ p[h] = c[h]
  BY <1>1, <1>3
<1>5. PICK k \in 1 .. Len(Mined(c)) : /\ Mined(c)[k] = [h |-> h, id |-> c[h][j]]
                                      /\ Firsts(Mined(c), k - 1) = Earlier(c, h, j)
  BY <1>2, <1>4, MinedEntries
<1>6. Earlier(p, h, j) = Earlier(c, h, j)
  <2>1. \A g \in 1 .. h - 1 : g \in 1 .. Len(p)
    BY <1>3
  <2>2. EntriesTo(p, h - 1) = EntriesTo(c, h - 1)
    BY <1>1, <2>1 DEF EntriesTo
  <2> QED
    BY <1>4, <2>2 DEF Earlier
<1>7. Sound(Firsts(Mined(c), k - 1)) /\ ComesAfter(Firsts(Mined(c), k - 1), Mined(c)[k])
  BY <1>2, LegalChain
<1>8. [h |-> h, id |-> p[h][j]] \in Entry
  BY <1>2, BlockEntriesTyped DEF Entry
<1> QED
  BY <1>4, <1>5, <1>6, <1>7, <1>8

(* On all of a chain an output has one spender.                            *)
OneSpender(E) == \A o \in Outpoints : \A x, y \in E : o \in Tx[x.id].spends /\ o \in Tx[y.id].spends => x = y

LEMMA ChainHasOneSpender == ASSUME NEW p, IsChain(p) PROVE OneSpender(EntriesTo(p, Len(p)))
<1>1. PICK c \in Chains : Len(p) <= Len(c) /\ \A g \in 1 .. Len(p) : p[g] = c[g]
  BY DEF IsChain
<1>2. c \in Blocked /\ Ledger(c).legal /\ p \in Blocked
  BY ChainsLegal DEF AreLegal, IsChain
<1>3. Len(p) \in Nat /\ Len(c) \in Nat
  BY <1>2 DEF Blocked
<1>4. Sound(EntriesTo(c, Len(c)))
  <2>1. Mined(c) \in Seq(Entry) /\ ToSet(Mined(c)) = EntriesTo(c, Len(c))
    BY <1>2, MinedEntries
  <2>2. Firsts(Mined(c), Len(Mined(c))) = ToSet(Mined(c))
    BY <2>1 DEF Firsts, ToSet
  <2> QED
    BY <1>2, <2>1, <2>2, LegalChain
<1>5. EntriesTo(p, Len(p)) \subseteq EntriesTo(c, Len(c))
  <2>1. \A g \in 1 .. Len(p) : g \in 1 .. Len(c) /\ p[g] = c[g]
    BY <1>1, <1>3
  <2> QED
    BY <2>1 DEF EntriesTo
<1> QED
  BY <1>4, <1>5 DEF Sound, OneSpender
-----------------------------------------------------------------------------
(* One transaction, table by table.                                        *)
DbFields == {"scanned", "blocks", "utxos", "htlcs", "offers", "curveLog", "poolLog",
             "curves", "pools", "metas", "chunks", "logos", "ops"}
IsDb(d) == DOMAIN d = DbFields
(* What a statement about coins, names and logos leaves alone.             *)
SameTables(d, e) ==
  /\ IsDb(e) /\ e.scanned = d.scanned /\ e.blocks = d.blocks
  /\ e.utxos = d.utxos /\ e.htlcs = d.htlcs /\ e.offers = d.offers

LEMMA SameSame == ASSUME NEW d, NEW e, NEW f, SameTables(d, e), SameTables(e, f) PROVE SameTables(d, f)
BY DEF SameTables

LEMMA SameItself == ASSUME NEW d, IsDb(d) PROVE SameTables(d, d)
BY DEF SameTables

LEMMA LogCurveSame == ASSUME NEW d, IsDb(d), NEW row PROVE SameTables(d, LogCurve(d, row))
BY DEF SameTables, IsDb, DbFields, LogCurve

LEMMA LogPoolSame == ASSUME NEW d, IsDb(d), NEW row PROVE SameTables(d, LogPool(d, row))
BY DEF SameTables, IsDb, DbFields, LogPool

LEMMA CurveTradeSame == ASSUME NEW d, IsDb(d), NEW t, NEW h, NEW l PROVE SameTables(d, CurveTrade(d, t, h, l))
<1>1. \E row : CurveTrade(d, t, h, l) = LogCurve(d, row)
  BY DEF CurveTrade, CurveApply
<1> QED
  BY <1>1, LogCurveSame

LEMMA CurveOpSame == ASSUME NEW d, IsDb(d), NEW t, NEW h, NEW l PROVE SameTables(d, CurveOp(d, t, h, l))
<1>1. CASE Tx[t].op = "C"
  <2>1. \E row, curves : CurveOp(d, t, h, l) = [LogCurve(d, row) EXCEPT !.curves = curves]
    BY <1>1 DEF CurveOp
  <2>2. PICK row, curves : CurveOp(d, t, h, l) = [LogCurve(d, row) EXCEPT !.curves = curves]
    BY <2>1
  <2>3. SameTables(d, LogCurve(d, row))
    BY LogCurveSame
  <2>4. PICK e : e = LogCurve(d, row)
    OBVIOUS
  <2>5. SameTables(e, [e EXCEPT !.curves = curves])
    BY <2>3, <2>4 DEF SameTables, IsDb, DbFields
  <2> QED
    BY <2>2, <2>3, <2>4, <2>5, SameSame
<1>2. CASE Tx[t].op \in {"B", "S", "R"}
  <2>1. CurveOp(d, t, h, l) = CurveTrade(d, t, h, l)
    BY <1>2 DEF CurveOp
  <2> QED
    BY <2>1, CurveTradeSame
<1>3. CASE Tx[t].op = "G"
  <2>1. PICK row, poolRow : CurveOp(d, t, h, l) = LogPool(LogCurve(d, row), poolRow)
    BY <1>3 DEF CurveOp
  <2>2. SameTables(d, LogCurve(d, row))
    BY LogCurveSame
  <2>3. SameTables(LogCurve(d, row), LogPool(LogCurve(d, row), poolRow))
    BY <2>2, LogPoolSame DEF SameTables
  <2> QED
    BY <2>1, <2>2, <2>3, SameSame
<1>4. CASE Tx[t].op \notin {"C", "B", "S", "R", "G"}
  <2>1. CurveOp(d, t, h, l) = d
    BY <1>4 DEF CurveOp
  <2> QED
    BY <2>1, SameItself
<1> QED
  BY <1>1, <1>2, <1>3, <1>4

LEMMA PoolOpSame == ASSUME NEW d, IsDb(d), NEW t, NEW h, NEW l PROVE SameTables(d, PoolOp(d, t, h, l))
<1>1. PoolOp(d, t, h, l) = d \/ \E row : PoolOp(d, t, h, l) = LogPool(d, row)
  BY DEF PoolOp
<1> QED
  BY <1>1, LogPoolSame, SameItself

LEMMA HistorySame == ASSUME NEW d, IsDb(d), NEW t, NEW h PROVE SameTables(d, History(d, t, h))
BY DEF SameTables, IsDb, DbFields, History

LEMMA MetaSame == ASSUME NEW d, IsDb(d), NEW t, NEW h PROVE SameTables(d, Meta(d, t, h))
<1>1. Meta(d, t, h) = d \/ \E metas : Meta(d, t, h) = [d EXCEPT !.metas = metas]
  BY DEF Meta
<1>2. \A metas : SameTables(d, [d EXCEPT !.metas = metas])
  BY DEF SameTables, IsDb, DbFields
<1> QED
  BY <1>1, <1>2, SameItself

LEMMA LogoSame == ASSUME NEW d, IsDb(d), NEW t, NEW h PROVE SameTables(d, Logo(d, t, h))
<1>1. Logo(d, t, h) = d \/ \E chunks, logos : Logo(d, t, h) = [d EXCEPT !.chunks = chunks, !.logos = logos]
  BY DEF Logo
<1>2. \A chunks, logos : SameTables(d, [d EXCEPT !.chunks = chunks, !.logos = logos])
  BY DEF SameTables, IsDb, DbFields
<1>3. CASE Logo(d, t, h) = d
  BY <1>3, SameItself
<1>4. CASE Logo(d, t, h) # d
  <2>1. PICK chunks, logos : Logo(d, t, h) = [d EXCEPT !.chunks = chunks, !.logos = logos]
    BY <1>1, <1>4
  <2>2. SameTables(d, [d EXCEPT !.chunks = chunks, !.logos = logos])
    BY <1>2
  <2> QED
    BY <2>1, <2>2
<1> QED
  BY <1>3, <1>4

(* The three tables of outputs after a transaction, from those before it.  *)
Restamp(rows, t, h) == {IF Spent(r, t, h) THEN [r EXCEPT !.spent = h] ELSE r : r \in rows}
Reveal(rows, t, h) == {IF Spent(r, t, h) THEN [r EXCEPT !.spent = h, !.key = Tx[t].reveals] ELSE r : r \in rows}
Meet(rows, t) == {IF r.out \in Tx[t].spends /\ r.spent # 0 THEN [r EXCEPT !.exec = t] ELSE r : r \in rows}
BackOf(rows, t) == TotalOf({r \in rows : r.out \in Tx[t].spends /\ r.coin = Tx[t].coin}) - Tx[t].tokens
Handed(rows, t, h) ==
  IF Tx[t].op # "T" THEN {} ELSE
  RowIf("token" \in Tx[t].outs, TokenRow(t, "token", Tx[t].to, Tx[t].tokens, h))
  \cup RowIf("change" \in Tx[t].outs /\ BackOf(rows, t) > 0 /\ BackOf(rows, t) = Tx[t].back,
             TokenRow(t, "change", Tx[t].pk, BackOf(rows, t), h))
Minted(t, h) ==
  RowIf(Tx[t].op \in Minters /\ Tx[t].tokens > 0 /\ "token" \in Tx[t].outs,
        TokenRow(t, "token", Tx[t].pk, Tx[t].tokens, h))
NewLock(t, h) == [out |-> <<t, "htlc">>, height |-> h, spent |-> 0, key |-> FALSE]
NewOffer(t, h) == [out |-> <<t, "offer">>, height |-> h, spent |-> 0, exec |-> Nil]

Step(d, e, t, h) ==
  /\ IsDb(e) /\ e.scanned = d.scanned /\ e.blocks = d.blocks
  /\ e.utxos = Restamp(d.utxos, t, h) \cup Handed(Restamp(d.utxos, t, h), t, h) \cup Minted(t, h)
  /\ e.htlcs = Reveal(d.htlcs, t, h) \cup RowIf("htlc" \in Tx[t].outs, NewLock(t, h))
  /\ e.offers = (IF "htlc" \in Tx[t].outs THEN Meet(Restamp(d.offers, t, h), t) ELSE Restamp(d.offers, t, h))
                \cup RowIf("offer" \in Tx[t].outs, NewOffer(t, h))

(* The statements of one transaction, in the order of the code, come to    *)
(* this.                                                                   *)
LEMMA ApplyTxStep == ASSUME NEW d, IsDb(d), NEW t, NEW h, NEW l PROVE Step(d, ApplyTx(d, t, h, l), t, h)
<1>1. PICK d0 : d0 = Spend(d, t, h)
  OBVIOUS
<1>2. /\ IsDb(d0) /\ d0.scanned = d.scanned /\ d0.blocks = d.blocks
      /\ d0.utxos = Restamp(d.utxos, t, h) /\ d0.htlcs = Reveal(d.htlcs, t, h) /\ d0.offers = Restamp(d.offers, t, h)
  BY <1>1 DEF Spend, IsDb, DbFields, Restamp, Reveal
<1>3. PICK a1 : a1 = CurveOp(d0, t, h, l)
  OBVIOUS
<1>4. PICK a2 : a2 = PoolOp(a1, t, h, l)
  OBVIOUS
<1>5. PICK a3 : a3 = History(a2, t, h)
  OBVIOUS
<1>6. PICK a4 : a4 = Meta(a3, t, h)
  OBVIOUS
<1>7. PICK a5 : a5 = Logo(a4, t, h)
  OBVIOUS
<1>8. SameTables(d0, a1)
  BY <1>2, <1>3, CurveOpSame
<1>9. SameTables(a1, a2)
  BY <1>4, <1>8, PoolOpSame DEF SameTables
<1>10. SameTables(a2, a3)
  BY <1>5, <1>9, HistorySame DEF SameTables
<1>11. SameTables(a3, a4)
  BY <1>6, <1>10, MetaSame DEF SameTables
<1>12. SameTables(a4, a5)
  BY <1>7, <1>11, LogoSame DEF SameTables
<1>13. SameTables(d0, a5)
  BY <1>8, <1>9, <1>10, <1>11, <1>12 DEF SameTables
<1>14. PICK b1 : b1 = Anchor(a5, t, h)
  OBVIOUS
<1>15. PICK b2 : b2 = Offer(b1, t, h)
  OBVIOUS
<1>16. PICK b3 : b3 = Transfer(b2, t, h)
  OBVIOUS
<1>17. PICK b4 : b4 = Mint(b3, t, h)
  OBVIOUS
<1>18. ApplyTx(d, t, h, l) = b4
  BY <1>1, <1>3, <1>4, <1>5, <1>6, <1>7, <1>14, <1>15, <1>16, <1>17 DEF ApplyTx
<1>19. /\ IsDb(b1) /\ b1.scanned = a5.scanned /\ b1.blocks = a5.blocks /\ b1.utxos = a5.utxos
       /\ b1.htlcs = a5.htlcs \cup RowIf("htlc" \in Tx[t].outs, NewLock(t, h))
       /\ b1.offers = IF "htlc" \in Tx[t].outs THEN Meet(a5.offers, t) ELSE a5.offers
  <2>1. IsDb(a5)
    BY <1>13 DEF SameTables
  <2>2. CASE "htlc" \in Tx[t].outs
    BY <1>14, <2>1, <2>2 DEF Anchor, IsDb, DbFields, RowIf, NewLock, Meet
  <2>3. CASE "htlc" \notin Tx[t].outs
    BY <1>14, <2>1, <2>3 DEF Anchor, RowIf
  <2> QED
    BY <2>2, <2>3
<1>20. /\ IsDb(b2) /\ b2.scanned = b1.scanned /\ b2.blocks = b1.blocks /\ b2.utxos = b1.utxos /\ b2.htlcs = b1.htlcs
       /\ b2.offers = b1.offers \cup RowIf("offer" \in Tx[t].outs, NewOffer(t, h))
  <2>1. CASE "offer" \in Tx[t].outs
    BY <1>15, <1>19, <2>1 DEF Offer, IsDb, DbFields, RowIf, NewOffer
  <2>2. CASE "offer" \notin Tx[t].outs
    BY <1>15, <1>19, <2>2 DEF Offer, RowIf
  <2> QED
    BY <2>1, <2>2
<1>21. /\ IsDb(b3) /\ b3.scanned = b2.scanned /\ b3.blocks = b2.blocks /\ b3.htlcs = b2.htlcs /\ b3.offers = b2.offers
       /\ b3.utxos = b2.utxos \cup Handed(b2.utxos, t, h)
  <2>1. CASE Tx[t].op = "T"
    BY <1>16, <1>20, <2>1 DEF Transfer, IsDb, DbFields, Handed, BackOf
  <2>2. CASE Tx[t].op # "T"
    BY <1>16, <1>20, <2>2 DEF Transfer, Handed
  <2> QED
    BY <2>1, <2>2
<1>22. /\ IsDb(b4) /\ b4.scanned = b3.scanned /\ b4.blocks = b3.blocks /\ b4.htlcs = b3.htlcs /\ b4.offers = b3.offers
       /\ b4.utxos = b3.utxos \cup Minted(t, h)
  <2>1. CASE Tx[t].op \in Minters /\ Tx[t].tokens > 0 /\ "token" \in Tx[t].outs
    BY <1>17, <1>21, <2>1 DEF Mint, IsDb, DbFields, Minted, RowIf
  <2>2. CASE ~(Tx[t].op \in Minters /\ Tx[t].tokens > 0 /\ "token" \in Tx[t].outs)
    BY <1>17, <1>21, <2>2 DEF Mint, Minted, RowIf
  <2> QED
    BY <2>1, <2>2
<1> QED
  BY <1>2, <1>13, <1>18, <1>19, <1>20, <1>21, <1>22 DEF SameTables, Step

(* The entries an index that begins at START has of those of a chain.      *)
From(A) == {y \in A : y.h >= Start}

(* The spending known of an output is that of its one spender.             *)
LEMMA SpentOf ==
  ASSUME NEW E, OneSpender(E), NEW y \in E, NEW o \in Outpoints, o \in Tx[y.id].spends
  PROVE  SpendingIn(E, o) = y.h /\ SpenderIn(E, o) = y.id
<1>1. \A z \in E : o \in Tx[z.id].spends => z = y
  BY DEF OneSpender
<1>2. {x.h : x \in {z \in E : o \in Tx[z.id].spends}} = {y.h}
  BY <1>1
<1>3. SpendingIn(E, o) = y.h
  BY <1>2 DEF SpendingIn
<1>4. \A t \in {x.id : x \in E} : o \in Tx[t].spends => t = y.id
  BY <1>1
<1>5. SpenderIn(E, o) = y.id
  BY <1>4 DEF SpenderIn
<1> QED
  BY <1>3, <1>5

LEMMA NeverSpent == ASSUME NEW E, NEW o, Unspent(E, o) PROVE SpendingIn(E, o) = 0
<1>1. {x.h : x \in {z \in E : o \in Tx[z.id].spends}} = {}
  BY DEF Unspent
<1> QED
  BY <1>1 DEF SpendingIn

(* What one more transaction does to the spending known of an output.      *)
Stamped(E, F, x) ==
  /\ F = E \cup {x} /\ x.h # 0
  /\ \A o \in Outpoints :
       /\ SpendingIn(F, o) = IF o \in Tx[x.id].spends THEN x.h ELSE SpendingIn(E, o)
       /\ o \in Tx[x.id].spends => SpendingIn(E, o) = 0 /\ SpenderIn(F, o) = x.id
       /\ o \notin Tx[x.id].spends /\ SpendingIn(E, o) # 0 => SpenderIn(F, o) = SpenderIn(E, o)
       /\ o[1] = x.id => SpendingIn(F, o) = 0 /\ o \notin Tx[x.id].spends

(* A transaction that follows the others stamps what it spends, which      *)
(* nobody had.                                                             *)
LEMMA OneMore ==
  ASSUME NEW A, Sound(A), NEW x \in Entry, ComesAfter(A, x), x.h >= Start
  PROVE  Stamped(From(A), From(A) \cup {x}, x) /\ From(A \cup {x}) = From(A) \cup {x}
<1>1. PICK E : E = From(A)
  OBVIOUS
<1>2. PICK F : F = E \cup {x}
  OBVIOUS
<1>3. From(A \cup {x}) = F
  BY <1>1, <1>2 DEF From
<1>4. x.h # 0
  BY TokensAssumption DEF Entry
<1>5. OneSpender(E) /\ OneSpender(F)
  <2>1. Sound(A \cup {x})
    BY SoundGrows
  <2>2. OneSpender(A \cup {x})
    BY <2>1 DEF Sound, OneSpender
  <2>3. E \subseteq A \cup {x} /\ F \subseteq A \cup {x}
    BY <1>1, <1>2 DEF From
  <2> QED
    BY <2>2, <2>3 DEF OneSpender
<1>6. ASSUME NEW o \in Outpoints
      PROVE  /\ SpendingIn(F, o) = IF o \in Tx[x.id].spends THEN x.h ELSE SpendingIn(E, o)
             /\ o \in Tx[x.id].spends => SpendingIn(E, o) = 0 /\ SpenderIn(F, o) = x.id
             /\ o \notin Tx[x.id].spends /\ SpendingIn(E, o) # 0 => SpenderIn(F, o) = SpenderIn(E, o)
             /\ o[1] = x.id => SpendingIn(F, o) = 0 /\ o \notin Tx[x.id].spends
  <2>1. CASE o \in Tx[x.id].spends
    <3>1. Stands(A, o) /\ Unspent(A, o)
      BY <2>1 DEF ComesAfter
    <3>2. Unspent(E, o)
      BY <1>1, <3>1 DEF Unspent, From
    <3>3. SpendingIn(E, o) = 0
      BY <3>2, NeverSpent
    <3>4. SpendingIn(F, o) = x.h /\ SpenderIn(F, o) = x.id
      BY <1>2, <1>5, <2>1, SpentOf
    <3>5. o[1] # x.id
      BY <3>1 DEF ComesAfter, Stands
    <3> QED
      BY <2>1, <3>3, <3>4, <3>5
  <2>2. CASE o \notin Tx[x.id].spends
    <3>1. CASE Unspent(E, o)
      <4>1. Unspent(F, o)
        BY <1>2, <2>2, <3>1 DEF Unspent
      <4> QED
        BY <2>2, <3>1, <4>1, NeverSpent
    <3>2. CASE ~Unspent(E, o)
      <4>1. PICK y \in E : o \in Tx[y.id].spends
        BY <3>2 DEF Unspent
      <4>2. SpendingIn(E, o) = y.h /\ SpenderIn(E, o) = y.id
        BY <1>5, <4>1, SpentOf
      <4>3. SpendingIn(F, o) = y.h /\ SpenderIn(F, o) = y.id
        BY <1>2, <1>5, <4>1, SpentOf
      <4>4. o[1] # x.id
        <5>1. Stands(A, o)
          BY <1>1, <4>1 DEF Sound, From
        <5> QED
          BY <5>1 DEF Stands, ComesAfter
      <4> QED
        BY <2>2, <4>2, <4>3, <4>4
    <3> QED
      BY <3>1, <3>2
  <2> QED
    BY <2>1, <2>2
<1> QED
  BY <1>1, <1>2, <1>3, <1>4, <1>6 DEF Stamped

(* The rows, one by one.                                                   *)
TokenRowIn(E, x) ==
  [TokenRow(x.id, "token", Tx[x.id].to, Tx[x.id].tokens, x.h) EXCEPT !.spent = SpendingIn(E, <<x.id, "token">>)]
ChangeRowIn(E, x) ==
  [TokenRow(x.id, "change", Tx[x.id].pk, Tx[x.id].back, x.h) EXCEPT !.spent = SpendingIn(E, <<x.id, "change">>)]
LockRowIn(E, x) ==
  [out |-> <<x.id, "htlc">>, height |-> x.h, spent |-> SpendingIn(E, <<x.id, "htlc">>),
   key |-> SpendingIn(E, <<x.id, "htlc">>) # 0 /\ Tx[SpenderIn(E, <<x.id, "htlc">>)].reveals]
OfferRowIn(E, x) ==
  LET out == <<x.id, "offer">>
      met == SpendingIn(E, out) # 0 /\ "htlc" \in Tx[SpenderIn(E, out)].outs IN
  [out |-> out, height |-> x.h, spent |-> SpendingIn(E, out), exec |-> IF met THEN SpenderIn(E, out) ELSE Nil]

(* The tables that are promised, as images of the entries.                 *)
LEMMA RowByRow ==
  ASSUME NEW E
  PROVE  /\ TokenRows(E) = {TokenRowIn(E, x) : x \in Making(E, "token")}
         /\ ChangeRows(E) = {ChangeRowIn(E, x) : x \in Making(E, "change")}
         /\ LockRows(E) = {LockRowIn(E, x) : x \in Making(E, "htlc")}
         /\ OfferRows(E) = {OfferRowIn(E, x) : x \in Making(E, "offer")}
<1>1. TokenRows(E) = {TokenRowIn(E, x) : x \in Making(E, "token")}
  BY DEF TokenRows, TokenRowIn
<1>2. ChangeRows(E) = {ChangeRowIn(E, x) : x \in Making(E, "change")}
  BY DEF ChangeRows, ChangeRowIn
<1>3. LockRows(E) = {LockRowIn(E, x) : x \in Making(E, "htlc")}
  BY DEF LockRows, LockRowIn
<1>4. OfferRows(E) = {OfferRowIn(E, x) : x \in Making(E, "offer")}
  BY DEF OfferRows, OfferRowIn
<1> QED
  BY <1>1, <1>2, <1>3, <1>4

(* The promised token outputs grow with a transaction as the statements    *)
(* make them.                                                              *)
LEMMA HoldingsGrow ==
  ASSUME NEW E \in SUBSET Entry, NEW x \in Entry, NEW F, Stamped(E, F, x)
  PROVE  /\ TokenRows(F) = Restamp(TokenRows(E), x.id, x.h)
              \cup RowIf("token" \in Tx[x.id].outs, TokenRow(x.id, "token", Tx[x.id].to, Tx[x.id].tokens, x.h))
         /\ ChangeRows(F) = Restamp(ChangeRows(E), x.id, x.h)
              \cup RowIf("change" \in Tx[x.id].outs, TokenRow(x.id, "change", Tx[x.id].pk, Tx[x.id].back, x.h))
<1>1. \A z \in Entry : <<z.id, "token">> \in Outpoints /\ <<z.id, "change">> \in Outpoints
  BY DEF Entry, Outpoints
<1>2. x \in Entry /\ F = E \cup {x}
  BY DEF Stamped
<1>3. ASSUME NEW z \in E
      PROVE  TokenRowIn(F, z) = IF Spent(TokenRowIn(E, z), x.id, x.h) THEN [TokenRowIn(E, z) EXCEPT !.spent = x.h]
                                ELSE TokenRowIn(E, z)
  <2>1. PICK o \in Outpoints : o = <<z.id, "token">>
    BY <1>1
  <2>2. SpendingIn(F, o) = IF o \in Tx[x.id].spends /\ SpendingIn(E, o) = 0 THEN x.h ELSE SpendingIn(E, o)
    BY DEF Stamped
  <2> QED
    BY <2>1, <2>2 DEF TokenRowIn, TokenRow, Spent
<1>4. ASSUME NEW z \in E
      PROVE  ChangeRowIn(F, z) = IF Spent(ChangeRowIn(E, z), x.id, x.h) THEN [ChangeRowIn(E, z) EXCEPT !.spent = x.h]
                                 ELSE ChangeRowIn(E, z)
  <2>1. PICK o \in Outpoints : o = <<z.id, "change">>
    BY <1>1
  <2>2. SpendingIn(F, o) = IF o \in Tx[x.id].spends /\ SpendingIn(E, o) = 0 THEN x.h ELSE SpendingIn(E, o)
    BY DEF Stamped
  <2> QED
    BY <2>1, <2>2 DEF ChangeRowIn, TokenRow, Spent
<1>5. TokenRowIn(F, x) = TokenRow(x.id, "token", Tx[x.id].to, Tx[x.id].tokens, x.h)
  <2>1. SpendingIn(F, <<x.id, "token">>) = 0
    BY <1>1 DEF Stamped
  <2> QED
    BY <2>1 DEF TokenRowIn, TokenRow
<1>6. ChangeRowIn(F, x) = TokenRow(x.id, "change", Tx[x.id].pk, Tx[x.id].back, x.h)
  <2>1. SpendingIn(F, <<x.id, "change">>) = 0
    BY <1>1 DEF Stamped
  <2> QED
    BY <2>1 DEF ChangeRowIn, TokenRow
<1>7. Making(E, "token") \subseteq E /\ Making(E, "change") \subseteq E
  BY DEF Making
<1>8. TokenRows(F) = Restamp(TokenRows(E), x.id, x.h)
              \cup RowIf("token" \in Tx[x.id].outs, TokenRow(x.id, "token", Tx[x.id].to, Tx[x.id].tokens, x.h))
  <2>1. Making(F, "token") = Making(E, "token") \cup RowIf("token" \in Tx[x.id].outs, x)
    BY <1>2 DEF Making, RowIf
  <2>2. TokenRows(F) = {TokenRowIn(F, z) : z \in Making(F, "token")} /\ TokenRows(E) = {TokenRowIn(E, z) : z \in Making(E, "token")}
    BY RowByRow
  <2>3. Restamp(TokenRows(E), x.id, x.h) = {TokenRowIn(F, z) : z \in Making(E, "token")}
    BY <1>3, <1>7, <2>2 DEF Restamp
  <2> QED
    BY <1>5, <2>1, <2>2, <2>3 DEF RowIf
<1>9. ChangeRows(F) = Restamp(ChangeRows(E), x.id, x.h)
              \cup RowIf("change" \in Tx[x.id].outs, TokenRow(x.id, "change", Tx[x.id].pk, Tx[x.id].back, x.h))
  <2>1. Making(F, "change") = Making(E, "change") \cup RowIf("change" \in Tx[x.id].outs, x)
    BY <1>2 DEF Making, RowIf
  <2>2. ChangeRows(F) = {ChangeRowIn(F, z) : z \in Making(F, "change")} /\ ChangeRows(E) = {ChangeRowIn(E, z) : z \in Making(E, "change")}
    BY RowByRow
  <2>3. Restamp(ChangeRows(E), x.id, x.h) = {ChangeRowIn(F, z) : z \in Making(E, "change")}
    BY <1>4, <1>7, <2>2 DEF Restamp
  <2> QED
    BY <1>6, <2>1, <2>2, <2>3 DEF RowIf
<1> QED
  BY <1>8, <1>9

Revealed(r, t, h) == IF Spent(r, t, h) THEN [r EXCEPT !.spent = h, !.key = Tx[t].reveals] ELSE r

(* So do the promised locks and offers.                                    *)
LEMMA LocksGrow ==
  ASSUME NEW E \in SUBSET Entry, NEW x \in Entry, NEW F, Stamped(E, F, x)
  PROVE  /\ LockRows(F) = Reveal(LockRows(E), x.id, x.h) \cup RowIf("htlc" \in Tx[x.id].outs, NewLock(x.id, x.h))
         /\ OfferRows(F) = (IF "htlc" \in Tx[x.id].outs THEN Meet(Restamp(OfferRows(E), x.id, x.h), x.id)
                            ELSE Restamp(OfferRows(E), x.id, x.h))
                           \cup RowIf("offer" \in Tx[x.id].outs, NewOffer(x.id, x.h))
<1>1. \A z \in Entry : <<z.id, "htlc">> \in Outpoints /\ <<z.id, "offer">> \in Outpoints /\ z.id \in DOMAIN Tx
  BY DEF Entry, Outpoints
<1>2. x \in Entry /\ F = E \cup {x} /\ x.h # 0 /\ Tx[x.id].reveals \in BOOLEAN
  BY <1>1, TokensAssumption DEF Stamped
<1>3. ASSUME NEW z \in E
      PROVE  LockRowIn(F, z) = IF Spent(LockRowIn(E, z), x.id, x.h)
                               THEN [LockRowIn(E, z) EXCEPT !.spent = x.h, !.key = Tx[x.id].reveals] ELSE LockRowIn(E, z)
  <2>1. PICK o \in Outpoints : o = <<z.id, "htlc">>
    BY <1>1
  <2>2. CASE o \in Tx[x.id].spends
    <3>1. SpendingIn(F, o) = x.h /\ SpendingIn(E, o) = 0 /\ SpenderIn(F, o) = x.id
      BY <2>2 DEF Stamped
    <3>2. Spent(LockRowIn(E, z), x.id, x.h)
      BY <2>1, <2>2, <3>1 DEF Spent, LockRowIn
    <3>3. LockRowIn(F, z) = [out |-> o, height |-> z.h, spent |-> x.h, key |-> Tx[x.id].reveals]
      BY <1>2, <2>1, <3>1 DEF LockRowIn
    <3> QED
      BY <2>1, <3>2, <3>3 DEF LockRowIn
  <2>3. CASE o \notin Tx[x.id].spends
    <3>1. SpendingIn(F, o) = SpendingIn(E, o) /\ (SpendingIn(E, o) # 0 => SpenderIn(F, o) = SpenderIn(E, o))
      BY <2>3 DEF Stamped
    <3>2. ~Spent(LockRowIn(E, z), x.id, x.h)
      BY <2>1, <2>3 DEF Spent, LockRowIn
    <3>3. CASE SpendingIn(E, o) = 0
      BY <2>1, <3>1, <3>2, <3>3 DEF LockRowIn
    <3>4. CASE SpendingIn(E, o) # 0
      BY <2>1, <3>1, <3>2, <3>4 DEF LockRowIn
    <3> QED
      BY <3>3, <3>4
  <2> QED
    BY <2>2, <2>3
<1>4. LockRowIn(F, x) = NewLock(x.id, x.h) /\ OfferRowIn(F, x) = NewOffer(x.id, x.h)
  <2>1. SpendingIn(F, <<x.id, "htlc">>) = 0 /\ SpendingIn(F, <<x.id, "offer">>) = 0
    BY <1>1 DEF Stamped
  <2> QED
    BY <2>1 DEF LockRowIn, OfferRowIn, NewLock, NewOffer
<1>5. PICK Marked : Marked = [z \in E |-> IF Spent(OfferRowIn(E, z), x.id, x.h) THEN [OfferRowIn(E, z) EXCEPT !.spent = x.h]
                                          ELSE OfferRowIn(E, z)]
  OBVIOUS
<1>6. ASSUME NEW z \in E
      PROVE  OfferRowIn(F, z) = IF "htlc" \in Tx[x.id].outs /\ Marked[z].out \in Tx[x.id].spends /\ Marked[z].spent # 0
                                THEN [Marked[z] EXCEPT !.exec = x.id] ELSE Marked[z]
  <2>1. PICK o \in Outpoints : o = <<z.id, "offer">>
    BY <1>1
  <2>2. CASE o \in Tx[x.id].spends
    <3>1. SpendingIn(F, o) = x.h /\ SpendingIn(E, o) = 0 /\ SpenderIn(F, o) = x.id
      BY <2>2 DEF Stamped
    <3>2. OfferRowIn(E, z) = [out |-> o, height |-> z.h, spent |-> 0, exec |-> Nil]
      BY <2>1, <3>1 DEF OfferRowIn
    <3>3. Marked[z] = [out |-> o, height |-> z.h, spent |-> x.h, exec |-> Nil]
      BY <1>5, <2>2, <3>2 DEF Spent
    <3>4. OfferRowIn(F, z) = [out |-> o, height |-> z.h, spent |-> x.h, exec |-> IF "htlc" \in Tx[x.id].outs THEN x.id ELSE Nil]
      BY <1>2, <2>1, <3>1 DEF OfferRowIn
    <3>5. Marked[z].out \in Tx[x.id].spends /\ Marked[z].spent # 0
      BY <1>2, <2>2, <3>3
    <3>6. CASE "htlc" \in Tx[x.id].outs
      BY <3>3, <3>4, <3>5, <3>6
    <3>7. CASE "htlc" \notin Tx[x.id].outs
      BY <3>3, <3>4, <3>7
    <3> QED
      BY <3>6, <3>7
  <2>3. CASE o \notin Tx[x.id].spends
    <3>1. SpendingIn(F, o) = SpendingIn(E, o) /\ (SpendingIn(E, o) # 0 => SpenderIn(F, o) = SpenderIn(E, o))
      BY <2>3 DEF Stamped
    <3>2. Marked[z] = OfferRowIn(E, z) /\ OfferRowIn(E, z).out = o
      BY <1>5, <2>1, <2>3 DEF Spent, OfferRowIn
    <3>3. OfferRowIn(F, z) = OfferRowIn(E, z)
      <4>1. CASE SpendingIn(E, o) = 0
        BY <2>1, <3>1, <4>1 DEF OfferRowIn
      <4>2. CASE SpendingIn(E, o) # 0
        BY <2>1, <3>1, <4>2 DEF OfferRowIn
      <4> QED
        BY <4>1, <4>2
    <3> QED
      BY <2>3, <3>2, <3>3
  <2> QED
    BY <2>2, <2>3
<1>7. Making(E, "htlc") \subseteq E /\ Making(E, "offer") \subseteq E
  BY DEF Making
<1>8. LockRows(F) = Reveal(LockRows(E), x.id, x.h) \cup RowIf("htlc" \in Tx[x.id].outs, NewLock(x.id, x.h))
  <2>1. Making(F, "htlc") = Making(E, "htlc") \cup RowIf("htlc" \in Tx[x.id].outs, x)
    BY <1>2 DEF Making, RowIf
  <2>2. LockRows(F) = {LockRowIn(F, z) : z \in Making(F, "htlc")} /\ LockRows(E) = {LockRowIn(E, z) : z \in Making(E, "htlc")}
    BY RowByRow
  <2>3. Reveal(LockRows(E), x.id, x.h) = {LockRowIn(F, z) : z \in Making(E, "htlc")}
    <3>1. \A rows : Reveal(rows, x.id, x.h) = {Revealed(r, x.id, x.h) : r \in rows}
      BY DEF Reveal, Revealed
    <3>2. \A z \in E : LockRowIn(F, z) = Revealed(LockRowIn(E, z), x.id, x.h)
      BY <1>3 DEF Revealed
    <3> QED
      BY <1>7, <2>2, <3>1, <3>2
  <2> QED
    BY <1>4, <2>1, <2>2, <2>3 DEF RowIf
<1>9. OfferRows(F) = (IF "htlc" \in Tx[x.id].outs THEN Meet(Restamp(OfferRows(E), x.id, x.h), x.id)
                      ELSE Restamp(OfferRows(E), x.id, x.h))
                     \cup RowIf("offer" \in Tx[x.id].outs, NewOffer(x.id, x.h))
  <2>1. Making(F, "offer") = Making(E, "offer") \cup RowIf("offer" \in Tx[x.id].outs, x)
    BY <1>2 DEF Making, RowIf
  <2>2. OfferRows(F) = {OfferRowIn(F, z) : z \in Making(F, "offer")} /\ OfferRows(E) = {OfferRowIn(E, z) : z \in Making(E, "offer")}
    BY RowByRow
  <2>3. Restamp(OfferRows(E), x.id, x.h) = {Marked[z] : z \in Making(E, "offer")}
    BY <1>5, <1>7, <2>2 DEF Restamp
  <2>4. (IF "htlc" \in Tx[x.id].outs THEN Meet(Restamp(OfferRows(E), x.id, x.h), x.id)
         ELSE Restamp(OfferRows(E), x.id, x.h)) = {OfferRowIn(F, z) : z \in Making(E, "offer")}
    <3>1. CASE "htlc" \in Tx[x.id].outs
      BY <1>6, <1>7, <2>3, <3>1 DEF Meet
    <3>2. CASE "htlc" \notin Tx[x.id].outs
      BY <1>6, <1>7, <2>3, <3>2
    <3> QED
      BY <3>1, <3>2
  <2> QED
    BY <1>4, <2>1, <2>2, <2>4 DEF RowIf
<1> QED
  BY <1>8, <1>9

(* The sum of a set of rows, as SumLemmas knows it.                        *)
LEMMA TotalIsAmounts == ASSUME NEW P, IsFiniteSet(P) PROVE TotalOf(P) = Amounts(P)
BY DEF TotalOf, Amounts

(* Two lists of amounts by output that agree have the same sum.            *)
LEMMA TxNumbers == \A t \in DOMAIN Tx : Tx[t].tokens \in Nat /\ Tx[t].back \in Nat
BY TokensAssumption

ByOut(O, f) == \A o \in O : f[o].out = o /\ f[o].amount \in Int
RowsOf(O, f) == {f[o] : o \in O}

LEMMA RowsFinite == ASSUME NEW O, IsFiniteSet(O), NEW f PROVE IsFiniteSet(RowsOf(O, f))
<1>1. PICK e : e = [o \in O |-> f[o]]
  OBVIOUS
<1>2. e \in Surjection(O, RowsOf(O, f))
  BY <1>1 DEF RowsOf, Surjection
<1> QED
  BY <1>2, FS_Surjection

(* One row less, and its amount less.                                      *)
LEMMA RowsLessOne ==
  ASSUME NEW O, IsFiniteSet(O), NEW f, ByOut(O, f), NEW o \in O
  PROVE  /\ Amounts(RowsOf(O, f)) = f[o].amount + Amounts(RowsOf(O \ {o}, f))
         /\ IsFiniteSet(RowsOf(O, f)) /\ Amounts(RowsOf(O \ {o}, f)) \in Int
<1>1. IsFiniteSet(RowsOf(O, f))
  BY RowsFinite
<1>2. \A r \in RowsOf(O, f) : r.amount \in Int
  BY DEF RowsOf, ByOut
<1>3. f[o] \in RowsOf(O, f)
  BY DEF RowsOf
<1>4. RowsOf(O \ {o}, f) = RowsOf(O, f) \ {f[o]}
  BY DEF RowsOf, ByOut
<1> QED
  BY <1>1, <1>2, <1>3, <1>4, AmountTakeOut

LEMMA RowsAddUp ==
  ASSUME NEW O, IsFiniteSet(O), NEW f, ByOut(O, f), NEW g, ByOut(O, g), \A o \in O : f[o].amount = g[o].amount
  PROVE  TotalOf(RowsOf(O, f)) = TotalOf(RowsOf(O, g)) /\ TotalOf(RowsOf(O, f)) \in Int
<1>1. \A S \in SUBSET O : IsFiniteSet(S) /\ Cardinality(S) \in Nat
  BY FS_Subset, FS_CardinalityType
<1> DEFINE Differ(S) == ~(Amounts(RowsOf(S, f)) = Amounts(RowsOf(S, g)) /\ Amounts(RowsOf(S, f)) \in Int)
           Bad == {n \in Nat : \E S \in SUBSET O : Cardinality(S) = n /\ Differ(S)}
<1>2. Bad = {}
  <2> SUFFICES ASSUME Bad # {} PROVE FALSE
    OBVIOUS
  <2>1. PICK n \in Bad : \A m \in Bad : n <= m
    BY LeastMember
  <2>2. PICK S \in SUBSET O : Cardinality(S) = n /\ Differ(S)
    BY <2>1
  <2>3. S # {}
    <3>1. RowsOf({}, f) = {} /\ RowsOf({}, g) = {}
      BY DEF RowsOf
    <3>2. ~Differ({})
      BY <3>1, AmountsNothing
    <3> HIDE DEF Differ
    <3> QED
      BY <2>2, <3>2
  <2>4. PICK o \in S : TRUE
    BY <2>3
  <2>5. PICK R : R = S \ {o}
    OBVIOUS
  <2>6. Cardinality(R) = n - 1 /\ n \in Nat \ {0} /\ R \in SUBSET O
    BY <1>1, <2>2, <2>4, <2>5, TakeOne
  <2>7. n - 1 \in Nat /\ ~(n <= n - 1)
    BY <2>6
  <2>8. ~Differ(R)
    <3> HIDE DEF Differ
    <3> QED
      BY <2>1, <2>6, <2>7
  <2>9. ByOut(S, f) /\ ByOut(S, g) /\ f[o].amount = g[o].amount /\ f[o].amount \in Int
    BY <2>2, <2>4 DEF ByOut
  <2>10. Amounts(RowsOf(S, f)) = f[o].amount + Amounts(RowsOf(R, f))
    BY <1>1, <2>4, <2>5, <2>9, RowsLessOne
  <2>11. Amounts(RowsOf(S, g)) = g[o].amount + Amounts(RowsOf(R, g))
    BY <1>1, <2>4, <2>5, <2>9, RowsLessOne
  <2> QED
    BY <2>2, <2>8, <2>9, <2>10, <2>11
<1>3. ~Differ(O)
  <2> HIDE DEF Differ
  <2>1. Cardinality(O) \in Nat /\ O \in SUBSET O
    BY <1>1
  <2> QED
    BY <1>2, <2>1
<1>4. TotalOf(RowsOf(O, f)) = Amounts(RowsOf(O, f)) /\ TotalOf(RowsOf(O, g)) = Amounts(RowsOf(O, g))
  <2>1. IsFiniteSet(RowsOf(O, f)) /\ IsFiniteSet(RowsOf(O, g))
    BY RowsFinite
  <2> QED
    BY <2>1, TotalIsAmounts
<1> QED
  BY <1>3, <1>4

(* What a transfer hands back, as the index computes it, is what it says.  *)
NoTokensBefore(A) == \A y \in A : y.h < Start => {"token", "change"} \cap Tx[y.id].outs = {}
HoldingsOf(E) == TokenRows(E) \cup ChangeRows(E)

(* The change of a transfer, summed over the rows of the outputs it        *)
(* spends, which are marked as spent already (line 680).                   *)
LEMMA BackIsRight ==
  ASSUME NEW A, Sound(A), NoTokensBefore(A), NEW x \in Entry, ComesAfter(A, x), "change" \in Tx[x.id].outs
  PROVE  BackOf(Restamp(HoldingsOf(From(A)), x.id, x.h), x.id) = Tx[x.id].back
<1>1. PICK t \in DOMAIN Tx : t = x.id
  BY DEF Entry
<1>2. PICK O : O = TokensSpent(t)
  OBVIOUS
<1>3. PICK U : U = Restamp(HoldingsOf(From(A)), t, x.h)
  OBVIOUS
<1>4. PICK P : P = {r \in U : r.out \in Tx[t].spends /\ r.coin = Tx[t].coin}
  OBVIOUS
<1>5. O \subseteq Tx[t].spends /\ O \subseteq Outpoints /\ IsFiniteSet(O)
  <2>1. O \subseteq Tx[t].spends /\ O \subseteq Outpoints
    BY <1>2 DEF TokensSpent
  <2>2. IsFiniteSet(Tx[t].spends)
    BY TokensAssumption
  <2> QED
    BY <2>1, <2>2, FS_Subset
<1> DEFINE RowOf(y, sort) == IF sort = "token" THEN TokenRowIn(From(A), y) ELSE ChangeRowIn(From(A), y)
<1>6. ASSUME NEW y \in A, NEW sort \in {"token", "change"}
      PROVE  /\ RowOf(y, sort).out = <<y.id, sort>> /\ RowOf(y, sort).coin = Tx[y.id].coin
             /\ RowOf(y, sort).amount = AmountOf(<<y.id, sort>>)
             /\ DOMAIN RowOf(y, sort) = {"out", "coin", "pk", "amount", "height", "spent"}
  BY DEF TokenRowIn, ChangeRowIn, TokenRow, AmountOf
<1>7. \A r : r \in HoldingsOf(From(A)) <=>
        \E y \in From(A), sort \in {"token", "change"} : sort \in Tx[y.id].outs /\ r = RowOf(y, sort)
  <2>1. TokenRows(From(A)) = {TokenRowIn(From(A), y) : y \in Making(From(A), "token")}
        /\ ChangeRows(From(A)) = {ChangeRowIn(From(A), y) : y \in Making(From(A), "change")}
    BY RowByRow
  <2> QED
    BY <2>1 DEF HoldingsOf, Making
<1> HIDE DEF RowOf
<1> DEFINE Struck(r) == IF Spent(r, t, x.h) THEN [r EXCEPT !.spent = x.h] ELSE r
<1>8. ASSUME NEW y \in A, NEW sort \in {"token", "change"}
      PROVE  /\ Struck(RowOf(y, sort)).out = <<y.id, sort>> /\ Struck(RowOf(y, sort)).coin = Tx[y.id].coin
             /\ Struck(RowOf(y, sort)).amount = AmountOf(<<y.id, sort>>)
  BY <1>6
<1>9. \A r : r \in U <=>
        \E y \in From(A), sort \in {"token", "change"} : sort \in Tx[y.id].outs /\ r = Struck(RowOf(y, sort))
  BY <1>3, <1>7 DEF Restamp
<1> HIDE DEF Struck
<1>10. From(A) \subseteq A /\ A \subseteq Entry
  BY DEF From, Sound
<1>11. ASSUME NEW o \in O
       PROVE  \E y \in From(A) : o = <<y.id, o[2]>> /\ o[2] \in {"token", "change"} /\ o[2] \in Tx[y.id].outs /\ Tx[y.id].coin = Tx[t].coin
  <2>1. o \in Outpoints /\ o \in Tx[t].spends /\ o[2] \in {"token", "change"} /\ Tx[o[1]].coin = Tx[t].coin
    BY <1>2 DEF TokensSpent
  <2>2. Stands(A, o)
    BY <1>1, <2>1 DEF ComesAfter
  <2>3. PICK y \in A : y.id = o[1] /\ o[2] \in Tx[y.id].outs
    BY <2>2 DEF Stands
  <2>4. ~(y.h < Start)
    BY <2>1, <2>3 DEF NoTokensBefore
  <2>5. y \in From(A)
    <3>1. y.h \in Nat /\ Start \in Nat
      BY <1>10, TokensAssumption DEF Entry
    <3> QED
      BY <2>4, <3>1 DEF From
  <2>6. o = <<o[1], o[2]>>
    BY <2>1 DEF Outpoints
  <2> QED
    BY <2>1, <2>3, <2>5, <2>6
<1>12. PICK Maker : Maker = [o \in O |-> CHOOSE y \in From(A) :
          o = <<y.id, o[2]>> /\ o[2] \in {"token", "change"} /\ o[2] \in Tx[y.id].outs /\ Tx[y.id].coin = Tx[t].coin]
  OBVIOUS
<1>13. \A o \in O : /\ Maker[o] \in From(A) /\ o = <<Maker[o].id, o[2]>> /\ o[2] \in {"token", "change"}
                    /\ o[2] \in Tx[Maker[o].id].outs /\ Tx[Maker[o].id].coin = Tx[t].coin
  BY <1>11, <1>12
<1>14. PICK f : f = [o \in O |-> Struck(RowOf(Maker[o], o[2]))]
  OBVIOUS
<1>15. PICK g : g = [o \in O |-> [out |-> o, amount |-> AmountOf(o)]]
  OBVIOUS
<1>16. \A o \in O : f[o].out = o /\ f[o].coin = Tx[t].coin /\ f[o].amount = AmountOf(o)
  <2> SUFFICES ASSUME NEW o \in O PROVE f[o].out = o /\ f[o].coin = Tx[t].coin /\ f[o].amount = AmountOf(o)
    OBVIOUS
  <2>1. Maker[o] \in A /\ o = <<Maker[o].id, o[2]>> /\ o[2] \in {"token", "change"} /\ Tx[Maker[o].id].coin = Tx[t].coin
    BY <1>10, <1>13
  <2>2. f[o] = Struck(RowOf(Maker[o], o[2]))
    BY <1>14
  <2> QED
    BY <1>8, <2>1, <2>2
<1>17. \A o \in O : AmountOf(o) \in Int
  <2> SUFFICES ASSUME NEW o \in O PROVE AmountOf(o) \in Int
    OBVIOUS
  <2>1. o[1] \in DOMAIN Tx
    BY <1>5 DEF Outpoints
  <2>2. PICK u \in DOMAIN Tx : u = o[1]
    BY <2>1
  <2>3. Tx[u].tokens \in Nat /\ Tx[u].back \in Nat
    BY TxNumbers
  <2> QED
    BY <2>2, <2>3 DEF AmountOf
<1>18. P = RowsOf(O, f)
  <2>1. ASSUME NEW o \in O PROVE f[o] \in P
    <3>1. Maker[o] \in From(A) /\ o[2] \in {"token", "change"} /\ o[2] \in Tx[Maker[o].id].outs
      BY <1>13
    <3>2. f[o] = Struck(RowOf(Maker[o], o[2]))
      BY <1>14
    <3>3. f[o] \in U
      BY <1>9, <3>1, <3>2
    <3> QED
      BY <1>4, <1>5, <1>16, <3>3
  <2>2. ASSUME NEW r \in P PROVE \E o \in O : r = f[o]
    <3>1. PICK y \in From(A), sort \in {"token", "change"} : sort \in Tx[y.id].outs /\ r = Struck(RowOf(y, sort))
      BY <1>4, <1>9
    <3>2. PICK o : o = <<y.id, sort>>
      OBVIOUS
    <3>3. r.out = o /\ r.coin = Tx[y.id].coin
      BY <1>8, <1>10, <3>1, <3>2
    <3>4. o \in Outpoints /\ o[1] = y.id /\ o[2] = sort
      BY <1>10, <3>2 DEF Outpoints, Entry
    <3>5. o \in O
      BY <1>2, <1>4, <3>3, <3>4 DEF TokensSpent
    <3>6. Maker[o] \in From(A) /\ Maker[o].id = y.id
      <4>1. Maker[o] \in From(A) /\ o = <<Maker[o].id, o[2]>>
        BY <1>13, <3>5
      <4> QED
        BY <3>2, <4>1
    <3>7. Maker[o] = y
      BY <1>10, <3>6 DEF Sound
    <3> QED
      BY <1>14, <3>1, <3>4, <3>5, <3>7
  <2> QED
    BY <2>1, <2>2 DEF RowsOf
<1>19. RowsOf(O, g) = {[out |-> o, amount |-> AmountOf(o)] : o \in TokensSpent(t)}
  BY <1>2, <1>15 DEF RowsOf
<1>20. TotalOf(P) = TotalOf(RowsOf(O, g)) /\ TotalOf(P) \in Int
  <2>1. ByOut(O, f) /\ ByOut(O, g) /\ \A o \in O : f[o].amount = g[o].amount
    BY <1>15, <1>16, <1>17 DEF ByOut
  <2> QED
    BY <1>5, <1>18, <2>1, RowsAddUp
<1>21. Tx[t].back + Tx[t].tokens = TotalOf(RowsOf(O, g)) /\ Tx[t].back \in Nat /\ Tx[t].tokens \in Nat
  BY <1>1, <1>19, TokensAssumption
<1>22. BackOf(U, t) = TotalOf(P) - Tx[t].tokens
  BY <1>4 DEF BackOf
<1> QED
  BY <1>1, <1>3, <1>20, <1>21, <1>22

(* The tables of outputs are those of the entries E.                       *)
Tables(d, E) ==
  IsDb(d) /\ d.utxos = HoldingsOf(E) /\ d.htlcs = LockRows(E) /\ d.offers = OfferRows(E)

LEMMA RestampBoth == ASSUME NEW P, NEW Q, NEW t, NEW h PROVE Restamp(P \cup Q, t, h) = Restamp(P, t, h) \cup Restamp(Q, t, h)
BY DEF Restamp

(* One transaction takes the tables of a chain to those of the chain with  *)
(* it.                                                                     *)
LEMMA TablesStep ==
  ASSUME NEW A, Sound(A), NoTokensBefore(A), NEW x \in Entry, ComesAfter(A, x), x.h >= Start,
         NEW d, Tables(d, From(A)), NEW l
  PROVE  Tables(ApplyTx(d, x.id, x.h, l), From(A \cup {x}))
<1>0. PICK e : e = ApplyTx(d, x.id, x.h, l)
  OBVIOUS
<1>1. PICK E : E = From(A)
  OBVIOUS
<1>2. PICK F : F = From(A \cup {x})
  OBVIOUS
<1>3. Stamped(E, F, x)
  BY <1>1, <1>2, OneMore
<1>4. E \in SUBSET Entry
  BY <1>1 DEF From, Sound
<1>5. PICK t \in DOMAIN Tx : t = x.id
  BY DEF Entry
<1>6. PICK h : h = x.h
  OBVIOUS
<1>7. Step(d, e, t, h)
  BY <1>0, <1>5, <1>6, ApplyTxStep DEF Tables
<1>8. /\ TokenRows(F) = Restamp(TokenRows(E), t, h) \cup RowIf("token" \in Tx[t].outs, TokenRow(t, "token", Tx[t].to, Tx[t].tokens, h))
      /\ ChangeRows(F) = Restamp(ChangeRows(E), t, h) \cup RowIf("change" \in Tx[t].outs, TokenRow(t, "change", Tx[t].pk, Tx[t].back, h))
  BY <1>3, <1>4, <1>5, <1>6, HoldingsGrow
<1>9. PICK U : U = Restamp(HoldingsOf(E), t, h)
  OBVIOUS
<1>10. U = Restamp(TokenRows(E), t, h) \cup Restamp(ChangeRows(E), t, h)
  BY <1>9, RestampBoth DEF HoldingsOf
<1>11. "change" \in Tx[t].outs => Tx[t].op = "T" /\ BackOf(U, t) = Tx[t].back /\ Tx[t].back > 0
  BY <1>1, <1>5, <1>6, <1>9, BackIsRight, TokensAssumption
<1>12. "token" \in Tx[t].outs /\ Tx[t].op # "T" => Tx[t].op \in Minters /\ Tx[t].tokens > 0 /\ Tx[t].to = Tx[t].pk
  BY TokensAssumption
<1>13. Handed(U, t, h) \cup Minted(t, h)
       = RowIf("token" \in Tx[t].outs, TokenRow(t, "token", Tx[t].to, Tx[t].tokens, h))
         \cup RowIf("change" \in Tx[t].outs, TokenRow(t, "change", Tx[t].pk, Tx[t].back, h))
  <2>1. CASE Tx[t].op = "T"
    <3>1. Minted(t, h) = {}
      BY <2>1 DEF Minted, Minters, RowIf
    <3>2. CASE "change" \in Tx[t].outs
      BY <1>11, <2>1, <3>1, <3>2 DEF Handed, RowIf
    <3>3. CASE "change" \notin Tx[t].outs
      BY <2>1, <3>1, <3>3 DEF Handed, RowIf
    <3> QED
      BY <3>2, <3>3
  <2>2. CASE Tx[t].op # "T"
    <3>1. Handed(U, t, h) = {} /\ "change" \notin Tx[t].outs
      BY <1>11, <2>2 DEF Handed
    <3>2. CASE "token" \in Tx[t].outs
      BY <1>12, <2>2, <3>1, <3>2 DEF Minted, RowIf
    <3>3. CASE "token" \notin Tx[t].outs
      BY <2>2, <3>1, <3>3 DEF Minted, RowIf
    <3> QED
      BY <3>2, <3>3
  <2> QED
    BY <2>1, <2>2
<1>14. e.utxos = HoldingsOf(F)
  <2>1. e.utxos = U \cup Handed(U, t, h) \cup Minted(t, h)
    BY <1>1, <1>7, <1>9 DEF Step, Tables
  <2> QED
    BY <1>8, <1>10, <1>13, <2>1 DEF HoldingsOf
<1>15. e.htlcs = LockRows(F) /\ e.offers = OfferRows(F)
  <2>1. /\ LockRows(F) = Reveal(LockRows(E), t, h) \cup RowIf("htlc" \in Tx[t].outs, NewLock(t, h))
        /\ OfferRows(F) = (IF "htlc" \in Tx[t].outs THEN Meet(Restamp(OfferRows(E), t, h), t)
                           ELSE Restamp(OfferRows(E), t, h))
                          \cup RowIf("offer" \in Tx[t].outs, NewOffer(t, h))
    BY <1>3, <1>4, <1>5, <1>6, LocksGrow
  <2>2. d.htlcs = LockRows(E) /\ d.offers = OfferRows(E)
    BY <1>1 DEF Tables
  <2> QED
    BY <1>7, <2>1, <2>2 DEF Step
<1> QED
  BY <1>0, <1>2, <1>7, <1>14, <1>15 DEF Step, Tables
-----------------------------------------------------------------------------
(* A block, transaction by transaction.                                    *)
AreApplied(g, d, h, l, s, D) ==
  g = [b \in D |-> IF b = {} THEN d ELSE ApplyTx(g[b \ {Max(b)}], s[Max(b)], h, l)]

(* The databases within a block, as FoldLeft computes them.                *)
LEMMA AppliedExist == ASSUME NEW N \in Nat, NEW s, NEW d, NEW h, NEW l PROVE \E g : AreApplied(g, d, h, l, s, SUBSET (1 .. N))
<1>1. \A b \in SUBSET (1 .. N) : Cardinality(b) \in Nat /\ Cardinality(b) <= N
  <2>1. IsFiniteSet(1 .. N) /\ Cardinality(1 .. N) = N
    BY FS_Interval
  <2> QED
    BY <2>1, FS_Subset, FS_CardinalityType
<1> DEFINE Bad == {n \in Nat : ~\E g : AreApplied(g, d, h, l, s, UpTo(1 .. N, n))}
<1>2. Bad = {}
  <2> SUFFICES ASSUME Bad # {} PROVE FALSE
    OBVIOUS
  <2>1. PICK n \in Bad : \A m \in Bad : n <= m
    BY LeastMember
  <2>2. CASE n = 0
    <3>1. \A b \in UpTo(1 .. N, 0) : b = {}
      <4> SUFFICES ASSUME NEW b \in UpTo(1 .. N, 0), b # {} PROVE FALSE
        OBVIOUS
      <4>1. b \in SUBSET (1 .. N) /\ Cardinality(b) <= 0 /\ Cardinality(b) \in Nat
        BY <1>1 DEF UpTo
      <4>2. Cardinality(b \ {Max(b)}) = Cardinality(b) - 1 /\ b \ {Max(b)} \in SUBSET (1 .. N)
        BY <4>1, TakeMax
      <4>3. Cardinality(b \ {Max(b)}) \in Nat
        BY <1>1, <4>2
      <4> QED
        BY <4>1, <4>2, <4>3
    <3>2. PICK g : g = [b \in UpTo(1 .. N, 0) |-> d]
      OBVIOUS
    <3>3. AreApplied(g, d, h, l, s, UpTo(1 .. N, 0))
      BY <3>1, <3>2 DEF AreApplied
    <3> QED
      BY <2>1, <2>2, <3>3
  <2>3. CASE n # 0
    <3>1. n - 1 \in Nat /\ n \in Nat /\ ~(n <= n - 1)
      BY <2>1, <2>3
    <3>2. PICK f : AreApplied(f, d, h, l, s, UpTo(1 .. N, n - 1))
      BY <2>1, <3>1
    <3>3. PICK g : g = [b \in UpTo(1 .. N, n) |-> IF b = {} THEN d ELSE ApplyTx(f[b \ {Max(b)}], s[Max(b)], h, l)]
      OBVIOUS
    <3> HIDE DEF Bad
    <3>4. ASSUME NEW b \in UpTo(1 .. N, n), b # {} PROVE g[b \ {Max(b)}] = f[b \ {Max(b)}]
      <4>1. b \in SUBSET (1 .. N) /\ Cardinality(b) <= n
        BY DEF UpTo
      <4>2. Cardinality(b \ {Max(b)}) = Cardinality(b) - 1 /\ b \ {Max(b)} \in SUBSET (1 .. N) /\ Cardinality(b) \in Nat
        BY <3>4, <4>1, TakeMax
      <4>3. b \ {Max(b)} \in UpTo(1 .. N, n - 1) /\ b \ {Max(b)} \in UpTo(1 .. N, n)
        BY <3>1, <4>1, <4>2 DEF UpTo
      <4> QED
        BY <3>2, <3>3, <4>3 DEF AreApplied
    <3>5. AreApplied(g, d, h, l, s, UpTo(1 .. N, n))
      BY <3>3, <3>4 DEF AreApplied
    <3> QED
      BY <2>1, <3>5 DEF Bad
  <2> QED
    BY <2>2, <2>3
<1>3. UpTo(1 .. N, N) = SUBSET (1 .. N)
  BY <1>1 DEF UpTo
<1>4. \E g : AreApplied(g, d, h, l, s, UpTo(1 .. N, N))
  BY <1>2
<1> QED
  BY <1>3, <1>4

Applying(s, d, h, l) == FoldLeft(LAMBDA e, t : ApplyTx(e, t, h, l), d, s)

AreSteps(T, s, d, h, l) ==
  /\ T[0] = d /\ T[Len(s)] = Applying(s, d, h, l)
  /\ \A k \in 1 .. Len(s) : T[k] = ApplyTx(T[k - 1], s[k], h, l)

(* A block is applied one transaction at a time.                           *)
LEMMA BlockSteps ==
  ASSUME NEW s \in Seq(DOMAIN Tx), NEW d, NEW h, NEW l
  PROVE  \E T : AreSteps(T, s, d, h, l)
<1>1. DOMAIN s = 1 .. Len(s) /\ Len(s) \in Nat
  OBVIOUS
<1>2. PICK iter : iter = CHOOSE g : g = [b \in SUBSET DOMAIN s |->
                    IF b = {} THEN d ELSE ApplyTx(g[b \ {Max(b)}], s[Max(b)], h, l)]
  OBVIOUS
<1>3. Applying(s, d, h, l) = iter[DOMAIN s]
  BY <1>2 DEF Applying, FoldLeft, MapThenFoldSet
<1>4. AreApplied(iter, d, h, l, s, SUBSET (1 .. Len(s)))
  <2>1. \E g : AreApplied(g, d, h, l, s, SUBSET (1 .. Len(s)))
    BY <1>1, AppliedExist
  <2>2. SUBSET DOMAIN s = SUBSET (1 .. Len(s))
    BY <1>1
  <2>3. iter = CHOOSE g : AreApplied(g, d, h, l, s, SUBSET (1 .. Len(s)))
    BY <1>2, <2>2 DEF AreApplied
  <2> QED
    BY <2>1, <2>3
<1>5. PICK T : T = [k \in 0 .. Len(s) |-> iter[1 .. k]]
  OBVIOUS
<1>6. T[0] = d
  <2>1. 1 .. 0 = {} /\ {} \in SUBSET (1 .. Len(s)) /\ 0 \in 0 .. Len(s)
    BY <1>1
  <2>2. iter[{}] = d
    BY <1>4, <2>1 DEF AreApplied
  <2> QED
    BY <1>5, <2>1, <2>2
<1>7. ASSUME NEW k \in 1 .. Len(s) PROVE T[k] = ApplyTx(T[k - 1], s[k], h, l)
  <2>1. k \in Nat \ {0} /\ k \in 0 .. Len(s) /\ k - 1 \in 0 .. Len(s) /\ 1 .. k \in SUBSET (1 .. Len(s)) /\ 1 .. k # {}
    <3>1. \A N \in Nat : k \in 1 .. N => /\ k \in Nat \ {0} /\ k \in 0 .. N /\ k - 1 \in 0 .. N
                                        /\ 1 .. k \in SUBSET (1 .. N) /\ k \in 1 .. k
      OBVIOUS
    <3> QED
      BY <1>1, <3>1
  <2>2. iter[1 .. k] = ApplyTx(iter[(1 .. k) \ {Max(1 .. k)}], s[Max(1 .. k)], h, l)
    BY <1>4, <2>1 DEF AreApplied
  <2>3. Max(1 .. k) = k /\ (1 .. k) \ {k} = 1 .. k - 1
    BY <2>1, MaxOfInterval
  <2> QED
    BY <1>5, <2>1, <2>2, <2>3
<1>8. T[Len(s)] = iter[DOMAIN s]
  BY <1>1, <1>5
<1> QED
  BY <1>3, <1>6, <1>7, <1>8 DEF AreSteps

(* No tokens were made before START.                                       *)
LEMMA NoTokensInChain ==
  ASSUME NEW p, IsChain(p), NEW h \in 1 .. Len(p), NEW j \in 1 .. Len(p[h])
  PROVE  NoTokensBefore(Earlier(p, h, j))
<1>1. PICK c \in Chains : Len(p) <= Len(c) /\ \A g \in 1 .. Len(p) : p[g] = c[g]
  BY DEF IsChain
<1>2. c \in Blocked /\ p \in Blocked
  BY <1>1, ChainsLegal DEF AreLegal, IsChain
<1>3. Len(p) \in Nat /\ Len(c) \in Nat /\ h \in Nat /\ DOMAIN c = 1 .. Len(c)
  BY <1>2 DEF Blocked
<1>4. \A g \in 1 .. Len(p) : g \in 1 .. Len(c) /\ p[g] = c[g] /\ Len(c[g]) \in Nat /\ DOMAIN c[g] = 1 .. Len(c[g])
  BY <1>1, <1>2, <1>3 DEF Blocked
<1>5. SUFFICES ASSUME NEW y \in Earlier(p, h, j), y.h < Start PROVE {"token", "change"} \cap Tx[y.id].outs = {}
  BY DEF NoTokensBefore
<1>6. \E g \in 1 .. Len(p) : \E i \in 1 .. Len(p[g]) : y = [h |-> g, id |-> p[g][i]]
  <2>1. CASE y \in EntriesTo(p, h - 1)
    <3>1. PICK g \in 1 .. h - 1 : \E i \in 1 .. Len(p[g]) : y = [h |-> g, id |-> p[g][i]]
      BY <2>1 DEF EntriesTo
    <3>2. g \in 1 .. Len(p)
      BY <1>3
    <3> QED
      BY <3>1, <3>2
  <2>2. CASE y \notin EntriesTo(p, h - 1)
    <3>1. PICK i \in 1 .. j - 1 : y = [h |-> h, id |-> p[h][i]]
      BY <1>5, <2>2 DEF Earlier
    <3>2. i \in 1 .. Len(p[h])
      BY <1>3, <1>4
    <3> QED
      BY <3>1, <3>2
  <2> QED
    BY <2>1, <2>2
<1>7. PICK g \in 1 .. Len(p) : \E i \in 1 .. Len(p[g]) : y = [h |-> g, id |-> p[g][i]]
  BY <1>6
<1>8. PICK i \in 1 .. Len(p[g]) : y = [h |-> g, id |-> p[g][i]]
  BY <1>7
<1>9. g \in DOMAIN c /\ i \in DOMAIN c[g] /\ y.id = c[g][i] /\ g < Start
  BY <1>3, <1>4, <1>5, <1>8
<1> QED
  BY <1>9, TokensAssumption

(* One block takes the tables of a chain to those of the next.             *)
LEMMA TablesBlock ==
  ASSUME NEW b, IsChain(b), Len(b) >= Start, NEW d, Tables(d, From(EntriesTo(b, Len(b) - 1)))
  PROVE  /\ Tables(ApplyBlock(d, b), From(EntriesTo(b, Len(b))))
         /\ ApplyBlock(d, b).scanned = Len(b)
         /\ ApplyBlock(d, b).blocks = [k \in {k \in DOMAIN d.blocks : k >= Len(b) - Keep} \cup {Len(b)} |->
                                         IF k = Len(b) THEN b ELSE d.blocks[k]]
<1>1. PICK h : h = Len(b)
  OBVIOUS
<1>2. b \in Blocked /\ h \in 1 .. Len(b) /\ h \in Nat
  <2>1. Len(b) \in Nat /\ Start \in Nat \ {0}
    BY TokensAssumption DEF IsChain, Blocked
  <2> QED
    BY <1>1, <2>1 DEF IsChain
<1>3. PICK s : s = b[h]
  OBVIOUS
<1>4. s \in Seq(DOMAIN Tx) /\ Len(s) \in Nat
  BY <1>2, <1>3, BlockEntriesTyped
<1>5. PICK l : l = LedgerOf[b]
  OBVIOUS
<1>6. PICK T : AreSteps(T, s, d, h, l)
  BY <1>4, BlockSteps
<1>7. PICK e : e = T[Len(s)]
  OBVIOUS
<1>8. ApplyBlock(d, b) = [e EXCEPT !.blocks = [k \in {k \in DOMAIN d.blocks : k >= h - Keep} \cup {h} |->
                                                IF k = h THEN b ELSE d.blocks[k]],
                                   !.scanned = h]
  <2>1. ApplyBlock(d, b) = [Applying(b[Len(b)], d, Len(b), LedgerOf[b])
             EXCEPT !.blocks = [k \in {k \in DOMAIN d.blocks : k >= Len(b) - Keep} \cup {Len(b)} |->
                                                IF k = Len(b) THEN b ELSE d.blocks[k]],
                    !.scanned = Len(b)]
    BY DEF ApplyBlock, Applying
  <2> QED
    BY <1>1, <1>3, <1>5, <1>6, <1>7, <2>1 DEF AreSteps
<1>9. Earlier(b, h, 1) = EntriesTo(b, h - 1) /\ Earlier(b, h, Len(s) + 1) = EntriesTo(b, h)
  <2>1. Earlier(b, h, 1) = EntriesTo(b, h - 1)
    BY DEF Earlier
  <2>2. EntriesTo(b, h) = EntriesTo(b, h - 1) \cup Firsts(BlockEntries(b, h), Len(s))
    BY <1>2, <1>3, EntriesOfBlock
  <2>3. \A i \in 1 .. Len(s) : BlockEntries(b, h)[i] = [h |-> h, id |-> b[h][i]]
    BY <1>2, <1>3, BlockEntriesTyped
  <2>4. (Len(s) + 1) - 1 = Len(s)
    BY <1>4
  <2> QED
    BY <2>1, <2>2, <2>3, <2>4 DEF Earlier, Firsts
<1> DEFINE Good(k) == Tables(T[k], From(Earlier(b, h, k + 1)))
           Bad == {k \in 0 .. Len(s) : ~Good(k)}
<1>10. Good(0)
  BY <1>1, <1>6, <1>9 DEF AreSteps
<1>11. ASSUME NEW k \in 1 .. Len(s), Good(k - 1) PROVE Good(k)
  <2>1. k \in 1 .. Len(b[h]) /\ (k - 1) + 1 = k /\ (k + 1) - 1 = k
    BY <1>3, <1>4
  <2>2. PICK A : A = Earlier(b, h, k)
    OBVIOUS
  <2>3. PICK x : x = [h |-> h, id |-> b[h][k]]
    OBVIOUS
  <2>4. Sound(A) /\ ComesAfter(A, x) /\ x \in Entry /\ NoTokensBefore(A)
    BY <1>2, <2>1, <2>2, <2>3, LegalPlaces, NoTokensInChain
  <2>5. Tables(T[k - 1], From(A))
    BY <1>11, <2>1, <2>2
  <2>6. T[k] = ApplyTx(T[k - 1], x.id, x.h, l) /\ x.h >= Start
    BY <1>1, <1>3, <1>6, <2>3 DEF AreSteps
  <2>7. Tables(T[k], From(A \cup {x}))
    <3>1. PICK now : now = T[k - 1]
      OBVIOUS
    <3>2. Tables(now, From(A))
      BY <2>5, <3>1
    <3>3. Tables(ApplyTx(now, x.id, x.h, l), From(A \cup {x}))
      BY <2>4, <2>6, <3>2, TablesStep
    <3> QED
      BY <2>6, <3>1, <3>3
  <2>8. Earlier(b, h, k + 1) = A \cup {x}
    <3>1. \A i : i \in 1 .. (k + 1) - 1 <=> i \in 1 .. k - 1 \/ i = k
      BY <1>4, <2>1
    <3> QED
      BY <2>2, <2>3, <3>1 DEF Earlier
  <2> QED
    BY <2>7, <2>8
<1> HIDE DEF Good
<1>12. Bad = {}
  <2> SUFFICES ASSUME Bad # {} PROVE FALSE
    OBVIOUS
  <2>1. Bad \in SUBSET Nat
    BY <1>4
  <2>2. PICK k \in Bad : \A m \in Bad : k <= m
    BY <2>1, LeastMember
  <2>3. k # 0 /\ k \in 0 .. Len(s)
    BY <1>10, <2>2
  <2>4. k \in 1 .. Len(s) /\ k - 1 \in 0 .. Len(s) /\ ~(k <= k - 1)
    BY <1>4, <2>3
  <2>5. Good(k - 1)
    BY <2>2, <2>4
  <2> QED
    BY <1>11, <2>2, <2>4, <2>5
<1>13. Good(Len(s))
  BY <1>4, <1>12
<1>14. Tables(e, From(EntriesTo(b, h)))
  BY <1>7, <1>9, <1>13 DEF Good
<1>15. Tables(ApplyBlock(d, b), From(EntriesTo(b, h))) /\ ApplyBlock(d, b).scanned = h
       /\ ApplyBlock(d, b).blocks = [k \in {k \in DOMAIN d.blocks : k >= h - Keep} \cup {h} |->
                                         IF k = h THEN b ELSE d.blocks[k]]
  BY <1>8, <1>14 DEF Tables, IsDb, DbFields
<1> QED
  BY <1>1, <1>15
-----------------------------------------------------------------------------
(* What a rollback does to the spending known of an output.                *)
Cut(E, h) == {y \in E : y.h <= h}

(* Without the entries above a height an output is spent as it was at it.  *)
LEMMA SpendingCut ==
  ASSUME NEW E \in SUBSET Entry, OneSpender(E), NEW h \in Nat, NEW o \in Outpoints, \A y \in E : y.h # 0
  PROVE  /\ SpendingIn(Cut(E, h), o) = IF SpendingIn(E, o) > h THEN 0 ELSE SpendingIn(E, o)
         /\ SpendingIn(Cut(E, h), o) # 0 => SpenderIn(Cut(E, h), o) = SpenderIn(E, o)
<1>1. CASE Unspent(E, o)
  <2>1. Unspent(Cut(E, h), o)
    BY <1>1 DEF Unspent, Cut
  <2>2. SpendingIn(E, o) = 0 /\ SpendingIn(Cut(E, h), o) = 0
    BY <1>1, <2>1, NeverSpent
  <2> QED
    BY <2>2
<1>2. CASE ~Unspent(E, o)
  <2>1. PICK y \in E : o \in Tx[y.id].spends
    BY <1>2 DEF Unspent
  <2>2. SpendingIn(E, o) = y.h /\ SpenderIn(E, o) = y.id /\ y.h \in Nat
    BY <2>1, SpentOf DEF Entry
  <2>3. OneSpender(Cut(E, h))
    BY DEF OneSpender, Cut
  <2>4. CASE y.h <= h
    <3>1. y \in Cut(E, h)
      BY <2>4 DEF Cut
    <3>2. SpendingIn(Cut(E, h), o) = y.h /\ SpenderIn(Cut(E, h), o) = y.id
      BY <2>1, <2>3, <3>1, SpentOf
    <3> QED
      BY <2>2, <2>4, <3>2
  <2>5. CASE ~(y.h <= h)
    <3>1. \A z \in E : o \in Tx[z.id].spends => z = y
      BY <2>1 DEF OneSpender
    <3>2. Unspent(Cut(E, h), o)
      BY <2>5, <3>1 DEF Unspent, Cut
    <3>3. SpendingIn(Cut(E, h), o) = 0
      BY <3>2, NeverSpent
    <3> QED
      BY <2>2, <2>5, <3>3
  <2> QED
    BY <2>4, <2>5
<1> QED
  BY <1>1, <1>2

Unstamp(r, h) == IF r.spent > h THEN [r EXCEPT !.spent = 0] ELSE r

(* The two statements of a rollback on a table of outputs, row by row.     *)
LEMMA UnspendRows == ASSUME NEW rows, NEW h PROVE Unspend(rows, h) = {Unstamp(r, h) : r \in RowsUpTo(rows, h)}
BY DEF Unspend, Unstamp

(* A rollback takes the tables back to those of the chain up to its        *)
(* height.                                                                 *)
LEMMA TablesBack ==
  ASSUME NEW E \in SUBSET Entry, OneSpender(E), NEW h \in Nat, \A y \in E : y.h # 0,
         NEW d, Tables(d, E), NEW e, e = RollbackTo(d, h)
  PROVE  Tables(e, Cut(E, h)) /\ e.scanned = h /\ e.blocks = [k \in {k \in DOMAIN d.blocks : k <= h} |-> d.blocks[k]]
<1>1. PICK F : F = Cut(E, h)
  OBVIOUS
<1>2. /\ IsDb(e) /\ e.scanned = h /\ e.blocks = [k \in {k \in DOMAIN d.blocks : k <= h} |-> d.blocks[k]]
      /\ e.utxos = Unspend(d.utxos, h)
      /\ e.htlcs = {IF r.spent = 0 THEN [r EXCEPT !.key = FALSE] ELSE r : r \in Unspend(d.htlcs, h)}
      /\ e.offers = {IF r.spent = 0 THEN [r EXCEPT !.exec = Nil] ELSE r : r \in Unspend(d.offers, h)}
  BY DEF RollbackTo, IsDb, DbFields
<1>3. ASSUME NEW o \in Outpoints
      PROVE  /\ SpendingIn(F, o) = IF SpendingIn(E, o) > h THEN 0 ELSE SpendingIn(E, o)
             /\ SpendingIn(F, o) # 0 => SpenderIn(F, o) = SpenderIn(E, o)
  BY <1>1, SpendingCut
<1>4. \A z \in E : /\ <<z.id, "token">> \in Outpoints /\ <<z.id, "change">> \in Outpoints
                   /\ <<z.id, "htlc">> \in Outpoints /\ <<z.id, "offer">> \in Outpoints
  BY DEF Entry, Outpoints
<1>5. \A sort : Making(F, sort) = {z \in Making(E, sort) : z.h <= h} /\ Making(E, sort) \subseteq E
  BY <1>1 DEF Making, Cut
<1>6. ASSUME NEW z \in E PROVE TokenRowIn(F, z) = Unstamp(TokenRowIn(E, z), h) /\ TokenRowIn(E, z).height = z.h
  <2>1. PICK o \in Outpoints : o = <<z.id, "token">>
    BY <1>4
  <2>2. SpendingIn(F, o) = IF SpendingIn(E, o) > h THEN 0 ELSE SpendingIn(E, o)
    BY <1>3
  <2> QED
    BY <2>1, <2>2 DEF TokenRowIn, TokenRow, Unstamp
<1>7. ASSUME NEW z \in E PROVE ChangeRowIn(F, z) = Unstamp(ChangeRowIn(E, z), h) /\ ChangeRowIn(E, z).height = z.h
  <2>1. PICK o \in Outpoints : o = <<z.id, "change">>
    BY <1>4
  <2>2. SpendingIn(F, o) = IF SpendingIn(E, o) > h THEN 0 ELSE SpendingIn(E, o)
    BY <1>3
  <2> QED
    BY <2>1, <2>2 DEF ChangeRowIn, TokenRow, Unstamp
<1> DEFINE Hidden(r) == IF r.spent = 0 THEN [r EXCEPT !.key = FALSE] ELSE r
           Unmet(r) == IF r.spent = 0 THEN [r EXCEPT !.exec = Nil] ELSE r
<1>8. ASSUME NEW z \in E PROVE LockRowIn(F, z) = Hidden(Unstamp(LockRowIn(E, z), h)) /\ LockRowIn(E, z).height = z.h
  <2>1. PICK o \in Outpoints : o = <<z.id, "htlc">>
    BY <1>4
  <2>2. SpendingIn(F, o) = IF SpendingIn(E, o) > h THEN 0 ELSE SpendingIn(E, o)
    BY <1>3
  <2>3. PICK u : u = Unstamp(LockRowIn(E, z), h)
    OBVIOUS
  <2>4. u = [out |-> o, height |-> z.h, spent |-> SpendingIn(F, o), key |-> SpendingIn(E, o) # 0 /\ Tx[SpenderIn(E, o)].reveals]
    BY <2>1, <2>2, <2>3 DEF LockRowIn, Unstamp
  <2>5. LockRowIn(E, z).height = z.h
    BY DEF LockRowIn
  <2>6. CASE SpendingIn(F, o) = 0
    <3>1. LockRowIn(F, z) = [out |-> o, height |-> z.h, spent |-> 0, key |-> FALSE]
      BY <2>1, <2>6 DEF LockRowIn
    <3>2. Hidden(u) = [out |-> o, height |-> z.h, spent |-> 0, key |-> FALSE]
      BY <2>4, <2>6
    <3> QED
      BY <2>3, <2>5, <3>1, <3>2
  <2>7. CASE SpendingIn(F, o) # 0
    <3>1. SpendingIn(E, o) # 0 /\ SpenderIn(F, o) = SpenderIn(E, o)
      BY <1>3, <2>2, <2>7
    <3>2. LockRowIn(F, z) = u
      BY <2>1, <2>4, <2>7, <3>1 DEF LockRowIn
    <3>3. Hidden(u) = u
      BY <2>4, <2>7
    <3> QED
      BY <2>3, <2>5, <3>2, <3>3
  <2> QED
    BY <2>6, <2>7
<1>9. ASSUME NEW z \in E PROVE OfferRowIn(F, z) = Unmet(Unstamp(OfferRowIn(E, z), h)) /\ OfferRowIn(E, z).height = z.h
  <2>1. PICK o \in Outpoints : o = <<z.id, "offer">>
    BY <1>4
  <2>2. SpendingIn(F, o) = IF SpendingIn(E, o) > h THEN 0 ELSE SpendingIn(E, o)
    BY <1>3
  <2>3. PICK u : u = Unstamp(OfferRowIn(E, z), h)
    OBVIOUS
  <2>4. PICK met : met = OfferRowIn(E, z).exec
    OBVIOUS
  <2>5. u = [out |-> o, height |-> z.h, spent |-> SpendingIn(F, o), exec |-> met]
    BY <2>1, <2>2, <2>3, <2>4 DEF OfferRowIn, Unstamp
  <2>6. OfferRowIn(E, z).height = z.h
    BY DEF OfferRowIn
  <2>7. CASE SpendingIn(F, o) = 0
    <3>1. OfferRowIn(F, z) = [out |-> o, height |-> z.h, spent |-> 0, exec |-> Nil]
      BY <2>1, <2>7 DEF OfferRowIn
    <3>2. Unmet(u) = [out |-> o, height |-> z.h, spent |-> 0, exec |-> Nil]
      BY <2>5, <2>7
    <3> QED
      BY <2>3, <2>6, <3>1, <3>2
  <2>8. CASE SpendingIn(F, o) # 0
    <3>1. SpendingIn(E, o) # 0 /\ SpenderIn(F, o) = SpenderIn(E, o)
      BY <1>3, <2>2, <2>8
    <3>2. OfferRowIn(F, z) = u
      BY <2>1, <2>4, <2>5, <2>8, <3>1 DEF OfferRowIn
    <3>3. Unmet(u) = u
      BY <2>5, <2>8
    <3> QED
      BY <2>3, <2>6, <3>2, <3>3
  <2> QED
    BY <2>7, <2>8
<1>10. /\ TokenRows(E) = {TokenRowIn(E, x) : x \in Making(E, "token")} /\ TokenRows(F) = {TokenRowIn(F, x) : x \in Making(F, "token")}
       /\ ChangeRows(E) = {ChangeRowIn(E, x) : x \in Making(E, "change")} /\ ChangeRows(F) = {ChangeRowIn(F, x) : x \in Making(F, "change")}
       /\ LockRows(E) = {LockRowIn(E, x) : x \in Making(E, "htlc")} /\ LockRows(F) = {LockRowIn(F, x) : x \in Making(F, "htlc")}
       /\ OfferRows(E) = {OfferRowIn(E, x) : x \in Making(E, "offer")} /\ OfferRows(F) = {OfferRowIn(F, x) : x \in Making(F, "offer")}
  BY RowByRow
<1>11. Unspend(TokenRows(E), h) = TokenRows(F)
  <2>1. RowsUpTo(TokenRows(E), h) = {TokenRowIn(E, x) : x \in Making(F, "token")}
    BY <1>5, <1>6, <1>10 DEF RowsUpTo
  <2> QED
    BY <1>5, <1>6, <1>10, <2>1, UnspendRows
<1>12. Unspend(ChangeRows(E), h) = ChangeRows(F)
  <2>1. RowsUpTo(ChangeRows(E), h) = {ChangeRowIn(E, x) : x \in Making(F, "change")}
    BY <1>5, <1>7, <1>10 DEF RowsUpTo
  <2> QED
    BY <1>5, <1>7, <1>10, <2>1, UnspendRows
<1>13. e.utxos = HoldingsOf(F)
  <2>1. Unspend(TokenRows(E) \cup ChangeRows(E), h) = Unspend(TokenRows(E), h) \cup Unspend(ChangeRows(E), h)
    BY DEF Unspend, RowsUpTo
  <2> QED
    BY <1>2, <1>11, <1>12, <2>1 DEF Tables, HoldingsOf
<1> HIDE DEF Hidden, Unmet
<1>14. e.htlcs = LockRows(F)
  <2>1. RowsUpTo(LockRows(E), h) = {LockRowIn(E, x) : x \in Making(F, "htlc")}
    BY <1>5, <1>8, <1>10 DEF RowsUpTo
  <2>2. e.htlcs = {Hidden(r) : r \in Unspend(d.htlcs, h)} /\ d.htlcs = LockRows(E)
    BY <1>2 DEF Hidden, Tables
  <2>3. Unspend(LockRows(E), h) = {Unstamp(LockRowIn(E, x), h) : x \in Making(F, "htlc")}
    BY <2>1, UnspendRows
  <2>4. {Hidden(r) : r \in Unspend(LockRows(E), h)} = {Hidden(Unstamp(LockRowIn(E, x), h)) : x \in Making(F, "htlc")}
    BY <2>3
  <2>5. \A x \in Making(F, "htlc") : Hidden(Unstamp(LockRowIn(E, x), h)) = LockRowIn(F, x)
    BY <1>5, <1>8
  <2>6. LockRows(F) = {LockRowIn(F, x) : x \in Making(F, "htlc")}
    BY <1>10
  <2> QED
    BY <2>2, <2>4, <2>5, <2>6
<1>15. e.offers = OfferRows(F)
  <2>1. RowsUpTo(OfferRows(E), h) = {OfferRowIn(E, x) : x \in Making(F, "offer")}
    BY <1>5, <1>9, <1>10 DEF RowsUpTo
  <2>2. e.offers = {Unmet(r) : r \in Unspend(d.offers, h)} /\ d.offers = OfferRows(E)
    BY <1>2 DEF Unmet, Tables
  <2>3. Unspend(OfferRows(E), h) = {Unstamp(OfferRowIn(E, x), h) : x \in Making(F, "offer")}
    BY <2>1, UnspendRows
  <2>4. {Unmet(r) : r \in Unspend(OfferRows(E), h)} = {Unmet(Unstamp(OfferRowIn(E, x), h)) : x \in Making(F, "offer")}
    BY <2>3
  <2>5. \A x \in Making(F, "offer") : Unmet(Unstamp(OfferRowIn(E, x), h)) = OfferRowIn(F, x)
    BY <1>5, <1>9
  <2>6. OfferRows(F) = {OfferRowIn(F, x) : x \in Making(F, "offer")}
    BY <1>10
  <2> QED
    BY <2>2, <2>4, <2>5, <2>6
<1> QED
  BY <1>1, <1>2, <1>13, <1>14, <1>15 DEF Tables

(* Beginnings of chains.                                                   *)
Begins(q, p, h) ==
  /\ q \in Blocked /\ Len(q) = h /\ EntriesTo(q, h) = EntriesTo(p, h)
  /\ \A i \in 0 .. h : SubSeq(q, 1, i) = SubSeq(p, 1, i)
  /\ IsChain(p) => IsChain(q)

(* The beginning of a chain is one, with its own beginnings.               *)
LEMMA Beginning == ASSUME NEW p \in Blocked, NEW h \in 0 .. Len(p) PROVE Begins(SubSeq(p, 1, h), p, h)
<1>0. PICK q : q = SubSeq(p, 1, h)
  OBVIOUS
<1>1. Len(p) \in Nat /\ h \in Nat /\ h <= Len(p) /\ \A i \in 1 .. Len(p) : p[i] \in Seq(DOMAIN Tx)
  BY DEF Blocked
<1>2. \A i \in 1 .. h : p[i] \in Seq(DOMAIN Tx)
  BY <1>1
<1>3. q \in Seq(Seq(DOMAIN Tx)) /\ Len(q) = (IF 1 <= h THEN h - 1 + 1 ELSE 0) /\ \A i \in 1 .. h - 1 + 1 : q[i] = p[1 + i - 1]
  BY <1>0, <1>1, <1>2, SubSeqProperties
<1>4. q \in Blocked /\ Len(q) = h /\ \A i \in 1 .. h : q[i] = p[i]
  BY <1>1, <1>3 DEF Blocked
<1>5. EntriesTo(q, h) = EntriesTo(p, h)
  BY <1>4 DEF EntriesTo
<1>6. ASSUME NEW i \in 0 .. h PROVE SubSeq(q, 1, i) = SubSeq(p, 1, i)
  <2>1. i \in Nat /\ i <= h
    BY <1>1
  <2>2. \A j \in 1 .. i : j \in 1 .. h /\ q[j] \in Seq(DOMAIN Tx) /\ p[j] \in Seq(DOMAIN Tx) /\ q[j] = p[j]
    BY <1>2, <1>4, <2>1
  <2>3. PICK u : u = SubSeq(q, 1, i)
    OBVIOUS
  <2>4. PICK v : v = SubSeq(p, 1, i)
    OBVIOUS
  <2>5. u \in Seq(Seq(DOMAIN Tx)) /\ Len(u) = (IF 1 <= i THEN i - 1 + 1 ELSE 0) /\ \A j \in 1 .. i - 1 + 1 : u[j] = q[1 + j - 1]
    BY <2>1, <2>2, <2>3, SubSeqProperties
  <2>6. v \in Seq(Seq(DOMAIN Tx)) /\ Len(v) = (IF 1 <= i THEN i - 1 + 1 ELSE 0) /\ \A j \in 1 .. i - 1 + 1 : v[j] = p[1 + j - 1]
    BY <2>1, <2>2, <2>4, SubSeqProperties
  <2>7. Len(u) = i /\ Len(v) = i /\ \A j \in 1 .. i : u[j] = v[j]
    BY <2>1, <2>2, <2>5, <2>6
  <2>8. u = v
    BY <2>5, <2>6, <2>7, SeqEqual
  <2> QED
    BY <2>3, <2>4, <2>8
<1>7. ASSUME IsChain(p) PROVE IsChain(q)
  <2>1. PICK c \in Chains : Len(p) <= Len(c) /\ \A g \in 1 .. Len(p) : p[g] = c[g]
    BY <1>7 DEF IsChain
  <2>2. Len(c) \in Nat
    BY ChainsLegal DEF AreLegal, Blocked
  <2>3. Len(q) <= Len(c) /\ \A g \in 1 .. Len(q) : q[g] = c[g]
    <3>1. \A g \in 1 .. h : g \in 1 .. Len(p)
      BY <1>1
    <3> QED
      BY <1>1, <1>4, <2>1, <2>2, <3>1
  <2> QED
    BY <1>4, <2>3 DEF IsChain
<1> QED
  BY <1>0, <1>4, <1>5, <1>6, <1>7 DEF Begins

LEMMA LegalIsChain == ASSUME NEW c \in Chains PROVE IsChain(c) /\ Len(c) \in Nat
<1>1. c \in Blocked
  BY ChainsLegal DEF AreLegal
<1> QED
  BY <1>1 DEF IsChain, Blocked

LEMMA NoneBeforeStart == ASSUME NEW p PROVE From(EntriesTo(p, Start - 1)) = {}
<1>1. Start \in Nat
  BY TokensAssumption
<1>2. \A y \in EntriesTo(p, Start - 1) : y.h \in 1 .. Start - 1
  BY DEF EntriesTo
<1> QED
  BY <1>1, <1>2 DEF From

(* The entries up to a height are those of the chain cut there.            *)
LEMMA EntriesCut ==
  ASSUME NEW p \in Blocked, NEW h \in 0 .. Len(p)
  PROVE  Cut(From(EntriesTo(p, Len(p))), h) = From(EntriesTo(p, h))
<1>1. Len(p) \in Nat /\ h \in Nat
  BY DEF Blocked
<1>2. \A g : g \in 1 .. h <=> g \in 1 .. Len(p) /\ g <= h
  BY <1>1
<1>3. \A y : y \in EntriesTo(p, h) <=> y \in EntriesTo(p, Len(p)) /\ y.h <= h
  BY <1>2 DEF EntriesTo
<1> QED
  BY <1>3 DEF Cut, From
-----------------------------------------------------------------------------
(* A database in order: one branch of hashes, and the tables of the chain  *)
(* that its last hash names.                                               *)
ReadOf(d) == IF d.scanned \in DOMAIN d.blocks THEN d.blocks[d.scanned] ELSE <<>>
InOrder(d) ==
  /\ IsDb(d) /\ d.scanned \in Int /\ d.scanned >= Start - 1 /\ DOMAIN d.blocks \subseteq Start .. d.scanned
  /\ d.scanned >= Start =>
       /\ d.scanned \in DOMAIN d.blocks /\ IsChain(ReadOf(d)) /\ Len(ReadOf(d)) = d.scanned
       /\ \A h \in DOMAIN d.blocks : d.blocks[h] = SubSeq(ReadOf(d), 1, h) /\ h .. d.scanned \subseteq DOMAIN d.blocks
  /\ Tables(d, From(EntriesTo(ReadOf(d), Len(ReadOf(d)))))

(* A database in order is what its readers are promised.                   *)
LEMMA OrderMeans == ASSUME InOrder(db) PROVE OutputsFromChain
<1>1. Read = ReadOf(db)
  BY DEF Read, ReadOf
<1>2. Read \in Blocked
  <2>1. CASE db.scanned >= Start
    BY <1>1, <2>1 DEF InOrder, IsChain
  <2>2. CASE ~(db.scanned >= Start)
    <3>1. db.scanned \notin DOMAIN db.blocks
      BY <2>2, TokensAssumption DEF InOrder
    <3> QED
      BY <3>1 DEF Read, Blocked
  <2> QED
    BY <2>1, <2>2
<1>3. Indexed = From(EntriesTo(Read, Len(Read)))
  <2>1. ToSet(Mined(Read)) = EntriesTo(Read, Len(Read))
    BY <1>2, MinedEntries
  <2> QED
    BY <2>1 DEF Indexed, From
<1>4. Tables(db, Indexed)
  BY <1>1, <1>3 DEF InOrder
<1>5. Linked
  BY <1>1 DEF InOrder, Linked
<1> QED
  BY <1>4, <1>5 DEF OutputsFromChain, HoldingsFromChain, LocksFromChain, Tables, HoldingsOf

(* applyBlock keeps the order, for a block that the check of line 717      *)
(* lets through.                                                           *)
LEMMA OrderApplied ==
  ASSUME NEW d, InOrder(d), NEW b, IsChain(b), Len(b) = d.scanned + 1,
         ~(Len(b) > Start /\ Len(b) - 1 \in DOMAIN d.blocks /\ d.blocks[Len(b) - 1] # Front(b))
  PROVE  InOrder(ApplyBlock(d, b))
<1>1. PICK h : h = Len(b)
  OBVIOUS
<1>2. /\ b \in Blocked /\ Start \in Nat \ {0} /\ d.scanned \in Int /\ d.scanned = h - 1 /\ h \in Nat /\ h >= Start
      /\ h - 1 \in 0 .. Len(b) /\ h \in 0 .. Len(b) /\ h >= 1 /\ Keep \in Nat
  <2>1. Start \in Nat \ {0} /\ Keep \in Nat
    BY TokensAssumption
  <2>2. b \in Blocked /\ Len(b) \in Nat
    BY DEF IsChain, Blocked
  <2>3. d.scanned \in Int /\ d.scanned >= Start - 1
    BY DEF InOrder
  <2> QED
    BY <1>1, <2>1, <2>2, <2>3
<1>3. PICK r : r = ReadOf(d)
  OBVIOUS
<1>4. h > Start => /\ h - 1 \in DOMAIN d.blocks /\ r = d.blocks[h - 1] /\ r = SubSeq(b, 1, h - 1)
                   /\ \A k \in DOMAIN d.blocks : d.blocks[k] = SubSeq(r, 1, k) /\ k .. h - 1 \subseteq DOMAIN d.blocks
  <2> SUFFICES ASSUME h > Start
               PROVE  /\ h - 1 \in DOMAIN d.blocks /\ r = d.blocks[h - 1] /\ r = SubSeq(b, 1, h - 1)
                      /\ \A k \in DOMAIN d.blocks : d.blocks[k] = SubSeq(r, 1, k) /\ k .. h - 1 \subseteq DOMAIN d.blocks
    OBVIOUS
  <2>1. d.scanned >= Start
    BY <1>2
  <2>2. h - 1 \in DOMAIN d.blocks /\ \A k \in DOMAIN d.blocks : d.blocks[k] = SubSeq(r, 1, k) /\ k .. h - 1 \subseteq DOMAIN d.blocks
    BY <1>2, <1>3, <2>1 DEF InOrder
  <2>3. r = d.blocks[h - 1]
    BY <1>2, <1>3, <2>2 DEF ReadOf
  <2>4. d.blocks[h - 1] = Front(b)
    BY <1>1, <2>2
  <2> QED
    BY <1>1, <2>2, <2>3, <2>4 DEF Front
<1>5. h = Start => DOMAIN d.blocks = {} /\ r = <<>>
  BY <1>2, <1>3 DEF InOrder, ReadOf
<1>6. Tables(d, From(EntriesTo(b, h - 1)))
  <2>1. CASE h > Start
    <3>1. Len(r) = h - 1 /\ EntriesTo(r, h - 1) = EntriesTo(b, h - 1)
      <4>1. Begins(r, b, h - 1)
        BY <1>2, <1>4, <2>1, Beginning
      <4> QED
        BY <4>1 DEF Begins
    <3> QED
      BY <1>3, <3>1 DEF InOrder
  <2>2. CASE h = Start
    <3>1. From(EntriesTo(b, h - 1)) = {}
      BY <2>2, NoneBeforeStart
    <3>2. EntriesTo(r, Len(r)) = {}
      BY <1>5, <2>2 DEF EntriesTo
    <3>3. From(EntriesTo(r, Len(r))) = {}
      BY <3>2 DEF From
    <3> QED
      BY <1>3, <3>1, <3>3 DEF InOrder
  <2> QED
    BY <1>2, <2>1, <2>2
<1>7. PICK e : e = ApplyBlock(d, b)
  OBVIOUS
<1>8. /\ Tables(e, From(EntriesTo(b, h))) /\ e.scanned = h
      /\ e.blocks = [k \in {k \in DOMAIN d.blocks : k >= h - Keep} \cup {h} |-> IF k = h THEN b ELSE d.blocks[k]]
  <2>1. Len(b) >= Start /\ Tables(d, From(EntriesTo(b, Len(b) - 1)))
    BY <1>1, <1>2, <1>6
  <2>2. /\ Tables(ApplyBlock(d, b), From(EntriesTo(b, Len(b))))
        /\ ApplyBlock(d, b).scanned = Len(b)
        /\ ApplyBlock(d, b).blocks = [k \in {k \in DOMAIN d.blocks : k >= Len(b) - Keep} \cup {Len(b)} |->
                                        IF k = Len(b) THEN b ELSE d.blocks[k]]
    BY <2>1, TablesBlock
  <2> QED
    BY <1>1, <1>7, <2>2
<1>9. ReadOf(e) = b
  BY <1>8 DEF ReadOf
<1>10. IsDb(e)
  BY <1>8 DEF Tables
<1>11. DOMAIN d.blocks \subseteq Start .. h - 1
  BY <1>2 DEF InOrder
<1>12. e.scanned \in Int /\ e.scanned >= Start - 1 /\ DOMAIN e.blocks \subseteq Start .. e.scanned /\ e.scanned \in DOMAIN e.blocks
  BY <1>2, <1>8, <1>11
<1>13. ASSUME NEW k \in DOMAIN e.blocks PROVE e.blocks[k] = SubSeq(b, 1, k) /\ k .. h \subseteq DOMAIN e.blocks
  <2>1. CASE k = h
    <3>1. SubSeq(b, 1, h) = b
      BY <1>1, <1>2, SubSeqFull DEF Blocked
    <3>2. k .. h = {h}
      BY <1>2, <2>1
    <3> QED
      BY <1>8, <2>1, <3>1, <3>2
  <2>2. CASE k # h
    <3>1. k \in DOMAIN d.blocks /\ k >= h - Keep /\ e.blocks[k] = d.blocks[k] /\ k \in Start .. h - 1
      BY <1>8, <1>11, <2>2
    <3>2. h > Start /\ k \in 0 .. h - 1
      BY <1>2, <3>1
    <3>3. d.blocks[k] = SubSeq(r, 1, k) /\ k .. h - 1 \subseteq DOMAIN d.blocks
      BY <1>4, <3>1, <3>2
    <3>4. SubSeq(r, 1, k) = SubSeq(b, 1, k)
      BY <1>2, <1>4, <3>2, Beginning DEF Begins
    <3>5. ASSUME NEW i \in k .. h PROVE i \in DOMAIN e.blocks
      <4>1. k \in Int /\ i \in Int /\ i >= h - Keep /\ (i = h \/ i \in k .. h - 1)
        BY <1>2, <3>1
      <4> QED
        BY <1>8, <3>3, <4>1
    <3> QED
      BY <3>1, <3>3, <3>4, <3>5
  <2> QED
    BY <2>1, <2>2
<1> QED
  BY <1>1, <1>7, <1>8, <1>9, <1>10, <1>12, <1>13 DEF InOrder

(* So does rollbackTo, at a height whose hash is kept or below START.      *)
LEMMA OrderBack ==
  ASSUME NEW d, InOrder(d), NEW h, h \in DOMAIN d.blocks \/ h = Start - 1
  PROVE  InOrder(RollbackTo(d, h))
<1>1. Start \in Nat \ {0}
  BY TokensAssumption
<1>2. PICK p : p = ReadOf(d)
  OBVIOUS
<1>3. p \in Blocked /\ Len(p) \in Nat /\ OneSpender(EntriesTo(p, Len(p)))
  <2>1. CASE d.scanned >= Start
    <3>1. IsChain(p)
      BY <1>2, <2>1 DEF InOrder
    <3> QED
      BY <3>1, ChainHasOneSpender DEF IsChain, Blocked
  <2>2. CASE ~(d.scanned >= Start)
    <3>1. d.scanned \notin DOMAIN d.blocks
      BY <1>1, <2>2 DEF InOrder
    <3>2. p = <<>>
      BY <1>2, <3>1 DEF ReadOf
    <3>3. EntriesTo(p, Len(p)) = {}
      BY <3>2 DEF EntriesTo
    <3> QED
      BY <3>2, <3>3 DEF OneSpender, Blocked
  <2> QED
    BY <2>1, <2>2
<1>4. h \in Nat /\ h <= d.scanned /\ d.scanned \in Int
  BY <1>1 DEF InOrder
<1>5. PICK E : E = From(EntriesTo(p, Len(p)))
  OBVIOUS
<1>6. E \in SUBSET Entry /\ OneSpender(E) /\ \A y \in E : y.h # 0
  <2>1. E \subseteq EntriesTo(p, Len(p)) /\ EntriesTo(p, Len(p)) \subseteq Entry
    BY <1>5 DEF From, EntriesTo
  <2>2. \A y \in E : y.h >= Start /\ y.h \in Nat
    BY <1>5, <2>1 DEF From, Entry
  <2> QED
    BY <1>1, <1>3, <2>1, <2>2 DEF OneSpender
<1>7. PICK e : e = RollbackTo(d, h)
  OBVIOUS
<1>8. /\ Tables(e, Cut(E, h)) /\ e.scanned = h /\ e.blocks = [k \in {k \in DOMAIN d.blocks : k <= h} |-> d.blocks[k]]
  <2>1. Tables(d, E)
    BY <1>2, <1>5 DEF InOrder
  <2> QED
    BY <1>4, <1>6, <1>7, <2>1, TablesBack
<1>9. IsDb(e) /\ e.scanned \in Int /\ e.scanned >= Start - 1 /\ DOMAIN e.blocks \subseteq Start .. e.scanned
  <2>1. DOMAIN d.blocks \subseteq Start .. d.scanned
    BY DEF InOrder
  <2>2. h >= Start - 1
    BY <1>1, <2>1, <1>4
  <2> QED
    BY <1>1, <1>4, <1>8, <2>1, <2>2 DEF Tables
<1>10. CASE h \in DOMAIN d.blocks
  <2>1. h >= Start /\ d.scanned >= Start
    BY <1>1, <1>4, <1>10 DEF InOrder
  <2>2. /\ IsChain(p) /\ Len(p) = d.scanned
        /\ \A k \in DOMAIN d.blocks : d.blocks[k] = SubSeq(p, 1, k) /\ k .. d.scanned \subseteq DOMAIN d.blocks
    BY <1>2, <2>1 DEF InOrder
  <2>3. PICK q : q = SubSeq(p, 1, h)
    OBVIOUS
  <2>4. h \in 0 .. Len(p)
    BY <1>4, <2>2
  <2>5. /\ q \in Blocked /\ Len(q) = h /\ EntriesTo(q, h) = EntriesTo(p, h)
        /\ \A i \in 0 .. h : SubSeq(q, 1, i) = SubSeq(p, 1, i)
        /\ IsChain(q)
    <3>1. IsChain(p) /\ p \in Blocked
      BY <1>3, <2>2
    <3>2. Begins(q, p, h)
      BY <2>3, <2>4, <3>1, Beginning
    <3> QED
      BY <3>1, <3>2 DEF Begins
  <2>6. ReadOf(e) = q /\ h \in DOMAIN e.blocks
    BY <1>4, <1>8, <1>10, <2>2, <2>3 DEF ReadOf
  <2>7. Tables(e, From(EntriesTo(q, Len(q))))
    BY <1>3, <1>5, <1>8, <2>4, <2>5, EntriesCut
  <2>8. ASSUME NEW k \in DOMAIN e.blocks PROVE e.blocks[k] = SubSeq(q, 1, k) /\ k .. h \subseteq DOMAIN e.blocks
    <3>1. k \in DOMAIN d.blocks /\ k <= h /\ e.blocks[k] = d.blocks[k]
      BY <1>8
    <3>2. k \in Start .. d.scanned
      BY <3>1 DEF InOrder
    <3>3. k \in 0 .. h /\ k .. h \subseteq k .. d.scanned /\ \A i \in k .. h : i <= h
      BY <1>1, <1>4, <3>1, <3>2
    <3> QED
      BY <1>8, <2>2, <2>5, <3>1, <3>3
  <2> QED
    BY <1>7, <1>8, <1>9, <2>5, <2>6, <2>7, <2>8 DEF InOrder
<1>11. CASE h \notin DOMAIN d.blocks
  <2>1. h = Start - 1 /\ ~(e.scanned >= Start) /\ e.scanned \notin DOMAIN e.blocks
    BY <1>1, <1>8, <1>11
  <2>2. ReadOf(e) = <<>>
    BY <2>1 DEF ReadOf
  <2>3. EntriesTo(ReadOf(e), Len(ReadOf(e))) = {}
    BY <2>2 DEF EntriesTo
  <2>4. Cut(E, h) = {} /\ From({}) = {}
    <3>1. \A y \in E : y.h \in Nat /\ y.h >= Start
      BY <1>5, <1>6 DEF From, Entry
    <3>2. \A y \in E : ~(y.h <= h)
      BY <1>1, <2>1, <3>1
    <3> QED
      BY <3>2 DEF Cut, From
  <2>5. Tables(e, From(EntriesTo(ReadOf(e), Len(ReadOf(e)))))
    BY <1>8, <2>3, <2>4
  <2> QED
    BY <1>7, <1>9, <2>1, <2>5 DEF InOrder
<1> QED
  BY <1>10, <1>11

HasBase(p) == \E b \in Bases : IsPrefix(b, p)

(* Every chain of the node stands on a base.                               *)
LEMMA ChainsHaveBases == ASSUME NEW c \in Chains PROVE HasBase(c)
<1> DEFINE Bad == {n \in 0 .. MaxNew : ~\A d \in ChainsOf[n] : HasBase(d)}
<1>1. Bad = {}
  <2> SUFFICES ASSUME Bad # {} PROVE FALSE
    OBVIOUS
  <2>0. Bad \in SUBSET Nat
    BY ChainAssumption
  <2>1. PICK n \in Bad : \A m \in Bad : n <= m
    BY <2>0, LeastMember
  <2>2. MaxNew \in Nat /\ n \in 0 .. MaxNew
    BY <2>1, ChainAssumption
  <2>3. PICK d \in ChainsOf[n] : ~HasBase(d)
    BY <2>1
  <2>4. CASE n = 0
    <3>1. d \in Bases
      BY <2>2, <2>3, <2>4, ChainsGrow
    <3>2. Len(d) <= Len(d)
      BY <3>1, ChainAssumption
    <3> QED
      BY <2>3, <3>1, <3>2 DEF HasBase, IsPrefix
  <2>5. CASE n # 0
    <3>1. n - 1 \in 0 .. MaxNew /\ ~(n <= n - 1)
      BY <2>2, <2>5
    <3>2. ChainsOf[n] = Grown(ChainsOf[n - 1])
      BY <2>2, <2>5, ChainsGrow
    <3>3. PICK a \in ChainsOf[n - 1], nb \in NewBlocks : d = Append(a, nb)
      BY <2>3, <3>2 DEF Grown
    <3>4. HasBase(a) /\ a \in Chains /\ d \in Chains
      BY <2>1, <2>2, <2>3, <3>1, <3>3 DEF Chains
    <3>5. a \in Blocked /\ d \in Blocked
      BY <3>4, ChainsLegal DEF AreLegal
    <3>6. PICK b \in Bases : IsPrefix(b, a)
      BY <3>4 DEF HasBase
    <3>7. Len(a) \in Nat /\ Len(b) \in Nat /\ Len(b) <= Len(a) /\ SubSeq(b, 1, Len(b)) = SubSeq(a, 1, Len(b))
      BY <3>5, <3>6, ChainAssumption DEF Blocked, IsPrefix
    <3>8. d = Append(a, nb) /\ a \in Seq(Seq(DOMAIN Tx)) /\ nb \in Seq(DOMAIN Tx)
      BY <3>3, <3>5, ChainAssumption DEF Blocked
    <3>9. Len(d) = Len(a) + 1
      BY <3>8
    <3>10. SubSeq(d, 1, Len(b)) = SubSeq(a, 1, Len(b))
      BY <3>7, <3>8, AppendedBeginning
    <3>11. IsPrefix(b, d)
      BY <3>7, <3>9, <3>10 DEF IsPrefix
    <3> QED
      BY <2>3, <3>11 DEF HasBase
  <2> QED
    BY <2>4, <2>5
<1> QED
  BY <1>1 DEF Chains

(* A chain that falls back is a beginning of a legal one, on its base.     *)
LEMMA ShrunkIsChain ==
  ASSUME NEW p, IsChain(p), HasBase(p), NEW k, k \in Len(BaseOf(p)) .. Len(p) - 1
  PROVE  IsChain(SubSeq(p, 1, k)) /\ HasBase(SubSeq(p, 1, k))
<1>1. BaseOf(p) \in Bases /\ IsPrefix(BaseOf(p), p)
  BY DEF HasBase, BaseOf
<1>2. PICK b \in Bases : b = BaseOf(p)
  BY <1>1
<1>3. Len(b) \in Nat /\ SubSeq(b, 1, Len(b)) = SubSeq(p, 1, Len(b)) /\ p \in Blocked /\ Len(p) \in Nat
  BY <1>1, <1>2, ChainAssumption DEF IsPrefix, IsChain, Blocked
<1>4. k \in 0 .. Len(p) /\ Len(b) \in 0 .. k /\ k \in Nat
  BY <1>2, <1>3
<1>5. PICK q : q = SubSeq(p, 1, k)
  OBVIOUS
<1>6. Begins(q, p, k)
  BY <1>3, <1>4, <1>5, Beginning
<1>7. IsChain(q) /\ Len(q) = k /\ SubSeq(q, 1, Len(b)) = SubSeq(p, 1, Len(b))
  BY <1>4, <1>6 DEF Begins
<1>8. IsPrefix(b, q)
  BY <1>3, <1>4, <1>7 DEF IsPrefix
<1> QED
  BY <1>5, <1>7, <1>8 DEF HasBase

(* The inductive invariant: the node's chain is legal and stands on a      *)
(* base, the database is in order, the block held is the next of a legal   *)
(* chain, and a search goes no lower than START.                           *)
TokenInv ==
  /\ IsChain(chain) /\ HasBase(chain)
  /\ InOrder(db)
  /\ pc = "fetched" => IsChain(blk) /\ Len(blk) = db.scanned + 1
  /\ search \in [at : Int, low : Int]
  /\ pc = "search" => search.low >= Start

LEMMA ScannedIsInt == ASSUME InOrder(db) PROVE db.scanned \in Int /\ db.scanned + 1 >= Start /\ Start \in Nat \ {0}
BY TokensAssumption DEF InOrder

(* The invariant at the start.                                             *)
LEMMA TokenInvInit == ASSUME TokenInit PROVE TokenInv
<1>1. Start \in Nat \ {0}
  BY TokensAssumption
<1>2. IsChain(chain) /\ HasBase(chain)
  <2>1. 0 \in 0 .. MaxNew
    BY ChainAssumption
  <2>2. chain \in Chains
    BY <2>1, ChainsGrow DEF TokenInit, ChainInit, Chains
  <2> QED
    BY <2>2, LegalIsChain, ChainsHaveBases
<1>3. /\ IsDb(db) /\ db.scanned = Start - 1 /\ db.blocks = <<>>
      /\ db.utxos = {} /\ db.htlcs = {} /\ db.offers = {}
  BY DEF TokenInit, IsDb, DbFields
<1>4. ReadOf(db) = <<>> /\ DOMAIN db.blocks = {}
  BY <1>1, <1>3 DEF ReadOf
<1>5. From(EntriesTo(ReadOf(db), Len(ReadOf(db)))) = {}
  BY <1>4 DEF EntriesTo, From
<1>6. HoldingsOf({}) = {} /\ LockRows({}) = {} /\ OfferRows({}) = {}
  BY DEF HoldingsOf, TokenRows, ChangeRows, LockRows, OfferRows, Making
<1>7. InOrder(db)
  <2>1. Tables(db, From(EntriesTo(ReadOf(db), Len(ReadOf(db)))))
    BY <1>3, <1>5, <1>6 DEF Tables
  <2>2. Start - 1 \in Int /\ Start - 1 >= Start - 1 /\ ~(Start - 1 >= Start)
    BY <1>1
  <2> QED
    BY <1>3, <1>4, <2>1, <2>2 DEF InOrder
<1> QED
  BY <1>2, <1>7 DEF TokenInit, TokenInv, NoSearch

(* findCommonAncestor starts with a lowest height of START or more.        *)
LEMMA SearchStarts ==
  ASSUME NEW h \in Int, SearchFrom(h)
  PROVE  pc' = "search" /\ search' \in [at : Int, low : Int] /\ search'.low >= Start
<1>1. Start \in Int /\ h - Keep \in Int
  BY TokensAssumption
<1>2. PICK S : S = {Start, h - Keep}
  OBVIOUS
<1>3. \E m \in S : \A n \in S : m >= n
  BY <1>1, <1>2
<1>4. Max(S) \in S /\ \A n \in S : Max(S) >= n
  BY <1>3 DEF Max
<1>5. search' = [at |-> h, low |-> Max(S)] /\ pc' = "search"
  BY <1>2 DEF SearchFrom
<1> QED
  BY <1>1, <1>2, <1>4, <1>5

(* Every step keeps the invariant.                                         *)
LEMMA TokenInvNext == ASSUME TokenInv, [TokenNext]_tokenVars PROVE TokenInv'
<1>1. /\ IsChain(chain) /\ HasBase(chain) /\ InOrder(db) /\ search \in [at : Int, low : Int]
      /\ db.scanned \in Int /\ db.scanned + 1 >= Start /\ Start \in Nat \ {0} /\ Len(chain) \in Nat /\ chain \in Blocked
  BY ScannedIsInt DEF TokenInv, IsChain, Blocked
<1>2. CASE Poll
  <2>1. UNCHANGED <<chain, db, blk>> /\ nodeTip' = Len(chain)
    BY <1>2 DEF Poll, NodeStays
  <2>2. CASE db.scanned > nodeTip'
    <3>1. SearchFrom(nodeTip') /\ nodeTip' \in Int
      BY <1>1, <1>2, <2>1, <2>2 DEF Poll
    <3>2. pc' = "search" /\ search' \in [at : Int, low : Int] /\ search'.low >= Start
      BY <3>1, SearchStarts
    <3> QED
      BY <1>1, <2>1, <3>2 DEF TokenInv
  <2>3. CASE ~(db.scanned > nodeTip')
    <3>1. pc' = "loop" /\ search' = search
      BY <1>2, <2>3 DEF Poll
    <3> QED
      BY <1>1, <2>1, <3>1 DEF TokenInv
  <2> QED
    BY <2>2, <2>3
<1>3. CASE FetchBlock
  <2>1. UNCHANGED <<chain, db, search>>
    BY <1>3 DEF FetchBlock, NodeStays
  <2>2. CASE pc' = "poll"
    BY <1>1, <2>1, <2>2 DEF TokenInv
  <2>3. CASE db.scanned + 1 <= Len(chain) /\ pc' = "fetched" /\ blk' = SubSeq(chain, 1, db.scanned + 1)
    <3>1. PICK h \in 0 .. Len(chain) : h = db.scanned + 1
      BY <1>1, <2>3
    <3>2. Begins(SubSeq(chain, 1, h), chain, h)
      BY <1>1, Beginning
    <3>3. IsChain(blk') /\ Len(blk') = db.scanned + 1
      BY <1>1, <2>3, <3>1, <3>2 DEF Begins
    <3> QED
      BY <1>1, <2>1, <2>3, <3>3 DEF TokenInv
  <2> QED
    BY <1>3, <2>2, <2>3 DEF FetchBlock
<1>4. CASE Apply
  <2>1. UNCHANGED chain /\ IsChain(blk) /\ Len(blk) = db.scanned + 1
    BY <1>4 DEF Apply, NodeStays, TokenInv
  <2>2. CASE Leaves(blk)
    <3>1. SearchFrom(Len(blk) - 1) /\ db' = db
      BY <1>4, <2>2 DEF Apply
    <3>2. pc' = "search" /\ search' \in [at : Int, low : Int] /\ search'.low >= Start
      BY <1>1, <2>1, <3>1, SearchStarts
    <3> QED
      BY <1>1, <2>1, <3>1, <3>2 DEF TokenInv
  <2>3. CASE ~Leaves(blk)
    <3>1. db' = ApplyBlock(db, blk) /\ pc' = "applied" /\ search' = search
      BY <1>4, <2>3 DEF Apply
    <3>2. InOrder(ApplyBlock(db, blk))
      <4>1. ~(Len(blk) > Start /\ Len(blk) - 1 \in DOMAIN db.blocks /\ db.blocks[Len(blk) - 1] # Front(blk))
        BY <2>3 DEF Leaves
      <4> QED
        BY <1>1, <2>1, <4>1, OrderApplied
    <3>3. InOrder(db')
      BY <3>1, <3>2
    <3> QED
      BY <1>1, <2>1, <3>1, <3>3 DEF TokenInv
  <2> QED
    BY <2>2, <2>3
<1>5. CASE Recount
  <2>1. UNCHANGED <<chain, db, search>> /\ pc' = "loop"
    BY <1>5 DEF Recount, NodeStays
  <2> QED
    BY <1>1, <2>1 DEF TokenInv
<1>6. CASE Compare
  <2>1. UNCHANGED chain /\ pc = "search" /\ search.low >= Start /\ search.at \in Int /\ search.low \in Int
    BY <1>1, <1>6 DEF Compare, TokenInv
  <2>2. NoSearch \in [at : Int, low : Int]
    BY DEF NoSearch
  <2>3. CASE \E h : (h \in DOMAIN db.blocks \/ h = Start - 1) /\ db' = RollbackTo(db, h) /\ pc' = "loop" /\ search' = NoSearch
    <3>1. PICK h : (h \in DOMAIN db.blocks \/ h = Start - 1) /\ db' = RollbackTo(db, h) /\ pc' = "loop" /\ search' = NoSearch
      BY <2>3
    <3>2. InOrder(RollbackTo(db, h))
      BY <1>1, <3>1, OrderBack
    <3>3. InOrder(db')
      BY <3>1, <3>2
    <3> QED
      BY <1>1, <2>1, <2>2, <3>1, <3>3 DEF TokenInv
  <2>4. CASE search' = [search EXCEPT !.at = @ - 1] /\ UNCHANGED <<db, pc, nodeTip, blk>>
    <3>1. search' \in [at : Int, low : Int] /\ search'.low = search.low
      BY <1>1, <2>4
    <3> QED
      BY <1>1, <2>1, <2>4, <3>1 DEF TokenInv
  <2>5. CASE Throw
    <3>1. db' = db /\ pc' = "poll" /\ search' = NoSearch
      BY <2>5 DEF Throw
    <3> QED
      BY <1>1, <2>1, <2>2, <3>1 DEF TokenInv
  <2>6. CASE search.at < search.low
    <3>1. db' = RollbackTo(db, Start - 1) /\ pc' = "loop" /\ search' = NoSearch
      BY <1>6, <2>1, <2>6 DEF Compare, BeyondWindow
    <3> QED
      BY <2>3, <3>1
  <2>7. CASE ~(search.at < search.low)
    BY <1>6, <2>3, <2>4, <2>5, <2>7 DEF Compare
  <2> QED
    BY <2>6, <2>7
<1>7. CASE RestartIndexer
  <2>1. UNCHANGED <<chain, db>> /\ pc' = "poll" /\ search' = NoSearch
    BY <1>7 DEF RestartIndexer
  <2> QED
    BY <1>1, <2>1 DEF TokenInv, NoSearch
<1>8. CASE ChainMoves
  <2>1. UNCHANGED <<db, pc, blk, search>>
    BY <1>8 DEF ChainMoves
  <2>2. IsChain(chain') /\ HasBase(chain')
    <3>1. CASE Extend \/ Switch
      <4>1. chain' \in Chains
        BY <3>1 DEF Extend, Switch
      <4> QED
        BY <4>1, LegalIsChain, ChainsHaveBases
    <3>2. CASE Shrink
      <4>1. PICK k : k \in Len(BaseOf(chain)) .. Len(chain) - 1 /\ chain' = SubSeq(chain, 1, k)
        BY <3>2 DEF Shrink
      <4>2. IsChain(SubSeq(chain, 1, k)) /\ HasBase(SubSeq(chain, 1, k))
        BY <1>1, <4>1, ShrunkIsChain
      <4> QED
        BY <4>1, <4>2
    <3> QED
      BY <1>8, <3>1, <3>2 DEF ChainMoves
  <2> QED
    BY <1>1, <2>1, <2>2 DEF TokenInv
<1>9. CASE UNCHANGED tokenVars
  BY <1>9 DEF tokenVars, TokenInv
<1> QED
  BY <1>2, <1>3, <1>4, <1>5, <1>6, <1>7, <1>8, <1>9 DEF TokenNext, Sync

(* Lines 2-4 of token-index/scanner.js, "derived purely on-chain": after   *)
(* any reorganisation, restart or half-read block the hashes kept are one  *)
(* branch, and the token outputs, the locks and the offers are those of    *)
(* the one chain the database stands for, however long the chains.         *)
THEOREM OutputsAreTheChains == TokenSpec => []OutputsFromChain
<1>1. TokenInit => TokenInv
  BY TokenInvInit
<1>2. TokenInv /\ [TokenNext]_tokenVars => TokenInv'
  BY TokenInvNext
<1>3. TokenInv => OutputsFromChain
  BY OrderMeans DEF TokenInv
<1> QED
  BY <1>1, <1>2, <1>3, PTL DEF TokenSpec
=============================================================================
