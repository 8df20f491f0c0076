---------------------------- MODULE AddressIndex ----------------------------
(***************************************************************************)
(* The address index, read-api/gbx-indexer.js: a process of its own that   *)
(* polls the node and keeps, in one SQLite database, every output with the *)
(* height it appeared at and the height it was spent at, and the hash of   *)
(* every block it read.  Each block is one transaction.                    *)
(* The blocks that exist are a tree; the node follows a branch of it and   *)
(* leaves it for a longer one.  Heights count from 1 here, from 0 there.   *)
(***************************************************************************)
EXTENDS Naturals, Sequences

CONSTANTS
  Blocks,    \* every block that may ever be mined
  Parent,    \* the block before it; None for the first
  Adds,      \* the outputs with an address that a block creates
  Uses,      \* the outputs it spends
  None

(* The hash of a block names all blocks before it.                         *)
Branch[b \in Blocks] == IF Parent[b] = None THEN <<b>> ELSE Append(Branch[Parent[b]], b)

(* The blocks are a tree: every branch begins with a block without parent. *)
(* The second conjunct repeats the definition, which says nothing where    *)
(* parents never end.                                                      *)
ASSUME TreeAssumption ==
  /\ None \notin Blocks /\ \A b \in Blocks : Parent[b] \in Blocks \cup {None}
  /\ \A b \in Blocks : Branch[b] = IF Parent[b] = None THEN <<b>> ELSE Append(Branch[Parent[b]], b)
  /\ \A b \in Blocks : Branch[b] \in Seq(Blocks) /\ Parent[Branch[b][1]] = None

(* What a chain allows: an output appears once and is spent at most once,  *)
(* after it appeared or in the same block.                                 *)
ASSUME BlocksAreValid ==
  \A b \in Blocks : \A i, j \in DOMAIN Branch[b] :
    /\ i # j => Adds[Branch[b][i]] \cap Adds[Branch[b][j]] = {}
    /\ i # j => Uses[Branch[b][i]] \cap Uses[Branch[b][j]] = {}
    /\ i < j => Uses[Branch[b][i]] \cap Adds[Branch[b][j]] = {}

VARIABLES
  tip,       \* the node's tip
  stored,    \* table blocks: the hash of every height
  utxos,     \* table utxos
  next, target,  \* syncTo's variables; next is 0 between two calls
  held       \* the block it fetched

indexVars == <<stored, utxos, next, target, held>>
vars == <<tip, indexVars>>

Chain == Branch[tip]
Coins == UNION {Adds[b] : b \in Blocks}
Row(c, h) == [coin |-> c, height |-> h, spent |-> 0]
-----------------------------------------------------------------------------
(* A longer branch; one that leaves the present one is a reorganisation.   *)
Extends(b) == Branch[b][1] = Chain[1] /\ Len(Branch[b]) > Len(Chain)
NodeMoves(b) ==
  /\ Extends(b)
  /\ tip' = b
  /\ UNCHANGED indexVars

(* processBlock: INSERT OR REPLACE of what a transaction creates, UPDATE of*)
(* what it spends.                                                         *)
Process(rows, b, h) ==
  LET added == {r \in rows : r.coin \notin Adds[b]} \cup {Row(c, h) : c \in Adds[b]} IN
  {IF r.coin \in Uses[b] THEN [r EXCEPT !.spent = h] ELSE r : r \in added}

(* Mutant: what the undone blocks spent stays spent. *)
RollbackForgetsSpends(rows, h) == {r \in rows : r.height <= h}
(* rollbackTx: spent_height > h becomes NULL, rows above h go.             *)
Rollback(rows, h) ==
  {IF r.spent > h THEN [r EXCEPT !.spent = 0] ELSE r : r \in {q \in rows : q.height <= h}}

(* getblockcount; nothing is done unless the node is ahead.                *)
Count ==
  /\ next = 0 /\ Len(Chain) > Len(stored)
  /\ next' = Len(stored) + 1 /\ target' = Len(Chain)
  /\ UNCHANGED <<tip, stored, utxos, held>>

(* getblockhash of the height, getblock of the hash.                       *)
Fetch ==
  /\ next # 0 /\ held = None
  /\ held' = Chain[next]
  /\ UNCHANGED <<tip, stored, utxos, next, target>>

(* Mutant: the parent is not compared. *)
NeverForked == FALSE
Forked == next > 1 /\ stored[next - 1] # Parent[held]

Undo ==
  /\ held # None /\ Forked
  /\ stored' = SubSeq(stored, 1, next - 2)
  /\ utxos' = Rollback(utxos, next - 2)
  /\ next' = next - 1 /\ held' = None
  /\ UNCHANGED <<tip, target>>

Store ==
  /\ held # None /\ ~Forked
  /\ stored' = Append(stored, held)
  /\ utxos' = Process(utxos, held, next)
  /\ next' = IF next < target THEN next + 1 ELSE 0
  /\ held' = None
  /\ UNCHANGED <<tip, target>>

(* An RPC error ends syncTo, SIGTERM the process: both come back to Count. *)
Restart ==
  /\ next # 0
  /\ next' = 0 /\ held' = None
  /\ UNCHANGED <<tip, stored, utxos, target>>

Init ==
  /\ tip \in {b \in Blocks : Parent[b] = None}
  /\ stored = <<>> /\ utxos = {}
  /\ next = 0 /\ target = 0 /\ held = None
IndexNext == Count \/ Fetch \/ Undo \/ Store \/ Restart
Next == (\E b \in Blocks : NodeMoves(b)) \/ IndexNext
Spec == Init /\ [][Next]_vars
-----------------------------------------------------------------------------
TypeOK ==
  /\ tip \in Blocks /\ stored \in Seq(Blocks) /\ held \in Blocks \cup {None}
  /\ next \in Nat /\ target \in Nat
  /\ utxos \subseteq [coin : Coins, height : Nat, spent : Nat]

(* reorg-safe (gbx-indexer.js:3): the blocks table is one branch, never a  *)
(* mix of two, whichever way the node moved while it was written.          *)
OneBranch == stored # <<>> => stored = Branch[stored[Len(stored)]]

(* The utxos table is what the stored blocks say: an output is there if one*)
(* of them creates it, at its height, and marked spent at the height of the*)
(* block that spends it and otherwise unspent.                             *)
SpentIn(s, c) == {i \in DOMAIN s : c \in Uses[s[i]]}
UtxosMatchBlocks ==
  /\ \A r \in utxos :
       /\ r.height \in DOMAIN stored /\ r.coin \in Adds[stored[r.height]]
       /\ IF r.spent = 0 THEN SpentIn(stored, r.coin) = {} ELSE SpentIn(stored, r.coin) = {r.spent}
  /\ \A i \in DOMAIN stored : \A c \in Adds[stored[i]] : \E r \in utxos : r.coin = c

(* Both tables of the index stand for one branch of the chain (rollbackTx, *)
(* processBlock), whatever the node did between two calls.                 *)
IndexIsABranch == OneBranch /\ UtxosMatchBlocks
=============================================================================
