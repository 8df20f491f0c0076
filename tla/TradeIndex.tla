----------------------------- MODULE TradeIndex -----------------------------
(***************************************************************************)
(* The trade index, read-api/gbx-trade-index.js, beside the address index  *)
(* whose database it reads: one loop that collects the spends of HTLC      *)
(* outputs on the L1 chain, then the Locked, Claimed and Refunded events   *)
(* of the EVM contract.  gbx-trade-read.js joins the two on the hashlock.  *)
(* Every step of the loop is an await of a node or a commit; the address   *)
(* index, the nodes and a restart may come between any two.                *)
(***************************************************************************)
EXTENDS AddressIndex, FiniteSets, FiniteSetsExt

CONSTANTS
  Htlcs,      \* the outputs that are P2WSH HTLCs
  Claims,     \* of what a block spends, what it spends with the preimage
  HashlockOf, \* the hashlock of every HTLC output and every EVM lock
  Locks,      \* lock ids of the EVM contract
  Histories,  \* what may have happened there before the index first runs
  Limit,      \* LIMIT of the query for heights (500 in the code)
  MaxEvm,     \* bound: EVM blocks with events
  MaxFaults   \* bound: answers of an endpoint that is behind, and restarts

Kinds == {"locked", "claimed", "refunded"}
OneEnd(evs) ==   \* the contract ends a lock once
  \A i, j \in DOMAIN evs : \A e \in evs[i], f \in evs[j] :
    e.lock = f.lock /\ "locked" \notin {e.kind, f.kind} => e.kind = f.kind

(* What the chains allow: an HTLC that is spent was created in the branch. *)
ASSUME TradeAssumption ==
  /\ Limit \in Nat \ {0} /\ MaxEvm \in Nat
  /\ \A b \in Blocks : \A c \in Uses[b] \cap Htlcs : \E i \in DOMAIN Branch[b] : c \in Adds[Branch[b][i]]
  /\ \A evs \in Histories : /\ evs \in Seq(SUBSET [kind : Kinds, lock : Locks])
                             /\ Len(evs) \in 1..MaxEvm /\ OneEnd(evs)

VARIABLES
  cursor,     \* meta l1_height
  legs,       \* table gbx_legs by hashlock
  evm,        \* the EVM chain: the events of every block
  mapped, ended,        \* tables usdc_legs with lock_map, and htlc_settled
  lockedTo, settledTo,  \* meta evm_block_... and evm_settled_...
  at,         \* where the loop is
  seenTip, work, more, block, \* syncL1: its tip, the heights left, whether the
              \* query was cut off by LIMIT, the block fetched
  scan,       \* evmLocked or evmSettled: [topic, from, latest, out]
  passed,     \* history: blocks that went by unseen, and why is in the actions
  leapt,      \* history: blocks the cursor leapt over, the address index empty
  blind,      \* history: EVM blocks an endpoint did not have yet when asked
  faults

tradeVars == <<cursor, legs, mapped, ended, lockedTo, settledTo, at, seenTip, work, more, block, scan>>
l1Vars == <<cursor, legs, seenTip, work, more, block>>
evmVars == <<mapped, ended, lockedTo, settledTo, scan>>
tVars == <<vars, tradeVars, evm, passed, leapt, blind, faults>>

Hashlocks == {HashlockOf[x] : x \in Htlcs \cup Locks}
NoLeg == [coin |-> None, height |-> 0, kind |-> "none"]
NoScan == [topic |-> "none", from |-> 0, latest |-> 0, out |-> {}]
Least(a, b) == IF a < b THEN a ELSE b
-----------------------------------------------------------------------------
(* syncL1.                                                                 *)
L1Tip ==
  /\ at = "l1"
  /\ seenTip' = Len(Chain) /\ at' = "query"
  /\ UNCHANGED <<vars, cursor, legs, evmVars, work, more, block, evm, passed, leapt, blind, faults>>

(* htlcSpendHeights: from the database of the address index, lowest first. *)
SpendHeights ==
  {r.spent : r \in {q \in utxos : q.coin \in Htlcs /\ q.spent > cursor /\ q.spent <= seenTip}}
(* Mutant: one height too few, so that the list may be empty. *)
LowestButOne(n, S) == {h \in S : Cardinality({g \in S : g < h}) < n - 1}
Lowest(n, S) == {h \in S : Cardinality({g \in S : g < h}) < n}
Query ==
  /\ at = "query"
  /\ work' = Lowest(Limit, SpendHeights)
  /\ more' = (Cardinality(work') = Limit)
  /\ at' = IF SpendHeights = {} THEN "empty" ELSE "fetch"
  /\ UNCHANGED <<vars, cursor, legs, evmVars, seenTip, block, evm, passed, leapt, blind, faults>>

(* Mutant: the cursor follows the node, not the address index. *)
JumpToTip == seenTip
(* idxTip, read after the query.  An address index without a block answers *)
(* null, and then the cursor takes the node's tip.                         *)
JumpTo == IF stored = <<>> THEN seenTip ELSE Least(seenTip, Len(stored))
Jump ==
  /\ at = "empty"
  /\ cursor' = JumpTo /\ at' = "evm"
  /\ leapt' = IF stored = <<>> THEN leapt \cup {Chain[i] : i \in 1..seenTip} ELSE leapt
  /\ UNCHANGED <<vars, legs, evmVars, seenTip, work, more, block, evm, passed, blind, faults>>

FetchSpends ==
  /\ at = "fetch"
  /\ block' = Chain[Min(work)] /\ at' = "leg"
  /\ UNCHANGED <<vars, cursor, legs, evmVars, seenTip, work, more, evm, passed, leapt, blind, faults>>

(* scanBlock: INSERT OR REPLACE by hashlock.                               *)
SpendsOf(b, k) == {c \in Uses[b] \cap Htlcs : HashlockOf[c] = k}
LegFrom(b, h, k) ==
  LET c == CHOOSE c \in SpendsOf(b, k) : TRUE IN
  [coin |-> c, height |-> h, kind |-> IF c \in Claims[b] THEN "claim" ELSE "refund"]
PutLegs ==
  /\ at = "leg"
  /\ legs' = [k \in Hashlocks |-> IF SpendsOf(block, k) = {} THEN legs[k] ELSE LegFrom(block, Min(work), k)]
  /\ at' = "mark"
  /\ UNCHANGED <<vars, cursor, evmVars, seenTip, work, more, block, evm, passed, leapt, blind, faults>>

MarkAt == Min(work)
Mark ==
  /\ at = "mark"
  /\ cursor' = MarkAt /\ work' = work \ {Min(work)} /\ block' = None
  /\ at' = IF work' # {} THEN "fetch" ELSE IF more THEN "l1" ELSE "evm"
  /\ UNCHANGED <<vars, legs, evmVars, seenTip, more, evm, passed, leapt, blind, faults>>
-----------------------------------------------------------------------------
(* syncEVM for one contract, from the cursor or, without one, from the     *)
(* contract's first block, 1 here.  An endpoint that is behind answers with the  *)
(* blocks it has and no error.                                             *)
Heads == {Len(evm)} \cup (IF faults < MaxFaults THEN {Len(evm) - 1} ELSE {})
Lagged(head) == faults' = IF head < Len(evm) THEN faults + 1 ELSE faults

StartScan(topic, from) ==
  \E head \in Heads :
    /\ scan' = [topic |-> topic, from |-> Max({1, from}), latest |-> head, out |-> {}]
    /\ Lagged(head)
EvmLocked ==
  /\ at = "evm" /\ StartScan("locked", lockedTo) /\ at' = "scan"
  /\ UNCHANGED <<vars, l1Vars, mapped, ended, lockedTo, settledTo, evm, passed, leapt, blind>>
EvmSettled ==
  /\ at = "settled" /\ StartScan("settled", settledTo) /\ at' = "scan"
  /\ UNCHANGED <<vars, l1Vars, mapped, ended, lockedTo, settledTo, evm, passed, leapt, blind>>

(* A window of eth_getLogs: as wide as the endpoint allows, so any width   *)
(* here; the next one starts after it.                                     *)
(* Mutant: the next window leaves out one block. *)
AfterSkipping(to) == to + 2
After(to) == to + 1
Logs(topic, from, to) ==
  {e \in UNION {evm[i] : i \in from..to} : IF topic = "locked" THEN e.kind = "locked" ELSE e.kind # "locked"}
Window ==
  /\ at = "scan" /\ scan.from <= scan.latest
  /\ \E to \in scan.from..scan.latest, head \in Heads :
       /\ scan' = [scan EXCEPT !.from = After(to), !.out = @ \cup Logs(scan.topic, scan.from, Least(to, head))]
       /\ Lagged(head)
       /\ blind' = blind \cup {<<scan.topic, i>> : i \in {j \in scan.from..to : j > head}}
  /\ UNCHANGED <<vars, l1Vars, mapped, ended, lockedTo, settledTo, at, evm, passed, leapt>>

(* A window that fails at its smallest ends this contract's turn; the other*)
(* error paths only shrink the window.                                     *)
ScanFails ==
  /\ at = "scan" /\ scan.from <= scan.latest
  /\ scan' = NoScan /\ at' = "l1"
  /\ UNCHANGED <<vars, l1Vars, mapped, ended, lockedTo, settledTo, evm, passed, leapt, blind, faults>>

(* The rows in one transaction, then the cursor in another.                *)
PutEvents ==
  /\ at = "scan" /\ scan.from > scan.latest
  /\ mapped' = mapped \cup {e.lock : e \in {x \in scan.out : x.kind = "locked"}}
  /\ ended' = [l \in Locks |-> LET es == {e \in scan.out : e.lock = l /\ e.kind # "locked"} IN
                                IF es = {} THEN ended[l] ELSE (CHOOSE e \in es : TRUE).kind]
  /\ at' = "cursor"
  /\ UNCHANGED <<vars, l1Vars, lockedTo, settledTo, scan, evm, passed, leapt, blind, faults>>

PutCursor ==
  /\ at = "cursor"
  /\ IF scan.latest = 0 THEN UNCHANGED <<lockedTo, settledTo>>
     ELSE IF scan.topic = "locked" THEN lockedTo' = scan.latest /\ UNCHANGED settledTo
     ELSE settledTo' = scan.latest /\ UNCHANGED lockedTo
  /\ at' = IF scan.topic = "locked" THEN "settled" ELSE "l1"
  /\ scan' = NoScan
  /\ UNCHANGED <<vars, l1Vars, mapped, ended, evm, passed, leapt, blind, faults>>

Crash ==
  /\ at # "l1" /\ faults < MaxFaults
  /\ at' = "l1" /\ seenTip' = 0 /\ work' = {} /\ more' = FALSE /\ block' = None /\ scan' = NoScan
  /\ faults' = faults + 1
  /\ UNCHANGED <<vars, cursor, legs, mapped, ended, lockedTo, settledTo, evm, passed, leapt, blind>>
-----------------------------------------------------------------------------
(* Around it: the EVM contract, and the L1 node and the address index with *)
(* what they let go by: the blocks of a branch the node turns to at heights*)
(* the address index had passed, and a block it stores between the query   *)
(* and the jump of the cursor.                                             *)
Event(kind, l) == [kind |-> kind, lock |-> l]
Happened(kind, l) == \E i \in DOMAIN evm : Event(kind, l) \in evm[i]
EvmBlock(l) ==
  /\ Len(evm) < MaxEvm
  /\ \E kind \in Kinds :
       /\ IF kind = "locked" THEN ~Happened("locked", l)
          ELSE Happened("locked", l) /\ ~Happened("claimed", l) /\ ~Happened("refunded", l)
       /\ evm' = Append(evm, {Event(kind, l)})
  /\ UNCHANGED <<vars, tradeVars, passed, leapt, blind, faults>>

TurnTo(b) ==
  /\ NodeMoves(b)
  /\ LET read == Max({cursor, Len(stored) + (IF held = None THEN 0 ELSE 1)} \cup work
                      \cup (IF at = "empty" THEN {seenTip} ELSE {})) IN
       passed' = IF Branch[b][Len(Chain)] = tip THEN passed
                 ELSE passed \cup ({Branch[b][i] : i \in 1..read} \ {Chain[i] : i \in DOMAIN Chain})
  /\ UNCHANGED <<tradeVars, evm, leapt, blind, faults>>

AddressIndexSteps ==
  /\ IndexNext
  /\ passed' = IF at = "empty" /\ Len(stored') > Len(stored) THEN passed \cup {held} ELSE passed
  /\ UNCHANGED <<tradeVars, evm, leapt, blind, faults>>

TInit ==
  /\ Init
  /\ cursor = 0 /\ legs = [k \in Hashlocks |-> NoLeg] /\ at = "l1"
  /\ seenTip = 0 /\ work = {} /\ more = FALSE /\ block = None
  /\ evm \in Histories /\ mapped = {} /\ ended = [l \in Locks |-> "none"]
  /\ lockedTo = 0 /\ settledTo = 0 /\ scan = NoScan
  /\ passed = {} /\ leapt = {} /\ blind = {} /\ faults = 0
TradeNext ==
  \/ L1Tip \/ Query \/ Jump \/ FetchSpends \/ PutLegs \/ Mark
  \/ EvmLocked \/ EvmSettled \/ Window \/ PutEvents \/ PutCursor
TNext ==
  \/ TradeNext \/ ScanFails \/ Crash \/ AddressIndexSteps
  \/ (\E b \in Blocks : TurnTo(b)) \/ (\E l \in Locks : EvmBlock(l))

Fairness ==
  /\ WF_tVars(AddressIndexSteps /\ Count)
  /\ SF_tVars(AddressIndexSteps /\ Fetch) /\ SF_tVars(AddressIndexSteps /\ (Undo \/ Store))
  /\ WF_tVars(TradeNext)
TSpec == TInit /\ [][TNext]_tVars /\ Fairness
-----------------------------------------------------------------------------
TradeTypeOK ==
  /\ TypeOK /\ cursor \in Nat /\ passed \cup leapt \subseteq Blocks
  /\ \A k \in Hashlocks : legs[k].coin \in Htlcs \cup {None} /\ legs[k].kind \in {"none", "claim", "refund"}
  /\ work # {} <=> at \in {"fetch", "leg", "mark"}
  /\ (block # None) <=> at \in {"leg", "mark"}
  /\ mapped \subseteq Locks /\ lockedTo <= MaxEvm /\ settledTo <= MaxEvm
  /\ at \in {"l1", "query", "empty", "fetch", "leg", "mark", "evm", "scan", "cursor", "settled"}

(* Every HTLC spend of the node's chain at or below the L1 cursor has its  *)
(* leg, except in the blocks that went by unseen: those of a branch the    *)
(* node turned to below what the address index had read, those stored      *)
(* while the cursor was jumping, and the whole chain up to the tip when    *)
(* the loop found the address index empty (leapt): lines 106-109 say that  *)
(* this last case does not happen, line 156 makes it happen.               *)
SpendsBelowCursorSeen ==
  \A i \in DOMAIN Chain : i <= cursor /\ Chain[i] \notin passed \cup leapt =>
    \A c \in Uses[Chain[i]] \cap Htlcs : legs[HashlockOf[c]] # NoLeg

(* Every event of the contract at or below its cursor is in the tables,    *)
(* however the windows were cut and whatever a restart interrupted, except *)
(* one that an endpoint did not have yet when it was asked.                *)
EventsBelowCursorSeen ==
  \A i \in DOMAIN evm : \A e \in evm[i] :
    /\ e.kind = "locked" /\ i <= lockedTo /\ <<"locked", i>> \notin blind => e.lock \in mapped
    /\ e.kind # "locked" /\ i <= settledTo /\ <<"settled", i>> \notin blind => ended[e.lock] = e.kind

(* In the end both indexes stand at the node's tip.                        *)
IndexesCatchUp == <>[](stored = Chain /\ cursor = Len(Chain))

(* Neither cursor leaves anything behind it unread, for other causes than  *)
(* those the two conjuncts name (gbx-trade-index.js:106-174, 205-283).     *)
CursorsHideNothing == TradeTypeOK /\ SpendsBelowCursorSeen /\ EventsBelowCursorSeen
=============================================================================
