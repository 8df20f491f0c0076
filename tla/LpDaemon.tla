------------------------------ MODULE LpDaemon ------------------------------
(***************************************************************************)
(* lp-box/lp_daemon_main.py: the liquidity provider's swap reactor, on one *)
(* EVM chain.  The daemon is one sequential loop; each cycle (run_once)    *)
(* loads the state file, runs five scans, and saves.  Around it stand the  *)
(* L1 chain with its mempool, the EVM contract of HtlcErc20, the users and *)
(* the clock.                                                              *)
(*                                                                         *)
(* A buy: the user locks USDC until T1 (a time), the LP locks GBX until T2 *)
(* (a height), the user claims the GBX and reveals the preimage, the LP    *)
(* claims the USDC.  A sell is the mirror image: the user locks GBX until  *)
(* a height, the LP locks USDC until a time.                               *)
(*                                                                         *)
(* One tick of now is T2_SPACING_S, the block interval the code assumes.   *)
(***************************************************************************)
EXTENDS Integers, Sequences, FiniteSets, FiniteSetsExt

CONSTANTS
  Buys, Sells,        \* the swaps, named by their hashlocks
  T2MinBlocks,        \* T2_MIN_BLOCKS
  T2MaxBlocks,        \* T2_MAX_BLOCKS
  Requested,          \* the t2_blocks values intents carry
  BuyT1,              \* how long users lock USDC for, in ticks
  SellT1,             \* how long sellers lock GBX for, in blocks: any they like
  SellT2,             \* a sell's t2_evm, in ticks
  RefundGrace,        \* the 120 s of scan_and_claim_gbx, in ticks
  Reserve,            \* coins in the LP's wallet at the start
  BreakerMinGbx,      \* breaker_min_gbx, 0: the rule is off
  GasMayRunOut,       \* whether _chain_solvent may answer no
  MaxLag,             \* assumption: ticks a cycle and the sleep after it take
  MaxSlow,            \* assumption: blocks the chain is behind its interval
  LastStart,          \* bound: users start swaps until then
  LastIntent,         \* bound: they post intents until then
  MaxSwaps,           \* bound: swaps they start
  MaxTime,            \* bound: now stops there
  MaxFaults,          \* bound: calls that act but do not answer
  MaxCrashes          \* bound: restarts of the daemon in the middle of a cycle

Swaps == Buys \cup Sells

ASSUME ConstantsAssumption ==
  /\ Buys \cap Sells = {} /\ IsFiniteSet(Buys) /\ IsFiniteSet(Sells)
  /\ {T2MinBlocks, T2MaxBlocks, SellT2, RefundGrace, Reserve,
      BreakerMinGbx, MaxLag, MaxSlow, LastStart, LastIntent, MaxSwaps,
      MaxTime, MaxFaults, MaxCrashes} \subseteq Nat
  /\ Requested \subseteq Nat /\ BuyT1 \subseteq Nat /\ SellT1 \subseteq Nat

(* What T2_SPACING_S and T2_SAFETY_FRAC are for: the chain may fall behind *)
(* the assumed interval, by no more than the shortest lock the LP makes.   *)
ASSUME PaceAssumption == MaxSlow <= T2MinBlocks

VARIABLES
  now, height,   \* the clock and L1's height
  lag,           \* ticks since the last cycle ended
  usdc,          \* buys: the user's lock on the EVM contract
  gbxLocks,      \* buys: the LP's HTLC outputs on L1, in the order sent
  gbx,           \* sells: the user's HTLC output on L1
  usdcLocks,     \* sells: the LP's locks on the EVM contract
  intents,       \* the hashlocks in intents.json
  disk, mem,     \* the state file, and st, the copy a cycle works on
  pc, todo,      \* the scan that runs, and the swaps it has not visited yet
  probe,         \* what the scan looked up before: in scan_and_claim_usdc the
                 \* swap whose spend it searches, in scan_and_claim_gbx the
                 \* swaps whose lock is among the Claimed events
  faults, crashes,
  excused        \* history: the swaps whose atomicity nobody promises any more

world == <<now, height, lag>>
chains == <<usdc, gbxLocks, gbx, usdcLocks>>
daemon == <<intents, disk, mem, pc, todo, probe>>
vars == <<world, chains, daemon, faults, crashes, excused>>

(* States of an HTLC output: claiming and refunding are in the mempool.    *)
OutputStates == {"unspent", "claiming", "refunding", "claimed", "refunded"}
LockStates == {"locked", "claimed", "refunded"}
Statuses == {"none", "rejected", "gbx_locked", "usdc_locked", "completed",
             "refunded_by_lp", "refunded_on_timelock", "evm_claim_failed", "anomaly"}
Scans == {"idle", "lock_gbx", "claim_usdc", "in_mempool", "via_refund",
          "lock_usdc", "claim_gbx", "refund_gbx"}
Records == [status : Statuses, lock : Nat, unres : 0..3, order : Nat]
States == [swaps : [Swaps -> Records], halt : BOOLEAN]

NoRecord == [status |-> "none", lock |-> 0, unres |-> 0, order |-> 0]

TypeOK ==
  /\ now \in 0..MaxTime /\ height \in 0..MaxTime /\ lag \in 0..MaxLag
  /\ usdc \in [Buys -> [state : LockStates \cup {"none"}, t1 : Nat]]
  /\ gbxLocks \in [Buys -> Seq([state : OutputStates, t2 : Nat])]
  /\ gbx \in [Sells -> [state : OutputStates \cup {"none"}, t1 : Nat]]
  /\ usdcLocks \in [Sells -> Seq([state : LockStates, t2 : Nat])]
  /\ intents \subseteq Swaps
  /\ disk \in States /\ mem \in States
  /\ pc \in Scans /\ todo \subseteq Swaps /\ probe \subseteq Swaps
  /\ faults \in 0..MaxFaults /\ crashes \in 0..MaxCrashes
  /\ excused \subseteq Swaps

Init ==
  /\ now = 0 /\ height = 0 /\ lag = 0
  /\ usdc = [b \in Buys |-> [state |-> "none", t1 |-> 0]]
  /\ gbxLocks = [b \in Buys |-> <<>>]
  /\ gbx = [s \in Sells |-> [state |-> "none", t1 |-> 0]]
  /\ usdcLocks = [s \in Sells |-> <<>>]
  /\ intents = {}
  /\ disk = [swaps |-> [s \in Swaps |-> NoRecord], halt |-> FALSE]
  /\ mem = disk
  /\ pc = "idle" /\ todo = {} /\ probe = {}
  /\ faults = 0 /\ crashes = 0 /\ excused = {}
-----------------------------------------------------------------------------
(* The world: users, blocks and time.                                      *)

(* lp_gateway_main.py, /intent: a user posts the intent of a swap before   *)
(* or after funding it, in good time or not.                               *)
PostIntent(s) ==
  /\ now <= LastIntent /\ s \notin intents
  /\ intents' = intents \cup {s}
  /\ UNCHANGED <<world, chains, disk, mem, pc, todo, probe, faults, crashes, excused>>

(* The swaps users have funded.                                            *)
Started == {b \in Buys : usdc[b].state # "none"} \cup {s \in Sells : gbx[s].state # "none"}

UserLocksUsdc(b) ==
  /\ now <= LastStart /\ Cardinality(Started) < MaxSwaps
  /\ usdc[b].state = "none"
  /\ \E d \in BuyT1 : usdc' = [usdc EXCEPT ![b] = [state |-> "locked", t1 |-> now + d]]
  /\ UNCHANGED <<world, gbxLocks, gbx, usdcLocks, daemon, faults, crashes, excused>>

(* claim branch of the L1 script: no height limit, the preimage is shown.  *)
UserClaimsGbx(b, k) ==
  /\ gbxLocks[b][k].state = "unspent"
  /\ gbxLocks' = [gbxLocks EXCEPT ![b][k].state = "claiming"]
  /\ UNCHANGED <<world, usdc, gbx, usdcLocks, daemon, faults, crashes, excused>>

UserRefundsUsdc(b) ==
  /\ usdc[b].state = "locked"
  /\ now >= usdc[b].t1
  /\ usdc' = [usdc EXCEPT ![b].state = "refunded"]
  /\ UNCHANGED <<world, gbxLocks, gbx, usdcLocks, daemon, faults, crashes, excused>>

UserLocksGbx(s) ==
  /\ now <= LastStart /\ Cardinality(Started) < MaxSwaps
  /\ gbx[s].state = "none"
  /\ \E d \in SellT1 : gbx' = [gbx EXCEPT ![s] = [state |-> "unspent", t1 |-> height + d]]
  /\ UNCHANGED <<world, usdc, gbxLocks, usdcLocks, daemon, faults, crashes, excused>>

UserClaimsUsdc(s, k) ==
  /\ usdcLocks[s][k].state = "locked"
  /\ usdcLocks' = [usdcLocks EXCEPT ![s][k].state = "claimed"]
  /\ UNCHANGED <<world, usdc, gbxLocks, gbx, daemon, faults, crashes, excused>>

UserRefundsGbx(s) ==
  /\ gbx[s].state = "unspent"
  /\ height >= gbx[s].t1
  /\ gbx' = [gbx EXCEPT ![s].state = "refunding"]
  /\ UNCHANGED <<world, usdc, gbxLocks, usdcLocks, daemon, faults, crashes, excused>>

(* A block confirms what the mempool held.                                 *)
Confirmed(state) ==
  CASE state = "claiming" -> "claimed"
    [] state = "refunding" -> "refunded"
    [] OTHER -> state

Block ==
  /\ height' = height + 1
  /\ gbxLocks' = [b \in Buys |-> [k \in DOMAIN gbxLocks[b] |->
                    [gbxLocks[b][k] EXCEPT !.state = Confirmed(@)]]]
  /\ gbx' = [s \in Sells |-> [gbx[s] EXCEPT !.state = Confirmed(@)]]
  /\ UNCHANGED <<usdc, usdcLocks>>

(* Time passes, with a block or, while the chain is not too slow, without; *)
(* never so much that the daemon's cycle would take longer than MaxLag.    *)
Tick ==
  /\ now < MaxTime
  /\ lag < MaxLag
  /\ now' = now + 1
  /\ lag' = lag + 1
  /\ \/ Block
     \/ now' - height <= MaxSlow /\ UNCHANGED <<height, chains>>
  /\ UNCHANGED <<daemon, faults, crashes, excused>>
-----------------------------------------------------------------------------
(* run_once                                                                *)

(* A swap leaves the promise of atomicity by one of three ways.            *)
Excuse(swaps) == excused' = excused \cup swaps

Status(s) == mem.swaps[s].status
WithStatus(status) == {s \in Swaps : mem.swaps[s].status = status}

(* _gbx_lp_balance: the wallet, which HTLC outputs have left.              *)
Balance ==
  Reserve
  + Cardinality({s \in Sells : gbx[s].state \in {"claiming", "claimed"}})
  - MapThenSumSet(LAMBDA b : Len(SelectSeq(gbxLocks[b],
                    LAMBDA o : o.state \notin {"refunding", "refunded"})), Buys)

BreakerActive == BreakerMinGbx > 0 /\ Balance < BreakerMinGbx

(* The locks the daemon made for a swap, and those whose record is not     *)
(* saved: a restart forgets them.                                          *)
Made(s) == IF s \in Buys THEN gbxLocks[s] ELSE usdcLocks[s]
Unsaved == {s \in Swaps : Made(s) # <<>> /\ disk.swaps[s].status \in {"none", "rejected"}}

(* The swaps with a lock that this cycle has not looked at yet.            *)
Unlooked ==
  {b \in Buys : Status(b) = "gbx_locked" /\ (pc \in {"idle", "lock_gbx"} \/ b \in todo)}
  \cup
  {s \in Sells : /\ Status(s) = "usdc_locked"
                 /\ pc \in {"idle", "lock_gbx", "claim_usdc", "lock_usdc"} \/ s \in todo}

(* The next scan starts on what it reads as it starts.                     *)
Enter(scan, swaps) == pc' = scan /\ todo' = swaps /\ probe' = {}

(* The lock a record names.                                                *)
Output(b) == gbxLocks[b][mem.swaps[b].lock]
Lock(s) == usdcLocks[s][mem.swaps[s].lock]

(* run_once up to the first scan: a halted daemon, or one whose breaker is *)
(* active, does nothing more in this cycle.                                *)
StartCycle ==
  /\ pc = "idle"
  /\ mem' = disk
  /\ IF disk.halt \/ BreakerActive
     THEN lag' = 0 /\ Excuse(Unlooked) /\ UNCHANGED <<pc, todo, probe>>
     ELSE /\ lag' = lag
          /\ \/ /\ Enter("lock_gbx", {b \in Buys \cap intents : usdc[b].state # "none"})
                /\ UNCHANGED excused
             \/ \* _chain_solvent: stand aside on this chain
                /\ GasMayRunOut
                /\ Enter("refund_gbx", {b \in Buys : disk.swaps[b].status = "gbx_locked"})
                /\ Excuse(Unlooked)
  /\ UNCHANGED <<now, height, chains, intents, disk, faults, crashes>>

(* Mutant: a scan ends without saving. *)
SaveNothing == UNCHANGED disk

(* save_state, with which every scan ends.                                 *)
SaveState == disk' = mem

(* Mutants: the Locked events instead; the Claimed events up to T2. *)
LockedEvents(swaps) == swaps
ClaimedBeforeT2(swaps) == {s \in swaps : Lock(s).state = "claimed" /\ now < Lock(s).t2}

(* scan_and_claim_gbx reads the Claimed events once, before its first swap. *)
ClaimedEvents(swaps) == {s \in swaps : Lock(s).state = "claimed"}

(* save_state at the end of a scan, then the next one.                     *)
EndScan ==
  /\ todo = {}
  /\ SaveState
  /\ \/ /\ pc = "lock_gbx"
        /\ Enter("claim_usdc", Buys \cap WithStatus("gbx_locked"))
        /\ UNCHANGED lag
     \/ /\ pc = "claim_usdc"
        /\ Enter("lock_usdc", Sells \cap intents)
        /\ UNCHANGED lag
     \/ /\ pc = "lock_usdc"
        /\ pc' = "claim_gbx"
        /\ todo' = WithStatus("usdc_locked")
        /\ probe' = ClaimedEvents(WithStatus("usdc_locked"))
        /\ UNCHANGED lag
     \/ /\ pc = "claim_gbx"
        /\ Enter("refund_gbx", Buys \cap WithStatus("gbx_locked"))
        /\ UNCHANGED lag
     \/ /\ pc = "refund_gbx"
        /\ Enter("idle", {})
        /\ lag' = 0
  /\ UNCHANGED <<now, height, chains, intents, mem, faults, crashes, excused>>

(* A scan is done with a swap and goes on to the next.                     *)
Visited(s) == todo' = todo \ {s} /\ UNCHANGED <<pc, probe>>

(* An exception at a swap: the try of run_once skips the other scans of    *)
(* this chain, the state in memory stays and is saved at the end of the    *)
(* cycle.  The swaps it kept the daemon from looking at are excused.       *)
Raise(s) ==
  /\ Enter("refund_gbx", IF pc = "refund_gbx" THEN {} ELSE Buys \cap WithStatus("gbx_locked"))
  /\ Excuse(Unlooked \ {s})

(* The same when the lock just made for the swap goes without a record.    *)
RaiseUnrecorded(s) ==
  /\ Enter("refund_gbx", Buys \cap WithStatus("gbx_locked"))
  /\ Excuse(Unlooked \cup {s})

Fault == faults < MaxFaults /\ faults' = faults + 1

Record(s, status, lock) ==
  mem' = [mem EXCEPT !.swaps[s] =
            [status |-> status, lock |-> lock, unres |-> 0,
             order |-> Cardinality({r \in Swaps : mem.swaps[r].status # "none"}) + 1]]

(* Mutant: the record is replaced, not updated. *)
SetOnlyStatus(s, status) == mem' = [mem EXCEPT !.swaps[s] = [status |-> status]]

SetStatus(s, status) == mem' = [mem EXCEPT !.swaps[s].status = status]
-----------------------------------------------------------------------------
(* scan_and_lock_gbx, the classic branch                                   *)

(* _t2_from_t1 caps the GBX lock at half of what is left until T1, at the  *)
(* interval the code assumes, and refuses when that is below the minimum.  *)
Allowed(t1) == Min({T2MaxBlocks, (t1 - now) \div 2})

(* Mutants: T1 is not looked at; the request is taken as it is. *)
T2NeverTooClose(t1) == FALSE
T2AsRequested(t1, requested) == Max({T2MinBlocks, requested})

T2TooClose(t1) == t1 <= now \/ Allowed(t1) < T2MinBlocks
T2FromT1(t1, requested) == Max({T2MinBlocks, Min({Allowed(t1), requested})})

LockGbx(b) ==
  /\ pc = "lock_gbx" /\ b \in todo /\ b \in Buys
  /\ \/ \* recorded already, or the price moved: nothing is recorded
        /\ Visited(b)
        /\ UNCHANGED <<gbxLocks, disk, mem, faults, excused>>
     \/ \* no room before T1: recorded and saved at once
        /\ Status(b) = "none" /\ T2TooClose(usdc[b].t1)
        /\ Record(b, "rejected", 0)
        /\ disk' = mem'
        /\ Visited(b)
        /\ UNCHANGED <<gbxLocks, faults, excused>>
     \/ /\ Status(b) = "none" /\ ~T2TooClose(usdc[b].t1)
        /\ \E n \in Requested :
             LET out == [state |-> "unspent", t2 |-> height + T2FromT1(usdc[b].t1, n)]
             IN  \/ /\ gbxLocks' = [gbxLocks EXCEPT ![b] = Append(@, out)]
                    /\ \/ /\ Record(b, "gbx_locked", Len(gbxLocks[b]) + 1)
                          /\ Visited(b)
                          /\ UNCHANGED <<faults, excused>>
                       \/ \* sent, but a later call of the loop body raised
                          Fault /\ RaiseUnrecorded(b) /\ UNCHANGED mem
                 \/ \* gcli gave up waiting for sendtoaddress and called it again
                    /\ gbxLocks' = [gbxLocks EXCEPT ![b] = @ \o <<out, out>>]
                    /\ Fault
                    /\ Record(b, "gbx_locked", Len(gbxLocks[b]) + 2)
                    /\ Visited(b)
                    /\ Excuse({b})
        /\ UNCHANGED disk
  /\ UNCHANGED <<world, usdc, gbx, usdcLocks, intents, crashes>>
-----------------------------------------------------------------------------
(* scan_and_claim_usdc                                                     *)

(* Mutant: the preimage is taken from the mempool too. *)
PreimageSeen(b) == Output(b).state \in {"claiming", "claimed"}

(* find_preimage, which reads the blocks only.                             *)
PreimageFound(b) == Output(b).state = "claimed"

(* gettxout, which counts mempool spends, then find_preimage.              *)
ClaimUsdc(b) ==
  /\ pc = "claim_usdc" /\ b \in todo
  /\ \/ /\ Output(b).state = "unspent"
        /\ Visited(b)
        /\ UNCHANGED <<usdc, mem, faults, excused>>
     \/ /\ Output(b).state # "unspent" /\ ~PreimageFound(b)
        /\ pc' = "in_mempool" /\ probe' = {b}
        /\ UNCHANGED <<todo, usdc, mem, faults, excused>>
     \/ \* the preimage is in a block; the EVM claim succeeds
        /\ PreimageFound(b) /\ usdc[b].state = "locked"
        /\ usdc' = [usdc EXCEPT ![b].state = "claimed"]
        /\ \/ SetStatus(b, "completed") /\ Visited(b) /\ UNCHANGED <<faults, excused>>
           \/ \* mined, but the receipt was not seen in time
              Fault /\ Raise(b) /\ UNCHANGED mem
     \/ \* the contract reverts: the receipt says 0x0
        /\ PreimageFound(b) /\ usdc[b].state # "locked"
        /\ SetStatus(b, "evm_claim_failed")
        /\ Visited(b)
        /\ UNCHANGED <<usdc, faults, excused>>
  /\ UNCHANGED <<world, gbxLocks, gbx, usdcLocks, intents, disk, crashes>>

(* spent_in_mempool: not an anomaly while the spend waits for a block.     *)
LookInMempool(b) ==
  /\ pc = "in_mempool" /\ b \in probe
  /\ IF Output(b).state \in {"claiming", "refunding"}
     THEN pc' = "claim_usdc" /\ todo' = todo \ {b} /\ probe' = {}
     ELSE pc' = "via_refund" /\ UNCHANGED <<todo, probe>>
  /\ UNCHANGED <<world, chains, intents, disk, mem, faults, crashes, excused>>

(* Mutants: any spend counts as a refund; the first doubt halts. *)
SpentAnyhow(b) == Output(b).state # "unspent"
HaltAtOnce == 1

(* spent_via_refund, and the three scans before the halt.                  *)
SpentViaRefund(b) == Output(b).state = "refunded"
ScansBeforeHalt == 3

LookForRefund(b) ==
  /\ pc = "via_refund" /\ b \in probe
  /\ IF SpentViaRefund(b)
     THEN SetStatus(b, "refunded_on_timelock")
     ELSE LET n == mem.swaps[b].unres + 1
          IN  mem' = [mem EXCEPT !.swaps[b].unres = n,
                                 !.swaps[b].status = IF n < ScansBeforeHalt THEN @
                                                         ELSE "anomaly",
                                 !.halt = @ \/ n >= ScansBeforeHalt]
  /\ pc' = "claim_usdc" /\ todo' = todo \ {b} /\ probe' = {}
  /\ UNCHANGED <<world, chains, intents, disk, faults, crashes, excused>>
-----------------------------------------------------------------------------
(* scan_and_lock_usdc                                                      *)

Terminal == {"rejected", "completed", "refunded_by_lp", "refunded_on_timelock"}

(* A sell met too late: the seller's T1, which the code never reads, comes *)
(* before the USDC lock is settled and its claim, if there is one, is seen. *)
MetLate(s) == gbx[s].t1 - height <= SellT2 + RefundGrace + 3 * MaxLag

LockUsdc(s) ==
  /\ pc = "lock_usdc" /\ s \in todo
  /\ \/ \* LP-15: the swap is over, its intent is deleted
        /\ Status(s) \in Terminal
        /\ intents' = intents \ {s}
        /\ Visited(s)
        /\ UNCHANGED <<usdcLocks, mem, faults, excused>>
     \/ \* recorded, or gettxout finds no unspent output
        /\ Status(s) \notin Terminal
        /\ Status(s) # "none" \/ gbx[s].state # "unspent"
        /\ Visited(s)
        /\ UNCHANGED <<usdcLocks, intents, mem, faults, excused>>
     \/ \* one of the guards: script, declared value, price
        /\ Status(s) = "none" /\ gbx[s].state = "unspent"
        /\ Record(s, "rejected", 0)
        /\ Visited(s)
        /\ UNCHANGED <<usdcLocks, intents, faults, excused>>
     \/ /\ Status(s) = "none" /\ gbx[s].state = "unspent"
        /\ usdcLocks' = [usdcLocks EXCEPT ![s] =
                           Append(@, [state |-> "locked", t2 |-> now + SellT2])]
        /\ \/ /\ Record(s, "usdc_locked", Len(usdcLocks[s]) + 1)
              /\ Visited(s)
              /\ Excuse({s} \cap {x \in Sells : MetLate(x)})
              /\ UNCHANGED faults
           \/ \* mined, but the receipt was not seen in time
              Fault /\ RaiseUnrecorded(s) /\ UNCHANGED mem
        /\ UNCHANGED intents
     \/ \* LP-17: the lock reverted; an earlier one with this hashlock may be
        \* among the events, and its id is taken
        /\ Status(s) = "none" /\ gbx[s].state = "unspent"
        /\ Fault
        /\ IF usdcLocks[s] = <<>> THEN Record(s, "rejected", 0)
                                  ELSE Record(s, "usdc_locked", 1)
        /\ Visited(s)
        /\ UNCHANGED <<usdcLocks, intents, excused>>
  /\ UNCHANGED <<world, usdc, gbxLocks, gbx, disk, crashes>>
-----------------------------------------------------------------------------
(* scan_and_claim_gbx, which visits the swaps in the order they were       *)
(* recorded                                                                *)

FirstInTodo(s) ==
  s \in todo /\ \A r \in todo : mem.swaps[s].order <= mem.swaps[r].order

(* Mutant: the refund before LP-6, none. *)
RefundNothing(s) == UNCHANGED <<usdcLocks, mem, faults>>

(* LP-6: the snapshot has no claim and T2 with its grace is past.  The     *)
(* refund reverts when the lock was claimed after the snapshot or refunded *)
(* before; then the record stays and the next cycle tries again.           *)
RefundUsdc(s) ==
  IF Lock(s).state = "locked" /\ now > Lock(s).t2 + RefundGrace
  THEN /\ usdcLocks' = [usdcLocks EXCEPT ![s][mem.swaps[s].lock].state = "refunded"]
       /\ \/ SetStatus(s, "refunded_by_lp") /\ UNCHANGED faults
          \/ Fault /\ UNCHANGED mem
  ELSE UNCHANGED <<usdcLocks, mem, faults>>

(* Mutant: the error is taken for "already sent". *)
OutputGoneIsDone(s) == SetStatus(s, "completed") /\ Visited(s) /\ UNCHANGED excused

(* sendrawtransaction raises when the output is spent.                     *)
OutputGone(s) == Raise(s) /\ UNCHANGED mem

ClaimGbx(s) ==
  /\ pc = "claim_gbx" /\ FirstInTodo(s)
  /\ \/ /\ s \notin probe
        /\ RefundUsdc(s)
        /\ Visited(s)
        /\ UNCHANGED <<gbx, excused>>
     \/ /\ s \in probe /\ gbx[s].state = "unspent"
        /\ gbx' = [gbx EXCEPT ![s].state = "claiming"]
        /\ \/ SetStatus(s, "completed") /\ Visited(s) /\ UNCHANGED <<faults, excused>>
           \/ \* sent, but a later call raised
              Fault /\ Raise(s) /\ UNCHANGED mem
        /\ UNCHANGED usdcLocks
     \/ /\ s \in probe /\ gbx[s].state # "unspent"
        /\ OutputGone(s)
        /\ UNCHANGED <<gbx, usdcLocks, faults>>
  /\ UNCHANGED <<world, usdc, gbxLocks, intents, disk, crashes>>
-----------------------------------------------------------------------------
(* scan_and_refund_gbx                                                     *)

RefundGbx(b) ==
  /\ pc = "refund_gbx" /\ b \in todo
  /\ IF Output(b).state = "unspent" /\ height >= Output(b).t2
     THEN /\ gbxLocks' = [gbxLocks EXCEPT ![b][mem.swaps[b].lock].state = "refunding"]
          /\ \/ SetStatus(b, "refunded_by_lp") /\ Visited(b) /\ UNCHANGED <<faults, excused>>
             \/ Fault /\ Raise(b) /\ UNCHANGED mem
     ELSE Visited(b) /\ UNCHANGED <<gbxLocks, mem, faults, excused>>
  /\ UNCHANGED <<world, usdc, gbx, usdcLocks, intents, disk, crashes>>
-----------------------------------------------------------------------------
(* The process is killed in the middle of a cycle and started again; the   *)
(* state file is as the last save_state left it.                           *)
Crash ==
  /\ pc # "idle"
  /\ crashes < MaxCrashes
  /\ crashes' = crashes + 1
  /\ mem' = disk
  /\ Enter("idle", {})
  /\ Excuse(Unsaved)
  /\ UNCHANGED <<world, chains, intents, disk, faults>>

Scan == \E s \in Swaps :
  \/ LockGbx(s) \/ ClaimUsdc(s) \/ LookInMempool(s) \/ LookForRefund(s)
  \/ LockUsdc(s) \/ ClaimGbx(s) \/ RefundGbx(s)

Daemon == StartCycle \/ Scan \/ EndScan

User ==
  \/ \E s \in Swaps : PostIntent(s)
  \/ \E b \in Buys : \/ UserLocksUsdc(b) \/ UserRefundsUsdc(b)
                     \/ \E k \in DOMAIN gbxLocks[b] : UserClaimsGbx(b, k)
  \/ \E s \in Sells : \/ UserLocksGbx(s) \/ UserRefundsGbx(s)
                      \/ \E k \in DOMAIN usdcLocks[s] : UserClaimsUsdc(s, k)

Next == User \/ Tick \/ Daemon \/ Crash

Spec == Init /\ [][Next]_vars

(* run_loop runs run_once for ever, and time passes; users owe nothing.    *)
FairSpec == Spec /\ WF_vars(Daemon) /\ WF_vars(Tick)
-----------------------------------------------------------------------------
(* Atomicity, as the abstract specification both directions share.  first  *)
(* is the user's leg, second the LP's; a spend counts from the mempool on. *)
(* It covers every swap but the excused: those with a lock that no record  *)
(* names (RaiseUnrecorded, a resent sendtoaddress, Unsaved), those a cycle *)
(* did not get to (Unlooked) and the sells the daemon met too late         *)
(* (MetLate: scan_and_lock_usdc has no rule like _t2_from_t1).             *)
Leg(state) ==
  CASE state \in {"unspent", "locked"} -> "locked"
    [] state \in {"claiming", "claimed"} -> "claimed"
    [] state \in {"refunding", "refunded"} -> "refunded"
    [] OTHER -> "none"
First == [s \in Swaps |-> Leg(IF s \in Buys THEN usdc[s].state ELSE gbx[s].state)]
SecondOf(locks) == IF locks = <<>> THEN "none" ELSE Leg(locks[1].state)
Second == [s \in Swaps |-> SecondOf(IF s \in Buys THEN gbxLocks[s] ELSE usdcLocks[s])]

AbstractSwap == INSTANCE AtomicSwap WITH first <- First, second <- Second
ImplementsAtomicSwap == AbstractSwap!Spec

(* The comment over _t2_from_t1: the GBX lock expires before the USDC lock *)
(* it will claim against, however the chain's pace varies within MaxSlow.  *)
T2BeforeT1 ==
  \A b \in Buys : \A k \in DOMAIN gbxLocks[b] :
    now >= usdc[b].t1 => height >= gbxLocks[b][k].t2

(* The LP takes a user's leg only with a preimage the user has shown by    *)
(* taking one of the LP's (scan_and_claim_usdc, scan_and_claim_gbx).       *)
TakesOnlyForGiven ==
  /\ \A b \in Buys : usdc[b].state = "claimed" =>
       \E k \in DOMAIN gbxLocks[b] : gbxLocks[b][k].state = "claimed"
  /\ \A s \in Sells : gbx[s].state \in {"claiming", "claimed"} =>
       \E k \in DOMAIN usdcLocks[s] : usdcLocks[s][k].state = "claimed"

(* The permanent halt is for theft only.  find_preimage, spent_in_mempool  *)
(* and spent_via_refund read the chain one after the other; a block that   *)
(* arrives between two of them must not look like a vanished output.       *)
NoFalseHalt == ~mem.halt /\ ~disk.halt

(* What the state file says of a settled swap is what the chains say.      *)
RecordsTruthful ==
  /\ \A b \in Buys : LET r == disk.swaps[b] IN
       /\ r.status = "completed" => usdc[b].state = "claimed"
       /\ r.status \in {"refunded_by_lp", "refunded_on_timelock"} =>
            gbxLocks[b][r.lock].state \in {"refunding", "refunded"}
  /\ \A s \in Sells : LET r == disk.swaps[s] IN
       /\ r.status = "completed" => gbx[s].state \in {"claiming", "claimed"}
       /\ r.status = "refunded_by_lp" => usdcLocks[s][r.lock].state = "refunded"

(* The state file (save_state), and the halt that needs a hand to clear.   *)
StateFileTrue == TypeOK /\ NoFalseHalt /\ RecordsTruthful

(* A second lock for one swap always has a cause: a restart, or a call     *)
(* that acted without answering, between the lock and its record.          *)
DuplicatesExplained ==
  /\ \A b \in Buys : Len(gbxLocks[b]) <= 1 + crashes + faults
  /\ \A s \in Sells : Len(usdcLocks[s]) <= 1 + crashes + faults

(* Nothing the LP locked stays locked: it goes to the user or comes back   *)
(* (scan_and_refund_gbx, LP-6).                                            *)
LocksSettle ==
  /\ \A b \in Buys : gbxLocks[b] # <<>> ~>
       \A k \in DOMAIN gbxLocks[b] : gbxLocks[b][k].state \in {"claimed", "refunded"}
  /\ \A s \in Sells : usdcLocks[s] # <<>> ~>
       \A k \in DOMAIN usdcLocks[s] : usdcLocks[s][k].state \in {"claimed", "refunded"}

(* What the user took is paid for: once the user has the LP's leg, the LP  *)
(* gets the user's.  A sell met too late is the exception, and in a cycle  *)
(* that its spent output cuts short (OutputGone) the sells after it.       *)
LpIsPaid ==
  /\ \A b \in Buys : (\E k \in DOMAIN gbxLocks[b] : gbxLocks[b][k].state = "claimed")
       ~> usdc[b].state = "claimed"
  /\ \A s \in Sells : (\E k \in DOMAIN usdcLocks[s] : usdcLocks[s][k].state = "claimed")
       ~> gbx[s].state = "claimed" \/ s \in excused
=============================================================================
