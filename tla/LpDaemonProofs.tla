--------------------------- MODULE LpDaemonProofs ---------------------------
(***************************************************************************)
(* Proofs about lp_daemon_main.py, for every number of swaps, every        *)
(* timelock a user chooses, every request in an intent and every pace of   *)
(* the chain within the assumption, through restarts and lost answers.     *)
(* First, the rule of _t2_from_t1 does what the comment over it says.      *)
(* Second, what the state file says is true, the daemon takes only what it *)
(* has paid for, and every lock too many has a cause.                      *)
(* Third, the daemon implements the abstract swap, for every swap it is    *)
(* not excused from.                                                       *)
(***************************************************************************)
EXTENDS LpDaemon, FiniteSetTheorems, TLAPS

Outputs == [state : OutputStates, t2 : Nat]

(* The part of the type invariant the rule depends on.                     *)
Typed ==
  /\ now \in Nat /\ height \in Nat
  /\ usdc \in [Buys -> [state : LockStates \cup {"none"}, t1 : Nat]]
  /\ gbxLocks \in [Buys -> Seq(Outputs)]

(* How far the chain can be from the clock.                                *)
Pace == height <= now /\ now - height <= MaxSlow

(* Who is about to be served, or was served, has a USDC lock: its T1 stays. *)
Served ==
  /\ pc = "lock_gbx" => \A b \in Buys \cap todo : usdc[b].state # "none"
  /\ \A b \in Buys : gbxLocks[b] # <<>> => usdc[b].state # "none"

(* The margin between the two timelocks, in the unit they share.           *)
Margin ==
  \A b \in Buys : \A k \in DOMAIN gbxLocks[b] :
    gbxLocks[b][k].t2 + MaxSlow <= usdc[b].t1

Inv == Typed /\ Pace /\ Served /\ Margin

(* Max and Min of the two numbers _t2_from_t1 compares.                    *)
LEMMA MaxOfTwo ==
  ASSUME NEW a \in Int, NEW b \in Int
  PROVE  Max({a, b}) = IF a >= b THEN a ELSE b
<1> DEFINE m == IF a >= b THEN a ELSE b
<1>1. m \in {a, b} /\ \A y \in {a, b} : m >= y
  OBVIOUS
<1>2. \A x \in {a, b} : (\A y \in {a, b} : x >= y) => x = m
  OBVIOUS
<1> QED
  BY <1>1, <1>2 DEF Max

LEMMA MinOfTwo ==
  ASSUME NEW a \in Int, NEW b \in Int
  PROVE  Min({a, b}) = IF a <= b THEN a ELSE b
<1> DEFINE m == IF a <= b THEN a ELSE b
<1>1. m \in {a, b} /\ \A y \in {a, b} : m =< y
  OBVIOUS
<1>2. \A x \in {a, b} : (\A y \in {a, b} : x =< y) => x = m
  OBVIOUS
<1> QED
  BY <1>1, <1>2 DEF Min

(* Half of what is left is at least the chain's possible delay, and a lock *)
(* made now for no more than that is over in time.                         *)
LEMMA RoomBeforeT1 ==
  ASSUME Typed, Pace, NEW t1 \in Nat, NEW n \in Requested, ~T2TooClose(t1)
  PROVE  /\ height + T2FromT1(t1, n) \in Nat /\ T2FromT1(t1, n) \in Nat
         /\ height + T2FromT1(t1, n) + MaxSlow <= t1
         /\ height + T2FromT1(t1, n) + T2MinBlocks <= t1 /\ T2FromT1(t1, n) >= T2MinBlocks
<1> DEFINE left == (t1 - now) \div 2
<1>1. /\ t1 > now /\ T2MaxBlocks \in Nat /\ T2MinBlocks \in Nat /\ MaxSlow \in Nat /\ n \in Nat
      /\ Allowed(t1) >= T2MinBlocks
  <2>1. T2MaxBlocks \in Nat /\ T2MinBlocks \in Nat /\ MaxSlow \in Nat /\ n \in Nat
    BY ConstantsAssumption
  <2>2. left \in Int
    BY DEF Typed
  <2>3. Allowed(t1) \in Int
    BY <2>1, <2>2, MinOfTwo DEF Allowed
  <2> QED
    BY <2>1, <2>3 DEF T2TooClose, Typed
<1>2. left \in Nat /\ 2 * left <= t1 - now
  BY <1>1 DEF Typed
<1> HIDE DEF left
<1>3. Allowed(t1) = IF T2MaxBlocks <= left THEN T2MaxBlocks ELSE left
  BY <1>1, <1>2, MinOfTwo DEF Allowed, left
<1>4. Allowed(t1) \in Nat /\ Allowed(t1) <= left
  BY <1>1, <1>2, <1>3
<1>5. T2FromT1(t1, n) \in Nat /\ T2FromT1(t1, n) <= left /\ T2FromT1(t1, n) >= T2MinBlocks
  <2>1. Min({Allowed(t1), n}) \in Nat /\ Min({Allowed(t1), n}) <= left
    BY <1>1, <1>2, <1>4, MinOfTwo
  <2>2. T2MinBlocks <= left /\ T2MinBlocks \in Nat
    BY <1>1, <1>2, <1>4
  <2>3. \A c \in Int : Max({T2MinBlocks, c}) = IF T2MinBlocks >= c THEN T2MinBlocks ELSE c
    BY <2>2, MaxOfTwo
  <2>4. T2FromT1(t1, n) = LET c == Min({Allowed(t1), n})
                          IN  IF T2MinBlocks >= c THEN T2MinBlocks ELSE c
    BY <2>1, <2>3 DEF T2FromT1
  <2> QED
    BY <1>2, <2>1, <2>2, <2>4
<1>6. MaxSlow <= left /\ T2MinBlocks <= left
  BY <1>1, <1>2, <1>4, PaceAssumption
<1> QED
  BY <1>1, <1>2, <1>5, <1>6 DEF Typed, Pace

(* Only the state of an output changes after it was sent.                  *)
LEMMA StateOnly ==
  ASSUME NEW s \in Seq(Outputs), NEW k, NEW v \in OutputStates
  PROVE  LET r == [s EXCEPT ![k].state = v] IN
         /\ r \in Seq(Outputs) /\ DOMAIN r = DOMAIN s /\ (r = <<>> => s = <<>>)
         /\ \A j \in DOMAIN s : r[j].t2 = s[j].t2
<1> DEFINE r == [s EXCEPT ![k].state = v]
<1>1. s \in [1 .. Len(s) -> Outputs] /\ Len(s) \in Nat
  OBVIOUS
<1>2. r \in [1 .. Len(s) -> Outputs]
  BY <1>1 DEF Outputs
<1>3. r \in Seq(Outputs) /\ Len(r) = Len(s)
  BY <1>1, <1>2
<1>4. \A j \in DOMAIN s : r[j].t2 = s[j].t2
  BY <1>1 DEF Outputs
<1> QED
  BY <1>1, <1>2, <1>3, <1>4

-----------------------------------------------------------------------------
(* What a scan may put on its list while it serves buys.                   *)
TodoServed ==
  pc' = "lock_gbx" => \/ pc = "lock_gbx" /\ todo' \subseteq todo
                      \/ \A b \in Buys \cap todo' : usdc[b].state # "none"

(* Steps that touch neither the buys' locks nor the clocks.                *)
LEMMA QuietStep ==
  ASSUME Inv, UNCHANGED <<now, height, usdc, gbxLocks>>, TodoServed
  PROVE  Inv'
<1>1. Typed' /\ Pace' /\ Margin'
  BY DEF Inv, Typed, Pace, Margin
<1>2. Served'
  BY DEF Inv, Served, TodoServed
<1> QED
  BY <1>1, <1>2 DEF Inv

LEMMA QuietSteps ==
  ASSUME Inv, NEW s \in Swaps,
         \/ UserLocksGbx(s) \/ UserRefundsGbx(s) \/ (\E k \in DOMAIN usdcLocks[s] : UserClaimsUsdc(s, k))
         \/ StartCycle \/ EndScan \/ Crash \/ PostIntent(s)
         \/ LookInMempool(s) \/ LookForRefund(s) \/ LockUsdc(s) \/ ClaimGbx(s)
  PROVE  Inv'
<1>1. CASE \/ UserLocksGbx(s) \/ UserRefundsGbx(s)
           \/ \E k \in DOMAIN usdcLocks[s] : UserClaimsUsdc(s, k)
  BY <1>1, QuietStep
     DEF UserLocksGbx, UserRefundsGbx, UserClaimsUsdc, TodoServed, world, daemon
<1>2. CASE StartCycle
  BY <1>2, QuietStep DEF StartCycle, Enter, TodoServed, chains
<1>3. CASE EndScan
  BY <1>3, QuietStep DEF EndScan, Enter, TodoServed, chains
<1>4. CASE Crash
  BY <1>4, QuietStep DEF Crash, Enter, TodoServed, world, chains
<1>5. CASE LookInMempool(s)
  BY <1>5, QuietStep DEF LookInMempool, TodoServed, world, chains
<1>6. CASE LookForRefund(s)
  BY <1>6, QuietStep DEF LookForRefund, TodoServed, world, chains
<1>7. CASE LockUsdc(s)
  BY <1>7, QuietStep DEF LockUsdc, Visited, RaiseUnrecorded, Enter, TodoServed, world
<1>8. CASE ClaimGbx(s)
  BY <1>8, QuietStep DEF ClaimGbx, OutputGone, Visited, Raise, Enter, TodoServed, world
<1>9. CASE PostIntent(s)
  BY <1>9, QuietStep DEF PostIntent, TodoServed, world, chains
<1> QED
  BY <1>1, <1>2, <1>3, <1>4, <1>5, <1>6, <1>7, <1>8, <1>9

(* Steps on the USDC lock of one buy: T1 changes only when there was none. *)
LEMMA UsdcStep ==
  ASSUME Inv, NEW b \in Buys,
         UserLocksUsdc(b) \/ UserRefundsUsdc(b) \/ ClaimUsdc(b)
  PROVE  Inv'
<1>1. CASE UserLocksUsdc(b)
  <2>1. PICK d \in BuyT1 : usdc' = [usdc EXCEPT ![b] = [state |-> "locked", t1 |-> now + d]]
    BY <1>1 DEF UserLocksUsdc
  <2>2. now + d \in Nat
    <3>1. d \in Nat
      BY ConstantsAssumption
    <3>2. now \in Nat
      BY DEF Inv, Typed
    <3> QED
      BY <3>1, <3>2
  <2>3. gbxLocks[b] = <<>>
    BY <1>1 DEF UserLocksUsdc, Inv, Served
  <2>4. UNCHANGED <<now, height, gbxLocks, pc, todo>>
    BY <1>1 DEF UserLocksUsdc, world, daemon
  <2>5. Typed' /\ Pace'
    BY <2>1, <2>2, <2>4 DEF Inv, Typed, Pace, LockStates
  <2>6. Served'
    BY <2>1, <2>4 DEF Inv, Typed, Served
  <2>7. Margin'
    BY <2>1, <2>3, <2>4 DEF Inv, Typed, Margin
  <2> QED
    BY <2>5, <2>6, <2>7 DEF Inv
<1>2. ASSUME NEW v \in LockStates, usdc' = [usdc EXCEPT ![b].state = v],
             UNCHANGED <<now, height, gbxLocks>>, TodoServed
      PROVE  Inv'
  <2>1. Typed' /\ Pace'
    BY <1>2 DEF Inv, Typed, Pace
  <2>2. \A c \in Buys : usdc'[c].t1 = usdc[c].t1
                       /\ (usdc[c].state # "none" => usdc'[c].state # "none")
    BY <1>2 DEF Inv, Typed, LockStates
  <2>3. Served'
    BY <1>2, <2>2 DEF Inv, Served, TodoServed
  <2>4. Margin'
    BY <1>2, <2>2 DEF Inv, Margin
  <2> QED
    BY <2>1, <2>3, <2>4 DEF Inv
<1>3. CASE UserRefundsUsdc(b)
  BY <1>2, <1>3 DEF UserRefundsUsdc, LockStates, TodoServed, world, daemon
<1>4. CASE ClaimUsdc(b)
  <2>1. UNCHANGED <<now, height, gbxLocks>> /\ TodoServed
    BY <1>4 DEF ClaimUsdc, Visited, Raise, Enter, TodoServed, world
  <2>2. UNCHANGED usdc \/ usdc' = [usdc EXCEPT ![b].state = "claimed"]
    BY <1>4 DEF ClaimUsdc
  <2> QED
    BY <1>2, <2>1, <2>2, QuietStep DEF LockStates
<1> QED
  BY <1>1, <1>3, <1>4

(* Steps that change the state of outputs: their T2 and number stay.       *)
LEMMA OutputStep ==
  ASSUME Inv, gbxLocks' \in [Buys -> Seq(Outputs)],
         UNCHANGED usdc, TodoServed,
         \A b \in Buys :
           /\ DOMAIN gbxLocks'[b] = DOMAIN gbxLocks[b]
           /\ gbxLocks'[b] # <<>> => gbxLocks[b] # <<>>
           /\ \A k \in DOMAIN gbxLocks[b] : gbxLocks'[b][k].t2 = gbxLocks[b][k].t2,
         now' \in Nat, height' \in Nat, Pace'
  PROVE  Inv'
<1>1. Typed' /\ Pace'
  BY DEF Inv, Typed
<1>2. Served'
  BY DEF Inv, Served, TodoServed
<1>3. Margin'
  BY DEF Inv, Margin
<1> QED
  BY <1>1, <1>2, <1>3 DEF Inv

LEMMA OneOutput ==
  ASSUME Inv, NEW b \in Buys, NEW k, NEW v \in OutputStates,
         gbxLocks' = [gbxLocks EXCEPT ![b][k].state = v],
         UNCHANGED <<now, height, usdc>>, TodoServed
  PROVE  Inv'
<1>1. gbxLocks[b] \in Seq(Outputs) /\ gbxLocks \in [Buys -> Seq(Outputs)]
  BY DEF Inv, Typed
<1> DEFINE r == [gbxLocks[b] EXCEPT ![k].state = v]
<1>2. /\ r \in Seq(Outputs) /\ DOMAIN r = DOMAIN gbxLocks[b] /\ (r = <<>> => gbxLocks[b] = <<>>)
      /\ \A j \in DOMAIN gbxLocks[b] : r[j].t2 = gbxLocks[b][j].t2
  BY <1>1, StateOnly
<1>3. gbxLocks' = [gbxLocks EXCEPT ![b] = r]
  OBVIOUS
<1> HIDE DEF r
<1>4. DOMAIN r = DOMAIN gbxLocks[b] /\ (r # <<>> => gbxLocks[b] # <<>>)
  <2>1. gbxLocks[b] = <<>> => r = <<>>
    BY <1>1, <1>2
  <2> QED
    BY <1>2, <2>1
<1>5. gbxLocks' \in [Buys -> Seq(Outputs)]
  BY <1>1, <1>2, <1>3
<1>6. now' \in Nat /\ height' \in Nat /\ Pace'
  BY DEF Inv, Typed, Pace
<1> QED
  BY <1>1, <1>2, <1>3, <1>4, <1>5, <1>6, OutputStep

LEMMA BlockStep ==
  ASSUME Inv, Tick
  PROVE  Inv'
<1>1. UNCHANGED <<usdc, pc, todo>> /\ now' = now + 1
  BY DEF Tick, Block, chains, daemon
<1>2. TodoServed
  BY <1>1 DEF TodoServed
<1>3. CASE Block
  <2>1. \A o \in Outputs : [o EXCEPT !.state = Confirmed(@)] \in Outputs
                         /\ [o EXCEPT !.state = Confirmed(@)].t2 = o.t2
    BY DEF Outputs, Confirmed, OutputStates
  <2>2. ASSUME NEW b \in Buys
        PROVE  /\ gbxLocks'[b] \in Seq(Outputs)
               /\ DOMAIN gbxLocks'[b] = DOMAIN gbxLocks[b]
               /\ gbxLocks'[b] # <<>> => gbxLocks[b] # <<>>
               /\ \A k \in DOMAIN gbxLocks[b] : gbxLocks'[b][k].t2 = gbxLocks[b][k].t2
    <3> DEFINE s == gbxLocks[b]
    <3>1. s \in Seq(Outputs) /\ s \in [1 .. Len(s) -> Outputs] /\ Len(s) \in Nat
      BY DEF Inv, Typed
    <3>2. gbxLocks'[b] = [k \in DOMAIN s |-> [s[k] EXCEPT !.state = Confirmed(@)]]
      BY <1>3 DEF Block
    <3> HIDE DEF s
    <3>3. \A k \in 1 .. Len(s) : s[k] \in Outputs /\ gbxLocks'[b][k] = [s[k] EXCEPT !.state = Confirmed(@)]
      BY <3>1, <3>2
    <3>4. gbxLocks'[b] \in [1 .. Len(s) -> Outputs]
      BY <2>1, <3>1, <3>2, <3>3
    <3>5. gbxLocks'[b] \in Seq(Outputs) /\ Len(gbxLocks'[b]) = Len(s)
      BY <3>1, <3>4
    <3>6. \A k \in DOMAIN s : gbxLocks'[b][k].t2 = s[k].t2
      BY <2>1, <3>1, <3>3
    <3>7. gbxLocks'[b] # <<>> => s # <<>>
      BY <3>1, <3>5
    <3> QED
      BY <3>1, <3>4, <3>5, <3>6, <3>7 DEF s
  <2>3. gbxLocks' \in [Buys -> Seq(Outputs)]
    <3>1. DOMAIN gbxLocks' = Buys /\ gbxLocks' = [b \in Buys |-> gbxLocks'[b]]
      BY <1>3 DEF Block
    <3> QED
      BY <2>2, <3>1
  <2>4. now' \in Nat /\ height' \in Nat /\ Pace'
    <3>1. height' = height + 1
      BY <1>3 DEF Block
    <3> QED
      BY <1>1, <3>1 DEF Inv, Typed, Pace
  <2> QED
    BY <1>1, <1>2, <2>2, <2>3, <2>4, OutputStep
<1>4. CASE now' - height <= MaxSlow /\ UNCHANGED <<height, chains>>
  <2>1. UNCHANGED <<height, gbxLocks>>
    BY <1>4 DEF chains
  <2>2. now' \in Nat /\ height' \in Nat /\ Pace'
    BY <1>1, <1>4, <2>1 DEF Inv, Typed, Pace
  <2>3. gbxLocks' \in [Buys -> Seq(Outputs)]
    BY <2>1 DEF Inv, Typed
  <2> QED
    BY <1>1, <1>2, <2>1, <2>2, <2>3, OutputStep
<1> QED
  BY <1>3, <1>4 DEF Tick

(* A buy is served: one output more, or two, with the margin of            *)
(* RoomBeforeT1.                                                           *)
LEMMA LockStep ==
  ASSUME Inv, NEW b \in Buys, LockGbx(b)
  PROVE  Inv'
<1>1. UNCHANGED <<now, height, usdc>> /\ TodoServed /\ usdc[b].state # "none"
  BY DEF LockGbx, Visited, RaiseUnrecorded, Enter, TodoServed, world, Inv, Served
<1>2. CASE UNCHANGED gbxLocks
  BY <1>1, <1>2, QuietStep
<1>3. ASSUME NEW n \in Requested, ~T2TooClose(usdc[b].t1),
             NEW out, out = [state |-> "unspent", t2 |-> height + T2FromT1(usdc[b].t1, n)],
             \/ gbxLocks' = [gbxLocks EXCEPT ![b] = Append(@, out)]
             \/ gbxLocks' = [gbxLocks EXCEPT ![b] = @ \o <<out, out>>]
      PROVE  Inv'
  <2>1. out \in Outputs /\ out.t2 + MaxSlow <= usdc[b].t1
    <3>1. usdc[b].t1 \in Nat
      BY DEF Inv, Typed
    <3>2. /\ height + T2FromT1(usdc[b].t1, n) \in Nat
          /\ height + T2FromT1(usdc[b].t1, n) + MaxSlow <= usdc[b].t1
      BY <1>3, <3>1, RoomBeforeT1 DEF Inv
    <3> QED
      BY <1>3, <3>2 DEF Outputs, OutputStates
  <2> DEFINE s == gbxLocks[b]
             r == gbxLocks'[b]
  <2>2. s \in Seq(Outputs) /\ Len(s) \in Nat /\ DOMAIN s = 1 .. Len(s) /\ b \in DOMAIN gbxLocks
    BY DEF Inv, Typed
  <2>3. r = Append(s, out) \/ r = s \o <<out, out>>
    BY <1>3, <2>2
  <2>4. \A c \in Buys : c # b => gbxLocks'[c] = gbxLocks[c]
    BY <1>3 DEF Inv, Typed
  <2> HIDE DEF s, r
  <2>5. /\ r \in Seq(Outputs)
        /\ \A k \in DOMAIN r : (k \in DOMAIN s /\ r[k] = s[k]) \/ r[k] = out
    <3>1. CASE r = Append(s, out)
      BY <2>1, <2>2, <3>1
    <3>2. CASE r = s \o <<out, out>>
      <4>1. <<out, out>> \in Seq(Outputs) /\ Len(<<out, out>>) = 2
        BY <2>1
      <4>2. r \in Seq(Outputs) /\ Len(r) = Len(s) + 2
        BY <2>2, <3>2, <4>1
      <4>3. \A k \in 1 .. Len(r) : (k \in DOMAIN s /\ r[k] = s[k]) \/ r[k] = out
        BY <2>2, <3>2, <4>1, <4>2
      <4> QED
        BY <4>2, <4>3
    <3> QED
      BY <2>3, <3>1, <3>2
  <2>6. Typed'
    <3>1. gbxLocks' \in [Buys -> Seq(Outputs)]
      <4>1. DOMAIN gbxLocks' = Buys /\ gbxLocks' = [c \in Buys |-> gbxLocks'[c]]
        BY <1>3 DEF Inv, Typed
      <4>2. \A c \in Buys : gbxLocks'[c] \in Seq(Outputs)
        BY <2>4, <2>5 DEF Inv, Typed, r
      <4> QED
        BY <4>1, <4>2
    <3> QED
      BY <1>1, <3>1 DEF Inv, Typed
  <2>7. Pace' /\ Served'
    BY <1>1, <2>4 DEF Inv, Pace, Served, TodoServed
  <2>8. Margin'
    <3>1. \A k \in DOMAIN r : r[k].t2 + MaxSlow <= usdc[b].t1
      BY <2>1, <2>5 DEF Inv, Margin, s
    <3> QED
      BY <1>1, <2>4, <3>1 DEF Inv, Margin, r
  <2> QED
    BY <2>6, <2>7, <2>8 DEF Inv
<1>4. CASE ~UNCHANGED gbxLocks
  <2>1. ~T2TooClose(usdc[b].t1)
    BY <1>4 DEF LockGbx
  <2>2. PICK n \in Requested :
          LET out == [state |-> "unspent", t2 |-> height + T2FromT1(usdc[b].t1, n)] IN
          \/ gbxLocks' = [gbxLocks EXCEPT ![b] = Append(@, out)]
          \/ gbxLocks' = [gbxLocks EXCEPT ![b] = @ \o <<out, out>>]
    BY <1>4 DEF LockGbx
  <2> QED
    BY <1>3, <2>1, <2>2
<1> QED
  BY <1>2, <1>4

LEMMA NextStep ==
  ASSUME Inv, [Next]_vars
  PROVE  Inv'
<1>1. CASE User
  <2>1. ASSUME NEW b \in Buys, UserLocksUsdc(b) \/ UserRefundsUsdc(b)
        PROVE  Inv'
    BY <2>1, UsdcStep
  <2>2. ASSUME NEW b \in Buys, NEW k \in DOMAIN gbxLocks[b], UserClaimsGbx(b, k)
        PROVE  Inv'
    <3>1. UNCHANGED <<now, height, usdc>> /\ TodoServed
      BY <2>2 DEF UserClaimsGbx, TodoServed, world, daemon
    <3>2. gbxLocks' = [gbxLocks EXCEPT ![b][k].state = "claiming"]
      BY <2>2 DEF UserClaimsGbx
    <3> QED
      BY <3>1, <3>2, OneOutput DEF OutputStates
  <2>3. ASSUME NEW s \in Sells,
               \/ UserLocksGbx(s) \/ UserRefundsGbx(s)
               \/ \E k \in DOMAIN usdcLocks[s] : UserClaimsUsdc(s, k)
        PROVE  Inv'
    BY <2>3, QuietSteps DEF Swaps
  <2>4. ASSUME NEW s \in Swaps, PostIntent(s)
        PROVE  Inv'
    BY <2>4, QuietSteps
  <2> QED
    BY <1>1, <2>1, <2>2, <2>3, <2>4 DEF User
<1>2. CASE Tick
  BY <1>2, BlockStep
<1>3. CASE StartCycle \/ EndScan \/ Crash
  <2>1. CASE Swaps # {}
    BY <1>3, <2>1, QuietSteps
  <2>2. CASE Swaps = {}
    <3>1. UNCHANGED <<now, height, usdc, gbxLocks>>
      BY <1>3 DEF StartCycle, EndScan, Crash, world, chains
    <3>2. TodoServed
      BY <2>2 DEF TodoServed, Swaps
    <3> QED
      BY <3>1, <3>2, QuietStep
  <2> QED
    BY <2>1, <2>2
<1>4. ASSUME NEW s \in Swaps, LockGbx(s) PROVE Inv'
  BY <1>4, LockStep DEF LockGbx
<1>5. ASSUME NEW s \in Swaps, ClaimUsdc(s) PROVE Inv'
  <2>1. CASE s \in Buys
    BY <1>5, <2>1, UsdcStep
  <2>2. CASE s \notin Buys
    <3>1. UNCHANGED <<now, height, gbxLocks>> /\ TodoServed
      BY <1>5 DEF ClaimUsdc, Visited, Raise, Enter, TodoServed, world
    <3>2. usdc' = usdc
      <4>1. \/ UNCHANGED usdc \/ usdc' = [usdc EXCEPT ![s].state = "claimed"]
        BY <1>5 DEF ClaimUsdc
      <4> QED
        BY <2>2, <4>1 DEF Inv, Typed
    <3> QED
      BY <3>1, <3>2, QuietStep
  <2> QED
    BY <2>1, <2>2
<1>6. ASSUME NEW s \in Swaps, LookInMempool(s) \/ LookForRefund(s) \/ LockUsdc(s) \/ ClaimGbx(s)
      PROVE  Inv'
  BY <1>6, QuietSteps
<1>7. ASSUME NEW s \in Swaps, RefundGbx(s) PROVE Inv'
  <2>1. UNCHANGED <<now, height, usdc>> /\ TodoServed
    BY <1>7 DEF RefundGbx, Visited, Raise, Enter, TodoServed, world
  <2>2. CASE UNCHANGED gbxLocks
    BY <2>1, <2>2, QuietStep
  <2>3. CASE gbxLocks' = [gbxLocks EXCEPT ![s][mem.swaps[s].lock].state = "refunding"]
    <3>1. CASE s \in Buys
      BY <2>1, <2>3, <3>1, OneOutput DEF OutputStates
    <3>2. CASE s \notin Buys
      <4>1. gbxLocks' = gbxLocks
        BY <2>3, <3>2 DEF Inv, Typed
      <4> QED
        BY <2>1, <4>1, QuietStep
    <3> QED
      BY <3>1, <3>2
  <2> QED
    BY <1>7, <2>2, <2>3 DEF RefundGbx
<1>8. CASE UNCHANGED vars
  BY <1>8, QuietStep DEF vars, world, chains, daemon, TodoServed
<1> QED
  BY <1>1, <1>2, <1>3, <1>4, <1>5, <1>6, <1>7, <1>8 DEF Next, Daemon, Scan

LEMMA InitStep ==
  ASSUME Init
  PROVE  Inv
<1>1. Typed
  BY DEF Init, Typed
<1>2. Pace
  BY ConstantsAssumption DEF Init, Pace
<1> QED
  BY <1>1, <1>2 DEF Init, Inv, Served, Margin

(* The comment over _t2_from_t1: when a user can take the USDC back, every *)
(* GBX lock the daemon made for it can be taken back already.              *)
THEOREM T2AlwaysBeforeT1 == Spec => []T2BeforeT1
<1>1. Inv => T2BeforeT1
  <2> SUFFICES ASSUME Inv, NEW b \in Buys, NEW k \in DOMAIN gbxLocks[b], now >= usdc[b].t1
               PROVE  height >= gbxLocks[b][k].t2
    BY DEF T2BeforeT1
  <2>1. gbxLocks[b][k] \in Outputs /\ usdc[b].t1 \in Nat /\ MaxSlow \in Nat
    BY ConstantsAssumption DEF Inv, Typed
  <2>2. gbxLocks[b][k].t2 + MaxSlow <= now
    BY <2>1 DEF Inv, Margin, Typed, Outputs
  <2> QED
    BY <2>1, <2>2 DEF Inv, Typed, Pace, Outputs
<1> QED
  BY <1>1, InitStep, NextStep, PTL DEF Spec
-----------------------------------------------------------------------------
(* The state file.                                                         *)
EvmLocks == [state : LockStates, t2 : Nat]

(* What a record of a buy, or of a sell, says of the two locks.  A spend   *)
(* that was doubted once was a claim, which the next scan finds.           *)
BuyTrue(r, u, locks) ==
  /\ r.status \in {"none", "rejected", "gbx_locked", "completed", "refunded_by_lp",
                   "refunded_on_timelock", "evm_claim_failed"}
  /\ r.status \notin {"none", "rejected"} => r.lock \in DOMAIN locks
  /\ r.unres # 0 => r.unres = 1 /\ r.lock \in DOMAIN locks /\ locks[r.lock].state = "claimed"
  /\ r.status = "completed" => u.state = "claimed"
  /\ r.status \in {"refunded_by_lp", "refunded_on_timelock"} => locks[r.lock].state \in {"refunding", "refunded"}
  /\ r.status = "evm_claim_failed" => locks[r.lock].state = "claimed" /\ u.state \in {"claimed", "refunded"}
SellTrue(r, g, locks) ==
  /\ r.status \in {"none", "rejected", "usdc_locked", "completed", "refunded_by_lp"}
  /\ r.status \notin {"none", "rejected"} => r.lock \in DOMAIN locks
  /\ r.status = "completed" => g.state \in {"claiming", "claimed"}
  /\ r.status = "refunded_by_lp" => locks[r.lock].state = "refunded"

(* Both copies of the state.                                               *)
MemTrue ==
  /\ ~mem.halt
  /\ \A b \in Buys : BuyTrue(mem.swaps[b], usdc[b], gbxLocks[b])
  /\ \A s \in Sells : SellTrue(mem.swaps[s], gbx[s], usdcLocks[s])
DiskTrue ==
  /\ ~disk.halt
  /\ \A b \in Buys : BuyTrue(disk.swaps[b], usdc[b], gbxLocks[b])
  /\ \A s \in Sells : SellTrue(disk.swaps[s], gbx[s], usdcLocks[s])

(* What a scan knows of the swaps it still has to visit, and of those it   *)
(* looked up.                                                              *)
Agenda ==
  /\ pc = "idle" => mem = disk
  /\ pc = "lock_gbx" => todo \subseteq Buys
  /\ pc \in {"claim_usdc", "in_mempool", "via_refund", "refund_gbx"} =>
       todo \subseteq Buys /\ \A b \in todo : Status(b) = "gbx_locked"
  /\ pc \in {"in_mempool", "via_refund"} =>
       \E b \in todo : probe = {b} /\ mem.swaps[b].unres = 0 /\ Output(b).state # "unspent"
  /\ pc = "via_refund" => \A b \in probe : Output(b).state \in {"claimed", "refunded"}
  /\ pc = "lock_usdc" => todo \subseteq Sells
  /\ pc = "claim_gbx" =>
       /\ todo \subseteq Sells /\ \A s \in todo : Status(s) = "usdc_locked"
       /\ \A s \in probe : s \in Sells => \E k \in DOMAIN usdcLocks[s] : usdcLocks[s][k].state = "claimed"

(* One lock for the record in memory, and one for each restart and each    *)
(* lost answer.                                                            *)
Owed(r) == IF r.status = "none" THEN 0 ELSE 1
Counted ==
  /\ \A b \in Buys : Len(gbxLocks[b]) <= crashes + faults + Owed(mem.swaps[b])
  /\ \A s \in Sells : Len(usdcLocks[s]) <= crashes + faults + Owed(mem.swaps[s])

(* The type invariant without the history, which takes no part in it.      *)
StateTyped ==
  /\ now \in 0..MaxTime /\ height \in 0..MaxTime /\ lag \in 0..MaxLag
  /\ usdc \in [Buys -> [state : LockStates \cup {"none"}, t1 : Nat]]
  /\ gbxLocks \in [Buys -> Seq([state : OutputStates, t2 : Nat])]
  /\ gbx \in [Sells -> [state : OutputStates \cup {"none"}, t1 : Nat]]
  /\ usdcLocks \in [Sells -> Seq([state : LockStates, t2 : Nat])]
  /\ intents \subseteq Swaps
  /\ disk \in States /\ mem \in States
  /\ pc \in Scans /\ todo \subseteq Swaps /\ probe \subseteq Swaps
  /\ faults \in 0..MaxFaults /\ crashes \in 0..MaxCrashes

Sure == StateTyped /\ height <= now /\ MemTrue /\ DiskTrue /\ Agenda /\ TakesOnlyForGiven /\ Counted
-----------------------------------------------------------------------------
(* How the locks of a swap move: what is settled stays, and locks are added. *)
BuyOn(u, locks, v, more) ==
  /\ u.state = "claimed" => v.state = "claimed"
  /\ u.state = "refunded" => v.state = "refunded"
  /\ DOMAIN locks \subseteq DOMAIN more
  /\ \A k \in DOMAIN locks :
       /\ locks[k].state = "claimed" => more[k].state = "claimed"
       /\ locks[k].state = "refunded" => more[k].state = "refunded"
       /\ locks[k].state = "refunding" => more[k].state \in {"refunding", "refunded"}
       /\ locks[k].state # "unspent" => more[k].state # "unspent"
SellOn(g, locks, h, more) ==
  /\ g.state \in {"claiming", "claimed"} => h.state \in {"claiming", "claimed"}
  /\ DOMAIN locks \subseteq DOMAIN more
  /\ \A k \in DOMAIN locks :
       /\ locks[k].state = "claimed" => more[k].state = "claimed"
       /\ locks[k].state = "refunded" => more[k].state = "refunded"
Onward ==
  /\ \A b \in Buys : BuyOn(usdc[b], gbxLocks[b], usdc'[b], gbxLocks'[b])
  /\ \A s \in Sells : SellOn(gbx[s], usdcLocks[s], gbx'[s], usdcLocks'[s])

(* A record that is true stays so.                                         *)
LEMMA BuyStands ==
  ASSUME NEW r, NEW u, NEW locks, NEW v, NEW more, BuyTrue(r, u, locks), BuyOn(u, locks, v, more)
  PROVE  BuyTrue(r, v, more)
BY DEF BuyTrue, BuyOn

LEMMA SellStands ==
  ASSUME NEW r, NEW g, NEW locks, NEW h, NEW more, SellTrue(r, g, locks), SellOn(g, locks, h, more)
  PROVE  SellTrue(r, h, more)
BY DEF SellTrue, SellOn

LEMMA SameOn ==
  ASSUME NEW u, NEW locks
  PROVE  BuyOn(u, locks, u, locks) /\ SellOn(u, locks, u, locks)
BY DEF BuyOn, SellOn

LEMMA DiskStands == ASSUME Sure, Onward, UNCHANGED disk PROVE DiskTrue'
<1>1. \A b \in Buys : BuyTrue(disk.swaps[b], usdc'[b], gbxLocks'[b])
  BY BuyStands DEF Sure, DiskTrue, Onward
<1>2. \A s \in Sells : SellTrue(disk.swaps[s], gbx'[s], usdcLocks'[s])
  BY SellStands DEF Sure, DiskTrue, Onward
<1> QED
  BY <1>1, <1>2 DEF Sure, DiskTrue

(* All records but those of Own stay as they are, and those are true.      *)
LEMMA MemStands ==
  ASSUME Sure, Onward, mem'.halt = mem.halt, NEW Own,
         \A x \in Swaps \ Own : mem'.swaps[x] = mem.swaps[x],
         \A b \in Buys \cap Own : BuyTrue(mem'.swaps[b], usdc'[b], gbxLocks'[b]),
         \A s \in Sells \cap Own : SellTrue(mem'.swaps[s], gbx'[s], usdcLocks'[s])
  PROVE  MemTrue'
<1>1. \A b \in Buys : BuyTrue(mem'.swaps[b], usdc'[b], gbxLocks'[b])
  <2> SUFFICES ASSUME NEW b \in Buys \ Own PROVE BuyTrue(mem'.swaps[b], usdc'[b], gbxLocks'[b])
    OBVIOUS
  <2>1. mem'.swaps[b] = mem.swaps[b]
    BY DEF Swaps
  <2>2. BuyTrue(mem.swaps[b], usdc'[b], gbxLocks'[b])
    BY BuyStands DEF Sure, MemTrue, Onward
  <2> QED
    BY <2>1, <2>2
<1>2. \A s \in Sells : SellTrue(mem'.swaps[s], gbx'[s], usdcLocks'[s])
  <2> SUFFICES ASSUME NEW s \in Sells \ Own PROVE SellTrue(mem'.swaps[s], gbx'[s], usdcLocks'[s])
    OBVIOUS
  <2>1. mem'.swaps[s] = mem.swaps[s]
    BY DEF Swaps
  <2>2. SellTrue(mem.swaps[s], gbx'[s], usdcLocks'[s])
    BY SellStands DEF Sure, MemTrue, Onward
  <2> QED
    BY <2>1, <2>2
<1> QED
  BY <1>1, <1>2 DEF Sure, MemTrue

(* A leg that is taken anew is one for which the LP's was taken.           *)
Paid ==
  /\ \A b \in Buys : usdc'[b].state = "claimed" =>
       usdc[b].state = "claimed" \/ \E k \in DOMAIN gbxLocks[b] : gbxLocks[b][k].state = "claimed"
  /\ \A s \in Sells : gbx'[s].state \in {"claiming", "claimed"} =>
       gbx[s].state \in {"claiming", "claimed"} \/ \E k \in DOMAIN usdcLocks[s] : usdcLocks[s][k].state = "claimed"

LEMMA TakesStands == ASSUME Sure, Onward, Paid PROVE TakesOnlyForGiven'
<1>1. ASSUME NEW b \in Buys, usdc'[b].state = "claimed"
      PROVE  \E k \in DOMAIN gbxLocks'[b] : gbxLocks'[b][k].state = "claimed"
  <2>1. PICK k \in DOMAIN gbxLocks[b] : gbxLocks[b][k].state = "claimed"
    BY <1>1 DEF Sure, TakesOnlyForGiven, Paid
  <2> QED
    BY <2>1 DEF Onward, BuyOn
<1>2. ASSUME NEW s \in Sells, gbx'[s].state \in {"claiming", "claimed"}
      PROVE  \E k \in DOMAIN usdcLocks'[s] : usdcLocks'[s][k].state = "claimed"
  <2>1. PICK k \in DOMAIN usdcLocks[s] : usdcLocks[s][k].state = "claimed"
    BY <1>2 DEF Sure, TakesOnlyForGiven, Paid
  <2> QED
    BY <2>1 DEF Onward, SellOn
<1> QED
  BY <1>1, <1>2 DEF TakesOnlyForGiven

(* Counts of locks, when none is added and no record is new.               *)
LEMMA CountStands ==
  ASSUME Sure, crashes' \in Nat, faults' \in Nat, crashes' >= crashes, faults' >= faults,
         \A b \in Buys : Len(gbxLocks'[b]) = Len(gbxLocks[b]),
         \A s \in Sells : Len(usdcLocks'[s]) = Len(usdcLocks[s]),
         \/ \A x \in Swaps : mem'.swaps[x].status = "none" => mem.swaps[x].status = "none"
         \/ crashes' > crashes
  PROVE  Counted'
<1>1. crashes \in Nat /\ faults \in Nat
  BY ConstantsAssumption DEF Sure, StateTyped
<1>2. ASSUME NEW x \in Swaps, NEW n \in Nat, n <= crashes + faults + Owed(mem.swaps[x])
      PROVE  n <= crashes' + faults' + Owed(mem'.swaps[x])
  <2>1. PICK o \in {0, 1} : o = Owed(mem.swaps[x])
    BY DEF Owed
  <2>2. PICK p \in {0, 1} : p = Owed(mem'.swaps[x])
    BY DEF Owed
  <2>3. crashes' > crashes \/ (o = 1 => p = 1)
    <3>1. CASE \A y \in Swaps : mem'.swaps[y].status = "none" => mem.swaps[y].status = "none"
      <4>1. mem'.swaps[x].status = "none" => mem.swaps[x].status = "none"
        BY <3>1
      <4> QED
        BY <2>1, <2>2, <4>1 DEF Owed
    <3> QED
      BY <3>1
  <2>4. n <= crashes + faults + o
    BY <1>2, <2>1
  <2>5. n <= crashes' + faults' + p
    BY <1>1, <2>3, <2>4
  <2> QED
    BY <2>2, <2>5
<1>3. ASSUME NEW b \in Buys PROVE Len(gbxLocks'[b]) <= crashes' + faults' + Owed(mem'.swaps[b])
  <2>1. Len(gbxLocks[b]) \in Nat /\ Len(gbxLocks[b]) <= crashes + faults + Owed(mem.swaps[b]) /\ b \in Swaps
    BY DEF Sure, Counted, StateTyped, Swaps
  <2> QED
    BY <1>2, <2>1
<1>4. ASSUME NEW s \in Sells PROVE Len(usdcLocks'[s]) <= crashes' + faults' + Owed(mem'.swaps[s])
  <2>1. Len(usdcLocks[s]) \in Nat /\ Len(usdcLocks[s]) <= crashes + faults + Owed(mem.swaps[s]) /\ s \in Swaps
    BY DEF Sure, Counted, StateTyped, Swaps
  <2> QED
    BY <1>2, <2>1
<1> QED
  BY <1>3, <1>4 DEF Counted

(* A settled or moving lock: one state of a sequence of locks changes.     *)
Moved(s, k, v) == [s EXCEPT ![k].state = v]
LockSeqs(V) == Seq([state : V, t2 : Nat])
LEMMA StateOf ==
  ASSUME NEW V, NEW s \in LockSeqs(V), NEW k, NEW v \in V
  PROVE  /\ Moved(s, k, v) \in LockSeqs(V)
         /\ DOMAIN Moved(s, k, v) = DOMAIN s /\ Len(Moved(s, k, v)) = Len(s)
         /\ \A j \in DOMAIN s : Moved(s, k, v)[j].state = IF j = k THEN v ELSE s[j].state
<1> DEFINE L == [state : V, t2 : Nat]
           r == Moved(s, k, v)
<1>1. s \in [1 .. Len(s) -> L] /\ Len(s) \in Nat
  <2>1. s \in Seq(L)
    BY DEF LockSeqs
  <2> HIDE DEF L
  <2> QED
    BY <2>1
<1>2. r \in [1 .. Len(s) -> L]
  BY <1>1 DEF Moved
<1>3. r \in Seq(L) /\ Len(r) = Len(s)
  <2> HIDE DEF L, r
  <2> QED
    BY <1>1, <1>2
<1>4. \A j \in DOMAIN s : r[j].state = IF j = k THEN v ELSE s[j].state
  BY <1>1 DEF Moved
<1> QED
  BY <1>1, <1>2, <1>3, <1>4 DEF LockSeqs

(* The two ways in which a scan writes a record.                           *)
LEMMA StatusSet ==
  ASSUME mem \in States, NEW s \in Swaps, NEW status \in Statuses, SetStatus(s, status)
  PROVE  /\ mem' \in States /\ mem'.halt = mem.halt
         /\ \A x \in Swaps \ {s} : mem'.swaps[x] = mem.swaps[x]
         /\ mem'.swaps[s].status = status /\ mem'.swaps[s].lock = mem.swaps[s].lock
         /\ mem'.swaps[s].unres = mem.swaps[s].unres
BY DEF SetStatus, States, Records

LEMMA RecordMade ==
  ASSUME mem \in States, NEW s \in Swaps, NEW status \in Statuses, NEW lock \in Nat, Record(s, status, lock)
  PROVE  /\ mem' \in States /\ mem'.halt = mem.halt
         /\ \A x \in Swaps \ {s} : mem'.swaps[x] = mem.swaps[x]
         /\ mem'.swaps[s].status = status /\ mem'.swaps[s].lock = lock /\ mem'.swaps[s].unres = 0
<1> DEFINE n == Cardinality({r \in Swaps : mem.swaps[r].status # "none"}) + 1
<1>1. n \in Nat
  <2>1. IsFiniteSet(Swaps)
    BY ConstantsAssumption, FS_Union DEF Swaps
  <2>2. IsFiniteSet({r \in Swaps : mem.swaps[r].status # "none"})
    BY <2>1, FS_Subset
  <2> QED
    BY <2>2, FS_CardinalityType
<1>2. mem' = [mem EXCEPT !.swaps[s] = [status |-> status, lock |-> lock, unres |-> 0, order |-> n]]
  BY DEF Record
<1> HIDE DEF n
<1> QED
  BY <1>1, <1>2 DEF States, Records
-----------------------------------------------------------------------------
(* The same scan goes on, with no more swaps than before.                  *)
LEMMA AgendaStands ==
  ASSUME Sure, Onward, pc' = pc, todo' \subseteq todo, probe' = probe,
         \A x \in todo' : mem'.swaps[x] = mem.swaps[x],
         pc \in {"in_mempool", "via_refund"} => todo' = todo,
         pc = "idle" => UNCHANGED <<mem, disk>>
  PROVE  Agenda'
<1>1. ASSUME pc \in {"claim_usdc", "in_mempool", "via_refund", "refund_gbx"}
      PROVE  todo' \subseteq Buys /\ \A b \in todo' : mem'.swaps[b].status = "gbx_locked"
  BY <1>1 DEF Sure, Agenda, Status
<1>2. ASSUME NEW b \in todo, todo' = todo, pc \in {"in_mempool", "via_refund"}
      PROVE  /\ mem'.swaps[b].lock \in DOMAIN gbxLocks[b]
             /\ BuyOn(usdc[b], gbxLocks[b], usdc'[b], gbxLocks'[b])
             /\ mem'.swaps[b] = mem.swaps[b]
  <2>1. b \in Buys /\ mem.swaps[b].status = "gbx_locked"
    BY <1>2 DEF Sure, Agenda, Status
  <2>2. BuyTrue(mem.swaps[b], usdc[b], gbxLocks[b])
    BY <2>1 DEF Sure, MemTrue
  <2> QED
    BY <1>2, <2>1, <2>2 DEF BuyTrue, Onward
<1>3. ASSUME pc \in {"in_mempool", "via_refund"}
      PROVE  \E b \in todo' : probe' = {b} /\ mem'.swaps[b].unres = 0 /\ gbxLocks'[b][mem'.swaps[b].lock].state # "unspent"
  <2>1. PICK b \in todo : probe = {b} /\ mem.swaps[b].unres = 0 /\ gbxLocks[b][mem.swaps[b].lock].state # "unspent"
    BY <1>3 DEF Sure, Agenda, Output
  <2> QED
    BY <1>2, <1>3, <2>1 DEF BuyOn
<1>4. ASSUME pc = "via_refund"
      PROVE  \A b \in probe' : gbxLocks'[b][mem'.swaps[b].lock].state \in {"claimed", "refunded"}
  <2> SUFFICES ASSUME NEW b \in probe
               PROVE  gbxLocks'[b][mem'.swaps[b].lock].state \in {"claimed", "refunded"}
    OBVIOUS
  <2>1. b \in todo /\ gbxLocks[b][mem.swaps[b].lock].state \in {"claimed", "refunded"}
    BY <1>4 DEF Sure, Agenda, Output
  <2> QED
    BY <1>2, <1>4, <2>1 DEF BuyOn
<1>5. ASSUME pc = "claim_gbx"
      PROVE  /\ todo' \subseteq Sells /\ \A s \in todo' : mem'.swaps[s].status = "usdc_locked"
             /\ \A s \in probe' : s \in Sells => \E k \in DOMAIN usdcLocks'[s] : usdcLocks'[s][k].state = "claimed"
  <2>1. todo' \subseteq Sells /\ \A s \in todo' : mem'.swaps[s].status = "usdc_locked"
    BY <1>5 DEF Sure, Agenda, Status
  <2>2. ASSUME NEW s \in probe', s \in Sells
        PROVE  \E k \in DOMAIN usdcLocks'[s] : usdcLocks'[s][k].state = "claimed"
    <3>1. PICK k \in DOMAIN usdcLocks[s] : usdcLocks[s][k].state = "claimed"
      BY <1>5, <2>2 DEF Sure, Agenda
    <3> QED
      BY <2>2, <3>1 DEF Onward, SellOn
  <2> QED
    BY <2>1, <2>2
<1> QED
  BY <1>1, <1>3, <1>4, <1>5 DEF Sure, Agenda, Status, Output

(* A step of the world: the daemon stands still.                           *)
LEMMA WorldStep ==
  ASSUME Sure, StateTyped', height' <= now', UNCHANGED <<daemon, faults, crashes>>, Onward, Paid,
         \A b \in Buys : Len(gbxLocks'[b]) = Len(gbxLocks[b]),
         \A s \in Sells : Len(usdcLocks'[s]) = Len(usdcLocks[s])
  PROVE  Sure'
<1>1. DiskTrue' /\ TakesOnlyForGiven'
  BY DiskStands, TakesStands DEF daemon
<1>2. MemTrue'
  <2>1. \A b \in Buys : BuyTrue(mem'.swaps[b], usdc'[b], gbxLocks'[b])
    BY BuyStands DEF Sure, MemTrue, Onward, daemon
  <2>2. \A s \in Sells : SellTrue(mem'.swaps[s], gbx'[s], usdcLocks'[s])
    BY SellStands DEF Sure, MemTrue, Onward, daemon
  <2> QED
    BY <2>1, <2>2 DEF Sure, MemTrue, daemon
<1>3. Agenda'
  BY AgendaStands DEF daemon
<1>4. Counted'
  <2>1. crashes \in Nat /\ faults \in Nat
    BY ConstantsAssumption DEF Sure, StateTyped
  <2> QED
    BY <2>1, CountStands DEF daemon
<1> QED
  BY <1>1, <1>2, <1>3, <1>4 DEF Sure
(* A scan is done with the swap s, whose record it may have changed and    *)
(* saved.                                                                  *)
LEMMA VisitStep ==
  ASSUME Sure, StateTyped', UNCHANGED <<now, height>>, Onward, Paid, Counted',
         NEW s \in Swaps, Visited(s),
         pc \in {"lock_gbx", "claim_usdc", "lock_usdc", "claim_gbx", "refund_gbx"},
         UNCHANGED disk \/ disk' = mem', mem'.halt = mem.halt,
         \A x \in Swaps \ {s} : mem'.swaps[x] = mem.swaps[x],
         s \in Buys => BuyTrue(mem'.swaps[s], usdc'[s], gbxLocks'[s]),
         s \in Sells => SellTrue(mem'.swaps[s], gbx'[s], usdcLocks'[s])
  PROVE  Sure'
<1>1. MemTrue'
  <2> DEFINE Own == {s}
  <2>1. \A x \in Swaps \ Own : mem'.swaps[x] = mem.swaps[x]
    OBVIOUS
  <2>2. \A b \in Buys \cap Own : BuyTrue(mem'.swaps[b], usdc'[b], gbxLocks'[b])
    OBVIOUS
  <2>3. \A x \in Sells \cap Own : SellTrue(mem'.swaps[x], gbx'[x], usdcLocks'[x])
    OBVIOUS
  <2> HIDE DEF Own
  <2> QED
    BY <2>1, <2>2, <2>3, MemStands
<1>2. DiskTrue'
  <2>1. CASE UNCHANGED disk
    BY <2>1, DiskStands
  <2>2. CASE disk' = mem'
    BY <1>1, <2>2 DEF MemTrue, DiskTrue
  <2> QED
    BY <2>1, <2>2
<1>3. Agenda'
  <2>1. todo' \subseteq todo /\ pc' = pc /\ probe' = probe /\ s \notin todo'
    BY DEF Visited
  <2>2. \A x \in todo' : mem'.swaps[x] = mem.swaps[x]
    BY <2>1 DEF Sure, StateTyped
  <2> QED
    BY <2>1, <2>2, AgendaStands
<1> QED
  BY <1>1, <1>2, <1>3, TakesStands DEF Sure

(* An exception ends the scans of this chain.                              *)
Raised ==
  /\ pc' = "refund_gbx" /\ probe' = {}
  /\ todo' \subseteq Buys /\ \A b \in todo' : mem.swaps[b].status = "gbx_locked"

LEMMA Raises == ASSUME NEW s, Raise(s) \/ RaiseUnrecorded(s) PROVE Raised
BY DEF Raise, RaiseUnrecorded, Raised, Enter, WithStatus

LEMMA RaiseStep ==
  ASSUME Sure, StateTyped', UNCHANGED <<now, height, mem, disk>>, Onward, Paid, Counted', Raised
  PROVE  Sure'
<1>1. MemTrue'
  <2>1. \A b \in Buys : BuyTrue(mem'.swaps[b], usdc'[b], gbxLocks'[b])
    BY BuyStands DEF Sure, MemTrue, Onward
  <2>2. \A s \in Sells : SellTrue(mem'.swaps[s], gbx'[s], usdcLocks'[s])
    BY SellStands DEF Sure, MemTrue, Onward
  <2> QED
    BY <2>1, <2>2 DEF Sure, MemTrue
<1>2. pc' = "refund_gbx" /\ todo' \subseteq Buys /\ \A b \in todo' : mem'.swaps[b].status = "gbx_locked"
  BY DEF Raised
<1>3. Agenda'
  BY <1>2 DEF Agenda, Status
<1> QED
  BY <1>1, <1>3, DiskStands, TakesStands DEF Sure
-----------------------------------------------------------------------------
(* The users, the blocks and the clock.                                    *)
LEMMA UsdcMoves ==
  ASSUME Sure, NEW b \in Buys, UserLocksUsdc(b) \/ UserRefundsUsdc(b)
  PROVE  Sure'
<1>1. usdc \in [Buys -> [state : LockStates \cup {"none"}, t1 : Nat]] /\ now \in Nat
  BY ConstantsAssumption DEF Sure, StateTyped
<1>2. /\ usdc' \in [Buys -> [state : LockStates \cup {"none"}, t1 : Nat]]
      /\ usdc'[b].state # "claimed" /\ usdc[b].state \notin {"claimed", "refunded"}
      /\ \A x \in Buys \ {b} : usdc'[x] = usdc[x]
  <2>1. CASE UserLocksUsdc(b)
    <3>1. PICK d \in BuyT1 : usdc' = [usdc EXCEPT ![b] = [state |-> "locked", t1 |-> now + d]]
      BY <2>1 DEF UserLocksUsdc
    <3>2. now + d \in Nat
      BY <1>1, ConstantsAssumption
    <3> QED
      BY <1>1, <2>1, <3>1, <3>2 DEF UserLocksUsdc, LockStates
  <2>2. CASE UserRefundsUsdc(b)
    BY <1>1, <2>2 DEF UserRefundsUsdc, LockStates
  <2> QED
    BY <2>1, <2>2
<1>3. UNCHANGED <<world, gbxLocks, gbx, usdcLocks, daemon, faults, crashes>>
  BY DEF UserLocksUsdc, UserRefundsUsdc
<1>4. Onward
  <2>1. \A x \in Buys : BuyOn(usdc[x], gbxLocks[x], usdc'[x], gbxLocks'[x])
    BY <1>2, <1>3, SameOn DEF BuyOn
  <2> QED
    BY <1>3, <2>1, SameOn DEF Onward
<1>5. Paid
  BY <1>2, <1>3 DEF Paid
<1>6. StateTyped'
  BY <1>2, <1>3 DEF Sure, StateTyped, world, daemon
<1> QED
  BY <1>3, <1>4, <1>5, <1>6, WorldStep DEF Sure, world

LEMMA GbxMoves ==
  ASSUME Sure, NEW s \in Sells, UserLocksGbx(s) \/ UserRefundsGbx(s)
  PROVE  Sure'
<1>1. gbx \in [Sells -> [state : OutputStates \cup {"none"}, t1 : Nat]] /\ \A d \in SellT1 : height + d \in Nat
  <2>1. height \in Nat /\ SellT1 \subseteq Nat
    BY ConstantsAssumption DEF Sure, StateTyped
  <2> QED
    BY <2>1 DEF Sure, StateTyped
<1>2. /\ gbx' \in [Sells -> [state : OutputStates \cup {"none"}, t1 : Nat]]
      /\ gbx'[s].state \notin {"claiming", "claimed"} /\ gbx[s].state \notin {"claiming", "claimed"}
      /\ \A x \in Sells \ {s} : gbx'[x] = gbx[x]
  <2>1. CASE UserLocksGbx(s)
    <3>1. PICK d \in SellT1 : gbx' = [gbx EXCEPT ![s] = [state |-> "unspent", t1 |-> height + d]]
      BY <2>1 DEF UserLocksGbx
    <3>2. gbx[s].state = "none" /\ height + d \in Nat
      BY <1>1, <2>1 DEF UserLocksGbx
    <3> QED
      BY <1>1, <3>1, <3>2 DEF OutputStates
  <2>2. CASE UserRefundsGbx(s)
    <3>1. gbx[s].state = "unspent" /\ gbx' = [gbx EXCEPT ![s].state = "refunding"]
      BY <2>2 DEF UserRefundsGbx
    <3> QED
      BY <1>1, <3>1 DEF OutputStates
  <2> QED
    BY <2>1, <2>2
<1>3. UNCHANGED <<world, usdc, gbxLocks, usdcLocks, daemon, faults, crashes>>
  BY DEF UserLocksGbx, UserRefundsGbx
<1>4. Onward
  <2>1. \A x \in Sells : SellOn(gbx[x], usdcLocks[x], gbx'[x], usdcLocks'[x])
    BY <1>2, <1>3, SameOn DEF SellOn
  <2> QED
    BY <1>3, <2>1, SameOn DEF Onward
<1>5. Paid
  BY <1>2, <1>3 DEF Paid
<1>6. StateTyped'
  BY <1>2, <1>3 DEF Sure, StateTyped, world, daemon
<1> QED
  BY <1>3, <1>4, <1>5, <1>6, WorldStep DEF Sure, world
(* One lock of a buy, or of a sell, changes its state.                     *)
LEMMA OutputSet ==
  ASSUME Sure, NEW b \in Buys, NEW k \in DOMAIN gbxLocks[b], NEW v \in OutputStates,
         gbxLocks[b][k].state = "unspent", v # "unspent",
         gbxLocks' = [gbxLocks EXCEPT ![b][k].state = v]
  PROVE  /\ gbxLocks' \in [Buys -> Seq(Outputs)]
         /\ \A x \in Buys : /\ DOMAIN gbxLocks'[x] = DOMAIN gbxLocks[x] /\ Len(gbxLocks'[x]) = Len(gbxLocks[x])
                            /\ BuyOn(usdc[x], gbxLocks[x], usdc[x], gbxLocks'[x])
         /\ gbxLocks'[b][k].state = v
<1>1. gbxLocks \in [Buys -> Seq(Outputs)] /\ gbxLocks[b] \in Seq(Outputs)
  BY DEF Sure, StateTyped, Outputs
<1> DEFINE one == Moved(gbxLocks[b], k, v)
<1>2. /\ one \in Seq(Outputs) /\ DOMAIN one = DOMAIN gbxLocks[b] /\ Len(one) = Len(gbxLocks[b])
      /\ \A j \in DOMAIN gbxLocks[b] : one[j].state = IF j = k THEN v ELSE gbxLocks[b][j].state
  <2>1. gbxLocks[b] \in LockSeqs(OutputStates)
    BY <1>1 DEF LockSeqs, Outputs
  <2>2. LockSeqs(OutputStates) = Seq(Outputs)
    BY DEF LockSeqs, Outputs
  <2> QED
    BY <2>1, <2>2, StateOf
<1>3. gbxLocks' = [gbxLocks EXCEPT ![b] = one]
  BY DEF Moved
<1> HIDE DEF one
<1>4. gbxLocks' \in [Buys -> Seq(Outputs)] /\ gbxLocks'[b] = one /\ \A x \in Buys \ {b} : gbxLocks'[x] = gbxLocks[x]
  BY <1>1, <1>2, <1>3
<1>5. BuyOn(usdc[b], gbxLocks[b], usdc[b], one)
  BY <1>2 DEF BuyOn
<1>6. \A x \in Buys \ {b} : BuyOn(usdc[x], gbxLocks[x], usdc[x], gbxLocks'[x])
  BY <1>4, SameOn
<1> QED
  BY <1>2, <1>4, <1>5, <1>6

LEMMA LockSet ==
  ASSUME Sure, NEW s \in Sells, NEW k \in DOMAIN usdcLocks[s], NEW v \in LockStates,
         usdcLocks[s][k].state = "locked",
         usdcLocks' = [usdcLocks EXCEPT ![s][k].state = v]
  PROVE  /\ usdcLocks' \in [Sells -> Seq(EvmLocks)]
         /\ \A x \in Sells : /\ DOMAIN usdcLocks'[x] = DOMAIN usdcLocks[x] /\ Len(usdcLocks'[x]) = Len(usdcLocks[x])
                             /\ SellOn(gbx[x], usdcLocks[x], gbx[x], usdcLocks'[x])
         /\ usdcLocks'[s][k].state = v
<1>1. usdcLocks \in [Sells -> Seq(EvmLocks)] /\ usdcLocks[s] \in Seq(EvmLocks)
  BY DEF Sure, StateTyped, EvmLocks
<1> DEFINE one == Moved(usdcLocks[s], k, v)
<1>2. /\ one \in Seq(EvmLocks) /\ DOMAIN one = DOMAIN usdcLocks[s] /\ Len(one) = Len(usdcLocks[s])
      /\ \A j \in DOMAIN usdcLocks[s] : one[j].state = IF j = k THEN v ELSE usdcLocks[s][j].state
  <2>1. usdcLocks[s] \in LockSeqs(LockStates)
    BY <1>1 DEF LockSeqs, EvmLocks
  <2>2. LockSeqs(LockStates) = Seq(EvmLocks)
    BY DEF LockSeqs, EvmLocks
  <2> QED
    BY <2>1, <2>2, StateOf
<1>3. usdcLocks' = [usdcLocks EXCEPT ![s] = one]
  BY DEF Moved
<1> HIDE DEF one
<1>4. usdcLocks' \in [Sells -> Seq(EvmLocks)] /\ usdcLocks'[s] = one /\ \A x \in Sells \ {s} : usdcLocks'[x] = usdcLocks[x]
  BY <1>1, <1>2, <1>3
<1>5. SellOn(gbx[s], usdcLocks[s], gbx[s], one)
  BY <1>2 DEF SellOn
<1>6. \A x \in Sells \ {s} : SellOn(gbx[x], usdcLocks[x], gbx[x], usdcLocks'[x])
  BY <1>4, SameOn
<1> QED
  BY <1>2, <1>4, <1>5, <1>6

LEMMA UserClaims ==
  ASSUME Sure
  PROVE  /\ \A b \in Buys : \A k \in DOMAIN gbxLocks[b] : UserClaimsGbx(b, k) => Sure'
         /\ \A s \in Sells : \A k \in DOMAIN usdcLocks[s] : UserClaimsUsdc(s, k) => Sure'
<1>1. ASSUME NEW b \in Buys, NEW k \in DOMAIN gbxLocks[b], UserClaimsGbx(b, k)
      PROVE  Sure'
  <2>1. UNCHANGED <<world, usdc, gbx, usdcLocks, daemon, faults, crashes>>
    BY <1>1 DEF UserClaimsGbx
  <2>2. /\ gbxLocks' \in [Buys -> Seq(Outputs)]
        /\ \A x \in Buys : /\ Len(gbxLocks'[x]) = Len(gbxLocks[x])
                           /\ BuyOn(usdc[x], gbxLocks[x], usdc[x], gbxLocks'[x])
    BY <1>1, OutputSet DEF UserClaimsGbx, OutputStates
  <2>3. Onward
    BY <2>1, <2>2, SameOn DEF Onward
  <2>4. Paid
    BY <2>1 DEF Paid
  <2>5. StateTyped'
    BY <2>1, <2>2 DEF Sure, StateTyped, Outputs, world, daemon
  <2> QED
    BY <2>1, <2>2, <2>3, <2>4, <2>5, WorldStep DEF Sure, world
<1>2. ASSUME NEW s \in Sells, NEW k \in DOMAIN usdcLocks[s], UserClaimsUsdc(s, k)
      PROVE  Sure'
  <2>1. UNCHANGED <<world, usdc, gbxLocks, gbx, daemon, faults, crashes>>
    BY <1>2 DEF UserClaimsUsdc
  <2>2. /\ usdcLocks' \in [Sells -> Seq(EvmLocks)]
        /\ \A x \in Sells : /\ Len(usdcLocks'[x]) = Len(usdcLocks[x])
                            /\ SellOn(gbx[x], usdcLocks[x], gbx[x], usdcLocks'[x])
    BY <1>2, LockSet DEF UserClaimsUsdc, LockStates
  <2>3. Onward
    BY <2>1, <2>2, SameOn DEF Onward
  <2>4. Paid
    BY <2>1 DEF Paid
  <2>5. StateTyped'
    BY <2>1, <2>2 DEF Sure, StateTyped, EvmLocks, world, daemon
  <2> QED
    BY <2>1, <2>2, <2>3, <2>4, <2>5, WorldStep DEF Sure, world
<1> QED
  BY <1>1, <1>2
(* What a block does to one sequence of outputs.                           *)
Confirm(s) == [k \in DOMAIN s |-> [s[k] EXCEPT !.state = Confirmed(@)]]

LEMMA ConfirmedStates ==
  /\ \A v \in OutputStates : Confirmed(v) \in OutputStates
  /\ Confirmed("none") = "none" /\ Confirmed("claimed") = "claimed" /\ Confirmed("refunded") = "refunded"
  /\ Confirmed("refunding") = "refunded" /\ Confirmed("claiming") = "claimed" /\ Confirmed("unspent") = "unspent"
BY DEF Confirmed, OutputStates

LEMMA Confirms ==
  ASSUME NEW s \in Seq(Outputs), NEW u
  PROVE  Confirm(s) \in Seq(Outputs) /\ Len(Confirm(s)) = Len(s) /\ BuyOn(u, s, u, Confirm(s))
<1>1. s \in [1 .. Len(s) -> Outputs] /\ Len(s) \in Nat
  OBVIOUS
<1>2. ASSUME NEW k \in DOMAIN s
      PROVE  /\ Confirm(s)[k] \in Outputs /\ Confirm(s)[k].state = Confirmed(s[k].state)
             /\ s[k].state \in OutputStates
  <2>1. s[k] \in Outputs
    BY <1>1
  <2>2. Confirmed(s[k].state) \in OutputStates
    BY <2>1, ConfirmedStates DEF Outputs
  <2>3. Confirm(s)[k] = [s[k] EXCEPT !.state = Confirmed(s[k].state)]
    BY DEF Confirm
  <2> QED
    BY <2>1, <2>2, <2>3 DEF Outputs
<1>3. Confirm(s) \in [1 .. Len(s) -> Outputs]
  BY <1>1, <1>2 DEF Confirm
<1>4. BuyOn(u, s, u, Confirm(s))
  <2>1. DOMAIN Confirm(s) = DOMAIN s
    BY DEF Confirm
  <2> QED
    BY <1>2, <2>1, ConfirmedStates DEF BuyOn, OutputStates
<1> QED
  BY <1>1, <1>3, <1>4

LEMMA BlockMoves ==
  ASSUME Sure, Block
  PROVE  /\ gbxLocks' \in [Buys -> Seq(Outputs)]
         /\ gbx' \in [Sells -> [state : OutputStates \cup {"none"}, t1 : Nat]]
         /\ \A b \in Buys : Len(gbxLocks'[b]) = Len(gbxLocks[b])
         /\ Onward /\ Paid
<1>1. gbxLocks \in [Buys -> Seq(Outputs)] /\ gbx \in [Sells -> [state : OutputStates \cup {"none"}, t1 : Nat]]
  BY DEF Sure, StateTyped, Outputs
<1>2. gbxLocks' = [b \in Buys |-> Confirm(gbxLocks[b])] /\ UNCHANGED <<usdc, usdcLocks>>
  BY DEF Block, Confirm
<1>3. ASSUME NEW b \in Buys
      PROVE  /\ gbxLocks'[b] \in Seq(Outputs) /\ Len(gbxLocks'[b]) = Len(gbxLocks[b])
             /\ BuyOn(usdc[b], gbxLocks[b], usdc'[b], gbxLocks'[b])
  <2>1. gbxLocks[b] \in Seq(Outputs) /\ gbxLocks'[b] = Confirm(gbxLocks[b])
    BY <1>1, <1>2
  <2> QED
    BY <1>2, <2>1, Confirms
<1>4. ASSUME NEW s \in Sells
      PROVE  /\ gbx'[s] \in [state : OutputStates \cup {"none"}, t1 : Nat]
             /\ gbx'[s].state = Confirmed(gbx[s].state) /\ gbx[s].state \in OutputStates \cup {"none"}
  <2>1. gbx'[s] = [gbx[s] EXCEPT !.state = Confirmed(gbx[s].state)]
    BY DEF Block
  <2>2. Confirmed(gbx[s].state) \in OutputStates \cup {"none"}
    BY <1>1, ConfirmedStates
  <2> QED
    BY <1>1, <2>1, <2>2
<1>5. ASSUME NEW s \in Sells
      PROVE  gbx'[s].state \in {"claiming", "claimed"} <=> gbx[s].state \in {"claiming", "claimed"}
  BY <1>4, ConfirmedStates DEF OutputStates
<1>6. Onward
  BY <1>2, <1>3, <1>5, SameOn DEF Onward, SellOn
<1>7. Paid
  BY <1>2, <1>5 DEF Paid
<1>8. gbx' \in [Sells -> [state : OutputStates \cup {"none"}, t1 : Nat]]
  BY <1>4 DEF Block
<1> QED
  BY <1>2, <1>3, <1>6, <1>7, <1>8

LEMMA TimePasses == ASSUME Sure, Tick PROVE Sure'
<1>1. now \in Nat /\ height \in Nat /\ lag \in Nat /\ MaxTime \in Nat /\ MaxLag \in Nat /\ height <= now
  BY ConstantsAssumption DEF Sure, StateTyped
<1>2. now' \in 0 .. MaxTime /\ lag' \in 0 .. MaxLag /\ now' = now + 1
  BY <1>1 DEF Tick
<1>3. UNCHANGED <<daemon, faults, crashes>>
  BY DEF Tick
<1>4. CASE Block
  <2>1. height' \in 0 .. MaxTime /\ height' <= now'
    BY <1>1, <1>2, <1>4 DEF Block, Tick
  <2>2. StateTyped'
    BY <1>2, <1>3, <1>4, <2>1, BlockMoves DEF Sure, StateTyped, Outputs, Block, daemon
  <2> QED
    BY <1>3, <1>4, <2>1, <2>2, BlockMoves, WorldStep DEF Block
<1>5. CASE UNCHANGED <<height, chains>>
  <2>1. height' \in 0 .. MaxTime /\ height' <= now'
    BY <1>1, <1>2, <1>5 DEF Sure, StateTyped
  <2>2. StateTyped'
    BY <1>2, <1>3, <1>5, <2>1 DEF Sure, StateTyped, chains, daemon
  <2>3. Onward /\ Paid
    BY <1>5, SameOn DEF Onward, Paid, chains
  <2> QED
    BY <1>3, <1>5, <2>1, <2>2, <2>3, WorldStep DEF chains
<1> QED
  BY <1>4, <1>5 DEF Tick
-----------------------------------------------------------------------------
(* The cycle: its start, the ends of its scans, a restart.                 *)
LEMMA ChainsStill ==
  ASSUME Sure, UNCHANGED chains
  PROVE  Onward /\ Paid /\ TakesOnlyForGiven'
BY SameOn DEF Onward, Paid, chains, Sure, TakesOnlyForGiven

LEMMA CountsStill ==
  ASSUME Sure, UNCHANGED <<chains, faults>>, crashes' \in Nat,
         \/ UNCHANGED crashes /\ \A x \in Swaps : mem'.swaps[x].status = "none" => mem.swaps[x].status = "none"
         \/ crashes' > crashes
  PROVE  Counted'
<1>1. crashes \in Nat /\ faults \in Nat
  BY ConstantsAssumption DEF Sure, StateTyped
<1>2. crashes' >= crashes
  BY <1>1
<1> QED
  BY <1>1, <1>2, CountStands DEF chains

LEMMA Starts == ASSUME Sure, StartCycle PROVE Sure'
<1>1. UNCHANGED <<now, height, chains, intents, disk, faults, crashes>> /\ mem' = disk /\ mem = disk
  BY DEF StartCycle, Sure, Agenda
<1>2. crashes \in Nat /\ Counted'
  <2>1. crashes \in Nat
    BY ConstantsAssumption DEF Sure, StateTyped
  <2> QED
    BY <1>1, <2>1, CountsStill
<1>3. DiskTrue' /\ MemTrue' /\ TakesOnlyForGiven'
  BY <1>1, ChainsStill, DiskStands DEF DiskTrue, MemTrue
<1>4. \/ UNCHANGED <<pc, todo, probe>>
      \/ pc' = "lock_gbx" /\ todo' \subseteq Buys /\ probe' = {}
      \/ /\ pc' = "refund_gbx" /\ todo' \subseteq Buys /\ probe' = {}
         /\ \A b \in todo' : mem'.swaps[b].status = "gbx_locked"
  BY DEF StartCycle, Enter
<1>5. lag' \in 0 .. MaxLag
  <2>1. lag' = lag \/ lag' = 0
    BY DEF StartCycle
  <2>2. lag \in 0 .. MaxLag /\ MaxLag \in Nat
    BY ConstantsAssumption DEF Sure, StateTyped
  <2> QED
    BY <2>1, <2>2
<1>6. StateTyped'
  BY <1>1, <1>4, <1>5 DEF Sure, StateTyped, chains, Scans, Swaps
<1>7. Agenda'
  BY <1>1, <1>4 DEF StartCycle, Agenda, Status
<1> QED
  BY <1>1, <1>2, <1>3, <1>6, <1>7 DEF Sure

LEMMA Restarts == ASSUME Sure, Crash PROVE Sure'
<1>1. UNCHANGED <<world, chains, intents, disk, faults>> /\ mem' = disk
  BY DEF Crash
<1>2. crashes' \in 0 .. MaxCrashes /\ crashes' > crashes /\ crashes' \in Nat
  <2>1. crashes \in 0 .. MaxCrashes /\ MaxCrashes \in Nat
    BY ConstantsAssumption DEF Sure, StateTyped
  <2> QED
    BY <2>1 DEF Crash
<1>3. pc' = "idle" /\ todo' = {} /\ probe' = {}
  BY DEF Crash, Enter
<1>4. DiskTrue' /\ MemTrue' /\ TakesOnlyForGiven'
  BY <1>1, ChainsStill, DiskStands DEF DiskTrue, MemTrue
<1>5. Counted'
  BY <1>1, <1>2, CountsStill
<1>6. StateTyped'
  BY <1>1, <1>2, <1>3 DEF Sure, StateTyped, world, chains, Scans
<1>7. Agenda'
  BY <1>1, <1>3 DEF Agenda
<1> QED
  BY <1>1, <1>4, <1>5, <1>6, <1>7 DEF Sure, world

LEMMA Ends == ASSUME Sure, EndScan PROVE Sure'
<1>1. UNCHANGED <<now, height, chains, intents, mem, faults, crashes>> /\ disk' = mem
  BY DEF EndScan, SaveState
<1>2. Onward /\ Paid /\ TakesOnlyForGiven'
  BY <1>1, ChainsStill
<1>3. MemTrue' /\ DiskTrue'
  BY <1>1 DEF Sure, MemTrue, DiskTrue, chains
<1>4. Counted'
  BY <1>1 DEF Sure, Counted, chains
<1>5. lag' \in 0 .. MaxLag
  <2>1. lag' = lag \/ lag' = 0
    BY DEF EndScan
  <2>2. lag \in 0 .. MaxLag /\ MaxLag \in Nat
    BY ConstantsAssumption DEF Sure, StateTyped
  <2> QED
    BY <2>1, <2>2
<1>6. \A s \in WithStatus("usdc_locked") : s \in Sells /\ mem.swaps[s].lock \in DOMAIN usdcLocks[s]
  <2> SUFFICES ASSUME NEW s \in Swaps, mem.swaps[s].status = "usdc_locked"
               PROVE  s \in Sells /\ mem.swaps[s].lock \in DOMAIN usdcLocks[s]
    BY DEF WithStatus
  <2>1. s \notin Buys
    BY DEF Sure, MemTrue, BuyTrue
  <2> QED
    BY <2>1 DEF Swaps, Sure, MemTrue, SellTrue
<1>7. /\ pc' \in Scans /\ todo' \subseteq Swaps /\ probe' \subseteq Swaps
      /\ Agenda'
  <2>1. CASE pc' = "claim_usdc" \/ pc' = "refund_gbx"
    <3>1. todo' \subseteq Buys /\ probe' = {} /\ \A b \in todo' : mem.swaps[b].status = "gbx_locked"
      BY <2>1 DEF EndScan, Enter, WithStatus
    <3> QED
      BY <1>1, <2>1, <3>1 DEF Agenda, Status, Scans, Swaps
  <2>2. CASE pc' = "lock_usdc"
    <3>1. todo' \subseteq Sells /\ probe' = {}
      BY <2>2 DEF EndScan, Enter
    <3> QED
      BY <2>2, <3>1 DEF Agenda, Scans, Swaps
  <2>3. CASE pc' = "claim_gbx"
    <3>1. todo' = WithStatus("usdc_locked") /\ probe' = ClaimedEvents(WithStatus("usdc_locked"))
      BY <2>3 DEF EndScan, Enter
    <3>2. \A s \in probe' : \E k \in DOMAIN usdcLocks'[s] : usdcLocks'[s][k].state = "claimed"
      BY <1>1, <1>6, <3>1 DEF ClaimedEvents, Lock, chains
    <3>3. todo' \subseteq Sells /\ probe' \subseteq Sells /\ \A s \in todo' : mem'.swaps[s].status = "usdc_locked"
      BY <1>1, <1>6, <3>1 DEF WithStatus, ClaimedEvents
    <3> QED
      BY <2>3, <3>2, <3>3 DEF Agenda, Status, Scans, Swaps
  <2>4. CASE pc' = "idle"
    <3>1. todo' = {} /\ probe' = {}
      BY <2>4 DEF EndScan, Enter
    <3> QED
      BY <1>1, <2>4, <3>1 DEF Agenda, Scans
  <2> QED
    BY <2>1, <2>2, <2>3, <2>4 DEF EndScan, Enter
<1>8. StateTyped'
  BY <1>1, <1>5, <1>7 DEF Sure, StateTyped, chains
<1> QED
  BY <1>1, <1>2, <1>3, <1>4, <1>7, <1>8 DEF Sure
-----------------------------------------------------------------------------
LEMMA IntentPosted == ASSUME Sure, NEW s \in Swaps, PostIntent(s) PROVE Sure'
<1>1. UNCHANGED <<world, chains, disk, mem, pc, todo, probe, faults, crashes>> /\ intents' = intents \cup {s}
  BY DEF PostIntent
<1>2. StateTyped'
  BY <1>1 DEF Sure, StateTyped, world, chains
<1>3. MemTrue' /\ DiskTrue' /\ TakesOnlyForGiven' /\ Counted'
  BY <1>1 DEF Sure, MemTrue, DiskTrue, TakesOnlyForGiven, Counted, chains
<1>4. Agenda'
  BY <1>1 DEF Sure, Agenda, Status, Output, chains
<1> QED
  BY <1>1, <1>2, <1>3, <1>4 DEF Sure, world
-----------------------------------------------------------------------------
(* The search for the spend of an output.                                  *)
LEMMA Looks == ASSUME Sure, NEW b \in Swaps, LookInMempool(b) PROVE Sure'
<1>1. UNCHANGED <<world, chains, intents, disk, mem, faults, crashes>> /\ pc = "in_mempool"
  BY DEF LookInMempool
<1>2. /\ b \in todo /\ todo \subseteq Buys /\ probe = {b} /\ mem.swaps[b].unres = 0 /\ Output(b).state # "unspent"
      /\ \A x \in todo : mem.swaps[x].status = "gbx_locked"
  BY <1>1 DEF LookInMempool, Sure, Agenda, Status
<1>3. TakesOnlyForGiven' /\ MemTrue' /\ DiskTrue' /\ Counted'
  BY <1>1 DEF Sure, TakesOnlyForGiven, MemTrue, DiskTrue, Counted, chains
<1>4. \/ pc' = "claim_usdc" /\ todo' = todo \ {b} /\ probe' = {}
      \/ /\ pc' = "via_refund" /\ UNCHANGED <<todo, probe>>
         /\ Output(b).state \notin {"claiming", "refunding", "unspent"}
  BY <1>2 DEF LookInMempool
<1>5. Output(b).state \in OutputStates
  <2>1. mem.swaps[b].lock \in DOMAIN gbxLocks[b]
    BY <1>2 DEF Sure, MemTrue, BuyTrue
  <2>2. gbxLocks[b] \in Seq(Outputs)
    BY <1>2 DEF Sure, StateTyped, Outputs
  <2>3. gbxLocks[b][mem.swaps[b].lock] \in Outputs
    BY <2>1, <2>2
  <2> QED
    BY <2>3 DEF Output, Outputs
<1>6. StateTyped'
  BY <1>1, <1>4 DEF Sure, StateTyped, world, chains, Scans
<1>7. Agenda'
  BY <1>1, <1>2, <1>4, <1>5 DEF Agenda, Status, Output, OutputStates, chains
<1> QED
  BY <1>1, <1>3, <1>6, <1>7 DEF Sure, world
LEMMA Resolves == ASSUME Sure, NEW b \in Swaps, LookForRefund(b) PROVE Sure'
<1>1. UNCHANGED <<world, chains, intents, disk, faults, crashes>> /\ pc = "via_refund"
  BY DEF LookForRefund
<1>2. /\ b \in todo /\ b \in Buys /\ todo \subseteq Buys /\ mem.swaps[b].unres = 0
      /\ Output(b).state \in {"claimed", "refunded"}
      /\ \A x \in todo : mem.swaps[x].status = "gbx_locked"
  BY <1>1 DEF LookForRefund, Sure, Agenda, Status
<1>3. pc' = "claim_usdc" /\ todo' = todo \ {b} /\ probe' = {}
  BY DEF LookForRefund
<1>4. mem \in States /\ BuyTrue(mem.swaps[b], usdc[b], gbxLocks[b]) /\ ~mem.halt
  BY <1>2 DEF Sure, StateTyped, MemTrue
<1>5. /\ mem' \in States /\ ~mem'.halt /\ mem'.swaps[b].status # "none"
      /\ \A x \in Swaps \ {b} : mem'.swaps[x] = mem.swaps[x]
      /\ BuyTrue(mem'.swaps[b], usdc[b], gbxLocks[b])
  <2>1. CASE SpentViaRefund(b)
    <3>1. SetStatus(b, "refunded_on_timelock") /\ Output(b).state = "refunded"
      BY <2>1 DEF LookForRefund, SpentViaRefund
    <3>2. /\ mem' \in States /\ mem'.halt = mem.halt
          /\ \A x \in Swaps \ {b} : mem'.swaps[x] = mem.swaps[x]
          /\ mem'.swaps[b].status = "refunded_on_timelock" /\ mem'.swaps[b].lock = mem.swaps[b].lock
          /\ mem'.swaps[b].unres = mem.swaps[b].unres
      BY <1>4, <3>1, StatusSet DEF Statuses
    <3> QED
      BY <1>2, <1>4, <3>1, <3>2 DEF BuyTrue, Output
  <2>2. CASE ~SpentViaRefund(b)
    <3>1. mem' = [mem EXCEPT !.swaps[b].unres = 1, !.swaps[b].status = "gbx_locked", !.halt = FALSE]
      <4>1. mem.swaps[b].unres + 1 = 1 /\ 1 < ScansBeforeHalt /\ ~(1 >= ScansBeforeHalt)
        BY <1>2 DEF ScansBeforeHalt
      <4>2. mem.swaps[b].status = "gbx_locked"
        BY <1>2
      <4> QED
        BY <1>4, <2>2, <4>1, <4>2 DEF LookForRefund, States
    <3>2. Output(b).state = "claimed"
      BY <1>2, <2>2 DEF SpentViaRefund
    <3>3. /\ mem' \in States /\ ~mem'.halt /\ mem'.swaps[b].status = "gbx_locked"
          /\ mem'.swaps[b].lock = mem.swaps[b].lock /\ mem'.swaps[b].unres = 1
          /\ \A x \in Swaps \ {b} : mem'.swaps[x] = mem.swaps[x]
      <4> DEFINE r == [mem.swaps[b] EXCEPT !.unres = 1, !.status = "gbx_locked"]
      <4>1. mem.swaps[b] \in Records
        BY <1>4 DEF States
      <4>2. r \in Records /\ r.status = "gbx_locked" /\ r.unres = 1 /\ r.lock = mem.swaps[b].lock
        <5>1. r = [status |-> "gbx_locked", lock |-> mem.swaps[b].lock, unres |-> 1, order |-> mem.swaps[b].order]
          <6> DEFINE q == [mem.swaps[b] EXCEPT !.unres = 1]
          <6>1. q = [status |-> mem.swaps[b].status, lock |-> mem.swaps[b].lock, unres |-> 1, order |-> mem.swaps[b].order]
            BY <4>1 DEF Records
          <6>2. r = [q EXCEPT !.status = "gbx_locked"]
            OBVIOUS
          <6> HIDE DEF q, r
          <6> QED
            BY <6>1, <6>2
        <5>2. "gbx_locked" \in Statuses /\ 1 \in 0 .. 3
          BY DEF Statuses
        <5> HIDE DEF r
        <5> QED
          BY <4>1, <5>1, <5>2 DEF Records
      <4>3. mem' = [swaps |-> [mem.swaps EXCEPT ![b] = r], halt |-> FALSE]
        <5>1. mem = [swaps |-> mem.swaps, halt |-> mem.halt] /\ mem.swaps \in [Swaps -> Records]
          BY <1>4 DEF States
        <5>2. [mem EXCEPT !.swaps[b].unres = 1] = [swaps |-> [mem.swaps EXCEPT ![b].unres = 1], halt |-> mem.halt]
          BY <5>1
        <5>3. [mem EXCEPT !.swaps[b].unres = 1, !.swaps[b].status = "gbx_locked"]
                = [swaps |-> [mem.swaps EXCEPT ![b].unres = 1, ![b].status = "gbx_locked"], halt |-> mem.halt]
          <6> DEFINE one == [mem.swaps EXCEPT ![b].unres = 1]
          <6>1. [mem EXCEPT !.swaps[b].unres = 1] = [swaps |-> one, halt |-> mem.halt]
            BY <5>2
          <6>2. [mem EXCEPT !.swaps[b].unres = 1, !.swaps[b].status = "gbx_locked"]
                  = [[mem EXCEPT !.swaps[b].unres = 1] EXCEPT !.swaps[b].status = "gbx_locked"]
            OBVIOUS
          <6>3. [mem.swaps EXCEPT ![b].unres = 1, ![b].status = "gbx_locked"] = [one EXCEPT ![b].status = "gbx_locked"]
            OBVIOUS
          <6> HIDE DEF one
          <6>4. [[swaps |-> one, halt |-> mem.halt] EXCEPT !.swaps[b].status = "gbx_locked"]
                  = [swaps |-> [one EXCEPT ![b].status = "gbx_locked"], halt |-> mem.halt]
            OBVIOUS
          <6> QED
            BY <6>1, <6>2, <6>3, <6>4
        <5>4. [mem.swaps EXCEPT ![b].unres = 1, ![b].status = "gbx_locked"] = [mem.swaps EXCEPT ![b] = r]
          BY <5>1, <4>1
        <5> QED
          BY <3>1, <5>3, <5>4
      <4> HIDE DEF r
      <4>4. mem'.swaps \in [Swaps -> Records] /\ mem'.swaps[b] = r
            /\ \A x \in Swaps \ {b} : mem'.swaps[x] = mem.swaps[x]
        BY <1>4, <4>2, <4>3 DEF States
      <4>5. mem' \in States
        BY <4>3, <4>4 DEF States
      <4> QED
        BY <4>2, <4>3, <4>4, <4>5
    <3> QED
      BY <1>2, <1>4, <3>2, <3>3 DEF BuyTrue, Output
  <2> QED
    BY <2>1, <2>2
<1>6. MemTrue'
  <2>1. \A x \in Buys : BuyTrue(mem'.swaps[x], usdc[x], gbxLocks[x])
    BY <1>5 DEF Sure, MemTrue, Swaps
  <2>2. \A x \in Sells : SellTrue(mem'.swaps[x], gbx[x], usdcLocks[x])
    <3>1. \A x \in Sells : x \in Swaps \ {b}
      BY <1>2, ConstantsAssumption DEF Swaps
    <3> QED
      BY <1>5, <3>1 DEF Sure, MemTrue
  <2> QED
    BY <1>1, <1>5, <2>1, <2>2 DEF MemTrue, chains
<1>7. Counted'
  <2>1. crashes \in Nat
    BY ConstantsAssumption DEF Sure, StateTyped
  <2>2. \A x \in Swaps : mem'.swaps[x].status = "none" => mem.swaps[x].status = "none"
    BY <1>5
  <2> QED
    BY <1>1, <2>1, <2>2, CountsStill
<1>8. StateTyped'
  BY <1>1, <1>3, <1>5 DEF Sure, StateTyped, world, chains, Scans
<1>9. Agenda'
  <2>1. \A x \in todo' : mem'.swaps[x].status = "gbx_locked"
    BY <1>2, <1>3, <1>5 DEF Swaps
  <2> QED
    BY <1>2, <1>3, <2>1 DEF Agenda, Status
<1> QED
  BY <1>1, <1>6, <1>7, <1>8, <1>9, ChainsStill, DiskStands DEF Sure, world
-----------------------------------------------------------------------------
(* The scans, swap by swap.                                                *)
Visiting == {"lock_gbx", "claim_usdc", "lock_usdc", "claim_gbx", "refund_gbx"}

LEMMA FaultCounted ==
  ASSUME Sure, Fault \/ UNCHANGED faults
  PROVE  faults' \in 0 .. MaxFaults /\ faults' \in Nat /\ faults' >= faults
<1>1. faults \in 0 .. MaxFaults /\ MaxFaults \in Nat
  BY ConstantsAssumption DEF Sure, StateTyped
<1> QED
  BY <1>1 DEF Fault

(* No lock is added and no record removed.                                 *)
LEMMA NoneAdded ==
  ASSUME Sure, Fault \/ UNCHANGED faults, UNCHANGED crashes,
         \A b \in Buys : Len(gbxLocks'[b]) = Len(gbxLocks[b]),
         \A s \in Sells : Len(usdcLocks'[s]) = Len(usdcLocks[s]),
         \A x \in Swaps : mem'.swaps[x].status = "none" => mem.swaps[x].status = "none"
  PROVE  Counted'
<1>1. crashes \in Nat /\ crashes' \in Nat /\ crashes' >= crashes
  BY ConstantsAssumption DEF Sure, StateTyped
<1> QED
  BY <1>1, FaultCounted, CountStands

LEMMA ScanTyped ==
  ASSUME Sure, UNCHANGED <<world, crashes>>, Fault \/ UNCHANGED faults, intents' \subseteq Swaps,
         mem' \in States, disk' \in States, pc \in Visiting,
         Raised \/ \E s \in Swaps : Visited(s),
         usdc' \in [Buys -> [state : LockStates \cup {"none"}, t1 : Nat]],
         gbxLocks' \in [Buys -> Seq(Outputs)],
         gbx' \in [Sells -> [state : OutputStates \cup {"none"}, t1 : Nat]],
         usdcLocks' \in [Sells -> Seq(EvmLocks)]
  PROVE  StateTyped'
<1>1. pc' \in Scans /\ todo' \subseteq Swaps /\ probe' \subseteq Swaps
  <2>1. CASE Raised
    BY <2>1 DEF Raised, Scans, Swaps
  <2>2. CASE \E s \in Swaps : Visited(s)
    BY <2>2 DEF Visited, Sure, StateTyped
  <2> QED
    BY <2>1, <2>2
<1> QED
  BY <1>1, FaultCounted DEF Sure, StateTyped, Outputs, EvmLocks, world

(* A swap is passed over.                                                  *)
LEMMA Skipped ==
  ASSUME Sure, UNCHANGED <<world, chains, disk, mem, faults, crashes>>, intents' \subseteq Swaps,
         pc \in Visiting, NEW s \in Swaps, Visited(s)
  PROVE  Sure'
<1>1. Onward /\ Paid
  BY ChainsStill
<1>2. StateTyped'
  BY ScanTyped DEF Sure, StateTyped, Outputs, EvmLocks, chains
<1>3. Counted'
  BY NoneAdded DEF chains
<1>4. s \in Buys => BuyTrue(mem'.swaps[s], usdc'[s], gbxLocks'[s])
  BY DEF Sure, MemTrue, chains
<1>5. s \in Sells => SellTrue(mem'.swaps[s], gbx'[s], usdcLocks'[s])
  BY DEF Sure, MemTrue, chains
<1> QED
  BY <1>1, <1>2, <1>3, <1>4, <1>5, VisitStep DEF Visiting, world

(* The swaps a scan of buys still has to visit.                            *)
LEMMA BuyListed ==
  ASSUME Sure, NEW b \in todo, pc \in {"claim_usdc", "refund_gbx"}
  PROVE  /\ b \in Buys /\ b \in Swaps /\ b \notin Sells /\ mem.swaps[b].status = "gbx_locked"
         /\ mem.swaps[b].lock \in DOMAIN gbxLocks[b] /\ mem \in States
         /\ mem.swaps[b].unres # 0 => Output(b).state = "claimed"
<1>1. b \in Buys /\ mem.swaps[b].status = "gbx_locked"
  BY DEF Sure, Agenda, Status
<1> QED
  BY <1>1, ConstantsAssumption DEF Sure, MemTrue, BuyTrue, StateTyped, Swaps, Output

LEMMA RefundsGbx == ASSUME Sure, NEW b \in Swaps, RefundGbx(b) PROVE Sure'
<1>1. UNCHANGED <<world, usdc, gbx, usdcLocks, intents, disk, crashes>> /\ pc = "refund_gbx" /\ b \in todo
  BY DEF RefundGbx
<1>2. /\ b \in Buys /\ b \notin Sells /\ mem.swaps[b].status = "gbx_locked"
      /\ mem.swaps[b].lock \in DOMAIN gbxLocks[b] /\ mem \in States
      /\ mem.swaps[b].unres # 0 => Output(b).state = "claimed"
  BY <1>1, BuyListed
<1>3. intents' \subseteq Swaps /\ pc \in Visiting
  BY <1>1 DEF Sure, StateTyped, Visiting
<1>4. CASE Visited(b) /\ UNCHANGED <<gbxLocks, mem, faults>>
  BY <1>1, <1>3, <1>4, Skipped DEF chains
<1>5. CASE /\ Output(b).state = "unspent"
           /\ gbxLocks' = [gbxLocks EXCEPT ![b][mem.swaps[b].lock].state = "refunding"]
           /\ \/ SetStatus(b, "refunded_by_lp") /\ Visited(b) /\ UNCHANGED faults
              \/ Fault /\ Raised /\ UNCHANGED mem
  <2>1. /\ gbxLocks' \in [Buys -> Seq(Outputs)]
        /\ \A x \in Buys : /\ DOMAIN gbxLocks'[x] = DOMAIN gbxLocks[x] /\ Len(gbxLocks'[x]) = Len(gbxLocks[x])
                           /\ BuyOn(usdc[x], gbxLocks[x], usdc[x], gbxLocks'[x])
        /\ gbxLocks'[b][mem.swaps[b].lock].state = "refunding"
    <3>1. gbxLocks[b][mem.swaps[b].lock].state = "unspent" /\ "refunding" \in OutputStates
      BY <1>5 DEF Output, OutputStates
    <3> QED
      BY <1>2, <1>5, <3>1, OutputSet
  <2>2. Onward /\ Paid
    BY <1>1, <2>1, SameOn DEF Onward, Paid
  <2>3. CASE Fault /\ Raised /\ UNCHANGED mem
    <3>1. StateTyped'
      BY <1>1, <1>2, <1>3, <2>1, <2>3, ScanTyped DEF Sure, StateTyped, EvmLocks
    <3>2. Counted'
      BY <1>1, <2>1, <2>3, NoneAdded
    <3> QED
      BY <1>1, <2>2, <2>3, <3>1, <3>2, RaiseStep DEF world
  <2>4. CASE SetStatus(b, "refunded_by_lp") /\ Visited(b) /\ UNCHANGED faults
    <3>1. /\ mem' \in States /\ mem'.halt = mem.halt
          /\ \A x \in Swaps \ {b} : mem'.swaps[x] = mem.swaps[x]
          /\ mem'.swaps[b].status = "refunded_by_lp" /\ mem'.swaps[b].lock = mem.swaps[b].lock
          /\ mem'.swaps[b].unres = mem.swaps[b].unres
      BY <1>2, <2>4, StatusSet DEF Statuses
    <3>2. StateTyped'
      BY <1>1, <1>3, <2>1, <2>4, <3>1, ScanTyped DEF Sure, StateTyped, EvmLocks
    <3>3. Counted'
      <4>1. \A x \in Swaps : mem'.swaps[x].status = "none" => mem.swaps[x].status = "none"
        BY <3>1
      <4> QED
        BY <1>1, <2>1, <2>4, <4>1, NoneAdded
    <3>4. BuyTrue(mem'.swaps[b], usdc'[b], gbxLocks'[b])
      BY <1>2, <1>5, <2>1, <3>1 DEF BuyTrue
    <3> QED
      BY <1>1, <1>2, <2>2, <2>4, <3>1, <3>2, <3>3, <3>4, VisitStep DEF world
  <2> QED
    BY <1>5, <2>3, <2>4
<1> QED
  BY <1>4, <1>5, Raises DEF RefundGbx
(* A record of a listed buy is rewritten, its output known to be claimed.  *)
LEMMA BuyRewritten ==
  ASSUME Sure, UNCHANGED <<world, gbxLocks, gbx, usdcLocks, intents, disk, crashes, faults>>, pc = "claim_usdc",
         NEW b \in todo, Visited(b), NEW status \in {"completed", "evm_claim_failed"}, SetStatus(b, status),
         usdc' \in [Buys -> [state : LockStates \cup {"none"}, t1 : Nat]], Onward, Paid,
         PreimageFound(b), usdc'[b].state \in {"claimed", "refunded"},
         status = "completed" => usdc'[b].state = "claimed"
  PROVE  Sure'
<1>1. /\ b \in Buys /\ b \in Swaps /\ b \notin Sells /\ mem.swaps[b].status = "gbx_locked"
      /\ mem.swaps[b].lock \in DOMAIN gbxLocks[b] /\ mem \in States
      /\ mem.swaps[b].unres # 0 => Output(b).state = "claimed"
  BY BuyListed
<1>2. /\ mem' \in States /\ mem'.halt = mem.halt
      /\ \A x \in Swaps \ {b} : mem'.swaps[x] = mem.swaps[x]
      /\ mem'.swaps[b].status = status /\ mem'.swaps[b].lock = mem.swaps[b].lock
      /\ mem'.swaps[b].unres = mem.swaps[b].unres
  BY <1>1, StatusSet DEF Statuses
<1>3. StateTyped'
  BY <1>1, <1>2, ScanTyped DEF Sure, StateTyped, Outputs, EvmLocks, Visiting
<1>4. Counted'
  <2>1. \A x \in Swaps : mem'.swaps[x].status = "none" => mem.swaps[x].status = "none"
    BY <1>2
  <2> QED
    BY <2>1, NoneAdded
<1>5. BuyTrue(mem.swaps[b], usdc[b], gbxLocks[b])
  BY <1>1 DEF Sure, MemTrue
<1>6. BuyTrue(mem'.swaps[b], usdc'[b], gbxLocks'[b])
  <2>1. gbxLocks'[b] = gbxLocks[b] /\ gbxLocks[b][mem.swaps[b].lock].state = "claimed"
    BY DEF PreimageFound, Output
  <2> QED
    BY <1>1, <1>2, <1>5, <2>1 DEF BuyTrue
<1> QED
  BY <1>1, <1>2, <1>3, <1>4, <1>6, VisitStep DEF world

LEMMA ClaimsUsdc == ASSUME Sure, Inv, NEW b \in Swaps, ClaimUsdc(b) PROVE Sure'
<1>1. UNCHANGED <<world, gbxLocks, gbx, usdcLocks, intents, disk, crashes>> /\ pc = "claim_usdc" /\ b \in todo
  BY DEF ClaimUsdc
<1>2. /\ b \in Buys /\ b \in Swaps /\ b \notin Sells /\ mem.swaps[b].status = "gbx_locked"
      /\ mem.swaps[b].lock \in DOMAIN gbxLocks[b] /\ mem \in States
      /\ mem.swaps[b].unres # 0 => Output(b).state = "claimed"
  BY <1>1, BuyListed
<1>3. intents' \subseteq Swaps /\ pc \in Visiting /\ usdc \in [Buys -> [state : LockStates \cup {"none"}, t1 : Nat]]
  BY <1>1 DEF Sure, StateTyped, Visiting
<1>4. CASE Visited(b) /\ UNCHANGED <<usdc, mem, faults>>
  BY <1>1, <1>3, <1>4, Skipped DEF chains
<1>5. CASE /\ Output(b).state # "unspent" /\ ~PreimageFound(b)
           /\ pc' = "in_mempool" /\ probe' = {b}
           /\ UNCHANGED <<todo, usdc, mem, faults>>
  <2>1. mem.swaps[b].unres = 0
    BY <1>2, <1>5 DEF PreimageFound
  <2>2. todo \subseteq Buys /\ \A x \in todo : mem.swaps[x].status = "gbx_locked"
    BY <1>1 DEF Sure, Agenda, Status
  <2>3. Agenda'
    BY <1>1, <1>5, <2>1, <2>2 DEF Agenda, Status, Output
  <2>4. StateTyped'
    BY <1>1, <1>2, <1>5 DEF Sure, StateTyped, Scans, world
  <2> QED
    BY <1>1, <1>5, <2>3, <2>4
       DEF Sure, MemTrue, DiskTrue, Counted, TakesOnlyForGiven, world
<1>6. CASE /\ PreimageFound(b) /\ usdc[b].state = "locked"
           /\ usdc' = [usdc EXCEPT ![b].state = "claimed"]
           /\ \/ SetStatus(b, "completed") /\ Visited(b) /\ UNCHANGED faults
              \/ Fault /\ Raised /\ UNCHANGED mem
  <2>1. /\ usdc' \in [Buys -> [state : LockStates \cup {"none"}, t1 : Nat]]
        /\ usdc'[b].state = "claimed" /\ \A x \in Buys \ {b} : usdc'[x] = usdc[x]
    BY <1>2, <1>3, <1>6 DEF LockStates
  <2>2. Onward
    <3>1. \A x \in Buys : BuyOn(usdc[x], gbxLocks[x], usdc'[x], gbxLocks[x])
      BY <1>6, <2>1, SameOn DEF BuyOn
    <3> QED
      BY <1>1, <3>1, SameOn DEF Onward
  <2>3. Paid
    <3>1. gbxLocks[b][mem.swaps[b].lock].state = "claimed"
      BY <1>6 DEF PreimageFound, Output
    <3> QED
      BY <1>1, <1>2, <2>1, <3>1 DEF Paid
  <2>4. CASE SetStatus(b, "completed") /\ Visited(b) /\ UNCHANGED faults
    BY <1>1, <1>6, <2>1, <2>2, <2>3, <2>4, BuyRewritten
  <2>5. CASE Fault /\ Raised /\ UNCHANGED mem
    <3>1. StateTyped'
      BY <1>1, <1>2, <1>3, <2>1, <2>5, ScanTyped DEF Sure, StateTyped, Outputs, EvmLocks
    <3>2. Counted'
      BY <1>1, <2>5, NoneAdded
    <3> QED
      BY <1>1, <2>2, <2>3, <2>5, <3>1, <3>2, RaiseStep DEF world
  <2> QED
    BY <1>6, <2>4, <2>5
<1>7. CASE /\ PreimageFound(b) /\ usdc[b].state # "locked"
           /\ SetStatus(b, "evm_claim_failed") /\ Visited(b) /\ UNCHANGED <<usdc, faults>>
  <2>1. Onward /\ Paid
    BY <1>1, <1>7, ChainsStill DEF chains
  <2>2. usdc'[b].state \in {"claimed", "refunded"}
    <3>1. usdc[b].state # "none" /\ usdc[b].state \in LockStates \cup {"none"}
      BY <1>2, <1>3 DEF Inv, Served
    <3> QED
      BY <1>7, <3>1 DEF LockStates
  <2> QED
    BY <1>1, <1>3, <1>7, <2>1, <2>2, BuyRewritten
<1> QED
  BY <1>4, <1>5, <1>6, <1>7, Raises DEF ClaimUsdc

(* The sells scan_and_claim_gbx still has to visit.                        *)
LEMMA SellListed ==
  ASSUME Sure, NEW s \in todo, pc = "claim_gbx"
  PROVE  /\ s \in Sells /\ s \in Swaps /\ s \notin Buys /\ mem.swaps[s].status = "usdc_locked"
         /\ mem.swaps[s].lock \in DOMAIN usdcLocks[s] /\ mem \in States
         /\ s \in probe => \E k \in DOMAIN usdcLocks[s] : usdcLocks[s][k].state = "claimed"
<1>1. s \in Sells /\ mem.swaps[s].status = "usdc_locked"
  BY DEF Sure, Agenda, Status
<1>2. SellTrue(mem.swaps[s], gbx[s], usdcLocks[s])
  BY <1>1 DEF Sure, MemTrue
<1>3. s \in probe => \E k \in DOMAIN usdcLocks[s] : usdcLocks[s][k].state = "claimed"
  BY <1>1 DEF Sure, Agenda
<1>4. s \in Swaps /\ s \notin Buys /\ mem \in States
  BY <1>1, ConstantsAssumption DEF Sure, StateTyped, Swaps
<1> QED
  BY <1>1, <1>2, <1>3, <1>4 DEF SellTrue

(* A record of a listed sell is rewritten after one of the two legs moved. *)
LEMMA SellRewritten ==
  ASSUME Sure, UNCHANGED <<world, usdc, gbxLocks, intents, disk, crashes, faults>>, pc = "claim_gbx",
         NEW s \in todo, Visited(s), NEW status \in {"completed", "refunded_by_lp"}, SetStatus(s, status),
         gbx' \in [Sells -> [state : OutputStates \cup {"none"}, t1 : Nat]],
         usdcLocks' \in [Sells -> Seq(EvmLocks)],
         \A x \in Sells : Len(usdcLocks'[x]) = Len(usdcLocks[x]) /\ DOMAIN usdcLocks'[x] = DOMAIN usdcLocks[x],
         Onward, Paid,
         status = "completed" => gbx'[s].state \in {"claiming", "claimed"},
         status = "refunded_by_lp" => usdcLocks'[s][mem.swaps[s].lock].state = "refunded"
  PROVE  Sure'
<1>1. /\ s \in Sells /\ s \in Swaps /\ s \notin Buys /\ mem.swaps[s].status = "usdc_locked"
      /\ mem.swaps[s].lock \in DOMAIN usdcLocks[s] /\ mem \in States
  BY SellListed
<1>2. /\ mem' \in States /\ mem'.halt = mem.halt
      /\ \A x \in Swaps \ {s} : mem'.swaps[x] = mem.swaps[x]
      /\ mem'.swaps[s].status = status /\ mem'.swaps[s].lock = mem.swaps[s].lock
  BY <1>1, StatusSet DEF Statuses
<1>3. StateTyped'
  BY <1>1, <1>2, ScanTyped DEF Sure, StateTyped, Outputs, Visiting
<1>4. Counted'
  <2>1. \A x \in Swaps : mem'.swaps[x].status = "none" => mem.swaps[x].status = "none"
    BY <1>2
  <2> QED
    BY <2>1, NoneAdded
<1>5. SellTrue(mem'.swaps[s], gbx'[s], usdcLocks'[s])
  BY <1>1, <1>2 DEF SellTrue
<1> QED
  BY <1>1, <1>2, <1>3, <1>4, <1>5, VisitStep DEF world
LEMMA ClaimsGbx == ASSUME Sure, NEW s \in Swaps, ClaimGbx(s) PROVE Sure'
<1>1. UNCHANGED <<world, usdc, gbxLocks, intents, disk, crashes>> /\ pc = "claim_gbx" /\ s \in todo
  BY DEF ClaimGbx, FirstInTodo
<1>2. /\ s \in Sells /\ s \in Swaps /\ s \notin Buys /\ mem.swaps[s].status = "usdc_locked"
      /\ mem.swaps[s].lock \in DOMAIN usdcLocks[s] /\ mem \in States
      /\ s \in probe => \E k \in DOMAIN usdcLocks[s] : usdcLocks[s][k].state = "claimed"
  BY <1>1, SellListed
<1>3. /\ intents' \subseteq Swaps /\ pc \in Visiting
      /\ gbx \in [Sells -> [state : OutputStates \cup {"none"}, t1 : Nat]]
      /\ usdc \in [Buys -> [state : LockStates \cup {"none"}, t1 : Nat]]
      /\ gbxLocks \in [Buys -> Seq(Outputs)] /\ usdcLocks \in [Sells -> Seq(EvmLocks)] /\ disk \in States
  BY <1>1 DEF Sure, StateTyped, Visiting, Outputs, EvmLocks
<1>4. CASE Visited(s) /\ UNCHANGED <<gbx, usdcLocks, mem, faults>>
  BY <1>1, <1>3, <1>4, Skipped DEF chains
<1>5. CASE /\ Lock(s).state = "locked" /\ Visited(s) /\ UNCHANGED gbx
           /\ usdcLocks' = [usdcLocks EXCEPT ![s][mem.swaps[s].lock].state = "refunded"]
           /\ \/ SetStatus(s, "refunded_by_lp") /\ UNCHANGED faults
              \/ Fault /\ UNCHANGED mem
  <2>1. /\ usdcLocks' \in [Sells -> Seq(EvmLocks)]
        /\ \A x \in Sells : /\ DOMAIN usdcLocks'[x] = DOMAIN usdcLocks[x] /\ Len(usdcLocks'[x]) = Len(usdcLocks[x])
                            /\ SellOn(gbx[x], usdcLocks[x], gbx[x], usdcLocks'[x])
        /\ usdcLocks'[s][mem.swaps[s].lock].state = "refunded"
    <3>1. usdcLocks[s][mem.swaps[s].lock].state = "locked" /\ "refunded" \in LockStates
      BY <1>5 DEF Lock, LockStates
    <3> QED
      BY <1>2, <1>5, <3>1, LockSet
  <2>2. Onward /\ Paid
    BY <1>1, <1>5, <2>1, SameOn DEF Onward, Paid
  <2>3. CASE SetStatus(s, "refunded_by_lp") /\ UNCHANGED faults
    BY <1>1, <1>2, <1>3, <1>5, <2>1, <2>2, <2>3, SellRewritten
  <2>4. CASE Fault /\ UNCHANGED mem
    <3>1. StateTyped'
      BY <1>1, <1>2, <1>3, <1>5, <2>1, <2>4, ScanTyped
    <3>2. Counted'
      BY <1>1, <2>1, <2>4, NoneAdded
    <3>3. SellTrue(mem'.swaps[s], gbx'[s], usdcLocks'[s])
      BY <1>2, <2>2, <2>4, SellStands DEF Onward, Sure, MemTrue
    <3> QED
      BY <1>1, <1>2, <1>5, <2>2, <2>4, <3>1, <3>2, <3>3, VisitStep DEF world
  <2> QED
    BY <1>5, <2>3, <2>4
<1>6. CASE /\ s \in probe /\ gbx[s].state = "unspent" /\ UNCHANGED usdcLocks
           /\ gbx' = [gbx EXCEPT ![s].state = "claiming"]
           /\ \/ SetStatus(s, "completed") /\ Visited(s) /\ UNCHANGED faults
              \/ Fault /\ Raised /\ UNCHANGED mem
  <2>1. /\ gbx' \in [Sells -> [state : OutputStates \cup {"none"}, t1 : Nat]]
        /\ gbx'[s].state = "claiming" /\ \A x \in Sells \ {s} : gbx'[x] = gbx[x]
    BY <1>2, <1>3, <1>6 DEF OutputStates
  <2>2. Onward
    <3>1. \A x \in Sells : SellOn(gbx[x], usdcLocks[x], gbx'[x], usdcLocks[x])
      BY <2>1, SameOn DEF SellOn
    <3> QED
      BY <1>1, <1>6, <3>1, SameOn DEF Onward
  <2>3. Paid
    BY <1>1, <1>2, <1>6, <2>1 DEF Paid
  <2>4. CASE SetStatus(s, "completed") /\ Visited(s) /\ UNCHANGED faults
    BY <1>1, <1>2, <1>3, <1>6, <2>1, <2>2, <2>3, <2>4, SellRewritten
  <2>5. CASE Fault /\ Raised /\ UNCHANGED mem
    <3>1. StateTyped'
      BY <1>1, <1>2, <1>3, <1>6, <2>1, <2>5, ScanTyped
    <3>2. Counted'
      BY <1>1, <1>6, <2>5, NoneAdded
    <3> QED
      BY <1>1, <2>2, <2>3, <2>5, <3>1, <3>2, RaiseStep DEF world
  <2> QED
    BY <1>6, <2>4, <2>5
<1>7. CASE Raised /\ UNCHANGED <<mem, gbx, usdcLocks, faults>>
  <2>1. Onward /\ Paid
    BY <1>1, <1>7, ChainsStill DEF chains
  <2>2. StateTyped'
    BY <1>1, <1>2, <1>3, <1>7, ScanTyped
  <2>3. Counted'
    BY <1>1, <1>7, NoneAdded
  <2> QED
    BY <1>1, <1>7, <2>1, <2>2, <2>3, RaiseStep DEF world
<1> QED
  BY <1>4, <1>5, <1>6, <1>7, Raises DEF ClaimGbx, RefundUsdc, OutputGone
(* A new lock for a swap without a record: the record made with it, or the *)
(* fault, pays for it.                                                     *)
LEMMA NewCounted ==
  ASSUME Sure, Fault \/ UNCHANGED faults, UNCHANGED crashes,
         NEW s \in Swaps, mem.swaps[s].status = "none", NEW due \in 0 .. 1, due = Owed(mem'.swaps[s]),
         \A x \in Swaps \ {s} : mem'.swaps[x] = mem.swaps[x],
         \A x \in Buys \ {s} : Len(gbxLocks'[x]) = Len(gbxLocks[x]),
         \A x \in Sells \ {s} : Len(usdcLocks'[x]) = Len(usdcLocks[x]),
         s \in Buys => Len(gbxLocks'[s]) <= Len(gbxLocks[s]) + (faults' - faults) + due,
         s \in Buys => Len(gbxLocks'[s]) \in Nat,
         s \in Sells => Len(usdcLocks'[s]) <= Len(usdcLocks[s]) + (faults' - faults) + due,
         s \in Sells => Len(usdcLocks'[s]) \in Nat
  PROVE  Counted'
<1>1. crashes \in Nat /\ faults \in Nat /\ faults' \in Nat /\ faults' >= faults
  <2>1. crashes \in Nat /\ faults \in Nat
    BY ConstantsAssumption DEF Sure, StateTyped
  <2> QED
    BY <2>1, FaultCounted
<1>2. \A r : Owed(r) \in {0, 1}
  BY DEF Owed
<1>3. Owed(mem.swaps[s]) = 0
  BY DEF Owed
<1>4. ASSUME NEW x \in Swaps \ {s}, NEW n \in Nat, n <= crashes + faults + Owed(mem.swaps[x])
      PROVE  n <= crashes' + faults' + Owed(mem'.swaps[x])
  <2>1. PICK o \in {0, 1} : o = Owed(mem.swaps[x]) /\ o = Owed(mem'.swaps[x])
    BY <1>2
  <2>2. n <= crashes + faults + o
    BY <1>4, <2>1
  <2>3. n <= crashes + faults' + o
    BY <1>1, <2>2
  <2> QED
    BY <2>1, <2>3
<1>5. ASSUME NEW n \in Nat, NEW m \in Nat, n <= crashes + faults + 0, m <= n + (faults' - faults) + due
      PROVE  m <= crashes' + faults' + Owed(mem'.swaps[s])
  <2>1. m <= crashes + faults' + due
    BY <1>1, <1>5
  <2> QED
    BY <2>1
<1>6. ASSUME NEW b \in Buys PROVE Len(gbxLocks'[b]) <= crashes' + faults' + Owed(mem'.swaps[b])
  <2>1. Len(gbxLocks[b]) \in Nat /\ Len(gbxLocks[b]) <= crashes + faults + Owed(mem.swaps[b]) /\ b \in Swaps
    BY DEF Sure, Counted, StateTyped, Swaps
  <2>2. CASE b = s
    BY <1>3, <1>5, <2>1, <2>2
  <2>3. CASE b # s
    BY <1>4, <2>1, <2>3
  <2> QED
    BY <2>2, <2>3
<1>7. ASSUME NEW b \in Sells PROVE Len(usdcLocks'[b]) <= crashes' + faults' + Owed(mem'.swaps[b])
  <2>1. Len(usdcLocks[b]) \in Nat /\ Len(usdcLocks[b]) <= crashes + faults + Owed(mem.swaps[b]) /\ b \in Swaps
    BY DEF Sure, Counted, StateTyped, Swaps
  <2>2. CASE b = s
    BY <1>3, <1>5, <2>1, <2>2
  <2>3. CASE b # s
    BY <1>4, <2>1, <2>3
  <2> QED
    BY <2>2, <2>3
<1> QED
  BY <1>6, <1>7 DEF Counted

(* A sequence of locks gets one more, or two.                              *)
LEMMA Extended ==
  ASSUME NEW S, NEW s \in Seq(S), NEW o \in S
  PROVE  /\ Append(s, o) \in Seq(S) /\ Len(Append(s, o)) = Len(s) + 1
         /\ s \o <<o, o>> \in Seq(S) /\ Len(s \o <<o, o>>) = Len(s) + 2
         /\ DOMAIN s \subseteq DOMAIN Append(s, o) /\ \A k \in DOMAIN s : Append(s, o)[k] = s[k]
         /\ DOMAIN s \subseteq DOMAIN (s \o <<o, o>>) /\ \A k \in DOMAIN s : (s \o <<o, o>>)[k] = s[k]
<1>1. <<o, o>> \in Seq(S) /\ Len(<<o, o>>) = 2 /\ Len(s) \in Nat /\ DOMAIN s = 1 .. Len(s)
  OBVIOUS
<1>2. s \o <<o, o>> \in Seq(S) /\ Len(s \o <<o, o>>) = Len(s) + 2
  BY <1>1
<1>3. DOMAIN s \subseteq DOMAIN (s \o <<o, o>>) /\ \A k \in DOMAIN s : (s \o <<o, o>>)[k] = s[k]
  BY <1>1, <1>2
<1>4. Append(s, o) \in Seq(S) /\ Len(Append(s, o)) = Len(s) + 1
  OBVIOUS
<1>5. DOMAIN s \subseteq DOMAIN Append(s, o) /\ \A k \in DOMAIN s : Append(s, o)[k] = s[k]
  BY <1>1, <1>4
<1> QED
  BY <1>2, <1>3, <1>4, <1>5
LEMMA LocksGbx == ASSUME Sure, Inv, NEW b \in Swaps, LockGbx(b) PROVE Sure'
<1>1. UNCHANGED <<world, usdc, gbx, usdcLocks, intents, crashes>> /\ pc = "lock_gbx" /\ b \in todo /\ b \in Buys
  BY DEF LockGbx
<1>2. b \notin Sells /\ mem \in States /\ intents' \subseteq Swaps /\ pc \in Visiting /\ disk \in States
  BY <1>1, ConstantsAssumption DEF Sure, StateTyped, Visiting
<1>3. /\ gbx \in [Sells -> [state : OutputStates \cup {"none"}, t1 : Nat]]
      /\ usdc \in [Buys -> [state : LockStates \cup {"none"}, t1 : Nat]]
      /\ gbxLocks \in [Buys -> Seq(Outputs)] /\ usdcLocks \in [Sells -> Seq(EvmLocks)]
  BY DEF Sure, StateTyped, Outputs, EvmLocks
<1>4. CASE Visited(b) /\ UNCHANGED <<gbxLocks, disk, mem, faults>>
  BY <1>1, <1>2, <1>4, Skipped DEF chains
<1>5. CASE /\ Status(b) = "none" /\ Record(b, "rejected", 0) /\ disk' = mem' /\ Visited(b)
           /\ UNCHANGED <<gbxLocks, faults>>
  <2>1. /\ mem' \in States /\ mem'.halt = mem.halt
        /\ \A x \in Swaps \ {b} : mem'.swaps[x] = mem.swaps[x]
        /\ mem'.swaps[b].status = "rejected" /\ mem'.swaps[b].unres = 0
    BY <1>2, <1>5, RecordMade DEF Statuses
  <2>2. Onward /\ Paid
    BY <1>1, <1>5, ChainsStill DEF chains
  <2>3. StateTyped'
    BY <1>1, <1>2, <1>3, <1>5, <2>1, ScanTyped
  <2>4. Counted'
    <3>1. \A x \in Swaps : mem'.swaps[x].status = "none" => mem.swaps[x].status = "none"
      BY <2>1
    <3> QED
      BY <1>1, <1>5, <3>1, NoneAdded
  <2>5. BuyTrue(mem'.swaps[b], usdc'[b], gbxLocks'[b])
    BY <2>1 DEF BuyTrue
  <2> QED
    BY <1>1, <1>2, <1>5, <2>1, <2>2, <2>3, <2>4, <2>5, VisitStep DEF world
<1>6. ASSUME Status(b) = "none", UNCHANGED disk,
             NEW out \in Outputs, NEW locks \in Seq(Outputs), gbxLocks' = [gbxLocks EXCEPT ![b] = locks],
             \/ /\ locks = Append(gbxLocks[b], out)
                /\ \/ Record(b, "gbx_locked", Len(gbxLocks[b]) + 1) /\ Visited(b) /\ UNCHANGED faults
                   \/ Fault /\ Raised /\ UNCHANGED mem
             \/ /\ locks = gbxLocks[b] \o <<out, out>>
                /\ Fault /\ Record(b, "gbx_locked", Len(gbxLocks[b]) + 2) /\ Visited(b)
      PROVE  Sure'
  <2>1. gbxLocks[b] \in Seq(Outputs) /\ Len(gbxLocks[b]) \in Nat
    BY <1>1, <1>3
  <2>2. /\ gbxLocks' \in [Buys -> Seq(Outputs)] /\ gbxLocks'[b] = locks
        /\ \A x \in Buys \ {b} : gbxLocks'[x] = gbxLocks[x]
    BY <1>1, <1>3, <1>6
  <2>3. /\ DOMAIN gbxLocks[b] \subseteq DOMAIN locks /\ \A k \in DOMAIN gbxLocks[b] : locks[k] = gbxLocks[b][k]
        /\ Len(locks) \in Nat /\ DOMAIN locks = 1 .. Len(locks)
    <3>1. CASE locks = Append(gbxLocks[b], out)
      BY <2>1, <3>1, Extended
    <3>2. CASE locks = gbxLocks[b] \o <<out, out>>
      BY <2>1, <3>2, Extended
    <3>3. Len(locks) \in Nat /\ DOMAIN locks = 1 .. Len(locks)
      OBVIOUS
    <3> QED
      BY <1>6, <3>1, <3>2, <3>3
  <2>4. Onward /\ Paid
    <3>1. BuyOn(usdc[b], gbxLocks[b], usdc[b], locks)
      BY <2>3 DEF BuyOn
    <3>2. \A x \in Buys : BuyOn(usdc[x], gbxLocks[x], usdc[x], gbxLocks'[x])
      BY <2>2, <3>1, SameOn
    <3> QED
      BY <1>1, <3>2, SameOn DEF Onward, Paid
  <2>5. CASE locks = Append(gbxLocks[b], out) /\ Fault /\ Raised /\ UNCHANGED mem
    <3>1. Len(locks) = Len(gbxLocks[b]) + 1 /\ faults' - faults = 1
      <4>1. faults \in Nat
        BY ConstantsAssumption DEF Sure, StateTyped
      <4> QED
        BY <2>1, <2>5, <4>1, Extended DEF Fault
    <3>2. Counted'
      BY <1>1, <1>2, <1>6, <2>1, <2>2, <2>3, <2>5, <3>1, NewCounted DEF Owed, Status
    <3>3. StateTyped'
      BY <1>1, <1>2, <1>3, <1>6, <2>2, <2>5, ScanTyped
    <3> QED
      BY <1>1, <1>6, <2>4, <2>5, <3>2, <3>3, RaiseStep DEF world
  <2>6. ASSUME NEW extra \in {1, 2}, Len(locks) = Len(gbxLocks[b]) + extra,
               Record(b, "gbx_locked", Len(gbxLocks[b]) + extra), Visited(b),
               Fault \/ UNCHANGED faults, faults' - faults = extra - 1
        PROVE  Sure'
    <3>1. /\ mem' \in States /\ mem'.halt = mem.halt
          /\ \A x \in Swaps \ {b} : mem'.swaps[x] = mem.swaps[x]
          /\ mem'.swaps[b].status = "gbx_locked" /\ mem'.swaps[b].unres = 0
          /\ mem'.swaps[b].lock = Len(gbxLocks[b]) + extra
      <4>1. Len(gbxLocks[b]) + extra \in Nat
        BY <2>1, <2>6
      <4> QED
        BY <1>2, <2>6, <4>1, RecordMade DEF Statuses
    <3>2. StateTyped'
      BY <1>1, <1>2, <1>3, <1>6, <2>2, <2>6, <3>1, ScanTyped
    <3>3. Owed(mem'.swaps[b]) = 1
      BY <3>1 DEF Owed
    <3>4. Len(locks) <= Len(gbxLocks[b]) + (faults' - faults) + 1
      BY <2>1, <2>6
    <3>5. Counted'
      BY <1>1, <1>2, <1>6, <2>2, <2>3, <2>6, <3>1, <3>3, <3>4, NewCounted DEF Status
    <3>6. BuyTrue(mem'.swaps[b], usdc'[b], gbxLocks'[b])
      <4>1. Len(locks) \in DOMAIN locks
        BY <2>1, <2>3, <2>6
      <4> QED
        BY <2>2, <2>6, <3>1, <4>1 DEF BuyTrue
    <3> QED
      BY <1>1, <1>2, <1>6, <2>4, <2>6, <3>1, <3>2, <3>5, <3>6, VisitStep DEF world
  <2>7. faults \in Nat
    BY ConstantsAssumption DEF Sure, StateTyped
  <2>8. CASE locks = Append(gbxLocks[b], out) /\ Record(b, "gbx_locked", Len(gbxLocks[b]) + 1) /\ Visited(b) /\ UNCHANGED faults
    <3>1. Len(locks) = Len(gbxLocks[b]) + 1 /\ faults' - faults = 1 - 1
      BY <2>1, <2>7, <2>8, Extended
    <3> QED
      BY <2>6, <2>8, <3>1
  <2>9. CASE /\ locks = gbxLocks[b] \o <<out, out>>
             /\ Fault /\ Record(b, "gbx_locked", Len(gbxLocks[b]) + 2) /\ Visited(b)
    <3>1. Len(locks) = Len(gbxLocks[b]) + 2 /\ faults' - faults = 2 - 1
      BY <2>1, <2>7, <2>9, Extended DEF Fault
    <3> QED
      BY <2>6, <2>9, <3>1
  <2> QED
    BY <1>6, <2>5, <2>8, <2>9
<1>7. ASSUME Status(b) = "none", ~T2TooClose(usdc[b].t1), UNCHANGED disk, NEW n \in Requested,
             LET out == [state |-> "unspent", t2 |-> height + T2FromT1(usdc[b].t1, n)] IN
             \/ /\ gbxLocks' = [gbxLocks EXCEPT ![b] = Append(@, out)]
                /\ \/ Record(b, "gbx_locked", Len(gbxLocks[b]) + 1) /\ Visited(b) /\ UNCHANGED faults
                   \/ Fault /\ Raised /\ UNCHANGED mem
             \/ /\ gbxLocks' = [gbxLocks EXCEPT ![b] = @ \o <<out, out>>]
                /\ Fault /\ Record(b, "gbx_locked", Len(gbxLocks[b]) + 2) /\ Visited(b)
      PROVE  Sure'
  <2> DEFINE out == [state |-> "unspent", t2 |-> height + T2FromT1(usdc[b].t1, n)]
  <2>2. out \in Outputs
    <3>1. usdc[b].t1 \in Nat
      BY <1>1, <1>3
    <3>2. height + T2FromT1(usdc[b].t1, n) \in Nat
      BY <1>7, <3>1, RoomBeforeT1 DEF Inv
    <3> QED
      BY <3>2 DEF Outputs, OutputStates
  <2>4. Append(gbxLocks[b], out) \in Seq(Outputs) /\ gbxLocks[b] \o <<out, out>> \in Seq(Outputs)
    <3> HIDE DEF out
    <3> QED
      BY <1>1, <1>3, <2>2, Extended
  <2>5. \/ /\ gbxLocks' = [gbxLocks EXCEPT ![b] = Append(gbxLocks[b], out)]
           /\ \/ Record(b, "gbx_locked", Len(gbxLocks[b]) + 1) /\ Visited(b) /\ UNCHANGED faults
              \/ Fault /\ Raised /\ UNCHANGED mem
        \/ /\ gbxLocks' = [gbxLocks EXCEPT ![b] = gbxLocks[b] \o <<out, out>>]
           /\ Fault /\ Record(b, "gbx_locked", Len(gbxLocks[b]) + 2) /\ Visited(b)
    BY <1>7
  <2> HIDE DEF out
  <2> QED
    BY <1>6, <1>7, <2>2, <2>4, <2>5
<1> QED
  BY <1>4, <1>5, <1>7, Raises DEF LockGbx
(* A record made for a sell that had none, with the locks it has.          *)
LEMMA SellRecorded ==
  ASSUME Sure, UNCHANGED <<world, usdc, gbxLocks, gbx, disk, crashes>>, pc = "lock_usdc",
         NEW s \in Sells, Visited(s), Status(s) = "none", Fault \/ UNCHANGED faults, intents' \subseteq Swaps,
         NEW status \in {"rejected", "usdc_locked"}, NEW lock \in Nat, Record(s, status, lock),
         status = "usdc_locked" => lock \in DOMAIN usdcLocks'[s],
         usdcLocks' \in [Sells -> Seq(EvmLocks)], Onward, Paid,
         Len(usdcLocks'[s]) \in Nat, Len(usdcLocks'[s]) <= Len(usdcLocks[s]) + (faults' - faults) + 1,
         \A x \in Sells \ {s} : usdcLocks'[x] = usdcLocks[x]
  PROVE  Sure'
<1>1. s \in Swaps /\ s \notin Buys /\ mem \in States /\ pc \in Visiting
  BY ConstantsAssumption DEF Sure, StateTyped, Swaps, Visiting
<1>2. /\ mem' \in States /\ mem'.halt = mem.halt
      /\ \A x \in Swaps \ {s} : mem'.swaps[x] = mem.swaps[x]
      /\ mem'.swaps[s].status = status /\ mem'.swaps[s].lock = lock
  BY <1>1, RecordMade DEF Statuses
<1>3. StateTyped'
  BY <1>1, <1>2, ScanTyped DEF Sure, StateTyped, Outputs
<1>4. Owed(mem'.swaps[s]) = 1
  BY <1>2 DEF Owed
<1>5. Counted'
  BY <1>1, <1>2, <1>4, NewCounted DEF Status
<1>6. SellTrue(mem'.swaps[s], gbx'[s], usdcLocks'[s])
  BY <1>2 DEF SellTrue
<1> QED
  BY <1>1, <1>2, <1>3, <1>5, <1>6, VisitStep DEF world

LEMMA LocksUsdc == ASSUME Sure, NEW s \in Swaps, LockUsdc(s) PROVE Sure'
<1>1. /\ UNCHANGED <<world, usdc, gbxLocks, gbx, disk, crashes>> /\ pc = "lock_usdc" /\ s \in todo
      /\ intents' \subseteq intents
  BY DEF LockUsdc
<1>2. /\ s \in Sells /\ s \notin Buys /\ mem \in States /\ intents' \subseteq Swaps /\ pc \in Visiting
      /\ usdcLocks \in [Sells -> Seq(EvmLocks)] /\ usdcLocks[s] \in Seq(EvmLocks) /\ Len(usdcLocks[s]) \in Nat
  <2>1. s \in Sells /\ s \notin Buys
    BY <1>1, ConstantsAssumption DEF Sure, Agenda
  <2>2. usdcLocks \in [Sells -> Seq(EvmLocks)] /\ mem \in States /\ intents \subseteq Swaps
    BY DEF Sure, StateTyped, EvmLocks
  <2>3. usdcLocks[s] \in Seq(EvmLocks) /\ Len(usdcLocks[s]) \in Nat
    BY <2>1, <2>2
  <2> QED
    BY <1>1, <2>1, <2>2, <2>3 DEF Visiting
<1>3. faults \in Nat /\ now + SellT2 \in Nat
  <2>1. faults \in Nat /\ now \in Nat /\ SellT2 \in Nat
    BY ConstantsAssumption DEF Sure, StateTyped
  <2> QED
    BY <2>1
<1>4. CASE Visited(s) /\ UNCHANGED <<usdcLocks, mem, faults>>
  BY <1>1, <1>2, <1>4, Skipped DEF chains
<1>5. CASE Status(s) = "none" /\ Record(s, "rejected", 0) /\ Visited(s) /\ UNCHANGED <<usdcLocks, faults>>
  <2>1. Onward /\ Paid
    BY <1>1, <1>5, ChainsStill DEF chains
  <2>2. Len(usdcLocks'[s]) <= Len(usdcLocks[s]) + (faults' - faults) + 1
    BY <1>2, <1>3, <1>5
  <2> QED
    BY <1>1, <1>2, <1>5, <2>1, <2>2, SellRecorded
<1>6. CASE /\ Status(s) = "none"
           /\ usdcLocks' = [usdcLocks EXCEPT ![s] = Append(@, [state |-> "locked", t2 |-> now + SellT2])]
           /\ \/ Record(s, "usdc_locked", Len(usdcLocks[s]) + 1) /\ Visited(s) /\ UNCHANGED faults
              \/ Fault /\ Raised /\ UNCHANGED mem
  <2> DEFINE out == [state |-> "locked", t2 |-> now + SellT2]
             locks == Append(usdcLocks[s], out)
  <2>1. out \in EvmLocks
    BY <1>3 DEF EvmLocks, LockStates
  <2>2. usdcLocks' = [usdcLocks EXCEPT ![s] = locks]
    BY <1>6
  <2> HIDE DEF out
  <2>3. /\ locks \in Seq(EvmLocks) /\ Len(locks) = Len(usdcLocks[s]) + 1 /\ DOMAIN locks = 1 .. Len(locks)
        /\ DOMAIN usdcLocks[s] \subseteq DOMAIN locks /\ \A k \in DOMAIN usdcLocks[s] : locks[k] = usdcLocks[s][k]
    BY <1>2, <2>1, Extended
  <2> HIDE DEF locks
  <2>4. /\ usdcLocks' \in [Sells -> Seq(EvmLocks)] /\ usdcLocks'[s] = locks
        /\ \A x \in Sells \ {s} : usdcLocks'[x] = usdcLocks[x]
    BY <1>2, <2>2, <2>3
  <2>5. Onward /\ Paid
    <3>1. SellOn(gbx[s], usdcLocks[s], gbx[s], locks)
      BY <2>3 DEF SellOn
    <3>2. \A x \in Sells : SellOn(gbx[x], usdcLocks[x], gbx[x], usdcLocks'[x])
      BY <2>4, <3>1, SameOn
    <3> QED
      BY <1>1, <3>2, SameOn DEF Onward, Paid
  <2>6. CASE Record(s, "usdc_locked", Len(usdcLocks[s]) + 1) /\ Visited(s) /\ UNCHANGED faults
    <3>1. Len(usdcLocks[s]) + 1 \in Nat /\ Len(usdcLocks[s]) + 1 \in DOMAIN locks
      BY <1>2, <2>3
    <3>2. Len(locks) \in Nat /\ Len(locks) <= Len(usdcLocks[s]) + (faults' - faults) + 1
      BY <1>2, <1>3, <2>3, <2>6
    <3> QED
      BY <1>1, <1>2, <1>6, <2>4, <2>5, <2>6, <3>1, <3>2, SellRecorded
  <2>7. CASE Fault /\ Raised /\ UNCHANGED mem
    <3>1. Len(locks) \in Nat /\ Len(locks) <= Len(usdcLocks[s]) + (faults' - faults) + 0
      BY <1>2, <1>3, <2>3, <2>7 DEF Fault
    <3>2. Counted'
      BY <1>1, <1>2, <1>6, <2>4, <2>7, <3>1, NewCounted DEF Owed, Status
    <3>3. StateTyped'
      BY <1>1, <1>2, <2>4, <2>7, ScanTyped DEF Sure, StateTyped, Outputs
    <3> QED
      BY <1>1, <2>5, <2>7, <3>2, <3>3, RaiseStep DEF world
  <2> QED
    BY <1>6, <2>6, <2>7
<1>7. CASE /\ Status(s) = "none" /\ Fault /\ Visited(s) /\ UNCHANGED usdcLocks
           /\ IF usdcLocks[s] = <<>> THEN Record(s, "rejected", 0) ELSE Record(s, "usdc_locked", 1)
  <2>1. Onward /\ Paid
    BY <1>1, <1>7, ChainsStill DEF chains
  <2>2. Len(usdcLocks'[s]) <= Len(usdcLocks[s]) + (faults' - faults) + 1
    BY <1>2, <1>3, <1>7 DEF Fault
  <2>3. CASE usdcLocks[s] = <<>>
    BY <1>1, <1>2, <1>7, <2>1, <2>2, <2>3, SellRecorded
  <2>4. CASE usdcLocks[s] # <<>>
    <3>1. 1 \in DOMAIN usdcLocks[s]
      BY <1>2, <2>4
    <3> QED
      BY <1>1, <1>2, <1>7, <2>1, <2>2, <2>4, <3>1, SellRecorded
  <2> QED
    BY <2>3, <2>4
<1> QED
  BY <1>4, <1>5, <1>6, <1>7, Raises DEF LockUsdc
-----------------------------------------------------------------------------
LEMMA SureAtStart == Init => Sure
<1> SUFFICES ASSUME Init PROVE Sure
  OBVIOUS
<1>1. \A s \in Swaps : disk.swaps[s] = NoRecord /\ mem.swaps[s] = NoRecord
  BY DEF Init
<1>2. disk \in States /\ mem \in States
  BY DEF Init, States, Records, NoRecord, Statuses
<1>3. \A b \in Buys : gbxLocks[b] = <<>> /\ usdc[b] = [state |-> "none", t1 |-> 0]
  BY DEF Init
<1>4. \A s \in Sells : usdcLocks[s] = <<>> /\ gbx[s] = [state |-> "none", t1 |-> 0]
  BY DEF Init
<1>5. StateTyped
  <2>1. {MaxTime, MaxLag, MaxFaults, MaxCrashes} \subseteq Nat
    BY ConstantsAssumption
  <2> QED
    BY <1>2, <2>1 DEF Init, StateTyped, Scans
<1>6. MemTrue /\ DiskTrue
  BY <1>1, <1>3, <1>4 DEF Init, MemTrue, DiskTrue, BuyTrue, SellTrue, NoRecord, Swaps
<1>7. Agenda /\ TakesOnlyForGiven
  BY <1>3, <1>4 DEF Init, Agenda, TakesOnlyForGiven
<1>8. Counted
  <2>1. \A s \in Swaps : Owed(mem.swaps[s]) = 0
    BY <1>1 DEF Owed, NoRecord
  <2> QED
    BY <1>3, <1>4, <2>1 DEF Init, Counted, Swaps
<1> QED
  BY <1>5, <1>6, <1>7, <1>8 DEF Init, Sure

LEMMA SureStays == ASSUME Sure, Inv, [Next]_vars PROVE Sure'
<1>1. CASE User
  BY <1>1, IntentPosted, UsdcMoves, GbxMoves, UserClaims DEF User
<1>2. CASE Tick
  BY <1>2, TimePasses
<1>3. CASE StartCycle \/ EndScan \/ Crash
  BY <1>3, Starts, Ends, Restarts
<1>4. CASE Scan
  BY <1>4, LocksGbx, ClaimsUsdc, Looks, Resolves, LocksUsdc, ClaimsGbx, RefundsGbx DEF Scan
<1>5. CASE UNCHANGED vars
  <2>1. StateTyped'
    BY <1>5 DEF vars, world, chains, daemon, Sure, StateTyped
  <2>2. MemTrue' /\ DiskTrue'
    BY <1>5 DEF vars, world, chains, daemon, Sure, MemTrue, DiskTrue
  <2>3. Agenda'
    BY <1>5 DEF vars, world, chains, daemon, Sure, Agenda, Status, Output
  <2>4. TakesOnlyForGiven' /\ Counted'
    BY <1>5 DEF vars, world, chains, daemon, Sure, TakesOnlyForGiven, Counted
  <2> QED
    BY <1>5, <2>1, <2>2, <2>3, <2>4 DEF vars, world, Sure
<1> QED
  BY <1>1, <1>2, <1>3, <1>4, <1>5 DEF Next, Daemon

LEMMA SureAlways == Spec => []Sure
BY SureAtStart, SureStays, InitStep, NextStep, PTL DEF Spec

(* The history holds swaps only, and no excuse is taken back.              *)
LEMMA Excuses ==
  ASSUME [Next]_vars
  PROVE  excused \subseteq excused' /\ excused' \subseteq excused \cup Swaps
<1>1. ASSUME NEW swaps, swaps \subseteq Swaps, Excuse(swaps)
      PROVE  excused \subseteq excused' /\ excused' \subseteq excused \cup Swaps
  BY <1>1 DEF Excuse
<1>2. Unlooked \subseteq Swaps /\ Unsaved \subseteq Swaps
  BY DEF Unlooked, Unsaved, Swaps
<1>3. ASSUME NEW s \in Swaps, Raise(s) \/ RaiseUnrecorded(s)
      PROVE  excused \subseteq excused' /\ excused' \subseteq excused \cup Swaps
  BY <1>1, <1>2, <1>3 DEF Raise, RaiseUnrecorded
<1>4. CASE User \/ Tick
  BY <1>4 DEF User, Tick, PostIntent, UserLocksUsdc, UserRefundsUsdc, UserClaimsGbx,
              UserLocksGbx, UserRefundsGbx, UserClaimsUsdc
<1>5. CASE StartCycle \/ EndScan \/ Crash
  BY <1>1, <1>2, <1>5 DEF StartCycle, EndScan, Crash
<1>6. ASSUME NEW s \in Swaps, LockGbx(s) \/ LockUsdc(s)
      PROVE  excused \subseteq excused' /\ excused' \subseteq excused \cup Swaps
  <2>1. {s} \subseteq Swaps /\ {s} \cap {x \in Sells : MetLate(x)} \subseteq Swaps
    OBVIOUS
  <2> QED
    BY <1>1, <1>3, <1>6, <2>1 DEF LockGbx, LockUsdc
<1>7. ASSUME NEW s \in Swaps,
             ClaimUsdc(s) \/ LookInMempool(s) \/ LookForRefund(s) \/ ClaimGbx(s) \/ RefundGbx(s)
      PROVE  excused \subseteq excused' /\ excused' \subseteq excused \cup Swaps
  BY <1>3, <1>7 DEF ClaimUsdc, LookInMempool, LookForRefund, ClaimGbx, OutputGone, RefundGbx
<1>8. CASE UNCHANGED vars
  BY <1>8 DEF vars
<1> QED
  BY <1>4, <1>5, <1>6, <1>7, <1>8 DEF Next, Daemon, Scan

ExcusedTyped == excused \subseteq Swaps

LEMMA ExcusesTyped == Spec => []ExcusedTyped
<1>1. Init => ExcusedTyped
  BY DEF Init, ExcusedTyped
<1>2. ExcusedTyped /\ [Next]_vars => ExcusedTyped'
  <2> SUFFICES ASSUME ExcusedTyped, [Next]_vars PROVE ExcusedTyped'
    OBVIOUS
  <2> QED
    BY Excuses DEF ExcusedTyped
<1> QED
  BY <1>1, <1>2, PTL DEF Spec

(* The state file (save_state) never says more than the chains do, and the *)
(* permanent halt, which a hand has to clear, is never set by mistake: not *)
(* by a block between two lookups, a lost answer or a restart.             *)
THEOREM StateFileAlwaysTrue == Spec => []StateFileTrue
<1>1. Sure /\ ExcusedTyped => StateFileTrue
  BY DEF ExcusedTyped, Sure, StateTyped, TypeOK, MemTrue, DiskTrue, BuyTrue, SellTrue, StateFileTrue, NoFalseHalt, RecordsTruthful
<1> QED
  BY <1>1, SureAlways, ExcusesTyped, PTL

(* scan_and_claim_usdc and scan_and_claim_gbx take a user's leg only after *)
(* the user took one of the LP's.                                          *)
THEOREM NothingTakenForFree == Spec => []TakesOnlyForGiven
<1>1. Sure => TakesOnlyForGiven
  BY DEF Sure
<1> QED
  BY <1>1, SureAlways, PTL

(* A second lock for one swap needs a restart or a lost answer, one each.  *)
THEOREM NoDuplicateWithoutCause == Spec => []DuplicatesExplained
<1>1. Sure => DuplicatesExplained
  <2> SUFFICES ASSUME Sure PROVE DuplicatesExplained
    OBVIOUS
  <2>1. crashes \in Nat /\ faults \in Nat
    BY ConstantsAssumption DEF Sure, StateTyped
  <2>2. \A r : Owed(r) \in {0, 1}
    BY DEF Owed
  <2>3. ASSUME NEW b \in Buys PROVE Len(gbxLocks[b]) <= 1 + crashes + faults
    <3>1. PICK o \in {0, 1} : o = Owed(mem.swaps[b])
      BY <2>2
    <3>2. Len(gbxLocks[b]) \in Nat /\ Len(gbxLocks[b]) <= crashes + faults + o
      BY <3>1 DEF Sure, Counted, StateTyped
    <3> QED
      BY <2>1, <3>2
  <2>4. ASSUME NEW s \in Sells PROVE Len(usdcLocks[s]) <= 1 + crashes + faults
    <3>1. PICK o \in {0, 1} : o = Owed(mem.swaps[s])
      BY <2>2
    <3>2. Len(usdcLocks[s]) \in Nat /\ Len(usdcLocks[s]) <= crashes + faults + o
      BY <3>1 DEF Sure, Counted, StateTyped
    <3> QED
      BY <2>1, <3>2
  <2> QED
    BY <2>3, <2>4 DEF DuplicatesExplained
<1> QED
  BY <1>1, SureAlways, PTL
-----------------------------------------------------------------------------
(* The daemon implements the abstract swap, for the swaps it may still be  *)
(* held to.  What a scan's look settles, and how late the next look can    *)
(* be, bound how long each leg can stay as it is; the margins between the  *)
(* timelocks are longer.                                                   *)

(* T2_MIN_BLOCKS leaves room for the chain's delay and four cycles.        *)
Timing == MaxLag > 0 /\ T2MinBlocks >= MaxSlow + 4 * MaxLag

(* The clock of one look: the next cycle starts it anew.                   *)
Clock(x, l, past, bound) == x - l <= bound + MaxLag /\ (past => x - l <= bound)

(* What this cycle has behind it: the looks of its scans at a swap.        *)
PastClaim(b) ==
  \/ pc \in {"lock_usdc", "claim_gbx", "refund_gbx"}
  \/ pc \in {"claim_usdc", "in_mempool", "via_refund"} /\ (b \notin todo \/ b \in probe)
PastRefund(b) == pc = "refund_gbx" /\ b \notin todo
PastLook(s) == pc = "refund_gbx" \/ (pc = "claim_gbx" /\ s \notin todo)
PastSnapshot(s) == pc = "refund_gbx" \/ (pc = "claim_gbx" /\ ~(s \in todo /\ s \in probe))

(* What a record knows of a buy, and how late each step of it can still    *)
(* be: an output unspent at T2 is taken back by the next look, a claim     *)
(* made before is confirmed before the look after, and the USDC is taken   *)
(* by the one that follows.                                                *)
BuyKnown(b) ==
  /\ gbxLocks[b] # <<>> => Len(gbxLocks[b]) = 1 /\ Status(b) \notin {"none", "rejected"}
  /\ usdc[b].state = "refunded" => now >= usdc[b].t1
BuyTimely(b, o) ==
  /\ o.state \in {"unspent", "claiming"} => height <= o.t2 - 1 + 2 * MaxLag
  /\ o.state = "unspent" =>
       Clock(height, lag, PastRefund(b), o.t2 - 1)
  /\ o.state \in {"unspent", "claiming", "claimed"} /\ usdc[b].state = "locked" =>
       Clock(height, lag, PastClaim(b), o.t2 - 1 + 2 * MaxLag)
  /\ o.t2 + MaxSlow + 4 * MaxLag <= usdc[b].t1
  /\ usdc[b].state = "refunded" => o.state \in {"refunding", "refunded"}
BuyOk(b) == BuyKnown(b) /\ (gbxLocks[b] # <<>> => BuyTimely(b, gbxLocks[b][1]))

(* The same of a sell that was not met late: the USDC lock is settled two  *)
(* cycles after its end, and a claim of it seen one later, when the        *)
(* seller's own lock still has to run.                                     *)
SellKnown(s) ==
  usdcLocks[s] # <<>> =>
    Len(usdcLocks[s]) = 1 /\ Status(s) \notin {"none", "rejected"} /\ gbx[s].state # "none"
SellTimely(s, o) ==
  /\ gbx[s].t1 - height > RefundGrace + 3 * MaxLag + (o.t2 - now)
  /\ o.state = "locked" =>
       Clock(now, lag, PastLook(s), o.t2 + RefundGrace)
  /\ o.state = "claimed" /\ gbx[s].state = "unspent" =>
       Clock(now, lag, PastSnapshot(s), o.t2 + RefundGrace + MaxLag)
  /\ gbx[s].state \in {"refunding", "refunded"} => o.state = "refunded"
SellOk(s) == SellKnown(s) /\ (usdcLocks[s] # <<>> => SellTimely(s, usdcLocks[s][1]))

Timely == (\A b \in Buys \ excused : BuyOk(b)) /\ (\A s \in Sells \ excused : SellOk(s))

(* All that is known while the daemon is in time.                          *)
InTime == Timing /\ Inv /\ Sure /\ ExcusedTyped /\ Timely

(* An excuse is never taken back.                                          *)
Grows == excused \subseteq excused'

LEMMA ClockStays ==
  ASSUME NEW x \in Int, NEW l \in Nat, l <= MaxLag, MaxLag \in Nat, NEW bound \in Int, NEW past, NEW past2,
         Clock(x, l, past, bound), NEW l2, l2 = l \/ (l2 = 0 /\ past /\ ~past2), past2 => past \/ x <= bound
  PROVE  Clock(x, l2, past2, bound)
<1>1. x - l <= bound + MaxLag /\ (past => x - l <= bound)
  BY DEF Clock
<1>2. CASE l2 = l
  <2>1. past2 => x - l <= bound
    BY <1>1
  <2> QED
    BY <1>1, <1>2, <2>1 DEF Clock
<1>3. CASE l2 = 0 /\ past /\ ~past2
  <2>1. x - 0 <= bound + MaxLag
    BY <1>1, <1>3
  <2> QED
    BY <1>3, <2>1 DEF Clock
<1> QED
  BY <1>2, <1>3

LEMMA Numbers ==
  ASSUME InTime
  PROVE  /\ now \in Nat /\ height \in Nat /\ lag \in Nat /\ lag <= MaxLag /\ height <= now /\ now - height <= MaxSlow
         /\ MaxLag \in Nat /\ MaxSlow \in Nat /\ T2MinBlocks \in Nat
         /\ SellT2 \in Nat /\ RefundGrace \in Nat
<1>1. /\ MaxLag \in Nat /\ MaxSlow \in Nat /\ T2MinBlocks \in Nat
      /\ SellT2 \in Nat /\ RefundGrace \in Nat /\ MaxTime \in Nat
  BY ConstantsAssumption
<1> QED
  BY <1>1 DEF InTime, Sure, StateTyped, Inv, Pace

(* What InTime says of one swap.                                           *)
LEMMA OfOneBuy ==
  ASSUME InTime, NEW b \in Buys \ excused
  PROVE  BuyKnown(b) /\ (gbxLocks[b] # <<>> => BuyTimely(b, gbxLocks[b][1]))
BY DEF InTime, Timely, BuyOk
LEMMA OfOneSell ==
  ASSUME InTime, NEW s \in Sells \ excused
  PROVE  SellKnown(s) /\ (usdcLocks[s] # <<>> => SellTimely(s, usdcLocks[s][1]))
BY DEF InTime, Timely, SellOk

LEMMA OnlyOne ==
  ASSUME NEW S, NEW q \in Seq(S)
  PROVE  /\ q # <<>> => 1 \in DOMAIN q /\ q[1] \in S
         /\ q # <<>> /\ Len(q) = 1 => DOMAIN q = {1}
<1>1. Len(q) \in Nat /\ DOMAIN q = 1 .. Len(q) /\ (Len(q) = 0 => q = <<>>) /\ \A k \in 1 .. Len(q) : q[k] \in S
  OBVIOUS
<1> QED
  BY <1>1

LEMMA BuyLocks ==
  ASSUME InTime, NEW b \in Buys
  PROVE  /\ usdc[b].state \in LockStates \cup {"none"} /\ usdc[b].t1 \in Nat
         /\ gbxLocks[b] \in Seq(Outputs)
         /\ gbxLocks[b] # <<>> =>
              /\ usdc[b].state # "none" /\ 1 \in DOMAIN gbxLocks[b]
              /\ gbxLocks[b][1].state \in OutputStates /\ gbxLocks[b][1].t2 \in Nat
<1>1. usdc[b].state \in LockStates \cup {"none"} /\ usdc[b].t1 \in Nat /\ gbxLocks[b] \in Seq(Outputs)
  BY DEF InTime, Inv, Typed
<1>2. gbxLocks[b] # <<>> => usdc[b].state # "none"
  BY DEF InTime, Inv, Served
<1>3. gbxLocks[b] # <<>> => 1 \in DOMAIN gbxLocks[b] /\ gbxLocks[b][1] \in Outputs
  BY <1>1, OnlyOne
<1> QED
  BY <1>1, <1>2, <1>3 DEF Outputs

LEMMA SellLocks ==
  ASSUME InTime, NEW s \in Sells
  PROVE  /\ gbx[s].state \in OutputStates \cup {"none"} /\ gbx[s].t1 \in Nat
         /\ usdcLocks[s] \in Seq(EvmLocks)
         /\ usdcLocks[s] # <<>> =>
              1 \in DOMAIN usdcLocks[s] /\ usdcLocks[s][1].state \in LockStates /\ usdcLocks[s][1].t2 \in Nat
<1>1. gbx \in [Sells -> [state : OutputStates \cup {"none"}, t1 : Nat]] /\ usdcLocks \in [Sells -> Seq(EvmLocks)]
  BY DEF InTime, Sure, StateTyped, EvmLocks
<1>2. gbx[s].state \in OutputStates \cup {"none"} /\ gbx[s].t1 \in Nat /\ usdcLocks[s] \in Seq(EvmLocks)
  BY <1>1
<1>3. usdcLocks[s] # <<>> => 1 \in DOMAIN usdcLocks[s] /\ usdcLocks[s][1] \in EvmLocks
  BY <1>2, OnlyOne
<1> QED
  BY <1>2, <1>3 DEF EvmLocks

(* Nothing is left to do for a swap: no look at it can come too late.      *)
BuyIdle(b) ==
  \/ gbxLocks[b] = <<>>
  \/ gbxLocks[b][1].state \in {"refunding", "refunded"}
  \/ gbxLocks[b][1].state = "claimed" /\ usdc[b].state = "claimed"
SellIdle(s) ==
  \/ usdcLocks[s] = <<>>
  \/ usdcLocks[s][1].state = "refunded"
  \/ usdcLocks[s][1].state = "claimed" /\ gbx[s].state # "unspent"

(* A buy that is not excused has one output at most, the one its record    *)
(* names, and a record that is closed closed it.                           *)
LEMMA BuyAlone ==
  ASSUME InTime, NEW b \in Buys \ excused
  PROVE  /\ Status(b) \in {"none", "rejected"} => gbxLocks[b] = <<>>
         /\ gbxLocks[b] # <<>> => Len(gbxLocks[b]) = 1 /\ DOMAIN gbxLocks[b] = {1}
         /\ Status(b) \notin {"none", "rejected"} =>
              mem.swaps[b].lock = 1 /\ gbxLocks[b] # <<>> /\ Output(b) = gbxLocks[b][1]
         /\ usdc[b].state = "claimed" => gbxLocks[b] # <<>> /\ gbxLocks[b][1].state = "claimed"
         /\ Status(b) # "gbx_locked" => BuyIdle(b)
<1>1. BuyKnown(b) /\ (gbxLocks[b] # <<>> => BuyTimely(b, gbxLocks[b][1]))
  BY OfOneBuy
<1>2. gbxLocks[b] \in Seq(Outputs) /\ DOMAIN <<>> = {}
  BY BuyLocks
<1>3. gbxLocks[b] # <<>> => Len(gbxLocks[b]) = 1 /\ DOMAIN gbxLocks[b] = {1}
  BY <1>1, <1>2, OnlyOne DEF BuyKnown
<1>4. BuyTrue(mem.swaps[b], usdc[b], gbxLocks[b])
  BY DEF InTime, Sure, MemTrue
<1>5. Status(b) \notin {"none", "rejected"} => mem.swaps[b].lock = 1 /\ gbxLocks[b] # <<>> /\ Output(b) = gbxLocks[b][1]
  <2>1. Status(b) \notin {"none", "rejected"} => mem.swaps[b].lock \in DOMAIN gbxLocks[b]
    BY <1>4 DEF BuyTrue, Status
  <2> QED
    BY <1>2, <1>3, <2>1 DEF Output
<1>6. usdc[b].state = "claimed" => gbxLocks[b] # <<>> /\ gbxLocks[b][1].state = "claimed"
  <2>1. usdc[b].state = "claimed" => \E k \in DOMAIN gbxLocks[b] : gbxLocks[b][k].state = "claimed"
    BY DEF InTime, Sure, TakesOnlyForGiven
  <2> QED
    BY <1>2, <1>3, <2>1
<1>7. Status(b) # "gbx_locked" => BuyIdle(b)
  <2>1. Status(b) \in {"none", "rejected"} => BuyIdle(b)
    BY <1>1 DEF BuyKnown, BuyIdle
  <2>2. Status(b) = "completed" => BuyIdle(b)
    BY <1>4, <1>6 DEF BuyTrue, Status, BuyIdle
  <2>3. Status(b) \in {"refunded_by_lp", "refunded_on_timelock"} => BuyIdle(b)
    BY <1>4, <1>5 DEF BuyTrue, Status, BuyIdle, Output
  <2>4. Status(b) = "evm_claim_failed" => BuyIdle(b)
    <3>1. Status(b) = "evm_claim_failed" => gbxLocks[b][1].state = "claimed" /\ usdc[b].state \in {"claimed", "refunded"}
      BY <1>4, <1>5 DEF BuyTrue, Status
    <3> QED
      BY <1>1, <1>5, <3>1 DEF BuyTimely, BuyIdle
  <2> QED
    BY <1>4, <2>1, <2>2, <2>3, <2>4 DEF BuyTrue, Status
<1> QED
  BY <1>1, <1>3, <1>5, <1>6, <1>7 DEF BuyKnown

LEMMA SellAlone ==
  ASSUME InTime, NEW s \in Sells \ excused
  PROVE  /\ Status(s) \in {"none", "rejected"} => usdcLocks[s] = <<>>
         /\ usdcLocks[s] # <<>> => Len(usdcLocks[s]) = 1 /\ DOMAIN usdcLocks[s] = {1}
         /\ Status(s) \notin {"none", "rejected"} =>
              mem.swaps[s].lock = 1 /\ usdcLocks[s] # <<>> /\ Lock(s) = usdcLocks[s][1]
         /\ gbx[s].state \in {"claiming", "claimed"} => usdcLocks[s] # <<>> /\ usdcLocks[s][1].state = "claimed"
         /\ Status(s) # "usdc_locked" => SellIdle(s)
<1>1. SellKnown(s)
  BY OfOneSell
<1>2. usdcLocks[s] \in Seq(EvmLocks) /\ DOMAIN <<>> = {}
  BY SellLocks
<1>3. usdcLocks[s] # <<>> => Len(usdcLocks[s]) = 1 /\ DOMAIN usdcLocks[s] = {1}
  BY <1>1, <1>2, OnlyOne DEF SellKnown
<1>4. SellTrue(mem.swaps[s], gbx[s], usdcLocks[s])
  BY DEF InTime, Sure, MemTrue
<1>5. Status(s) \notin {"none", "rejected"} => mem.swaps[s].lock = 1 /\ usdcLocks[s] # <<>> /\ Lock(s) = usdcLocks[s][1]
  <2>1. Status(s) \notin {"none", "rejected"} => mem.swaps[s].lock \in DOMAIN usdcLocks[s]
    BY <1>4 DEF SellTrue, Status
  <2> QED
    BY <1>2, <1>3, <2>1 DEF Lock
<1>6. gbx[s].state \in {"claiming", "claimed"} => usdcLocks[s] # <<>> /\ usdcLocks[s][1].state = "claimed"
  <2>1. gbx[s].state \in {"claiming", "claimed"} => \E k \in DOMAIN usdcLocks[s] : usdcLocks[s][k].state = "claimed"
    BY DEF InTime, Sure, TakesOnlyForGiven
  <2> QED
    BY <1>2, <1>3, <2>1
<1>7. Status(s) # "usdc_locked" => SellIdle(s)
  <2>1. Status(s) \in {"none", "rejected"} => SellIdle(s)
    BY <1>1 DEF SellKnown, SellIdle
  <2>2. Status(s) = "completed" => SellIdle(s)
    BY <1>4, <1>6 DEF SellTrue, Status, SellIdle
  <2>3. Status(s) = "refunded_by_lp" => SellIdle(s)
    BY <1>4, <1>5 DEF SellTrue, Status, SellIdle, Lock
  <2> QED
    BY <1>4, <2>1, <2>2, <2>3 DEF SellTrue, Status
<1> QED
  BY <1>1, <1>3, <1>5, <1>6, <1>7 DEF SellKnown
-----------------------------------------------------------------------------
(* Swaps a step leaves alone: what they know stays true as long as the     *)
(* step passes no look that had something to do.                           *)
BuyPasses(b) ==
  /\ PastClaim(b)' => \/ PastClaim(b) \/ gbxLocks[b] = <<>> \/ gbxLocks[b][1].state # "claimed"
                      \/ usdc[b].state # "locked"
  /\ PastRefund(b)' => \/ PastRefund(b) \/ gbxLocks[b] = <<>> \/ gbxLocks[b][1].state # "unspent"
                       \/ height < gbxLocks[b][1].t2
SellPasses(s) ==
  /\ PastLook(s)' => \/ PastLook(s) \/ usdcLocks[s] = <<>> \/ usdcLocks[s][1].state # "locked"
                     \/ now <= usdcLocks[s][1].t2 + RefundGrace
  /\ PastSnapshot(s)' => \/ PastSnapshot(s) \/ usdcLocks[s] = <<>> \/ usdcLocks[s][1].state # "claimed"
                         \/ gbx[s].state # "unspent"

(* The next cycle begins when this one has passed all its looks.           *)
BuySteady(b) ==
  \/ BuyIdle(b)
  \/ /\ BuyPasses(b)
     /\ \/ lag' = lag
        \/ lag' = 0 /\ PastClaim(b) /\ PastRefund(b) /\ ~PastClaim(b)' /\ ~PastRefund(b)'
SellSteady(s) ==
  \/ SellIdle(s)
  \/ /\ SellPasses(s)
     /\ \/ lag' = lag
        \/ lag' = 0 /\ PastLook(s) /\ PastSnapshot(s) /\ ~PastLook(s)' /\ ~PastSnapshot(s)'

LEMMA BuyKeeps ==
  ASSUME InTime, NEW b \in Buys \ excused, UNCHANGED <<now, height>>,
         usdc'[b] = usdc[b], gbxLocks'[b] = gbxLocks[b],
         gbxLocks[b] # <<>> => mem'.swaps[b].status \notin {"none", "rejected"}, BuySteady(b)
  PROVE  BuyOk(b)'
<1>1. BuyKnown(b) /\ (gbxLocks[b] # <<>> => BuyTimely(b, gbxLocks[b][1]))
  BY OfOneBuy
<1>2. BuyKnown(b)'
  BY <1>1 DEF BuyKnown, Status
<1>3. CASE BuyIdle(b)
  <2>1. gbxLocks[b] # <<>> => BuyTimely(b, gbxLocks[b][1])'
    BY <1>1, <1>3 DEF BuyTimely, BuyIdle
  <2> QED
    BY <1>2, <2>1 DEF BuyOk
<1>4. ASSUME ~BuyIdle(b), gbxLocks[b] # <<>>
      PROVE  BuyTimely(b, gbxLocks[b][1])'
  <2> DEFINE o == gbxLocks[b][1]
  <2>1. o.t2 \in Nat /\ o.state \in OutputStates
    BY <1>4, BuyLocks
  <2>2. /\ now \in Nat /\ height \in Int /\ lag \in Nat /\ lag <= MaxLag /\ MaxLag \in Nat
    BY Numbers
  <2>3. o.t2 - 1 \in Int /\ o.t2 - 1 + 2 * MaxLag \in Int
    BY <2>1, <2>2
  <2>4. /\ BuyPasses(b)
        /\ lag' = lag \/ (lag' = 0 /\ PastClaim(b) /\ PastRefund(b) /\ ~PastClaim(b)' /\ ~PastRefund(b)')
    BY <1>4 DEF BuySteady
  <2>5. ASSUME o.state = "unspent"
        PROVE  Clock(height, lag', PastRefund(b)', o.t2 - 1)
    <3>1. Clock(height, lag, PastRefund(b), o.t2 - 1)
      BY <1>1, <1>4, <2>5 DEF BuyTimely
    <3>2. PastRefund(b)' => PastRefund(b) \/ height <= o.t2 - 1
      BY <1>4, <2>1, <2>2, <2>4, <2>5 DEF BuyPasses
    <3> QED
      BY <2>2, <2>3, <2>4, <3>1, <3>2, ClockStays
  <2>6. ASSUME o.state \in {"unspent", "claiming", "claimed"}, usdc[b].state = "locked"
        PROVE  Clock(height, lag', PastClaim(b)', o.t2 - 1 + 2 * MaxLag)
    <3>1. Clock(height, lag, PastClaim(b), o.t2 - 1 + 2 * MaxLag)
      BY <1>1, <1>4, <2>6 DEF BuyTimely
    <3>2. PastClaim(b)' => PastClaim(b) \/ height <= o.t2 - 1 + 2 * MaxLag
      <4>1. o.state \in {"unspent", "claiming"} => height <= o.t2 - 1 + 2 * MaxLag
        BY <1>1, <1>4 DEF BuyTimely
      <4> QED
        BY <1>4, <2>4, <2>6, <4>1 DEF BuyPasses
    <3>3. PICK c \in Int : c = o.t2 - 1 + 2 * MaxLag
      BY <2>3
    <3>4. Clock(height, lag, PastClaim(b), c) /\ (PastClaim(b)' => PastClaim(b) \/ height <= c)
      BY <3>1, <3>2, <3>3
    <3>5. lag' = lag \/ (lag' = 0 /\ PastClaim(b) /\ ~PastClaim(b)')
      BY <2>4
    <3>6. Clock(height, lag', PastClaim(b)', c)
      BY <2>2, <3>4, <3>5, ClockStays
    <3> QED
      BY <3>3, <3>6
  <2> QED
    BY <1>1, <1>4, <2>5, <2>6 DEF BuyTimely
<1> QED
  BY <1>2, <1>3, <1>4 DEF BuyOk

LEMMA SellKeeps ==
  ASSUME InTime, NEW s \in Sells \ excused, UNCHANGED <<now, height>>,
         gbx'[s] = gbx[s], usdcLocks'[s] = usdcLocks[s],
         usdcLocks[s] # <<>> => mem'.swaps[s].status \notin {"none", "rejected"}, SellSteady(s)
  PROVE  SellOk(s)'
<1>1. SellKnown(s) /\ (usdcLocks[s] # <<>> => SellTimely(s, usdcLocks[s][1]))
  BY OfOneSell
<1>2. now \in Int /\ height \in Int /\ lag \in Nat /\ lag <= MaxLag /\ MaxLag \in Nat /\ RefundGrace \in Nat
  BY Numbers
<1>3. SellKnown(s)'
  BY <1>1 DEF SellKnown, Status
<1>4. CASE SellIdle(s)
  <2>1. usdcLocks[s] # <<>> => SellTimely(s, usdcLocks[s][1])'
    BY <1>1, <1>4 DEF SellTimely, SellIdle
  <2> QED
    BY <1>3, <2>1 DEF SellOk
<1>5. ASSUME ~SellIdle(s), usdcLocks[s] # <<>>
      PROVE  SellTimely(s, usdcLocks[s][1])'
  <2> DEFINE o == usdcLocks[s][1]
  <2>1. o.t2 \in Nat
    BY <1>5, SellLocks
  <2>2. o.t2 + RefundGrace \in Int /\ o.t2 + RefundGrace + MaxLag \in Int
    BY <1>2, <2>1
  <2>3. /\ SellPasses(s)
        /\ lag' = lag \/ (lag' = 0 /\ PastLook(s) /\ PastSnapshot(s) /\ ~PastLook(s)' /\ ~PastSnapshot(s)')
    BY <1>5 DEF SellSteady
  <2>4. ASSUME o.state = "locked"
        PROVE  Clock(now, lag', PastLook(s)', o.t2 + RefundGrace)
    <3>1. Clock(now, lag, PastLook(s), o.t2 + RefundGrace)
      BY <1>1, <1>5, <2>4 DEF SellTimely
    <3>2. PastLook(s)' => PastLook(s) \/ now <= o.t2 + RefundGrace
      BY <1>5, <2>3, <2>4 DEF SellPasses
    <3> QED
      BY <1>2, <2>2, <2>3, <3>1, <3>2, ClockStays
  <2>5. ASSUME o.state = "claimed", gbx[s].state = "unspent"
        PROVE  Clock(now, lag', PastSnapshot(s)', o.t2 + RefundGrace + MaxLag)
    <3>1. Clock(now, lag, PastSnapshot(s), o.t2 + RefundGrace + MaxLag)
      BY <1>1, <1>5, <2>5 DEF SellTimely
    <3>2. PastSnapshot(s)' => PastSnapshot(s)
      BY <1>5, <2>3, <2>5 DEF SellPasses
    <3> QED
      BY <1>2, <2>2, <2>3, <3>1, <3>2, ClockStays
  <2> QED
    BY <1>1, <1>5, <2>4, <2>5 DEF SellTimely
<1> QED
  BY <1>3, <1>4, <1>5 DEF SellOk
-----------------------------------------------------------------------------
(* One swap moves, the others stay.                                        *)
FirstLeg(s) == Leg(IF s \in Buys THEN usdc[s].state ELSE gbx[s].state)
SecondLeg(s) == SecondOf(IF s \in Buys THEN gbxLocks[s] ELSE usdcLocks[s])
OneMove(f, g, f2, g2) ==
  \/ f2 = f /\ g2 = g
  \/ f = "none" /\ f2 = "locked" /\ g2 = g
  \/ f = "locked" /\ g = "none" /\ f2 = f /\ g2 = "locked"
  \/ g = "locked" /\ f # "refunded" /\ f2 = f /\ g2 = "claimed"
  \/ f = "locked" /\ g = "claimed" /\ f2 = "claimed" /\ g2 = g
  \/ g = "locked" /\ f2 = f /\ g2 = "refunded"
  \/ f = "locked" /\ g # "claimed" /\ f2 = "refunded" /\ g2 = g

LEMMA Legs2 ==
  /\ Leg("none") = "none" /\ Leg("unspent") = "locked" /\ Leg("locked") = "locked"
  /\ Leg("claiming") = "claimed" /\ Leg("claimed") = "claimed"
  /\ Leg("refunding") = "refunded" /\ Leg("refunded") = "refunded"
  /\ SecondOf(<<>>) = "none" /\ \A q : q # <<>> => SecondOf(q) = Leg(q[1].state)
BY DEF Leg, SecondOf

LEMMA LegsTyped ==
  /\ \A state : Leg(state) \in AbstractSwap!LegStates
  /\ \A q : SecondOf(q) \in AbstractSwap!LegStates
BY DEF Leg, SecondOf, AbstractSwap!LegStates

(* What the abstract swap sees of a step, but for the excuses.             *)
SwapMoves ==
  \/ UNCHANGED <<First, Second>>
  \/ \E s \in Swaps :
       \/ AbstractSwap!FundFirst(s) \/ AbstractSwap!FundSecond(s) \/ AbstractSwap!TakeSecond(s)
       \/ AbstractSwap!TakeFirst(s) \/ AbstractSwap!RefundSecond(s) \/ AbstractSwap!RefundFirst(s)
       \/ AbstractSwap!Stray(s)

LEMMA OneLeg ==
  ASSUME NEW s \in Swaps,
         \A x \in Swaps \ {s} : FirstLeg(x)' = FirstLeg(x) /\ SecondLeg(x)' = SecondLeg(x),
         s \notin excused' => OneMove(FirstLeg(s), SecondLeg(s), FirstLeg(s)', SecondLeg(s)')
  PROVE  SwapMoves
<1> DEFINE f == First
           g == Second
<1>1. /\ f = [x \in Swaps |-> FirstLeg(x)] /\ f' = [x \in Swaps |-> FirstLeg(x)']
      /\ g = [x \in Swaps |-> SecondLeg(x)] /\ g' = [x \in Swaps |-> SecondLeg(x)']
  BY DEF First, Second, FirstLeg, SecondLeg
<1>2. s \notin excused' => OneMove(f[s], g[s], f'[s], g'[s])
  BY <1>1
<1>3. /\ f'[s] = f[s] => f' = f
      /\ g'[s] = g[s] => g' = g
      /\ f' = [f EXCEPT ![s] = f'[s]] /\ g' = [g EXCEPT ![s] = g'[s]]
  BY <1>1
<1>4. f'[s] \in AbstractSwap!LegStates /\ g'[s] \in AbstractSwap!LegStates
  <2>1. f'[s] = FirstLeg(s)' /\ g'[s] = SecondLeg(s)'
    BY <1>1
  <2>2. FirstLeg(s)' \in AbstractSwap!LegStates /\ SecondLeg(s)' \in AbstractSwap!LegStates
    BY LegsTyped DEF FirstLeg, SecondLeg
  <2> QED
    BY <2>1, <2>2
<1> HIDE DEF f, g
<1>5. CASE s \notin excused'
  <2>1. \/ f' = f /\ g' = g
        \/ /\ g' = g
           /\ \/ f[s] = "none" /\ f' = [f EXCEPT ![s] = "locked"]
              \/ f[s] = "locked" /\ g[s] = "claimed" /\ f' = [f EXCEPT ![s] = "claimed"]
              \/ f[s] = "locked" /\ g[s] # "claimed" /\ f' = [f EXCEPT ![s] = "refunded"]
        \/ /\ f' = f
           /\ \/ f[s] = "locked" /\ g[s] = "none" /\ g' = [g EXCEPT ![s] = "locked"]
              \/ g[s] = "locked" /\ f[s] # "refunded" /\ g' = [g EXCEPT ![s] = "claimed"]
              \/ g[s] = "locked" /\ g' = [g EXCEPT ![s] = "refunded"]
    BY <1>2, <1>3, <1>5 DEF OneMove
  <2>2. \/ f' = f /\ g' = g
        \/ AbstractSwap!FundFirst(s) \/ AbstractSwap!FundSecond(s) \/ AbstractSwap!TakeSecond(s)
        \/ AbstractSwap!TakeFirst(s) \/ AbstractSwap!RefundSecond(s) \/ AbstractSwap!RefundFirst(s)
    BY <2>1 DEF AbstractSwap!FundFirst, AbstractSwap!FundSecond, AbstractSwap!TakeSecond, AbstractSwap!TakeFirst,
                AbstractSwap!RefundSecond, AbstractSwap!RefundFirst, f, g
  <2> QED
    BY <2>2 DEF SwapMoves, f, g
<1>6. CASE s \in excused'
  <2>1. AbstractSwap!Stray(s)
    BY <1>3, <1>4, <1>6 DEF AbstractSwap!Stray, f, g
  <2> QED
    BY <2>1 DEF SwapMoves
<1> QED
  BY <1>5, <1>6

(* The swaps but s, as far as a promise is made for them, go on as before. *)
Going(s) ==
  /\ \A b \in Buys \ {s} : b \notin excused' => BuyPasses(b) \/ BuyIdle(b)
  /\ \A x \in Sells \ {s} : x \notin excused' => SellPasses(x) \/ SellIdle(x)

Apart(s) ==
  /\ UNCHANGED <<now, height, lag>> /\ Grows /\ Going(s)
  /\ \A b \in Buys \ {s} : /\ usdc'[b] = usdc[b] /\ gbxLocks'[b] = gbxLocks[b]
                           /\ mem'.swaps[b].status = mem.swaps[b].status
  /\ \A x \in Sells \ {s} : /\ gbx'[x] = gbx[x] /\ usdcLocks'[x] = usdcLocks[x]
                            /\ mem'.swaps[x].status = mem.swaps[x].status

LEMMA OthersStay ==
  ASSUME InTime, NEW s \in Swaps, Apart(s),
         s \in Buys \ excused' => BuyOk(s)', s \in Sells \ excused' => SellOk(s)',
         s \notin excused' => OneMove(FirstLeg(s), SecondLeg(s), FirstLeg(s)', SecondLeg(s)')
  PROVE  Timely' /\ SwapMoves
<1>1. ASSUME NEW b \in Buys \ excused', b # s PROVE BuyOk(b)'
  <2>1. b \in Buys \ excused /\ BuySteady(b)
    BY <1>1 DEF Apart, Going, Grows, BuySteady
  <2>2. gbxLocks[b] # <<>> => mem'.swaps[b].status \notin {"none", "rejected"}
    BY <1>1, <2>1, OfOneBuy DEF Apart, BuyKnown, Status
  <2> QED
    BY <1>1, <2>1, <2>2, BuyKeeps DEF Apart
<1>2. ASSUME NEW x \in Sells \ excused', x # s PROVE SellOk(x)'
  <2>1. x \in Sells \ excused /\ SellSteady(x)
    BY <1>2 DEF Apart, Going, Grows, SellSteady
  <2>2. usdcLocks[x] # <<>> => mem'.swaps[x].status \notin {"none", "rejected"}
    BY <1>2, <2>1, OfOneSell DEF Apart, SellKnown, Status
  <2> QED
    BY <1>2, <2>1, <2>2, SellKeeps DEF Apart
<1>3. \A x \in Swaps \ {s} : FirstLeg(x)' = FirstLeg(x) /\ SecondLeg(x)' = SecondLeg(x)
  BY DEF Apart, FirstLeg, SecondLeg, Swaps
<1> QED
  BY <1>1, <1>2, <1>3, OneLeg DEF Timely

LEMMA OneBuy ==
  ASSUME InTime, NEW b \in Buys, Apart(b),
         b \notin excused' =>
           /\ BuyOk(b)'
           /\ OneMove(Leg(usdc[b].state), SecondOf(gbxLocks[b]), Leg(usdc'[b].state), SecondOf(gbxLocks'[b]))
  PROVE  Timely' /\ SwapMoves
<1>1. b \in Swaps /\ b \notin Sells
  BY ConstantsAssumption DEF Swaps
<1>2. b \notin excused' => OneMove(FirstLeg(b), SecondLeg(b), FirstLeg(b)', SecondLeg(b)')
  BY DEF FirstLeg, SecondLeg
<1> QED
  BY <1>1, <1>2, OthersStay

LEMMA OneSell ==
  ASSUME InTime, NEW s \in Sells, Apart(s),
         s \notin excused' =>
           /\ SellOk(s)'
           /\ OneMove(Leg(gbx[s].state), SecondOf(usdcLocks[s]), Leg(gbx'[s].state), SecondOf(usdcLocks'[s]))
  PROVE  Timely' /\ SwapMoves
<1>1. s \in Swaps /\ s \notin Buys
  BY ConstantsAssumption DEF Swaps
<1>2. s \notin excused' => OneMove(FirstLeg(s), SecondLeg(s), FirstLeg(s)', SecondLeg(s)')
  BY <1>1 DEF FirstLeg, SecondLeg
<1> QED
  BY <1>1, <1>2, OthersStay

(* No swap moves.                                                          *)
LEMMA NoneMoves ==
  ASSUME InTime, Grows, UNCHANGED <<now, height, chains>>,
         \A b \in Buys \ excused' :
           /\ gbxLocks[b] # <<>> => mem'.swaps[b].status \notin {"none", "rejected"}
           /\ BuySteady(b),
         \A s \in Sells \ excused' :
           /\ usdcLocks[s] # <<>> => mem'.swaps[s].status \notin {"none", "rejected"}
           /\ SellSteady(s)
  PROVE  Timely' /\ SwapMoves
<1>1. \A b \in Buys \ excused' : BuyOk(b)'
  BY BuyKeeps DEF chains, Grows
<1>2. \A s \in Sells \ excused' : SellOk(s)'
  BY SellKeeps DEF chains, Grows
<1>3. UNCHANGED <<First, Second>>
  BY DEF First, Second, chains
<1> QED
  BY <1>1, <1>2, <1>3 DEF Timely, SwapMoves

LEMMA StillRecorded ==
  ASSUME InTime, Grows, \A x \in Swaps : mem'.swaps[x].status = mem.swaps[x].status
  PROVE  /\ \A b \in Buys \ excused' : gbxLocks[b] # <<>> => mem'.swaps[b].status \notin {"none", "rejected"}
         /\ \A s \in Sells \ excused' : usdcLocks[s] # <<>> => mem'.swaps[s].status \notin {"none", "rejected"}
BY OfOneBuy, OfOneSell DEF BuyKnown, SellKnown, Status, Grows, Swaps

(* The looks that stay behind when one swap is visited, or none.           *)
Onto(s) ==
  \/ UNCHANGED <<pc, todo, probe>> \/ Visited(s)
  \/ pc = "claim_usdc" /\ pc' = "in_mempool" /\ probe' = {s} /\ todo' = todo
  \/ pc = "in_mempool" /\ pc' = "via_refund" /\ UNCHANGED <<todo, probe>>
  \/ /\ pc \in {"in_mempool", "via_refund"} /\ probe = {s}
     /\ pc' = "claim_usdc" /\ todo' = todo \ {s} /\ probe' = {}

LEMMA PassingOne == ASSUME NEW s, Onto(s) PROVE Going(s)
<1>1. ASSUME NEW b \in Buys \ {s} PROVE BuyPasses(b)
  BY DEF BuyPasses, PastClaim, PastRefund, Visited, Onto
<1>2. ASSUME NEW x \in Sells \ {s} PROVE SellPasses(x)
  BY DEF SellPasses, PastLook, PastSnapshot, Visited, Onto
<1> QED
  BY <1>1, <1>2 DEF Going

(* An exception passes the looks at the swaps it excuses.                  *)
LEMMA PassingMany ==
  ASSUME InTime, NEW s, Raise(s) \/ RaiseUnrecorded(s),
         pc \in {"lock_gbx", "claim_usdc", "lock_usdc", "claim_gbx", "refund_gbx"}
  PROVE  Going(s) /\ Grows
<1>1. excused \subseteq excused' /\ Unlooked \ {s} \subseteq excused'
  BY DEF Raise, RaiseUnrecorded, Excuse
<1>2. pc' = "refund_gbx" /\ probe' = {}
  BY DEF Raise, RaiseUnrecorded, Enter
<1>3. ASSUME NEW b \in Buys \ {s}, b \notin excused' PROVE BuyPasses(b) \/ BuyIdle(b)
  <2>1. CASE Status(b) # "gbx_locked"
    BY <1>1, <1>3, <2>1, BuyAlone
  <2>2. CASE Status(b) = "gbx_locked"
    <3>1. ~(pc \in {"idle", "lock_gbx"} \/ b \in todo)
      BY <1>1, <1>3, <2>2 DEF Unlooked
    <3>2. PastClaim(b)
      BY <3>1 DEF PastClaim
    <3>3. b \in todo' \/ pc = "refund_gbx"
      BY <1>3, <2>2 DEF Raise, RaiseUnrecorded, Enter, WithStatus, Status, Swaps
    <3>4. PastRefund(b)' => PastRefund(b)
      BY <3>1, <3>3 DEF PastRefund
    <3> QED
      BY <3>2, <3>4 DEF BuyPasses
  <2> QED
    BY <2>1, <2>2
<1>4. ASSUME NEW x \in Sells \ {s}, x \notin excused' PROVE SellPasses(x) \/ SellIdle(x)
  <2>1. CASE Status(x) # "usdc_locked"
    BY <1>1, <1>4, <2>1, SellAlone
  <2>2. CASE Status(x) = "usdc_locked"
    <3>1. ~(pc \in {"idle", "lock_gbx", "claim_usdc", "lock_usdc"} \/ x \in todo)
      BY <1>1, <1>4, <2>2 DEF Unlooked
    <3>2. PastLook(x) /\ PastSnapshot(x)
      BY <3>1 DEF PastLook, PastSnapshot
    <3> QED
      BY <3>2 DEF SellPasses
  <2> QED
    BY <2>1, <2>2
<1> QED
  BY <1>1, <1>3, <1>4 DEF Going, Grows

(* A swap is passed over with nothing to do for it.                        *)
LEMMA PassedOver ==
  ASSUME InTime, Grows, NEW x, UNCHANGED <<world, chains>>,
         \A y \in Swaps : mem'.swaps[y].status = mem.swaps[y].status,
         Onto(x),
         x \in Buys \ excused' => BuyPasses(x), x \in Sells \ excused' => SellPasses(x)
  PROVE  Timely' /\ SwapMoves
<1>1. \A b \in Buys \ excused' : BuySteady(b)
  BY PassingOne DEF Going, BuySteady, world
<1>2. \A s \in Sells \ excused' : SellSteady(s)
  BY PassingOne DEF Going, SellSteady, world
<1> QED
  BY <1>1, <1>2, StillRecorded, NoneMoves DEF world
-----------------------------------------------------------------------------
(* The one output of a buy, or lock of a sell, changes its state.          *)
LEMMA TheOneMoved ==
  ASSUME NEW V, NEW q \in Seq([state : V, t2 : Nat]), q # <<>>, NEW v \in V
  PROVE  LET r == [q EXCEPT ![1].state = v] IN r # <<>> /\ Len(r) = Len(q) /\ r[1].state = v /\ r[1].t2 = q[1].t2
<1> DEFINE L == [state : V, t2 : Nat]
           r == [q EXCEPT ![1].state = v]
<1>1. Len(q) \in Nat /\ q \in [1 .. Len(q) -> L] /\ 1 \in 1 .. Len(q)
  <2>1. q \in Seq(L)
    OBVIOUS
  <2> HIDE DEF L
  <2>2. Len(q) \in Nat /\ q \in [1 .. Len(q) -> L] /\ (Len(q) = 0 => q = <<>>)
    BY <2>1
  <2> QED
    BY <2>2
<1>2. r[1] = [q[1] EXCEPT !.state = v] /\ DOMAIN r = 1 .. Len(q)
  BY <1>1
<1>3. r # <<>>
  <2>1. 1 \in DOMAIN r
    BY <1>1, <1>2
  <2> HIDE DEF r
  <2> QED
    BY <2>1
<1>5. Len(r) = Len(q)
  <2>1. r \in Seq(L)
    BY <1>1
  <2> HIDE DEF r, L
  <2> QED
    BY <1>1, <1>2, <2>1
<1>4. r[1].state = v /\ r[1].t2 = q[1].t2
  <2>1. q[1] \in L
    BY <1>1
  <2> QED
    BY <1>2, <2>1
<1> QED
  BY <1>3, <1>4, <1>5

LEMMA OutputMoved ==
  ASSUME InTime, NEW b \in Buys, gbxLocks[b] # <<>>, NEW v \in OutputStates,
         gbxLocks' = [gbxLocks EXCEPT ![b][1].state = v]
  PROVE  /\ gbxLocks'[b] # <<>> /\ Len(gbxLocks'[b]) = Len(gbxLocks[b])
         /\ gbxLocks'[b][1].state = v /\ gbxLocks'[b][1].t2 = gbxLocks[b][1].t2
         /\ \A x \in Buys \ {b} : gbxLocks'[x] = gbxLocks[x]
<1>1. gbxLocks \in [Buys -> Seq(Outputs)]
  BY DEF InTime, Inv, Typed
<1>2. gbxLocks'[b] = [gbxLocks[b] EXCEPT ![1].state = v] /\ \A x \in Buys \ {b} : gbxLocks'[x] = gbxLocks[x]
  BY <1>1
<1> QED
  BY <1>1, <1>2, TheOneMoved DEF Outputs

LEMMA LockMoved ==
  ASSUME InTime, NEW s \in Sells, usdcLocks[s] # <<>>, NEW v \in LockStates,
         usdcLocks' = [usdcLocks EXCEPT ![s][1].state = v]
  PROVE  /\ usdcLocks'[s] # <<>> /\ Len(usdcLocks'[s]) = Len(usdcLocks[s])
         /\ usdcLocks'[s][1].state = v /\ usdcLocks'[s][1].t2 = usdcLocks[s][1].t2
         /\ \A x \in Sells \ {s} : usdcLocks'[x] = usdcLocks[x]
<1>1. usdcLocks \in [Sells -> Seq(EvmLocks)]
  BY DEF InTime, Sure, StateTyped, EvmLocks
<1>2. usdcLocks'[s] = [usdcLocks[s] EXCEPT ![1].state = v] /\ \A x \in Sells \ {s} : usdcLocks'[x] = usdcLocks[x]
  BY <1>1
<1> QED
  BY <1>1, <1>2, TheOneMoved DEF EvmLocks
-----------------------------------------------------------------------------
(* The users.                                                              *)
LEMMA UserOfBuy ==
  ASSUME InTime, Grows, NEW b \in Buys, UserLocksUsdc(b) \/ UserRefundsUsdc(b)
  PROVE  Timely' /\ SwapMoves
<1>1. UNCHANGED <<world, gbxLocks, gbx, usdcLocks, daemon, faults, crashes>>
  BY DEF UserLocksUsdc, UserRefundsUsdc
<1>2. usdc \in [Buys -> [state : LockStates \cup {"none"}, t1 : Nat]]
  BY DEF InTime, Inv, Typed
<1>3. \A x \in Buys \ {b} : usdc'[x] = usdc[x]
  BY <1>2 DEF UserLocksUsdc, UserRefundsUsdc
<1>4. Apart(b)
  BY <1>1, <1>3, PassingOne DEF Apart, daemon, world, Onto
<1> SUFFICES ASSUME b \notin excused'
             PROVE  /\ BuyOk(b)'
                    /\ OneMove(Leg(usdc[b].state), SecondOf(gbxLocks[b]), Leg(usdc'[b].state), SecondOf(gbxLocks'[b]))
  BY <1>4, OneBuy
<1>5. b \in Buys \ excused
  BY DEF Grows
<1>6. CASE UserLocksUsdc(b)
  <2>1. usdc[b].state = "none" /\ usdc'[b].state = "locked"
    BY <1>2, <1>6 DEF UserLocksUsdc
  <2>2. gbxLocks[b] = <<>>
    BY <2>1, BuyLocks
  <2>3. BuyOk(b)'
    BY <1>1, <2>1, <2>2 DEF BuyOk, BuyKnown
  <2>4. OneMove(Leg(usdc[b].state), SecondOf(gbxLocks[b]), Leg(usdc'[b].state), SecondOf(gbxLocks'[b]))
    BY <1>1, <2>1, Legs2 DEF OneMove
  <2> QED
    BY <2>3, <2>4
<1>7. CASE UserRefundsUsdc(b)
  <2>1. /\ usdc[b].state = "locked" /\ now >= usdc[b].t1
        /\ usdc'[b].state = "refunded" /\ usdc'[b].t1 = usdc[b].t1
    BY <1>2, <1>7 DEF UserRefundsUsdc
  <2>2. ASSUME gbxLocks[b] # <<>>
        PROVE  gbxLocks[b][1].state \in {"refunding", "refunded"}
    <3> DEFINE o == gbxLocks[b][1]
    <3>1. o.state \in OutputStates /\ o.t2 \in Nat /\ usdc[b].t1 \in Nat
      BY <2>2, BuyLocks
    <3>2. BuyTimely(b, o)
      BY <1>5, <2>2, OfOneBuy
    <3>3. o.t2 + MaxSlow + 4 * MaxLag <= usdc[b].t1
      BY <3>2 DEF BuyTimely
    <3>4. o.state \in {"unspent", "claiming", "claimed"} => height - lag <= o.t2 - 1 + 3 * MaxLag
      <4>1. o.state \in {"unspent", "claiming", "claimed"} => height - lag <= o.t2 - 1 + 2 * MaxLag + MaxLag
        BY <2>1, <3>2 DEF BuyTimely, Clock
      <4> QED
        BY <3>1, <4>1, Numbers
    <3>5. o.state \notin {"unspent", "claiming", "claimed"}
      <4> HIDE DEF o
      <4> QED
        BY <2>1, <3>1, <3>3, <3>4, Numbers
    <3> QED
      BY <3>1, <3>5 DEF OutputStates
  <2>3. BuyOk(b)'
    <3>1. BuyKnown(b)'
      BY <1>1, <1>5, <2>1, OfOneBuy DEF BuyKnown, Status, daemon, world
    <3>2. gbxLocks[b] # <<>> => BuyTimely(b, gbxLocks[b][1])'
      BY <1>1, <1>5, <2>1, <2>2, OfOneBuy DEF BuyTimely
    <3> QED
      BY <1>1, <3>1, <3>2 DEF BuyOk
  <2>4. OneMove(Leg(usdc[b].state), SecondOf(gbxLocks[b]), Leg(usdc'[b].state), SecondOf(gbxLocks'[b]))
    <3>1. SecondOf(gbxLocks[b]) # "claimed"
      BY <2>2, Legs2
    <3> QED
      BY <1>1, <2>1, <3>1, Legs2 DEF OneMove
  <2> QED
    BY <2>3, <2>4
<1> QED
  BY <1>6, <1>7

LEMMA UserTakesGbx ==
  ASSUME InTime, Grows, NEW b \in Buys, NEW k \in DOMAIN gbxLocks[b], UserClaimsGbx(b, k)
  PROVE  Timely' /\ SwapMoves
<1>1. UNCHANGED <<world, usdc, gbx, usdcLocks, daemon, faults, crashes>>
  BY DEF UserClaimsGbx
<1>2. \A x \in Buys \ {b} : gbxLocks'[x] = gbxLocks[x]
  <2>1. gbxLocks \in [Buys -> Seq(Outputs)]
    BY DEF InTime, Inv, Typed
  <2> QED
    BY <2>1 DEF UserClaimsGbx
<1>3. Apart(b)
  BY <1>1, <1>2, PassingOne DEF Apart, daemon, world, Onto
<1> SUFFICES ASSUME b \notin excused'
             PROVE  /\ BuyOk(b)'
                    /\ OneMove(Leg(usdc[b].state), SecondOf(gbxLocks[b]), Leg(usdc'[b].state), SecondOf(gbxLocks'[b]))
  BY <1>3, OneBuy
<1>4. b \in Buys \ excused
  BY DEF Grows
<1>5. gbxLocks[b] # <<>> /\ k = 1
  <2>1. gbxLocks[b] # <<>>
    BY BuyLocks
  <2> QED
    BY <1>4, <2>1, BuyAlone
<1>6. gbxLocks[b][1].state = "unspent"
  BY <1>5 DEF UserClaimsGbx
<1>7. /\ gbxLocks'[b] # <<>> /\ Len(gbxLocks'[b]) = Len(gbxLocks[b])
      /\ gbxLocks'[b][1].state = "claiming" /\ gbxLocks'[b][1].t2 = gbxLocks[b][1].t2
  BY <1>5, OutputMoved DEF UserClaimsGbx, OutputStates
<1>8. BuyKnown(b) /\ BuyTimely(b, gbxLocks[b][1])
  BY <1>4, <1>5, OfOneBuy
<1>9. BuyOk(b)'
  <2>1. BuyKnown(b)'
    BY <1>1, <1>5, <1>7, <1>8 DEF BuyKnown, Status, daemon, world
  <2>2. PastClaim(b)' = PastClaim(b)
    BY <1>1 DEF PastClaim, daemon
  <2>3. BuyTimely(b, gbxLocks[b][1])'
    BY <1>1, <1>6, <1>7, <1>8, <2>2 DEF BuyTimely, world
  <2> QED
    BY <2>1, <2>3 DEF BuyOk
<1>10. OneMove(Leg(usdc[b].state), SecondOf(gbxLocks[b]), Leg(usdc'[b].state), SecondOf(gbxLocks'[b]))
  <2>1. usdc[b].state # "refunded" /\ usdc[b].state \in LockStates \cup {"none"}
    BY <1>6, <1>8, BuyLocks DEF BuyTimely
  <2>2. SecondOf(gbxLocks[b]) = "locked" /\ SecondOf(gbxLocks'[b]) = "claimed" /\ Leg(usdc[b].state) # "refunded"
    BY <1>5, <1>6, <1>7, <2>1, Legs2 DEF LockStates
  <2> QED
    BY <1>1, <2>2 DEF OneMove
<1> QED
  BY <1>9, <1>10

LEMMA UserLocks ==
  ASSUME InTime, Grows, NEW s \in Sells, UserLocksGbx(s)
  PROVE  Timely' /\ SwapMoves
<1>1. UNCHANGED <<world, usdc, gbxLocks, usdcLocks, daemon, faults, crashes>>
  BY DEF UserLocksGbx
<1>2. /\ gbx[s].state = "none" /\ gbx'[s].state = "unspent"
      /\ \A x \in Sells \ {s} : gbx'[x] = gbx[x]
  <2>1. gbx \in [Sells -> [state : OutputStates \cup {"none"}, t1 : Nat]]
    BY DEF InTime, Sure, StateTyped
  <2> QED
    BY <2>1 DEF UserLocksGbx
<1>3. Apart(s)
  BY <1>1, <1>2, PassingOne DEF Apart, daemon, world, Onto
<1> SUFFICES ASSUME s \notin excused'
             PROVE  /\ SellOk(s)'
                    /\ OneMove(Leg(gbx[s].state), SecondOf(usdcLocks[s]), Leg(gbx'[s].state), SecondOf(usdcLocks'[s]))
  BY <1>3, OneSell
<1>4. usdcLocks[s] = <<>>
  BY <1>2, OfOneSell DEF SellKnown, Grows
<1>5. SellOk(s)'
  BY <1>1, <1>4 DEF SellOk, SellKnown
<1>6. OneMove(Leg(gbx[s].state), SecondOf(usdcLocks[s]), Leg(gbx'[s].state), SecondOf(usdcLocks'[s]))
  BY <1>1, <1>2, Legs2 DEF OneMove
<1> QED
  BY <1>5, <1>6

LEMMA UserTakesBack ==
  ASSUME InTime, Grows, NEW s \in Sells, UserRefundsGbx(s)
  PROVE  Timely' /\ SwapMoves
<1>1. UNCHANGED <<world, usdc, gbxLocks, usdcLocks, daemon, faults, crashes>>
  BY DEF UserRefundsGbx
<1>2. /\ gbx[s].state = "unspent" /\ gbx'[s].state = "refunding" /\ gbx'[s].t1 = gbx[s].t1
      /\ height >= gbx[s].t1
      /\ \A x \in Sells \ {s} : gbx'[x] = gbx[x]
  <2>1. gbx \in [Sells -> [state : OutputStates \cup {"none"}, t1 : Nat]]
    BY DEF InTime, Sure, StateTyped
  <2> QED
    BY <2>1 DEF UserRefundsGbx
<1>3. Apart(s)
  BY <1>1, <1>2, PassingOne DEF Apart, daemon, world, Onto
<1> SUFFICES ASSUME s \notin excused'
             PROVE  /\ SellOk(s)'
                    /\ OneMove(Leg(gbx[s].state), SecondOf(usdcLocks[s]), Leg(gbx'[s].state), SecondOf(usdcLocks'[s]))
  BY <1>3, OneSell
<1>4. s \in Sells \ excused
  BY DEF Grows
<1>5. ASSUME usdcLocks[s] # <<>>
      PROVE  usdcLocks[s][1].state = "refunded"
  <2> DEFINE o == usdcLocks[s][1]
  <2>1. o.state \in LockStates /\ o.t2 \in Nat /\ gbx[s].t1 \in Nat
    BY <1>5, SellLocks
  <2>2. SellTimely(s, o)
    BY <1>4, <1>5, OfOneSell
  <2>3. gbx[s].t1 - height > RefundGrace + 3 * MaxLag + (o.t2 - now)
    BY <2>2 DEF SellTimely
  <2>4. o.state \in {"locked", "claimed"} => now - lag <= o.t2 + RefundGrace + 2 * MaxLag
    <3>1. o.state = "locked" => now - lag <= o.t2 + RefundGrace + MaxLag
      BY <2>2 DEF SellTimely, Clock
    <3>2. o.state = "claimed" => now - lag <= o.t2 + RefundGrace + MaxLag + MaxLag
      BY <1>2, <2>2 DEF SellTimely, Clock
    <3> HIDE DEF o
    <3> QED
      BY <2>1, <3>1, <3>2, Numbers
  <2>5. o.state \notin {"locked", "claimed"}
    <3> HIDE DEF o
    <3> QED
      BY <1>2, <2>1, <2>3, <2>4, Numbers
  <2> QED
    BY <2>1, <2>5 DEF LockStates
<1>6. SellOk(s)'
  <2>1. SellKnown(s)'
    BY <1>1, <1>2, <1>4, OfOneSell DEF SellKnown, Status, daemon, world
  <2>2. usdcLocks[s] # <<>> => SellTimely(s, usdcLocks[s][1])'
    BY <1>1, <1>2, <1>4, <1>5, OfOneSell DEF SellTimely, world
  <2> QED
    BY <1>1, <2>1, <2>2 DEF SellOk
<1>7. OneMove(Leg(gbx[s].state), SecondOf(usdcLocks[s]), Leg(gbx'[s].state), SecondOf(usdcLocks'[s]))
  <2>1. SecondOf(usdcLocks[s]) # "claimed"
    BY <1>5, Legs2
  <2> QED
    BY <1>1, <1>2, <2>1, Legs2 DEF OneMove
<1> QED
  BY <1>6, <1>7

LEMMA UserTakesUsdc ==
  ASSUME InTime, Grows, NEW s \in Sells, NEW k \in DOMAIN usdcLocks[s], UserClaimsUsdc(s, k)
  PROVE  Timely' /\ SwapMoves
<1>1. UNCHANGED <<world, usdc, gbxLocks, gbx, daemon, faults, crashes>>
  BY DEF UserClaimsUsdc
<1>2. \A x \in Sells \ {s} : usdcLocks'[x] = usdcLocks[x]
  <2>1. usdcLocks \in [Sells -> Seq(EvmLocks)]
    BY DEF InTime, Sure, StateTyped, EvmLocks
  <2> QED
    BY <2>1 DEF UserClaimsUsdc
<1>3. Apart(s)
  BY <1>1, <1>2, PassingOne DEF Apart, daemon, world, Onto
<1> SUFFICES ASSUME s \notin excused'
             PROVE  /\ SellOk(s)'
                    /\ OneMove(Leg(gbx[s].state), SecondOf(usdcLocks[s]), Leg(gbx'[s].state), SecondOf(usdcLocks'[s]))
  BY <1>3, OneSell
<1>4. s \in Sells \ excused
  BY DEF Grows
<1>5. usdcLocks[s] # <<>> /\ k = 1
  <2>1. usdcLocks[s] # <<>>
    BY SellLocks
  <2> QED
    BY <1>4, <2>1, SellAlone
<1>6. usdcLocks[s][1].state = "locked"
  BY <1>5 DEF UserClaimsUsdc
<1>7. /\ usdcLocks'[s] # <<>> /\ Len(usdcLocks'[s]) = Len(usdcLocks[s])
      /\ usdcLocks'[s][1].state = "claimed" /\ usdcLocks'[s][1].t2 = usdcLocks[s][1].t2
  BY <1>5, LockMoved DEF UserClaimsUsdc, LockStates
<1>8. SellKnown(s) /\ SellTimely(s, usdcLocks[s][1])
  BY <1>4, <1>5, OfOneSell
<1>9. SellOk(s)'
  <2>1. SellKnown(s)'
    BY <1>1, <1>5, <1>7, <1>8 DEF SellKnown, Status, daemon, world
  <2>2. Clock(now, lag, PastSnapshot(s)', usdcLocks[s][1].t2 + RefundGrace + MaxLag)
    <3>1. PICK t \in Nat : t = usdcLocks[s][1].t2
      BY <1>5, SellLocks
    <3>2. now - lag <= t + RefundGrace + MaxLag
      BY <1>6, <1>8, <3>1 DEF SellTimely, Clock
    <3>3. now - lag <= t + RefundGrace + MaxLag + MaxLag
      BY <3>2, Numbers
    <3> QED
      BY <3>1, <3>2, <3>3 DEF Clock
  <2>3. gbx[s].state \notin {"refunding", "refunded"}
    BY <1>6, <1>8 DEF SellTimely
  <2>4. SellTimely(s, usdcLocks[s][1])'
    BY <1>1, <1>7, <1>8, <2>2, <2>3 DEF SellTimely, world
  <2> QED
    BY <2>1, <2>4 DEF SellOk
<1>10. OneMove(Leg(gbx[s].state), SecondOf(usdcLocks[s]), Leg(gbx'[s].state), SecondOf(usdcLocks'[s]))
  <2>1. gbx[s].state \notin {"refunding", "refunded"} /\ gbx[s].state \in OutputStates \cup {"none"}
    BY <1>6, <1>8, SellLocks DEF SellTimely
  <2>2. SecondOf(usdcLocks[s]) = "locked" /\ SecondOf(usdcLocks'[s]) = "claimed" /\ Leg(gbx[s].state) # "refunded"
    BY <1>5, <1>6, <1>7, <2>1, Legs2 DEF OutputStates
  <2> QED
    BY <1>1, <2>2 DEF OneMove
<1> QED
  BY <1>9, <1>10
-----------------------------------------------------------------------------
(* A block, or a tick without one.                                         *)
LEMMA TickInTime ==
  ASSUME InTime, Grows, Tick
  PROVE  Timely' /\ SwapMoves
<1>1. UNCHANGED <<daemon, faults, crashes, usdc, usdcLocks, excused>> /\ now' = now + 1 /\ lag' = lag + 1 /\ lag < MaxLag
  BY DEF Tick, Block, chains
<1>2. height' = height \/ height' = height + 1
  BY DEF Tick, Block
<1>3. ASSUME NEW b \in Buys
      PROVE  /\ gbxLocks'[b] = <<>> <=> gbxLocks[b] = <<>>
             /\ Len(gbxLocks'[b]) = Len(gbxLocks[b])
             /\ gbxLocks[b] # <<>> =>
                  /\ gbxLocks'[b][1].t2 = gbxLocks[b][1].t2
                  /\ \/ height' = height /\ gbxLocks'[b][1].state = gbxLocks[b][1].state
                     \/ gbxLocks'[b][1].state = Confirmed(gbxLocks[b][1].state)
  <2>1. CASE Block
    <3>1. gbxLocks'[b] = [k \in DOMAIN gbxLocks[b] |-> [gbxLocks[b][k] EXCEPT !.state = Confirmed(@)]]
      BY <2>1 DEF Block
    <3>2. gbxLocks[b] \in Seq(Outputs) /\ (gbxLocks[b] # <<>> => 1 \in DOMAIN gbxLocks[b])
      BY BuyLocks
    <3>3. ASSUME gbxLocks[b] # <<>>
          PROVE  gbxLocks'[b][1] = [gbxLocks[b][1] EXCEPT !.state = Confirmed(@)] /\ gbxLocks'[b] # <<>>
      BY <3>1, <3>2, <3>3
    <3>4. gbxLocks[b] = <<>> => gbxLocks'[b] = <<>>
      BY <3>1
    <3>5. gbxLocks[b] # <<>> => gbxLocks[b][1] \in Outputs
      BY <3>2
    <3>6. Len(gbxLocks'[b]) = Len(gbxLocks[b])
      BY <1>3, <2>1, BlockMoves DEF InTime
    <3> QED
      BY <3>3, <3>4, <3>5, <3>6 DEF Outputs
  <2>2. CASE UNCHANGED <<height, chains>>
    BY <2>2 DEF chains
  <2> QED
    BY <2>1, <2>2 DEF Tick
<1>4. ASSUME NEW s \in Sells
      PROVE  /\ gbx'[s].t1 = gbx[s].t1
             /\ gbx'[s].state = gbx[s].state \/ gbx'[s].state = Confirmed(gbx[s].state)
  <2>1. CASE Block
    <3>1. gbx'[s] = [gbx[s] EXCEPT !.state = Confirmed(@)]
      BY <2>1 DEF Block
    <3>2. gbx \in [Sells -> [state : OutputStates \cup {"none"}, t1 : Nat]]
      BY DEF InTime, Sure, StateTyped
    <3> QED
      BY <3>1, <3>2
  <2>2. CASE UNCHANGED <<height, chains>>
    BY <2>2 DEF chains
  <2> QED
    BY <2>1, <2>2 DEF Tick
<1>5. /\ now \in Nat /\ height \in Nat /\ lag \in Nat /\ height' \in Nat /\ lag' \in Nat /\ now' \in Nat
      /\ height' - lag' <= height - lag /\ now' - lag' = now - lag /\ height' <= height + 1
      /\ lag' <= MaxLag /\ MaxLag \in Nat
  <2>1. height \in Nat /\ lag \in Nat /\ MaxLag \in Nat /\ now \in Nat
    BY Numbers
  <2> QED
    BY <1>1, <1>2, <2>1
<1>6. \A c \in Int : \A past : /\ Clock(height, lag, past, c) => Clock(height', lag', past, c)
                               /\ Clock(now, lag, past, c) => Clock(now', lag', past, c)
  <2> SUFFICES ASSUME NEW c \in Int, NEW past
               PROVE  /\ Clock(height, lag, past, c) => Clock(height', lag', past, c)
                      /\ Clock(now, lag, past, c) => Clock(now', lag', past, c)
    OBVIOUS
  <2>1. PICK h \in Nat : h = height'
    BY <1>5
  <2>2. PICK l \in Nat : l = lag'
    BY <1>5
  <2>3. (h = height \/ h = height + 1) /\ l = lag + 1 /\ now' = now + 1
    BY <1>1, <1>2, <2>1, <2>2
  <2>4. height \in Nat /\ lag \in Nat /\ now \in Nat /\ MaxLag \in Nat
    BY <1>5
  <2>5. /\ Clock(height, lag, past, c) => Clock(h, l, past, c)
        /\ Clock(now, lag, past, c) => Clock(now + 1, l, past, c)
    BY <2>3, <2>4 DEF Clock
  <2> QED
    BY <2>1, <2>2, <2>3, <2>5
<1>7. /\ \A b \in Buys : PastClaim(b)' = PastClaim(b) /\ PastRefund(b)' = PastRefund(b) /\ Status(b)' = Status(b)
      /\ \A s \in Sells : PastLook(s)' = PastLook(s) /\ PastSnapshot(s)' = PastSnapshot(s) /\ Status(s)' = Status(s)
  BY <1>1 DEF PastClaim, PastRefund, PastLook, PastSnapshot, Status, daemon
<1>8. ASSUME NEW b \in Buys \ excused PROVE BuyOk(b)'
  <2>1. BuyKnown(b)'
    <3>1. usdc[b].t1 \in Nat
      BY BuyLocks
    <3>2. usdc[b].state = "refunded" => now' >= usdc[b].t1
      BY <1>5, <1>1, <3>1, OfOneBuy DEF BuyKnown
    <3> QED
      BY <1>1, <1>3, <1>7, <1>8, <3>2, OfOneBuy DEF BuyKnown
  <2>2. ASSUME gbxLocks[b] # <<>>
        PROVE  BuyTimely(b, gbxLocks[b][1])'
    <3> DEFINE o == gbxLocks[b][1]
               p == gbxLocks'[b][1]
    <3>1. o.state \in OutputStates /\ o.t2 \in Nat /\ BuyTimely(b, o)
      BY <1>8, <2>2, BuyLocks, OfOneBuy
    <3>2. p.t2 = o.t2 /\ ((height' = height /\ p.state = o.state) \/ p.state = Confirmed(o.state))
      BY <1>3, <1>8, <2>2
    <3> HIDE DEF o, p
    <3>3. /\ p.state \in {"unspent", "claiming", "claimed"} => o.state \in {"unspent", "claiming", "claimed"}
          /\ p.state = "unspent" => o.state = "unspent"
          /\ p.state = "claiming" => o.state = "claiming" /\ height' = height
          /\ o.state \in {"refunding", "refunded"} => p.state \in {"refunding", "refunded"}
      BY <3>1, <3>2, ConfirmedStates DEF OutputStates
    <3>4. o.t2 - 1 \in Int /\ o.t2 - 1 + 2 * MaxLag \in Int
      BY <1>5, <3>1
    <3>5. ASSUME p.state = "unspent" PROVE Clock(height', lag', PastRefund(b)', p.t2 - 1)
      <4>1. Clock(height, lag, PastRefund(b)', o.t2 - 1)
        BY <1>7, <1>8, <3>1, <3>3, <3>5 DEF BuyTimely
      <4> QED
        BY <1>5, <3>2, <3>4, <4>1, <1>6
    <3>6. ASSUME p.state \in {"unspent", "claiming", "claimed"}, usdc'[b].state = "locked"
          PROVE  Clock(height', lag', PastClaim(b)', p.t2 - 1 + 2 * MaxLag)
      <4>1. Clock(height, lag, PastClaim(b)', o.t2 - 1 + 2 * MaxLag)
        BY <1>1, <1>7, <1>8, <3>1, <3>3, <3>6 DEF BuyTimely
      <4>2. PICK c \in Int : c = o.t2 - 1 + 2 * MaxLag
        BY <3>4
      <4>3. Clock(height', lag', PastClaim(b)', c)
        BY <1>5, <4>1, <4>2, <1>6
      <4> QED
        BY <3>2, <4>2, <4>3
    <3>7. p.state \in {"unspent", "claiming"} => height' <= p.t2 - 1 + 2 * MaxLag
      <4>1. p.state = "unspent" => height' - lag' <= p.t2 - 1 + MaxLag
        BY <3>5 DEF Clock
      <4>2. p.state = "claiming" => height' <= o.t2 - 1 + 2 * MaxLag
        BY <3>1, <3>3 DEF BuyTimely
      <4> QED
        BY <1>5, <3>1, <3>2, <4>1, <4>2
    <3>8. BuyTimely(b, o)
      BY <3>1
    <3> QED
      BY <1>1, <3>2, <3>3, <3>5, <3>6, <3>7, <3>8 DEF BuyTimely, p
  <2> QED
    BY <1>3, <1>8, <2>1, <2>2 DEF BuyOk
<1>9. ASSUME NEW s \in Sells \ excused PROVE SellOk(s)'
  <2>1. gbx[s].t1 \in Nat /\ gbx[s].state \in OutputStates \cup {"none"} /\ RefundGrace \in Nat
    BY <1>9, SellLocks, Numbers
  <2>2. /\ gbx'[s].t1 = gbx[s].t1
        /\ gbx[s].state # "none" => gbx'[s].state # "none"
        /\ gbx'[s].state = "unspent" => gbx[s].state = "unspent"
        /\ gbx'[s].state \in {"claiming", "claimed"} => gbx[s].state \in {"claiming", "claimed"}
        /\ gbx'[s].state \in {"refunding", "refunded"} => gbx[s].state \in {"refunding", "refunded"}
    BY <1>4, <1>9, <2>1, ConfirmedStates DEF OutputStates
  <2>3. SellKnown(s)'
    BY <1>1, <1>7, <1>9, <2>2, OfOneSell DEF SellKnown
  <2>4. ASSUME usdcLocks[s] # <<>>
        PROVE  SellTimely(s, usdcLocks[s][1])'
    <3> DEFINE o == usdcLocks[s][1]
    <3>1. o.t2 \in Nat /\ SellTimely(s, o)
      BY <1>9, <2>4, SellLocks, OfOneSell
    <3>2. o.t2 + RefundGrace \in Int /\ o.t2 + RefundGrace + MaxLag \in Int
      BY <1>5, <2>1, <3>1
    <3>3. gbx'[s].t1 - height' > RefundGrace + 3 * MaxLag + (o.t2 - now')
      <4>1. gbx[s].t1 - height > RefundGrace + 3 * MaxLag + (o.t2 - now)
        BY <3>1 DEF SellTimely
      <4> HIDE DEF o
      <4> QED
        BY <1>1, <1>5, <2>1, <2>2, <3>1, <4>1
    <3>4. ASSUME o.state = "locked" PROVE Clock(now', lag', PastLook(s)', o.t2 + RefundGrace)
      <4>1. Clock(now, lag, PastLook(s)', o.t2 + RefundGrace)
        BY <1>7, <1>9, <3>1, <3>4 DEF SellTimely
      <4>2. PICK c \in Int : c = o.t2 + RefundGrace
        BY <3>2
      <4>3. Clock(now', lag', PastLook(s)', c)
        BY <1>5, <4>1, <4>2, <1>6
      <4> QED
        BY <4>2, <4>3
    <3>5. ASSUME o.state = "claimed", gbx'[s].state = "unspent"
          PROVE  Clock(now', lag', PastSnapshot(s)', o.t2 + RefundGrace + MaxLag)
      <4>1. Clock(now, lag, PastSnapshot(s)', o.t2 + RefundGrace + MaxLag)
        BY <1>7, <1>9, <2>2, <3>1, <3>5 DEF SellTimely
      <4>2. PICK c \in Int : c = o.t2 + RefundGrace + MaxLag
        BY <3>2
      <4>3. Clock(now', lag', PastSnapshot(s)', c)
        BY <1>5, <4>1, <4>2, <1>6
      <4> QED
        BY <4>2, <4>3
    <3> QED
      BY <1>1, <2>2, <3>1, <3>3, <3>4, <3>5 DEF SellTimely
  <2> QED
    BY <1>1, <2>3, <2>4 DEF SellOk
<1>10. \A v \in OutputStates \cup {"none"} : Leg(Confirmed(v)) = Leg(v)
  BY ConfirmedStates, Legs2 DEF OutputStates
<1>11. \A x \in Swaps : FirstLeg(x)' = FirstLeg(x)
  <2>1. ASSUME NEW x \in Sells PROVE Leg(gbx'[x].state) = Leg(gbx[x].state)
    BY <1>4, <1>10, <2>1, SellLocks
  <2> QED
    BY <1>1, <2>1 DEF FirstLeg, Swaps
<1>12. \A x \in Swaps : SecondLeg(x)' = SecondLeg(x)
  <2>1. ASSUME NEW x \in Buys PROVE SecondOf(gbxLocks'[x]) = SecondOf(gbxLocks[x])
    <3>1. CASE gbxLocks[x] = <<>>
      BY <1>3, <2>1, <3>1
    <3>2. CASE gbxLocks[x] # <<>>
      <4>1. Leg(gbxLocks'[x][1].state) = Leg(gbxLocks[x][1].state)
        BY <1>3, <1>10, <2>1, <3>2, BuyLocks
      <4> QED
        BY <1>3, <2>1, <3>2, <4>1, Legs2
    <3> QED
      BY <3>1, <3>2
  <2> QED
    BY <1>1, <2>1 DEF SecondLeg, Swaps
<1>13. UNCHANGED <<First, Second>>
  <2>1. /\ First = [x \in Swaps |-> FirstLeg(x)] /\ First' = [x \in Swaps |-> FirstLeg(x)']
        /\ Second = [x \in Swaps |-> SecondLeg(x)] /\ Second' = [x \in Swaps |-> SecondLeg(x)']
    BY DEF First, Second, FirstLeg, SecondLeg
  <2> QED
    BY <1>11, <1>12, <2>1
<1> QED
  BY <1>1, <1>8, <1>9, <1>13 DEF Timely, SwapMoves

(* An intent more, a step that stutters, a restart: no lock moves.         *)
LEMMA PostInTime ==
  ASSUME InTime, Grows, NEW s, PostIntent(s) \/ UNCHANGED vars
  PROVE  Timely' /\ SwapMoves
<1>1. UNCHANGED <<now, height, lag, chains, mem, pc, todo, probe>>
  BY DEF PostIntent, vars, world, daemon
<1>2. (\A b \in Buys : BuySteady(b)) /\ (\A x \in Sells : SellSteady(x))
  BY <1>1 DEF BuySteady, SellSteady, BuyPasses, SellPasses, PastClaim, PastRefund, PastLook, PastSnapshot
<1> QED
  BY <1>1, <1>2, StillRecorded, NoneMoves

LEMMA CrashInTime ==
  ASSUME InTime, Grows, Crash
  PROVE  Timely' /\ SwapMoves
<1>1. UNCHANGED <<now, height, lag, chains>> /\ mem' = disk /\ pc' = "idle" /\ Unsaved \subseteq excused'
  BY DEF Crash, Enter, Excuse, world
<1>2. ASSUME NEW b \in Buys \ excused'
      PROVE  (gbxLocks[b] # <<>> => mem'.swaps[b].status \notin {"none", "rejected"}) /\ BuySteady(b)
  <2>1. BuySteady(b)
    BY <1>1 DEF BuySteady, BuyPasses, PastClaim, PastRefund
  <2>2. gbxLocks[b] # <<>> => disk.swaps[b].status \notin {"none", "rejected"}
    BY <1>1, <1>2 DEF Unsaved, Made, Swaps
  <2> QED
    BY <1>1, <2>1, <2>2
<1>3. ASSUME NEW s \in Sells \ excused'
      PROVE  (usdcLocks[s] # <<>> => mem'.swaps[s].status \notin {"none", "rejected"}) /\ SellSteady(s)
  <2>1. SellSteady(s)
    BY <1>1 DEF SellSteady, SellPasses, PastLook, PastSnapshot
  <2>2. s \notin Buys /\ s \in Swaps
    BY <1>3, ConstantsAssumption DEF Swaps
  <2>3. usdcLocks[s] # <<>> => disk.swaps[s].status \notin {"none", "rejected"}
    BY <1>1, <1>3, <2>2 DEF Unsaved, Made
  <2> QED
    BY <1>1, <2>1, <2>3
<1> QED
  BY <1>1, <1>2, <1>3, NoneMoves
-----------------------------------------------------------------------------
(* The cycle.                                                              *)
LEMMA StartInTime ==
  ASSUME InTime, Grows, StartCycle
  PROVE  Timely' /\ SwapMoves
<1>1. UNCHANGED <<now, height, chains, intents, disk>> /\ mem' = mem /\ pc = "idle" /\ mem = disk
  BY DEF StartCycle, InTime, Sure, Agenda
<1>2. \A x \in Swaps : mem'.swaps[x].status = mem.swaps[x].status
  BY <1>1
<1>3. CASE lag' = lag /\ pc' = "lock_gbx"
  <2>1. (\A b \in Buys : BuySteady(b)) /\ (\A s \in Sells : SellSteady(s))
    BY <1>3 DEF BuySteady, SellSteady, BuyPasses, SellPasses, PastClaim, PastRefund, PastLook, PastSnapshot
  <2> QED
    BY <1>1, <1>2, <2>1, StillRecorded, NoneMoves
<1>4. CASE Excuse(Unlooked)
  <2>1. Unlooked \subseteq excused'
    BY <1>4 DEF Excuse
  <2>2. \A b \in Buys \ excused' : BuySteady(b)
    BY <1>1, <2>1, BuyAlone DEF Grows, Unlooked, BuySteady
  <2>3. \A s \in Sells \ excused' : SellSteady(s)
    BY <1>1, <2>1, SellAlone DEF Grows, Unlooked, SellSteady
  <2> QED
    BY <1>1, <1>2, <2>2, <2>3, StillRecorded, NoneMoves
<1> QED
  BY <1>3, <1>4 DEF StartCycle, Enter

LEMMA EndInTime ==
  ASSUME InTime, Grows, EndScan
  PROVE  Timely' /\ SwapMoves
<1>1. UNCHANGED <<now, height, chains, intents, mem, excused>> /\ todo = {}
  BY DEF EndScan
<1>2. \A x \in Swaps : mem'.swaps[x].status = mem.swaps[x].status
  BY <1>1
<1>3. \A b \in Buys \ excused : Status(b) = "gbx_locked" \/ BuyIdle(b)
  BY BuyAlone
<1>4. ASSUME NEW s \in Sells \ excused
      PROVE  (Status(s) = "usdc_locked" /\ Lock(s) = usdcLocks[s][1]) \/ SellIdle(s)
  BY SellAlone
<1>5. /\ \A b \in Buys : b \in Swaps
      /\ \A s \in Sells : s \in Swaps
  BY DEF Swaps
<1> SUFFICES (\A b \in Buys \ excused : BuySteady(b)) /\ (\A s \in Sells \ excused : SellSteady(s))
  BY <1>1, <1>2, StillRecorded, NoneMoves DEF chains
<1>6. CASE pc = "lock_gbx"
  <2>1. pc' = "claim_usdc" /\ todo' = Buys \cap WithStatus("gbx_locked") /\ probe' = {} /\ lag' = lag
    BY <1>6 DEF EndScan, Enter
  <2>2. ASSUME NEW b \in Buys \ excused PROVE BuySteady(b)
    <3>1. PastRefund(b)' = FALSE
      BY <2>1 DEF PastRefund
    <3>2. Status(b) = "gbx_locked" => ~PastClaim(b)'
      BY <1>5, <2>1, <2>2 DEF PastClaim, WithStatus, Status
    <3> QED
      BY <1>3, <2>1, <3>1, <3>2 DEF BuyPasses, BuySteady
  <2>3. \A s \in Sells : SellSteady(s)
    BY <2>1 DEF SellSteady, SellPasses, PastLook, PastSnapshot
  <2> QED
    BY <2>2, <2>3
<1>7. CASE pc = "claim_usdc"
  <2>1. pc' = "lock_usdc" /\ lag' = lag
    BY <1>7 DEF EndScan, Enter
  <2>2. \A b \in Buys : BuySteady(b)
    BY <1>1, <1>7, <2>1 DEF BuySteady, BuyPasses, PastClaim, PastRefund
  <2>3. \A s \in Sells : SellSteady(s)
    BY <2>1 DEF SellSteady, SellPasses, PastLook, PastSnapshot
  <2> QED
    BY <2>2, <2>3
<1>8. CASE pc = "lock_usdc"
  <2>1. /\ pc' = "claim_gbx" /\ todo' = WithStatus("usdc_locked") /\ probe' = ClaimedEvents(WithStatus("usdc_locked"))
        /\ lag' = lag
    BY <1>8 DEF EndScan
  <2>2. \A b \in Buys : BuySteady(b)
    BY <1>8, <2>1 DEF BuySteady, BuyPasses, PastClaim, PastRefund
  <2>3. ASSUME NEW s \in Sells \ excused PROVE SellSteady(s)
    <3>1. Status(s) = "usdc_locked" => ~PastLook(s)'
      BY <1>5, <2>1, <2>3 DEF PastLook, WithStatus, Status
    <3>2. Status(s) = "usdc_locked" /\ Lock(s) = usdcLocks[s][1] =>
            (PastSnapshot(s)' => usdcLocks[s][1].state # "claimed")
      BY <1>5, <2>1, <2>3 DEF PastSnapshot, WithStatus, ClaimedEvents, Status
    <3> QED
      BY <1>4, <2>1, <2>3, <3>1, <3>2 DEF SellPasses, SellSteady
  <2> QED
    BY <2>2, <2>3
<1>9. CASE pc = "claim_gbx"
  <2>1. pc' = "refund_gbx" /\ todo' = Buys \cap WithStatus("gbx_locked") /\ lag' = lag
    BY <1>9 DEF EndScan, Enter
  <2>2. ASSUME NEW b \in Buys \ excused PROVE BuySteady(b)
    <3>1. PastClaim(b)
      BY <1>9 DEF PastClaim
    <3>2. Status(b) = "gbx_locked" => ~PastRefund(b)'
      BY <1>5, <2>1, <2>2 DEF PastRefund, WithStatus, Status
    <3> QED
      BY <1>3, <2>1, <3>1, <3>2 DEF BuyPasses, BuySteady
  <2>3. \A s \in Sells : SellSteady(s)
    BY <1>1, <1>9, <2>1 DEF SellSteady, SellPasses, PastLook, PastSnapshot
  <2> QED
    BY <2>2, <2>3
<1>10. CASE pc = "refund_gbx"
  <2>1. pc' = "idle" /\ lag' = 0
    BY <1>10 DEF EndScan, Enter
  <2>2. \A b \in Buys : /\ PastClaim(b) /\ PastRefund(b) /\ ~PastClaim(b)' /\ ~PastRefund(b)'
                        /\ BuyPasses(b)
    BY <1>1, <1>10, <2>1 DEF PastClaim, PastRefund, BuyPasses
  <2>3. \A s \in Sells : /\ PastLook(s) /\ PastSnapshot(s) /\ ~PastLook(s)' /\ ~PastSnapshot(s)'
                         /\ SellPasses(s)
    BY <1>10, <2>1 DEF PastLook, PastSnapshot, SellPasses
  <2> QED
    BY <2>1, <2>2, <2>3 DEF BuySteady, SellSteady
<1> QED
  BY <1>6, <1>7, <1>8, <1>9, <1>10 DEF EndScan
-----------------------------------------------------------------------------
(* A buy is served.                                                        *)
LEMMA LockGbxInTime ==
  ASSUME InTime, Grows, NEW b \in Swaps, LockGbx(b)
  PROVE  Timely' /\ SwapMoves
<1>1. /\ b \in Buys /\ pc = "lock_gbx" /\ b \in todo
      /\ UNCHANGED <<world, usdc, gbx, usdcLocks, intents, crashes>>
  BY DEF LockGbx
<1>2. mem \in States /\ b \notin Sells
  BY <1>1, ConstantsAssumption DEF InTime, Sure, StateTyped
<1>3. gbxLocks \in [Buys -> Seq(Outputs)] /\ Len(gbxLocks[b]) \in Nat
  <2>1. gbxLocks \in [Buys -> Seq(Outputs)]
    BY DEF InTime, Inv, Typed
  <2>2. gbxLocks[b] \in Seq(Outputs)
    BY <1>1, <2>1
  <2> QED
    BY <2>1, <2>2
<1>4. Visited(b) => Going(b)
  BY PassingOne DEF Onto
<1>5. ASSUME Going(b), \A x \in Buys \ {b} : gbxLocks'[x] = gbxLocks[x],
             \A x \in Swaps \ {b} : mem'.swaps[x].status = mem.swaps[x].status
      PROVE  Apart(b)
  BY <1>1, <1>5 DEF Apart, world, Swaps
<1>6. CASE Visited(b) /\ UNCHANGED <<gbxLocks, mem>>
  <2>1. BuyPasses(b)
    BY <1>1, <1>6 DEF BuyPasses, PastClaim, PastRefund, Visited
  <2> QED
    BY <1>1, <1>2, <1>6, <2>1, PassedOver DEF chains, Onto
<1>7. CASE Status(b) = "none" /\ Record(b, "rejected", 0) /\ Visited(b) /\ UNCHANGED gbxLocks
  <2>1. mem'.swaps[b].status = "rejected" /\ \A x \in Swaps \ {b} : mem'.swaps[x] = mem.swaps[x]
    BY <1>2, <1>7, RecordMade DEF Statuses
  <2>2. Apart(b)
    BY <1>4, <1>5, <1>7, <2>1
  <2> SUFFICES ASSUME b \notin excused'
               PROVE  /\ BuyOk(b)'
                      /\ OneMove(Leg(usdc[b].state), SecondOf(gbxLocks[b]), Leg(usdc'[b].state), SecondOf(gbxLocks'[b]))
    BY <1>1, <2>2, OneBuy
  <2>3. b \in Buys \ excused
    BY <1>1 DEF Grows
  <2>4. gbxLocks[b] = <<>>
    BY <1>7, <2>3, BuyAlone
  <2>5. BuyOk(b)'
    BY <1>1, <1>7, <2>3, <2>4, OfOneBuy DEF BuyOk, BuyKnown, world
  <2> QED
    BY <1>1, <1>7, <2>5 DEF OneMove
<1>8. ASSUME NEW n \in Requested, Status(b) = "none", ~T2TooClose(usdc[b].t1),
             NEW out, out = [state |-> "unspent", t2 |-> height + T2FromT1(usdc[b].t1, n)],
             gbxLocks' = [gbxLocks EXCEPT ![b] = Append(@, out)],
             Record(b, "gbx_locked", Len(gbxLocks[b]) + 1), Visited(b)
      PROVE  Timely' /\ SwapMoves
  <2>1. gbxLocks'[b] = Append(gbxLocks[b], out) /\ \A x \in Buys \ {b} : gbxLocks'[x] = gbxLocks[x]
    BY <1>1, <1>3, <1>8
  <2>2. mem'.swaps[b].status = "gbx_locked" /\ \A x \in Swaps \ {b} : mem'.swaps[x] = mem.swaps[x]
    <3>1. Len(gbxLocks[b]) + 1 \in Nat
      BY <1>3
    <3> QED
      BY <1>2, <1>8, <3>1, RecordMade DEF Statuses
  <2>3. Apart(b)
    BY <1>4, <1>5, <1>8, <2>1, <2>2
  <2> SUFFICES ASSUME b \notin excused'
               PROVE  /\ BuyOk(b)'
                      /\ OneMove(Leg(usdc[b].state), SecondOf(gbxLocks[b]), Leg(usdc'[b].state), SecondOf(gbxLocks'[b]))
    BY <1>1, <2>3, OneBuy
  <2>4. b \in Buys \ excused
    BY <1>1 DEF Grows
  <2>5. gbxLocks[b] = <<>> /\ usdc[b].state \in {"locked", "refunded"} /\ usdc[b].t1 \in Nat
    <3>1. gbxLocks[b] = <<>> /\ usdc[b].state # "claimed"
      BY <1>8, <2>4, BuyAlone
    <3>2. usdc[b].state # "none"
      BY <1>1 DEF InTime, Inv, Served
    <3> QED
      BY <1>1, <3>1, <3>2, BuyLocks DEF LockStates
  <2>6. /\ out.state = "unspent" /\ out.t2 \in Nat /\ height <= out.t2 - 1
        /\ out.t2 + MaxSlow + 4 * MaxLag <= usdc[b].t1
    <3>1. PICK d \in Int : d = T2FromT1(usdc[b].t1, n)
      BY <1>8, <2>5, RoomBeforeT1 DEF InTime, Inv
    <3>2. height + d \in Nat /\ height + d + T2MinBlocks <= usdc[b].t1 /\ d >= T2MinBlocks
      BY <1>8, <2>5, <3>1, RoomBeforeT1 DEF InTime, Inv
    <3>3. T2MinBlocks >= MaxSlow + 4 * MaxLag /\ MaxLag > 0
      BY DEF InTime, Timing
    <3>4. out.state = "unspent" /\ out.t2 = height + d
      BY <1>8, <3>1
    <3>5. height <= (height + d) - 1 /\ height + d + MaxSlow + 4 * MaxLag <= usdc[b].t1
      <4>1. PICK t \in Nat : t = usdc[b].t1
        BY <2>5
      <4>2. height + d + T2MinBlocks <= t
        BY <3>2, <4>1
      <4>3. d > 0
        BY <3>1, <3>2, <3>3, Numbers
      <4>4. height + d + MaxSlow + 4 * MaxLag <= t
        BY <3>1, <3>3, <4>1, <4>2, Numbers
      <4> QED
        BY <3>1, <4>1, <4>3, <4>4, Numbers
    <3> QED
      BY <3>2, <3>4, <3>5
  <2>7. usdc[b].state = "locked"
    <3>1. usdc[b].t1 > now
      BY <1>8, <2>5, Numbers DEF T2TooClose
    <3>2. usdc[b].state = "refunded" => now >= usdc[b].t1
      BY <2>4, OfOneBuy DEF BuyKnown
    <3> QED
      BY <2>5, <3>1, <3>2, Numbers
  <2>8. gbxLocks'[b] = <<out>>
    <3>1. Append(<<>>, out) = <<out>>
      OBVIOUS
    <3> QED
      BY <2>1, <2>5, <3>1
  <2>9. gbxLocks'[b] # <<>> /\ gbxLocks'[b][1] = out /\ Len(gbxLocks'[b]) = 1
    BY <2>8
  <2>10. BuyOk(b)'
    <3>1. BuyKnown(b)'
      BY <1>1, <2>2, <2>7, <2>9 DEF BuyKnown, Status
    <3>2. /\ height <= out.t2 - 1 + 2 * MaxLag
          /\ \A past : Clock(height, lag, past, out.t2 - 1) /\ Clock(height, lag, past, out.t2 - 1 + 2 * MaxLag)
      <4>1. PICK t \in Nat : t = out.t2 /\ height <= t - 1
        BY <2>6
      <4>2. /\ height <= t - 1 + 2 * MaxLag
            /\ \A past : Clock(height, lag, past, t - 1) /\ Clock(height, lag, past, t - 1 + 2 * MaxLag)
        BY <4>1, Numbers DEF Clock
      <4> QED
        BY <4>1, <4>2
    <3>3. BuyTimely(b, gbxLocks[b][1])'
      BY <1>1, <2>6, <2>7, <2>9, <3>2 DEF BuyTimely, world
    <3> QED
      BY <3>1, <3>3 DEF BuyOk
  <2>11. OneMove(Leg(usdc[b].state), SecondOf(gbxLocks[b]), Leg(usdc'[b].state), SecondOf(gbxLocks'[b]))
    BY <1>1, <2>5, <2>6, <2>7, <2>9, Legs2 DEF OneMove
  <2> QED
    BY <2>10, <2>11
<1>9. ASSUME NEW out, gbxLocks' = [gbxLocks EXCEPT ![b] = Append(@, out)],
             RaiseUnrecorded(b), UNCHANGED mem
      PROVE  Timely' /\ SwapMoves
  <2>1. b \in excused'
    BY <1>9 DEF RaiseUnrecorded, Excuse
  <2>2. Going(b)
    BY <1>1, <1>9, PassingMany
  <2>3. Apart(b)
    BY <1>1, <1>3, <1>5, <1>9, <2>2
  <2> QED
    BY <1>1, <2>1, <2>3, OneBuy
<1>10. ASSUME NEW out, gbxLocks' = [gbxLocks EXCEPT ![b] = @ \o <<out, out>>],
              Record(b, "gbx_locked", Len(gbxLocks[b]) + 2), Visited(b), Excuse({b})
       PROVE  Timely' /\ SwapMoves
  <2>1. b \in excused'
    BY <1>10 DEF Excuse
  <2>2. \A x \in Swaps \ {b} : mem'.swaps[x] = mem.swaps[x]
    <3>1. Len(gbxLocks[b]) + 2 \in Nat
      BY <1>3
    <3> QED
      BY <1>2, <1>10, <3>1, RecordMade DEF Statuses
  <2>3. Apart(b)
    BY <1>1, <1>3, <1>4, <1>5, <1>10, <2>2
  <2> QED
    BY <1>1, <2>1, <2>3, OneBuy
<1>11. CASE Status(b) = "none" /\ ~T2TooClose(usdc[b].t1)
  <2> DEFINE Out(n) == [state |-> "unspent", t2 |-> height + T2FromT1(usdc[b].t1, n)]
  <2>1. \/ Visited(b) /\ UNCHANGED <<gbxLocks, mem>>
        \/ \E n \in Requested :
             \/ /\ gbxLocks' = [gbxLocks EXCEPT ![b] = Append(@, Out(n))]
                /\ \/ Record(b, "gbx_locked", Len(gbxLocks[b]) + 1) /\ Visited(b)
                   \/ RaiseUnrecorded(b) /\ UNCHANGED mem
             \/ /\ gbxLocks' = [gbxLocks EXCEPT ![b] = @ \o <<Out(n), Out(n)>>]
                /\ Record(b, "gbx_locked", Len(gbxLocks[b]) + 2) /\ Visited(b) /\ Excuse({b})
    BY <1>11 DEF LockGbx
  <2> QED
    BY <1>6, <1>8, <1>9, <1>10, <1>11, <2>1
<1>12. CASE ~(Status(b) = "none" /\ ~T2TooClose(usdc[b].t1))
  BY <1>6, <1>7, <1>12 DEF LockGbx
<1> QED
  BY <1>11, <1>12

(* The reactor's looks at its buys.                                        *)
LEMMA ClaimUsdcInTime ==
  ASSUME InTime, Grows, NEW b \in Swaps, ClaimUsdc(b)
  PROVE  Timely' /\ SwapMoves
<1>1. /\ pc = "claim_usdc" /\ b \in todo
      /\ UNCHANGED <<world, gbxLocks, gbx, usdcLocks, intents, disk, crashes>>
  BY DEF ClaimUsdc
<1>2. b \in Buys /\ b \notin Sells /\ Status(b) = "gbx_locked" /\ mem \in States
  BY <1>1, BuyListed DEF InTime, Sure, Status
<1>3. ASSUME b \notin excused'
      PROVE  /\ b \in Buys \ excused /\ gbxLocks[b] # <<>> /\ Output(b) = gbxLocks[b][1]
             /\ BuyKnown(b) /\ BuyTimely(b, gbxLocks[b][1])
  BY <1>2, <1>3, BuyAlone, OfOneBuy DEF Grows
<1>4. CASE Output(b).state = "unspent" /\ Visited(b) /\ UNCHANGED <<usdc, mem>>
  <2>1. b \notin excused' => BuyPasses(b)
    BY <1>1, <1>3, <1>4 DEF BuyPasses, PastClaim, PastRefund, Visited
  <2> QED
    BY <1>1, <1>2, <1>4, <2>1, PassedOver DEF chains, Onto
<1>5. CASE /\ Output(b).state # "unspent" /\ ~PreimageFound(b)
           /\ pc' = "in_mempool" /\ probe' = {b} /\ UNCHANGED <<todo, usdc, mem>>
  <2>1. b \notin excused' => BuyPasses(b)
    BY <1>3, <1>5 DEF BuyPasses, PreimageFound, PastRefund
  <2> QED
    BY <1>1, <1>2, <1>5, <2>1, PassedOver DEF chains, Onto
<1>6. CASE /\ PreimageFound(b) /\ usdc[b].state = "locked"
           /\ usdc' = [usdc EXCEPT ![b].state = "claimed"]
           /\ \/ SetStatus(b, "completed") /\ Visited(b)
              \/ Raise(b) /\ UNCHANGED mem
  <2>1. /\ \A x \in Swaps \ {b} : mem'.swaps[x] = mem.swaps[x]
        /\ mem'.swaps[b].status \notin {"none", "rejected"}
    BY <1>2, <1>6, StatusSet DEF Statuses, Status
  <2>2. usdc'[b].state = "claimed" /\ usdc'[b].t1 = usdc[b].t1 /\ \A x \in Buys \ {b} : usdc'[x] = usdc[x]
    <3>1. usdc \in [Buys -> [state : LockStates \cup {"none"}, t1 : Nat]]
      BY DEF InTime, Inv, Typed
    <3> QED
      BY <1>2, <1>6, <3>1
  <2>3. Apart(b)
    <3>1. Going(b)
      BY <1>1, <1>6, PassingOne, PassingMany DEF Onto
    <3> QED
      BY <1>1, <2>1, <2>2, <3>1 DEF Apart, world, Swaps
  <2> SUFFICES ASSUME b \notin excused'
               PROVE  /\ BuyOk(b)'
                      /\ OneMove(Leg(usdc[b].state), SecondOf(gbxLocks[b]), Leg(usdc'[b].state), SecondOf(gbxLocks'[b]))
    BY <1>2, <2>3, OneBuy
  <2>4. gbxLocks[b] # <<>> /\ gbxLocks[b][1].state = "claimed"
    BY <1>3, <1>6 DEF PreimageFound
  <2>5. BuyOk(b)'
    <3>1. BuyKnown(b)'
      BY <1>1, <1>3, <2>1, <2>2 DEF BuyKnown, Status
    <3>2. BuyTimely(b, gbxLocks[b][1])'
      BY <1>1, <1>3, <2>2, <2>4 DEF BuyTimely
    <3> QED
      BY <3>1, <3>2 DEF BuyOk
  <2>6. OneMove(Leg(usdc[b].state), SecondOf(gbxLocks[b]), Leg(usdc'[b].state), SecondOf(gbxLocks'[b]))
    BY <1>1, <1>6, <2>2, <2>4, Legs2 DEF OneMove
  <2> QED
    BY <2>5, <2>6
<1>7. CASE PreimageFound(b) /\ usdc[b].state # "locked" /\ SetStatus(b, "evm_claim_failed") /\ Visited(b)
           /\ UNCHANGED usdc
  <2>1. mem'.swaps[b].status = "evm_claim_failed" /\ \A x \in Swaps \ {b} : mem'.swaps[x] = mem.swaps[x]
    BY <1>2, <1>7, StatusSet DEF Statuses
  <2>2. Apart(b)
    <3>1. Going(b)
      BY <1>7, PassingOne DEF Onto
    <3> QED
      BY <1>1, <1>7, <2>1, <3>1 DEF Apart, world, Swaps
  <2> SUFFICES ASSUME b \notin excused'
               PROVE  /\ BuyOk(b)'
                      /\ OneMove(Leg(usdc[b].state), SecondOf(gbxLocks[b]), Leg(usdc'[b].state), SecondOf(gbxLocks'[b]))
    BY <1>2, <2>2, OneBuy
  <2>3. gbxLocks[b][1].state = "claimed"
    BY <1>3, <1>7 DEF PreimageFound
  <2>4. usdc[b].state = "claimed"
    <3>1. usdc[b].state \in {"none", "claimed", "refunded"} /\ usdc[b].state # "none"
      BY <1>2, <1>3, <1>7, BuyLocks DEF LockStates
    <3>2. usdc[b].state # "refunded"
      BY <1>3, <2>3 DEF BuyTimely
    <3> QED
      BY <3>1, <3>2
  <2>5. BuySteady(b)
    BY <2>3, <2>4 DEF BuySteady, BuyIdle
  <2>6. BuyOk(b)'
    BY <1>1, <1>3, <1>7, <2>1, <2>5, BuyKeeps DEF world
  <2> QED
    BY <1>1, <1>7, <2>6 DEF OneMove
<1> QED
  BY <1>4, <1>5, <1>6, <1>7 DEF ClaimUsdc

LEMMA LooksInTime ==
  ASSUME InTime, Grows, NEW b \in Swaps, LookInMempool(b)
  PROVE  Timely' /\ SwapMoves
<1>1. pc = "in_mempool" /\ b \in probe /\ UNCHANGED <<world, chains, intents, mem>>
  BY DEF LookInMempool
<1>2. b \in Buys /\ b \in todo /\ probe = {b} /\ Status(b) = "gbx_locked"
  BY <1>1 DEF InTime, Sure, Agenda, Status
<1>3. PastClaim(b) /\ PastRefund(b)' = FALSE
  BY <1>1 DEF PastClaim, PastRefund, LookInMempool
<1>4. BuyPasses(b) /\ b \notin Sells
  BY <1>2, <1>3, ConstantsAssumption DEF BuyPasses
<1>5. Onto(b)
  BY <1>1, <1>2 DEF LookInMempool, Onto
<1> QED
  BY <1>1, <1>2, <1>4, <1>5, PassedOver

LEMMA ResolvesInTime ==
  ASSUME InTime, Grows, NEW b \in Swaps, LookForRefund(b)
  PROVE  Timely' /\ SwapMoves
<1>1. /\ pc = "via_refund" /\ b \in probe /\ UNCHANGED <<world, chains, intents>>
      /\ pc' = "claim_usdc" /\ todo' = todo \ {b} /\ probe' = {}
  BY DEF LookForRefund
<1>2. /\ b \in Buys /\ b \in todo /\ probe = {b} /\ Status(b) = "gbx_locked" /\ mem.swaps[b].unres = 0
      /\ mem \in States
  BY <1>1 DEF InTime, Sure, Agenda, Status, StateTyped
<1>3. PastClaim(b) /\ PastRefund(b)' = FALSE /\ b \notin Sells /\ Onto(b)
  BY <1>1, <1>2, ConstantsAssumption DEF PastClaim, PastRefund, Onto
<1>4. BuyPasses(b)
  BY <1>3 DEF BuyPasses
<1>5. CASE SpentViaRefund(b)
  <2>1. mem'.swaps[b].status = "refunded_on_timelock" /\ \A x \in Swaps \ {b} : mem'.swaps[x] = mem.swaps[x]
    <3>1. SetStatus(b, "refunded_on_timelock")
      BY <1>5 DEF LookForRefund
    <3> QED
      BY <1>2, <3>1, StatusSet DEF Statuses
  <2>2. Apart(b)
    <3>1. Going(b)
      BY <1>3, PassingOne
    <3> QED
      BY <1>1, <2>1, <3>1 DEF Apart, world, chains, Swaps
  <2> SUFFICES ASSUME b \notin excused'
               PROVE  /\ BuyOk(b)'
                      /\ OneMove(Leg(usdc[b].state), SecondOf(gbxLocks[b]), Leg(usdc'[b].state), SecondOf(gbxLocks'[b]))
    BY <1>2, <2>2, OneBuy
  <2>3. b \in Buys \ excused
    BY <1>2 DEF Grows
  <2>4. BuySteady(b)
    BY <1>1, <1>4 DEF BuySteady, world
  <2>5. BuyOk(b)'
    BY <1>1, <2>1, <2>3, <2>4, BuyKeeps DEF world, chains
  <2> QED
    BY <1>1, <2>5 DEF OneMove, chains
<1>6. CASE ~SpentViaRefund(b)
  <2>1. \A y \in Swaps : mem'.swaps[y].status = mem.swaps[y].status
    <3>1. mem.swaps[b].unres + 1 = 1 /\ 1 < ScansBeforeHalt
      BY <1>2 DEF ScansBeforeHalt
    <3>2. mem' = [mem EXCEPT !.swaps[b].unres = 1, !.swaps[b].status = @, !.halt = @ \/ 1 >= ScansBeforeHalt]
      BY <1>6, <3>1 DEF LookForRefund
    <3>3. mem = [swaps |-> mem.swaps, halt |-> mem.halt] /\ mem.swaps \in [Swaps -> Records]
      BY <1>2 DEF States
    <3> QED
      BY <3>2, <3>3 DEF Records
  <2> QED
    BY <1>1, <1>2, <1>3, <1>4, <2>1, PassedOver
<1> QED
  BY <1>5, <1>6

LEMMA RefundGbxInTime ==
  ASSUME InTime, Grows, NEW b \in Swaps, RefundGbx(b)
  PROVE  Timely' /\ SwapMoves
<1>1. pc = "refund_gbx" /\ b \in todo /\ UNCHANGED <<world, usdc, gbx, usdcLocks, intents, crashes>>
  BY DEF RefundGbx
<1>2. b \in Buys /\ b \notin Sells /\ Status(b) = "gbx_locked" /\ mem \in States
  BY <1>1, BuyListed DEF InTime, Sure, Status
<1>3. ASSUME b \notin excused'
      PROVE  /\ b \in Buys \ excused /\ gbxLocks[b] # <<>> /\ Output(b) = gbxLocks[b][1]
             /\ mem.swaps[b].lock = 1 /\ BuyKnown(b) /\ BuyTimely(b, gbxLocks[b][1])
  BY <1>2, <1>3, BuyAlone, OfOneBuy DEF Grows
<1>4. CASE Output(b).state = "unspent" /\ height >= Output(b).t2
  <2>1. /\ gbxLocks' = [gbxLocks EXCEPT ![b][mem.swaps[b].lock].state = "refunding"]
        /\ \/ SetStatus(b, "refunded_by_lp") /\ Visited(b)
           \/ Raise(b) /\ UNCHANGED mem
    BY <1>4 DEF RefundGbx
  <2>2. /\ \A x \in Swaps \ {b} : mem'.swaps[x] = mem.swaps[x]
        /\ mem'.swaps[b].status \notin {"none", "rejected"}
    BY <1>2, <2>1, StatusSet DEF Statuses, Status
  <2>3. Apart(b)
    <3>1. Going(b)
      BY <1>1, <2>1, PassingOne, PassingMany DEF Onto
    <3>2. \A x \in Buys \ {b} : gbxLocks'[x] = gbxLocks[x]
      <4>1. gbxLocks \in [Buys -> Seq(Outputs)]
        BY DEF InTime, Inv, Typed
      <4> QED
        BY <2>1, <4>1
    <3> QED
      BY <1>1, <2>2, <3>1, <3>2 DEF Apart, world, Swaps
  <2> SUFFICES ASSUME b \notin excused'
               PROVE  /\ BuyOk(b)'
                      /\ OneMove(Leg(usdc[b].state), SecondOf(gbxLocks[b]), Leg(usdc'[b].state), SecondOf(gbxLocks'[b]))
    BY <1>2, <2>3, OneBuy
  <2>4. /\ gbxLocks'[b] # <<>> /\ Len(gbxLocks'[b]) = Len(gbxLocks[b])
        /\ gbxLocks'[b][1].state = "refunding" /\ gbxLocks'[b][1].t2 = gbxLocks[b][1].t2
    BY <1>2, <1>3, <2>1, OutputMoved DEF OutputStates
  <2>5. BuyOk(b)'
    <3>1. BuyKnown(b)'
      BY <1>1, <1>3, <2>2, <2>4 DEF BuyKnown, Status, world
    <3>2. BuyTimely(b, gbxLocks[b][1])'
      BY <1>1, <1>3, <2>4 DEF BuyTimely
    <3> QED
      BY <3>1, <3>2 DEF BuyOk
  <2>6. OneMove(Leg(usdc[b].state), SecondOf(gbxLocks[b]), Leg(usdc'[b].state), SecondOf(gbxLocks'[b]))
    BY <1>1, <1>3, <1>4, <2>4, Legs2 DEF OneMove
  <2> QED
    BY <2>5, <2>6
<1>5. CASE ~(Output(b).state = "unspent" /\ height >= Output(b).t2)
  <2>1. Visited(b) /\ UNCHANGED <<gbxLocks, mem>>
    BY <1>5 DEF RefundGbx
  <2>2. PastClaim(b)
    BY <1>1 DEF PastClaim
  <2>3. ASSUME b \notin excused' PROVE BuyPasses(b)
    <3>1. gbxLocks[b][1].state # "unspent" \/ height < gbxLocks[b][1].t2
      <4>1. gbxLocks[b][1].t2 \in Nat
        BY <1>2, <1>3, <2>3, BuyLocks
      <4> QED
        BY <1>3, <1>5, <2>3, <4>1, Numbers
    <3> QED
      BY <2>2, <3>1 DEF BuyPasses
  <2> QED
    BY <1>1, <1>2, <2>1, <2>3, PassedOver DEF chains, Onto
<1> QED
  BY <1>4, <1>5

(* A sell is served.                                                       *)
LEMMA LockUsdcInTime ==
  ASSUME InTime, Grows, NEW s \in Swaps, LockUsdc(s)
  PROVE  Timely' /\ SwapMoves
<1>1. /\ pc = "lock_usdc" /\ s \in todo
      /\ UNCHANGED <<world, usdc, gbxLocks, gbx, disk, crashes>>
  BY DEF LockUsdc
<1>2. mem \in States /\ s \in Sells /\ s \notin Buys
  BY <1>1, ConstantsAssumption DEF InTime, Sure, StateTyped, Agenda
<1>3. usdcLocks \in [Sells -> Seq(EvmLocks)] /\ Len(usdcLocks[s]) \in Nat
  <2>1. usdcLocks \in [Sells -> Seq(EvmLocks)]
    BY DEF InTime, Sure, StateTyped, EvmLocks
  <2>2. usdcLocks[s] \in Seq(EvmLocks)
    BY <1>2, <2>1
  <2> QED
    BY <2>1, <2>2
<1>4. Visited(s) => Going(s)
  BY PassingOne DEF Onto
<1>5. ASSUME Going(s), \A x \in Sells \ {s} : usdcLocks'[x] = usdcLocks[x],
             \A x \in Swaps \ {s} : mem'.swaps[x].status = mem.swaps[x].status
      PROVE  Apart(s)
  BY <1>1, <1>5 DEF Apart, world, Swaps
<1>6. CASE Visited(s) /\ UNCHANGED <<usdcLocks, mem>>
  <2>1. SellPasses(s)
    BY <1>1, <1>6 DEF SellPasses, PastLook, PastSnapshot, Visited
  <2> QED
    BY <1>1, <1>2, <1>6, <2>1, PassedOver DEF chains, Onto
<1>7. ASSUME NEW status \in {"rejected", "usdc_locked"}, NEW lock \in Nat, Record(s, status, lock), Status(s) = "none",
             Visited(s), UNCHANGED usdcLocks, status # "rejected" => usdcLocks[s] # <<>>
      PROVE  Timely' /\ SwapMoves
  <2>1. \A x \in Swaps \ {s} : mem'.swaps[x] = mem.swaps[x]
    BY <1>2, <1>7, RecordMade DEF Statuses
  <2>2. Apart(s)
    BY <1>4, <1>5, <1>7, <2>1
  <2> SUFFICES ASSUME s \notin excused'
               PROVE  /\ SellOk(s)'
                      /\ OneMove(Leg(gbx[s].state), SecondOf(usdcLocks[s]), Leg(gbx'[s].state), SecondOf(usdcLocks'[s]))
    BY <1>2, <2>2, OneSell
  <2>3. usdcLocks[s] = <<>>
    BY <1>2, <1>7, SellAlone DEF Grows
  <2>4. SellOk(s)'
    BY <1>7, <2>3 DEF SellOk, SellKnown
  <2> QED
    BY <1>1, <1>7, <2>4 DEF OneMove
<1>8. ASSUME Status(s) = "none", gbx[s].state = "unspent",
             usdcLocks' = [usdcLocks EXCEPT ![s] = Append(@, [state |-> "locked", t2 |-> now + SellT2])],
             Record(s, "usdc_locked", Len(usdcLocks[s]) + 1), Visited(s),
             Excuse({s} \cap {x \in Sells : MetLate(x)})
      PROVE  Timely' /\ SwapMoves
  <2> DEFINE out == [state |-> "locked", t2 |-> now + SellT2]
  <2>1. usdcLocks'[s] = Append(usdcLocks[s], out) /\ \A x \in Sells \ {s} : usdcLocks'[x] = usdcLocks[x]
    BY <1>2, <1>3, <1>8
  <2>2. mem'.swaps[s].status = "usdc_locked" /\ \A x \in Swaps \ {s} : mem'.swaps[x] = mem.swaps[x]
    <3>1. Len(usdcLocks[s]) + 1 \in Nat
      BY <1>3
    <3> QED
      BY <1>2, <1>8, <3>1, RecordMade DEF Statuses
  <2>3. Apart(s)
    BY <1>4, <1>5, <1>8, <2>1, <2>2
  <2> SUFFICES ASSUME s \notin excused'
               PROVE  /\ SellOk(s)'
                      /\ OneMove(Leg(gbx[s].state), SecondOf(usdcLocks[s]), Leg(gbx'[s].state), SecondOf(usdcLocks'[s]))
    BY <1>2, <2>3, OneSell
  <2>4. s \in Sells \ excused /\ ~MetLate(s)
    BY <1>2, <1>8 DEF Excuse
  <2>5. usdcLocks[s] = <<>>
    BY <1>8, <2>4, SellAlone
  <2>6. /\ usdcLocks'[s] # <<>> /\ usdcLocks'[s][1] = out /\ Len(usdcLocks'[s]) = 1
        /\ out.state = "locked" /\ out.t2 = now + SellT2
    <3>1. Append(<<>>, out) = <<out>>
      OBVIOUS
    <3>2. usdcLocks'[s] = <<out>>
      BY <2>1, <2>5, <3>1
    <3> QED
      BY <3>2
  <2> HIDE DEF out
  <2>7. PICK u \in Nat : u = now + SellT2
    BY Numbers
  <2>8. gbx[s].t1 - height > RefundGrace + 3 * MaxLag + (u - now)
    <3>1. PICK t \in Nat : t = gbx[s].t1
      BY <1>2, SellLocks
    <3>2. ~(t - height <= SellT2 + RefundGrace + 3 * MaxLag)
      BY <2>4, <3>1 DEF MetLate
    <3>3. t - height > RefundGrace + 3 * MaxLag + (u - now)
      BY <2>7, <3>1, <3>2, Numbers
    <3> QED
      BY <3>1, <3>3
  <2>9. SellOk(s)'
    <3>1. SellKnown(s)'
      BY <1>1, <1>8, <2>2, <2>6 DEF SellKnown, Status
    <3>2. SellTimely(s, usdcLocks[s][1])'
      <4>1. \A past : Clock(now, lag, past, u + RefundGrace)
        BY <2>7, Numbers DEF Clock
      <4>2. /\ usdcLocks'[s][1].state = "locked" /\ usdcLocks'[s][1].t2 = u
            /\ gbx'[s] = gbx[s] /\ now' = now /\ height' = height /\ lag' = lag
        BY <1>1, <2>6, <2>7 DEF world
      <4> QED
        BY <1>8, <2>8, <4>1, <4>2 DEF SellTimely
    <3> QED
      BY <3>1, <3>2 DEF SellOk
  <2>10. OneMove(Leg(gbx[s].state), SecondOf(usdcLocks[s]), Leg(gbx'[s].state), SecondOf(usdcLocks'[s]))
    BY <1>1, <1>8, <2>5, <2>6, Legs2 DEF OneMove
  <2> QED
    BY <2>9, <2>10
<1>9. ASSUME NEW out, usdcLocks' = [usdcLocks EXCEPT ![s] = Append(@, out)], RaiseUnrecorded(s), UNCHANGED mem
      PROVE  Timely' /\ SwapMoves
  <2>1. s \in excused'
    BY <1>9 DEF RaiseUnrecorded, Excuse
  <2>2. Going(s)
    BY <1>1, <1>9, PassingMany
  <2>3. Apart(s)
    BY <1>1, <1>3, <1>5, <1>9, <2>2
  <2> QED
    BY <1>2, <2>1, <2>3, OneSell
<1>10. CASE Status(s) = "none" /\ gbx[s].state = "unspent"
  <2>1. \/ Record(s, "rejected", 0) /\ Visited(s) /\ UNCHANGED usdcLocks
        \/ usdcLocks[s] # <<>> /\ Record(s, "usdc_locked", 1) /\ Visited(s) /\ UNCHANGED usdcLocks
        \/ /\ usdcLocks' = [usdcLocks EXCEPT ![s] = Append(@, [state |-> "locked", t2 |-> now + SellT2])]
           /\ \/ /\ Record(s, "usdc_locked", Len(usdcLocks[s]) + 1) /\ Visited(s)
                 /\ Excuse({s} \cap {x \in Sells : MetLate(x)})
              \/ RaiseUnrecorded(s) /\ UNCHANGED mem
    BY <1>10 DEF LockUsdc, Terminal
  <2> QED
    BY <1>7, <1>8, <1>9, <1>10, <2>1
<1>11. CASE ~(Status(s) = "none" /\ gbx[s].state = "unspent")
  BY <1>6, <1>11 DEF LockUsdc
<1> QED
  BY <1>10, <1>11

(* The reactor's looks at its sells.                                       *)
LEMMA ClaimGbxInTime ==
  ASSUME InTime, Grows, NEW s \in Swaps, ClaimGbx(s)
  PROVE  Timely' /\ SwapMoves
<1>1. /\ pc = "claim_gbx" /\ s \in todo
      /\ UNCHANGED <<world, usdc, gbxLocks, intents, disk, crashes>>
  BY DEF ClaimGbx, FirstInTodo
<1>2. /\ mem \in States /\ s \in Sells /\ s \notin Buys /\ Status(s) = "usdc_locked"
      /\ s \in probe => \E k \in DOMAIN usdcLocks[s] : usdcLocks[s][k].state = "claimed"
  BY <1>1, SellListed DEF InTime, Sure, Status
<1>3. ASSUME s \notin excused'
      PROVE  /\ s \in Sells \ excused /\ usdcLocks[s] # <<>> /\ Lock(s) = usdcLocks[s][1]
             /\ mem.swaps[s].lock = 1 /\ SellKnown(s) /\ SellTimely(s, usdcLocks[s][1])
             /\ s \in probe => usdcLocks[s][1].state = "claimed"
  <2>1. s \in Sells \ excused
    BY <1>2, <1>3 DEF Grows
  <2> QED
    BY <1>2, <2>1, SellAlone, OfOneSell
<1>4. Visited(s) \/ Raise(s) => Going(s)
  BY <1>1, PassingOne, PassingMany DEF Onto
<1>5. CASE s \notin probe /\ RefundUsdc(s) /\ Visited(s) /\ UNCHANGED gbx
  <2>1. CASE Lock(s).state = "locked" /\ now > Lock(s).t2 + RefundGrace
    <3>1. /\ usdcLocks' = [usdcLocks EXCEPT ![s][mem.swaps[s].lock].state = "refunded"]
          /\ SetStatus(s, "refunded_by_lp") \/ UNCHANGED mem
      BY <1>5, <2>1 DEF RefundUsdc
    <3>2. /\ \A x \in Swaps \ {s} : mem'.swaps[x] = mem.swaps[x]
          /\ mem'.swaps[s].status \notin {"none", "rejected"}
      BY <1>2, <3>1, StatusSet DEF Statuses, Status
    <3>3. \A x \in Sells \ {s} : usdcLocks'[x] = usdcLocks[x]
      <4>1. usdcLocks \in [Sells -> Seq(EvmLocks)]
        BY DEF InTime, Sure, StateTyped, EvmLocks
      <4> QED
        BY <3>1, <4>1
    <3>4. Apart(s)
      BY <1>1, <1>4, <1>5, <3>2, <3>3 DEF Apart, world, Swaps
    <3> SUFFICES ASSUME s \notin excused'
                 PROVE  /\ SellOk(s)'
                        /\ OneMove(Leg(gbx[s].state), SecondOf(usdcLocks[s]), Leg(gbx'[s].state), SecondOf(usdcLocks'[s]))
      BY <1>2, <3>4, OneSell
    <3>5. /\ usdcLocks'[s] # <<>> /\ Len(usdcLocks'[s]) = Len(usdcLocks[s])
          /\ usdcLocks'[s][1].state = "refunded" /\ usdcLocks'[s][1].t2 = usdcLocks[s][1].t2
      BY <1>2, <1>3, <3>1, LockMoved DEF LockStates
    <3>6. SellOk(s)'
      <4>1. SellKnown(s)'
        BY <1>3, <1>5, <3>2, <3>5 DEF SellKnown, Status
      <4>2. SellTimely(s, usdcLocks[s][1])'
        BY <1>1, <1>3, <1>5, <3>5 DEF SellTimely, world
      <4> QED
        BY <4>1, <4>2 DEF SellOk
    <3>7. OneMove(Leg(gbx[s].state), SecondOf(usdcLocks[s]), Leg(gbx'[s].state), SecondOf(usdcLocks'[s]))
      BY <1>3, <1>5, <2>1, <3>5, Legs2 DEF OneMove
    <3> QED
      BY <3>6, <3>7
  <2>2. CASE ~(Lock(s).state = "locked" /\ now > Lock(s).t2 + RefundGrace)
    <3>1. UNCHANGED <<usdcLocks, mem>>
      BY <1>5, <2>2 DEF RefundUsdc
    <3>2. ASSUME s \notin excused' PROVE SellPasses(s)
      <4>1. usdcLocks[s][1].state # "locked" \/ now <= usdcLocks[s][1].t2 + RefundGrace
        <5>1. usdcLocks[s][1].t2 \in Nat
          BY <1>2, <1>3, <3>2, SellLocks
        <5> QED
          BY <1>3, <2>2, <3>2, <5>1, Numbers
      <4> QED
        BY <1>1, <1>5, <4>1 DEF SellPasses, PastSnapshot
    <3> QED
      BY <1>1, <1>2, <1>5, <3>1, <3>2, PassedOver DEF chains, Onto
  <2> QED
    BY <2>1, <2>2
<1>6. CASE /\ s \in probe /\ gbx[s].state = "unspent"
           /\ gbx' = [gbx EXCEPT ![s].state = "claiming"]
           /\ \/ SetStatus(s, "completed") /\ Visited(s)
              \/ Raise(s) /\ UNCHANGED mem
           /\ UNCHANGED usdcLocks
  <2>1. gbx'[s].state = "claiming" /\ gbx'[s].t1 = gbx[s].t1 /\ \A x \in Sells \ {s} : gbx'[x] = gbx[x]
    <3>1. gbx \in [Sells -> [state : OutputStates \cup {"none"}, t1 : Nat]]
      BY DEF InTime, Sure, StateTyped
    <3> QED
      BY <1>2, <1>6, <3>1
  <2>2. /\ \A x \in Swaps \ {s} : mem'.swaps[x] = mem.swaps[x]
        /\ mem'.swaps[s].status \notin {"none", "rejected"}
    BY <1>2, <1>6, StatusSet DEF Statuses, Status
  <2>3. Apart(s)
    BY <1>1, <1>4, <1>6, <2>1, <2>2 DEF Apart, world, Swaps
  <2> SUFFICES ASSUME s \notin excused'
               PROVE  /\ SellOk(s)'
                      /\ OneMove(Leg(gbx[s].state), SecondOf(usdcLocks[s]), Leg(gbx'[s].state), SecondOf(usdcLocks'[s]))
    BY <1>2, <2>3, OneSell
  <2>4. usdcLocks[s] # <<>> /\ usdcLocks[s][1].state = "claimed"
    BY <1>3, <1>6
  <2>5. SellOk(s)'
    <3>1. SellKnown(s)'
      BY <1>3, <1>6, <2>1, <2>2 DEF SellKnown, Status
    <3>2. SellTimely(s, usdcLocks[s][1])'
      BY <1>1, <1>3, <1>6, <2>1, <2>4 DEF SellTimely, world
    <3> QED
      BY <3>1, <3>2 DEF SellOk
  <2>6. OneMove(Leg(gbx[s].state), SecondOf(usdcLocks[s]), Leg(gbx'[s].state), SecondOf(usdcLocks'[s]))
    BY <1>6, <2>1, <2>4, Legs2 DEF OneMove
  <2> QED
    BY <2>5, <2>6
<1>7. CASE s \in probe /\ gbx[s].state # "unspent" /\ Raise(s) /\ UNCHANGED <<mem, gbx, usdcLocks>>
  <2>1. Apart(s)
    BY <1>1, <1>4, <1>7 DEF Apart, world, Swaps
  <2> SUFFICES ASSUME s \notin excused'
               PROVE  /\ SellOk(s)'
                      /\ OneMove(Leg(gbx[s].state), SecondOf(usdcLocks[s]), Leg(gbx'[s].state), SecondOf(usdcLocks'[s]))
    BY <1>2, <2>1, OneSell
  <2>2. SellSteady(s)
    BY <1>3, <1>7 DEF SellSteady, SellIdle
  <2>3. SellOk(s)'
    BY <1>1, <1>2, <1>3, <1>7, <2>2, SellKeeps DEF world, Status
  <2> QED
    BY <1>7, <2>3 DEF OneMove
<1> QED
  BY <1>5, <1>6, <1>7 DEF ClaimGbx, OutputGone
-----------------------------------------------------------------------------
(* Every step, and the start.                                              *)
LEMMA TimelyStays == ASSUME InTime, [Next]_vars PROVE Timely' /\ SwapMoves
<1>1. Grows
  BY Excuses DEF Grows
<1>2. CASE UNCHANGED vars
  BY <1>1, <1>2, PostInTime
<1>3. CASE Crash
  BY <1>1, <1>3, CrashInTime
<1>4. CASE User
  BY <1>1, <1>4, PostInTime, UserOfBuy, UserTakesGbx, UserLocks, UserTakesBack, UserTakesUsdc DEF User
<1>5. CASE Tick
  BY <1>1, <1>5, TickInTime
<1>6. CASE Daemon
  BY <1>1, <1>6, StartInTime, EndInTime, LockGbxInTime, ClaimUsdcInTime, LooksInTime, ResolvesInTime, LockUsdcInTime,
     ClaimGbxInTime, RefundGbxInTime DEF Daemon, Scan
<1> QED
  BY <1>2, <1>3, <1>4, <1>5, <1>6 DEF Next

LEMMA TimelyAtStart == ASSUME Init PROVE ExcusedTyped /\ Timely /\ AbstractSwap!Init
<1>1. ASSUME NEW b \in Buys PROVE BuyOk(b)
  BY <1>1 DEF Init, BuyOk, BuyKnown
<1>2. ASSUME NEW s \in Sells PROVE SellOk(s)
  BY <1>2 DEF Init, SellOk, SellKnown
<1>3. First = [s \in Swaps |-> "none"] /\ Second = [s \in Swaps |-> "none"]
  BY Legs2 DEF Init, First, Second, Swaps
<1> QED
  BY <1>1, <1>2, <1>3 DEF Init, ExcusedTyped, Timely, AbstractSwap!Init

(* Every step leaves the next one in time, and is one of the abstract swap. *)
LEMMA InTimeStays == ASSUME InTime, [Next]_vars PROVE InTime' /\ [AbstractSwap!Next]_<<First, Second, excused>>
<1>1. excused \subseteq excused' /\ excused' \subseteq Swaps
  BY Excuses DEF InTime, ExcusedTyped
<1>2. Inv' /\ Sure' /\ Timely' /\ SwapMoves
  BY NextStep, SureStays, TimelyStays DEF InTime
<1>3. InTime'
  BY <1>1, <1>2 DEF InTime, ExcusedTyped, Timing
<1>4. AbstractSwap!Next
  BY <1>1, <1>2 DEF SwapMoves, AbstractSwap!Next
<1> QED
  BY <1>3, <1>4

(* scan_and_lock_gbx to scan_and_refund_gbx: through restarts, lost        *)
(* answers, halted cycles and sells met late, for any swaps, users and     *)
(* chain, the daemon takes every swap that is not excused through the      *)
(* steps of the abstract one, when T2_MIN_BLOCKS has the room Timing asks. *)
THEOREM TheDaemonSwapsAtomically == Timing => (Spec => ImplementsAtomicSwap)
<1> SUFFICES ASSUME Timing PROVE Spec => ImplementsAtomicSwap
  OBVIOUS
<1>1. Init => InTime /\ AbstractSwap!Init
  BY InitStep, SureAtStart, TimelyAtStart DEF InTime
<1>2. InTime /\ [Next]_vars => InTime' /\ [AbstractSwap!Next]_<<First, Second, excused>>
  BY InTimeStays
<1> QED
  BY <1>1, <1>2, PTL DEF Spec, ImplementsAtomicSwap, AbstractSwap!Spec

(* The same as an invariant: no user has a swap's USDC back, or its GBX,   *)
(* and the liquidity provider's leg too, and the provider never has both,  *)
(* as long as the swap is not excused.                                     *)
THEOREM NobodyKeepsBothLegs == Timing => (Spec => []AbstractSwap!Atomic)
<1> SUFFICES ASSUME Timing PROVE Spec => []AbstractSwap!Atomic
  OBVIOUS
<1>1. Init => InTime
  BY InitStep, SureAtStart, TimelyAtStart DEF InTime
<1>2. InTime /\ [Next]_vars => InTime'
  BY InTimeStays
<1>3. ASSUME InTime, NEW s \in Swaps \ excused
      PROVE  /\ ~(FirstLeg(s) = "refunded" /\ SecondLeg(s) = "claimed")
             /\ FirstLeg(s) = "claimed" => SecondLeg(s) = "claimed"
  <2>1. CASE s \in Buys
    <3>1. gbxLocks[s] # <<>> /\ usdc[s].state = "refunded" => gbxLocks[s][1].state \in {"refunding", "refunded"}
      BY <1>3, <2>1, OfOneBuy DEF BuyTimely
    <3>2. /\ usdc[s].state \in LockStates \cup {"none"}
          /\ usdc[s].state = "claimed" => gbxLocks[s] # <<>> /\ gbxLocks[s][1].state = "claimed"
      BY <1>3, <2>1, BuyLocks, BuyAlone
    <3> QED
      BY <2>1, <3>1, <3>2, Legs2 DEF FirstLeg, SecondLeg, LockStates
  <2>2. CASE s \in Sells /\ s \notin Buys
    <3>1. usdcLocks[s] # <<>> /\ gbx[s].state \in {"refunding", "refunded"} => usdcLocks[s][1].state = "refunded"
      BY <1>3, <2>2, OfOneSell DEF SellTimely
    <3>2. /\ gbx[s].state \in OutputStates \cup {"none"}
          /\ gbx[s].state \in {"claiming", "claimed"} => usdcLocks[s] # <<>> /\ usdcLocks[s][1].state = "claimed"
      BY <1>3, <2>2, SellLocks, SellAlone
    <3> QED
      BY <2>2, <3>1, <3>2, Legs2 DEF FirstLeg, SecondLeg, OutputStates
  <2> QED
    BY <1>3, <2>1, <2>2 DEF Swaps
<1>4. InTime => AbstractSwap!Atomic
  <2>1. \A s \in Swaps : First[s] = FirstLeg(s) /\ Second[s] = SecondLeg(s)
    BY DEF First, Second, FirstLeg, SecondLeg
  <2> QED
    BY <1>3, <2>1 DEF AbstractSwap!Atomic
<1> QED
  BY <1>1, <1>2, <1>4, PTL DEF Spec
=============================================================================
