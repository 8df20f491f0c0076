---------------------------- MODULE ClientProofs ----------------------------
(***************************************************************************)
(* What holds of the user's device, for any number of swaps, offers,       *)
(* buyers, nodes and coins and any number of closed pages and lost         *)
(* answers: in a swap with an LP (ClientSwap.tla), what the device         *)
(* remembers and what it reveals; in the direct market (OfferMarket.tla),  *)
(* that an offer executes once, that the secret is kept and that the       *)
(* seller keeps his margin; in a payment (Wallet.tla), that what the       *)
(* federation says is confirmed and that coins and payments match.         *)
(***************************************************************************)
EXTENDS ClientSwap, OfferMarket, Wallet, SumLemmas, SequenceTheorems, TLAPS

(* What is true of one swap, whoever acts.  Its LP's answer and its locks: *)
LpTrue(s) ==
  /\ lp[s] \in {"unknown", "intent", "rejected", "failed"} =>
       terms[s] = "agreed" /\ IF s \in Sells THEN usdc[s] = "none" ELSE gbx[s] = "none" /\ said[s] = "none"
  /\ lp[s] \in {"locked", "completed"} => IF s \in Sells THEN usdc[s] # "none" ELSE said[s] # "none"
  /\ s \in Sells => /\ lp[s] = "completed" => gbx[s] = "claimed"
                    /\ usdc[s] = "refunded" => udue[s]
  /\ s \in Buys => (lp[s] = "completed" => usdc[s] = "claimed")
(* a swap that no flow has begun;                                          *)
Untried(s) ==
  told[s] = "none" /\ cur # s =>
    /\ gbx[s] = "none" /\ usdc[s] = "none" /\ lp[s] = "unknown"
    /\ s \notin full /\ s \notin rows /\ s \notin old
(* its entry, for which every cause of EntryKept is spelled out;           *)
Lost(s) ==
  \/ <<s, "no answer">> \in excused
  \/ <<s, "same amount">> \in excused /\ kind[s] = "sellSol" /\ rows \ {s} # {}
  \/ <<s, "read failed">> \in excused /\ kind[s] = "buySol" /\ s \in old
  \/ <<s, "reverted">> \in excused /\ kind[s] = "sellEvm" /\ usdc[s] = "refunded"
  \/ <<s, "named">> \in excused /\ kind[s] = "sellEvm" /\ terms[s] = "foreign"
Kept(s) ==
  Own(s) = "locked" /\ ~Paid(s) => s \in full \/ kind[s] = "buyEvm" \/ Lost(s)
(* and what the page said of it.                                           *)
Honest(s) ==
  told[s] = "done" => (terms[s] = "agreed" /\ Other(s) = "claimed") \/ (kind[s] = "sellEvm" /\ Other(s) = "refunded" /\ udue[s])
OfSwap(s) == LpTrue(s) /\ Untried(s) /\ Kept(s) /\ Honest(s) /\ (s \in rows => s \notin full)

(* What the flow relies on at each of its awaits.                          *)
AtAwait(s) ==
  /\ at = "lock" => s \in Sells /\ gbx[s] = "none" /\ lp[s] = "unknown" /\ s \notin full /\ s \notin rows
  /\ at = "intent" => lp[s] = "unknown"
  /\ at = "submit" => /\ kind[s] = "buySol" /\ usdc[s] = "none" /\ lp[s] = "unknown"
                      /\ s \in full /\ s \notin old
  /\ at = "claim" => IF s \in Sells THEN usdc[s] # "none" /\ terms[s] = "agreed" ELSE said[s] = "agreed"

Kinds == {"sellEvm", "sellSol", "buyEvm", "buySol"}
Steps == {"idle", "closed", "lock", "intent", "submit", "poll", "claim"}
Typed == TypeOK /\ kind \in [Swaps -> Kinds] /\ at \in Steps /\ cur \in Swaps \cup {None} /\ old \subseteq Swaps

SwapInv ==
  /\ Typed /\ RevealsForALock
  /\ \A s \in Swaps : OfSwap(s)
  /\ cur # None => AtAwait(cur)

(* A step leaves a swap alone, but for what others may add.                *)
Same(t) ==
  /\ terms'[t] = terms[t] /\ said'[t] = said[t]
  /\ gbx'[t] = gbx[t] /\ usdc'[t] = usdc[t] /\ lp'[t] = lp[t] /\ told'[t] = told[t]
  /\ (udue[t] => udue'[t]) /\ (t \in full' <=> t \in full) /\ (t \in old' <=> t \in old)
  /\ (t \in rows' <=> t \in rows) /\ rows \subseteq rows' /\ excused \subseteq excused'
  /\ (cur = t => cur' = t)

LEMMA LeftAlone ==
  ASSUME SwapInv, kind' = kind, NEW t \in Swaps, Same(t) PROVE OfSwap(t)'
<1>1. LpTrue(t) /\ Untried(t) /\ Kept(t) /\ Honest(t) /\ (t \in rows => t \notin full)
  BY DEF SwapInv, OfSwap
<1>2. Own(t)' = Own(t) /\ Other(t)' = Other(t) /\ (t \in Sells <=> t \in Sells') /\ (t \in Buys <=> t \in Buys')
  BY DEF Own, Other, Sells, Buys, Same
<1>3. LpTrue(t)'
  BY <1>1, <1>2 DEF LpTrue, Same
<1>4. Untried(t)'
  BY <1>1 DEF Untried, Same
<1>5. (Lost(t) => Lost(t)') /\ (Paid(t)' <=> Paid(t))
  BY <1>2 DEF Lost, Same, Paid
<1>6. Kept(t)'
  BY <1>1, <1>2, <1>5 DEF Kept, Same
<1>7. Honest(t)'
  BY <1>1, <1>2 DEF Honest, Same
<1> QED
  BY <1>1, <1>3, <1>4, <1>6, <1>7 DEF OfSwap, Same

LEMMA AwaitLeftAlone ==
  ASSUME SwapInv, kind' = kind, NEW t \in Swaps, Same(t), cur = t, at' = at PROVE AtAwait(t)'
<1>1. AtAwait(t)
  BY SwapAssumption DEF SwapInv
<1>2. Own(t)' = Own(t) /\ Other(t)' = Other(t) /\ (t \in Sells <=> t \in Sells')
  BY DEF Own, Other, Sells, Same
<1> QED
  BY <1>1, <1>2 DEF AtAwait, Same

(* A step of one swap: what it must show of that one.                      *)
LEMMA OneSwap ==
  ASSUME SwapInv, kind' = kind, NEW s \in Swaps, Typed', RevealsForALock', OfSwap(s)',
         \A t \in Swaps : t # s => Same(t),
         cur' = s => AtAwait(s)',
         cur' # s /\ cur' # None => cur' = cur /\ at' = at
  PROVE  SwapInv'
<1>1. ASSUME NEW t \in Swaps PROVE OfSwap(t)'
  BY LeftAlone
<1>2. ASSUME cur' # None PROVE AtAwait(cur)'
  <2>1. PICK t : t = cur'
    OBVIOUS
  <2>2. t \in Swaps
    BY <1>2, <2>1 DEF Typed
  <2>3. ASSUME t = s PROVE AtAwait(t)'
    BY <2>1, <2>3
  <2>4. ASSUME t # s PROVE AtAwait(t)'
    <3>1. cur = t /\ at' = at /\ Same(t)
      BY <1>2, <2>1, <2>2, <2>4
    <3> QED
      BY <2>2, <3>1, AwaitLeftAlone
  <2>5. AtAwait(t)'
    BY <2>3, <2>4
  <2> QED
    BY <2>1, <2>5 DEF AtAwait, Other, Sells
<1> QED
  BY <1>1, <1>2 DEF SwapInv

LpStates == {"unknown", "intent", "rejected", "failed", "locked", "refunded", "completed"}
Words == {"none", "done", "failed", "cut"}

(* The types, one by one.                                                  *)
LEMMA Types ==
  ASSUME SwapInv
  PROVE  /\ gbx \in [Swaps -> LockStates] /\ usdc \in [Swaps -> LockStates]
         /\ terms \in [Swaps -> Terms] /\ said \in [Swaps -> Terms \cup {"none"}]
         /\ gdue \in [Swaps -> BOOLEAN] /\ udue \in [Swaps -> BOOLEAN]
         /\ lp \in [Swaps -> LpStates] /\ told \in [Swaps -> Words]
         /\ full \subseteq Swaps /\ back \subseteq Sells /\ rows \subseteq Sells /\ old \subseteq Swaps
         /\ kind \in [Swaps -> Kinds] /\ at \in Steps /\ cur \in Swaps \cup {None}
         /\ (at \in {"idle", "closed"} <=> cur = None) /\ mishaps \in 0..MaxMishaps
BY DEF SwapInv, Typed, TypeOK, LpStates, Words

LEMMA Kind ==
  ASSUME SwapInv, NEW s \in Swaps
  PROVE  /\ s \in Sells <=> kind[s] = "sellEvm" \/ kind[s] = "sellSol"
         /\ s \in Buys <=> kind[s] = "buyEvm" \/ kind[s] = "buySol"
         /\ s \in Buys <=> s \notin Sells
<1>1. kind[s] \in Kinds
  BY Types
<1> QED
  BY <1>1 DEF Sells, Buys, Kinds

LEMMA SameKind == ASSUME kind' = kind PROVE Sells' = Sells /\ Buys' = Buys
BY DEF Sells, Buys

LEMMA Mishaps ==
  ASSUME SwapInv, Mishap \/ Fine PROVE mishaps' \in 0..MaxMishaps
<1>1. mishaps \in 0..MaxMishaps
  BY Types
<1> QED
  BY <1>1, SwapAssumption DEF Mishap, Fine

USE DEF Go, End, Fails, Stored, Locks, deal, locks, device, page, history

LEMMA StartStep == ASSUME SwapInv, NEW s \in Swaps, Start(s) PROVE SwapInv'
<1>1. OfSwap(s) /\ told[s] = "none" /\ cur = None /\ cur # s /\ kind' = kind
  BY Types, SwapAssumption DEF SwapInv, Start
<1>2. gbx[s] = "none" /\ usdc[s] = "none" /\ lp[s] = "unknown" /\ s \notin full /\ s \notin rows /\ s \notin old
  BY <1>1 DEF OfSwap, Untried
<1>3. Typed'
  <2>1. mishaps' \in 0..MaxMishaps
    BY Mishaps DEF Start
  <2>2. /\ at' \in Steps /\ cur' \in Swaps \cup {None} /\ (at' \in {"idle", "closed"} <=> cur' = None)
        /\ full' \subseteq Swaps
    BY Types, SwapAssumption DEF Start, Steps
  <2> QED
    BY <1>1, <2>1, <2>2, SameKind, Types DEF Typed, TypeOK, Start, LpStates, Words
<1>4. RevealsForALock'
  BY <1>1, SameKind DEF SwapInv, RevealsForALock, Start
<1>5. OfSwap(s)'
  BY <1>1, <1>2, SameKind, Kind DEF OfSwap, LpTrue, Untried, Kept, Lost, Honest, Paid, Start, Own, Other
<1>6. \A t \in Swaps : t # s => Same(t)
  BY <1>1, SwapAssumption DEF Same, Start
<1>7. AtAwait(s)'
  BY <1>1, <1>2, SameKind, Kind DEF AtAwait, Start
<1> QED
  BY <1>1, <1>3, <1>4, <1>5, <1>6, <1>7, OneSwap DEF Start

LEMMA LockGbxStep == ASSUME SwapInv, LockGbx PROVE SwapInv'
<1>1. PICK s : s = cur
  OBVIOUS
<1>2. s \in Swaps /\ cur # None /\ kind' = kind /\ cur = s
  BY <1>1, Types DEF LockGbx
<1>3. AtAwait(s) /\ OfSwap(s)
  BY <1>2 DEF SwapInv
<1>4. s \in Sells /\ gbx[s] = "none" /\ lp[s] = "unknown" /\ usdc[s] = "none" /\ s \notin full /\ s \notin rows
  BY <1>2, <1>3 DEF AtAwait, LockGbx, OfSwap, LpTrue
<1>5. Typed'
  <2>1. mishaps' \in 0..MaxMishaps
    BY Mishaps DEF LockGbx, Unheard
  <2>2. gbx' \in [Swaps -> LockStates]
    BY Types DEF LockGbx, Unheard, LockStates
  <2>3. told' \in [Swaps -> Words]
    BY Types DEF LockGbx, Unheard, Words
  <2>4. /\ at' \in Steps /\ cur' \in Swaps \cup {None} /\ (at' \in {"idle", "closed"} <=> cur' = None)
        /\ full' \subseteq Swaps
    BY <1>2, Types DEF LockGbx, Unheard, Steps
  <2> QED
    BY <1>2, <2>1, <2>2, <2>3, <2>4, SameKind, Types DEF Typed, TypeOK, LockGbx, LpStates, Words
<1>6. RevealsForALock'
  BY <1>2, SameKind DEF SwapInv, RevealsForALock, LockGbx
<1>7. OfSwap(s)'
  <2>1. /\ usdc' = usdc /\ lp' = lp /\ terms' = terms /\ said' = said /\ rows' = rows /\ gbx'[s] \in {"none", "locked"}
        /\ cur' = s \/ told'[s] # "none"
        /\ told'[s] # "done" /\ s \in Sells'
    <3>1. told[s] # "done" /\ (told' = told \/ told' = [told EXCEPT ![s] = "failed"])
      BY <1>2, <1>3, <1>4 DEF LockGbx, Unheard, OfSwap, Honest, Other
    <3>2. told'[s] # "done" /\ (cur' = s \/ told'[s] = "failed")
      BY <1>2, <3>1, Types DEF LockGbx, Unheard
    <3> QED
      BY <1>2, <1>4, <3>2, Types, SameKind DEF LockGbx, Unheard
  <2>2. LpTrue(s)' /\ Untried(s)' /\ Honest(s)'
    BY <1>2, <1>3, <1>4, <2>1 DEF OfSwap, LpTrue, Untried, Honest
  <2>3. Own(s)' = "locked" => s \in full' \/ <<s, "no answer">> \in excused'
    BY <1>2, <1>4, <2>1, Types DEF LockGbx, Unheard, Excuse, Own
  <2> QED
    BY <1>4, <2>1, <2>2, <2>3 DEF OfSwap, Kept, Lost
<1>8. \A t \in Swaps : t # s => Same(t)
  <2>1. ASSUME NEW t \in Swaps, t # s
        PROVE  gbx'[t] = gbx[t] /\ told'[t] = told[t] /\ (t \in full' <=> t \in full)
    BY <1>2, <2>1, Types DEF LockGbx, Unheard
  <2>2. excused \subseteq excused' /\ UNCHANGED <<terms, said, usdc, lp, udue, old, rows>>
    BY DEF LockGbx, Unheard, Excuse
  <2> QED
    BY <1>2, <2>1, <2>2 DEF Same
<1>9. cur' = s => AtAwait(s)'
  BY <1>2, <1>4, SameKind DEF AtAwait, LockGbx, Unheard
<1> QED
  BY <1>2, <1>5, <1>6, <1>7, <1>8, <1>9, OneSwap DEF LockGbx, Unheard

LEMMA IntentStep == ASSUME SwapInv, SellIntent \/ BuyIntent PROVE SwapInv'
<1>1. PICK s : s = cur
  OBVIOUS
<1>2. s \in Swaps /\ cur # None /\ kind' = kind /\ cur = s /\ at = "intent"
  BY <1>1, Types DEF SellIntent, BuyIntent
<1>3. AtAwait(s) /\ OfSwap(s)
  BY <1>2 DEF SwapInv
<1>4. lp[s] = "unknown" /\ (s \in Sells => usdc[s] = "none") /\ (s \notin Sells => gbx[s] = "none")
  BY <1>2, <1>3 DEF AtAwait, OfSwap, LpTrue
<1>5. Typed'
  <2>1. mishaps' \in 0..MaxMishaps
    BY Mishaps DEF SellIntent, BuyIntent, Refused, IntentLost
  <2>2. lp' \in [Swaps -> LpStates]
    BY Types DEF SellIntent, BuyIntent, Refused, IntentLost, LpStates
  <2>3. told' \in [Swaps -> Words]
    BY Types DEF SellIntent, BuyIntent, Refused, IntentLost, Words
  <2>4. at' \in Steps /\ cur' \in Swaps \cup {None} /\ (at' \in {"idle", "closed"} <=> cur' = None)
    BY <1>2, Types DEF SellIntent, BuyIntent, Refused, IntentLost, Steps
  <2> QED
    BY <1>2, <2>1, <2>2, <2>3, <2>4, SameKind, Types
    DEF Typed, TypeOK, SellIntent, BuyIntent, Refused, IntentLost, LpStates, Words
<1>6. RevealsForALock'
  BY <1>2, SameKind DEF SwapInv, RevealsForALock, SellIntent, BuyIntent
<1>7. OfSwap(s)'
  BY <1>2, <1>3, <1>4, Types, SameKind, Kind
  DEF OfSwap, LpTrue, Untried, Kept, Lost, Honest, Paid, Own, Other, SellIntent, BuyIntent, Refused, IntentLost
<1>8. \A t \in Swaps : t # s => Same(t)
  BY <1>2, Types DEF Same, SellIntent, BuyIntent, Refused, IntentLost
<1>9. cur' = s => AtAwait(s)'
  BY <1>2, <1>4, SwapAssumption DEF AtAwait, SellIntent, BuyIntent, Refused, IntentLost
<1> QED
  BY <1>2, <1>5, <1>6, <1>7, <1>8, <1>9, OneSwap DEF SellIntent, BuyIntent, Refused, IntentLost

LEMMA SubmitStep == ASSUME SwapInv, Submit PROVE SwapInv'
<1>1. PICK s : s = cur
  OBVIOUS
<1>2. s \in Swaps /\ cur # None /\ kind' = kind /\ cur = s /\ at = "submit"
  BY <1>1, Types DEF Submit
<1>3. AtAwait(s) /\ OfSwap(s)
  BY <1>2 DEF SwapInv
<1>4. /\ lp[s] = "unknown" /\ gbx[s] = "none" /\ usdc[s] = "none" /\ kind[s] = "buySol" /\ s \notin Sells
      /\ s \in full /\ s \notin rows
  BY <1>2, <1>3, Kind DEF AtAwait, OfSwap, LpTrue
<1>5. ~LockedAtHashlock(s)
  BY <1>4 DEF LockedAtHashlock
<1>6. Typed'
  <2>1. mishaps' \in 0..MaxMishaps
    BY Mishaps DEF Submit
  <2>2. lp' \in [Swaps -> LpStates] /\ usdc' \in [Swaps -> LockStates]
    BY Types DEF Submit, LpStates, LockStates
  <2>3. told' \in [Swaps -> Words]
    BY <1>2, <1>5, Types DEF Submit, SubmitError, Words
  <2>4. /\ at' \in Steps /\ cur' \in Swaps \cup {None} /\ (at' \in {"idle", "closed"} <=> cur' = None)
        /\ full' \subseteq Swaps
    BY <1>2, <1>5, Types DEF Submit, SubmitError, Steps
  <2> QED
    BY <1>2, <2>1, <2>2, <2>3, <2>4, SameKind, Types DEF Typed, TypeOK, Submit, LpStates, Words
<1>7. RevealsForALock'
  BY <1>2, SameKind DEF SwapInv, RevealsForALock, Submit
<1>8. OfSwap(s)'
  BY <1>2, <1>3, <1>4, <1>5, Types, SameKind, Kind
  DEF OfSwap, LpTrue, Untried, Kept, Lost, Honest, Paid, Own, Other, Submit, SubmitError
<1>9. \A t \in Swaps : t # s => Same(t)
  BY <1>2, <1>5, Types DEF Same, Submit, SubmitError
<1>10. cur' = s => AtAwait(s)'
  BY <1>2, <1>5, SwapAssumption DEF AtAwait, Submit, SubmitError
<1> QED
  BY <1>2, <1>5, <1>6, <1>7, <1>8, <1>9, <1>10, OneSwap DEF Submit, SubmitError

LEMMA PollStep == ASSUME SwapInv, Poll PROVE SwapInv'
<1>1. PICK s : s = cur
  OBVIOUS
<1>2. s \in Swaps /\ cur # None /\ kind' = kind /\ cur = s /\ at = "poll"
  BY <1>1, Types DEF Poll
<1>3. OfSwap(s)
  BY <1>2 DEF SwapInv
<1>4. Sees => IF s \in Sells THEN usdc[s] # "none" /\ terms[s] = "agreed" ELSE said[s] = "agreed"
  <2>1. kind[s] \in Kinds /\ terms[s] \in Terms /\ said[s] \in Terms \cup {"none"}
    BY <1>2, Types
  <2>2. s \notin Sells /\ lp[s] = "locked" => said[s] # "none"
    BY <1>3 DEF OfSwap, LpTrue
  <2> QED
    BY <1>2, <2>1, <2>2, Kind DEF Sees, Verified, Terms, Kinds
<1>5. Typed'
  <2>1. mishaps' \in 0..MaxMishaps
    BY Mishaps DEF Poll
  <2>2. told' \in [Swaps -> Words]
    BY Types DEF Poll, Words
  <2>3. at' \in Steps /\ cur' \in Swaps \cup {None} /\ (at' \in {"idle", "closed"} <=> cur' = None)
    BY <1>2, Types DEF Poll, Steps
  <2> QED
    BY <1>2, <2>1, <2>2, <2>3, SameKind, Types DEF Typed, TypeOK, Poll, LpStates, Words
<1>6. RevealsForALock'
  BY <1>2, SameKind DEF SwapInv, RevealsForALock, Poll
<1>7. OfSwap(s)'
  BY <1>2, <1>3, Types, SameKind, Kind DEF OfSwap, LpTrue, Untried, Kept, Lost, Honest, Paid, Own, Other, Poll
<1>8. \A t \in Swaps : t # s => Same(t)
  BY <1>2, Types DEF Same, Poll
<1>9. cur' = s => AtAwait(s)'
  BY <1>2, <1>4, SameKind, SwapAssumption DEF AtAwait, Poll
<1> QED
  BY <1>2, <1>5, <1>6, <1>7, <1>8, <1>9, OneSwap DEF Poll

(* The user's claim, at the end of the flow or from a card.                *)
LEMMA SwapSettles ==
  ASSUME SwapInv, kind' = kind, NEW s \in Swaps, Settle(s)
  PROVE  /\ gbx' \in [Swaps -> LockStates] /\ usdc' \in [Swaps -> LockStates]
         /\ \A t \in Swaps : t # s => gbx'[t] = gbx[t] /\ usdc'[t] = usdc[t]
         /\ Own(s)' = Own(s)
         /\ Other(s) = "locked" /\ Opens(s) => Other(s)' = "claimed"
         /\ ~(Other(s) = "locked" /\ Opens(s)) => Other(s)' = Other(s)
<1>1. s \in Sells' <=> s \in Sells
  BY SameKind
<1> QED
  BY <1>1, Types, Kind DEF Settle, LockStates, Own, Other, Opens

LEMMA Revealed ==
  ASSUME SwapInv, kind' = kind, NEW s \in Swaps, NEW way, Reveal(s, way),
         \/ s \in Sells /\ way = "page" /\ usdc[s] # "none" /\ terms[s] = "agreed"
         \/ kind[s] = "sellEvm" /\ way = "card"
         \/ kind[s] = "sellSol" /\ way = "card" /\ usdc[s] = "locked" /\ terms[s] # "foreign"
         \/ s \in Buys /\ said[s] = "agreed"
         \/ kind[s] = "buySol" /\ way = "card" /\ said[s] = "short"
  PROVE  RevealsForALock'
<1>1. Other(s) \in LockStates /\ terms[s] \in Terms
  BY Types DEF Other
<1>2. PICK e : e = [swap |-> s, way |-> way, lock |-> Other(s), terms |-> terms[s], said |-> said[s]]
  OBVIOUS
<1>3. early' = early \/ (early' = early \cup {e} /\ ~(Other(s) \in {"locked", "claimed"} /\ terms[s] = "agreed" /\ Opens(s)))
  BY <1>2 DEF Reveal
<1>4. e.swap = s /\ e.way = way /\ e.lock = Other(s) /\ e.terms = terms[s] /\ e.said = said[s]
  BY <1>2
<1>5. s \in Sells => Other(s) = usdc[s] /\ Opens(s)
  BY DEF Other, Opens
<1>6. \A d \in early : RevealsForALock!(d)
  BY DEF SwapInv, RevealsForALock
<1>7. Buys' = Buys
  BY SameKind
<1>8. early' = early \cup {e} =>
        \/ kind[s] = "sellEvm" /\ (way = "card" \/ (Other(s) = "refunded" /\ terms[s] = "agreed"))
        \/ kind[s] = "sellSol" /\ Other(s) = "refunded" /\ terms[s] = "agreed" /\ way = "page"
        \/ kind[s] = "sellSol" /\ Other(s) = "locked" /\ terms[s] = "short" /\ way = "card"
        \/ s \in Buys /\ said[s] = "agreed"
        \/ kind[s] = "buySol" /\ said[s] = "short" /\ way = "card"
        \/ early' = early
  BY <1>1, <1>3, <1>5, Kind DEF LockStates, Terms
<1> QED
  BY <1>3, <1>4, <1>6, <1>7, <1>8 DEF RevealsForALock

LEMMA ClaimStep == ASSUME SwapInv, Claim PROVE SwapInv'
<1>1. PICK s : s = cur
  OBVIOUS
<1>2. s \in Swaps /\ cur # None /\ kind' = kind /\ cur = s /\ at = "claim"
  BY <1>1, Types DEF Claim
<1>3. AtAwait(s) /\ OfSwap(s)
  BY <1>2 DEF SwapInv
<1>4. /\ IF s \in Sells THEN usdc[s] # "none" /\ terms[s] = "agreed" ELSE said[s] = "agreed"
      /\ Other(s) \in LockStates /\ (s \in Sells => Other(s) = usdc[s] /\ Opens(s))
      /\ (Opens(s) => terms[s] = "agreed")
  BY <1>2, <1>3, Types DEF AtAwait, Other, Opens
<1>5. Settle(s) \/ UNCHANGED <<gbx, usdc>>
  BY <1>2 DEF Claim
<1>6. Typed'
  <2>1. mishaps' \in 0..MaxMishaps
    BY Mishaps DEF Claim
  <2>2. gbx' \in [Swaps -> LockStates] /\ usdc' \in [Swaps -> LockStates]
    BY <1>2, <1>5, SwapSettles, Types
  <2>3. told' \in [Swaps -> Words]
    BY Types DEF Claim, Done, Words
  <2>4. /\ at' \in Steps /\ cur' \in Swaps \cup {None} /\ (at' \in {"idle", "closed"} <=> cur' = None)
        /\ full' \subseteq Swaps
    BY <1>2, Types DEF Claim, Done, Steps
  <2>5. rows' \subseteq Sells
    BY <1>2, Types, Kind DEF Claim
  <2> QED
    BY <1>2, <2>1, <2>2, <2>3, <2>4, <2>5, SameKind, Types DEF Typed, TypeOK, Claim, LpStates, Words
<1>7. RevealsForALock'
  <2>1. s \in Sells \/ s \in Buys
    BY <1>2 DEF Buys
  <2> QED
    BY <1>2, <1>4, <2>1, Revealed DEF Claim
<1>8. /\ Own(s)' = Own(s)
      /\ Other(s)' = Other(s) \/ (Other(s) = "locked" /\ Opens(s) /\ Other(s)' = "claimed")
      /\ Settle(s) /\ Other(s) = "locked" /\ Opens(s) => Other(s)' = "claimed"
      /\ terms' = terms /\ said' = said
  BY <1>2, <1>4, <1>5, SwapSettles, SameKind DEF Own, Other, Claim
<1>9. OfSwap(s)'
  <2>1. LpTrue(s)'
    BY <1>2, <1>3, <1>4, <1>8, SameKind, Kind DEF OfSwap, LpTrue, Claim, Own, Other
  <2>2. told'[s] # "none" /\ (s \in rows' => s \notin full')
    BY <1>2, <1>3, Types, SwapAssumption DEF OfSwap, Claim, Done
  <2>3. ASSUME Own(s)' = "locked", ~Paid(s)' PROVE s \in full' \/ kind'[s] = "buyEvm" \/ Lost(s)'
    <3>1. Own(s) = "locked" /\ ~Paid(s)
      BY <1>4, <1>8, <2>3 DEF Paid
    <3>2. s \in full \/ kind[s] = "buyEvm" \/ Lost(s)
      BY <1>3, <3>1 DEF OfSwap, Kept
    <3>3. Lost(s) => Lost(s)'
      BY <1>2, <1>4, <1>8, Kind, SameKind DEF Lost, Claim, Excuse, Other
    <3>4. ~(Other(s) = "locked" /\ Opens(s) /\ Settle(s))
      BY <1>4, <1>8, <2>3 DEF Paid
    <3>5. full' = full \/ (kind[s] = "sellEvm" /\ Other(s) = "refunded" /\ <<s, "reverted">> \in excused')
      <4>1. kind[s] = "sellEvm" => Other(s) \in {"locked", "refunded"} /\ Opens(s)
        BY <1>2, <1>4, <3>1, Kind DEF LockStates, Paid
      <4> QED
        BY <1>2, <3>4, <4>1 DEF Claim, Claims, Done, Excuse
    <3> QED
      BY <1>2, <1>4, <1>8, <3>1, <3>2, <3>3, <3>5, Kind, SameKind DEF Lost, Other
  <2>4. Honest(s)'
    <3>1. kind[s] = "sellEvm" => Other(s) \in {"locked", "refunded", "claimed"} /\ Opens(s)
      BY <1>2, <1>4, Kind DEF LockStates
    <3>2. told'[s] = "done" => Claims /\ Settle(s)
      BY <1>2, Types DEF Claim, Done
    <3> QED
      BY <1>2, <1>3, <1>4, <1>8, <3>1, <3>2, SameKind, Kind DEF OfSwap, LpTrue, Honest, Claim, Claims, Other
  <2> QED
    BY <2>1, <2>2, <2>3, <2>4 DEF OfSwap, Untried, Kept
<1>10. \A t \in Swaps : t # s => Same(t)
  <2>1. \A t \in Swaps : t # s => gbx'[t] = gbx[t] /\ usdc'[t] = usdc[t]
    BY <1>2, <1>5, SwapSettles
  <2> QED
    BY <1>2, <2>1, Types DEF Same, Claim, Done, Excuse
<1>11. cur' = None
  BY <1>2 DEF Claim, Done
<1> QED
  BY <1>2, <1>6, <1>7, <1>9, <1>10, <1>11, OneSwap

(* A step of none of the swaps.                                            *)
LEMMA NoSwap ==
  ASSUME SwapInv, kind' = kind, Typed', RevealsForALock', \A t \in Swaps : Same(t), cur' # None => cur' = cur /\ at' = at
  PROVE  SwapInv'
<1>1. \A t \in Swaps : OfSwap(t)'
  BY LeftAlone
<1>2. ASSUME cur' # None PROVE AtAwait(cur)'
  <2>1. PICK t : t = cur'
    OBVIOUS
  <2>2. t \in Swaps /\ cur = t /\ at' = at /\ Same(t)
    BY <1>2, <2>1 DEF Typed
  <2>3. AtAwait(t)'
    BY <2>2, AwaitLeftAlone
  <2> QED
    BY <2>1, <2>3 DEF AtAwait, Other, Sells
<1> QED
  BY <1>1, <1>2 DEF SwapInv

LEMMA CloseStep == ASSUME SwapInv, Close PROVE SwapInv'
<1>1. kind' = kind /\ cur' = None
  BY DEF Close
<1>2. Typed'
  <2>1. mishaps' \in 0..MaxMishaps
    BY Mishaps DEF Close
  <2>2. gbx' \in [Swaps -> LockStates] /\ usdc' \in [Swaps -> LockStates] /\ lp' \in [Swaps -> LpStates]
    BY Types DEF Close, LockStates, LpStates
  <2>3. told' \in [Swaps -> Words]
    BY Types DEF Close, Words
  <2>4. /\ at' \in Steps /\ cur' \in Swaps \cup {None} /\ (at' \in {"idle", "closed"} <=> cur' = None)
    BY Types DEF Close, Steps
  <2> QED
    BY <1>1, <2>1, <2>2, <2>3, <2>4, SameKind, Types DEF Typed, TypeOK, Close, LpStates, Words
<1>3. RevealsForALock'
  BY SameKind DEF SwapInv, RevealsForALock, Close
<1>4. CASE cur = None
  <2>1. at = "idle"
    BY <1>4, Types DEF Close
  <2>2. \A t \in Swaps : Same(t)
    BY <1>4, <2>1, SwapAssumption DEF Same, Close
  <2> QED
    BY <1>1, <1>2, <1>3, <2>2, NoSwap
<1>5. ASSUME cur # None PROVE SwapInv'
  <2>1. PICK s : s = cur
    OBVIOUS
  <2>2. s \in Swaps /\ cur = s /\ at # "idle" /\ AtAwait(s) /\ OfSwap(s)
    BY <1>5, <2>1, Types DEF SwapInv
  <2>3. told'[s] = "cut"
    BY <2>2, Types DEF Close
  <2>4. OfSwap(s)'
    BY <1>1, <2>2, <2>3, Types, SameKind, Kind DEF Close, Excuse, AtAwait, OfSwap, LpTrue, Untried, Kept, Lost, Honest, Paid, Own, Other
  <2>5. \A t \in Swaps : t # s => Same(t)
    BY <2>2, Types DEF Same, Close, Excuse
  <2> QED
    BY <1>1, <1>2, <1>3, <2>2, <2>4, <2>5, SwapAssumption, OneSwap
<1> QED
  BY <1>4, <1>5

LEMMA OpenStep == ASSUME SwapInv, Open PROVE SwapInv'
<1>1. kind' = kind /\ cur' = cur /\ cur = None
  BY Types DEF Open
<1>2. Typed'
  <2>1. mishaps' \in 0..MaxMishaps
    BY Mishaps DEF Open
  <2>2. back' \subseteq Sells /\ at' \in Steps
    BY Types DEF Open, Steps
  <2> QED
    BY <1>1, <2>1, <2>2, SameKind, Types DEF Typed, TypeOK, Open, LpStates, Words
<1>3. RevealsForALock'
  BY SameKind DEF SwapInv, RevealsForALock, Open
<1>4. \A t \in Swaps : Same(t)
  BY DEF Same, Open
<1> QED
  BY <1>1, <1>2, <1>3, <1>4, NoSwap
-----------------------------------------------------------------------------
(* The cards.                                                              *)
USE DEF Keeps, Answer, Unanswered

LEMMA TidySoldStep == ASSUME SwapInv, NEW s \in Swaps, TidySold(s) PROVE SwapInv'
<1>1. kind' = kind /\ s \in Sells /\ OfSwap(s) /\ cur' = cur /\ at' = at
  BY DEF SwapInv, TidySold
<1>2. Typed'
  <2>1. mishaps' \in 0..MaxMishaps
    BY Mishaps DEF TidySold
  <2>2. full' \subseteq Swaps /\ back' \subseteq Sells
    BY Types DEF TidySold, Drop
  <2> QED
    BY <1>1, <2>1, <2>2, SameKind, Types DEF Typed, TypeOK, TidySold, LpStates, Words
<1>3. RevealsForALock'
  BY SameKind DEF SwapInv, RevealsForALock, TidySold
<1>4. OfSwap(s)'
  BY <1>1, Types, SameKind, Kind DEF TidySold, Drop, Excuse, OfSwap, LpTrue, Untried, Kept, Lost, Honest, Paid, Own, Other
<1>5. \A t \in Swaps : t # s => Same(t)
  BY <1>1, Types DEF Same, TidySold, Drop, Excuse
<1>6. cur' = s => AtAwait(s)'
  BY <1>1, SameKind, Kind, SwapAssumption DEF SwapInv, AtAwait, TidySold, Drop, Other
<1> QED
  BY <1>1, <1>2, <1>3, <1>4, <1>5, <1>6, OneSwap

LEMMA TidyOrphanStep == ASSUME SwapInv, NEW s \in Swaps, TidyOrphan(s) PROVE SwapInv'
<1>1. kind' = kind /\ s \in Sells /\ OfSwap(s) /\ gbx[s] # "locked" /\ cur' = cur /\ at' = at
  BY DEF SwapInv, TidyOrphan, LiveUtxo
<1>2. Typed'
  <2>1. mishaps' \in 0..MaxMishaps
    BY Mishaps DEF TidyOrphan
  <2>2. full' \subseteq Swaps
    BY Types DEF TidyOrphan
  <2> QED
    BY <1>1, <2>1, <2>2, SameKind, Types DEF Typed, TypeOK, TidyOrphan, LpStates, Words
<1>3. RevealsForALock'
  BY SameKind DEF SwapInv, RevealsForALock, TidyOrphan
<1>4. OfSwap(s)'
  BY <1>1, Types, SameKind, Kind DEF TidyOrphan, OfSwap, LpTrue, Untried, Kept, Lost, Honest, Paid, Own, Other
<1>5. \A t \in Swaps : t # s => Same(t)
  BY <1>1, Types DEF Same, TidyOrphan
<1>6. cur' = s => AtAwait(s)'
  BY <1>1, SameKind, Kind, SwapAssumption DEF SwapInv, AtAwait, TidyOrphan, Other
<1> QED
  BY <1>1, <1>2, <1>3, <1>4, <1>5, <1>6, OneSwap

LEMMA RefundSellStep == ASSUME SwapInv, NEW s \in Swaps, RefundSell(s) PROVE SwapInv'
<1>1. kind' = kind /\ s \in Sells /\ OfSwap(s) /\ cur' = cur /\ at' = at
  BY DEF SwapInv, RefundSell
<1>2. gbx' \in [Swaps -> LockStates] /\ gbx'[s] # "locked" /\ (gbx[s] # "locked" => gbx' = gbx)
  BY <1>1, Types DEF RefundSell, LockStates
<1>3. Typed'
  <2>1. mishaps' \in 0..MaxMishaps
    BY Mishaps DEF RefundSell
  <2>2. full' \subseteq Swaps /\ back' \subseteq Sells
    BY Types DEF RefundSell
  <2> QED
    BY <1>1, <1>2, <2>1, <2>2, SameKind, Types DEF Typed, TypeOK, RefundSell, LpStates, Words
<1>4. RevealsForALock'
  BY SameKind DEF SwapInv, RevealsForALock, RefundSell
<1>5. OfSwap(s)'
  BY <1>1, <1>2, Types, SameKind, Kind DEF RefundSell, OfSwap, LpTrue, Untried, Kept, Lost, Honest, Paid, Own, Other
<1>6. \A t \in Swaps : t # s => Same(t)
  BY <1>1, Types DEF Same, RefundSell
<1>7. cur' = s => AtAwait(s)'
  BY <1>1, <1>2, SameKind, Kind, SwapAssumption DEF SwapInv, AtAwait, RefundSell, Other
<1> QED
  BY <1>1, <1>3, <1>4, <1>5, <1>6, <1>7, OneSwap

LEMMA ClaimSellStep == ASSUME SwapInv, NEW s \in Swaps, ClaimSell(s) PROVE SwapInv'
<1>1. kind' = kind /\ s \in Sells /\ s \in full /\ OfSwap(s) /\ cur' = cur /\ at' = at
  BY DEF SwapInv, ClaimSell
<1>2. kind[s] \in {"sellEvm", "sellSol"} /\ Other(s) = usdc[s] /\ Own(s) = gbx[s] /\ Other(s) \in LockStates
  BY <1>1, Types, Kind DEF Other, Own
<1>3. Settle(s) \/ UNCHANGED <<gbx, usdc>>
  BY DEF ClaimSell
<1>4. /\ gbx' \in [Swaps -> LockStates] /\ usdc' \in [Swaps -> LockStates]
      /\ gbx'[s] = gbx[s] /\ (usdc'[s] = usdc[s] \/ (usdc[s] = "locked" /\ usdc'[s] = "claimed"))
      /\ \A t \in Swaps : t # s => gbx'[t] = gbx[t] /\ usdc'[t] = usdc[t]
  BY <1>1, <1>2, <1>3, SwapSettles, SameKind, Types DEF Own, Other
<1> terms' = terms /\ said' = said
  BY DEF ClaimSell
<1>5. Typed'
  <2>1. mishaps' \in 0..MaxMishaps
    BY Mishaps DEF ClaimSell
  <2>2. full' \subseteq Swaps /\ rows' \subseteq Sells
    BY <1>1, Types DEF ClaimSell
  <2> QED
    BY <1>1, <1>4, <2>1, <2>2, SameKind, Types DEF Typed, TypeOK, ClaimSell, LpStates, Words
<1>6. RevealsForALock'
  BY <1>1, <1>2, Revealed DEF ClaimSell, Verified
<1>7. OfSwap(s)'
  <2>1. LpTrue(s)'
    BY <1>1, <1>2, <1>4, SameKind, Kind DEF ClaimSell, OfSwap, LpTrue, Other
  <2>2. Untried(s)' /\ (s \in rows' => s \notin full')
    BY <1>1 DEF ClaimSell, OfSwap, Untried
  <2>3. Own(s)' = gbx[s] /\ Other(s)' = usdc'[s]
    BY <1>1, <1>4, SameKind DEF Own, Other
  <2>4. ASSUME gbx[s] = "locked", ~Paid(s)' PROVE s \in full' \/ Lost(s)'
    <3>1. terms[s] = "foreign" \/ (usdc'[s] = usdc[s] /\ usdc[s] # "claimed" /\ (Settle(s) => usdc[s] # "locked"))
      BY <1>1, <1>4, <2>3, <2>4, Types DEF Settle, Paid
    <3>2. gbx[s] = "locked" /\ ~Paid(s)
      BY <1>2, <1>4, <2>3, <2>4 DEF Paid
    <3>3. \/ full' = full
          \/ kind[s] = "sellEvm" /\ usdc[s] = "refunded" /\ <<s, "reverted">> \in excused'
          \/ kind[s] = "sellEvm" /\ terms[s] = "foreign" /\ <<s, "named">> \in excused'
      BY <1>1, <1>2, <2>4, <3>1 DEF ClaimSell, Excuse, LockStates, Verified
    <3> QED
      BY <1>1, <1>4, <3>3 DEF Lost
  <2>5. Honest(s)'
    BY <1>1, <1>2, <1>4, <2>3 DEF ClaimSell, OfSwap, Honest
  <2> QED
    BY <2>1, <2>2, <2>3, <2>4, <2>5 DEF OfSwap, Kept
<1>8. \A t \in Swaps : t # s => Same(t)
  BY <1>1, <1>4, Types DEF Same, ClaimSell, Excuse
<1>9. cur' = s => AtAwait(s)'
  BY <1>1, <1>2, <1>4, SameKind, Kind, SwapAssumption DEF SwapInv, AtAwait, ClaimSell, Other
<1> QED
  BY <1>1, <1>5, <1>6, <1>7, <1>8, <1>9, OneSwap

LEMMA TidyBuyStep == ASSUME SwapInv, NEW s \in Swaps, TidyBuy(s) PROVE SwapInv'
<1>1. kind' = kind /\ s \notin Sells /\ kind[s] = "buySol" /\ s \in full /\ OfSwap(s) /\ cur' = cur /\ at' = at
  BY Kind DEF SwapInv, TidyBuy
<1>2. Typed'
  <2>1. mishaps' \in 0..MaxMishaps
    BY Mishaps DEF TidyBuy
  <2>2. full' \subseteq Swaps /\ back' \subseteq Sells
    BY Types DEF TidyBuy, Drop
  <2> QED
    BY <1>1, <2>1, <2>2, SameKind, Types DEF Typed, TypeOK, TidyBuy, LpStates, Words
<1>3. RevealsForALock'
  BY SameKind DEF SwapInv, RevealsForALock, TidyBuy
<1>4. OfSwap(s)'
  BY <1>1, Types, SameKind, Kind DEF TidyBuy, Drop, Excuse, OfSwap, LpTrue, Untried, Kept, Lost, Honest, Paid, Own, Other
<1>5. \A t \in Swaps : t # s => Same(t)
  BY <1>1, Types DEF Same, TidyBuy, Drop, Excuse
<1>6. cur' = s => AtAwait(s)'
  BY <1>1, SameKind, Kind, SwapAssumption DEF SwapInv, AtAwait, TidyBuy, Drop, Other
<1> QED
  BY <1>1, <1>2, <1>3, <1>4, <1>5, <1>6, OneSwap

LEMMA ClaimBuyStep == ASSUME SwapInv, NEW s \in Swaps, ClaimBuy(s) PROVE SwapInv'
<1>1. /\ kind' = kind /\ s \notin Sells /\ s \in Buys /\ kind[s] = "buySol" /\ s \in full /\ OfSwap(s)
      /\ said[s] \in {"agreed", "short"} /\ terms' = terms /\ said' = said /\ cur' = cur /\ at' = at
  BY Kind, Types DEF SwapInv, ClaimBuy, Verified, Terms
<1>2. Other(s) = gbx[s]
  BY <1>1 DEF Other
<1>3. Settle(s) \/ UNCHANGED <<gbx, usdc>>
  BY DEF ClaimBuy
<1>4. /\ gbx' \in [Swaps -> LockStates] /\ usdc' \in [Swaps -> LockStates]
      /\ usdc'[s] = usdc[s] /\ (gbx'[s] = gbx[s] \/ (gbx[s] = "locked" /\ gbx'[s] = "claimed"))
      /\ (Settle(s) /\ gbx[s] = "locked" /\ Opens(s) => gbx'[s] = "claimed" /\ terms[s] # "foreign")
      /\ \A t \in Swaps : t # s => gbx'[t] = gbx[t] /\ usdc'[t] = usdc[t]
  BY <1>1, <1>2, <1>3, SwapSettles, SameKind, Types DEF Own, Other, Opens
<1>5. Typed'
  <2>1. mishaps' \in 0..MaxMishaps
    BY Mishaps DEF ClaimBuy
  <2>2. full' \subseteq Swaps
    BY <1>1, Types DEF ClaimBuy
  <2> QED
    BY <1>1, <1>4, <2>1, <2>2, SameKind, Types DEF Typed, TypeOK, ClaimBuy, LpStates, Words
<1>6. RevealsForALock'
  BY <1>1, <1>2, Revealed DEF ClaimBuy
<1>7. OfSwap(s)'
  BY <1>1, <1>2, <1>4, Types, SameKind, Kind DEF ClaimBuy, OfSwap, LpTrue, Untried, Kept, Lost, Honest, Paid, Own, Other
<1>8. \A t \in Swaps : t # s => Same(t)
  BY <1>1, <1>4, Types DEF Same, ClaimBuy
<1>9. cur' = s => AtAwait(s)'
  BY <1>1, <1>2, <1>4, SameKind, Kind, SwapAssumption DEF SwapInv, AtAwait, ClaimBuy, Other
<1> QED
  BY <1>1, <1>5, <1>6, <1>7, <1>8, <1>9, OneSwap

LEMMA RefundBuyStep == ASSUME SwapInv, NEW s \in Swaps, RefundBuy(s) PROVE SwapInv'
<1>1. kind' = kind /\ s \notin Sells /\ kind[s] = "buySol" /\ s \in full /\ OfSwap(s) /\ cur' = cur /\ at' = at
  BY Kind DEF SwapInv, RefundBuy
<1>2. Typed'
  <2>1. mishaps' \in 0..MaxMishaps
    BY Mishaps DEF RefundBuy
  <2>2. full' \subseteq Swaps /\ usdc' \in [Swaps -> LockStates]
    BY Types DEF RefundBuy, LockStates
  <2> QED
    BY <1>1, <2>1, <2>2, SameKind, Types DEF Typed, TypeOK, RefundBuy, LpStates, Words
<1>3. RevealsForALock'
  BY SameKind DEF SwapInv, RevealsForALock, RefundBuy
<1>4. OfSwap(s)'
  BY <1>1, Types, SameKind, Kind DEF RefundBuy, OfSwap, LpTrue, Untried, Kept, Lost, Honest, Paid, Own, Other
<1>5. \A t \in Swaps : t # s => Same(t)
  BY <1>1, Types DEF Same, RefundBuy
<1>6. cur' = s => AtAwait(s)'
  BY <1>1, SameKind, Kind, SwapAssumption DEF SwapInv, AtAwait, RefundBuy, Other
<1> QED
  BY <1>1, <1>2, <1>3, <1>4, <1>5, <1>6, OneSwap
-----------------------------------------------------------------------------
(* Time and the LP, and the whole.                                         *)
LEMMA AgesStep == ASSUME SwapInv, NEW s \in Swaps, Ages(s) PROVE SwapInv'
<1>1. kind' = kind /\ OfSwap(s) /\ cur' = cur /\ at' = at
  BY DEF SwapInv, Ages
<1>2. Typed'
  <2>1. mishaps' \in 0..MaxMishaps
    BY Mishaps DEF Ages
  <2>2. old' \subseteq Swaps /\ gdue' \in [Swaps -> BOOLEAN] /\ udue' \in [Swaps -> BOOLEAN]
    BY Types DEF Ages
  <2> QED
    BY <1>1, <2>1, <2>2, SameKind, Types DEF Typed, TypeOK, Ages, LpStates, Words
<1>3. RevealsForALock'
  BY SameKind DEF SwapInv, RevealsForALock, Ages
<1>4. OfSwap(s)'
  BY <1>1, Types, SameKind, Kind DEF Ages, OfSwap, LpTrue, Untried, Kept, Lost, Honest, Paid, Own, Other
<1>5. \A t \in Swaps : t # s => Same(t)
  BY <1>1, Types DEF Same, Ages
<1>6. cur' = s => AtAwait(s)'
  BY <1>1, SameKind, Kind, SwapAssumption DEF SwapInv, AtAwait, Ages, Other
<1> QED
  BY <1>1, <1>2, <1>3, <1>4, <1>5, <1>6, OneSwap

LEMMA LpStepStep == ASSUME SwapInv, NEW s \in Swaps, LpStep(s) PROVE SwapInv'
<1>1. kind' = kind /\ OfSwap(s) /\ cur' = cur /\ at' = at
  BY DEF SwapInv, LpStep, LpSell, LpBuy
<1>2. Typed'
  <2>1. mishaps' \in 0..MaxMishaps
    BY Mishaps DEF LpStep
  <2>2. gbx' \in [Swaps -> LockStates] /\ usdc' \in [Swaps -> LockStates] /\ lp' \in [Swaps -> LpStates]
        /\ terms' \in [Swaps -> Terms] /\ said' \in [Swaps -> Terms \cup {"none"}]
    BY Types DEF LpStep, LpSell, LpBuy, LockStates, LpStates
  <2> QED
    BY <1>1, <2>1, <2>2, SameKind, Types DEF Typed, TypeOK, LpStep, LpStates, Words
<1>3. RevealsForALock'
  BY <1>1, SameKind DEF SwapInv, RevealsForALock, LpStep
<1>4. OfSwap(s)'
  <2>1. CASE LpSell(s)
    <3>1. /\ s \in Sells /\ Own(s) = gbx[s] /\ Other(s) = usdc[s] /\ Own(s)' = gbx'[s] /\ Other(s)' = usdc'[s]
          /\ told' = told /\ cur' = cur /\ full' = full /\ rows' = rows /\ excused' = excused /\ old' = old
          /\ udue' = udue /\ said' = said
      BY <1>1, <2>1, SameKind DEF LpStep, LpSell, Own, Other
    <3>2. CASE lp[s] = "intent"
      <4>1. usdc[s] = "none" /\ terms[s] = "agreed" /\ gbx' = gbx /\ gbx[s] = "locked"
        BY <1>1, <2>1, <3>1, <3>2 DEF LpSell, OfSwap, LpTrue
      <4>2. \/ lp'[s] = "locked" /\ usdc'[s] = "locked"
            \/ lp'[s] \in {"rejected", "failed"} /\ usdc'[s] = "none" /\ terms'[s] = "agreed"
        BY <2>1, <3>2, <4>1, Types DEF LpSell
      <4>3. LpTrue(s)' /\ Untried(s)' /\ Honest(s)'
        BY <1>1, <3>1, <4>1, <4>2, SameKind, Kind DEF OfSwap, LpTrue, Untried, Honest
      <4>4. s \in full \/ Lost(s)
        BY <1>1, <3>1, <4>1, Kind DEF OfSwap, Kept, Paid
      <4>5. Lost(s) => Lost(s)'
        BY <1>1, <3>1, <4>1 DEF Lost
      <4> QED
        BY <1>1, <3>1, <4>3, <4>4, <4>5 DEF OfSwap, Kept
    <3>3. CASE lp[s] = "locked"
      <4>1. terms' = terms /\ gbx'[s] \in {gbx[s], "claimed"} /\ lp'[s] \in {"completed", "refunded"}
        BY <2>1, <3>3, Types DEF LpSell
      <4>2. \/ usdc' = usdc /\ usdc[s] = "claimed" /\ gbx'[s] = "claimed" /\ lp'[s] = "completed"
            \/ usdc[s] = "locked" /\ usdc'[s] = "refunded" /\ udue[s] /\ gbx' = gbx /\ lp'[s] = "refunded"
        BY <2>1, <3>3, Types DEF LpSell
      <4>3. LpTrue(s)' /\ Untried(s)' /\ Honest(s)'
        BY <1>1, <3>1, <3>3, <4>1, <4>2, SameKind, Kind DEF OfSwap, LpTrue, Untried, Honest
      <4>4. Own(s)' = "locked" => s \in full \/ Lost(s)
        BY <1>1, <3>1, <4>2, Kind DEF OfSwap, Kept, Paid
      <4>5. Own(s)' = "locked" /\ Lost(s) => Lost(s)'
        BY <1>1, <3>1, <4>1, <4>2 DEF Lost
      <4> QED
        BY <1>1, <3>1, <4>3, <4>4, <4>5 DEF OfSwap, Kept
    <3> QED
      BY <2>1, <3>2, <3>3 DEF LpSell
  <2>2. CASE LpBuy(s)
    <3>1. /\ s \in Buys /\ s \notin Sells /\ Own(s) = usdc[s] /\ Other(s) = gbx[s] /\ Own(s)' = usdc'[s] /\ Other(s)' = gbx'[s]
          /\ s \notin Sells' /\ kind[s] \in {"buyEvm", "buySol"}
          /\ told' = told /\ cur' = cur /\ full' = full /\ rows' = rows /\ excused' = excused /\ old' = old
      BY <1>1, <2>2, SameKind, Kind DEF LpStep, LpBuy, Own, Other, Buys
    <3>2. CASE lp[s] = "intent"
      <4>1. gbx[s] = "none" /\ told[s] # "done" /\ ~Paid(s)
        BY <1>1, <3>1, <3>2 DEF OfSwap, LpTrue, Honest, Paid
      <4>2. \/ kind[s] = "buyEvm" /\ usdc'[s] = "locked" /\ gbx' = gbx /\ lp' = lp /\ terms' = terms /\ said' = said
            \/ usdc[s] = "locked" /\ usdc' = usdc /\ lp'[s] = "locked" /\ said'[s] # "none"
        BY <2>2, <3>2, <4>1, Types DEF LpBuy, Terms
      <4>3. LpTrue(s)' /\ Untried(s)' /\ Honest(s)'
        BY <1>1, <3>1, <3>2, <4>1, <4>2 DEF OfSwap, LpTrue, Untried, Honest
      <4>4. Own(s)' = "locked" => s \in full \/ kind[s] = "buyEvm" \/ Lost(s)
        BY <1>1, <3>1, <4>1, <4>2 DEF OfSwap, Kept
      <4>5. Lost(s) => Lost(s)'
        BY <1>1, <3>1 DEF Lost
      <4> QED
        BY <1>1, <3>1, <4>3, <4>4, <4>5 DEF OfSwap, Kept
    <3>3. CASE lp[s] = "locked"
      <4>1. /\ terms' = terms /\ said' = said /\ usdc'[s] \in {usdc[s], "claimed"} /\ lp'[s] \in {"completed", "refunded"}
            /\ lp'[s] = "completed" => usdc'[s] = "claimed"
            /\ gbx' = gbx \/ (gbx[s] = "locked" /\ gbx'[s] = "refunded")
        BY <2>2, <3>3, Types DEF LpBuy
      <4>2. LpTrue(s)' /\ Untried(s)' /\ Honest(s)'
        BY <1>1, <3>1, <3>3, <4>1 DEF OfSwap, LpTrue, Untried, Honest
      <4>3. Own(s)' = "locked" /\ ~Paid(s)' => s \in full \/ kind[s] = "buyEvm" \/ Lost(s)
        BY <1>1, <3>1, <4>1 DEF OfSwap, Kept, Paid
      <4>4. Lost(s) => Lost(s)'
        BY <1>1, <3>1 DEF Lost
      <4> QED
        BY <1>1, <3>1, <4>2, <4>3, <4>4 DEF OfSwap, Kept
    <3> QED
      BY <2>2, <3>2, <3>3 DEF LpBuy
  <2> QED
    BY <2>1, <2>2 DEF LpStep
<1>5. \A t \in Swaps : t # s => Same(t)
  <2>1. ASSUME NEW t \in Swaps, t # s
        PROVE  gbx'[t] = gbx[t] /\ usdc'[t] = usdc[t] /\ lp'[t] = lp[t] /\ terms'[t] = terms[t] /\ said'[t] = said[t]
    <3>1. CASE LpSell(s)
      BY <2>1, <3>1, Types DEF LpSell
    <3>2. CASE LpBuy(s)
      BY <2>1, <3>2, Types DEF LpBuy
    <3> QED
      BY <3>1, <3>2 DEF LpStep
  <2> QED
    BY <1>1, <2>1 DEF Same, LpStep
<1>6. cur' = s => AtAwait(s)'
  <2>1. cur = s => AtAwait(s)
    BY SwapAssumption DEF SwapInv
  <2>2. at' = at /\ full' = full /\ rows' = rows /\ old' = old
    BY DEF LpStep
  <2>3. lp[s] # "unknown"
    BY DEF LpStep, LpSell, LpBuy
  <2>4. ASSUME at = "claim", cur = s, s \in Sells PROVE usdc'[s] # "none" /\ terms'[s] = "agreed"
    <3>1. usdc[s] # "none" /\ terms[s] = "agreed" /\ lp[s] # "intent"
      BY <1>1, <2>1, <2>4 DEF AtAwait, OfSwap, LpTrue
    <3> QED
      BY <2>4, <3>1, Types DEF LpStep, LpSell, LpBuy, Buys
  <2>5. ASSUME at = "claim", cur = s, s \notin Sells PROVE said'[s] = "agreed"
    <3>1. said[s] = "agreed" /\ lp[s] # "intent"
      BY <1>1, <2>1, <2>5 DEF AtAwait, OfSwap, LpTrue
    <3> QED
      BY <2>5, <3>1, Types DEF LpStep, LpSell, LpBuy
  <2> QED
    BY <1>1, <2>1, <2>2, <2>3, <2>4, <2>5, SameKind DEF AtAwait
<1> QED
  BY <1>1, <1>2, <1>3, <1>4, <1>5, <1>6, OneSwap

LEMMA SwapInvInit == Init => SwapInv
<1> SUFFICES ASSUME Init PROVE SwapInv
  OBVIOUS
<1>1. Typed
  BY SwapAssumption DEF Init, Typed, TypeOK, LockStates, Kinds, Steps, Sells, Terms
<1>2. \A s \in Swaps : OfSwap(s)
  BY DEF Init, Sells, Buys, OfSwap, LpTrue, Untried, Kept, Lost, Honest, Paid, Own, Other
<1> QED
  BY <1>1, <1>2 DEF Init, SwapInv, RevealsForALock

LEMMA SwapInvNext == SwapInv /\ [Next]_vars => SwapInv'
<1> SUFFICES ASSUME SwapInv, [Next]_vars PROVE SwapInv'
  OBVIOUS
<1>1. CASE Flow
  BY <1>1, StartStep, LockGbxStep, IntentStep, SubmitStep, PollStep, ClaimStep DEF Flow
<1>2. CASE Close \/ Open
  BY <1>2, CloseStep, OpenStep
<1>3. ASSUME NEW s \in Swaps, Cards(s) PROVE SwapInv'
  BY <1>3, TidySoldStep, TidyOrphanStep, RefundSellStep, ClaimSellStep, TidyBuyStep, ClaimBuyStep, RefundBuyStep DEF Cards
<1>4. ASSUME NEW s \in Swaps, Ages(s) \/ LpStep(s) PROVE SwapInv'
  BY <1>4, AgesStep, LpStepStep
<1>5. CASE UNCHANGED vars
  <2>1. Typed' /\ RevealsForALock' /\ kind' = kind /\ cur' = cur /\ at' = at
    BY <1>5, SameKind DEF SwapInv, Typed, TypeOK, RevealsForALock, vars
  <2>2. \A t \in Swaps : Same(t)
    BY <1>5 DEF Same, vars
  <2> QED
    BY <2>1, <2>2, NoSwap
<1> QED
  BY <1>1, <1>2, <1>3, <1>4, <1>5 DEF Next

LEMMA SwapInvHolds == Spec => []SwapInv
BY SwapInvInit, SwapInvNext, PTL DEF Spec

(* The page's rule that money is never left without the entry that gets it *)
(* back, and the word "completed" (swap.html): both are true of every      *)
(* number of swaps, run on one device and closed at any await, but for the *)
(* causes EntryKept and DoneMeansPaid name.                                *)
THEOREM TheDeviceIsHonest == Spec => []RecordsHonest
<1>1. SwapInv => RecordsHonest
  <2> SUFFICES ASSUME SwapInv PROVE RecordsHonest
    OBVIOUS
  <2>1. ASSUME NEW s \in Swaps, Lost(s)
        PROVE  \E why \in {"no answer", "same amount", "read failed", "reverted", "named"} :
                 /\ <<s, why>> \in excused
                 /\ why = "same amount" => kind[s] = "sellSol" /\ rows \ {s} # {}
                 /\ why = "reverted" => kind[s] = "sellEvm" /\ usdc[s] = "refunded"
                 /\ why = "named" => kind[s] = "sellEvm" /\ terms[s] = "foreign"
                 /\ why = "read failed" => kind[s] = "buySol" /\ s \in old
    BY <2>1 DEF Lost
  <2>2. EntryKept
    BY <2>1 DEF SwapInv, OfSwap, Kept, EntryKept
  <2>3. DoneMeansPaid
    BY DEF SwapInv, OfSwap, Honest, DoneMeansPaid
  <2> QED
    BY <2>2, <2>3 DEF SwapInv, Typed, RecordsHonest
<1> QED
  BY <1>1, SwapInvHolds, PTL

(* The preimage of a swap leaves the device only for a counter-lock on the *)
(* terms agreed that is, or was when the flow looked, on chain; whatever   *)
(* any LP locks and its gateway says, but for the cases RevealsForALock    *)
(* names (the cards, and a buy's trust in the gateway).                    *)
THEOREM ThePreimageBuysALock == Spec => []RevealsForALock
BY SwapInvHolds, PTL DEF SwapInv
-----------------------------------------------------------------------------
(* The direct market (OfferMarket.tla).                                    *)
OfferStates == {"none", "open", "executed", "cancelled"}
Htlc == [by : Buyers \cup {Nobody}, till : Int, base : Int, born : Nat, state : {"none", "live", "claimed"}]
UsdcLock == [state : {"none", "locked", "refunded", "claimed"}, till : Int]

Shape ==
  /\ offers \in [Offers -> OfferStates] /\ htlcs \in [Offers -> Htlc] /\ usdcLocks \in [Buyers -> UsdcLock]
  /\ index \in [offers : [Offers -> OfferStates], htlcs : [Offers -> Htlc]]
  /\ buying \in [Buyers -> {"idle", "looked", "sent", "saved", "cut", "away"}]

(* An HTLC belongs to a buyer who has locked, and ends the margin before   *)
(* that lock; a button names a buyer who has locked.                       *)
HtlcsStand ==
  \A o \in Offers :
    /\ htlcs[o].by # Nobody <=> htlcs[o].state # "none"
    /\ htlcs[o].by # Nobody =>
         usdcLocks[htlcs[o].by].state # "none" /\ htlcs[o].till + Margin <= usdcLocks[htlcs[o].by].till
ButtonsStand == \A o \in Offers : buttons[o] # Nobody => usdcLocks[buttons[o]].state # "none"

(* The index is behind and never wrong.                                    *)
IndexStands ==
  \A o \in Offers :
    /\ index.htlcs[o].by # Nobody <=> index.htlcs[o].state # "none"
    /\ index.htlcs[o].by # Nobody => index.htlcs[o].by = htlcs[o].by
    /\ index.htlcs[o].state = "claimed" => htlcs[o].state = "claimed"

(* _inc names no other offer once a hashlock has executed one.             *)
IncStands ==
  \A o \in Offers :
    htlcs[o].by # Nobody /\ htlcs[o].by \notin blind => inc[htlcs[o].by] \in {o, Nobody}

(* A saved record is there until it is of no use.                          *)
Useless(b) == usdcLocks[b].state = "refunded" \/ \E o \in Offers : htlcs[o].by = b /\ htlcs[o].state = "claimed"
RecordsStand == \A b \in Buyers : buying[b] = "saved" => b \in records \/ Useless(b)

Inv ==
  /\ Shape /\ MarketTypeOK /\ HtlcsStand /\ ButtonsStand /\ IndexStands /\ IncStands /\ RecordsStand
  /\ OneOfferPerHashlock /\ SecretKept

(* The abbreviations of the actions, and the sets of Shape.                *)
USE DEF buyer, seller, chains, Answered, Fault, OfferStates, Htlc, UsdcLock
-----------------------------------------------------------------------------
LEMMA InvInit == MarketInit => Inv
BY MarketBounds DEF MarketInit, NoHtlc, NoLock, Inv, Shape, MarketTypeOK, HtlcsStand, ButtonsStand, IndexStands, IncStands,
  RecordsStand, Useless, OneOfferPerHashlock, SecretKept

(* The seller's other steps, and the index, the list and the clock.        *)
LEMMA PostStep == ASSUME Inv, NEW o \in Offers, Post(o) PROVE Inv'
BY MarketBounds DEF Post, Inv, Shape, MarketTypeOK, HtlcsStand, ButtonsStand, IndexStands, IncStands,
  RecordsStand, Useless, OneOfferPerHashlock, SecretKept

LEMMA CancelStep == ASSUME Inv, NEW o \in Offers, Cancel(o) PROVE Inv'
BY MarketBounds DEF Cancel, Inv, Shape, MarketTypeOK, HtlcsStand, ButtonsStand, IndexStands, IncStands,
  RecordsStand, Useless, OneOfferPerHashlock, SecretKept

LEMMA ScanStep == ASSUME Inv, NEW o \in Offers, Scan(o) PROVE Inv'
BY MarketBounds DEF Scan, Acceptable, Executed, Listed, Inv, Shape, MarketTypeOK, HtlcsStand, ButtonsStand, IndexStands, IncStands,
  RecordsStand, Useless, OneOfferPerHashlock, SecretKept

LEMMA RepaintStep == ASSUME Inv, Repaint PROVE Inv'
BY MarketBounds DEF Repaint, Inv, Shape, MarketTypeOK, HtlcsStand, ButtonsStand, IndexStands, IncStands,
  RecordsStand, Useless, OneOfferPerHashlock, SecretKept

LEMMA IndexFollowsStep == ASSUME Inv, IndexFollows PROVE Inv'
BY MarketBounds DEF IndexFollows, Inv, Shape, MarketTypeOK, HtlcsStand, ButtonsStand, IndexStands, IncStands,
  RecordsStand, Useless, OneOfferPerHashlock, SecretKept

LEMMA PassesStep == ASSUME Inv, Passes PROVE Inv'
BY MarketBounds DEF Passes, Inv, Shape, MarketTypeOK, HtlcsStand, ButtonsStand, IndexStands, IncStands,
  RecordsStand, Useless, OneOfferPerHashlock, SecretKept

(* Execution: what the button and _inc name has locked, has no HTLC unless *)
(* the page scanned blind, and the window leaves the margin.               *)
LEMMA ExecuteStep ==
  ASSUME Inv, NEW card \in Offers, Execute(card)
  PROVE  Inv'
<1> DEFINE b == buttons[card]
           o == inc[b]
           new == [by |-> b, till |-> Blocks + WindowFor(b), base |-> Blocks, born |-> now, state |-> "live"]
<1>1. /\ b \in Buyers /\ o \in Offers /\ b # Nobody
      /\ offers[o] = "open" /\ htlcs[o].state = "none" /\ htlcs[o].by = Nobody
      /\ usdcLocks[b].state # "none" /\ buying[b] \in {"sent", "saved", "cut"}
  BY MarketBounds DEF Execute, Inv, Shape, MarketTypeOK, HtlcsStand, ButtonsStand
<1>2. new \in Htlc /\ new.till + Margin <= usdcLocks[b].till
  BY <1>1, MarketBounds DEF WindowFor, Blocks, Inv, Shape, MarketTypeOK
<1>3. /\ htlcs' = [htlcs EXCEPT ![o] = new] /\ offers' = [offers EXCEPT ![o] = "executed"]
      /\ UNCHANGED <<chain, now, slow, usdcLocks, index, buying, records, inc, raced, blind>>
      /\ buttons' \in {buttons, [buttons EXCEPT ![o] = Nobody]} /\ faults' \in 0 .. MaxFaults
  BY MarketBounds DEF Execute, Inv, MarketTypeOK
<1>4. \A p \in Offers : htlcs'[p] = IF p = o THEN new ELSE htlcs[p]
  BY <1>1, <1>3 DEF Inv, Shape
<1>5. new.by = b /\ new.state = "live"
  OBVIOUS
<1> HIDE DEF new, b, o
<1>6. Shape' /\ MarketTypeOK'
  <2>1. Shape'
    BY <1>1, <1>2, <1>3 DEF Inv, Shape
  <2>2. \A p \in Offers : offers'[p] = IF p = o THEN "executed" ELSE offers[p]
    BY <1>1, <1>3 DEF Inv, Shape
  <2>3. \A p \in Offers : (offers'[p] = "executed") <=> (htlcs'[p].state \in {"live", "claimed"})
    BY <1>4, <1>5, <2>2 DEF Inv, MarketTypeOK
  <2>4. buttons' \in [Offers -> Buyers \cup {Nobody}]
    BY <1>1, <1>3 DEF Inv, MarketTypeOK
  <2> QED
    BY <1>3, <2>1, <2>3, <2>4 DEF Inv, MarketTypeOK
<1>7. HtlcsStand'
  BY <1>1, <1>2, <1>3, <1>4, <1>5 DEF Inv, HtlcsStand
<1>8. ButtonsStand' /\ IndexStands'
  <2>1. ButtonsStand'
    BY <1>3 DEF Inv, MarketTypeOK, ButtonsStand
  <2>2. IndexStands'
    BY <1>1, <1>3, <1>4 DEF Inv, IndexStands
  <2> QED
    BY <2>1, <2>2
<1>9. inc[b] = o
  BY DEF o
<1>10. \A p \in Offers : p # o /\ htlcs[p].by = b => b \in blind
  BY <1>1, <1>9, MarketBounds DEF Inv, IncStands
<1>11. IncStands' /\ OneOfferPerHashlock'
  BY <1>1, <1>3, <1>4, <1>5, <1>9, <1>10 DEF Inv, IncStands, OneOfferPerHashlock
<1>12. \A c \in Buyers : Useless(c) => Useless(c)'
  BY <1>1, <1>3, <1>4 DEF Useless
<1>13. RecordsStand'
  BY <1>3, <1>12 DEF Inv, RecordsStand
<1>14. SecretKept'
  <2> SUFFICES ASSUME NEW p \in Offers, htlcs'[p].state = "live", NEW c, c = htlcs'[p].by
               PROVE  c \in records' \/ buying'[c] \in {"sent", "cut"} \/ Useless(c)'
    BY DEF SecretKept, Useless
  <2>1. CASE p = o
    BY <2>1, <1>1, <1>3, <1>4, <1>5, <1>12 DEF Inv, RecordsStand
  <2>2. CASE p # o
    <3>1. htlcs[p].state = "live" /\ htlcs[p].by = c /\ c \in Buyers
      BY <2>2, <1>4 DEF Inv, Shape, HtlcsStand
    <3>2. c \in records \/ buying[c] \in {"sent", "cut"} \/ Useless(c)
      BY <3>1 DEF Inv, SecretKept, Useless
    <3> QED
      BY <3>1, <3>2, <1>3, <1>12
  <2> QED
    BY <2>1, <2>2
<1> QED
  BY <1>6, <1>7, <1>8, <1>11, <1>13, <1>14 DEF Inv
-----------------------------------------------------------------------------
(* The buyer.                                                              *)
LEMMA LookStep == ASSUME Inv, NEW b \in Buyers, Look(b) PROVE Inv'
BY MarketBounds DEF Look, Inv, Shape, MarketTypeOK, HtlcsStand, ButtonsStand, IndexStands, IncStands,
  RecordsStand, Useless, OneOfferPerHashlock, SecretKept

LEMMA SaveStep == ASSUME Inv, NEW b \in Buyers, Save(b) PROVE Inv'
BY MarketBounds DEF Save, Inv, Shape, MarketTypeOK, HtlcsStand, ButtonsStand, IndexStands, IncStands,
  RecordsStand, Useless, OneOfferPerHashlock, SecretKept

LEMMA TidyStep == ASSUME Inv, NEW b \in Buyers, Tidy(b) PROVE Inv'
BY MarketBounds DEF Tidy, Over, Unspent, Listed, Inv, Shape, MarketTypeOK, HtlcsStand, ButtonsStand, IndexStands, IncStands,
  RecordsStand, Useless, OneOfferPerHashlock, SecretKept

LEMMA RefundUsdcStep == ASSUME Inv, NEW b \in Buyers, RefundUsdc(b) PROVE Inv'
BY MarketBounds DEF RefundUsdc, MayRefund, Inv, Shape, MarketTypeOK, HtlcsStand, ButtonsStand, IndexStands, IncStands,
  RecordsStand, Useless, OneOfferPerHashlock, SecretKept

LEMMA ClaimUsdcStep == ASSUME Inv, NEW b \in Buyers, ClaimUsdc(b) PROVE Inv'
BY MarketBounds DEF ClaimUsdc, Listed, Inv, Shape, MarketTypeOK, HtlcsStand, ButtonsStand, IndexStands, IncStands,
  RecordsStand, Useless, OneOfferPerHashlock, SecretKept

(* A lock is new: no HTLC and no button can name a buyer without one.      *)
LEMMA LockStep ==
  ASSUME Inv, NEW b \in Buyers, Lock(b)
  PROVE  Inv'
<1>1. /\ usdcLocks[b].state = "none" /\ b \notin records
      /\ now + TUsdc \in Int
  BY MarketBounds DEF Lock, Inv, Shape, MarketTypeOK
<1>2. \A c \in Buyers : usdcLocks'[c] = IF c = b THEN [state |-> "locked", till |-> now + TUsdc] ELSE usdcLocks[c]
  BY DEF Lock, Inv, Shape
<1>3. /\ \A c \in Buyers : c # b => buying'[c] = buying[c]
      /\ buying'[b] \in {"sent", "cut"} /\ faults' \in 0 .. MaxFaults
      /\ UNCHANGED <<chain, now, slow, offers, htlcs, index, records, inc, buttons, blind>>
  BY MarketBounds DEF Lock, Inv, Shape, MarketTypeOK
<1>4. Shape'
  BY <1>1 DEF Lock, Inv, Shape
<1>5. MarketTypeOK'
  BY <1>1, <1>2, <1>3 DEF Inv, MarketTypeOK
<1>6. HtlcsStand'
  <2>1. \A p \in Offers : htlcs[p].by # Nobody => htlcs[p].by \in Buyers /\ htlcs[p].by # b
    BY <1>1 DEF Inv, Shape, HtlcsStand
  <2> QED
    BY <2>1, <1>2, <1>3 DEF Inv, HtlcsStand
<1>7. ButtonsStand'
  BY <1>2, <1>3 DEF Inv, MarketTypeOK, ButtonsStand
<1>8. IndexStands' /\ IncStands' /\ OneOfferPerHashlock'
  BY <1>3 DEF Inv, IndexStands, IncStands, OneOfferPerHashlock
<1>9. \A c \in Buyers : Useless(c) => Useless(c)'
  BY <1>1, <1>2, <1>3 DEF Useless
<1>10. RecordsStand'
  BY <1>3, <1>9 DEF Inv, RecordsStand
<1>11. SecretKept'
  <2> SUFFICES ASSUME NEW p \in Offers, htlcs[p].state = "live", NEW c, c = htlcs[p].by
               PROVE  c \in records \/ buying'[c] \in {"sent", "cut"} \/ Useless(c)'
    BY <1>3 DEF SecretKept, Useless
  <2>1. c \in Buyers /\ c # b
    BY <1>1 DEF Inv, Shape, HtlcsStand
  <2>2. c \in records \/ buying[c] \in {"sent", "cut"} \/ Useless(c)
    BY DEF Inv, SecretKept, Useless
  <2> QED
    BY <2>1, <2>2, <1>3, <1>9
<1> QED
  BY <1>4, <1>5, <1>6, <1>7, <1>8, <1>10, <1>11 DEF Inv

(* The GBX is taken: the record may go, for the hashlock has an HTLC that  *)
(* is claimed.                                                             *)
LEMMA ClaimGbxStep ==
  ASSUME Inv, NEW b \in Buyers, ClaimGbx(b)
  PROVE  Inv'
<1>1. PICK o \in Unspent(b) : htlcs[o].state = "live" /\ htlcs' = [htlcs EXCEPT ![o].state = "claimed"]
  BY DEF ClaimGbx
<1>2. o \in Offers /\ htlcs[o].by = b
  BY <1>1, MarketBounds DEF Unspent, Listed, Inv, IndexStands
<1>3. \A p \in Offers :
        /\ p # o => htlcs'[p] = htlcs[p]
        /\ htlcs'[p].by = htlcs[p].by /\ htlcs'[p].till = htlcs[p].till
  BY <1>1, <1>2 DEF Inv, Shape
<1>4. htlcs'[o].state = "claimed"
  BY <1>1, <1>2 DEF Inv, Shape
<1>5. /\ UNCHANGED <<chain, now, slow, offers, usdcLocks, index, buying, inc, buttons, raced, blind>>
      /\ records' \in {records, records \ {b}} /\ faults' \in 0 .. MaxFaults
  BY MarketBounds DEF ClaimGbx, Inv, MarketTypeOK
<1>6. Shape'
  <2>1. [htlcs[o] EXCEPT !.state = "claimed"] \in Htlc
    BY <1>2 DEF Inv, Shape
  <2>2. htlcs' \in [Offers -> Htlc]
    BY <2>1, <1>1, <1>2 DEF Inv, Shape
  <2> QED
    BY <2>2, <1>5 DEF Inv, Shape
<1>7. MarketTypeOK'
  BY <1>1, <1>2, <1>3, <1>4, <1>5 DEF Inv, MarketTypeOK
<1>8. HtlcsStand'
  <2> SUFFICES ASSUME NEW p \in Offers PROVE HtlcsStand!(p)'
    BY DEF HtlcsStand
  <2>1. htlcs'[p].state = "none" <=> htlcs[p].state = "none"
    BY <1>1, <1>3, <1>4
  <2> QED
    BY <2>1, <1>3, <1>5 DEF Inv, HtlcsStand
<1>9. ButtonsStand'
  BY <1>5 DEF Inv, ButtonsStand
<1>10. IndexStands'
  BY <1>3, <1>4, <1>5 DEF Inv, IndexStands
<1>11. IncStands' /\ OneOfferPerHashlock'
  BY <1>3, <1>5 DEF Inv, IncStands, OneOfferPerHashlock
<1>12. RecordsStand' /\ SecretKept'
  <2>1. \A c \in Buyers : Useless(c) => Useless(c)'
    BY <1>3, <1>4, <1>5 DEF Useless
  <2>2. Useless(b)'
    BY <1>2, <1>3, <1>4 DEF Useless
  <2>3. RecordsStand'
    BY <2>1, <2>2, <1>5 DEF Inv, RecordsStand
  <2>4. ASSUME NEW p \in Offers, htlcs'[p].state = "live", NEW c, c = htlcs'[p].by
        PROVE  c \in records' \/ buying'[c] \in {"sent", "cut"} \/ Useless(c)'
    <3>1. htlcs[p].state = "live" /\ htlcs[p].by = c /\ c \in Buyers
      BY <2>4, <1>3, <1>4 DEF Inv, Shape, HtlcsStand
    <3>2. c \in records \/ buying[c] \in {"sent", "cut"} \/ Useless(c)
      BY <3>1 DEF Inv, SecretKept, Useless
    <3> QED
      BY <3>1, <3>2, <2>1, <2>2, <1>5
  <2>5. SecretKept'
    BY <2>4 DEF SecretKept, Useless
  <2> QED
    BY <2>3, <2>5
<1> QED
  BY <1>6, <1>7, <1>8, <1>9, <1>10, <1>11, <1>12 DEF Inv

LEMMA InvStep == Inv /\ [MarketNext]_marketVars => Inv'
<1> SUFFICES ASSUME Inv, [MarketNext]_marketVars PROVE Inv'
  OBVIOUS
<1>1. ASSUME NEW o \in Offers, Post(o) \/ Cancel(o) \/ Scan(o) \/ Execute(o) PROVE Inv'
  BY <1>1, PostStep, CancelStep, ScanStep, ExecuteStep
<1>2. ASSUME NEW b \in Buyers,
             Look(b) \/ Lock(b) \/ Save(b) \/ ClaimGbx(b) \/ Tidy(b) \/ RefundUsdc(b) \/ ClaimUsdc(b)
      PROVE Inv'
  BY <1>2, LookStep, LockStep, SaveStep, ClaimGbxStep, TidyStep, RefundUsdcStep, ClaimUsdcStep
<1>3. CASE Repaint \/ IndexFollows \/ Passes
  BY <1>3, RepaintStep, IndexFollowsStep, PassesStep
<1>4. CASE UNCHANGED marketVars
  BY <1>4 DEF marketVars, Inv, Shape, MarketTypeOK, HtlcsStand, ButtonsStand, IndexStands, IncStands, RecordsStand, Useless, OneOfferPerHashlock, SecretKept
<1> QED
  BY <1>1, <1>2, <1>3, <1>4 DEF MarketNext

LEMMA InvAlways == MarketSpec => []Inv
BY InvInit, InvStep, PTL DEF MarketSpec
-----------------------------------------------------------------------------
(* One buyer at a time.  A lock waits until an HTLC answers it; a page     *)
(* that has looked and not locked yet has seen every lock that waits, or   *)
(* is among the raced.                                                     *)
Waits(b) == Acceptable(b, 0) /\ \A o \in Offers : htlcs[o].by # b
Queue ==
  /\ \A b, c \in Buyers : b # c /\ buying[b] = "looked" /\ Waits(c) => b \in raced
  /\ \A b, c \in Buyers : b # c /\ Waits(b) /\ Waits(c) => raced \cap {b, c} # {}

(* A step that makes nobody wait or look keeps the queue.                  *)
LEMMA QueueKept ==
  ASSUME Queue, raced \subseteq raced',
         \A b \in Buyers : buying'[b] = "looked" => buying[b] = "looked",
         \A b \in Buyers : Waits(b)' => Waits(b)
  PROVE  Queue'
BY DEF Queue

(* Only Lock makes a lock wait: money leaves, HTLCs stay, time passes.     *)
LEMMA NobodyElseWaits ==
  ASSUME Inv, MarketNext, \A b \in Buyers : ~Lock(b), NEW b \in Buyers, Waits(b)'
  PROVE  Waits(b)
<1>1. \A o \in Offers : htlcs[o].by = b => htlcs'[o].by = b
  <2>1. ASSUME NEW card \in Offers, Execute(card) PROVE \A o \in Offers : htlcs[o].by = b => htlcs'[o].by = b
    <3>1. \A o \in Offers : htlcs'[o] # htlcs[o] => o = inc[buttons[card]] /\ offers[o] = "open"
      BY <2>1 DEF Execute, Inv, Shape
    <3>2. \A o \in Offers : offers[o] = "open" => htlcs[o].by # b
      BY MarketBounds DEF Inv, Shape, MarketTypeOK, HtlcsStand
    <3> QED
      BY <3>1, <3>2
  <2>2. ASSUME NEW c \in Buyers, ClaimGbx(c) PROVE \A o \in Offers : htlcs[o].by = b => htlcs'[o].by = b
    BY <2>2 DEF ClaimGbx, Inv, Shape
  <2>3. \/ UNCHANGED htlcs \/ (\E card \in Offers : Execute(card)) \/ \E c \in Buyers : ClaimGbx(c)
    BY DEF MarketNext, Post, Cancel, Scan, Look, Save, Tidy, RefundUsdc, ClaimUsdc, Repaint, IndexFollows, Passes
  <2> QED
    BY <2>1, <2>2, <2>3
<1>2. usdcLocks'[b].state = "locked" => usdcLocks'[b] = usdcLocks[b]
  <2>1. ASSUME NEW c \in Buyers, RefundUsdc(c) \/ ClaimUsdc(c) PROVE usdcLocks'[b].state = "locked" => usdcLocks'[b] = usdcLocks[b]
    BY <2>1 DEF RefundUsdc, ClaimUsdc, Inv, Shape
  <2>2. UNCHANGED usdcLocks \/ \E c \in Buyers : RefundUsdc(c) \/ ClaimUsdc(c)
    BY DEF MarketNext, Post, Cancel, Scan, Execute, Look, Save, ClaimGbx, Tidy, Repaint, IndexFollows, Passes
  <2> QED
    BY <2>1, <2>2
<1>3. now \in Nat /\ now' \in {now, now + 1}
  <2>1. now \in Nat
    BY MarketBounds DEF Inv, MarketTypeOK
  <2>2. UNCHANGED now \/ Passes
    BY DEF MarketNext, Post, Cancel, Scan, Execute, Look, Save, ClaimGbx, Tidy, RefundUsdc, ClaimUsdc, Repaint, IndexFollows
  <2> QED
    BY <2>1, <2>2 DEF Passes
<1>4. usdcLocks[b].till \in Int
  BY DEF Inv, Shape
<1> QED
  BY <1>1, <1>2, <1>3, <1>4 DEF Waits, Acceptable

LEMMA QueueStep == Inv /\ Queue /\ [MarketNext]_marketVars => Queue'
<1> SUFFICES ASSUME Inv, Queue, [MarketNext]_marketVars PROVE Queue'
  OBVIOUS
<1>1. CASE UNCHANGED marketVars
  BY <1>1 DEF marketVars, Queue, Waits, Acceptable
<1>2. ASSUME NEW b \in Buyers, Look(b) PROVE Queue'
  <2>1. \A c \in Buyers : Waits(c) => Taken
    BY MarketBounds DEF Waits, Taken, Listed, Inv, IndexStands
  <2>2. \A c \in Buyers : buying'[c] = "looked" => c = b \/ buying[c] = "looked"
    BY <1>2 DEF Look, Inv, Shape
  <2>3. raced \subseteq raced' /\ (Taken => b \in raced') /\ UNCHANGED <<now, usdcLocks, htlcs>>
    BY <1>2 DEF Look
  <2>4. \A c \in Buyers : Waits(c)' => Waits(c)
    BY <2>3 DEF Waits, Acceptable
  <2> QED
    BY <2>1, <2>2, <2>3, <2>4 DEF Queue
<1>3. ASSUME NEW b \in Buyers, Lock(b) PROVE Queue'
  <2>1. /\ buying[b] = "looked" /\ UNCHANGED <<now, htlcs>>
        /\ raced' = raced \cup {c \in Buyers \ {b} : buying[c] = "looked"}
    BY <1>3 DEF Lock
  <2>2. \A c \in Buyers : buying'[c] = "looked" => c # b /\ buying[c] = "looked"
    BY <1>3 DEF Lock, Inv, Shape
  <2>3. \A c \in Buyers : c # b /\ Waits(c)' => Waits(c)
    BY <1>3, <2>1 DEF Lock, Inv, Shape, Waits, Acceptable
  <2> QED
    BY <2>1, <2>2, <2>3 DEF Queue
<1>4. CASE MarketNext /\ \A b \in Buyers : ~Look(b) /\ ~Lock(b)
  <2>1. \A b \in Buyers : Waits(b)' => Waits(b)
    BY <1>4, NobodyElseWaits
  <2>2. raced \subseteq raced' /\ \A b \in Buyers : buying'[b] = "looked" => buying[b] = "looked"
    <3>1. ASSUME NEW c \in Buyers, Save(c) PROVE \A b \in Buyers : buying'[b] = "looked" => buying[b] = "looked"
      BY <3>1 DEF Save, Inv, Shape
    <3> QED
      BY <1>4, <3>1 DEF MarketNext, Post, Cancel, Scan, Execute, Save, ClaimGbx, Tidy, RefundUsdc, ClaimUsdc,
        Repaint, IndexFollows, Passes
  <2> QED
    BY <2>1, <2>2, QueueKept
<1> QED
  BY <1>1, <1>2, <1>3, <1>4

LEMMA QueueAlways == MarketSpec => []Queue
<1>1. MarketInit => Queue
  BY DEF MarketInit, NoLock, Queue, Waits, Acceptable
<1> QED
  BY <1>1, QueueStep, InvAlways, PTL DEF MarketSpec
-----------------------------------------------------------------------------
(* offers.html: an offer is executed exactly when it has an HTLC, a        *)
(* hashlock executes two offers only if the page scanned without knowing   *)
(* of the first HTLC, and of two locks that wait one was sent by a page    *)
(* that could not know of the other.                                       *)
THEOREM TheMarketIsOneOnOne == MarketSpec => []OneOnOne
<1>1. Inv /\ Queue => OneOnOne
  BY DEF Inv, Queue, Waits, OneOnOne, OneBuyerAtATime
<1> QED
  BY <1>1, InvAlways, QueueAlways, PTL

(* gbx_offer_buy_<hashlock> (offers.html): while an HTLC waits for a buyer *)
(* his device has the secret, or one of the named reasons holds.           *)
THEOREM SecretsAreKept == MarketSpec => []SecretKept
BY InvAlways, PTL DEF Inv

(* buildOfferExecuteTx: "T_gbx < T_usdc - margin, always", short of the    *)
(* time in which blocks did not come.                                      *)
THEOREM TheMarginIsKept == MarketSpec => SellerKeepsTheMargin
<1>1. Inv => \A o \in Offers : htlcs[o].state = "live" /\ htlcs'[o].state = "claimed" /\ Blocks <= htlcs[o].till
               => now + Margin <= usdcLocks[htlcs[o].by].till + slow
  BY MarketBounds DEF Inv, Shape, MarketTypeOK, HtlcsStand, Blocks
<1> QED
  BY <1>1, InvAlways, PTL DEF SellerKeepsTheMargin
-----------------------------------------------------------------------------
(* The wallet.                                                             *)
Marks == {"none", "new", "seen", "old"}
Results == {"none", "refused", "failed", "empty", "paid"}
Word == [said : {"asked", "failed", "no", "value"}, value : Balances]
(* Every node once, in some order.                                         *)
IsOrder(o) ==
  /\ o \in Seq(NodeSet) /\ Len(o) = Len(Nodes)
  /\ \A i, j \in DOMAIN Nodes : o[i] = o[j] => i = j

CoinsTyped ==
  /\ spentIn \in [CoinSet -> 0..Pending] /\ by \in [CoinSet -> Payments \cup {NoPayment, Elsewhere}]
  /\ \A c \in CoinSet : (spentIn[c] = 0) <=> (by[c] = NoPayment)
  /\ marks \in [CoinSet -> Marks]
  /\ \A c \in CoinSet : (marks[c] # "none") => (by[c] # NoPayment)
GateTyped ==
  /\ tip \in 0..MaxTip /\ idx \in [NodeSet -> Nat] /\ score \in [NodeSet -> Nat] /\ got \in [NodeSet -> Word]
  /\ phase \in {"idle", "gate", "retry", "read", "emptied", "cross", "lp", "post", "empty", "unread"}
  /\ (pay = NoPayment) <=> (phase = "idle")
  /\ pay \in Payments \cup {NoPayment} /\ result \in [Payments -> Results]
  /\ listing \subseteq CoinSet /\ paid \subseteq CoinSet /\ turn \in Nat /\ confirms \in Nat
PurseTyped == CoinsTyped /\ GateTyped

(* What the gate has been told so far, and the read that follows it.       *)
AtGate ==
  /\ phase \in {"idle", "gate"} => again = <<>>
  /\ phase = "gate" =>
       /\ agreed = NotAsked /\ IsOrder(order)
       /\ \A n \in NodeSet \ Liars : got[n].said = "value" => got[n].value \in heard
AtRetry ==
  phase = "retry" =>
    /\ agreed = NotAsked /\ IsOrder(order) /\ Len(Nodes) >= 2
    /\ again = <<>> \/ \E v \in Balances : again = <<v>> /\ (order[1] \notin Liars => v \in heard)
AtRead ==
  /\ phase \in {"idle", "gate", "retry", "read", "emptied"} => confirms = 0
  /\ phase = "read" => IsOrder(order) /\ turn \in 1..Len(Nodes)
  /\ phase = "emptied" => IsFiniteSet(emptySaid) /\ last \in NodeSet
  /\ phase = "cross" =>
       /\ IsFiniteSet(emptySaid) /\ turn >= 1 /\ order \in Seq(NodeSet)
       /\ overwritten \/ \E f \in emptySaid : /\ \A k \in DOMAIN order : order[k] # f
                                              /\ confirms > 0 => \E g \in emptySaid : g # f
GateInv == GateHeardHonest /\ EmptyConfirmed /\ AtGate /\ AtRetry /\ AtRead

(* A coin spent that the device does not remember: only the one whose      *)
(* transaction nobody has answered yet.                                    *)
Loose(c) ==
  /\ by[c] # NoPayment /\ marks[c] = "none"
  /\ \A why \in {"gone", "expired", "failed", "left", "tab"} : <<c, why>> \notin forgotten
Waiting(c) == phase = "post" /\ by[c] = pay /\ Left > 0 /\ listing # {} /\ Batch = {c}
CoinInv ==
  /\ ReuseExplained
  /\ \A c \in CoinSet : Loose(c) => Waiting(c)
  /\ phase = "post" => \A c \in listing : marks[c] = "none"

(* What a payment has taken.                                               *)
Of(p) == {c \in CoinSet : by[c] = p}
PayOf(p) ==
  /\ p \notin begun /\ p = pay => Of(p) = paid \/ (phase = "post" /\ Left > 0 /\ listing # {} /\ Of(p) = paid \cup Batch)
  /\ p \notin begun /\ p # pay => IF result[p] = "paid" THEN Cardinality(Of(p)) <= Amount[p] ELSE Of(p) = {}
  /\ result[p] = "paid" => Cardinality(Of(p)) >= Amount[p]
PayInv ==
  /\ phase # "post" => paid = {}
  /\ pay # NoPayment => /\ paid \subseteq Of(pay) /\ paid \cap listing = {}
                        /\ Cardinality(paid) <= Amount[pay] /\ result[pay] # "paid"
  /\ \A p \in Payments : PayOf(p)
WalletInv == PurseTyped /\ GateInv /\ CoinInv /\ PayInv
-----------------------------------------------------------------------------
LEMMA Sets ==
  /\ IsFiniteSet(CoinSet) /\ IsFiniteSet(NodeSet)
  /\ Len(Nodes) \in Nat /\ Len(Coins) \in Nat /\ DOMAIN Nodes = 1..Len(Nodes) /\ DOMAIN Coins = 1..Len(Coins)
  /\ \A k \in DOMAIN Nodes : Nodes[k] \in NodeSet
  /\ \A c \in CoinSet : \E k \in DOMAIN Coins : Coins[k] = c
  /\ \A n \in NodeSet : \E k \in DOMAIN Nodes : Nodes[k] = n
  /\ \A s \in SUBSET CoinSet : IsFiniteSet(s) /\ Cardinality(s) \in Nat
<1>1. /\ Len(Nodes) \in Nat /\ Len(Coins) \in Nat /\ DOMAIN Nodes = 1..Len(Nodes) /\ DOMAIN Coins = 1..Len(Coins)
  BY Federation, Purse
<1>2. CoinSet = {Coins[k] : k \in DOMAIN Coins} /\ NodeSet = {Nodes[k] : k \in DOMAIN Nodes}
  BY DEF CoinSet, NodeSet, ToSet
<1>3. IsFiniteSet(DOMAIN Coins) /\ IsFiniteSet(DOMAIN Nodes)
  BY <1>1, FS_Interval
<1>4. Coins \in Surjection(DOMAIN Coins, CoinSet) /\ Nodes \in Surjection(DOMAIN Nodes, NodeSet)
  BY <1>1, <1>2, Federation, Purse DEF Surjection
<1>5. IsFiniteSet(CoinSet) /\ IsFiniteSet(NodeSet)
  BY <1>3, <1>4, FS_Surjection
<1>6. \A s \in SUBSET CoinSet : IsFiniteSet(s) /\ Cardinality(s) \in Nat
  BY <1>5, FS_Subset, FS_CardinalityType
<1> QED
  BY <1>1, <1>2, <1>5, <1>6

(* The scores order the nodes: none is asked twice.                        *)
LEMMA ScoresOrder == ASSUME NEW sc \in [NodeSet -> Nat] PROVE IsOrder(Ordered(sc))
<1> DEFINE D == DOMAIN Nodes
           N == Len(Nodes)
           before(i, j) == sc[Nodes[i]] < sc[Nodes[j]] \/ (sc[Nodes[i]] = sc[Nodes[j]] /\ i < j)
           Ahead(i) == {j \in D : before(j, i)}
           place(i) == 1 + Cardinality(Ahead(i))
<1>1. N \in Nat /\ D = 1..N /\ \A k \in D : sc[Nodes[k]] \in Nat /\ Nodes[k] \in NodeSet
  BY Sets
<1>2. IsFiniteSet(D) /\ Cardinality(D) = N
  BY <1>1, FS_Interval
<1>3. ASSUME NEW i \in D PROVE IsFiniteSet(Ahead(i)) /\ Cardinality(Ahead(i)) \in Nat /\ place(i) \in 1..N
  <2>1. Ahead(i) \in SUBSET (D \ {i})
    BY <1>1
  <2>2. IsFiniteSet(D \ {i}) /\ Cardinality(D \ {i}) = N - 1
    BY <1>2, FS_RemoveElement
  <2>3. IsFiniteSet(Ahead(i)) /\ Cardinality(Ahead(i)) <= N - 1
    BY <2>1, <2>2, FS_Subset
  <2>4. Cardinality(Ahead(i)) \in Nat
    BY <2>3, FS_CardinalityType
  <2> HIDE DEF Ahead
  <2> QED
    BY <1>1, <2>3, <2>4
<1>4. ASSUME NEW i \in D, NEW j \in D, before(i, j) PROVE place(i) < place(j)
  <2>1. Ahead(i) \in SUBSET (Ahead(j) \ {i})
    BY <1>1, <1>4
  <2>2. i \in Ahead(j)
    BY <1>4
  <2>3. IsFiniteSet(Ahead(j) \ {i}) /\ Cardinality(Ahead(j) \ {i}) = Cardinality(Ahead(j)) - 1
    BY <1>3, <2>2, FS_RemoveElement
  <2>4. Cardinality(Ahead(i)) <= Cardinality(Ahead(j)) - 1
    BY <2>1, <2>3, FS_Subset
  <2> HIDE DEF Ahead
  <2> QED
    BY <1>3, <2>4
<1>5. PICK f : f = [i \in 1..N |-> place(i)]
  OBVIOUS
<1>6. f \in Injection(1..N, 1..N)
  <2>1. f \in [1..N -> 1..N]
    BY <1>1, <1>3, <1>5
  <2>2. ASSUME NEW i \in 1..N, NEW j \in 1..N, i # j PROVE f[i] # f[j]
    <3>1. before(i, j) \/ before(j, i)
      BY <1>1, <2>2
    <3> HIDE DEF Ahead
    <3>2. place(i) \in Nat /\ place(j) \in Nat
      BY <1>1, <1>3
    <3>3. place(i) < place(j) \/ place(j) < place(i)
      BY <1>1, <1>4, <3>1
    <3> QED
      BY <1>5, <3>2, <3>3
  <2> QED
    BY <2>1, <2>2 DEF Injection, IsInjective
<1>7. f \in Surjection(1..N, 1..N)
  <2>1. IsFiniteSet(1..N)
    BY <1>1, <1>2
  <2> QED
    BY <1>6, <2>1, FS_Injection
<1>8. \A k \in D : \E i \in D : place(i) = k
  BY <1>1, <1>5, <1>7 DEF Surjection
<1>9. PICK g : g = [k \in D |-> CHOOSE i \in D : place(i) = k]
  OBVIOUS
<1>10. \A k \in D : g[k] \in D /\ place(g[k]) = k
  BY <1>8, <1>9
<1>11. Ordered(sc) = [k \in D |-> Nodes[g[k]]]
  BY <1>9 DEF Ordered
<1>12. Ordered(sc) \in Seq(NodeSet) /\ Len(Ordered(sc)) = N
  <2>1. PICK o : o = Ordered(sc)
    OBVIOUS
  <2>2. o \in [1..N -> NodeSet]
    BY <1>1, <1>10, <1>11, <2>1
  <2>3. o \in Seq(NodeSet) /\ Len(o) = N
    BY <1>1, <2>2, SeqDef, LenProperties
  <2> QED
    BY <2>1, <2>3
<1>13. ASSUME NEW i \in D, NEW j \in D, Ordered(sc)[i] = Ordered(sc)[j] PROVE i = j
  <2>1. Nodes[g[i]] = Nodes[g[j]]
    BY <1>11, <1>13
  <2>2. g[i] = g[j]
    BY <1>10, <2>1, Federation
  <2> QED
    BY <1>10, <2>2
<1> QED
  BY <1>12, <1>13 DEF IsOrder

(* The others are all but GBX_LAST_NODE.                                   *)
LEMMA OthersLeave ==
  ASSUME last \in NodeSet PROVE Others \in Seq(NodeSet) /\ \A k \in DOMAIN Others : Others[k] # last
<1>1. PICK m : m = CHOOSE k \in DOMAIN Nodes : Nodes[k] = last
  OBVIOUS
<1>2. m \in 1..Len(Nodes) /\ Nodes[m] = last /\ Len(Nodes) \in Nat
  BY <1>1, Sets
<1>3. PICK a, b : a = SubSeq(Nodes, 1, m - 1) /\ b = SubSeq(Nodes, m + 1, Len(Nodes))
  OBVIOUS
<1>4. Others = a \o b
  BY <1>1, <1>3 DEF Others, RemoveAt
<1>5. a \in Seq(NodeSet) /\ Len(a) = m - 1 /\ \A k \in 1..(m - 1) : a[k] = Nodes[k]
  BY <1>2, <1>3, Sets
<1>6. b \in Seq(NodeSet) /\ Len(b) = Len(Nodes) - m /\ \A k \in 1..(Len(Nodes) - m) : b[k] = Nodes[m + k]
  <2>1. m + 1 \in Int /\ Len(Nodes) \in Int /\ \A i \in (m + 1)..Len(Nodes) : Nodes[i] \in NodeSet
    BY <1>2, Sets
  <2>2. /\ b \in Seq(NodeSet) /\ Len(b) = IF m + 1 <= Len(Nodes) THEN Len(Nodes) - (m + 1) + 1 ELSE 0
        /\ \A k \in 1..(Len(Nodes) - (m + 1) + 1) : b[k] = Nodes[m + 1 + k - 1]
    BY <1>3, <2>1, SubSeqProperties
  <2>3. Len(b) = Len(Nodes) - m
    BY <1>2, <2>2
  <2>4. ASSUME NEW k \in 1..(Len(Nodes) - m) PROVE b[k] = Nodes[m + k]
    <3>1. k \in 1..(Len(Nodes) - (m + 1) + 1) /\ m + 1 + k - 1 = m + k
      BY <1>2
    <3> QED
      BY <2>2, <3>1
  <2> QED
    BY <2>2, <2>3, <2>4
<1>7. Others \in Seq(NodeSet) /\ DOMAIN Others = 1..(Len(Nodes) - 1)
  BY <1>2, <1>4, <1>5, <1>6
<1>8. ASSUME NEW k \in 1..(Len(Nodes) - 1) PROVE Others[k] # last
  <2>1. CASE k < m
    <3>1. Others[k] = Nodes[k]
      BY <1>2, <1>4, <1>5, <1>6, <2>1
    <3> QED
      BY <1>2, <2>1, <3>1, Federation, Sets
  <2>2. CASE ~(k < m)
    <3>1. Others[k] = b[k - (m - 1)]
      <4>1. k \in 1..(Len(a) + Len(b)) /\ k > Len(a) /\ a \in Seq(NodeSet) /\ b \in Seq(NodeSet)
        BY <1>2, <1>5, <1>6, <2>2
      <4>2. (a \o b)[k] = b[k - Len(a)]
        BY <4>1
      <4> QED
        BY <1>4, <1>5, <4>2
    <3>2. k - (m - 1) \in 1..(Len(Nodes) - m) /\ m + (k - (m - 1)) = k + 1
      BY <1>2, <2>2
    <3>3. Others[k] = Nodes[k + 1]
      BY <1>6, <3>1, <3>2
    <3> QED
      BY <1>2, <2>2, <3>3, Federation, Sets
  <2> QED
    BY <2>1, <2>2
<1> QED
  BY <1>7, <1>8

(* The next batch is one of the coins left.                                *)
LEMMA BatchIs == ASSUME listing \subseteq CoinSet, listing # {} PROVE \E c \in listing : Batch = {c}
<1>1. PICK K : K = {k \in DOMAIN Coins : Coins[k] \in listing}
  OBVIOUS
<1>2. K \in SUBSET Nat /\ K # {}
  BY <1>1, Sets
<1>3. Min(K) \in K
  BY <1>2, MinOf
<1> QED
  BY <1>1, <1>3 DEF Batch

LEMMA Purses ==
  ASSUME WalletInv
  PROVE  /\ spentIn \in [CoinSet -> 0..Pending] /\ by \in [CoinSet -> Payments \cup {NoPayment, Elsewhere}]
         /\ \A c \in CoinSet : /\ spentIn[c] = 0 <=> by[c] = NoPayment
                               /\ marks[c] # "none" => by[c] # NoPayment
         /\ marks \in [CoinSet -> Marks]
         /\ phase \in {"idle", "gate", "retry", "read", "emptied", "cross", "lp", "post", "empty", "unread"}
         /\ (pay = NoPayment <=> phase = "idle") /\ tip \in 0..MaxTip /\ Pending = MaxTip + 1 /\ MaxTip \in Nat
         /\ idx \in [NodeSet -> Nat] /\ score \in [NodeSet -> Nat] /\ got \in [NodeSet -> Word]
         /\ pay \in Payments \cup {NoPayment} /\ result \in [Payments -> Results]
         /\ listing \subseteq CoinSet /\ paid \subseteq CoinSet /\ turn \in Nat /\ confirms \in Nat
BY Purse DEF WalletInv, PurseTyped, CoinsTyped, GateTyped, Pending

LEMMA CoinsTypedSame == ASSUME WalletInv, UNCHANGED <<spentIn, by, marks>> PROVE CoinsTyped'
BY DEF WalletInv, PurseTyped, CoinsTyped

LEMMA MarksTyped ==
  ASSUME WalletInv, UNCHANGED <<spentIn, by>>, marks' \in [CoinSet -> Marks],
         \A c \in CoinSet : marks'[c] # "none" => marks[c] # "none"
  PROVE  CoinsTyped'
BY DEF WalletInv, PurseTyped, CoinsTyped

USE DEF chainVars, gateVars, historyVars, sideVars, Loss, Replied, Event

(* What most steps leave alone.                                            *)
LEMMA GateSame ==
  ASSUME WalletInv, UNCHANGED <<phase, order, got, again, turn, confirms, agreed, heard, emptySaid, last, overwritten>> PROVE GateInv'
BY DEF WalletInv, GateInv, GateHeardHonest, EmptyConfirmed, AtGate, AtRetry, AtRead

LEMMA GateOver ==
  ASSUME WalletInv, phase' \notin {"idle", "gate", "retry", "read", "emptied", "cross", "empty"}, UNCHANGED <<agreed, heard>> PROVE GateInv'
BY DEF WalletInv, GateInv, GateHeardHonest, EmptyConfirmed, AtGate, AtRetry, AtRead

LEMMA CoinsSame ==
  ASSUME WalletInv, phase # "post", phase' # "post", UNCHANGED <<by, marks, forgotten, reused>> PROVE CoinInv'
<1>1. \A c \in CoinSet : ~Loose(c)
  BY DEF WalletInv, CoinInv, Waiting
<1> QED
  BY <1>1 DEF WalletInv, CoinInv, Loose, ReuseExplained

LEMMA Remembered ==
  ASSUME WalletInv, NEW l, Remember(l), phase # "post", UNCHANGED <<by, reused>>
  PROVE  /\ marks' \in [CoinSet -> Marks] /\ \A c \in CoinSet : marks'[c] # "none" => marks[c] # "none"
         /\ ReuseExplained' /\ \A c \in CoinSet : ~Loose(c)'
<1>1. /\ \A c \in CoinSet : ~Loose(c) /\ marks[c] \in Marks
      /\ ReuseExplained
  BY Purses DEF WalletInv, CoinInv, Waiting
<1>2. forgotten \subseteq forgotten'
  BY DEF Remember
<1>3. \A c \in CoinSet : marks[c] = "seen" /\ c \notin l => <<c, "gone">> \in forgotten'
  BY DEF Remember
<1>4. \A c \in CoinSet : marks[c] = "old" => <<c, "expired">> \in forgotten'
  BY DEF Remember
<1>5. \A c \in CoinSet : marks'[c] = IF c \in Gone(l) \cup Expired THEN "none"
                                  ELSE IF marks[c] = "new" /\ c \in l THEN "seen" ELSE marks[c]
  BY DEF Remember
<1>6. \A c \in CoinSet : (c \in Gone(l) <=> marks[c] = "seen" /\ c \notin l) /\ (c \in Expired <=> marks[c] = "old")
  BY DEF Gone, Expired
<1>7. marks' \in [CoinSet -> Marks]
  BY <1>1 DEF Remember, Marks
<1>8. ASSUME NEW c \in CoinSet PROVE (marks'[c] # "none" => marks[c] # "none") /\ ~Loose(c)'
  BY <1>1, <1>2, <1>3, <1>4, <1>5, <1>6 DEF Loose
<1>9. ReuseExplained'
  BY <1>1, <1>2 DEF ReuseExplained
<1> QED
  BY <1>7, <1>8, <1>9

LEMMA PaySame ==
  ASSUME WalletInv, UNCHANGED <<phase, pay, paid, listing, result, begun, by>> PROVE PayInv'
BY DEF WalletInv, PayInv, PayOf, Of, Left, Batch

LEMMA PayNotYet ==
  ASSUME WalletInv, phase # "post", UNCHANGED <<pay, paid, result, begun, by>> PROVE PayInv'
<1>1. paid = {} /\ paid' = {}
  BY DEF WalletInv, PayInv
<1>2. pay # NoPayment => Cardinality(paid) <= Amount[pay] /\ result[pay] # "paid"
  BY DEF WalletInv, PayInv
<1>3. ASSUME NEW p \in Payments PROVE PayOf(p)'
  <2>1. PayOf(p)
    BY DEF WalletInv, PayInv
  <2> QED
    BY <1>1, <2>1 DEF PayOf, Of
<1>4. pay' # NoPayment => /\ paid' \subseteq Of(pay)' /\ paid' \cap listing' = {}
                          /\ Cardinality(paid') <= Amount[pay'] /\ result'[pay'] # "paid"
  BY <1>1, <1>2
<1> QED
  BY <1>1, <1>3, <1>4 DEF PayInv

LEMMA PayEnds ==
  ASSUME WalletInv, phase \notin {"post", "idle"}, NEW r, r # "paid", Ends(pay, r), UNCHANGED <<by, begun>> PROVE PayInv'
<1>1. pay \in Payments /\ paid = {} /\ paid' = {} /\ pay' = NoPayment /\ pay' \notin Payments
  BY Purses, Purse DEF WalletInv, PayInv, Ends
<1>2. result'[pay] = r /\ \A p \in Payments : p # pay => result'[p] = result[p]
  BY <1>1, Purses DEF Ends
<1>3. ASSUME NEW p \in Payments PROVE PayOf(p)'
  <2>1. PayOf(p) /\ p # pay'
    BY <1>1 DEF WalletInv, PayInv
  <2> QED
    BY <1>1, <1>2, <2>1 DEF PayOf, Of
<1> QED
  BY <1>1, <1>3 DEF PayInv

(* What a node says is a balance.                                          *)
LEMMA SaysBalance ==
  ASSUME NEW n \in NodeSet, NEW v \in Says(n)
  PROVE  /\ v \in Balances /\ Said(v) \in Word /\ Said(v).said = "value" /\ Said(v).value = v
         /\ n \notin Liars => v = BalanceAt(n)
BY DEF Says, Balances, BalanceAt, UnspentAt, Said, Word

LEMMA NodesSay == Asked \in Word /\ Failed \in Word /\ NotAsked \in Word
BY DEF Asked, Failed, NotAsked, Word, Balances

LEMMA GateEnds == ASSUME WalletInv, NEW q, NEW r, Ends(q, r), UNCHANGED agreed, heard \subseteq heard' PROVE GateInv'
BY DEF WalletInv, GateInv, GateHeardHonest, EmptyConfirmed, AtGate, AtRetry, AtRead, Ends
-----------------------------------------------------------------------------
LEMMA MineStep == ASSUME WalletInv, Mine PROVE WalletInv'
<1>1. PurseTyped'
  <2>1. tip + 1 \in 1..MaxTip /\ tip' = tip + 1 /\ tip' \in 0..MaxTip
    BY Purses, Purse DEF Mine
  <2>2. PICK S \in SUBSET {c \in CoinSet : spentIn[c] = Pending} : spentIn' = [c \in CoinSet |-> IF c \in S THEN tip + 1 ELSE spentIn[c]]
    BY DEF Mine
  <2>3. spentIn' \in [CoinSet -> 0..Pending]
    BY <2>1, <2>2, Purses
  <2>4. ASSUME NEW c \in CoinSet PROVE spentIn'[c] = 0 <=> by[c] = NoPayment
    <3>1. spentIn[c] = 0 <=> by[c] = NoPayment
      BY Purses
    <3>2. CASE c \in S
      <4>1. spentIn[c] # 0 /\ spentIn'[c] # 0
        BY <2>1, <2>2, <3>2, Purses
      <4> QED
        BY <3>1, <4>1
    <3>3. CASE c \notin S
      <4>1. spentIn'[c] = spentIn[c]
        BY <2>2, <3>3
      <4> QED
        BY <3>1, <4>1
    <3> QED
      BY <3>2, <3>3
  <2> QED
    BY <2>1, <2>3, <2>4, Purses DEF Mine, PurseTyped, CoinsTyped, GateTyped
<1>2. GateInv'
  BY GateSame DEF Mine
<1>3. CoinInv'
  BY DEF WalletInv, CoinInv, ReuseExplained, Loose, Waiting, Left, Batch, Mine
<1>4. PayInv'
  BY PaySame DEF Mine
<1> QED
  BY <1>1, <1>2, <1>3, <1>4 DEF WalletInv

LEMMA IndexBlockStep == ASSUME WalletInv, NEW n \in NodeSet, IndexBlock(n) PROVE WalletInv'
<1>1. PurseTyped'
  BY Purses, CoinsTypedSame DEF IndexBlock, PurseTyped, GateTyped
<1>2. GateInv'
  BY GateSame DEF IndexBlock
<1>3. CoinInv'
  BY DEF WalletInv, CoinInv, ReuseExplained, Loose, Waiting, Left, Batch, IndexBlock
<1>4. PayInv'
  BY PaySame DEF IndexBlock
<1> QED
  BY <1>1, <1>2, <1>3, <1>4 DEF WalletInv

LEMMA TenMinutesStep == ASSUME WalletInv, NEW c \in CoinSet, TenMinutes(c) PROVE WalletInv'
<1>1. /\ marks' \in [CoinSet -> Marks] /\ marks[c] # "none" /\ marks'[c] = "old"
      /\ \A d \in CoinSet : d # c => marks'[d] = marks[d]
  BY Purses DEF TenMinutes, Marks
<1>2. PurseTyped'
  BY <1>1, Purses, MarksTyped DEF TenMinutes, PurseTyped, GateTyped
<1>3. GateInv'
  BY GateSame DEF TenMinutes
<1>4. CoinInv'
  <2>1. \A d \in CoinSet : Loose(d)' => Loose(d)
    BY <1>1 DEF Loose, TenMinutes
  <2>2. \A d \in CoinSet : Waiting(d) => Waiting(d)'
    BY DEF Waiting, Left, Batch, TenMinutes
  <2>3. ReuseExplained'
    BY DEF WalletInv, CoinInv, ReuseExplained, TenMinutes
  <2>4. (phase = "post" => \A d \in listing : marks[d] = "none")'
    BY <1>1, Purses DEF WalletInv, CoinInv, TenMinutes
  <2> QED
    BY <2>1, <2>2, <2>3, <2>4 DEF WalletInv, CoinInv
<1>5. PayInv'
  BY PaySame DEF TenMinutes
<1> QED
  BY <1>2, <1>3, <1>4, <1>5 DEF WalletInv

LEMMA ReadBesideStep == ASSUME WalletInv, NEW k \in DOMAIN Nodes, ReadBeside(k) PROVE WalletInv'
<1>1. \A n \in NodeSet : Ok(score, n)[n] \in Nat /\ Fail(score, n)[n] \in Nat
  BY Purses DEF Ok, Fail
<1>2. score' \in [NodeSet -> Nat]
  BY <1>1, Purses DEF ReadBeside
<1>3. Ordered(score)[k] \in NodeSet
  <2>1. IsOrder(Ordered(score))
    BY Purses, ScoresOrder
  <2> QED
    BY <2>1, Sets DEF IsOrder
<1>4. PurseTyped'
  BY <1>2, Purses, CoinsTypedSame DEF ReadBeside, PurseTyped, GateTyped
<1>5. GateInv'
  BY <1>3 DEF WalletInv, GateInv, GateHeardHonest, EmptyConfirmed, AtGate, AtRetry, AtRead, ReadBeside
<1>6. CoinInv'
  BY DEF WalletInv, CoinInv, ReuseExplained, Loose, Waiting, Left, Batch, ReadBeside
<1>7. PayInv'
  BY PaySame DEF ReadBeside
<1> QED
  BY <1>4, <1>5, <1>6, <1>7 DEF WalletInv

LEMMA OtherTabPaysStep == ASSUME WalletInv, NEW c \in CoinSet, OtherTabPays(c) PROVE WalletInv'
<1>1. by[c] = NoPayment /\ marks[c] = "none" /\ Elsewhere # NoPayment /\ Elsewhere \notin Payments
  BY Purses, Purse DEF OtherTabPays, Free
<1>2. /\ spentIn' = [d \in CoinSet |-> IF d = c THEN Pending ELSE spentIn[d]]
      /\ by' = [d \in CoinSet |-> IF d = c THEN Elsewhere ELSE by[d]]
      /\ forgotten' = forgotten \cup {<<c, "tab">>}
  BY DEF OtherTabPays, Enter
<1>3. /\ UNCHANGED <<tip, idx, score, marks, phase, pay, gateVars, turn, confirms, listing, paid, result,
                     agreed, heard, emptySaid, reused, begun, last, overwritten>>
  BY DEF OtherTabPays
<1>4. CoinsTyped'
  <2>1. Pending \in 0..Pending /\ Pending # 0
    BY Purses
  <2>2. spentIn' \in [CoinSet -> 0..Pending] /\ by' \in [CoinSet -> Payments \cup {NoPayment, Elsewhere}]
    BY <1>2, <2>1, Purses
  <2>3. ASSUME NEW d \in CoinSet PROVE (spentIn'[d] = 0 <=> by'[d] = NoPayment) /\ (marks[d] # "none" => by'[d] # NoPayment)
    BY <1>1, <1>2, <2>1, Purses
  <2> QED
    BY <1>3, <2>2, <2>3, Purses DEF CoinsTyped, Pending
<1>5. PurseTyped'
  BY <1>3, <1>4, Purses DEF PurseTyped, GateTyped
<1>6. GateInv'
  BY <1>3, GateSame
<1>7. CoinInv'
  <2>1. ReuseExplained'
    BY <1>2, <1>3 DEF WalletInv, CoinInv, ReuseExplained
  <2>2. ASSUME NEW d \in CoinSet, Loose(d)' PROVE Waiting(d)'
    <3>1. d # c
      BY <1>2, <2>2 DEF Loose
    <3>2. Loose(d) /\ by'[d] = by[d]
      BY <1>2, <1>3, <2>2, <3>1 DEF Loose
    <3>3. Waiting(d)
      BY <3>2 DEF WalletInv, CoinInv
    <3> QED
      BY <1>3, <3>2, <3>3 DEF Waiting, Left, Batch
  <2>3. (phase = "post" => \A d \in listing : marks[d] = "none")'
    BY <1>3 DEF WalletInv, CoinInv
  <2> QED
    BY <2>1, <2>2, <2>3 DEF CoinInv
<1>8. PayInv'
  <2>1. ASSUME NEW p \in Payments PROVE Of(p)' = Of(p)
    <3>1. \A d \in CoinSet : by'[d] = p <=> by[d] = p
      BY <1>1, <1>2, Purse
    <3> QED
      BY <3>1 DEF Of
  <2>2. ASSUME NEW p \in Payments PROVE PayOf(p)'
    <3>1. PayOf(p)
      BY DEF WalletInv, PayInv
    <3> QED
      BY <1>3, <2>1, <3>1 DEF PayOf, Left, Batch
  <2>3. pay # NoPayment => pay \in Payments
    BY Purses
  <2> QED
    BY <1>3, <2>1, <2>2, <2>3 DEF WalletInv, PayInv
<1> QED
  BY <1>5, <1>6, <1>7, <1>8 DEF WalletInv

LEMMA BrowseStep == ASSUME WalletInv, NEW n \in NodeSet, Browse(n) PROVE WalletInv'
<1>1. PICK l : l = UnspentAt(idx[n])
  OBVIOUS
<1>2. Remember(l) /\ phase = "idle"
  BY <1>1 DEF Browse
<1>3. /\ marks' \in [CoinSet -> Marks] /\ \A c \in CoinSet : marks'[c] # "none" => marks[c] # "none"
      /\ ReuseExplained' /\ \A c \in CoinSet : ~Loose(c)'
  BY <1>2, Remembered DEF Browse
<1>4. PurseTyped'
  BY <1>3, Purses, MarksTyped DEF Browse, PurseTyped, GateTyped
<1>5. GateInv'
  BY GateSame DEF Browse
<1>6. CoinInv'
  BY <1>2, <1>3 DEF CoinInv, Browse
<1>7. PayInv'
  BY PaySame DEF Browse
<1> QED
  BY <1>4, <1>5, <1>6, <1>7 DEF WalletInv

LEMMA SendStep == ASSUME WalletInv, NEW p \in Payments, Send(p) PROVE WalletInv'
<1>1. /\ phase = "idle" /\ phase' = "gate" /\ pay = NoPayment /\ pay' = p /\ p # NoPayment /\ result[p] # "paid"
  BY Purses, Purse DEF Send
<1>2. got' \in [NodeSet -> Word] /\ \A n \in NodeSet : got'[n] = Asked \/ got'[n] = NotAsked
  BY NodesSay DEF Send
<1>3. IsOrder(order')
  BY Purses, ScoresOrder DEF Send
<1>4. PurseTyped'
  BY <1>1, <1>2, Purses, CoinsTypedSame DEF Send, PurseTyped, GateTyped
<1>5. GateInv'
  <2>1. GateHeardHonest' /\ EmptyConfirmed' /\ AtRetry'
    BY <1>1 DEF Send, GateHeardHonest, EmptyConfirmed, AtRetry, NotAsked
  <2>2. AtGate' /\ AtRead'
    BY <1>1, <1>2, <1>3 DEF WalletInv, GateInv, Send, AtGate, AtRead, Asked, NotAsked, IsOrder
  <2> QED
    BY <2>1, <2>2 DEF GateInv
<1>6. CoinInv'
  BY <1>1, CoinsSame DEF Send
<1>7. PayInv'
  <2>1. paid = {} /\ paid' = {} /\ Cardinality(paid') = 0
    BY <1>1, FS_EmptySet DEF WalletInv, PayInv, Send
  <2>2. ASSUME NEW q \in Payments PROVE PayOf(q)'
    <3>1. PayOf(q) /\ q # pay
      BY <1>1, Purse DEF WalletInv, PayInv
    <3> QED
      BY <1>1, <2>1, <3>1 DEF PayOf, Of, Send
  <2>3. Amount[p] \in Nat
    BY Purse
  <2> QED
    BY <1>1, <2>1, <2>2, <2>3 DEF PayInv, Send
<1> QED
  BY <1>4, <1>5, <1>6, <1>7 DEF WalletInv

LEMMA ReturnStep == ASSUME WalletInv, NEW n \in NodeSet, Return(n) PROVE WalletInv'
<1>1. phase = "gate" /\ phase' = "gate" /\ heard \subseteq heard'
  BY DEF Return, Hear
<1>2. /\ got' \in [NodeSet -> Word] /\ \A m \in NodeSet : m # n => got'[m] = got[m]
      /\ n \notin Liars /\ got'[n].said = "value" => got'[n].value \in heard'
  <2>1. ASSUME got' = [got EXCEPT ![n] = Failed] PROVE <1>2
    <3>1. Failed.said # "value"
      BY DEF Failed
    <3> QED
      BY <2>1, <3>1, NodesSay, Purses
  <2>2. ASSUME Hear(n), NEW v \in Says(n), got' = [got EXCEPT ![n] = Said(v)] PROVE <1>2
    <3>1. Said(v) \in Word /\ Said(v).value = v /\ (n \notin Liars => v = BalanceAt(n))
      BY <2>2, SaysBalance
    <3> QED
      BY <2>2, <3>1, Purses DEF Hear
  <2> QED
    BY <2>1, <2>2 DEF Return
<1>3. PurseTyped'
  BY <1>1, <1>2, Purses, CoinsTypedSame DEF Return, PurseTyped, GateTyped
<1>4. GateInv'
  BY <1>1, <1>2 DEF WalletInv, GateInv, GateHeardHonest, EmptyConfirmed, AtGate, AtRetry, AtRead, Return, NotAsked
<1>5. CoinInv'
  BY <1>1, CoinsSame DEF Return
<1>6. PayInv'
  BY <1>1, PayNotYet DEF Return
<1> QED
  BY <1>3, <1>4, <1>5, <1>6 DEF WalletInv

LEMMA RefillStep == ASSUME WalletInv, Refill PROVE WalletInv'
<1>1. phase = "gate" /\ phase' = "gate" /\ DOMAIN order = 1..Len(Nodes) /\ Len(Nodes) \in Nat
  BY Sets DEF Refill, WalletInv, GateInv, AtGate, IsOrder
<1>2. PICK m : m = order[Min(Unasked)]
  OBVIOUS
<1>3. m \in NodeSet /\ got' = [got EXCEPT ![m] = Asked]
  <2>1. Unasked \in SUBSET Nat /\ Unasked # {} /\ Unasked \subseteq DOMAIN order
    BY <1>1 DEF Refill, Unasked
  <2>2. Min(Unasked) \in DOMAIN order
    BY <2>1, MinOf
  <2>3. order \in Seq(NodeSet)
    BY <1>1 DEF WalletInv, GateInv, AtGate, IsOrder
  <2> QED
    BY <1>2, <2>2, <2>3 DEF Refill
<1>4. got' \in [NodeSet -> Word] /\ got'[m].said = "asked" /\ \A n \in NodeSet : n # m => got'[n] = got[n]
  BY <1>3, NodesSay, Purses DEF Asked
<1>5. PurseTyped'
  BY <1>1, <1>4, Purses, CoinsTypedSame DEF Refill, PurseTyped, GateTyped
<1>6. GateInv'
  BY <1>1, <1>3, <1>4 DEF WalletInv, GateInv, GateHeardHonest, EmptyConfirmed, AtGate, AtRetry, AtRead, Refill, NotAsked
<1>7. CoinInv'
  BY <1>1, CoinsSame DEF Refill
<1>8. PayInv'
  BY <1>1, PayNotYet DEF Refill
<1> QED
  BY <1>5, <1>6, <1>7, <1>8 DEF WalletInv
(* The lists of the read: a coin stays spent, the coins listed are known.  *)
LEMMA EndsStep ==
  ASSUME WalletInv, phase \notin {"post", "idle"}, NEW r \in Results, r # "paid", Ends(pay, r), heard \subseteq heard',
         score' \in [NodeSet -> Nat],
         UNCHANGED <<spentIn, by, tip, idx, marks, agreed, forgotten, reused, begun>>
  PROVE  WalletInv'
<1>1. phase' = "idle" /\ pay' = NoPayment /\ result' \in [Payments -> Results] /\ got' \in [NodeSet -> Word]
  BY Purses, NodesSay DEF Ends
<1>2. PurseTyped'
  BY <1>1, Purses, CoinsTypedSame DEF Ends, PurseTyped, GateTyped
<1>3. GateInv'
  BY GateEnds
<1>4. CoinInv'
  BY <1>1, CoinsSame
<1>5. PayInv'
  BY PayEnds
<1> QED
  BY <1>2, <1>3, <1>4, <1>5 DEF WalletInv

(* Two that say the same are not both liars.                               *)
LEMMA HonestAgrees ==
  ASSUME WalletInv, NEW v \in Majorities PROVE \E n \in NodeSet \ Liars : got[n].said = "value" /\ got[n].value = v
<1>1. Cardinality(Agree(v)) >= 2 /\ Agree(v) \subseteq NodeSet
  BY DEF Majorities, Agree, Answering
<1>2. IsFiniteSet(Liars) /\ Cardinality(Liars) <= 1
  BY Sets, Federation, FS_Subset DEF NodeSet
<1>3. ~(Agree(v) \subseteq Liars)
  <2> SUFFICES ASSUME Agree(v) \subseteq Liars PROVE FALSE
    OBVIOUS
  <2>1. Cardinality(Agree(v)) <= Cardinality(Liars) /\ IsFiniteSet(Agree(v))
    BY <1>2, FS_Subset
  <2>2. Cardinality(Agree(v)) \in Nat /\ Cardinality(Liars) \in Nat
    BY <1>2, <2>1, FS_CardinalityType
  <2> QED
    BY <1>1, <1>2, <2>1, <2>2
<1> QED
  BY <1>1, <1>3 DEF Agree, Answering

LEMMA ScoresTyped == ASSUME WalletInv PROVE Scores \in [NodeSet -> Nat]
BY Purses DEF Scores, Ok, Fail

LEMMA OkTyped ==
  ASSUME WalletInv, NEW n \in NodeSet PROVE Ok(score, n) \in [NodeSet -> Nat] /\ Fail(score, n) \in [NodeSet -> Nat]
BY Purses DEF Ok, Fail

(* The read that an agreed balance starts.                                 *)
LEMMA ReadStarts ==
  ASSUME WalletInv, phase \in {"gate", "retry"}, ToRead, Len(Nodes) >= 1, agreed'.said = "value", agreed'.value \in heard',
         heard \subseteq heard', score' \in [NodeSet -> Nat],
         UNCHANGED <<spentIn, by, tip, idx, marks, pay, result, confirms, listing, paid, forgotten, reused, begun>>
  PROVE  WalletInv'
<1>1. phase' = "read" /\ got' \in [NodeSet -> Word] /\ IsOrder(order') /\ turn' = 1 /\ turn' \in Nat
  BY NodesSay, ScoresOrder DEF ToRead
<1>2. PurseTyped'
  BY <1>1, Purses, CoinsTypedSame DEF PurseTyped, GateTyped
<1>3. GateInv'
  <2>1. confirms' = 0 /\ turn' \in 1..Len(Nodes)
    BY <1>1, Sets DEF WalletInv, GateInv, AtRead
  <2>2. AtGate' /\ AtRetry' /\ AtRead'
    BY <1>1, <2>1 DEF AtGate, AtRetry, AtRead, IsOrder
  <2>3. GateHeardHonest' /\ EmptyConfirmed'
    BY <1>1 DEF GateHeardHonest, EmptyConfirmed
  <2> QED
    BY <2>2, <2>3 DEF GateInv
<1>4. CoinInv'
  BY <1>1, CoinsSame
<1>5. PayInv'
  BY <1>1, PayNotYet
<1> QED
  BY <1>2, <1>3, <1>4, <1>5 DEF WalletInv

(* Someone answered, so there is someone to ask.                           *)
LEMMA Answerers == Answering # {} => Len(Nodes) >= 1
<1> SUFFICES ASSUME Answering # {} PROVE Len(Nodes) >= 1
  OBVIOUS
<1>1. PICK n \in NodeSet : TRUE
  BY DEF Answering
<1> QED
  BY <1>1, Sets

LEMMA TwoAnswerers == ASSUME ~(Cardinality(Answering) <= 1) PROVE Len(Nodes) >= 2
<1>1. Nodes \in Surjection(DOMAIN Nodes, NodeSet) /\ IsFiniteSet(DOMAIN Nodes) /\ Cardinality(DOMAIN Nodes) = Len(Nodes)
  <2>1. DOMAIN Nodes = 1..Len(Nodes) /\ Len(Nodes) \in Nat
    BY Sets
  <2>2. IsFiniteSet(1..Len(Nodes)) /\ Cardinality(1..Len(Nodes)) = Len(Nodes)
    <3>1. 1 \in Int /\ Len(Nodes) - 1 + 1 = Len(Nodes) /\ (1 > Len(Nodes) <=> Len(Nodes) = 0)
      BY <2>1
    <3> QED
      BY <2>1, <3>1, FS_Interval
  <2> QED
    BY <2>1, <2>2, Sets, Federation DEF Surjection, NodeSet
<1>2. Cardinality(NodeSet) <= Len(Nodes)
  BY <1>1, FS_Surjection
<1>3. IsFiniteSet(Answering) /\ Cardinality(Answering) <= Cardinality(NodeSet)
  BY Sets, FS_Subset DEF Answering
<1>4. Cardinality(Answering) \in Nat /\ Cardinality(NodeSet) \in Nat /\ Len(Nodes) \in Nat
  BY <1>3, Sets, FS_CardinalityType
<1> QED
  BY <1>2, <1>3, <1>4

LEMMA TallyStep == ASSUME WalletInv, Tally PROVE WalletInv'
<1>1. phase = "gate" /\ score' \in [NodeSet -> Nat] /\ heard' = heard
  BY ScoresTyped DEF Tally
<1>2. ASSUME Majorities # {} PROVE WalletInv'
  <2>1. PICK v \in Majorities : agreed' = [said |-> "value", value |-> v]
    BY <1>2 DEF Tally
  <2>2. PICK n \in NodeSet \ Liars : got[n].said = "value" /\ got[n].value = v
    BY HonestAgrees
  <2>3. v \in heard
    BY <1>1, <2>2 DEF WalletInv, GateInv, AtGate
  <2>4. Len(Nodes) >= 1
    BY <2>2, Answerers DEF Answering
  <2> QED
    BY <1>1, <1>2, <2>1, <2>3, <2>4, ReadStarts DEF Tally
<1>3. ASSUME Majorities = {}, Cardinality(Answering) <= 1 PROVE WalletInv'
  <2>1. PICK r : r = IF Answering = {} THEN "failed" ELSE "refused"
    OBVIOUS
  <2>2. r \in Results /\ r # "paid"
    BY <2>1 DEF Results
  <2>3. Ends(pay, r)
    BY <1>3, <2>1 DEF Tally
  <2> QED
    BY <1>1, <1>3, <2>2, <2>3, EndsStep DEF Tally
<1>4. ASSUME Majorities = {}, ~(Cardinality(Answering) <= 1) PROVE WalletInv'
  <2>1. phase' = "retry" /\ UNCHANGED <<pay, result, confirms, listing, paid, order, got, again, turn, agreed>>
    BY <1>4 DEF Tally
  <2>2. PurseTyped'
    BY <1>1, <2>1, Purses, CoinsTypedSame DEF Tally, PurseTyped, GateTyped
  <2>3. GateInv'
    <3>1. Len(Nodes) >= 2
      BY <1>4, TwoAnswerers
    <3>2. again = <<>> /\ confirms = 0 /\ agreed = NotAsked /\ IsOrder(order)
      BY <1>1 DEF WalletInv, GateInv, AtGate, AtRead
    <3> QED
      BY <1>1, <2>1, <3>1, <3>2 DEF Tally, GateInv, GateHeardHonest, EmptyConfirmed, AtGate, AtRetry, AtRead, NotAsked, IsOrder
  <2>4. CoinInv'
    BY <1>1, <2>1, CoinsSame DEF Tally
  <2>5. PayInv'
    BY <1>1, <2>1, PayNotYet DEF Tally
  <2> QED
    BY <2>2, <2>3, <2>4, <2>5 DEF WalletInv
<1> QED
  BY <1>2, <1>3, <1>4

LEMMA RetryStep == ASSUME WalletInv, Retry PROVE WalletInv'
<1>1. /\ phase = "retry" /\ IsOrder(order) /\ Len(Nodes) >= 2 /\ agreed = NotAsked
      /\ again = <<>> \/ \E v \in Balances : again = <<v>> /\ (order[1] \notin Liars => v \in heard)
  BY DEF Retry, WalletInv, GateInv, AtRetry
<1>2. order[1] \in NodeSet /\ order[2] \in NodeSet /\ order[1] # order[2] /\ 1 \in DOMAIN Nodes /\ 2 \in DOMAIN Nodes
  <2>1. Len(Nodes) \in Nat /\ DOMAIN Nodes = 1..Len(Nodes) /\ Len(order) = Len(Nodes) /\ order \in Seq(NodeSet)
    BY <1>1, Sets DEF IsOrder
  <2>2. 1 \in DOMAIN Nodes /\ 2 \in DOMAIN Nodes /\ 1 \in 1..Len(order) /\ 2 \in 1..Len(order)
    BY <1>1, <2>1
  <2> QED
    BY <1>1, <2>1, <2>2 DEF IsOrder
<1>3. order[1] \notin Liars \/ order[2] \notin Liars
  <2> SUFFICES ASSUME order[1] \in Liars, order[2] \in Liars PROVE FALSE
    OBVIOUS
  <2>1. IsFiniteSet(Liars) /\ Cardinality(Liars) <= 1
    BY Sets, Federation, FS_Subset DEF NodeSet
  <2>2. Cardinality(Liars) \in Nat
    BY <2>1, FS_CardinalityType
  <2>3. Cardinality(Liars \ {order[1]}) = Cardinality(Liars) - 1 /\ IsFiniteSet(Liars \ {order[1]})
    BY <2>1, FS_RemoveElement
  <2>4. order[2] \in Liars \ {order[1]} /\ Cardinality(Liars \ {order[1]}) \in Nat
    BY <1>2, <2>3, FS_CardinalityType
  <2>5. Cardinality(Liars \ {order[1]}) = 0
    BY <2>1, <2>2, <2>3, <2>4
  <2> QED
    BY <2>3, <2>4, <2>5, FS_EmptySet
<1>4. ASSUME NEW r, r = "refused", Ends(pay, r), heard \subseteq heard', UNCHANGED agreed PROVE WalletInv'
  BY <1>1, <1>4, EndsStep, Purses DEF Retry, Results
<1>5. CASE Loss /\ Ends(pay, "refused") /\ UNCHANGED <<agreed, heard>>
  BY <1>4, <1>5
<1>6. ASSUME NEW n, n = order[1 + Len(again)], Hear(n), NEW v \in Says(n),
             IF again = <<>> THEN again' = <<v>> /\ UNCHANGED <<phase, pay, result, order, got, turn, confirms, listing, paid, agreed>>
             ELSE IF again[1] = v THEN ToRead /\ agreed' = Said(v) /\ UNCHANGED <<pay, result, confirms, listing, paid>>
             ELSE Ends(pay, "refused") /\ UNCHANGED agreed
      PROVE WalletInv'
  <2>1. heard \subseteq heard'
    BY <1>6 DEF Hear
  <2>2. ASSUME again = <<>> PROVE WalletInv'
    <3>1. n = order[1] /\ n \in NodeSet
      BY <1>2, <1>6, <2>2
    <3>2. v \in Balances /\ (n \notin Liars => v \in heard')
      BY <1>6, <3>1, SaysBalance DEF Hear
    <3>3. again' = <<v>> /\ UNCHANGED <<phase, pay, result, order, got, turn, confirms, listing, paid, agreed>>
      BY <1>6, <2>2
    <3>4. PurseTyped'
      BY <3>3, Purses, CoinsTypedSame DEF Retry, PurseTyped, GateTyped
    <3>5. GateInv'
      BY <1>1, <2>1, <3>1, <3>2, <3>3 DEF WalletInv, GateInv, GateHeardHonest, EmptyConfirmed, AtGate, AtRetry, AtRead, Retry, NotAsked, IsOrder
    <3>6. CoinInv'
      BY <1>1, <3>3, CoinsSame DEF Retry
    <3>7. PayInv'
      BY <1>1, <3>3, PayNotYet DEF Retry
    <3> QED
      BY <3>4, <3>5, <3>6, <3>7 DEF WalletInv
  <2>3. ASSUME again # <<>>, again[1] = v PROVE WalletInv'
    <3>1. Len(again) = 1 /\ v \in Balances /\ (order[1] \notin Liars => v \in heard)
      BY <1>1, <2>3
    <3>2. n = order[2] /\ n \in NodeSet
      BY <1>2, <1>6, <3>1
    <3>3. v \in heard'
      BY <1>3, <1>6, <2>1, <3>1, <3>2, SaysBalance DEF Hear
    <3>4. ToRead /\ agreed' = Said(v) /\ UNCHANGED <<pay, result, confirms, listing, paid>>
      BY <1>6, <2>3
    <3>5. agreed'.said = "value" /\ agreed'.value \in heard'
      BY <3>3, <3>4 DEF Said
    <3>6. score' \in [NodeSet -> Nat] /\ Len(Nodes) >= 1
      BY <1>1, Purses, Sets DEF Retry
    <3> QED
      BY <1>1, <2>1, <3>4, <3>5, <3>6, ReadStarts DEF Retry
  <2>4. ASSUME again # <<>>, again[1] # v PROVE WalletInv'
    BY <1>4, <1>6, <2>1, <2>4
  <2> QED
    BY <2>2, <2>3, <2>4
<1> QED
  BY <1>1, <1>5, <1>6 DEF Retry
-----------------------------------------------------------------------------
(* A list of coins received, and what of it the device has not spent.      *)
LEMMA CoinsListed ==
  ASSUME WalletInv, phase \in {"read", "cross", "lp"}, NEW l \in SUBSET CoinSet, Filter(l), phase' \in {"empty", "unread", "post"},
         turn' = 1, confirms' \in Nat, score' \in [NodeSet -> Nat],
         UNCHANGED <<spentIn, by, tip, idx, pay, order, got, again, paid, result, reused, begun>>
  PROVE  PurseTyped' /\ CoinInv' /\ PayInv'
<1>1. /\ marks' \in [CoinSet -> Marks] /\ \A c \in CoinSet : marks'[c] # "none" => marks[c] # "none"
      /\ ReuseExplained' /\ \A c \in CoinSet : ~Loose(c)'
  BY Remembered DEF Filter
<1>2. listing' \subseteq CoinSet /\ \A c \in listing' : marks'[c] = "none"
  BY DEF Filter
<1>3. CoinsTyped'
  BY <1>1, MarksTyped
<1>4. GateTyped'
  BY <1>2, Purses DEF GateTyped
<1>5. CoinInv'
  BY <1>1, <1>2 DEF CoinInv
<1>6. PayInv'
  BY PayNotYet
<1> QED
  BY <1>3, <1>4, <1>5, <1>6 DEF PurseTyped

LEMMA UnspentCoins == \A h : UnspentAt(h) \in SUBSET CoinSet
BY DEF UnspentAt

(* Nothing of the coins changes from one request to the next.              *)
LEMMA ReadGoesOn ==
  ASSUME WalletInv, phase \in {"read", "emptied", "cross", "lp"}, phase' \in {"read", "emptied", "cross", "lp", "unread"}, GateInv',
         turn' \in Nat, confirms' \in Nat, score' \in [NodeSet -> Nat],
         UNCHANGED <<spentIn, by, tip, idx, marks, pay, got, listing, paid, result, forgotten, reused, begun>>
  PROVE  WalletInv'
<1>1. CoinsTyped'
  BY CoinsTypedSame
<1>2. GateTyped'
  BY Purses DEF GateTyped
<1>3. CoinInv'
  BY CoinsSame
<1>4. PayInv'
  BY PayNotYet
<1> QED
  BY <1>1, <1>2, <1>3, <1>4 DEF WalletInv, PurseTyped

LEMMA ReadUtxosStep == ASSUME WalletInv, ReadUtxos PROVE WalletInv'
<1>1. /\ phase = "read" /\ IsOrder(order) /\ turn \in 1..Len(Nodes) /\ confirms = 0
      /\ UNCHANGED <<spentIn, by, tip, idx, agreed, heard, reused, begun>>
  BY DEF ReadUtxos, WalletInv, GateInv, AtRead
<1>2. PICK n : n = order[turn]
  OBVIOUS
<1>3. n \in NodeSet /\ Len(order) = Len(Nodes) /\ Len(Nodes) \in Nat
  BY <1>1, <1>2, Sets DEF IsOrder
<1>4. Ok(score, n) \in [NodeSet -> Nat] /\ Fail(score, n) \in [NodeSet -> Nat]
  BY <1>3, OkTyped
<1>5. GateHeardHonest
  BY DEF WalletInv, GateInv
<1>6. ASSUME score' = Ok(score, n), UnspentAt(idx[n]) # {}, Build(UnspentAt(idx[n])), emptySaid' = {} PROVE WalletInv'
  <2>1. phase' \in {"empty", "post"} /\ turn' = 1 /\ confirms' = 0 /\ UNCHANGED <<pay, result, paid, order, got, again>>
    BY <1>6 DEF Build
  <2>2. PurseTyped' /\ CoinInv' /\ PayInv'
    BY <1>1, <1>4, <1>6, <2>1, CoinsListed, UnspentCoins DEF Build
  <2>3. GateInv'
    BY <1>1, <1>5, <1>6, <2>1 DEF GateInv, GateHeardHonest, EmptyConfirmed, AtGate, AtRetry, AtRead
  <2> QED
    BY <2>2, <2>3 DEF WalletInv
<1>7. ASSUME score' = Ok(score, n), phase' = "emptied", last' = n, emptySaid' = {n},
             UNCHANGED <<marks, pay, order, got, again, turn, confirms, listing, paid, result, forgotten>>
      PROVE WalletInv'
  <2>2. IsFiniteSet({n})
    BY FS_Singleton
  <2>3. AtRead'
    BY <1>1, <1>3, <1>7, <2>2 DEF AtRead
  <2>4. GateInv'
    BY <1>1, <1>5, <1>7, <2>3 DEF GateInv, GateHeardHonest, EmptyConfirmed, AtGate, AtRetry
  <2> QED
    BY <1>1, <1>4, <1>7, <2>4, ReadGoesOn, Purses
<1>8. ASSUME score' = Fail(score, n), IF turn < Len(order) THEN turn' = turn + 1 /\ UNCHANGED phase ELSE phase' = "lp" /\ turn' = 0,
             UNCHANGED <<marks, pay, order, got, again, confirms, listing, paid, result, emptySaid, forgotten>>
      PROVE WalletInv'
  <2>1. phase' \in {"read", "lp"} /\ turn' \in Nat /\ (phase' = "read" => turn' \in 1..Len(Nodes))
    BY <1>1, <1>3, <1>8
  <2>2. GateInv'
    BY <1>1, <1>5, <1>8, <2>1 DEF GateInv, GateHeardHonest, EmptyConfirmed, AtGate, AtRetry, AtRead, IsOrder
  <2> QED
    BY <1>1, <1>4, <1>8, <2>1, <2>2, ReadGoesOn, Purses
<1> QED
  BY <1>2, <1>6, <1>7, <1>8 DEF ReadUtxos

LEMMA StartCrossStep == ASSUME WalletInv, StartCross PROVE WalletInv'
<1>1. /\ phase = "emptied" /\ phase' = "cross" /\ order' = Others /\ turn' = 1 /\ overwritten' = (last \notin emptySaid)
      /\ UNCHANGED <<spentIn, by, tip, idx, score, marks, pay, got, again, confirms, listing, paid, result,
                     agreed, heard, emptySaid, forgotten, reused, begun>>
  BY DEF StartCross
<1>2. IsFiniteSet(emptySaid) /\ last \in NodeSet /\ confirms = 0
  BY <1>1 DEF WalletInv, GateInv, AtRead
<1>3. Others \in Seq(NodeSet) /\ \A k \in DOMAIN Others : Others[k] # last
  BY <1>2, OthersLeave
<1>4. AtRead'
  <2>1. overwritten' \/ \E f \in emptySaid' : \A k \in DOMAIN order' : order'[k] # f
    <3>1. CASE last \in emptySaid
      BY <1>1, <1>3, <3>1
    <3>2. CASE last \notin emptySaid
      BY <1>1, <3>2
    <3> QED
      BY <3>1, <3>2
  <2>2. IsFiniteSet(emptySaid') /\ turn' >= 1 /\ order' \in Seq(NodeSet) /\ ~(confirms' > 0) /\ phase' = "cross"
    BY <1>1, <1>2, <1>3
  <2> QED
    BY <2>1, <2>2 DEF AtRead
<1>5. GateInv'
  BY <1>1, <1>4 DEF WalletInv, GateInv, GateHeardHonest, EmptyConfirmed, AtGate, AtRetry
<1> QED
  BY <1>1, <1>2, <1>5, ReadGoesOn, Purses

LEMMA CrossCheckStep == ASSUME WalletInv, CrossCheck PROVE WalletInv'
<1>1. /\ phase = "cross" /\ IsFiniteSet(emptySaid) /\ turn >= 1 /\ turn \in Nat /\ order \in Seq(NodeSet)
      /\ UNCHANGED <<spentIn, by, tip, idx, score, agreed, heard, reused, begun, overwritten>> /\ confirms \in Nat
  BY Purses DEF CrossCheck, WalletInv, GateInv, AtRead
<1>2. \/ overwritten
      \/ \E f \in emptySaid : (\A k \in DOMAIN order : order[k] # f) /\ (confirms > 0 => \E g \in emptySaid : g # f)
  BY <1>1 DEF WalletInv, GateInv, AtRead
<1>3. GateHeardHonest /\ score' \in [NodeSet -> Nat]
  BY <1>1, Purses DEF WalletInv, GateInv
<1>4. ASSUME NEW l \in SUBSET CoinSet, Build(l), l = {} => confirms > 0 /\ emptySaid' = emptySaid, l # {} => emptySaid' = {}
      PROVE WalletInv'
  <2>1. phase' \in {"empty", "post"} /\ turn' = 1 /\ confirms' = 0 /\ UNCHANGED <<pay, result, paid, order, got, again>>
    BY <1>4 DEF Build
  <2>2. PurseTyped' /\ CoinInv' /\ PayInv'
    BY <1>1, <1>3, <1>4, <2>1, CoinsListed DEF Build
  <2>3. Cardinality(emptySaid') >= 2 \/ emptySaid' = {} \/ overwritten'
    <3>1. CASE l # {} \/ overwritten
      BY <1>1, <1>4, <3>1
    <3>2. CASE l = {} /\ ~overwritten
      <4>1. PICK f \in emptySaid, g \in emptySaid : g # f
        BY <1>2, <1>4, <3>2
      <4>2. Cardinality({f, g}) = 2 /\ Cardinality({f, g}) <= Cardinality(emptySaid)
        <5>1. IsFiniteSet({f}) /\ Cardinality({f}) = 1
          BY FS_Singleton
        <5>2. Cardinality({f} \cup {g}) = 2
          BY <4>1, <5>1, FS_AddElement
        <5>3. {f, g} = {f} \cup {g} /\ {f, g} \in SUBSET emptySaid
          OBVIOUS
        <5> QED
          BY <1>1, <5>2, <5>3, FS_Subset
      <4>3. Cardinality(emptySaid) \in Nat
        BY <1>1, FS_CardinalityType
      <4> QED
        BY <1>4, <3>2, <4>2, <4>3
    <3> QED
      BY <3>1, <3>2
  <2>4. GateInv'
    BY <1>1, <1>3, <2>1, <2>3 DEF GateInv, GateHeardHonest, EmptyConfirmed, AtGate, AtRetry, AtRead
  <2> QED
    BY <2>2, <2>4 DEF WalletInv
<1>5. ASSUME phase' = "lp", UNCHANGED <<marks, pay, turn, order, got, again, confirms, listing, paid, result, forgotten>>
      PROVE WalletInv'
  <2>1. GateInv'
    BY <1>1, <1>5, GateOver
  <2> QED
    BY <1>1, <1>3, <1>5, <2>1, ReadGoesOn
<1>6. ASSUME turn \in DOMAIN order, confirms' = confirms + 1, turn' = turn + 1, emptySaid' = emptySaid \cup {order[turn]},
             UNCHANGED <<marks, phase, pay, order, got, again, listing, paid, result, forgotten>>
      PROVE WalletInv'
  <2>1. IsFiniteSet(emptySaid') /\ order[turn] \in emptySaid' /\ emptySaid \subseteq emptySaid'
    BY <1>1, <1>6, FS_AddElement
  <2>2. turn' \in Nat /\ confirms' \in Nat /\ turn' >= 1
    BY <1>1, <1>6
  <2>3. AtRead'
    BY <1>1, <1>2, <1>6, <2>1, <2>2 DEF AtRead
  <2>4. GateInv'
    BY <1>1, <1>3, <1>6, <2>3 DEF GateInv, GateHeardHonest, EmptyConfirmed, AtGate, AtRetry
  <2> QED
    BY <1>1, <1>3, <1>6, <2>2, <2>4, ReadGoesOn
<1>7. ASSUME turn' = turn + 1,
             UNCHANGED <<marks, phase, pay, order, got, again, confirms, listing, paid, result, emptySaid, forgotten>>
      PROVE WalletInv'
  <2>1. turn' \in Nat /\ turn' >= 1
    BY <1>1, <1>7
  <2>2. AtRead'
    BY <1>1, <1>2, <1>7, <2>1 DEF AtRead
  <2>3. GateInv'
    BY <1>1, <1>3, <1>7, <2>2 DEF GateInv, GateHeardHonest, EmptyConfirmed, AtGate, AtRetry
  <2> QED
    BY <1>1, <1>3, <1>7, <2>1, <2>3, ReadGoesOn
<1>8. CASE turn > Len(order) \/ turn > 3
  BY <1>4, <1>5, <1>8 DEF CrossCheck, Confirmed
<1>9. CASE ~(turn > Len(order) \/ turn > 3)
  <2>1. turn \in DOMAIN order
    BY <1>1, <1>9
  <2>2. UnspentAt(idx[order[turn]]) \in SUBSET CoinSet
    BY UnspentCoins
  <2> QED
    BY <1>4, <1>6, <1>7, <1>9, <2>1, <2>2 DEF CrossCheck
<1> QED
  BY <1>8, <1>9

LEMMA ReadLpStep == ASSUME WalletInv, ReadLp PROVE WalletInv'
<1>1. phase = "lp" /\ UNCHANGED <<spentIn, by, tip, idx, score, agreed, heard, reused, begun>> /\ phase' \in {"unread", "post"}
  BY DEF ReadLp
<1>2. score' \in [NodeSet -> Nat] /\ turn \in Nat /\ confirms \in Nat
  BY <1>1, Purses
<1>3. GateInv'
  BY <1>1, GateOver
<1>4. ASSUME Filter(Free), turn' = 1, UNCHANGED <<pay, order, got, again, confirms, paid, result>> PROVE WalletInv'
  <2>1. Free \in SUBSET CoinSet
    BY DEF Free
  <2>2. PurseTyped' /\ CoinInv' /\ PayInv'
    BY <1>1, <1>2, <1>4, <2>1, CoinsListed
  <2> QED
    BY <1>3, <2>2 DEF WalletInv
<1>5. ASSUME phase' = "unread", UNCHANGED <<marks, pay, order, got, again, turn, confirms, listing, paid, result, forgotten>> PROVE WalletInv'
  BY <1>1, <1>2, <1>3, <1>5, ReadGoesOn
<1> QED
  BY <1>4, <1>5 DEF ReadLp

LEMMA GivesUpStep == ASSUME WalletInv, GivesUp PROVE WalletInv'
<1>1. PICK r : r = IF phase = "empty" THEN "empty" ELSE "failed"
  OBVIOUS
<1>2. r \in Results /\ r # "paid" /\ Ends(pay, r) /\ phase \notin {"post", "idle"}
  BY <1>1 DEF GivesUp, Results
<1>3. score' \in [NodeSet -> Nat]
  BY Purses DEF GivesUp
<1> QED
  BY <1>2, <1>3, EndsStep DEF GivesUp
-----------------------------------------------------------------------------
(* What a payment sends: the coin of the batch, for itself.                *)
LEMMA Sending ==
  ASSUME WalletInv, phase = "post", listing # {}, Left > 0
  PROVE  \E c \in listing :
           /\ Batch = {c} /\ c \in CoinSet /\ marks[c] = "none" /\ c \notin paid
           /\ \A d \in CoinSet : Loose(d) => d = c
           /\ by[c] # NoPayment /\ by[c] # pay => \E why \in {"gone", "expired", "failed", "left", "tab"} : <<c, why>> \in forgotten
<1>1. PICK c \in listing : Batch = {c}
  BY BatchIs, Purses
<1>2. c \in CoinSet /\ marks[c] = "none" /\ c \notin paid
  BY Purses DEF WalletInv, CoinInv, PayInv
<1>3. \A d \in CoinSet : Loose(d) => d = c /\ by[d] = pay
  BY <1>1 DEF WalletInv, CoinInv, Waiting
<1> QED
  BY <1>1, <1>2, <1>3 DEF Loose

LEMMA Paying ==
  ASSUME WalletInv, phase = "post"
  PROVE  /\ pay \in Payments /\ Amount[pay] \in Nat /\ Cardinality(paid) \in Nat /\ IsFiniteSet(paid)
         /\ Cardinality(paid) <= Amount[pay] /\ paid \subseteq Of(pay)
         /\ paid \cap listing = {} /\ result[pay] # "paid"
         /\ (Left > 0 <=> Cardinality(paid) < Amount[pay]) /\ (Left = 0 <=> Cardinality(paid) = Amount[pay])
<1>1. pay \in Payments /\ pay # NoPayment /\ Amount[pay] \in Nat
  BY Purses, Purse
<1>2. Cardinality(paid) \in Nat /\ IsFiniteSet(paid)
  BY Purses, Sets
<1>3. Cardinality(paid) <= Amount[pay] /\ paid \subseteq Of(pay) /\ paid \cap listing = {} /\ result[pay] # "paid"
  BY <1>1 DEF WalletInv, PayInv
<1> QED
  BY <1>1, <1>2, <1>3 DEF Left

LEMMA Entered ==
  ASSUME WalletInv, pay \in Payments, NEW c \in CoinSet, Accepts(pay, {c}), Enter(pay, {c})
  PROVE  /\ spentIn' \in [CoinSet -> 0..Pending] /\ by' \in [CoinSet -> Payments \cup {NoPayment, Elsewhere}]
         /\ spentIn'[c] # 0 /\ by'[c] = pay /\ (by[c] = NoPayment \/ by[c] = pay)
         /\ \A d \in CoinSet : d # c => spentIn'[d] = spentIn[d] /\ by'[d] = by[d]
         /\ {d \in CoinSet : by'[d] = pay} = Of(pay) \cup {c}
         /\ \A p \in Payments : p # pay => {d \in CoinSet : by'[d] = p} = Of(p)
<1>1. /\ spentIn' = [d \in CoinSet |-> IF d = c THEN Pending ELSE spentIn[d]]
      /\ by' = [d \in CoinSet |-> IF d = c THEN pay ELSE by[d]]
  BY DEF Enter
<1>2. by[c] = NoPayment \/ by[c] = pay
  BY Purses DEF Accepts, Free
<1>3. Pending \in 0..Pending /\ Pending # 0
  BY Purses
<1>4. spentIn' \in [CoinSet -> 0..Pending] /\ spentIn'[c] # 0
  BY <1>1, <1>3, Purses
<1>5. by' \in [CoinSet -> Payments \cup {NoPayment, Elsewhere}] /\ by'[c] = pay
  BY <1>1, Purses
<1>6. \A d \in CoinSet : d # c => spentIn'[d] = spentIn[d] /\ by'[d] = by[d]
  BY <1>1
<1>7. {d \in CoinSet : by'[d] = pay} = Of(pay) \cup {c}
  BY <1>5, <1>6 DEF Of
<1>8. ASSUME NEW p \in Payments, p # pay PROVE {d \in CoinSet : by'[d] = p} = Of(p)
  <2>1. by[c] # p /\ by'[c] # p
    BY <1>2, <1>5, <1>8, Purse
  <2> QED
    BY <1>6, <2>1 DEF Of
<1> QED
  BY <1>2, <1>4, <1>5, <1>6, <1>7, <1>8

LEMMA PostNextStep == ASSUME WalletInv, PostNext PROVE WalletInv'
<1>1. /\ phase = "post" /\ phase' = "post" /\ listing # {} /\ Left > 0
      /\ UNCHANGED <<tip, idx, score, pay, order, got, again, confirms, result, agreed, heard, emptySaid, forgotten, begun>>
      /\ reused' = reused \cup {d \in Batch : spentIn[d] # 0 /\ by[d] # pay}
  BY DEF PostNext, Posting
<1>2. PICK c \in listing :
        /\ Batch = {c} /\ c \in CoinSet /\ marks[c] = "none" /\ c \notin paid
        /\ \A d \in CoinSet : Loose(d) => d = c
        /\ by[c] # NoPayment /\ by[c] # pay => \E why \in {"gone", "expired", "failed", "left", "tab"} : <<c, why>> \in forgotten
  BY <1>1, Sending
<1>3. /\ pay \in Payments /\ Amount[pay] \in Nat /\ Cardinality(paid) \in Nat /\ IsFiniteSet(paid)
      /\ Cardinality(paid) < Amount[pay] /\ paid \subseteq Of(pay) /\ result[pay] # "paid" /\ pay # NoPayment
  BY <1>1, Paying, Purse
<1>4. GateInv'
  BY <1>1, GateOver
<1>5. ReuseExplained'
  <2>1. spentIn[c] # 0 => by[c] # NoPayment
    BY <1>2, Purses
  <2> QED
    BY <1>1, <1>2, <2>1 DEF WalletInv, CoinInv, ReuseExplained
<1>6. ASSUME turn' = turn + 1, UNCHANGED <<spentIn, by, marks, paid, listing>> PROVE WalletInv'
  <2>1. PurseTyped'
    BY <1>1, <1>6, Purses, CoinsTypedSame DEF PurseTyped, GateTyped
  <2>2. CoinInv'
    BY <1>1, <1>5, <1>6 DEF WalletInv, CoinInv, Loose, Waiting, Left, Batch
  <2>3. PayInv'
    BY <1>1, <1>6, PaySame
  <2> QED
    BY <1>4, <2>1, <2>2, <2>3 DEF WalletInv
<1>7. ASSUME Accepts(pay, {c}), Enter(pay, {c})
      PROVE  /\ spentIn' \in [CoinSet -> 0..Pending] /\ by' \in [CoinSet -> Payments \cup {NoPayment, Elsewhere}]
             /\ spentIn'[c] # 0 /\ by'[c] = pay /\ (by[c] = NoPayment \/ by[c] = pay)
             /\ \A d \in CoinSet : d # c => spentIn'[d] = spentIn[d] /\ by'[d] = by[d]
             /\ Of(pay)' = Of(pay) \cup {c} /\ \A p \in Payments : p # pay => Of(p)' = Of(p)
  <2>1. Of(pay)' = {d \in CoinSet : by'[d] = pay}
    BY <1>1 DEF Of
  <2> QED
    BY <1>2, <1>3, <1>7, <2>1, Entered DEF Of
<1>8. ASSUME Accepts(pay, {c}), Enter(pay, {c}), turn' = turn + 1, UNCHANGED <<marks, paid, listing>> PROVE WalletInv'
  <2>1. PurseTyped'
    <3>1. CoinsTyped'
      BY <1>2, <1>3, <1>7, <1>8, Purses DEF CoinsTyped
    <3>2. GateTyped'
      BY <1>1, <1>8, Purses DEF GateTyped
    <3> QED
      BY <3>1, <3>2 DEF PurseTyped
  <2>2. CoinInv'
    <3>1. Waiting(c)'
      BY <1>1, <1>2, <1>7, <1>8 DEF Waiting, Left, Batch
    <3>2. \A d \in CoinSet : Loose(d)' => d = c
      BY <1>1, <1>2, <1>7, <1>8 DEF Loose
    <3> QED
      BY <1>1, <1>5, <1>8, <3>1, <3>2 DEF WalletInv, CoinInv
  <2>3. PayInv'
    <3>1. paid' \subseteq Of(pay)' /\ UNCHANGED <<phase, pay, paid, listing, result, begun, Left, Batch>>
      BY <1>1, <1>3, <1>7, <1>8 DEF Left, Batch
    <3>2. ASSUME NEW p \in Payments PROVE PayOf(p)'
      <4>1. PayOf(p)
        BY DEF WalletInv, PayInv
      <4>2. CASE p = pay
        BY <1>1, <1>2, <1>3, <1>7, <1>8, <3>1, <4>1, <4>2 DEF PayOf
      <4>3. CASE p # pay
        BY <1>1, <1>7, <1>8, <3>1, <4>1, <4>3 DEF PayOf
      <4> QED
        BY <4>2, <4>3
    <3> QED
      BY <1>1, <3>1, <3>2, Paying DEF WalletInv, PayInv
  <2> QED
    BY <1>4, <2>1, <2>2, <2>3 DEF WalletInv
<1>9. ASSUME Accepts(pay, {c}), Enter(pay, {c}), Acknowledged({c}) PROVE WalletInv'
  <2>1. /\ marks' \in [CoinSet -> Marks] /\ marks'[c] = "new" /\ \A d \in CoinSet : d # c => marks'[d] = marks[d]
        /\ paid' = paid \cup {c} /\ turn' = 1 /\ listing' = listing \ {c}
    BY <1>2, <1>9, Purses DEF Acknowledged, Marked, Marks
  <2>2. PurseTyped'
    <3>1. CoinsTyped'
      BY <1>2, <1>3, <1>7, <1>9, <2>1, Purses DEF CoinsTyped
    <3>2. GateTyped'
      BY <1>1, <1>2, <2>1, Purses DEF GateTyped
    <3> QED
      BY <3>1, <3>2 DEF PurseTyped
  <2>3. CoinInv'
    <3>1. \A d \in CoinSet : ~Loose(d)'
      BY <1>1, <1>2, <1>7, <1>9, <2>1 DEF Loose
    <3>2. \A d \in listing' : marks'[d] = "none"
      BY <1>1, <2>1, Purses DEF WalletInv, CoinInv
    <3> QED
      BY <1>5, <3>1, <3>2 DEF CoinInv
  <2>4. PayInv'
    <3>1. paid' \subseteq Of(pay)' /\ paid' \cap listing' = {}
      BY <1>1, <1>3, <1>7, <1>9, <2>1, Paying
    <3>2. Cardinality(paid') = Cardinality(paid) + 1
      BY <1>2, <1>3, <2>1, FS_AddElement
    <3>3. Cardinality(paid') <= Amount[pay]
      BY <1>3, <3>2
    <3>4. ASSUME NEW p \in Payments PROVE PayOf(p)'
      <4>1. PayOf(p)
        BY DEF WalletInv, PayInv
      <4>2. CASE p = pay
        BY <1>1, <1>2, <1>3, <1>7, <1>9, <2>1, <4>1, <4>2 DEF PayOf
      <4>3. CASE p # pay
        BY <1>1, <1>7, <1>9, <4>1, <4>3 DEF PayOf
      <4> QED
        BY <4>2, <4>3
    <3> QED
      BY <1>1, <1>3, <3>1, <3>3, <3>4 DEF PayInv
  <2> QED
    BY <1>4, <2>2, <2>3, <2>4 DEF WalletInv
<1> QED
  BY <1>2, <1>6, <1>8, <1>9 DEF PostNext

LEMMA FinishStep == ASSUME WalletInv, Finish PROVE WalletInv'
<1>1. PICK r : r = IF Left = 0 THEN "paid" ELSE "failed"
  OBVIOUS
<1>2. /\ phase = "post" /\ Ends(pay, r) /\ r \in Results
      /\ UNCHANGED <<spentIn, by, tip, idx, score, marks, agreed, heard, emptySaid, reused>>
      /\ forgotten' = forgotten \cup {c \in CoinSet : by[c] = pay /\ marks[c] = "none" /\ Left # 0} \X {"failed"}
      /\ begun' = IF Left # 0 /\ Of(pay) # {} THEN begun \cup {pay} ELSE begun
  BY <1>1 DEF Finish, Results, Of
<1>3. /\ pay \in Payments /\ Amount[pay] \in Nat /\ Cardinality(paid) \in Nat /\ IsFiniteSet(paid)
      /\ Cardinality(paid) <= Amount[pay] /\ paid \subseteq Of(pay)
      /\ (Left > 0 <=> Cardinality(paid) < Amount[pay]) /\ (Left = 0 <=> Cardinality(paid) = Amount[pay])
  BY <1>2, Paying
<1>4. /\ phase' = "idle" /\ pay' = NoPayment /\ paid' = {} /\ listing' = {} /\ result' \in [Payments -> Results]
      /\ result'[pay] = r /\ \A p \in Payments : p # pay => result'[p] = result[p]
  BY <1>2, <1>3, Purses DEF Ends
<1>5. PurseTyped'
  BY <1>2, <1>4, Purses, NodesSay, CoinsTypedSame DEF Ends, PurseTyped, GateTyped
<1>6. GateInv'
  BY <1>2, GateEnds
<1>7. CoinInv'
  <2>1. ReuseExplained'
    BY <1>2 DEF WalletInv, CoinInv, ReuseExplained
  <2>2. ASSUME NEW c \in CoinSet PROVE ~Loose(c)'
    <3> SUFFICES ASSUME Loose(c)' PROVE FALSE
      OBVIOUS
    <3>1. Loose(c) /\ <<c, "failed">> \notin forgotten'
      BY <1>2 DEF Loose
    <3>2. by[c] = pay /\ Left > 0 /\ marks[c] = "none"
      BY <3>1 DEF WalletInv, CoinInv, Waiting, Loose
    <3>3. Left # 0
      BY <1>3, <3>2
    <3> QED
      BY <1>2, <3>1, <3>2, <3>3
  <2> QED
    BY <1>4, <2>1, <2>2 DEF CoinInv
<1>8. PayInv'
  <2>1. ASSUME NEW p \in Payments PROVE PayOf(p)'
    <3>1. PayOf(p) /\ p # pay' /\ Of(p)' = Of(p)
      BY <1>2, <1>4, Purse DEF WalletInv, PayInv, Of
    <3>2. CASE p = pay
      <4>1. CASE Left = 0
        <5>1. r = "paid" /\ begun' = begun /\ Cardinality(paid) = Amount[p]
          BY <1>1, <1>2, <1>3, <3>2, <4>1
        <5>2. p \notin begun => Of(p) = paid
          BY <1>3, <3>1, <3>2, <4>1 DEF PayOf
        <5>3. IsFiniteSet(Of(p)) /\ Cardinality(Of(p)) \in Nat
          BY Sets DEF Of
        <5>4. Cardinality(paid) <= Cardinality(Of(p))
          BY <1>3, <3>2, <5>3, FS_Subset
        <5> QED
          BY <1>3, <1>4, <3>1, <3>2, <5>1, <5>2, <5>3, <5>4 DEF PayOf
      <4>2. CASE Left # 0
        BY <1>1, <1>2, <1>4, <3>1, <3>2, <4>2 DEF PayOf
      <4> QED
        BY <4>1, <4>2
    <3>3. CASE p # pay
      BY <1>2, <1>4, <3>1, <3>3 DEF PayOf
    <3> QED
      BY <3>2, <3>3
  <2> QED
    BY <1>4, <2>1 DEF PayInv
<1> QED
  BY <1>5, <1>6, <1>7, <1>8 DEF WalletInv
-----------------------------------------------------------------------------
(* The page or the tab is gone: what the network took is the payment's, and*)
(* the device remembers no more than before.                               *)
LEMMA LeavesStep == ASSUME WalletInv, Leaves PROVE WalletInv'
<1>1. /\ marks' \in {marks, [c \in CoinSet |-> "none"]}
      /\ forgotten' = forgotten \cup {c \in CoinSet : marks'[c] = "none" /\ (marks[c] # "none" \/ (pay # NoPayment /\ by'[c] = pay))} \X {"left"}
      /\ begun' = IF pay # NoPayment /\ {c \in CoinSet : by'[c] = pay} # {} THEN begun \cup {pay} ELSE begun
      /\ phase' = "idle" /\ pay' = NoPayment /\ turn' = 0 /\ confirms' = 0 /\ listing' = {} /\ paid' = {}
      /\ order' = <<>> /\ got' = [n \in NodeSet |-> NotAsked] /\ again' = <<>>
      /\ UNCHANGED <<tip, idx, score, result, agreed, heard, emptySaid>>
  BY DEF Leaves
<1>2. /\ marks' \in [CoinSet -> Marks] /\ \A c \in CoinSet : marks'[c] # "none" => marks'[c] = marks[c]
  BY <1>1, Purses DEF Marks
<1>3. /\ \A c \in CoinSet : marks'[c] = "none" /\ marks[c] # "none" => <<c, "left">> \in forgotten'
      /\ \A c \in CoinSet : marks'[c] = "none" /\ pay # NoPayment /\ by'[c] = pay => <<c, "left">> \in forgotten'
      /\ forgotten \subseteq forgotten'
  BY <1>1
<1>4. /\ spentIn' \in [CoinSet -> 0..Pending] /\ by' \in [CoinSet -> Payments \cup {NoPayment, Elsewhere}]
      /\ \A c \in CoinSet : \/ by'[c] = by[c] /\ spentIn'[c] = spentIn[c]
                            \/ by'[c] = pay /\ pay \in Payments /\ spentIn'[c] # 0 /\ (by[c] = NoPayment \/ by[c] = pay)
      /\ \A p \in Payments : p # pay => Of(p)' = Of(p)
  <2>1. CASE UNCHANGED <<spentIn, by>>
    <3>1. \A p \in Payments : Of(p)' = Of(p)
      BY <2>1 DEF Of
    <3> QED
      BY <2>1, <3>1, Purses
  <2>2. CASE Posting /\ Accepts(pay, Batch) /\ Enter(pay, Batch)
    <3>1. PICK c \in listing : Batch = {c} /\ c \in CoinSet
      BY <2>2, Sending DEF Posting
    <3>2. pay \in Payments
      BY <2>2, Paying DEF Posting
    <3>3. \A p \in Payments : Of(p)' = {d \in CoinSet : by'[d] = p}
      BY DEF Of
    <3> QED
      BY <2>2, <3>1, <3>2, <3>3, Entered
  <2>3. Leaves
    OBVIOUS
  <2> QED
    BY <2>1, <2>2, <2>3 DEF Leaves
<1>5. PurseTyped'
  <2>1. CoinsTyped'
    <3>1. ASSUME NEW c \in CoinSet PROVE (spentIn'[c] = 0 <=> by'[c] = NoPayment) /\ (marks'[c] # "none" => by'[c] # NoPayment)
      BY <1>2, <1>4, Purses, Purse
    <3> QED
      BY <1>2, <1>4, <3>1 DEF CoinsTyped, Pending
  <2>2. GateTyped'
    BY <1>1, Purses, NodesSay DEF GateTyped
  <2> QED
    BY <2>1, <2>2 DEF PurseTyped
<1>6. GateInv'
  BY <1>1 DEF WalletInv, GateInv, GateHeardHonest, EmptyConfirmed, AtGate, AtRetry, AtRead
<1>7. CoinInv'
  <2>1. ReuseExplained'
    <3>1. CASE Posting
      <4>1. PICK c \in listing :
              /\ Batch = {c} /\ c \in CoinSet
              /\ by[c] # NoPayment /\ by[c] # pay => \E why \in {"gone", "expired", "failed", "left", "tab"} : <<c, why>> \in forgotten
        BY <3>1, Sending DEF Posting
      <4>2. spentIn[c] # 0 => by[c] # NoPayment
        BY <4>1, Purses
      <4>3. reused' = reused \cup {d \in Batch : spentIn[d] # 0 /\ by[d] # pay}
        BY <3>1 DEF Leaves
      <4> QED
        BY <1>3, <4>1, <4>2, <4>3 DEF WalletInv, CoinInv, ReuseExplained
    <3>2. CASE ~Posting
      BY <1>3, <3>2 DEF WalletInv, CoinInv, ReuseExplained, Leaves
    <3> QED
      BY <3>1, <3>2
  <2>2. ASSUME NEW c \in CoinSet PROVE ~Loose(c)'
    <3> SUFFICES ASSUME Loose(c)' PROVE FALSE
      OBVIOUS
    <3>1. by'[c] # NoPayment /\ marks'[c] = "none" /\ \A why \in {"gone", "expired", "failed", "left", "tab"} : <<c, why>> \notin forgotten'
      BY DEF Loose
    <3>2. marks[c] = "none" /\ ~(pay # NoPayment /\ by'[c] = pay)
      BY <1>3, <3>1
    <3>3. by'[c] = by[c] \/ (by'[c] = pay /\ pay \in Payments)
      BY <1>4
    <3>4. by'[c] = by[c]
      BY <3>2, <3>3, Purse
    <3>5. Loose(c)
      BY <1>3, <3>1, <3>2, <3>4 DEF Loose
    <3>6. Waiting(c)
      BY <3>5 DEF WalletInv, CoinInv
    <3>7. phase = "post" /\ by[c] = pay
      BY <3>6 DEF Waiting
    <3>8. pay # NoPayment
      BY <3>7, Purses
    <3> QED
      BY <3>2, <3>4, <3>7, <3>8
  <2> QED
    BY <1>1, <2>1, <2>2 DEF CoinInv
<1>8. PayInv'
  <2>1. ASSUME NEW p \in Payments PROVE PayOf(p)'
    <3>1. PayOf(p) /\ p # pay' /\ p # NoPayment
      BY <1>1, Purse DEF WalletInv, PayInv
    <3>2. CASE p = pay
      <4>1. result[p] # "paid"
        BY <3>1, <3>2 DEF WalletInv, PayInv
      <4>2. Of(p)' = {c \in CoinSet : by'[c] = p}
        BY DEF Of
      <4>3. p \notin begun' => Of(p)' = {}
        BY <1>1, <3>1, <3>2, <4>2
      <4> QED
        BY <1>1, <3>1, <4>1, <4>3 DEF PayOf
    <3>3. CASE p # pay
      <4>1. p \notin begun' => p \notin begun
        BY <1>1, <3>3
      <4> QED
        BY <1>1, <1>4, <3>1, <3>3, <4>1 DEF PayOf
    <3> QED
      BY <3>2, <3>3
  <2> QED
    BY <1>1, <2>1 DEF PayInv
<1> QED
  BY <1>5, <1>6, <1>7, <1>8 DEF WalletInv
-----------------------------------------------------------------------------
LEMMA WalletStarts == WalletInit => WalletInv
<1> SUFFICES ASSUME WalletInit PROVE WalletInv
  OBVIOUS
<1>1. CoinsTyped
  BY Purse DEF WalletInit, CoinsTyped, Marks, Pending
<1>2. GateTyped
  BY Purse, NodesSay DEF WalletInit, GateTyped, Results
<1>3. GateInv
  BY DEF WalletInit, GateInv, GateHeardHonest, EmptyConfirmed, AtGate, AtRetry, AtRead, NotAsked
<1>4. CoinInv
  BY DEF WalletInit, CoinInv, ReuseExplained, Loose
<1>5. PayInv
  BY Purse DEF WalletInit, PayInv, PayOf, Of
<1> QED
  BY <1>1, <1>2, <1>3, <1>4, <1>5 DEF WalletInv, PurseTyped

LEMMA WalletStays == WalletInv /\ UNCHANGED walletVars => WalletInv'
<1> SUFFICES ASSUME WalletInv, UNCHANGED walletVars PROVE WalletInv'
  OBVIOUS
<1> USE DEF walletVars
<1>1. PurseTyped'
  BY Purses, CoinsTypedSame DEF PurseTyped, GateTyped
<1>2. GateInv'
  BY GateSame
<1>3. CoinInv'
  BY DEF WalletInv, CoinInv, ReuseExplained, Loose, Waiting, Left, Batch
<1>4. PayInv'
  BY PaySame
<1> QED
  BY <1>1, <1>2, <1>3, <1>4 DEF WalletInv

LEMMA WalletHolds == WalletSpec => []WalletInv
<1>1. ASSUME WalletInv, WalletNext PROVE WalletInv'
  BY <1>1, MineStep, IndexBlockStep, TenMinutesStep, BrowseStep, SendStep, ReturnStep, RefillStep, TallyStep, RetryStep,
     ReadUtxosStep, StartCrossStep, CrossCheckStep, ReadLpStep, GivesUpStep, PostNextStep, FinishStep,
     ReadBesideStep, OtherTabPaysStep, LeavesStep DEF WalletNext, Work
<1>2. WalletInv /\ [WalletNext]_walletVars => WalletInv'
  BY <1>1, WalletStays
<1> QED
  BY WalletStarts, <1>2, PTL DEF WalletSpec

(* gbx-read.js: whatever one node in the federation says, the balance of   *)
(* the gate is an honest node's, and an empty wallet is one that two nodes *)
(* call empty, unless another read of the page has set GBX_LAST_NODE       *)
(* between the empty list and crypto-utils-v2.js:176.                      *)
THEOREM TheReadsAreConfirmed == WalletSpec => []ReadsAreConfirmed
<1>1. WalletInv => ReadsAreConfirmed
  BY DEF WalletInv, PurseTyped, CoinsTyped, GateTyped, GateInv, ReadsAreConfirmed, WalletTypeOK, Marks
<1> QED
  BY WalletHolds, <1>1, PTL

(* crypto-utils-v2.js: a coin sent for one payment does not go to another  *)
(* and a payment takes what it asked for, but for the causes recorded:     *)
(* what the tab forgot, left or never knew of each coin used again, a      *)
(* failed or interrupted attempt for each payment that takes more.         *)
THEOREM TheCoinsPayOnce == WalletSpec => []CoinsPayOnce
<1>1. WalletInv => CoinsPayOnce
  <2> SUFFICES ASSUME WalletInv PROVE CoinsPayOnce
    OBVIOUS
  <2>1. ReuseExplained
    BY DEF WalletInv, CoinInv
  <2>2. ASSUME NEW p \in Payments
        PROVE  (p \notin begun => TakenBy(p) <= Amount[p]) /\ (result[p] = "paid" => TakenBy(p) >= Amount[p])
    <3>1. PayOf(p) /\ TakenBy(p) = Cardinality(Of(p)) /\ Amount[p] \in Nat
      BY Purse DEF WalletInv, PayInv, TakenBy, Of
    <3>2. ASSUME p \notin begun, p = pay PROVE Cardinality(Of(p)) <= Amount[p]
      <4>1. pay # NoPayment /\ Cardinality(paid) <= Amount[pay]
        BY <3>2, Purse DEF WalletInv, PayInv
      <4>2. CASE Of(p) = paid
        BY <3>2, <4>1, <4>2
      <4>3. CASE phase = "post" /\ Left > 0 /\ listing # {} /\ Of(p) = paid \cup Batch
        <5>1. PICK c \in listing : Batch = {c} /\ c \notin paid
          BY <4>3, Sending
        <5>2. Cardinality(Of(p)) = Cardinality(paid) + 1
          BY <4>3, <5>1, Paying, FS_AddElement
        <5> QED
          BY <3>2, <4>3, <5>2, Paying
      <4> QED
        BY <3>1, <3>2, <4>2, <4>3 DEF PayOf
    <3>3. ASSUME p \notin begun, p # pay PROVE Cardinality(Of(p)) <= Amount[p]
      BY <3>1, <3>3, FS_EmptySet DEF PayOf
    <3> QED
      BY <3>1, <3>2, <3>3 DEF PayOf
  <2> QED
    BY <2>1, <2>2 DEF CoinsPayOnce, PaysWhatIsAsked
<1> QED
  BY WalletHolds, <1>1, PTL
=============================================================================
