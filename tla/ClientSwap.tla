----------------------------- MODULE ClientSwap -----------------------------
(***************************************************************************)
(* The user's side of a swap, on one device:                               *)
(*   client/mod-b-swap.mjs, mod-b-browser.mjs   EVM chains;                *)
(*   client/mod-b-solana.mjs                    Solana;                    *)
(*   client/v3/swap.html                        the page and the cards it  *)
(*                                              draws for pending swaps.   *)
(* A page runs one flow at a time, may be closed at any await, and keeps   *)
(* in localStorage an entry gbx_pending_<hashlock> per swap.  Anyone may   *)
(* run an LP: it may lock on terms other than those agreed, and its        *)
(* gateway may say anything of a GBX lock.  In all else it does what       *)
(* lp-box does (LpDaemon models it).  In a sell the user locks GBX and the *)
(* LP USDC, in a buy the other way round.  Solana sells all ask the same   *)
(* amount of USDC.                                                         *)
(***************************************************************************)
EXTENDS Naturals, FiniteSets

CONSTANTS Swaps, None,
          MaxMishaps   \* bound: closed pages, lost or failed requests

ASSUME SwapAssumption == None \notin Swaps /\ MaxMishaps \in Nat

VARIABLES
  kind,        \* sellEvm, sellSol, buyEvm or buySol
  terms,       \* the terms of the LP's lock
  said,        \* the terms its gateway's /swap tells of it in a buy, or "none"
  gbx, usdc,   \* the two locks: none, locked, claimed or refunded
  gdue, udue,  \* those whose timelock has passed
  lp,          \* the LP: unknown, intent, rejected, failed, locked, refunded, completed
  full, back,  \* entries with the secret; entries rebuilt from the index
  old,         \* entries past the page's patience
  at, cur,     \* the step of the flow, "idle" or "closed"; its swap
  told,        \* how the flow ended: none, done, failed or cut
  rows,        \* gbx_swaps_history: Solana sells completed
  never,       \* sells locked until block 9999999
  excused,     \* history: <<swap, why>>, entries lost while money was locked
  early,       \* history: preimages sent for something other than a live lock
  mishaps

deal == <<kind, terms, said>>
locks == <<gbx, usdc, gdue, udue>>
device == <<full, back, old, rows>>
page == <<at, cur, told>>
history == <<excused, early>>
vars == <<deal, locks, lp, device, page, never, history, mishaps>>

Sells == {s \in Swaps : kind[s] \in {"sellEvm", "sellSol"}}
Buys == Swaps \ Sells
Mishap == mishaps < MaxMishaps /\ mishaps' = mishaps + 1
Fine == UNCHANGED mishaps
Own(s) == IF s \in Sells THEN gbx[s] ELSE usdc[s]
Other(s) == IF s \in Sells THEN usdc[s] ELSE gbx[s]
Excuse(s, why) == excused' = excused \cup {<<s, why>>}

(* What a lock can be against what was agreed: of less money, or for       *)
(* another receiver, hashlock or token.                                    *)
Terms == {"agreed", "short", "foreign"}
(* Mutant: whoever the lock names. *)
AnyoneNamed(t, least) == least => t # "short"
(* verifyUsdcLock, verifyGbxLock and the checks of claimUsdcSolana; the    *)
(* amount counts where a least one is given.                               *)
Verified(t, least) == t # "foreign" /\ (least => t # "short")
(* The claim of a GBX lock is built from what the gateway said of it.      *)
Opens(s) == s \in Sells \/ said[s] = terms[s]

(* The preimage leaves the device; after the claim it is public anyway.    *)
Reveal(s, way) ==
  early' = IF Other(s) \in {"locked", "claimed"} /\ terms[s] = "agreed" /\ Opens(s) THEN early
           ELSE early \cup {[swap |-> s, way |-> way, lock |-> Other(s), terms |-> terms[s], said |-> said[s]]}
(* The user's claim reaches the chain: it settles a live lock only.        *)
Settle(s) ==
  /\ usdc' = [usdc EXCEPT ![s] = IF s \in Sells /\ @ = "locked" THEN "claimed" ELSE @]
  /\ gbx' = [gbx EXCEPT ![s] = IF s \in Buys /\ @ = "locked" /\ Opens(s) THEN "claimed" ELSE @]

Go(step) == at' = step /\ UNCHANGED <<cur, told>>
End(s, word) == at' = "idle" /\ cur' = None /\ told' = [told EXCEPT ![s] = word]
Done(s) == End(s, "done") /\ full' = full \ {s}
Fails(s) == End(s, "failed") /\ UNCHANGED full
-----------------------------------------------------------------------------
(* A flow starts.  A buy on Solana signs and saves its entry; a sell asks  *)
(* the height for its timelock, and takes one that never comes without it. *)
Start(s) ==
  /\ at = "idle" /\ told[s] = "none"
  /\ cur' = s /\ UNCHANGED told
  /\ at' = IF s \in Sells THEN "lock" ELSE IF kind[s] = "buySol" THEN "submit" ELSE "intent"
  /\ full' = IF kind[s] = "buySol" THEN full \cup {s} ELSE full
  /\ \/ Fine /\ UNCHANGED never
     \/ Mishap /\ s \in Sells /\ never' = never \cup {s}
  /\ UNCHANGED <<deal, locks, lp, back, old, rows, history>>

(* gbxBroadcast: without an answer from anyone the transaction may be in   *)
(* the network all the same, and no entry is saved.                        *)
Unheard ==
  /\ Mishap /\ Fails(cur)
  /\ \/ gbx' = [gbx EXCEPT ![cur] = "locked"] /\ Excuse(cur, "no answer")
     \/ UNCHANGED <<gbx, excused>>
LockGbx ==
  /\ at = "lock"
  /\ \/ /\ Fine /\ gbx' = [gbx EXCEPT ![cur] = "locked"]
        /\ full' = full \cup {cur} /\ Go("intent") /\ UNCHANGED excused
     \/ Unheard
  /\ UNCHANGED <<deal, usdc, gdue, udue, lp, back, old, rows, never, early>>

(* /intent.  The EVM flows stop at a refusal, the Solana sell does not     *)
(* read the answer.                                                        *)
Stored == lp' = [lp EXCEPT ![cur] = "intent"]
Refused == Fine /\ Fails(cur) /\ UNCHANGED lp
IntentLost == Mishap /\ Fails(cur) /\ (Stored \/ UNCHANGED lp)
SellIntent ==
  /\ at = "intent" /\ cur \in Sells
  /\ \/ Fine /\ Stored /\ Go("poll") /\ UNCHANGED full
     \/ kind[cur] = "sellEvm" /\ Refused
     \/ kind[cur] = "sellSol" /\ Fine /\ Go("poll") /\ UNCHANGED <<lp, full>>
     \/ IntentLost
  /\ UNCHANGED <<deal, locks, back, old, rows, never, history>>
(* The entry of an EVM buy is never saved: lockId is not in scope where it *)
(* is written.                                                             *)
BuyIntent ==
  /\ at = "intent" /\ cur \in Buys
  /\ \/ Fine /\ Stored /\ Go("poll") /\ UNCHANGED full
     \/ Refused
     \/ IntentLost
  /\ UNCHANGED <<deal, locks, back, old, rows, never, history>>

(* /sol-submit.  After an error the page looks for the lock at the address *)
(* of the hashlock; the lock is at that of the random swap_id.             *)
LockedAtHashlock(s) == kind[s] = "sellSol" /\ usdc[s] # "none"
(* Mutant: an error of any kind removes the entry. *)
AnyErrorDrops == at' = "idle" /\ cur' = None /\ told' = [told EXCEPT ![cur] = "failed"] /\ full' = full \ {cur}
SubmitError == IF LockedAtHashlock(cur) THEN Go("poll") /\ UNCHANGED full ELSE Fails(cur)
Locks(s) == usdc' = [usdc EXCEPT ![s] = "locked"]
Submit ==
  /\ at = "submit"
  /\ \/ Fine /\ Locks(cur) /\ Stored /\ Go("poll") /\ UNCHANGED full
     \/ Fine /\ End(cur, "failed") /\ full' = full \ {cur} /\ UNCHANGED <<usdc, lp>>   \* price_moved
     \/ /\ Mishap /\ SubmitError
        /\ \/ UNCHANGED <<usdc, lp>>
           \/ Locks(cur) /\ (Stored \/ UNCHANGED lp)
  /\ UNCHANGED <<deal, gbx, gdue, udue, back, old, rows, never, history>>

(* A sell looks for the LP's USDC on its chain, a buy asks the gateway for *)
(* the GBX lock: the script it gives is checked, the GBX chain is not      *)
(* read.  Only Solana tells a settled lock or one about to end.            *)
(* Mutant: the answer is not waited for. *)
SeesAnything == TRUE
Sees == CASE kind[cur] = "sellEvm" -> usdc[cur] # "none" /\ Verified(terms[cur], TRUE)
          [] kind[cur] = "sellSol" -> usdc[cur] = "locked" /\ ~udue[cur] /\ Verified(terms[cur], TRUE)
          [] kind[cur] = "buyEvm" -> lp[cur] = "locked" /\ Verified(said[cur], TRUE)
          [] kind[cur] = "buySol" -> said[cur] # "none" /\ Verified(said[cur], TRUE)
Poll ==
  /\ at = "poll" /\ Fine
  /\ \/ Sees /\ Go("claim") /\ UNCHANGED full
     \/ Fails(cur)
  /\ UNCHANGED <<deal, locks, lp, back, old, rows, never, history>>

(* The claim.  An EVM claim that reverts returns its hash all the same.    *)
(* Mutant: an unanswered claim is taken for a success as well. *)
AlwaysClaims == TRUE
Claims == kind[cur] = "sellEvm" \/ (Other(cur) = "locked" /\ Opens(cur))
Claim ==
  /\ at = "claim" /\ Reveal(cur, "page")
  /\ \/ /\ Fine /\ Settle(cur)
        /\ IF Claims THEN Done(cur) ELSE Fails(cur)
        /\ rows' = IF Claims /\ kind[cur] = "sellSol" THEN rows \cup {cur} ELSE rows
        /\ IF Claims /\ Other(cur) # "locked" THEN Excuse(cur, "reverted") ELSE UNCHANGED excused
     \/ Mishap /\ Fails(cur) /\ UNCHANGED <<rows, excused>> /\ (Settle(cur) \/ UNCHANGED <<gbx, usdc>>)
  /\ UNCHANGED <<deal, gdue, udue, lp, back, old, never>>

(* The page is closed: the flow is gone, the entries stay.  What was being *)
(* sent may arrive.                                                        *)
Close ==
  /\ at # "closed" /\ Mishap
  /\ at' = "closed" /\ cur' = None
  /\ told' = IF at = "idle" THEN told ELSE [told EXCEPT ![cur] = "cut"]
  /\ \/ /\ at = "lock" /\ gbx' = [gbx EXCEPT ![cur] = "locked"] /\ Excuse(cur, "no answer")
        /\ UNCHANGED <<usdc, lp>>
     \/ /\ at = "submit" /\ Locks(cur) /\ Stored /\ UNCHANGED <<gbx, excused>>
     \/ UNCHANGED <<gbx, usdc, lp, excused>>
  /\ UNCHANGED <<deal, gdue, udue, device, never, early>>
(* A load of the page.  checkPendingSwaps, once per load: locks of this    *)
(* key that the index or an LP lists and nobody has settled become entries *)
(* without a secret.                                                       *)
Open ==
  /\ at \in {"closed", "idle"} /\ at' = "idle" /\ Fine
  /\ back' = back \cup {s \in Sells : gbx[s] = "locked" /\ lp[s] # "completed"}
  /\ UNCHANGED <<deal, locks, lp, cur, told, full, old, rows, never, history>>
-----------------------------------------------------------------------------
(* The cards.  GBX_LP_SWAP_STATUS asks every LP; a gateway that does not   *)
(* know a hashlock answers "pending".                                      *)
Status(s) == IF lp[s] \in {"unknown", "intent"} THEN "pending" ELSE lp[s]
Unanswered == "none"
Answer(s, st) == \/ Fine /\ st = Status(s)
                 \/ Mishap /\ st = Unanswered
Drop(s, why) ==
  /\ full' = full \ {s} /\ back' = back \ {s}
  /\ IF Own(s) = "locked" /\ s \in full THEN Excuse(s, why) ELSE UNCHANGED excused
Keeps == UNCHANGED <<deal, gdue, udue, lp, old, never, page>>

(* A sell the LP has completed, and a Solana sell with the amount of one   *)
(* in the history, leave the list.                                         *)
TidySold(s) ==
  /\ at # "closed" /\ s \in Sells
  /\ \/ s \in full \cup back /\ lp[s] = "completed" /\ Drop(s, "completed")
     \/ /\ s \in full /\ kind[s] = "sellSol" /\ rows # {}
        /\ full' = full \ {s} /\ UNCHANGED back
        /\ IF Own(s) = "locked" THEN Excuse(s, "same amount") ELSE UNCHANGED excused
  /\ Fine /\ Keeps /\ UNCHANGED <<gbx, usdc, rows, early>>

(* Entries of 48 hours that no LP knows, unless their GBX is still there.  *)
LiveUtxo(s) == gbx[s] = "locked"
TidyOrphan(s) ==
  /\ at # "closed" /\ s \in Sells \cap full \cap old
  /\ \E st \in {"pending", Unanswered} : Answer(s, st)
  /\ ~LiveUtxo(s)
  /\ full' = full \ {s} /\ UNCHANGED back
  /\ UNCHANGED excused
  /\ Keeps /\ UNCHANGED <<gbx, usdc, rows, early>>

(* The refund card, for a sell the LP refused or gave up or that no LP     *)
(* answers about; its button works once the timelock has passed.           *)
(* Mutant: for what the LP refused only. *)
RefundsRejected(st) == st = "rejected"
Refundable(st) == st \in {Unanswered, "rejected", "refunded"}
RefundSell(s) ==
  /\ at # "closed" /\ s \in Sells \cap (full \cup back)
  /\ \E st \in {Status(s), Unanswered} : Refundable(st) /\ Answer(s, st)
  /\ \/ gbx[s] # "locked" /\ UNCHANGED gbx
     \/ gbx[s] = "locked" /\ gdue[s] /\ gbx' = [gbx EXCEPT ![s] = "refunded"]
  /\ \/ s \in full /\ full' = full \ {s} /\ UNCHANGED back
     \/ s \in back /\ back' = back \ {s} /\ UNCHANGED full
  /\ Keeps /\ UNCHANGED <<usdc, rows, history>>

(* The claim card.  On EVM the preimage goes to the LP's relay first, and  *)
(* only then is a lock looked for, whose terms nobody checks; on Solana    *)
(* the card asks for no least amount.                                      *)
ClaimSell(s) ==
  /\ at # "closed" /\ s \in Sells \cap full
  /\ ~Refundable(Status(s)) /\ Status(s) # "completed"
  /\ kind[s] = "sellSol" => usdc[s] = "locked" /\ ~udue[s] /\ Verified(terms[s], FALSE)
  /\ Reveal(s, "card")
  /\ \/ Fine /\ Settle(s)
        /\ IF usdc[s] = "none" THEN UNCHANGED <<full, rows, excused>>
           ELSE /\ full' = full \ {s}
                /\ rows' = IF kind[s] = "sellSol" THEN rows \cup {s} ELSE rows
                /\ IF Own(s) # "locked" THEN UNCHANGED excused
                   ELSE IF usdc[s] = "refunded" THEN Excuse(s, "reverted")
                   ELSE IF terms[s] = "foreign" THEN Excuse(s, "named") ELSE UNCHANGED excused
     \/ Mishap /\ UNCHANGED <<full, rows, excused>> /\ (Settle(s) \/ UNCHANGED <<gbx, usdc>>)
  /\ Keeps /\ UNCHANGED back

(* The card of a buy on Solana reads the lock at its swap_id; a read that  *)
(* fails is taken for a lock that is not there.                            *)
TidyBuy(s) ==
  /\ at # "closed" /\ s \in full /\ kind[s] = "buySol"
  /\ \/ Fine /\ (lp[s] = "completed" \/ usdc[s] \in {"claimed", "refunded"})
     \/ Fine /\ usdc[s] = "none" /\ s \in old
     \/ Mishap /\ s \in old
  /\ Drop(s, "read failed")
  /\ Keeps /\ UNCHANGED <<gbx, usdc, rows, early>>
ClaimBuy(s) ==
  /\ at # "closed" /\ s \in full /\ kind[s] = "buySol"
  /\ usdc[s] = "locked" /\ said[s] # "none" /\ Verified(said[s], FALSE)
  /\ Reveal(s, "card")
  /\ \/ Fine /\ Settle(s) /\ full' = IF gbx[s] = "locked" /\ Opens(s) THEN full \ {s} ELSE full
     \/ Mishap /\ UNCHANGED full /\ (Settle(s) \/ UNCHANGED <<gbx, usdc>>)
  /\ Keeps /\ UNCHANGED <<back, rows, excused>>
RefundBuy(s) ==
  /\ at # "closed" /\ s \in full /\ kind[s] = "buySol"
  /\ usdc[s] = "locked" /\ udue[s] /\ usdc' = [usdc EXCEPT ![s] = "refunded"]
  /\ \/ Fine /\ full' = full \ {s}
     \/ Mishap /\ UNCHANGED full
  /\ Keeps /\ UNCHANGED <<gbx, back, rows, history>>
-----------------------------------------------------------------------------
(* Time.  The gateway gives a submission 90 seconds, the page's patience   *)
(* is 120.  In a buy the LP's GBX can be refunded before the user's USDC.  *)
Ages(s) ==
  /\ \/ s \in full \ old /\ ~(cur = s /\ at = "submit") /\ old' = old \cup {s} /\ UNCHANGED <<gdue, udue>>
     \/ /\ gbx[s] = "locked" /\ ~gdue[s] /\ s \notin never
        /\ gdue' = [gdue EXCEPT ![s] = TRUE] /\ UNCHANGED <<old, udue>>
     \/ /\ usdc[s] = "locked" /\ ~udue[s] /\ (s \in Buys => gbx[s] # "locked" \/ gdue[s])
        /\ udue' = [udue EXCEPT ![s] = TRUE] /\ UNCHANGED <<old, gdue>>
  /\ Fine /\ UNCHANGED <<deal, gbx, usdc, lp, full, back, rows, page, never, history>>

(* The LP (lp_daemon_main.py, lp_solana.py), on terms of its own; of a     *)
(* buy its gateway says what it likes, be the GBX locked or not.           *)
LpSell(s) ==
  /\ s \in Sells /\ UNCHANGED <<kind, said>>
  /\ \/ /\ lp[s] = "intent" /\ gbx[s] = "locked" /\ UNCHANGED gbx
        /\ \/ /\ lp' = [lp EXCEPT ![s] = "locked"] /\ usdc' = [usdc EXCEPT ![s] = "locked"]
              /\ \E t \in Terms : terms' = [terms EXCEPT ![s] = t]
           \/ lp' = [lp EXCEPT ![s] = "rejected"] /\ UNCHANGED <<usdc, terms>>
           \/ kind[s] = "sellSol" /\ lp' = [lp EXCEPT ![s] = "failed"] /\ UNCHANGED <<usdc, terms>>
     \/ /\ lp[s] = "locked" /\ usdc[s] = "claimed" /\ gbx[s] = "locked" /\ UNCHANGED <<usdc, terms>>
        /\ gbx' = [gbx EXCEPT ![s] = "claimed"] /\ lp' = [lp EXCEPT ![s] = "completed"]
     \/ /\ lp[s] = "locked" /\ usdc[s] = "locked" /\ udue[s] /\ UNCHANGED <<gbx, terms>>
        /\ usdc' = [usdc EXCEPT ![s] = "refunded"] /\ lp' = [lp EXCEPT ![s] = "refunded"]
LpBuy(s) ==
  /\ s \in Buys /\ UNCHANGED kind
  /\ \/ kind[s] = "buyEvm" /\ lp[s] = "intent" /\ usdc[s] = "none" /\ Locks(s) /\ UNCHANGED <<gbx, lp, terms, said>>
     \/ /\ lp[s] = "intent" /\ usdc[s] = "locked" /\ ~udue[s] /\ UNCHANGED usdc
        /\ gbx' = [gbx EXCEPT ![s] = "locked"] \/ UNCHANGED gbx
        /\ lp' = [lp EXCEPT ![s] = "locked"]
        /\ \E t, w \in Terms : terms' = [terms EXCEPT ![s] = t] /\ said' = [said EXCEPT ![s] = w]
     \/ /\ lp[s] = "locked" /\ gbx[s] = "claimed" /\ usdc[s] = "locked" /\ UNCHANGED <<gbx, terms, said>>
        /\ usdc' = [usdc EXCEPT ![s] = "claimed"] /\ lp' = [lp EXCEPT ![s] = "completed"]
     \/ /\ lp[s] = "locked" /\ gbx[s] = "locked" /\ gdue[s] /\ UNCHANGED <<usdc, terms, said>>
        /\ gbx' = [gbx EXCEPT ![s] = "refunded"] /\ lp' = [lp EXCEPT ![s] = "refunded"]
LpStep(s) == (LpSell(s) \/ LpBuy(s)) /\ Fine /\ UNCHANGED <<gdue, udue, device, page, never, history>>

(* A swap that is cut already is one the user does not want.               *)
Init ==
  /\ kind \in [Swaps -> {"sellEvm", "sellSol", "buyEvm", "buySol"}]
  /\ terms = [s \in Swaps |-> "agreed"] /\ said = [s \in Swaps |-> "none"]
  /\ gbx = [s \in Swaps |-> "none"] /\ usdc = [s \in Swaps |-> "none"]
  /\ gdue = [s \in Swaps |-> FALSE] /\ udue = [s \in Swaps |-> FALSE]
  /\ lp = [s \in Swaps |-> "unknown"]
  /\ full = {} /\ back = {} /\ old = {} /\ rows = {}
  /\ at = "idle" /\ cur = None /\ told \in [Swaps -> {"none", "cut"}]
  /\ never = {} /\ excused = {} /\ early = {} /\ mishaps \in 0..MaxMishaps

Flow == (\E s \in Swaps : Start(s)) \/ LockGbx \/ SellIntent \/ BuyIntent \/ Submit \/ Poll \/ Claim
Cards(s) == TidySold(s) \/ TidyOrphan(s) \/ RefundSell(s) \/ ClaimSell(s) \/ TidyBuy(s) \/ ClaimBuy(s) \/ RefundBuy(s)
Next == Flow \/ Close \/ Open \/ \E s \in Swaps : Cards(s) \/ Ages(s) \/ LpStep(s)
(* The page's flow goes on while it is open, the user loads it again  *)
(* and presses a refund button that works, time passes and the LP runs.    *)
Fairness ==
  /\ WF_vars(Open) /\ WF_vars(LockGbx \/ SellIntent \/ BuyIntent \/ Submit \/ Poll \/ Claim)
  /\ \A s \in Swaps : WF_vars(Ages(s)) /\ WF_vars(LpStep(s)) /\ WF_vars(RefundSell(s) /\ gbx' # gbx)
Spec == Init /\ [][Next]_vars
FairSpec == Spec /\ Fairness
-----------------------------------------------------------------------------
LockStates == {"none", "locked", "claimed", "refunded"}

TypeOK ==
  /\ terms \in [Swaps -> Terms] /\ said \in [Swaps -> Terms \cup {"none"}]
  /\ gbx \in [Swaps -> LockStates] /\ usdc \in [Swaps -> LockStates]
  /\ gdue \in [Swaps -> BOOLEAN] /\ udue \in [Swaps -> BOOLEAN]
  /\ lp \in [Swaps -> {"unknown", "intent", "rejected", "failed", "locked", "refunded", "completed"}]
  /\ full \subseteq Swaps /\ back \subseteq Sells /\ rows \subseteq Sells
  /\ (at \in {"idle", "closed"} <=> cur = None)
  /\ told \in [Swaps -> {"none", "done", "failed", "cut"}]
  /\ mishaps \in 0..MaxMishaps

(* The "No-loss rule" of swap.html: an entry is never deleted while the    *)
(* user's own lock holds money and the other is not his.  It is, for the   *)
(* reasons named: no answer came to the broadcast, so no entry was saved;  *)
(* an EVM buy never saves one; a completed Solana sell had the same        *)
(* amount; a read of Solana failed; a claim reverted and returned its      *)
(* hash; the card claimed an EVM lock that named someone else.             *)
Paid(s) == Other(s) = "claimed" /\ terms[s] # "foreign"
EntryKept ==
  \A s \in Swaps : Own(s) = "locked" /\ ~Paid(s) =>
     \/ s \in full
     \/ kind[s] = "buyEvm"
     \/ \E why \in {"no answer", "same amount", "read failed", "reverted", "named"} :
          /\ <<s, why>> \in excused
          /\ why = "same amount" => kind[s] = "sellSol" /\ rows \ {s} # {}
          /\ why = "reverted" => kind[s] = "sellEvm" /\ usdc[s] = "refunded"
          /\ why = "named" => kind[s] = "sellEvm" /\ terms[s] = "foreign"
          /\ why = "read failed" => kind[s] = "buySol" /\ s \in old

(* The flows "VERIFY on-chain BEFORE revealing the preimage"               *)
(* (mod-b-solana.mjs:91): it is sent only for a counter-lock on chain on   *)
(* the terms agreed, or one the LP took back after the flow had seen it.   *)
(* Where it is not:                                                        *)
(*   a sell on EVM   its card tells the LP's relay before it looks;        *)
(*   a sell on Solana   its card takes any amount;                         *)
(*   a buy           the lock checked is the gateway's word for it, and    *)
(*                   the card of one on Solana takes any amount there.     *)
(* T2 of a GBX lock is checked nowhere.                                    *)
RevealsForALock ==
  \A e \in early :
     \/ kind[e.swap] = "sellEvm" /\ (e.way = "card" \/ (e.lock = "refunded" /\ e.terms = "agreed"))
     \/ kind[e.swap] = "sellSol" /\ e.lock = "refunded" /\ e.terms = "agreed" /\ e.way = "page"
     \/ kind[e.swap] = "sellSol" /\ e.lock = "locked" /\ e.terms = "short" /\ e.way = "card"
     \/ e.swap \in Buys /\ e.said = "agreed"
     \/ kind[e.swap] = "buySol" /\ e.said = "short" /\ e.way = "card"

(* "Completed" on the screen means that the user's claim settled the       *)
(* counter-lock, on the terms agreed: other than for an EVM sell whose     *)
(* USDC the LP took back between the page's look and its claim.            *)
DoneMeansPaid ==
  \A s \in Swaps : told[s] = "done" => (terms[s] = "agreed" /\ Other(s) = "claimed") \/ (kind[s] = "sellEvm" /\ Other(s) = "refunded" /\ udue[s])

(* What the device remembers and what the page says agree with the chains  *)
(* (swap.html, checkPendingSwaps), for the causes named in the conjuncts.  *)
RecordsHonest == TypeOK /\ EntryKept /\ DoneMeansPaid

(* GBX locked for a sell comes back or is sold, if the user keeps coming   *)
(* back to the page.  Three cases have no way back: the timelock of block  *)
(* 9999999; an LP that does not know the swap and says "pending"; a lock   *)
(* on Solana that failed at the LP, which is never tried again.            *)
Stranded(s) == s \in never \/ lp[s] \in {"unknown", "failed"}
SellEnds == \A s \in Swaps : (s \in Sells /\ gbx[s] = "locked" /\ ~Stranded(s)) ~> (gbx[s] # "locked" \/ Stranded(s))
=============================================================================
