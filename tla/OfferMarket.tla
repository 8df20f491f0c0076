----------------------------- MODULE OfferMarket -----------------------------
(***************************************************************************)
(* The direct market: a seller locks GBX in offers, a buyer locks USDC to  *)
(* the seller's address, the seller moves an offer into an HTLC under the  *)
(* buyer's hashlock, and the secret settles both.                          *)
(*   client/v3/offers.html          the page, on the devices of all three; *)
(*   client/gbx-offer-exec.mjs      what it reads of the USDC chains;      *)
(*   client/gbx-launchpad-flow.mjs  the transactions of an offer;          *)
(*   client/mod-b-solana.mjs        the lock on Solana.                    *)
(* All offers are of one seller, at one address and one price.  A buyer    *)
(* locks once and stands for its hashlock.  Pages read GBX through the     *)
(* index, which may be a block behind; the USDC chain they read directly.  *)
(* The unit of time is a quarter of T_USDC_SEC, and of height the blocks   *)
(* that time should have.                                                  *)
(***************************************************************************)
EXTENDS Integers, FiniteSets

CONSTANTS Offers, Buyers, Nobody,
          TUsdc,       \* T_USDC_SEC, the life of a USDC lock
          Margin,      \* T_MARGIN_SEC, what the seller keeps of it
          MinWindow,   \* MIN_GBX_WINDOW_SEC
          Radius,      \* the 3000 blocks tried around a guess of the timelock
          Legacy, Old, \* the other two guesses: 14400 and 100000 blocks
          LookBack,    \* how long c.scan blocks of an EVM chain take (55 hours)
          MaxTime,     \* bound: the clock
          MaxSlow,     \* bound: time in which no blocks come
          MaxFaults    \* bound: reads and answers lost, pages closed

ASSUME MarketBounds ==
  /\ Nobody \notin Buyers \cup Offers /\ Margin + MinWindow <= TUsdc /\ TUsdc <= LookBack
  /\ {TUsdc, Margin, MinWindow, LookBack, MaxTime, MaxSlow, MaxFaults} \subseteq Nat

VARIABLES
  chain,             \* the USDC chain of the offers: "evm" or "sol"
  now, slow,         \* the clock; how much of it had no blocks
  offers,            \* none, open, executed or cancelled
  htlcs,             \* the HTLC an offer became
  usdcLocks,         \* the buyers' locks
  index,             \* offers and htlcs as the token index knows them
  buying,            \* a buyer's page: idle, looked, sent, saved, cut or (never opened) away
  records,           \* buyers with gbx_offer_buy_<hashlock> on the device
  inc,               \* _inc: hashlock -> offer
  buttons,           \* the hashlock of the button on an offer's card
  raced, blind,      \* history: looks that missed a lock; scans that missed an HTLC,
  missed,            \* and locks left, with a button to press, until no scan reaches them
  faults

chains == <<now, slow, offers, htlcs, usdcLocks>>
seller == <<inc, buttons>>
buyer == <<buying, records>>
marketVars == <<chain, chains, index, buyer, seller, raced, blind, missed, faults>>

NoHtlc == [by |-> Nobody, till |-> 0, base |-> 0, born |-> 0, state |-> "none"]
NoLock == [state |-> "none", till |-> 0]
Blocks == now - slow
Answered == UNCHANGED faults
Fault == faults < MaxFaults /\ faults' = faults + 1

(* htlc-by-hashlock: the HTLCs of a hashlock, and those nobody has spent.  *)
Listed(b) == {o \in Offers : index.htlcs[o].by = b}
Unspent(b) == {o \in Listed(b) : index.htlcs[o].state = "live"}
(* checkLockAgainstOffer and evmLockSettled: the lock holds money for at   *)
(* least so long.                                                          *)
Acceptable(b, margin) == usdcLocks[b].state = "locked" /\ usdcLocks[b].till >= now + margin
(* evmFindLocks reads the last c.scan blocks, on every page that is not    *)
(* given the lock itself; Solana keeps the account of a lock.              *)
InReach(b, at) == chain = "evm" => at <= usdcLocks[b].till - TUsdc + LookBack
-----------------------------------------------------------------------------
(* goSell and onCancel.  A warning does not keep the seller from it.       *)
Post(o) ==
  /\ offers[o] = "none" /\ offers' = [offers EXCEPT ![o] = "open"]
  /\ UNCHANGED <<chain, now, slow, htlcs, usdcLocks, index, buyer, seller, raced, blind, missed, faults>>
(* Mutant: the node does not refuse to spend the offer again. *)
CancelByIndex(o) ==
  /\ index.offers[o] = "open" /\ offers' = [offers EXCEPT ![o] = "cancelled"]
  /\ UNCHANGED <<chain, now, slow, htlcs, usdcLocks, index, buyer, seller, raced, blind, missed, faults>>
Cancel(o) ==
  /\ index.offers[o] = "open" /\ offers[o] = "open" /\ offers' = [offers EXCEPT ![o] = "cancelled"]
  /\ UNCHANGED <<chain, now, slow, htlcs, usdcLocks, index, buyer, seller, raced, blind, missed, faults>>

(* onBuy and onBuySol: a lock to the address that no HTLC answers takes    *)
(* the offer.  A window of logs or a list of locks that could not be read  *)
(* is one without locks.                                                   *)
(* Mutant: a lock to the address is not looked for. *)
NeverTaken == FALSE
Taken == \E b \in Buyers : Acceptable(b, 0) /\ Listed(b) = {}
Look(b) ==
  /\ buying[b] = "idle" /\ \E o \in Offers : index.offers[o] = "open"
  /\ \/ ~Taken /\ Answered /\ UNCHANGED raced
     \/ Taken /\ Fault /\ raced' = raced \cup {b}
  /\ buying' = [buying EXCEPT ![b] = "looked"]
  /\ UNCHANGED <<chain, chains, index, records, seller, blind, missed>>
(* The lock is sent, and only then the secret is saved: a send without an  *)
(* answer, or a page closed in between, leaves a lock without a record.    *)
Lock(b) ==
  /\ buying[b] = "looked" /\ now + LookBack < MaxTime
  /\ usdcLocks' = [usdcLocks EXCEPT ![b] = [state |-> "locked", till |-> now + TUsdc]]
  /\ \/ Answered /\ buying' = [buying EXCEPT ![b] = "sent"]
     \/ Fault /\ buying' = [buying EXCEPT ![b] = "cut"]
  /\ raced' = raced \cup {c \in Buyers \ {b} : buying[c] = "looked"}
  /\ UNCHANGED <<chain, now, slow, offers, htlcs, index, records, seller, blind, missed>>
Save(b) ==
  /\ buying[b] = "sent"
  /\ buying' = [buying EXCEPT ![b] = "saved"] /\ records' = records \cup {b}
  /\ UNCHANGED <<chain, chains, index, seller, raced, blind, missed, faults>>
-----------------------------------------------------------------------------
(* scanIncoming and scanIncomingSol: a lock that lasts long enough and has *)
(* no HTLC yet puts a button on the card, if it has none.  Which offer a   *)
(* hashlock executes is written again at every scan.                       *)
(* Mutant: the index is not asked. *)
ExecutedUnasked(b) == FALSE
Executed(b) == Listed(b) # {}
Scan(o) ==
  /\ index.offers[o] = "open"
  /\ \E b \in Buyers :
       /\ Acceptable(b, Margin)
       /\ \/ ~Executed(b) /\ Answered
          \/ Executed(b) /\ Fault
       /\ inc' = [inc EXCEPT ![b] = o]
       /\ buttons' = [buttons EXCEPT ![o] = IF @ = Nobody THEN b ELSE @]
       /\ blind' = IF htlcs # index.htlcs \/ faults' # faults THEN blind \cup {b} ELSE blind
  /\ UNCHANGED <<chain, chains, index, buyer, raced, missed>>
(* A list that changed is painted again; a page loaded again forgets all.  *)
Repaint ==
  /\ buttons' = [o \in Offers |-> Nobody] /\ buttons' # buttons
  /\ inc' \in {inc, [b \in Buyers |-> Nobody]}
  /\ UNCHANGED <<chain, chains, index, buyer, raced, blind, missed, faults>>

(* buildOfferExecuteTx: the HTLC ends the margin before the USDC lock      *)
(* does, if blocks come in time, or it is not made.                        *)
(* Mutant: the whole life of the USDC lock. *)
WindowToTheEnd(b) == usdcLocks[b].till - now
WindowFor(b) == usdcLocks[b].till - now - Margin
(* onExec: the offer of the hashlock on the button, whatever card it is on.*)
Execute(card) ==
  LET b == buttons[card]
      o == inc[b]
  IN /\ b # Nobody /\ o # Nobody /\ offers[o] = "open" /\ WindowFor(b) >= MinWindow
     /\ offers' = [offers EXCEPT ![o] = "executed"]
     /\ htlcs' = [htlcs EXCEPT ![o] = [by |-> b, till |-> Blocks + WindowFor(b), base |-> Blocks, born |-> now, state |-> "live"]]
     /\ \/ Answered /\ buttons' = [buttons EXCEPT ![o] = Nobody]
        \/ Fault /\ UNCHANGED buttons
     /\ UNCHANGED <<chain, now, slow, usdcLocks, index, buyer, inc, raced, blind, missed>>
-----------------------------------------------------------------------------
(* onClaimGbx looks for the timelock the seller chose, in the script's     *)
(* hash, around three guesses; the first counts from the time of the claim.*)
(* Mutant: the first guess alone. *)
FoundByDerived(b, h) == h.base + usdcLocks[b].till - now - Margin - h.till \in -Radius .. Radius
Found(b, h) == \E guess \in {h.base + usdcLocks[b].till - now - Margin, h.base + Legacy, h.base + Old} :
                 guess - h.till \in -Radius .. Radius
ClaimGbx(b) ==
  /\ b \in records
  /\ \E o \in Unspent(b) :
       /\ Found(b, index.htlcs[o]) /\ htlcs[o].state = "live"
       /\ htlcs' = [htlcs EXCEPT ![o].state = "claimed"]
  /\ \/ Answered /\ records' = records \ {b}
     \/ Fault /\ UNCHANGED records
  /\ UNCHANGED <<chain, now, slow, offers, usdcLocks, index, buying, seller, raced, blind, missed>>
(* renderBuyPend: a purchase whose HTLCs are all spent is over.            *)
(* Mutant: so is one that has none yet. *)
OverWithNone(b) == Unspent(b) = {}
Over(b) == Listed(b) # {} /\ Unspent(b) = {}
Tidy(b) ==
  /\ b \in records /\ Over(b) /\ records' = records \ {b}
  /\ UNCHANGED <<chain, chains, index, buying, seller, raced, blind, missed, faults>>
(* The refund button is there when the lock has run out and no HTLC is     *)
(* seen.  Without the record EVM locks are listed by their sender; for one *)
(* on Solana the button is drawn, and its handler stops without a record.  *)
MayRefund(b) ==
  \/ b \in records /\ Unspent(b) = {} /\ Answered
  \/ b \in records /\ Unspent(b) # {} /\ Fault
  \/ b \notin records /\ chain = "evm" /\ Answered
RefundUsdc(b) ==
  /\ usdcLocks[b].state = "locked" /\ usdcLocks[b].till <= now /\ InReach(b, now) /\ MayRefund(b)
  /\ usdcLocks' = [usdcLocks EXCEPT ![b].state = "refunded"] /\ records' = records \ {b}
  /\ UNCHANGED <<chain, now, slow, offers, htlcs, index, buying, seller, raced, blind, missed>>
(* onClaimUsdc: the secret is read from the index.                         *)
ClaimUsdc(b) ==
  /\ usdcLocks[b].state = "locked" /\ InReach(b, now) /\ \E o \in Listed(b) : index.htlcs[o].state = "claimed"
  /\ usdcLocks' = [usdcLocks EXCEPT ![b].state = "claimed"]
  /\ UNCHANGED <<chain, now, slow, offers, htlcs, index, buyer, seller, raced, blind, missed, faults>>

IndexFollows ==
  /\ index' = [offers |-> offers, htlcs |-> htlcs] /\ index' # index
  /\ UNCHANGED <<chain, chains, buyer, seller, raced, blind, missed, faults>>
(* One of the three could take this lock a step towards its end.           *)
CanBePressed(b) ==
  \/ usdcLocks[b].till <= now /\ (b \in records => Unspent(b) = {}) /\ (b \in records \/ chain = "evm")
  \/ \E o \in Listed(b) : index.htlcs[o].state = "claimed"
  \/ b \in records /\ \E o \in Unspent(b) : Found(b, index.htlcs[o])
(* An index is never hours behind.                                         *)
Passes ==
  /\ now < MaxTime /\ now' = now + 1 /\ index = [offers |-> offers, htlcs |-> htlcs]
  /\ slow' \in {slow, slow + 1} /\ slow' <= MaxSlow
  /\ missed' = missed \cup {b \in Buyers : /\ usdcLocks[b].state = "locked" /\ CanBePressed(b)
                                          /\ InReach(b, now) /\ ~InReach(b, now')}
  /\ UNCHANGED <<chain, offers, htlcs, usdcLocks, index, buyer, seller, raced, blind, faults>>
-----------------------------------------------------------------------------
(* Some offers are over before the model starts, some buyers never come,   *)
(* and a clock that starts late leaves less time.                          *)
MarketInit ==
  /\ chain \in {"evm", "sol"} /\ now \in 0 .. MaxTime /\ slow = 0
  /\ offers \in [Offers -> {"none", "cancelled"}] /\ htlcs = [o \in Offers |-> NoHtlc]
  /\ usdcLocks = [b \in Buyers |-> NoLock]
  /\ index = [offers |-> offers, htlcs |-> htlcs]
  /\ buying \in [Buyers -> {"idle", "away"}] /\ records = {}
  /\ inc = [b \in Buyers |-> Nobody] /\ buttons = [o \in Offers |-> Nobody]
  /\ raced = {} /\ blind = {} /\ missed = {} /\ faults = 0
MarketNext ==
  \/ \E o \in Offers : Post(o) \/ Cancel(o) \/ Scan(o) \/ Execute(o)
  \/ \E b \in Buyers : Look(b) \/ Lock(b) \/ Save(b) \/ ClaimGbx(b) \/ Tidy(b) \/ RefundUsdc(b) \/ ClaimUsdc(b)
  \/ Repaint \/ IndexFollows \/ Passes
(* A page that sent goes on, both sides come back and press the buttons    *)
(* that are there, the index follows and time passes.                      *)
MarketFairness ==
  /\ WF_marketVars(IndexFollows) /\ WF_marketVars(Passes)
  /\ \A b \in Buyers : /\ WF_marketVars(Save(b)) /\ WF_marketVars(ClaimGbx(b))
                       /\ WF_marketVars(RefundUsdc(b)) /\ WF_marketVars(ClaimUsdc(b))
MarketSpec == MarketInit /\ [][MarketNext]_marketVars /\ MarketFairness

MarketTypeOK ==
  /\ chain \in {"evm", "sol"} /\ now \in 0 .. MaxTime /\ slow \in 0 .. MaxSlow /\ faults \in 0 .. MaxFaults
  /\ \A o \in Offers : (offers[o] = "executed") <=> (htlcs[o].state \in {"live", "claimed"})
  /\ \A b \in Buyers : (usdcLocks[b].state = "none") <=> (buying[b] \in {"idle", "looked", "away"})
  /\ records \subseteq {b \in Buyers : buying[b] = "saved"}
  /\ inc \in [Buyers -> Offers \cup {Nobody}] /\ buttons \in [Offers -> Buyers \cup {Nobody}]

(* "T_gbx < T_usdc - margin, always" (gbx-launchpad-flow.mjs): a buyer who *)
(* takes the GBX before the HTLC's timelock leaves the seller the margin   *)
(* to take the USDC, short of the time in which blocks did not come.       *)
SellerKeepsTheMargin ==
  [][\A o \in Offers : htlcs[o].state = "live" /\ htlcs'[o].state = "claimed" /\ Blocks <= htlcs[o].till
       => now + Margin <= usdcLocks[htlcs[o].by].till + slow]_marketVars

(* A hashlock executes one offer, although _inc and the buttons may        *)
(* disagree about which: unless the page judged it again before the index  *)
(* had its HTLC, or without an answer of the index.                        *)
OneOfferPerHashlock ==
  \A o, p \in Offers : o # p /\ htlcs[o].by = htlcs[p].by /\ htlcs[o].by # Nobody => htlcs[o].by \in blind

(* "One offer, one buyer" (offers.html): of two locks that wait for the    *)
(* seller at once, one was sent by a page that had looked before the other *)
(* was there, or could not read the chain.                                 *)
OneBuyerAtATime ==
  \A b, c \in Buyers :
    b # c /\ Acceptable(b, 0) /\ Acceptable(c, 0) /\ (\A o \in Offers : htlcs[o].by \notin {b, c}) => raced \cap {b, c} # {}

(* offers.html: one buyer at a time for an offer, one offer for a buyer,   *)
(* for the causes named in the two conjuncts.                              *)
OneOnOne == MarketTypeOK /\ OneOfferPerHashlock /\ OneBuyerAtATime

(* While an HTLC waits for the buyer his device has the secret: unless the *)
(* page was cut before it was saved, he took his USDC back, or the same    *)
(* hashlock has opened another offer.                                      *)
SecretKept ==
  \A o \in Offers : htlcs[o].state = "live" =>
    LET b == htlcs[o].by
    IN \/ b \in records \/ buying[b] \in {"sent", "cut"} \/ usdcLocks[b].state = "refunded"
       \/ \E p \in Offers : htlcs[p].by = b /\ htlcs[p].state = "claimed"

(* The USDC ends with one of them, other than for a lock on Solana whose   *)
(* record was not saved, for an HTLC made long after the USDC lock and     *)
(* left for long, whose timelock the claim page does not find, and for an  *)
(* EVM lock that nobody touched while the pages' scans reached it, though  *)
(* one of the three had a button for it: after c.scan blocks its refund    *)
(* ends in E_NOLOCK and its claim finds nothing (offers.html).             *)
Stuck(b) ==
  \/ chain = "sol" /\ buying[b] = "cut"
  \/ \E o \in Offers : /\ htlcs[o].by = b /\ htlcs[o].state = "live"
                       /\ now > htlcs[o].born + Radius /\ htlcs[o].born > usdcLocks[b].till - TUsdc + Radius
UsdcEnds ==
  \A b \in Buyers : usdcLocks[b].state = "locked" ~> usdcLocks[b].state # "locked" \/ Stuck(b) \/ b \in missed
=============================================================================
