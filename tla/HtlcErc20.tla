----------------------------- MODULE HtlcErc20 -----------------------------
(***************************************************************************)
(* evm-htlc/src/HashedTimelockERC20v2.sol: the contract that holds the     *)
(* USDC leg of a swap on an EVM chain.  One action per external function;  *)
(* a call that reverts is a call that takes no step.                       *)
(*                                                                         *)
(* keccak256 over the abi-encoded terms is taken to be injective, so a     *)
(* swap id is represented by the terms it is the hash of; sha256 is the    *)
(* constant Sha256, any function from preimages to hashlocks.  A signature *)
(* is the fact that its owner produced it: signed is the set of LockFor    *)
(* messages users have signed, auths that of EIP-3009 authorisations.      *)
(***************************************************************************)
EXTENDS Integers, Sequences, FiniteSets, FiniteSetsExt

CONSTANTS
  Users,       \* externally owned accounts, address(0) is none of them
  Self,        \* the contract's own address, as the token sees it
  MaxAmount,   \* largest amount a call names
  Preimages, Hashes, Sha256,
  MaxTime,     \* bound: block.timestamp stops there
  MaxLocks,    \* bound: number of swaps ever stored
  NoDeal,      \* the escrow's unused deal
  Offers,      \* the terms callers name
  Deadlines,   \* the deadlines users sign
  MaxSigned,   \* bound: LockFor messages, and EIP-3009 authorisations, signed
  Supply       \* token balance each user starts with

ASSUME ConstantsAssumption ==
  /\ Self \notin Users /\ IsFiniteSet(Users)
  /\ Sha256 \in [Preimages -> Hashes]
  /\ {MaxAmount, MaxTime, MaxLocks, MaxSigned, Supply} \subseteq Nat

Terms == [sender : Users, receiver : Users, amount : 0..MaxAmount,
          hashlock : Hashes, timelock : 0..MaxTime]

ASSUME OffersAssumption ==
  /\ Offers \subseteq Terms /\ Deadlines \subseteq 0..MaxTime
  /\ NoDeal \notin [payer : Users, payee : Users, state : {"held", "paid", "returned"}]

VARIABLES
  now,      \* block.timestamp
  swaps,    \* mapping(bytes32 => Swap): DOMAIN swaps are the ids stored so far
  nonces,   \* mapping(address => uint256)
  signed,   \* LockFor messages signed off-chain
  auths,    \* EIP-3009 authorisations signed off-chain and not used yet
  bal,      \* the token's balances
  accepted  \* history: the messages lockFor accepted, per sender, in order

vars == <<now, swaps, nonces, signed, auths, bal, accepted>>

Flags == [claimed : BOOLEAN, refunded : BOOLEAN]
Nonces == 0..MaxLocks
Messages == [terms : Terms, nonce : Nonces, deadline : 0..MaxTime]
Auths == [from : Users, value : 0..MaxAmount]

Exists(id) == id \in DOMAIN swaps
Done(id) == swaps[id].claimed \/ swaps[id].refunded
Pending == {id \in DOMAIN swaps : ~Done(id)}

TypeOK ==
  /\ now \in 0..MaxTime
  /\ DOMAIN swaps \subseteq Terms
  /\ swaps \in [DOMAIN swaps -> Flags]
  /\ nonces \in [Users -> Nonces]
  /\ signed \subseteq Messages
  /\ auths \subseteq Auths
  /\ bal \in [Users \cup {Self} -> Nat]
  /\ accepted \in [Users -> Seq(Messages)]

Init ==
  /\ now = 0
  /\ swaps = [id \in {} |-> [claimed |-> FALSE, refunded |-> FALSE]]
  /\ nonces = [u \in Users |-> 0]
  /\ signed = {}
  /\ auths = {}
  /\ bal = [a \in Users \cup {Self} |-> IF a = Self THEN 0 ELSE Supply]
  /\ accepted = [u \in Users |-> <<>>]

(* Mutant: the token does not look at the balance. *)
TransferUnchecked(from, to, n) == bal' = [bal EXCEPT ![from] = @ - n, ![to] = @ + n]

(* IERC20.transfer, transferFrom and receiveWithAuthorization: the token   *)
(* moves the amount, or reverts when the balance is short.                 *)
Transfer(from, to, n) ==
  /\ bal[from] >= n
  /\ bal' = [bal EXCEPT ![from] = @ - n, ![to] = @ + n]

(* Mutant: no "swap exists" check. *)
StoreAgain(t) ==
  /\ t.amount > 0 /\ t.timelock > now
  /\ Cardinality(DOMAIN swaps) < MaxLocks
  /\ swaps' = [id \in DOMAIN swaps \cup {t} |->
                 IF id = t THEN [claimed |-> FALSE, refunded |-> FALSE] ELSE swaps[id]]

(* _store: every check of the function, then the new entry.                *)
Store(t) ==
  /\ t.amount > 0
  /\ t.timelock > now
  /\ ~Exists(t)
  /\ Cardinality(DOMAIN swaps) < MaxLocks
  /\ swaps' = [id \in DOMAIN swaps \cup {t} |->
                 IF id = t THEN [claimed |-> FALSE, refunded |-> FALSE]
                           ELSE swaps[id]]

(* lock: the sender submits.  msg.sender is terms.sender.                  *)
Lock(t) ==
  /\ Store(t)
  /\ Transfer(t.sender, Self, t.amount)
  /\ UNCHANGED <<now, nonces, signed, auths, accepted>>

Accept(m) == accepted' = [accepted EXCEPT ![m.terms.sender] = Append(@, m)]

(* Mutant: the nonce is compared but not used up. *)
LockForKeepsNonce(m) ==
  /\ now <= m.deadline /\ m \in signed
  /\ m.nonce = nonces[m.terms.sender]
  /\ Store(m.terms)
  /\ Transfer(m.terms.sender, Self, m.terms.amount)
  /\ Accept(m)
  /\ UNCHANGED <<now, nonces, signed, auths>>

(* lockFor: anyone submits a message the user signed, whose nonce is the   *)
(* user's current one and whose deadline has not passed.                   *)
LockFor(m) ==
  /\ now <= m.deadline
  /\ m \in signed
  /\ m.nonce = nonces[m.terms.sender]
  /\ nonces' = [nonces EXCEPT ![m.terms.sender] = @ + 1]
  /\ Store(m.terms)
  /\ Transfer(m.terms.sender, Self, m.terms.amount)
  /\ Accept(m)
  /\ UNCHANGED <<now, signed, auths>>

(* lockAuth: the token itself moves the funds on its own authorisation and *)
(* marks it used.                                                          *)
LockAuth(t, a) ==
  /\ a \in auths
  /\ a = [from |-> t.sender, value |-> t.amount]
  /\ Store(t)
  /\ Transfer(t.sender, Self, t.amount)
  /\ auths' = auths \ {a}
  /\ UNCHANGED <<now, nonces, signed, accepted>>

(* Mutants: claim without its check of refunded, refund without its check  *)
(* of claimed, refund until the timelock instead of from it on.            *)
ClaimAfterRefund(id, preimage) ==
  /\ Exists(id) /\ ~swaps[id].claimed
  /\ Sha256[preimage] = id.hashlock
  /\ swaps' = [swaps EXCEPT ![id].claimed = TRUE]
  /\ Transfer(Self, id.receiver, id.amount)
  /\ UNCHANGED <<now, nonces, signed, auths, accepted>>
RefundAfterClaim(id) ==
  /\ Exists(id) /\ ~swaps[id].refunded /\ now >= id.timelock
  /\ swaps' = [swaps EXCEPT ![id].refunded = TRUE]
  /\ Transfer(Self, id.sender, id.amount)
  /\ UNCHANGED <<now, nonces, signed, auths, accepted>>
RefundBefore(id) ==
  /\ Exists(id) /\ ~Done(id) /\ now < id.timelock
  /\ swaps' = [swaps EXCEPT ![id].refunded = TRUE]
  /\ Transfer(Self, id.sender, id.amount)
  /\ UNCHANGED <<now, nonces, signed, auths, accepted>>

Claim(id, preimage) ==
  /\ Exists(id)
  /\ ~swaps[id].claimed /\ ~swaps[id].refunded
  /\ Sha256[preimage] = id.hashlock
  /\ swaps' = [swaps EXCEPT ![id].claimed = TRUE]
  /\ Transfer(Self, id.receiver, id.amount)
  /\ UNCHANGED <<now, nonces, signed, auths, accepted>>

Refund(id) ==
  /\ Exists(id)
  /\ ~swaps[id].claimed /\ ~swaps[id].refunded
  /\ now >= id.timelock
  /\ swaps' = [swaps EXCEPT ![id].refunded = TRUE]
  /\ Transfer(Self, id.sender, id.amount)
  /\ UNCHANGED <<now, nonces, signed, auths, accepted>>

(* The world around the contract: users sign, blocks are produced.         *)
Sign(m) ==
  /\ m.nonce = nonces[m.terms.sender]
  /\ Cardinality(signed) < MaxSigned
  /\ signed' = signed \cup {m}
  /\ UNCHANGED <<now, swaps, nonces, auths, bal, accepted>>

Authorise(a) ==
  /\ Cardinality(auths) < MaxSigned
  /\ auths' = auths \cup {a}
  /\ UNCHANGED <<now, swaps, nonces, signed, bal, accepted>>

Tick ==
  /\ now < MaxTime
  /\ now' = now + 1
  /\ UNCHANGED <<swaps, nonces, signed, auths, bal, accepted>>

Next ==
  \/ \E t \in Offers :
       \/ Lock(t)
       \/ \E a \in auths : LockAuth(t, a)
       \/ Authorise([from |-> t.sender, value |-> t.amount])
       \/ \E d \in Deadlines :
            Sign([terms |-> t, nonce |-> nonces[t.sender], deadline |-> d])
  \/ \E m \in signed : LockFor(m)
  \/ \E id \in DOMAIN swaps : Refund(id) \/ \E p \in Preimages : Claim(id, p)
  \/ Tick

(* refund is permissionless: someone calls it in the end, and time passes. *)
Fairness == WF_vars(Tick) /\ \A id \in Offers : WF_vars(Refund(id))

Spec == Init /\ [][Next]_vars
FairSpec == Spec /\ Fairness
-----------------------------------------------------------------------------
(* Solvency: the tokens the contract holds are exactly those of its        *)
(* pending swaps, whichever of the three lock paths stored them, and no    *)
(* token is created or lost (_store, claim and refund move amounts that    *)
(* were fixed at lock time).                                               *)
Solvent ==
  /\ bal[Self] = MapThenSumSet(LAMBDA id : id.amount, Pending)
  /\ MapThenSumSet(LAMBDA a : bal[a], Users \cup {Self})
       = Supply * Cardinality(Users)

(* claimed and refunded are never both set: the race between a late claim  *)
(* and a refund at the timelock has one winner.                            *)
SettledOnce == \A id \in DOMAIN swaps : ~(swaps[id].claimed /\ swaps[id].refunded)

(* What holds of the contract's mapping and balances in every state.       *)
Sound == TypeOK /\ SettledOnce /\ Solvent

(* A swap never leaves the mapping, and a settled one never changes again: *)
(* the same terms cannot be stored a second time after they were paid.     *)
SwapsStand ==
  \A id \in DOMAIN swaps : /\ id \in DOMAIN swaps'
                           /\ Done(id) => swaps'[id] = swaps[id]
SettledForGood == [][SwapsStand]_vars

(* Nothing stays in the contract for ever: refund is open to anyone after  *)
(* the timelock, so every stored swap is settled in the end.               *)
NothingStuck == \A id \in Offers : Exists(id) ~> (Exists(id) /\ Done(id))

(* A signature is spent by its first use: lockFor has accepted a user's    *)
(* messages in the order of the nonces they were signed over, none left    *)
(* out, so none of them was accepted twice, not even once its swap was     *)
(* settled; each was signed by that user and stored a swap of its own.     *)
SpentSignatures ==
  \A u \in Users :
    /\ Len(accepted[u]) = nonces[u]
    /\ \A k \in 1..Len(accepted[u]) :
         LET m == accepted[u][k]
         IN  m.nonce = k - 1 /\ m \in signed /\ m.terms.sender = u /\ Exists(m.terms)
    /\ \A k, l \in 1..Len(accepted[u]) :
         k # l => /\ accepted[u][k] # accepted[u][l]
                  /\ accepted[u][k].terms # accepted[u][l].terms

(* The contract as the abstract escrow.                                    *)

DealOf(id) ==
  IF ~Exists(id) THEN NoDeal
  ELSE [payer |-> id.sender, payee |-> id.receiver,
        state |-> IF swaps[id].claimed THEN "paid"
                  ELSE IF swaps[id].refunded THEN "returned" ELSE "held"]
Abstract == INSTANCE Escrow WITH Ids <- Offers, Parties <- Users, NoDeal <- NoDeal,
                                 deal <- [id \in Offers |-> DealOf(id)]
ImplementsEscrow == Abstract!Spec
=============================================================================
