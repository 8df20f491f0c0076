----------------------------- MODULE HtlcSolana -----------------------------
(***************************************************************************)
(* solana-htlc/programs/htlc/src/lib.rs: the program that holds the USDC   *)
(* leg of a swap on Solana.  Unlike the Solidity contract it keeps every   *)
(* swap in an account of its own and its tokens in a vault of their own,   *)
(* both addressed by the swap_id the caller chose; init fails when the     *)
(* account exists, so a swap_id is used once whatever its terms.           *)
(***************************************************************************)
EXTENDS Integers

CONSTANTS
  Keys,        \* account owners (sender, receiver, payer)
  SwapIds, Preimages, Hashes, Sha256,
  MaxAmount,   \* largest amount a call names
  MaxTime,     \* bound: Clock::unix_timestamp stops there
  Supply,      \* tokens every owner's token account starts with
  NoSwap,      \* an account that was not initialised
  Offers       \* the terms callers name

ASSUME ConstantsAssumption ==
  /\ Sha256 \in [Preimages -> Hashes]
  /\ {MaxAmount, MaxTime, Supply} \subseteq Nat

Terms == [sender : Keys, receiver : Keys, amount : 0..MaxAmount,
          hashlock : Hashes, timelock : 0..MaxTime]
Swap == [terms : Terms, claimed : BOOLEAN, refunded : BOOLEAN]

ASSUME OffersAssumption ==
  /\ Offers \subseteq Terms
  /\ NoSwap \notin Swap
  /\ NoSwap \notin [payer : Keys, payee : Keys, state : {"held", "paid", "returned"}]

VARIABLES
  now,     \* Clock::get()?.unix_timestamp
  swap,    \* the PDA ["swap", swap_id]
  vault,   \* balance of the PDA ["vault", swap_id]
  ata      \* balance of every owner's token account

vars == <<now, swap, vault, ata>>

Initialised(i) == swap[i] # NoSwap
Done(i) == swap[i].claimed \/ swap[i].refunded

TypeOK ==
  /\ now \in 0..MaxTime
  /\ swap \in [SwapIds -> Swap \cup {NoSwap}]
  /\ vault \in [SwapIds -> Nat]
  /\ ata \in [Keys -> Nat]

Init ==
  /\ now = 0
  /\ swap = [i \in SwapIds |-> NoSwap]
  /\ vault = [i \in SwapIds |-> 0]
  /\ ata = [k \in Keys |-> Supply]

(* Mutants: init_if_needed instead of init; the transfer of a balance the  *)
(* sender does not have.                                                   *)
LockAgain(i, t) ==
  /\ t.amount > 0 /\ t.timelock > now /\ ata[t.sender] >= t.amount
  /\ swap' = [swap EXCEPT ![i] = [terms |-> t, claimed |-> FALSE, refunded |-> FALSE]]
  /\ ata' = [ata EXCEPT ![t.sender] = @ - t.amount]
  /\ vault' = [vault EXCEPT ![i] = @ + t.amount]
  /\ UNCHANGED now
LockUnfunded(i, t) ==
  /\ ~Initialised(i) /\ t.amount > 0 /\ t.timelock > now
  /\ swap' = [swap EXCEPT ![i] = [terms |-> t, claimed |-> FALSE, refunded |-> FALSE]]
  /\ ata' = [ata EXCEPT ![t.sender] = @ - t.amount]
  /\ vault' = [vault EXCEPT ![i] = @ + t.amount]
  /\ UNCHANGED now

Lock(i, t) ==
  /\ ~Initialised(i)
  /\ t.amount > 0
  /\ t.timelock > now
  /\ ata[t.sender] >= t.amount
  /\ swap' = [swap EXCEPT ![i] =
                [terms |-> t, claimed |-> FALSE, refunded |-> FALSE]]
  /\ ata' = [ata EXCEPT ![t.sender] = @ - t.amount]
  /\ vault' = [vault EXCEPT ![i] = @ + t.amount]
  /\ UNCHANGED now

(* token::transfer out of the vault, which signs with its own seeds.       *)
PayFromVault(i, to) ==
  /\ vault[i] >= swap[i].terms.amount
  /\ vault' = [vault EXCEPT ![i] = @ - swap[i].terms.amount]
  /\ ata' = [ata EXCEPT ![to] = @ + swap[i].terms.amount]

Claim(i, preimage) ==
  /\ Initialised(i)
  /\ ~swap[i].claimed /\ ~swap[i].refunded
  /\ Sha256[preimage] = swap[i].terms.hashlock
  /\ swap' = [swap EXCEPT ![i] = [swap[i] EXCEPT !.claimed = TRUE]]
  /\ PayFromVault(i, swap[i].terms.receiver)
  /\ UNCHANGED now

(* Mutant: refund until the timelock instead of from it on. *)
RefundBefore(i) ==
  /\ Initialised(i) /\ ~Done(i) /\ now < swap[i].terms.timelock
  /\ swap' = [swap EXCEPT ![i] = [swap[i] EXCEPT !.refunded = TRUE]]
  /\ PayFromVault(i, swap[i].terms.sender)
  /\ UNCHANGED now

Refund(i) ==
  /\ Initialised(i)
  /\ ~swap[i].claimed /\ ~swap[i].refunded
  /\ now >= swap[i].terms.timelock
  /\ swap' = [swap EXCEPT ![i] = [swap[i] EXCEPT !.refunded = TRUE]]
  /\ PayFromVault(i, swap[i].terms.sender)
  /\ UNCHANGED now

Tick ==
  /\ now < MaxTime
  /\ now' = now + 1
  /\ UNCHANGED <<swap, vault, ata>>

Next ==
  \/ \E i \in SwapIds :
       \/ \E t \in Offers : Lock(i, t)
       \/ \E p \in Preimages : Claim(i, p)
       \/ Refund(i)
  \/ Tick

(* refund is permissionless: someone calls it in the end, and time passes. *)
Spec == Init /\ [][Next]_vars
FairSpec == Spec /\ WF_vars(Tick) /\ \A i \in SwapIds : WF_vars(Refund(i))
-----------------------------------------------------------------------------
(* Every vault holds exactly the amount of its swap while the swap is      *)
(* pending, and nothing before or after: one swap can never be paid with   *)
(* the tokens of another (lock, claim and refund of lib.rs).               *)
VaultsSolvent ==
  \A i \in SwapIds :
    vault[i] = IF Initialised(i) /\ ~Done(i) THEN swap[i].terms.amount ELSE 0

(* claimed and refunded are never both set on an account.                  *)
SettledOnce ==
  \A i \in SwapIds : Initialised(i) => ~(swap[i].claimed /\ swap[i].refunded)

(* What holds of the accounts and the vaults in every state.               *)
Sound == TypeOK /\ SettledOnce /\ VaultsSolvent

(* The terms of an initialised swap never change, and a settled swap never *)
(* does: a swap_id cannot be initialised again with other terms.           *)
SettledForGood ==
  [][\A i \in SwapIds : Initialised(i) =>
        /\ swap'[i] # NoSwap
        /\ swap'[i].terms = swap[i].terms
        /\ Done(i) => swap'[i] = swap[i]]_vars

(* A lock is returned or paid in the end: refund is open to anyone.        *)
NothingStuck == \A i \in SwapIds : Initialised(i) ~> (Initialised(i) /\ Done(i))

(* The program as the abstract escrow.                                     *)
DealOf(i) ==
  IF ~Initialised(i) THEN NoSwap
  ELSE [payer |-> swap[i].terms.sender, payee |-> swap[i].terms.receiver,
        state |-> IF swap[i].claimed THEN "paid"
                  ELSE IF swap[i].refunded THEN "returned" ELSE "held"]
Abstract == INSTANCE Escrow WITH Ids <- SwapIds, Parties <- Keys, NoDeal <- NoSwap,
                                 deal <- [i \in SwapIds |-> DealOf(i)]
ImplementsEscrow == Abstract!Spec
=============================================================================
