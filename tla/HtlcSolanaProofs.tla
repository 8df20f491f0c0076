-------------------------- MODULE HtlcSolanaProofs --------------------------
(***************************************************************************)
(* Theorems about the Solana program, for every set of owners, swap ids,   *)
(* offers and every function Sha256.                                       *)
(***************************************************************************)
EXTENDS HtlcSolana, TLAPS

(* The inductive invariant: vaults can only be shown to be paid in full    *)
(* when each is known to hold the amount of its pending swap.              *)
Inv == TypeOK /\ SettledOnce /\ VaultsSolvent

LEMMA NoSwapIsNoSwap == NoSwap \notin Swap
BY OffersAssumption

(* A transfer out of a vault keeps balances natural numbers.               *)
LEMMA PayTyped ==
  ASSUME TypeOK, NEW i \in SwapIds, Initialised(i), NEW to \in Keys, PayFromVault(i, to)
  PROVE  vault' \in [SwapIds -> Nat] /\ ata' \in [Keys -> Nat]
<1>1. swap[i].terms.amount \in Nat
  BY ConstantsAssumption DEF TypeOK, Initialised, Swap, Terms
<1>2. vault[i] - swap[i].terms.amount \in Nat
  BY <1>1 DEF PayFromVault, TypeOK
<1> QED
  BY <1>1, <1>2 DEF PayFromVault, TypeOK

(* Locking keeps the invariant: the new vault is empty before and holds    *)
(* the amount after.                                                       *)
LEMMA LockStep ==
  ASSUME Inv, NEW i \in SwapIds, NEW t \in Offers, Lock(i, t)
  PROVE  Inv'
<1>1. t \in Terms /\ t.amount \in Nat /\ t.sender \in Keys
  BY OffersAssumption, ConstantsAssumption DEF Terms
<1> DEFINE new == [terms |-> t, claimed |-> FALSE, refunded |-> FALSE]
<1>2. new \in Swap
  BY <1>1 DEF Swap
<1>3. TypeOK'
  <2>1. swap' \in [SwapIds -> Swap \cup {NoSwap}]
    BY <1>2 DEF Lock, Inv, TypeOK
  <2>2. vault' \in [SwapIds -> Nat]
    BY <1>1 DEF Lock, Inv, TypeOK
  <2>3. ata' \in [Keys -> Nat]
    <3>1. ata[t.sender] - t.amount \in Nat
      BY <1>1 DEF Lock, Inv, TypeOK
    <3> QED
      BY <1>1, <3>1 DEF Lock, Inv, TypeOK
  <2> QED
    BY <2>1, <2>2, <2>3 DEF Lock, Inv, TypeOK
<1>4. \A j \in SwapIds : swap'[j] = IF j = i THEN new ELSE swap[j]
  BY DEF Lock, Inv, TypeOK
<1>5. \A j \in SwapIds : vault'[j] = IF j = i THEN t.amount ELSE vault[j]
  <2>1. vault[i] = 0
    BY DEF Lock, Inv, VaultsSolvent, Initialised
  <2> QED
    BY <1>1, <2>1 DEF Lock, Inv, TypeOK
<1>6. new # NoSwap
  BY <1>2, NoSwapIsNoSwap
<1>7. SettledOnce'
  <2> SUFFICES ASSUME NEW j \in SwapIds, Initialised(j)'
               PROVE  ~(swap'[j].claimed /\ swap'[j].refunded)
    BY DEF SettledOnce
  <2>1. CASE j = i
    BY <2>1, <1>4
  <2>2. CASE j # i
    BY <2>2, <1>4 DEF Inv, SettledOnce, Initialised
  <2> QED
    BY <2>1, <2>2
<1>8. VaultsSolvent'
  <2> SUFFICES ASSUME NEW j \in SwapIds
               PROVE  vault'[j] = IF Initialised(j)' /\ ~Done(j)'
                                  THEN swap'[j].terms.amount ELSE 0
    BY DEF VaultsSolvent
  <2>1. CASE j = i
    BY <2>1, <1>4, <1>5, <1>6 DEF Initialised, Done
  <2>2. CASE j # i
    BY <2>2, <1>4, <1>5 DEF Inv, VaultsSolvent, Initialised, Done
  <2> QED
    BY <2>1, <2>2
<1> QED
  BY <1>3, <1>7, <1>8 DEF Inv

(* What claim and refund have in common: a pending swap becomes a record   *)
(* with the same terms and exactly one flag set, and its vault is emptied. *)
LEMMA SettleStep ==
  ASSUME Inv, NEW i \in SwapIds, NEW s \in Swap, NEW to \in Keys,
         Initialised(i), ~Done(i),
         s.terms = swap[i].terms, s.claimed # s.refunded,
         swap' = [swap EXCEPT ![i] = s], PayFromVault(i, to), UNCHANGED now
  PROVE  Inv'
<1>1. swap[i].terms.amount \in Nat
  BY ConstantsAssumption DEF Inv, TypeOK, Initialised, Swap, Terms
<1>2. s.claimed \in BOOLEAN /\ s.refunded \in BOOLEAN
  BY DEF Swap
<1>3. TypeOK'
  <2>1. vault' \in [SwapIds -> Nat] /\ ata' \in [Keys -> Nat]
    BY PayTyped DEF Inv
  <2> QED
    BY <2>1 DEF Inv, TypeOK
<1>4. \A j \in SwapIds : swap'[j] = IF j = i THEN s ELSE swap[j]
  BY DEF Inv, TypeOK
<1>5. \A j \in SwapIds : vault'[j] = IF j = i THEN 0 ELSE vault[j]
  <2>1. vault[i] = swap[i].terms.amount
    BY DEF Inv, VaultsSolvent
  <2> QED
    BY <1>1, <2>1 DEF PayFromVault, Inv, TypeOK
<1>6. SettledOnce'
  <2> SUFFICES ASSUME NEW j \in SwapIds, Initialised(j)'
               PROVE  ~(swap'[j].claimed /\ swap'[j].refunded)
    BY DEF SettledOnce
  <2>1. CASE j = i
    BY <2>1, <1>2, <1>4
  <2>2. CASE j # i
    BY <2>2, <1>4 DEF Inv, SettledOnce, Initialised
  <2> QED
    BY <2>1, <2>2
<1>7. VaultsSolvent'
  <2> SUFFICES ASSUME NEW j \in SwapIds
               PROVE  vault'[j] = IF Initialised(j)' /\ ~Done(j)'
                                  THEN swap'[j].terms.amount ELSE 0
    BY DEF VaultsSolvent
  <2>1. CASE j = i
    <3>1. Done(j)'
      BY <2>1, <1>2, <1>4 DEF Done
    <3> QED
      BY <2>1, <3>1, <1>5
  <2>2. CASE j # i
    BY <2>2, <1>4, <1>5 DEF Inv, VaultsSolvent, Initialised, Done
  <2> QED
    BY <2>1, <2>2
<1> QED
  BY <1>3, <1>6, <1>7 DEF Inv

(* Every step of the program keeps the invariant.                          *)
LEMMA NextStep == Inv /\ [Next]_vars => Inv'
<1> SUFFICES ASSUME Inv, [Next]_vars PROVE Inv'
  OBVIOUS
<1>1. ASSUME NEW i \in SwapIds, NEW t \in Offers, Lock(i, t) PROVE Inv'
  BY <1>1, LockStep
<1>2. ASSUME NEW i \in SwapIds, NEW p \in Preimages, Claim(i, p) PROVE Inv'
  <2>1. swap[i] \in Swap
    BY <1>2 DEF Claim, Initialised, Inv, TypeOK
  <2> DEFINE s == [swap[i] EXCEPT !.claimed = TRUE]
  <2>2. s \in Swap /\ s.terms = swap[i].terms /\ s.claimed # s.refunded
    BY <1>2, <2>1 DEF Claim, Swap
  <2>3. swap[i].terms.receiver \in Keys
    BY <2>1 DEF Swap, Terms
  <2>4. /\ Initialised(i) /\ ~Done(i)
        /\ swap' = [swap EXCEPT ![i] = s]
        /\ PayFromVault(i, swap[i].terms.receiver)
        /\ UNCHANGED now
    BY <1>2 DEF Claim, Done
  <2> HIDE DEF s
  <2> QED
    BY <2>2, <2>3, <2>4, SettleStep
<1>3. ASSUME NEW i \in SwapIds, Refund(i) PROVE Inv'
  <2>1. swap[i] \in Swap
    BY <1>3 DEF Refund, Initialised, Inv, TypeOK
  <2> DEFINE s == [swap[i] EXCEPT !.refunded = TRUE]
  <2>2. s \in Swap /\ s.terms = swap[i].terms /\ s.claimed # s.refunded
    BY <1>3, <2>1 DEF Refund, Swap
  <2>3. swap[i].terms.sender \in Keys
    BY <2>1 DEF Swap, Terms
  <2>4. /\ Initialised(i) /\ ~Done(i)
        /\ swap' = [swap EXCEPT ![i] = s]
        /\ PayFromVault(i, swap[i].terms.sender)
        /\ UNCHANGED now
    BY <1>3 DEF Refund, Done
  <2> HIDE DEF s
  <2> QED
    BY <2>2, <2>3, <2>4, SettleStep
<1>4. CASE Tick
  BY <1>4, ConstantsAssumption
     DEF Tick, Inv, TypeOK, SettledOnce, VaultsSolvent, Initialised, Done
<1>5. CASE UNCHANGED vars
  BY <1>5 DEF vars, Inv, TypeOK, SettledOnce, VaultsSolvent, Initialised, Done
<1> QED
  BY <1>1, <1>2, <1>3, <1>4, <1>5 DEF Next

(* The program starts with empty vaults.                                   *)
LEMMA InitStep == Init => Inv
BY ConstantsAssumption DEF Init, Inv, TypeOK, SettledOnce, VaultsSolvent, Initialised

(* Types hold, claimed and refunded are never both set, and every vault    *)
(* holds exactly the tokens of its own pending swap (lib.rs lock, claim,   *)
(* refund), whatever the number of swaps and the terms callers choose.     *)
THEOREM VaultsAlwaysSolvent == Spec => []Sound
<1>1. Spec => []Inv
  BY InitStep, NextStep, PTL DEF Spec
<1>2. Inv => Sound
  BY DEF Inv, Sound
<1> QED
  BY <1>1, <1>2, PTL

(* A step that touches one account only, settling or creating it, leaves   *)
(* the others as they were, and a settled account has no enabled step.     *)
LEMMA OneAccountPerStep ==
  ASSUME Inv, Next
  PROVE  \/ UNCHANGED swap
         \/ \E i \in SwapIds, t \in Terms :
              /\ ~Initialised(i)
              /\ swap' = [swap EXCEPT ![i] =
                            [terms |-> t, claimed |-> FALSE, refunded |-> FALSE]]
         \/ \E i \in SwapIds :
              /\ Initialised(i) /\ ~Done(i)
              /\ \/ swap' = [swap EXCEPT ![i] = [swap[i] EXCEPT !.claimed = TRUE]]
                 \/ swap' = [swap EXCEPT ![i] = [swap[i] EXCEPT !.refunded = TRUE]]
<1>1. ASSUME NEW i \in SwapIds, NEW t \in Offers, Lock(i, t)
      PROVE  /\ t \in Terms
             /\ ~Initialised(i)
             /\ swap' = [swap EXCEPT ![i] =
                           [terms |-> t, claimed |-> FALSE, refunded |-> FALSE]]
  BY <1>1, OffersAssumption DEF Lock
<1>2. ASSUME NEW i \in SwapIds, NEW p \in Preimages, Claim(i, p)
      PROVE  /\ Initialised(i) /\ ~Done(i)
             /\ swap' = [swap EXCEPT ![i] = [swap[i] EXCEPT !.claimed = TRUE]]
  BY <1>2 DEF Claim, Done
<1>3. ASSUME NEW i \in SwapIds, Refund(i)
      PROVE  /\ Initialised(i) /\ ~Done(i)
             /\ swap' = [swap EXCEPT ![i] = [swap[i] EXCEPT !.refunded = TRUE]]
  BY <1>3 DEF Refund, Done
<1>4. Tick => UNCHANGED swap
  BY DEF Tick
<1> QED
  BY <1>1, <1>2, <1>3, <1>4 DEF Next

(* The terms of a swap are fixed by lock and its outcome by the first      *)
(* claim or refund; a swap_id is never initialised twice.                  *)
THEOREM SettlementIsFinal == Spec => SettledForGood
<1> DEFINE Final == \A i \in SwapIds : Initialised(i) =>
                      /\ swap'[i] # NoSwap
                      /\ swap'[i].terms = swap[i].terms
                      /\ Done(i) => swap'[i] = swap[i]
<1>1. Inv /\ [Next]_vars => [Final]_vars
  <2> SUFFICES ASSUME Inv, Next, NEW i \in SwapIds, Initialised(i)
               PROVE  /\ swap'[i] # NoSwap
                      /\ swap'[i].terms = swap[i].terms
                      /\ Done(i) => swap'[i] = swap[i]
    OBVIOUS
  <2>1. swap[i] \in Swap /\ swap[i] # NoSwap
    BY DEF Inv, TypeOK, Initialised
  <2>2. CASE UNCHANGED swap
    BY <2>1, <2>2
  <2>3. ASSUME NEW j \in SwapIds, NEW t \in Terms, ~Initialised(j),
               swap' = [swap EXCEPT ![j] =
                          [terms |-> t, claimed |-> FALSE, refunded |-> FALSE]]
        PROVE  swap'[i] = swap[i]
    BY <2>3 DEF Inv, TypeOK
  <2>4. ASSUME NEW j \in SwapIds, NEW s \in Swap, Initialised(j), ~Done(j),
               swap' = [swap EXCEPT ![j] = s], s.terms = swap[j].terms
        PROVE  /\ swap'[i] # NoSwap
               /\ swap'[i].terms = swap[i].terms
               /\ Done(i) => swap'[i] = swap[i]
    <3>1. CASE i = j
      BY <2>4, <3>1, NoSwapIsNoSwap DEF Inv, TypeOK
    <3>2. CASE i # j
      BY <2>1, <2>4, <3>2 DEF Inv, TypeOK
    <3> QED
      BY <3>1, <3>2
  <2>5. \A j \in SwapIds : Initialised(j) =>
          /\ [swap[j] EXCEPT !.claimed = TRUE] \in Swap
          /\ [swap[j] EXCEPT !.refunded = TRUE] \in Swap
          /\ [swap[j] EXCEPT !.claimed = TRUE].terms = swap[j].terms
          /\ [swap[j] EXCEPT !.refunded = TRUE].terms = swap[j].terms
    BY DEF Inv, TypeOK, Initialised, Swap
  <2> QED
    BY <2>1, <2>2, <2>3, <2>4, <2>5, OneAccountPerStep
<1>2. Spec => []Inv
  BY InitStep, NextStep, PTL DEF Spec
<1> QED
  BY <1>1, <1>2, PTL DEF Spec, SettledForGood

(* The program implements the abstract escrow: every lock is a Hold, every *)
(* claim or refund the one Settle of its deal, and time is a stutter.      *)
THEOREM SolanaImplementsEscrow == Spec => ImplementsEscrow
<1> DEFINE d == [i \in SwapIds |-> DealOf(i)]
<1>1. Init => Abstract!Init
  BY DEF Init, Abstract!Init, DealOf, Initialised
<1>2. Inv /\ [Next]_vars => [Abstract!Next]_d
  <2> SUFFICES ASSUME Inv, [Next]_vars PROVE [Abstract!Next]_d
    OBVIOUS
  <2>1. CASE UNCHANGED swap
    BY <2>1 DEF DealOf, Initialised
  <2>2. ASSUME NEW i \in SwapIds, NEW t \in Terms, ~Initialised(i),
               swap' = [swap EXCEPT ![i] =
                          [terms |-> t, claimed |-> FALSE, refunded |-> FALSE]]
        PROVE  Abstract!Hold(i)
    <3> DEFINE new == [terms |-> t, claimed |-> FALSE, refunded |-> FALSE]
    <3>0. new \in Swap
      BY DEF Swap
    <3>1. new # NoSwap
      BY <3>0, NoSwapIsNoSwap
    <3>2. t.sender \in Keys /\ t.receiver \in Keys
      BY DEF Terms
    <3>3. \A j \in SwapIds : swap'[j] = IF j = i THEN new ELSE swap[j]
      BY <2>2 DEF Inv, TypeOK
    <3>4. \A j \in SwapIds : d'[j] =
            IF j = i THEN [payer |-> t.sender, payee |-> t.receiver, state |-> "held"]
                     ELSE d[j]
      BY <3>1, <3>3 DEF DealOf, Initialised
    <3>5. d[i] = NoSwap
      BY <2>2 DEF DealOf
    <3> HIDE DEF new
    <3> QED
      BY <3>2, <3>4, <3>5 DEF Abstract!Hold
  <2>3. ASSUME NEW i \in SwapIds, Initialised(i), ~Done(i), NEW s \in Swap,
               NEW outcome \in {"paid", "returned"},
               s.terms = swap[i].terms,
               outcome = "paid" => s.claimed,
               outcome = "returned" => ~s.claimed /\ s.refunded,
               swap' = [swap EXCEPT ![i] = s]
        PROVE  Abstract!Settle(i, outcome)
    <3>1. swap[i] \in Swap /\ ~swap[i].claimed /\ ~swap[i].refunded
      BY <2>3 DEF Inv, TypeOK, Initialised, Done
    <3>2. s # NoSwap
      BY NoSwapIsNoSwap
    <3>3. \A j \in SwapIds : swap'[j] = IF j = i THEN s ELSE swap[j]
      BY <2>3 DEF Inv, TypeOK
    <3>4. d[i] = [payer |-> swap[i].terms.sender, payee |-> swap[i].terms.receiver,
                  state |-> "held"]
      BY <2>3, <3>1 DEF DealOf
    <3>5. d[i] # NoSwap
      <4>1. swap[i].terms.sender \in Keys /\ swap[i].terms.receiver \in Keys
        BY <3>1 DEF Swap, Terms
      <4> QED
        BY <3>4, <4>1, OffersAssumption
    <3>6. d'[i] = [payer |-> s.terms.sender, payee |-> s.terms.receiver, state |-> outcome]
      BY <2>3, <3>2, <3>3 DEF DealOf, Initialised
    <3>7. \A j \in SwapIds : j # i => d'[j] = d[j]
      BY <3>3 DEF DealOf, Initialised
    <3>8. d' = [d EXCEPT ![i] = [d[i] EXCEPT !.state = outcome]]
      <4>1. [d[i] EXCEPT !.state = outcome] = d'[i]
        BY <2>3, <3>4, <3>6
      <4> HIDE DEF d
      <4>2. d \in [SwapIds -> {d[j] : j \in SwapIds}] /\ DOMAIN d' = SwapIds
        BY DEF d
      <4> QED
        BY <3>7, <4>1, <4>2 DEF d
    <3> HIDE DEF d
    <3> QED
      BY <3>4, <3>5, <3>8 DEF Abstract!Settle, d
  <2>4. ASSUME NEW i \in SwapIds, Initialised(i), ~Done(i),
               \/ swap' = [swap EXCEPT ![i] = [swap[i] EXCEPT !.claimed = TRUE]]
               \/ swap' = [swap EXCEPT ![i] = [swap[i] EXCEPT !.refunded = TRUE]]
        PROVE  Abstract!Settle(i, "paid") \/ Abstract!Settle(i, "returned")
    <3> DEFINE c == [swap[i] EXCEPT !.claimed = TRUE]
               r == [swap[i] EXCEPT !.refunded = TRUE]
    <3>1. swap[i] \in Swap /\ ~swap[i].claimed /\ ~swap[i].refunded
      BY <2>4 DEF Inv, TypeOK, Initialised, Done
    <3>2. /\ c \in Swap /\ c.terms = swap[i].terms /\ c.claimed
          /\ r \in Swap /\ r.terms = swap[i].terms /\ ~r.claimed /\ r.refunded
      BY <3>1 DEF Swap
    <3>3. swap' = [swap EXCEPT ![i] = c] \/ swap' = [swap EXCEPT ![i] = r]
      BY <2>4
    <3> HIDE DEF c, r
    <3>4. CASE swap' = [swap EXCEPT ![i] = c]
      BY <2>3, <2>4, <3>2, <3>4
    <3>5. CASE swap' = [swap EXCEPT ![i] = r]
      BY <2>3, <2>4, <3>2, <3>5
    <3> QED
      BY <3>3, <3>4, <3>5
  <2>5. CASE Next
    <3> HIDE DEF d
    <3>1. CASE UNCHANGED swap
      BY <2>1, <3>1
    <3>2. CASE \E i \in SwapIds, t \in Terms :
                 /\ ~Initialised(i)
                 /\ swap' = [swap EXCEPT ![i] =
                               [terms |-> t, claimed |-> FALSE, refunded |-> FALSE]]
      BY <2>2, <3>2 DEF Abstract!Next
    <3>3. CASE \E i \in SwapIds :
                 /\ Initialised(i) /\ ~Done(i)
                 /\ \/ swap' = [swap EXCEPT ![i] = [swap[i] EXCEPT !.claimed = TRUE]]
                    \/ swap' = [swap EXCEPT ![i] = [swap[i] EXCEPT !.refunded = TRUE]]
      BY <2>4, <3>3 DEF Abstract!Next
    <3> QED
      BY <2>5, <3>1, <3>2, <3>3, OneAccountPerStep
  <2>6. CASE UNCHANGED vars
    BY <2>1, <2>6 DEF vars
  <2> QED
    BY <2>5, <2>6
<1> QED
  BY <1>1, <1>2, InitStep, NextStep, PTL DEF Spec, Abstract!Spec, ImplementsEscrow
=============================================================================
