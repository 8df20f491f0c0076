-------------------------- MODULE HtlcErc20Proofs ---------------------------
(***************************************************************************)
(* Theorems about the Solidity contract, for any users, offers, deadlines  *)
(* and bounds: its types, its signatures, the escrow it implements, and    *)
(* that it holds exactly what is pending.                                  *)
(***************************************************************************)
EXTENDS HtlcErc20, SumLemmas

(* Every nonce that was used up stands for a swap of its own, which is why *)
(* nonces stay within the bound on swaps.                                  *)
Counted ==
  /\ IsFiniteSet(DOMAIN swaps) /\ Cardinality(DOMAIN swaps) <= MaxLocks
  /\ \A u \in Users : nonces[u] <= Cardinality(DOMAIN swaps)
Inv == TypeOK /\ SettledOnce /\ Counted

Empty == [claimed |-> FALSE, refunded |-> FALSE]
-----------------------------------------------------------------------------
LEMMA InitStep == Init => Inv
BY ConstantsAssumption, FS_EmptySet DEF Init, Inv, TypeOK, SettledOnce, Counted, Nonces, Flags

(* The token moves an amount or reverts.                                   *)
LEMMA TransferTyped ==
  ASSUME TypeOK, NEW f \in Users \cup {Self}, NEW g \in Users \cup {Self}, NEW n \in Nat, Transfer(f, g, n)
  PROVE  bal' \in [Users \cup {Self} -> Nat]
<1>1. /\ bal[f] - n \in Nat /\ bal \in [Users \cup {Self} -> Nat]
      /\ bal' = [bal EXCEPT ![f] = @ - n, ![g] = @ + n]
  BY DEF Transfer, TypeOK
<1>2. CASE f = g
  BY <1>1, <1>2
<1>3. CASE f # g
  <2>1. bal'[f] = bal[f] - n /\ bal'[g] = bal[g] + n /\ DOMAIN bal' = Users \cup {Self}
    BY <1>1, <1>3
  <2>2. \A a \in Users \cup {Self} : a # f /\ a # g => bal'[a] = bal[a]
    BY <1>1
  <2>3. bal' = [a \in Users \cup {Self} |-> bal'[a]]
    BY <1>1
  <2> QED
    BY <1>1, <2>1, <2>2, <2>3
<1> QED
  BY <1>2, <1>3

(* What the three lock paths have in common.                               *)
LEMMA StoreFacts ==
  ASSUME Inv, NEW t \in Terms, Store(t)
  PROVE  /\ DOMAIN swaps' = DOMAIN swaps \cup {t} /\ t \notin DOMAIN swaps
         /\ \A id \in DOMAIN swaps : swaps'[id] = swaps[id]
         /\ swaps'[t] = Empty
         /\ DOMAIN swaps' \subseteq Terms /\ swaps' \in [DOMAIN swaps' -> Flags]
         /\ SettledOnce'
         /\ IsFiniteSet(DOMAIN swaps') /\ Cardinality(DOMAIN swaps') <= MaxLocks
         /\ Cardinality(DOMAIN swaps') = Cardinality(DOMAIN swaps) + 1 /\ Cardinality(DOMAIN swaps) \in Nat
<1>1. /\ DOMAIN swaps' = DOMAIN swaps \cup {t} /\ t \notin DOMAIN swaps
      /\ \A id \in DOMAIN swaps' : swaps'[id] = IF id = t THEN Empty ELSE swaps[id]
      /\ swaps' = [id \in DOMAIN swaps' |-> swaps'[id]]
  BY DEF Store, Exists, Empty
<1>2. Empty \in Flags /\ \A id \in DOMAIN swaps : swaps[id] \in Flags
  BY DEF Empty, Flags, Inv, TypeOK
<1>3. /\ IsFiniteSet(DOMAIN swaps') /\ Cardinality(DOMAIN swaps') = Cardinality(DOMAIN swaps) + 1
      /\ Cardinality(DOMAIN swaps) \in Nat
  BY <1>1, FS_AddElement, FS_CardinalityType DEF Inv, Counted
<1>4. Cardinality(DOMAIN swaps') <= MaxLocks
  BY <1>3, ConstantsAssumption DEF Store
<1>5. SettledOnce'
  BY <1>1 DEF Inv, SettledOnce, Empty
<1>6. DOMAIN swaps' \subseteq Terms /\ swaps' \in [DOMAIN swaps' -> Flags]
  BY <1>1, <1>2 DEF Inv, TypeOK
<1> QED
  BY <1>1, <1>3, <1>4, <1>5, <1>6

LEMMA LockStep ==
  ASSUME Inv, NEW t \in Offers, Lock(t) \/ \E a \in auths : LockAuth(t, a)
  PROVE  Inv'
<1>1. t \in Terms /\ t.sender \in Users /\ t.amount \in Nat
  BY OffersAssumption, ConstantsAssumption DEF Terms
<1>2. Store(t) /\ Transfer(t.sender, Self, t.amount) /\ auths' \subseteq auths /\ UNCHANGED <<now, nonces, signed, accepted>>
  BY DEF Lock, LockAuth
<1>3. bal' \in [Users \cup {Self} -> Nat]
  BY <1>1, <1>2, TransferTyped DEF Inv
<1>4. TypeOK'
  BY <1>1, <1>2, <1>3, StoreFacts DEF Inv, TypeOK
<1>5. Counted'
  <2>1. \A u \in Users : nonces'[u] = nonces[u] /\ nonces[u] \in Nat /\ nonces[u] <= Cardinality(DOMAIN swaps)
    BY <1>2, ConstantsAssumption DEF Inv, TypeOK, Counted, Nonces
  <2>2. /\ Cardinality(DOMAIN swaps') = Cardinality(DOMAIN swaps) + 1 /\ Cardinality(DOMAIN swaps) \in Nat
        /\ IsFiniteSet(DOMAIN swaps') /\ Cardinality(DOMAIN swaps') <= MaxLocks
    BY <1>1, <1>2, StoreFacts
  <2>3. \A u \in Users : nonces'[u] <= Cardinality(DOMAIN swaps')
    BY <2>1, <2>2
  <2> QED
    BY <2>2, <2>3 DEF Counted
<1> QED
  BY <1>1, <1>2, <1>4, <1>5, StoreFacts DEF Inv

LEMMA LockForStep ==
  ASSUME Inv, NEW m \in signed, LockFor(m)
  PROVE  Inv'
<1> DEFINE u == m.terms.sender
<1>1. m.terms \in Terms /\ u \in Users /\ m.terms.amount \in Nat
  BY ConstantsAssumption DEF Inv, TypeOK, Messages, Terms
<1>2. /\ Store(m.terms) /\ Transfer(u, Self, m.terms.amount) /\ UNCHANGED <<now, signed, auths>>
      /\ nonces' = [nonces EXCEPT ![u] = nonces[u] + 1]
      /\ accepted' = [accepted EXCEPT ![u] = Append(accepted[u], m)]
  BY DEF LockFor, Accept
<1> HIDE DEF u
<1>3. bal' \in [Users \cup {Self} -> Nat]
  BY <1>1, <1>2, TransferTyped DEF Inv
<1>4. \A v \in Users : nonces'[v] = (IF v = u THEN nonces[v] + 1 ELSE nonces[v]) /\ nonces[v] \in Nat
  BY <1>1, <1>2 DEF Inv, TypeOK, Nonces
<1>5. \A v \in Users : nonces'[v] <= Cardinality(DOMAIN swaps') /\ nonces'[v] \in Nonces
  <2>1. /\ Cardinality(DOMAIN swaps') = Cardinality(DOMAIN swaps) + 1 /\ Cardinality(DOMAIN swaps) \in Nat
        /\ Cardinality(DOMAIN swaps') <= MaxLocks
    BY <1>1, <1>2, StoreFacts
  <2>2. \A v \in Users : nonces[v] <= Cardinality(DOMAIN swaps) /\ nonces[v] \in Nat
    BY <1>4 DEF Inv, Counted
  <2>3. \A v \in Users : nonces'[v] <= Cardinality(DOMAIN swaps') /\ nonces'[v] \in Nat
    <3> SUFFICES ASSUME NEW v \in Users PROVE nonces'[v] <= Cardinality(DOMAIN swaps') /\ nonces'[v] \in Nat
      OBVIOUS
    <3>1. nonces'[v] = nonces[v] + 1 \/ nonces'[v] = nonces[v]
      BY <1>4
    <3> QED
      BY <2>1, <2>2, <3>1
  <2> QED
    BY <2>1, <2>3, ConstantsAssumption DEF Nonces
<1>6. nonces' \in [Users -> Nonces]
  BY <1>1, <1>2, <1>5 DEF Inv, TypeOK
<1>9. accepted' \in [Users -> Seq(Messages)]
  <2>1. m \in Messages /\ accepted \in [Users -> Seq(Messages)] /\ Append(accepted[u], m) \in Seq(Messages)
    BY <1>1 DEF Inv, TypeOK
  <2> QED
    BY <1>2, <2>1
<1>7. TypeOK'
  BY <1>1, <1>2, <1>3, <1>6, <1>9, StoreFacts DEF Inv, TypeOK
<1>8. Counted'
  BY <1>1, <1>2, <1>5, StoreFacts DEF Counted
<1> QED
  BY <1>1, <1>2, <1>7, <1>8, StoreFacts DEF Inv

(* Claim and refund set one flag of a swap that has none.                  *)
LEMMA SettleStep ==
  ASSUME Inv, NEW id \in DOMAIN swaps, NEW s \in Flags, ~(s.claimed /\ s.refunded),
         NEW to \in Users, swaps' = [swaps EXCEPT ![id] = s], Transfer(Self, to, id.amount),
         UNCHANGED <<now, nonces, signed, auths, accepted>>
  PROVE  Inv'
<1>1. id.amount \in Nat
  BY ConstantsAssumption DEF Inv, TypeOK, Terms
<1>2. bal' \in [Users \cup {Self} -> Nat]
  BY <1>1, TransferTyped DEF Inv
<1>3. DOMAIN swaps' = DOMAIN swaps
  OBVIOUS
<1>4. TypeOK'
  BY <1>2, <1>3 DEF Inv, TypeOK
<1>5. SettledOnce'
  BY <1>3 DEF Inv, SettledOnce
<1>6. Counted'
  BY <1>3 DEF Inv, Counted
<1> QED
  BY <1>4, <1>5, <1>6 DEF Inv

LEMMA ClaimStep ==
  ASSUME Inv, NEW id \in DOMAIN swaps, NEW p \in Preimages, Claim(id, p)
  PROVE  Inv'
<1>1. swaps[id] \in Flags /\ id.receiver \in Users
  BY DEF Inv, TypeOK, Terms
<1> DEFINE s == [swaps[id] EXCEPT !.claimed = TRUE]
<1>2. s \in Flags /\ ~(s.claimed /\ s.refunded)
  BY <1>1 DEF Claim, Flags
<1>3. swaps' = [swaps EXCEPT ![id] = s] /\ Transfer(Self, id.receiver, id.amount) /\ UNCHANGED <<now, nonces, signed, auths, accepted>>
  BY DEF Claim
<1> HIDE DEF s
<1> QED
  BY <1>1, <1>2, <1>3, SettleStep

LEMMA RefundStep ==
  ASSUME Inv, NEW id \in DOMAIN swaps, Refund(id)
  PROVE  Inv'
<1>1. swaps[id] \in Flags /\ id.sender \in Users
  BY DEF Inv, TypeOK, Terms
<1> DEFINE s == [swaps[id] EXCEPT !.refunded = TRUE]
<1>2. s \in Flags /\ ~(s.claimed /\ s.refunded)
  BY <1>1 DEF Refund, Flags
<1>3. swaps' = [swaps EXCEPT ![id] = s] /\ Transfer(Self, id.sender, id.amount) /\ UNCHANGED <<now, nonces, signed, auths, accepted>>
  BY DEF Refund
<1> HIDE DEF s
<1> QED
  BY <1>1, <1>2, <1>3, SettleStep

LEMMA SignStep ==
  ASSUME Inv, NEW t \in Offers,
         \/ Authorise([from |-> t.sender, value |-> t.amount])
         \/ \E d \in Deadlines : Sign([terms |-> t, nonce |-> nonces[t.sender], deadline |-> d])
  PROVE  Inv'
<1>1. t \in Terms /\ t.sender \in Users /\ t.amount \in 0..MaxAmount /\ nonces[t.sender] \in Nonces
  BY OffersAssumption DEF Terms, Inv, TypeOK
<1>2. [from |-> t.sender, value |-> t.amount] \in Auths
  BY <1>1 DEF Auths
<1>3. \A d \in Deadlines : [terms |-> t, nonce |-> nonces[t.sender], deadline |-> d] \in Messages
  BY <1>1, OffersAssumption DEF Messages
<1>4. /\ signed' \subseteq Messages /\ auths' \subseteq Auths /\ UNCHANGED <<now, swaps, nonces, bal, accepted>>
  BY <1>2, <1>3 DEF Authorise, Sign, Inv, TypeOK
<1> QED
  BY <1>4 DEF Inv, TypeOK, SettledOnce, Counted

LEMMA NextStep == Inv /\ [Next]_vars => Inv'
<1> SUFFICES ASSUME Inv, [Next]_vars PROVE Inv'
  OBVIOUS
<1>1. ASSUME NEW t \in Offers, NEW a \in auths, Lock(t) \/ LockAuth(t, a) PROVE Inv'
  BY <1>1, LockStep
<1>2. ASSUME NEW t \in Offers, Lock(t) PROVE Inv'
  BY <1>2, LockStep
<1>3. ASSUME NEW t \in Offers,
             \/ Authorise([from |-> t.sender, value |-> t.amount])
             \/ \E d \in Deadlines : Sign([terms |-> t, nonce |-> nonces[t.sender], deadline |-> d])
      PROVE  Inv'
  BY <1>3, SignStep
<1>4. ASSUME NEW m \in signed, LockFor(m) PROVE Inv'
  BY <1>4, LockForStep
<1>5. ASSUME NEW id \in DOMAIN swaps, Refund(id) \/ \E p \in Preimages : Claim(id, p) PROVE Inv'
  BY <1>5, ClaimStep, RefundStep
<1>6. CASE Tick
  BY <1>6, ConstantsAssumption DEF Tick, Inv, TypeOK, SettledOnce, Counted
<1>7. CASE UNCHANGED vars
  BY <1>7 DEF vars, Inv, TypeOK, SettledOnce, Counted
<1> QED
  BY <1>1, <1>2, <1>3, <1>4, <1>5, <1>6, <1>7 DEF Next

LEMMA Invariance == Spec => []Inv
BY InitStep, NextStep, PTL DEF Spec
-----------------------------------------------------------------------------
(* The contract keeps its types, and no swap is both claimed and refunded  *)
(* (claim :108, refund :118), for any users, offers and calls.             *)
THEOREM ContractIsTyped == Spec => [](TypeOK /\ SettledOnce)
BY Invariance, PTL DEF Inv

(* A step stores one new entry or settles one that is pending.             *)
LEMMA OneEntryPerStep ==
  ASSUME Inv, Next
  PROVE  \/ UNCHANGED swaps
         \/ \E t \in Terms :
              /\ ~Exists(t)
              /\ swaps' = [id \in DOMAIN swaps \cup {t} |-> IF id = t THEN Empty ELSE swaps[id]]
         \/ \E id \in DOMAIN swaps :
              /\ ~Done(id)
              /\ \/ swaps' = [swaps EXCEPT ![id] = [swaps[id] EXCEPT !.claimed = TRUE]]
                 \/ swaps' = [swaps EXCEPT ![id] = [swaps[id] EXCEPT !.refunded = TRUE]]
<1>1. ASSUME NEW t \in Terms, Store(t)
      PROVE  /\ ~Exists(t)
             /\ swaps' = [id \in DOMAIN swaps \cup {t} |-> IF id = t THEN Empty ELSE swaps[id]]
  BY <1>1 DEF Store, Empty
<1>2. ASSUME NEW t \in Offers, Lock(t) \/ \E a \in auths : LockAuth(t, a)
      PROVE  t \in Terms /\ Store(t)
  BY <1>2, OffersAssumption DEF Lock, LockAuth
<1>3. ASSUME NEW m \in signed, LockFor(m) PROVE m.terms \in Terms /\ Store(m.terms)
  BY <1>3 DEF LockFor, Inv, TypeOK, Messages
<1>4. ASSUME NEW id \in DOMAIN swaps, Refund(id) \/ \E p \in Preimages : Claim(id, p)
      PROVE  /\ ~Done(id)
             /\ \/ swaps' = [swaps EXCEPT ![id] = [swaps[id] EXCEPT !.claimed = TRUE]]
                \/ swaps' = [swaps EXCEPT ![id] = [swaps[id] EXCEPT !.refunded = TRUE]]
  BY <1>4 DEF Refund, Claim, Done
<1>5. ASSUME NEW t \in Offers,
             \/ Authorise([from |-> t.sender, value |-> t.amount])
             \/ \E d \in Deadlines : Sign([terms |-> t, nonce |-> nonces[t.sender], deadline |-> d])
      PROVE  UNCHANGED swaps
  BY <1>5 DEF Authorise, Sign
<1>6. Tick => UNCHANGED swaps
  BY DEF Tick
<1> QED
  BY <1>1, <1>2, <1>3, <1>4, <1>5, <1>6 DEF Next

(* The id of a swap is its terms, so an entry is stored once, by whichever *)
(* of the three lock paths, and a settled one stays as it is (_store :61). *)
THEOREM ASettledSwapStays == Spec => SettledForGood
<1>1. Inv /\ [Next]_vars => [SwapsStand]_vars
  <2> SUFFICES ASSUME Inv, Next, NEW id \in DOMAIN swaps
               PROVE  id \in DOMAIN swaps' /\ (Done(id) => swaps'[id] = swaps[id])
    BY DEF SwapsStand
  <2>1. CASE UNCHANGED swaps
    BY <2>1
  <2>2. ASSUME NEW t \in Terms, ~Exists(t),
               swaps' = [i \in DOMAIN swaps \cup {t} |-> IF i = t THEN Empty ELSE swaps[i]]
        PROVE  id \in DOMAIN swaps' /\ swaps'[id] = swaps[id]
    BY <2>2 DEF Exists
  <2>3. ASSUME NEW i \in DOMAIN swaps, ~Done(i), NEW s, swaps' = [swaps EXCEPT ![i] = s]
        PROVE  id \in DOMAIN swaps' /\ (Done(id) => swaps'[id] = swaps[id])
    BY <2>3
  <2> QED
    BY <2>1, <2>2, <2>3, OneEntryPerStep
<1> QED
  BY <1>1, Invariance, PTL DEF Spec, SettledForGood

(* One acceptance appends the message over the nonce it uses up.           *)
LEMMA AcceptedStep == Inv /\ SpentSignatures /\ [Next]_vars => SpentSignatures'
<1> SUFFICES ASSUME Inv, SpentSignatures, [Next]_vars, NEW v \in Users
             PROVE  /\ Len(accepted'[v]) = nonces'[v]
                    /\ \A k \in 1..Len(accepted'[v]) :
                         /\ accepted'[v][k].nonce = k - 1 /\ accepted'[v][k] \in signed'
                         /\ accepted'[v][k].terms.sender = v /\ accepted'[v][k].terms \in DOMAIN swaps'
                    /\ \A k, l \in 1..Len(accepted'[v]) :
                         k # l => /\ accepted'[v][k] # accepted'[v][l]
                                  /\ accepted'[v][k].terms # accepted'[v][l].terms
  BY DEF SpentSignatures, Exists
<1> DEFINE A == accepted[v]
<1>1. /\ A \in Seq(Messages) /\ Len(A) = nonces[v]
      /\ \A k \in 1..Len(A) : /\ A[k].nonce = k - 1 /\ A[k] \in signed
                              /\ A[k].terms.sender = v /\ A[k].terms \in DOMAIN swaps
      /\ \A k, l \in 1..Len(A) : k # l => A[k] # A[l] /\ A[k].terms # A[l].terms
  BY DEF SpentSignatures, Exists, Inv, TypeOK
<1>2. DOMAIN swaps \subseteq DOMAIN swaps'
  <2>1. CASE Next
    BY <2>1, OneEntryPerStep
  <2>2. CASE UNCHANGED vars
    BY <2>2 DEF vars
  <2> QED
    BY <2>1, <2>2
<1>3. signed \subseteq signed'
  BY DEF Next, vars, Lock, LockAuth, LockFor, Claim, Refund, Sign, Authorise, Tick
<1>4. CASE UNCHANGED <<accepted, nonces>>
  BY <1>1, <1>2, <1>3, <1>4
<1>5. ASSUME NEW m \in signed, LockFor(m)
      PROVE  /\ Len(accepted'[v]) = nonces'[v]
             /\ \A k \in 1..Len(accepted'[v]) :
                  /\ accepted'[v][k].nonce = k - 1 /\ accepted'[v][k] \in signed'
                  /\ accepted'[v][k].terms.sender = v /\ accepted'[v][k].terms \in DOMAIN swaps'
             /\ \A k, l \in 1..Len(accepted'[v]) :
                  k # l => /\ accepted'[v][k] # accepted'[v][l]
                           /\ accepted'[v][k].terms # accepted'[v][l].terms
  <2> DEFINE u == m.terms.sender
  <2>1. /\ m \in Messages /\ m.terms \in Terms /\ u \in Users /\ m.nonce = nonces[u] /\ Store(m.terms)
        /\ nonces' = [nonces EXCEPT ![u] = nonces[u] + 1]
        /\ accepted' = [accepted EXCEPT ![u] = Append(accepted[u], m)]
    BY <1>5 DEF LockFor, Accept, Inv, TypeOK, Messages, Terms
  <2>2. m.terms \in DOMAIN swaps' /\ m.terms \notin DOMAIN swaps
    BY <2>1, StoreFacts
  <2> HIDE DEF u
  <2>3. CASE u # v
    <3>1. accepted'[v] = A /\ nonces'[v] = nonces[v]
      BY <2>1, <2>3 DEF Inv, TypeOK
    <3> QED
      BY <1>1, <1>2, <1>3, <3>1
  <2>4. CASE u = v
    <3>1. accepted'[v] = Append(A, m) /\ nonces'[v] = nonces[v] + 1
      BY <2>1, <2>4 DEF Inv, TypeOK
    <3> HIDE DEF A
    <3>2. /\ Len(accepted'[v]) = Len(A) + 1 /\ Len(A) \in Nat
          /\ accepted'[v][Len(A) + 1] = m
          /\ \A k \in 1..Len(A) : accepted'[v][k] = A[k]
      BY <1>1, <2>1, <3>1
    <3>3. m.nonce = (Len(A) + 1) - 1 /\ m \in signed' /\ m.terms.sender = v
      BY <1>1, <1>3, <1>5, <2>1, <2>4, <3>2 DEF u
    <3>4. \A k \in 1..(Len(A) + 1) : k = Len(A) + 1 \/ k \in 1..Len(A)
      BY <3>2
    <3>5. \A k \in 1..Len(A) : A[k].terms # m.terms /\ A[k] # m
      BY <1>1, <2>2
    <3> QED
      BY <1>1, <1>2, <1>3, <2>2, <3>1, <3>2, <3>3, <3>4, <3>5
  <2> QED
    BY <2>3, <2>4
<1>6. \/ UNCHANGED <<accepted, nonces>>
      \/ \E m \in signed : LockFor(m)
  BY DEF Next, vars, Lock, LockAuth, Claim, Refund, Sign, Authorise, Tick
<1> QED
  BY <1>4, <1>5, <1>6

(* lockFor has accepted each user's messages in the order of their nonces, *)
(* each stored a swap of its own, and none was accepted twice (lockFor     *)
(* :87, whoever submits it and in whatever order, before and after the     *)
(* swap is settled): a signature is spent by its first use.                *)
THEOREM SignaturesAreSpent == Spec => []SpentSignatures
<1>1. Init => SpentSignatures
  BY DEF Init, SpentSignatures
<1> QED
  BY <1>1, AcceptedStep, Invariance, PTL DEF Spec

(* The contract implements the abstract escrow: each of the three lock     *)
(* paths is a Hold, claim and refund are the one Settle of the deal, and   *)
(* signatures, authorisations and time are stutters.                       *)
THEOREM Erc20ImplementsEscrow == Spec => ImplementsEscrow
<1> DEFINE d == [id \in Offers |-> DealOf(id)]
<1>1. Init => Abstract!Init
  BY DEF Init, Abstract!Init, DealOf, Exists
<1>2. Inv /\ [Next]_vars => [Abstract!Next]_d
  <2> SUFFICES ASSUME Inv, [Next]_vars PROVE [Abstract!Next]_d
    OBVIOUS
  <2>1. CASE UNCHANGED swaps
    BY <2>1 DEF DealOf, Exists
  <2>2. ASSUME NEW t \in Terms, ~Exists(t),
               swaps' = [id \in DOMAIN swaps \cup {t} |-> IF id = t THEN Empty ELSE swaps[id]]
        PROVE  [Abstract!Next]_d
    <3>1. /\ \A id \in Offers : id # t => d'[id] = d[id]
          /\ t \in Offers => d'[t] = [payer |-> t.sender, payee |-> t.receiver, state |-> "held"] /\ d[t] = NoDeal
      BY <2>2 DEF DealOf, Exists, Empty
    <3>2. t.sender \in Users /\ t.receiver \in Users
      BY DEF Terms
    <3>3. d = [id \in Offers |-> d[id]] /\ d' = [id \in Offers |-> d'[id]]
      OBVIOUS
    <3> HIDE DEF d
    <3>4. CASE t \in Offers
      <4>1. d[t] = NoDeal /\ d' = [d EXCEPT ![t] = [payer |-> t.sender, payee |-> t.receiver, state |-> "held"]]
        BY <3>1, <3>3, <3>4
      <4>2. Abstract!Hold(t)
        BY <3>2, <4>1 DEF Abstract!Hold, d
      <4> QED
        BY <3>4, <4>2 DEF Abstract!Next
    <3>5. CASE t \notin Offers
      BY <3>1, <3>3, <3>5
    <3> QED
      BY <3>4, <3>5
  <2>3. ASSUME NEW i \in DOMAIN swaps, ~Done(i), NEW s \in Flags, NEW outcome \in {"paid", "returned"},
               outcome = "paid" => s.claimed, outcome = "returned" => ~s.claimed /\ s.refunded,
               swaps' = [swaps EXCEPT ![i] = s]
        PROVE  [Abstract!Next]_d
    <3>1. ~swaps[i].claimed /\ ~swaps[i].refunded
      BY <2>3 DEF Done
    <3>2. /\ \A id \in Offers : id # i => d'[id] = d[id]
          /\ i \in Offers => /\ d[i] = [payer |-> i.sender, payee |-> i.receiver, state |-> "held"]
                             /\ d'[i] = [payer |-> i.sender, payee |-> i.receiver, state |-> outcome]
      BY <2>3, <3>1 DEF DealOf, Exists
    <3>3. i.sender \in Users /\ i.receiver \in Users
      BY DEF Inv, TypeOK, Terms
    <3>4. d = [id \in Offers |-> d[id]] /\ d' = [id \in Offers |-> d'[id]]
      OBVIOUS
    <3> HIDE DEF d
    <3>5. CASE i \in Offers
      <4>1. d[i] # NoDeal
        BY <3>2, <3>3, <3>5, OffersAssumption
      <4>2. d' = [d EXCEPT ![i] = [d[i] EXCEPT !.state = outcome]]
        BY <3>2, <3>4, <3>5
      <4>3. Abstract!Settle(i, outcome)
        BY <3>2, <3>5, <4>1, <4>2 DEF Abstract!Settle, d
      <4> QED
        BY <2>3, <3>5, <4>3 DEF Abstract!Next
    <3>6. CASE i \notin Offers
      BY <3>2, <3>4, <3>6
    <3> QED
      BY <3>5, <3>6
  <2>4. ASSUME NEW i \in DOMAIN swaps, ~Done(i),
               \/ swaps' = [swaps EXCEPT ![i] = [swaps[i] EXCEPT !.claimed = TRUE]]
               \/ swaps' = [swaps EXCEPT ![i] = [swaps[i] EXCEPT !.refunded = TRUE]]
        PROVE  [Abstract!Next]_d
    <3> DEFINE c == [swaps[i] EXCEPT !.claimed = TRUE]
               r == [swaps[i] EXCEPT !.refunded = TRUE]
    <3>1. c \in Flags /\ c.claimed /\ r \in Flags /\ ~r.claimed /\ r.refunded
      BY <2>4 DEF Inv, TypeOK, Flags, Done
    <3>2. swaps' = [swaps EXCEPT ![i] = c] \/ swaps' = [swaps EXCEPT ![i] = r]
      BY <2>4
    <3> HIDE DEF c, r
    <3>3. CASE swaps' = [swaps EXCEPT ![i] = c]
      BY <2>3, <2>4, <3>1, <3>3
    <3>4. CASE swaps' = [swaps EXCEPT ![i] = r]
      BY <2>3, <2>4, <3>1, <3>4
    <3> QED
      BY <3>2, <3>3, <3>4
  <2>5. CASE Next
    <3> HIDE DEF d
    <3> QED
      BY <2>1, <2>2, <2>4, <2>5, OneEntryPerStep
  <2>6. CASE UNCHANGED vars
    BY <2>1, <2>6 DEF vars
  <2> QED
    BY <2>5, <2>6
<1> QED
  BY <1>1, <1>2, Invariance, PTL DEF Spec, Abstract!Spec, ImplementsEscrow
-----------------------------------------------------------------------------
(* Solvency.                                                               *)
(* A swap more, or less, is its amount more or less.                       *)
LEMMA AmountAdded ==
  ASSUME NEW P, IsFiniteSet(P), P \subseteq Terms, NEW t \in Terms, t \notin P, NEW Q, Q = P \cup {t}
  PROVE  Amounts(Q) = t.amount + Amounts(P) /\ Amounts(P) \in Int /\ t.amount \in Int
<1>1. IsFiniteSet(Q) /\ P = Q \ {t} /\ t \in Q
  BY FS_AddElement
<1>2. \A id \in Q : id.amount \in Int
  BY ConstantsAssumption DEF Terms
<1> QED
  BY <1>1, <1>2, AmountTakeOut

Accounts == Users \cup {Self}
SolventIsTotal == bal[Self] = Amounts(Pending) /\ Total(bal, Accounts) = Supply * Cardinality(Users)

LEMMA SolventAsTotal == (Solvent <=> SolventIsTotal) /\ (Solvent' <=> SolventIsTotal')
BY DEF Solvent, SolventIsTotal, Amounts, Total, Accounts, MapThenSumSet, MapThenFoldSet

LEMMA AccountsFinite == IsFiniteSet(Accounts) /\ Cardinality(Users) \in Nat /\ Supply \in Int
BY ConstantsAssumption, FS_AddElement, FS_CardinalityType DEF Accounts

LEMMA SolventAtFirst == Init => Solvent
<1> SUFFICES ASSUME Init PROVE SolventIsTotal
  BY SolventAsTotal
<1>1. Pending = {}
  BY DEF Init, Pending
<1>2. bal[Self] = Amounts(Pending)
  <2>1. Amounts({}) = Total([id \in {} |-> id.amount], {})
    BY AmountsTotal, FS_EmptySet
  <2>2. Total([id \in {} |-> id.amount], {}) = 0
    BY TotalNothing
  <2> QED
    BY <1>1, <2>1, <2>2 DEF Init
<1>3. (\A a \in Users : bal[a] = Supply) /\ bal[Self] = 0 /\ Self \in Accounts /\ Users = Accounts \ {Self}
  BY ConstantsAssumption DEF Init, Accounts
<1>4. \A a \in Accounts : bal[a] \in Int
  BY <1>3, AccountsFinite DEF Accounts
<1>5. Total(bal, Users) = Supply * Cardinality(Users)
  BY <1>3, AccountsFinite, ConstantsAssumption, TotalSame
<1>6. Total(bal, Accounts) = bal[Self] + Total(bal, Users) /\ Total(bal, Users) \in Int
  BY <1>3, <1>4, AccountsFinite, TotalTake
<1> QED
  BY <1>2, <1>3, <1>5, <1>6 DEF SolventIsTotal

(* The token creates and loses nothing.                                    *)
LEMMA NothingCreated ==
  ASSUME TypeOK, NEW f \in Accounts, NEW g \in Accounts, f # g, NEW n \in Int, Transfer(f, g, n)
  PROVE  /\ Total(bal', Accounts) = Total(bal, Accounts)
         /\ bal'[f] = bal[f] - n /\ bal'[g] = bal[g] + n /\ bal[f] \in Int /\ bal[g] \in Int
<1>1. bal \in [Accounts -> Nat] /\ bal' = [bal EXCEPT ![f] = @ - n, ![g] = @ + n]
  BY DEF TypeOK, Accounts, Transfer
<1>2. bal'[f] = bal[f] - n /\ bal'[g] = bal[g] + n /\ \A a \in Accounts : a # f /\ a # g => bal'[a] = bal[a]
  BY <1>1
<1>3. \A a \in Accounts : bal[a] \in Int
  BY <1>1
<1>4. \A a \in Accounts : bal'[a] \in Int
  <2> SUFFICES ASSUME NEW a \in Accounts PROVE bal'[a] \in Int
    OBVIOUS
  <2>1. bal[a] \in Int /\ bal[f] \in Int /\ bal[g] \in Int
    BY <1>3
  <2> QED
    BY <1>2, <2>1
<1>5. PICK b : b = bal
  OBVIOUS
<1>6. PICK c : c = bal'
  OBVIOUS
<1>7. Total(c, Accounts) = Total(b, Accounts)
  BY <1>2, <1>3, <1>4, <1>5, <1>6, AccountsFinite, TotalMoved
<1> QED
  BY <1>2, <1>3, <1>5, <1>6, <1>7

LEMMA PendingFinite == Inv => IsFiniteSet(Pending) /\ Pending \subseteq Terms
<1>1. Pending \subseteq DOMAIN swaps
  BY DEF Pending
<1> QED
  BY <1>1, FS_Subset DEF Inv, Counted, TypeOK

(* The three lock paths bring in what they make pending.                   *)
LEMMA LockSolvent ==
  ASSUME Inv, Solvent, NEW t \in Terms, Store(t), Transfer(t.sender, Self, t.amount)
  PROVE  Solvent'
<1>1. t.sender \in Accounts /\ Self \in Accounts /\ t.sender # Self /\ t.amount \in Int
  BY ConstantsAssumption DEF Terms, Accounts
<1>2. /\ DOMAIN swaps' = DOMAIN swaps \cup {t} /\ t \notin DOMAIN swaps
      /\ (\A id \in DOMAIN swaps : swaps'[id] = swaps[id]) /\ swaps'[t] = Empty
  BY StoreFacts
<1>3. Pending' = Pending \cup {t} /\ t \notin Pending
  BY <1>2 DEF Pending, Done, Empty
<1>4. Amounts(Pending') = t.amount + Amounts(Pending) /\ Amounts(Pending) \in Int
  BY <1>3, PendingFinite, AmountAdded
<1>5. Total(bal', Accounts) = Total(bal, Accounts) /\ bal'[Self] = bal[Self] + t.amount
  BY <1>1, NothingCreated DEF Inv
<1>6. SolventIsTotal
  BY SolventAsTotal
<1>7. bal'[Self] = Amounts(Pending')
  BY <1>1, <1>4, <1>5, <1>6 DEF SolventIsTotal
<1>8. SolventIsTotal'
  BY <1>5, <1>6, <1>7 DEF SolventIsTotal
<1> QED
  BY <1>8, SolventAsTotal

(* Claim and refund pay out what they settle.                              *)
LEMMA SettleSolvent ==
  ASSUME Inv, Solvent, NEW id \in DOMAIN swaps, ~Done(id), NEW s, s.claimed \/ s.refunded,
         NEW to \in Users, swaps' = [swaps EXCEPT ![id] = s], Transfer(Self, to, id.amount)
  PROVE  Solvent'
<1>1. to \in Accounts /\ Self \in Accounts /\ to # Self /\ id \in Terms
  BY ConstantsAssumption DEF Accounts, Inv, TypeOK
<1>2. DOMAIN swaps' = DOMAIN swaps /\ swaps'[id] = s /\ \A i \in DOMAIN swaps : i # id => swaps'[i] = swaps[i]
  OBVIOUS
<1>3. Pending = Pending' \cup {id} /\ id \notin Pending'
  BY <1>2 DEF Pending, Done
<1>4. IsFiniteSet(Pending') /\ Pending' \subseteq Terms
  BY <1>3, PendingFinite, FS_Subset
<1>5. Amounts(Pending) = id.amount + Amounts(Pending') /\ Amounts(Pending') \in Int /\ id.amount \in Int
  BY <1>1, <1>3, <1>4, AmountAdded
<1>6. Total(bal', Accounts) = Total(bal, Accounts) /\ bal'[Self] = bal[Self] - id.amount
  BY <1>1, <1>5, NothingCreated DEF Inv
<1>7. SolventIsTotal
  BY SolventAsTotal
<1>8. bal'[Self] = Amounts(Pending')
  BY <1>5, <1>6, <1>7 DEF SolventIsTotal
<1>9. SolventIsTotal'
  BY <1>6, <1>7, <1>8 DEF SolventIsTotal
<1> QED
  BY <1>9, SolventAsTotal

LEMMA SolventStep == Inv /\ Solvent /\ [Next]_vars => Solvent'
<1> SUFFICES ASSUME Inv, Solvent, [Next]_vars PROVE Solvent'
  OBVIOUS
<1>1. ASSUME NEW t \in Offers, Lock(t) \/ \E a \in auths : LockAuth(t, a) PROVE Solvent'
  <2>1. t \in Terms /\ Store(t) /\ Transfer(t.sender, Self, t.amount)
    BY <1>1, OffersAssumption DEF Lock, LockAuth
  <2> QED
    BY <2>1, LockSolvent
<1>2. ASSUME NEW m \in signed, LockFor(m) PROVE Solvent'
  <2>1. m.terms \in Terms /\ Store(m.terms) /\ Transfer(m.terms.sender, Self, m.terms.amount)
    BY <1>2 DEF LockFor, Inv, TypeOK, Messages
  <2> QED
    BY <2>1, LockSolvent
<1>3. ASSUME NEW id \in DOMAIN swaps, NEW p \in Preimages, Claim(id, p) PROVE Solvent'
  <2>1. id.receiver \in Users /\ ~Done(id)
    BY <1>3 DEF Claim, Done, Inv, TypeOK, Terms
  <2>2. PICK s : s = [swaps[id] EXCEPT !.claimed = TRUE]
    OBVIOUS
  <2>3. s.claimed
    BY <2>2 DEF Inv, TypeOK, Flags
  <2>4. swaps' = [swaps EXCEPT ![id] = s] /\ Transfer(Self, id.receiver, id.amount)
    BY <1>3, <2>2 DEF Claim
  <2> QED
    BY <2>1, <2>3, <2>4, SettleSolvent
<1>4. ASSUME NEW id \in DOMAIN swaps, Refund(id) PROVE Solvent'
  <2>1. id.sender \in Users /\ ~Done(id)
    BY <1>4 DEF Refund, Done, Inv, TypeOK, Terms
  <2>2. PICK s : s = [swaps[id] EXCEPT !.refunded = TRUE]
    OBVIOUS
  <2>3. s.refunded
    BY <2>2 DEF Inv, TypeOK, Flags
  <2>4. swaps' = [swaps EXCEPT ![id] = s] /\ Transfer(Self, id.sender, id.amount)
    BY <1>4, <2>2 DEF Refund
  <2> QED
    BY <2>1, <2>3, <2>4, SettleSolvent
<1>5. UNCHANGED <<swaps, bal>> => Solvent'
  <2> SUFFICES ASSUME UNCHANGED <<swaps, bal>> PROVE Solvent'
    OBVIOUS
  <2>1. SolventIsTotal
    BY SolventAsTotal
  <2>2. Pending' = Pending /\ bal' = bal
    BY DEF Pending, Done
  <2>3. SolventIsTotal'
    BY <2>1, <2>2 DEF SolventIsTotal
  <2> QED
    BY <2>3, SolventAsTotal
<1>6. ASSUME NEW t \in Offers,
             \/ Authorise([from |-> t.sender, value |-> t.amount])
             \/ \E d \in Deadlines : Sign([terms |-> t, nonce |-> nonces[t.sender], deadline |-> d])
      PROVE  UNCHANGED <<swaps, bal>>
  BY <1>6 DEF Authorise, Sign
<1>7. Tick \/ UNCHANGED vars => UNCHANGED <<swaps, bal>>
  BY DEF Tick, vars
<1> QED
  BY <1>1, <1>2, <1>3, <1>4, <1>5, <1>6, <1>7 DEF Next

(* The contract is solvent: what it holds is the sum of its pending swaps, *)
(* no more and no less, and the token moves amounts without making any     *)
(* (_store :72, claim :111, refund :121), for any number of users and      *)
(* swaps.                                                                  *)
THEOREM ContractIsSolvent == Spec => []Sound
<1>1. Spec => []Solvent
  BY SolventAtFirst, SolventStep, Invariance, PTL DEF Spec
<1> QED
  BY <1>1, Invariance, PTL DEF Inv, Sound
=============================================================================
