------------------------------- MODULE Escrow -------------------------------
(***************************************************************************)
(* What a hash time-locked contract promises, with its time, its hashes,   *)
(* its signatures and its token transfers taken away: a deal is held for a *)
(* payer and a payee fixed when it is made, and it ends at most once, paid *)
(* to the one or returned to the other.  Both contracts of the repository, *)
(* the Solidity one (HtlcErc20) and the Solana program (HtlcSolana), are   *)
(* shown to implement this specification.                                  *)
(***************************************************************************)
CONSTANTS Ids,      \* names of deals
          Parties,  \* who can be a payer or a payee
          NoDeal    \* what an unused name stands for, none of Deals

VARIABLE deal

Deals == [payer : Parties, payee : Parties, state : {"held", "paid", "returned"}]

TypeOK == deal \in [Ids -> Deals \cup {NoDeal}]

Init == deal = [i \in Ids |-> NoDeal]

Hold(i) ==
  /\ deal[i] = NoDeal
  /\ \E p, q \in Parties :
       deal' = [deal EXCEPT ![i] = [payer |-> p, payee |-> q, state |-> "held"]]

Settle(i, outcome) ==
  /\ deal[i] # NoDeal
  /\ deal[i].state = "held"
  /\ deal' = [deal EXCEPT ![i] = [deal[i] EXCEPT !.state = outcome]]

Next == \E i \in Ids : Hold(i) \/ Settle(i, "paid") \/ Settle(i, "returned")

Spec == Init /\ [][Next]_deal
=============================================================================
