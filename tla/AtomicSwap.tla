----------------------------- MODULE AtomicSwap -----------------------------
(***************************************************************************)
(* What a swap between a user and a liquidity provider promises both: two  *)
(* legs under one hashlock.  The user funds the first leg and knows the    *)
(* preimage; the provider funds the second.  The user takes the second     *)
(* leg, which reveals the preimage; only then can the provider take the    *)
(* first; and the first leg goes back to the user only when the second did *)
(* not go to the user.  docs/LP-FEDERATION.md: "Every swap is an HTLC      *)
(* atomic swap".                                                           *)
(*                                                                         *)
(* The promise holds of a swap until the implementation excuses it: what   *)
(* becomes of an excused swap is not said.  Which swaps may be excused,    *)
(* and when, the implementation says with the variable it puts there.      *)
(***************************************************************************)
CONSTANT Swaps

VARIABLES first,   \* the user's leg of every swap
          second,  \* the provider's leg of every swap
          excused  \* the swaps no promise is made for any more

LegStates == {"none", "locked", "claimed", "refunded"}

Init ==
  /\ first = [s \in Swaps |-> "none"]
  /\ second = [s \in Swaps |-> "none"]
  /\ excused = {}

FundFirst(s) ==
  /\ first[s] = "none"
  /\ first' = [first EXCEPT ![s] = "locked"]
  /\ UNCHANGED second

FundSecond(s) ==
  /\ first[s] = "locked" /\ second[s] = "none"
  /\ second' = [second EXCEPT ![s] = "locked"]
  /\ UNCHANGED first

TakeSecond(s) ==
  /\ second[s] = "locked" /\ first[s] # "refunded"
  /\ second' = [second EXCEPT ![s] = "claimed"]
  /\ UNCHANGED first

TakeFirst(s) ==
  /\ first[s] = "locked" /\ second[s] = "claimed"
  /\ first' = [first EXCEPT ![s] = "claimed"]
  /\ UNCHANGED second

RefundSecond(s) ==
  /\ second[s] = "locked"
  /\ second' = [second EXCEPT ![s] = "refunded"]
  /\ UNCHANGED first

RefundFirst(s) ==
  /\ first[s] = "locked" /\ second[s] # "claimed"
  /\ first' = [first EXCEPT ![s] = "refunded"]
  /\ UNCHANGED second

(* An excused swap goes as it goes.                                        *)
Stray(s) ==
  /\ s \in excused'
  /\ \E f, g \in LegStates : /\ first' = [first EXCEPT ![s] = f]
                             /\ second' = [second EXCEPT ![s] = g]

(* One swap moves, or none; an excuse is never taken back.                 *)
Next ==
  /\ excused \subseteq excused' /\ excused' \subseteq Swaps
  /\ \/ UNCHANGED <<first, second>>
     \/ \E s \in Swaps : \/ FundFirst(s) \/ FundSecond(s) \/ TakeSecond(s) \/ TakeFirst(s)
                          \/ RefundSecond(s) \/ RefundFirst(s) \/ Stray(s)

Spec == Init /\ [][Next]_<<first, second, excused>>
-----------------------------------------------------------------------------
(* Nobody ends with both legs: the user's leg comes back only if the       *)
(* provider's did not go to the user, and the provider takes the user's    *)
(* leg only if the user took the provider's.                               *)
Atomic == \A s \in Swaps \ excused :
  /\ ~(first[s] = "refunded" /\ second[s] = "claimed")
  /\ first[s] = "claimed" => second[s] = "claimed"
=============================================================================
