---------------------------- MODULE MCClientSwap ----------------------------
(* One swap of each kind, and two sells on Solana with none left.    *)
EXTENDS ClientSwap

CONSTANTS s1, s2

ASSUME Two == Swaps = {s1, s2}
Single == told[s1] = "none" /\ told[s2] = "cut" /\ kind[s2] = kind[s1] /\ mishaps = 0
Double == told[s1] = "none" /\ told[s2] = "none" /\ kind[s1] = "sellSol" /\ kind[s2] = "sellSol" /\ mishaps = MaxMishaps
MCInit == Init /\ (Single \/ Double)
MCSpec == MCInit /\ [][Next]_vars /\ Fairness
=============================================================================
