------------------------------ MODULE MCPages -------------------------------
(* Three parts, one of which happens: a coin of three forms is launched    *)
(* over two nodes; every payload that can be written, and any cells after  *)
(* a tag; two offers with a buyer, or two buyers of an offer.              *)
EXTENDS CoinLaunch, OfferMarket, PayloadReading
CONSTANTS n1, n2, o1, o2, b1, b2
VARIABLE part

Plain == [chars |-> 1, bytes |-> 1, about |-> FALSE, pieces |-> 0]
TwoForms == {[Plain EXCEPT !.pieces = 2], [Plain EXCEPT !.about = TRUE, !.pieces = 1], [Plain EXCEPT !.about = TRUE]}
LongName == {[Plain EXCEPT !.chars = 2, !.bytes = 3]}
FourPurses == {<<12, 9>>, <<20>>, <<14, 14>>, <<5, 4, 4>>, <<4, 4, 4>>}

SmallTexts == UNION {[1 .. k -> {0, 1}] : k \in 0 .. 3}

Nothing == [push |-> 0, body |-> <<>>]
PartInit ==
  \/ part = "payload" /\ PayloadInit
  \/ part \in {"launch", "market"} /\ script = Nothing /\ meant = <<>>
Busy == now = 0 /\ offers[o1] = "none" /\ buying[b1] = "idle" /\ (offers[o2] = "none" <=> buying[b2] = "away")
Quiet == chain = "evm" /\ now = MaxTime /\ (\A o \in Offers : offers[o] = "cancelled") /\ (\A b \in Buyers : buying[b] = "away")
PartNext ==
  \/ part = "payload" /\ Grow /\ UNCHANGED <<part, launchVars, marketVars>>
  \/ part = "launch" /\ LaunchNext /\ UNCHANGED <<part, script, meant, marketVars>>
  \/ part = "market" /\ MarketNext /\ UNCHANGED <<part, script, meant, launchVars>>
MCInit == PartInit /\ LaunchInit /\ MarketInit /\ (IF part = "market" THEN Busy ELSE Quiet)
MCSpec ==
  /\ MCInit
  /\ [][PartNext]_<<launchVars, marketVars, part, script, meant>>
  /\ LaunchFairness /\ MarketFairness

(* A launch ends and the USDC of an offer ends with one of the two         *)
(* (launch-x.html, offers.html).                                           *)
FlowsEnd == ForgeEnds /\ UsdcEnds
=============================================================================
