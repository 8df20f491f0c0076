---------------------------- MODULE MCLaunchpad ----------------------------
(* Either a page with two presses under way while another trader buys, or  *)
(* a longer life of the coin without the page.                             *)
EXTENDS MarketViews

VARIABLE part
mcVars == <<vars, part>>

Foreign == Cardinality({t \in wait : t.by # Me}) + Cardinality({i \in DOMAIN log : log[i].by # Me})
Page ==
  /\ presses' <= 2 /\ Foreign' <= 1 /\ tip' <= 3
  /\ \A f \in Flights : flight'[f].op = "buy" => flight'[f].n = 4
  /\ \A t \in wait' : t.op # "T" /\ (t.by # Me => t.op = "B" /\ t.amount = 4)
Market == presses' = 0 /\ lost' = 0 /\ Cardinality(wait') <= 1 /\ (wait' # wait /\ sends' # sends => ix = Chain)

MCInit == Init /\ part \in {"page", "market"}
MCNext == Next /\ UNCHANGED part /\ IF part = "page" THEN Page ELSE Market
MCSpec == MCInit /\ [][MCNext]_mcVars /\ Fairness

(* Charts, volumes and leaderboards of gbx-token-read.js are about the     *)
(* trades that happened, and about all of them.                            *)
ViewsTellTheTrades == CandlesTellTheTrades /\ ViewsAgree /\ DayVolumeFallsShort /\ BurnsAddUp
=============================================================================
