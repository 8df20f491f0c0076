------------------------------- MODULE Curve --------------------------------
(***************************************************************************)
(* The arithmetic of a coin's market, client/gbx-curve.mjs: the bonding    *)
(* curve x * y = k it is sold on, the pool it trades in after graduation,  *)
(* and the curve's memory (M, h_M) of its largest recent trade.  The node  *)
(* computes the same ("must be bit-identical", gbx-curve.mjs:3), so a      *)
(* client's transaction carries these very numbers.                        *)
(* All amounts are natural numbers and every division is a floor.  A       *)
(* function that may answer null is the set of its answers.                *)
(***************************************************************************)
EXTENDS Integers

CONSTANTS
  VGbx, VTokens,           \* V_GBX_SAT, V_TOKENS: the virtual reserves
  CurveTokens, LpTokens,   \* tokens sold on the curve, tokens kept for the pool
  CurveFeeBps, PoolFeeBps,
  GradDepth, GradMin,      \* GRAD_DEPTH_N, GRAD_MIN_SAT
  GradWindow,              \* GRAD_WINDOW_MAIN: blocks a largest trade is remembered
  MaxAge,                  \* HM_MAX_AGE: how old a declared stamp may be
  Dust                     \* DUST_SAT

ASSUME CurveAssumption ==
  /\ VTokens \in Nat \ {0} /\ VGbx \in Nat /\ VTokens <= VGbx
  /\ {CurveTokens, LpTokens, CurveFeeBps, PoolFeeBps, GradDepth, GradMin, GradWindow, MaxAge, Dust} \subseteq Nat
  /\ CurveTokens < VTokens

K == VGbx * VTokens

Fee(gross, bps) == IF gross <= 0 THEN 0 ELSE (gross * bps) \div 10000
CurveFee(gross) == Fee(gross, CurveFeeBps)
PoolFee(gross) == Fee(gross, PoolFeeBps)

CurveTokensSold(reserve) == VTokens - K \div (VGbx + reserve)

(* Mutant: a buyer is given one token more. *)
BuyRoundsUp(reserve, gbxIn) ==
  {[tokens |-> K \div (VGbx + reserve) - K \div (VGbx + reserve + gbxIn) + 1, reserve |-> reserve + gbxIn]}

CurveBuy(reserve, gbxIn) ==
  LET tokens == K \div (VGbx + reserve) - K \div (VGbx + reserve + gbxIn) IN
  {o \in {[tokens |-> tokens, reserve |-> reserve + gbxIn]} :
     gbxIn > 0 /\ tokens > 0 /\ CurveTokensSold(reserve) + tokens <= CurveTokens}

(* Mutant: the reserve is left one short. *)
SellRoundsUp(reserve, tokensIn) ==
  LET gbx == VGbx + reserve - K \div (K \div (VGbx + reserve) + tokensIn) + 1 IN
  {[gbx |-> gbx, reserve |-> reserve - gbx]}

CurveSell(reserve, tokensIn) ==
  LET cur == VGbx + reserve
      release == cur - K \div (K \div cur + tokensIn)
      gbx == IF release > reserve THEN reserve ELSE release IN
  {o \in {[gbx |-> gbx, reserve |-> reserve - gbx]} :
     tokensIn > 0 /\ reserve > 0 /\ tokensIn <= CurveTokensSold(reserve)}

(* The fee of a buy is taken off what is committed, before the curve sees  *)
(* it; the fee of a sell off what the curve releases.                      *)
QuoteBuy(reserve, gross) ==
  {[tokens |-> o.tokens, reserve |-> o.reserve, fee |-> CurveFee(gross), net |-> gross - CurveFee(gross)] :
     o \in CurveBuy(reserve, gross - CurveFee(gross))}
QuoteSell(reserve, tokensIn) ==
  {[gross |-> o.gbx, net |-> o.gbx - CurveFee(o.gbx), fee |-> CurveFee(o.gbx), reserve |-> o.reserve] :
     o \in CurveSell(reserve, tokensIn)}

(* What a holding gets back under REFUND: its share of the reserve.        *)
RefundShare(reserve, amount) == (reserve * amount) \div CurveTokensSold(reserve)
-----------------------------------------------------------------------------
CeilDiv(a, b) == (a + b - 1) \div b

PoolBuy(gbx, tokens, gbxIn) ==
  LET left == CeilDiv(gbx * tokens, gbx + gbxIn) IN
  {o \in {[tokensOut |-> tokens - left, gbx |-> gbx + gbxIn, tokens |-> left]} :
     gbx > 0 /\ tokens > 0 /\ gbxIn > 0 /\ left < tokens}
PoolSell(gbx, tokens, tokIn) ==
  LET left == CeilDiv(gbx * tokens, tokens + tokIn) IN
  {o \in {[out |-> gbx - left, gbx |-> left, tokens |-> tokens + tokIn]} :
     gbx > 0 /\ tokens > 0 /\ tokIn > 0 /\ left < gbx}

QuotePoolBuy(gbx, tokens, gross) ==
  {[tokensOut |-> o.tokensOut, gbx |-> o.gbx, tokens |-> o.tokens, fee |-> PoolFee(gross)] :
     o \in PoolBuy(gbx, tokens, gross - PoolFee(gross))}
QuotePoolSell(gbx, tokens, tokensIn) ==
  {[net |-> o.out - PoolFee(o.out), gbx |-> o.gbx, tokens |-> o.tokens, fee |-> PoolFee(o.out)] :
     o \in PoolSell(gbx, tokens, tokensIn)}
-----------------------------------------------------------------------------
(* Is a stamp outside the window at a height?  0 is no stamp.              *)
Expired(hM, height) == hM # 0 /\ height - hM > GradWindow

(* nextMarketMemory: a trade is remembered if it is larger than M or M is  *)
(* out of date; its stamp is the height the client declares.               *)
NextMarketMemory(m, hM, trade, height, declared) ==
  IF trade > 0 /\ (Expired(hM, height) \/ trade > m)
  THEN [m |-> trade, hM |-> declared, updated |-> TRUE]
  ELSE [m |-> m, hM |-> hM, updated |-> FALSE]

(* canGraduate: the curve is sold out, or its reserve is GradDepth times   *)
(* the largest trade it remembers.                                         *)
CanGraduate(reserve, m, hM, height) ==
  \/ CurveTokensSold(reserve) >= CurveTokens
  \/ /\ reserve >= GradMin
     /\ hM # 0 /\ height - hM <= GradWindow => reserve >= m * GradDepth

(* Mutant: the pool is given what the curve sold as well. *)
PoolTokensAll(reserve) == LpTokens + CurveTokens
PoolTokens(reserve) == LpTokens + (CurveTokens - CurveTokensSold(reserve))
=============================================================================
