------------------------------ MODULE CoinProofs ------------------------------
(***************************************************************************)
(* Theorems about a coin's market, for any reserves, fees and amounts: who *)
(* trades forth and back never gains, on the curve or in the pool; in      *)
(* Launchpad.tla no token is ever without its market, and the page, the    *)
(* index and the node apply one rule; in CoinLaunch.tla what keeps the     *)
(* records of a launch from the chain has one of the causes the page       *)
(* names; in PayloadReading.tla whoever writes a payload and whoever reads *)
(* it agree on it.                                                         *)
(***************************************************************************)
EXTENDS Launchpad, CoinLaunch, PayloadReading, SumLemmas, SequenceTheorems, TLAPS

(* What the two divisions are known to do.                                 *)
LEMMA FloorBounds ==
  ASSUME NEW a \in Nat, NEW b \in Nat \ {0}
  PROVE  a \div b \in Nat /\ b * (a \div b) <= a /\ a < b * (a \div b) + b
<1>1. a \div b \in Int /\ 0 <= a \div b
  OBVIOUS
<1>2. b * (a \div b) <= a
  OBVIOUS
<1>3. a < b * (a \div b) + b
  OBVIOUS
<1> QED
  BY <1>1, <1>2, <1>3

LEMMA CeilBounds ==
  ASSUME NEW a \in Nat, NEW b \in Nat \ {0}
  PROVE  CeilDiv(a, b) \in Nat /\ b * CeilDiv(a, b) >= a
<1>1. a + b - 1 \in Nat
  OBVIOUS
<1> DEFINE n == a + b - 1
           q == n \div b
<1>2. q \in Nat /\ n < b * q + b /\ b * q \in Int
  BY <1>1, FloorBounds
<1>3. CeilDiv(a, b) = q
  BY DEF CeilDiv
<1> QED
  BY <1>2, <1>3

(* A quotient that fits is not above the floor.                            *)
LEMMA FloorIsLargest ==
  ASSUME NEW a \in Nat, NEW b \in Nat \ {0}, NEW q \in Nat, b * q <= a
  PROVE  q <= a \div b
<1> DEFINE f == a \div b
<1>1. f \in Nat /\ a < b * f + b
  BY FloorBounds
<1> HIDE DEF f
<1>2. SUFFICES ASSUME f + 1 <= q PROVE FALSE
  BY <1>1 DEF f
<1>3. b * (f + 1) <= b * q
  BY <1>1, <1>2
<1>4. b * (f + 1) = b * f + b
  BY <1>1
<1> QED
  BY <1>1, <1>3, <1>4
-----------------------------------------------------------------------------
(* poolBuy and poolSell, "it must always favour the pool"                  *)
(* (gbx-curve.mjs:84-85): no trade lowers the product of the reserves, so  *)
(* trades forth and back cannot bleed the pool.                            *)
THEOREM PoolKeepsProduct ==
  ASSUME NEW gbx \in Nat, NEW tokens \in Nat, NEW amount \in Nat,
         NEW o \in PoolBuy(gbx, tokens, amount) \cup PoolSell(gbx, tokens, amount)
  PROVE  o.gbx * o.tokens >= gbx * tokens
<1>1. gbx * tokens \in Nat
  OBVIOUS
<1>2. CASE o \in PoolBuy(gbx, tokens, amount)
  <2>1. gbx + amount \in Nat \ {0} /\ o.gbx = gbx + amount /\ o.tokens = CeilDiv(gbx * tokens, gbx + amount)
    BY <1>2 DEF PoolBuy
  <2> QED
    BY <1>1, <2>1, CeilBounds
<1>3. CASE o \in PoolSell(gbx, tokens, amount)
  <2>1. tokens + amount \in Nat \ {0} /\ o.tokens = tokens + amount /\ o.gbx = CeilDiv(gbx * tokens, tokens + amount)
    BY <1>3 DEF PoolSell
  <2>2. CeilDiv(gbx * tokens, tokens + amount) \in Nat /\ (tokens + amount) * CeilDiv(gbx * tokens, tokens + amount) >= gbx * tokens
    BY <1>1, <2>1, CeilBounds
  <2> QED
    BY <2>1, <2>2
<1> QED
  BY <1>2, <1>3

(* curveBuy and curveSell (gbx-curve.mjs:28-45): the tokens of a buy, sold *)
(* back at once, bring no more than they cost, whatever the reserve.       *)
THEOREM NothingGainedOnTheCurve ==
  ASSUME NEW reserve \in Nat, NEW gbxIn \in Nat,
         NEW o \in CurveBuy(reserve, gbxIn), NEW s \in CurveSell(o.reserve, o.tokens)
  PROVE  s.gbx <= gbxIn
<1> DEFINE cur == VGbx + reserve
           left == K \div cur
<1>1. K \in Nat /\ cur \in Nat \ {0}
  BY CurveAssumption DEF K
<1>2. left \in Nat /\ cur * left <= K
  BY <1>1, FloorBounds
<1>3. /\ gbxIn > 0 /\ o.reserve = reserve + gbxIn
      /\ o.tokens = left - K \div (cur + gbxIn) /\ o.tokens > 0
  BY DEF CurveBuy
<1>4. K \div (cur + gbxIn) \in Nat
  BY <1>1, FloorBounds
<1>5. VGbx + o.reserve = cur + gbxIn /\ K \div (cur + gbxIn) + o.tokens = left
  BY <1>1, <1>2, <1>3, <1>4, CurveAssumption
<1>6. left \in Nat \ {0}
  BY <1>2, <1>3, <1>4
<1>7. cur <= K \div left /\ K \div left \in Nat
  BY <1>1, <1>2, <1>6, FloorIsLargest, FloorBounds
<1> DEFINE release == (cur + gbxIn) - K \div left
<1>8. s.gbx = IF release > o.reserve THEN o.reserve ELSE release
  <2> DEFINE now == VGbx + o.reserve
             given == now - K \div (K \div now + o.tokens)
  <2>1. s.gbx = IF given > o.reserve THEN o.reserve ELSE given
    BY DEF CurveSell
  <2>2. now = cur + gbxIn /\ K \div now + o.tokens = left
    BY <1>5
  <2>3. given = now - K \div left
    BY <2>2, Zenon
  <2> HIDE DEF now, given, left, cur
  <2>4. given = release
    BY <2>2, <2>3, Zenon
  <2> HIDE DEF release
  <2> QED
    BY <2>1, <2>4
<1>9. release \in Int /\ release <= gbxIn /\ o.reserve \in Int
  BY <1>1, <1>3, <1>7
<1> HIDE DEF release
<1> QED
  BY <1>8, <1>9
-----------------------------------------------------------------------------
(* Rounding and the tokens in circulation.                                 *)
LEMMA FloorLess ==
  ASSUME NEW a \in Nat, NEW b \in Nat \ {0}, NEW q \in Nat, a < b * q + b
  PROVE  a \div b <= q
<1>1. PICK f : f = a \div b
  OBVIOUS
<1>2. f \in Nat /\ b * f <= a
  BY <1>1, FloorBounds
<1>3. SUFFICES ASSUME q + 1 <= f PROVE FALSE
  BY <1>1, <1>2
<1>4. b * (q + 1) <= b * f
  BY <1>2, <1>3
<1>5. b * (q + 1) = b * q + b
  OBVIOUS
<1> QED
  BY <1>2, <1>4, <1>5

(* A larger divisor, a smaller quotient.                                   *)
LEMMA FloorFalls ==
  ASSUME NEW k \in Nat, NEW a \in Nat \ {0}, NEW b \in Nat, a <= b
  PROVE  k \div b <= k \div a /\ b \in Nat \ {0}
<1>1. PICK f : f = k \div b
  OBVIOUS
<1>2. b \in Nat \ {0}
  OBVIOUS
<1>3. f \in Nat /\ b * f <= k
  BY <1>1, <1>2, FloorBounds
<1>4. a * f <= b * f
  BY <1>3
<1>5. a * f <= k
  BY <1>2, <1>3, <1>4
<1>6. f <= k \div a
  BY <1>3, <1>5, FloorIsLargest
<1> QED
  BY <1>1, <1>2, <1>6

(* Dividing twice comes back to a number that is small enough.             *)
LEMMA FloorOfFloor ==
  ASSUME NEW k \in Nat, NEW m \in Nat \ {0}, m * m <= k
  PROVE  k \div m \in Nat \ {0} /\ k \div (k \div m) <= m
<1>1. PICK q : q = k \div m
  OBVIOUS
<1>2. q \in Nat /\ k < m * q + m /\ m <= q
  BY <1>1, FloorBounds, FloorIsLargest
<1>3. q \in Nat \ {0} /\ m * q = q * m
  BY <1>2
<1>4. q * m \in Nat
  BY <1>3
<1>5. k < q * m + q
  BY <1>2, <1>3, <1>4
<1>6. k \div q <= m
  BY <1>3, <1>5, FloorLess
<1> QED
  BY <1>1, <1>3, <1>6

(* What the curve has sold is a number, and grows with its reserve.        *)
LEMMA SoldIsInt ==
  ASSUME NEW r \in Nat
  PROVE  /\ VGbx + r \in Nat \ {0} /\ K \in Nat /\ K \div (VGbx + r) \in Nat
         /\ CurveTokensSold(r) = VTokens - K \div (VGbx + r) /\ CurveTokensSold(r) \in Int
<1>1. VGbx + r \in Nat \ {0} /\ K \in Nat /\ VTokens \in Nat
  BY CurveAssumption DEF K
<1>2. K \div (VGbx + r) \in Nat
  BY <1>1, FloorBounds
<1> QED
  BY <1>1, <1>2 DEF CurveTokensSold

LEMMA SoldGrows ==
  ASSUME NEW r \in Nat, NEW s \in Nat, r <= s
  PROVE  CurveTokensSold(r) <= CurveTokensSold(s)
<1>1. VGbx + r \in Nat \ {0} /\ VGbx + s \in Nat /\ VGbx + r <= VGbx + s /\ K \in Nat
  BY SoldIsInt, CurveAssumption
<1>2. K \div (VGbx + s) <= K \div (VGbx + r)
  BY <1>1, FloorFalls
<1>3. VTokens \in Nat
  BY CurveAssumption
<1> QED
  BY <1>2, <1>3, SoldIsInt

(* A buy sells what it gives.                                              *)
LEMMA BuyCovers ==
  ASSUME NEW r \in Nat, NEW n \in Int, NEW o \in CurveBuy(r, n)
  PROVE  /\ o.reserve \in Nat /\ o.tokens \in Nat \ {0}
         /\ CurveTokensSold(o.reserve) = CurveTokensSold(r) + o.tokens
         /\ CurveTokensSold(o.reserve) <= CurveTokens
<1>1. /\ n > 0 /\ o.reserve = r + n /\ o.tokens > 0 /\ CurveTokensSold(r) + o.tokens <= CurveTokens
      /\ o.tokens = K \div (VGbx + r) - K \div (VGbx + r + n)
  BY DEF CurveBuy
<1>2. PICK s : s = r + n
  OBVIOUS
<1>3. s \in Nat /\ VGbx + r + n = VGbx + s
  BY <1>1, <1>2, CurveAssumption
<1>4. PICK a : a = K \div (VGbx + r)
  OBVIOUS
<1>5. PICK b : b = K \div (VGbx + s)
  OBVIOUS
<1>6. a \in Nat /\ b \in Nat /\ CurveTokensSold(r) = VTokens - a /\ CurveTokensSold(s) = VTokens - b /\ VTokens \in Nat
  BY <1>3, <1>4, <1>5, SoldIsInt, CurveAssumption
<1>7. o.tokens = a - b
  BY <1>1, <1>3, <1>4, <1>5
<1> QED
  BY <1>1, <1>2, <1>3, <1>6, <1>7

(* A sell takes no more off what is sold than it takes back: this is where *)
(* the virtual tokens must not be more than the virtual GBX.               *)
LEMMA SellCovers ==
  ASSUME NEW r \in Nat, NEW n \in Nat, NEW o \in CurveSell(r, n)
  PROVE  /\ o.gbx \in Nat /\ o.reserve \in 0..r
         /\ CurveTokensSold(r) <= CurveTokensSold(o.reserve) + n
<1>1. PICK cur : cur = VGbx + r
  OBVIOUS
<1>2. PICK left : left = K \div cur
  OBVIOUS
<1>3. PICK back : back = left + n
  OBVIOUS
<1>4. PICK q : q = K \div back
  OBVIOUS
<1>5. PICK release : release = cur - q
  OBVIOUS
<1>6. /\ o.gbx = IF release > r THEN r ELSE release
      /\ o.reserve = r - o.gbx /\ n > 0 /\ r > 0 /\ n <= CurveTokensSold(r)
  BY <1>1, <1>2, <1>3, <1>4, <1>5 DEF CurveSell
<1>7. /\ cur \in Nat \ {0} /\ left \in Nat /\ K \in Nat /\ CurveTokensSold(r) = VTokens - left
      /\ VTokens \in Nat /\ VGbx \in Nat /\ VTokens <= VGbx
  BY <1>1, <1>2, SoldIsInt, CurveAssumption
<1>8. back \in Nat \ {0} /\ back <= VTokens
  BY <1>3, <1>6, <1>7
<1>9. back * back <= K
  <2>1. back * back <= VTokens * VTokens
    <3>1. back * back <= back * VTokens /\ back * VTokens <= VTokens * VTokens
      BY <1>7, <1>8
    <3>2. back * back \in Nat /\ back * VTokens \in Nat /\ VTokens * VTokens \in Nat
      BY <1>7, <1>8
    <3> QED
      BY <3>1, <3>2
  <2>2. VTokens * VTokens <= VGbx * VTokens
    BY <1>7
  <2>3. back * back \in Nat /\ VTokens * VTokens \in Nat /\ VGbx * VTokens \in Nat
    BY <1>7, <1>8
  <2> QED
    BY <2>1, <2>2, <2>3 DEF K
<1>10. q \in Nat \ {0} /\ K \div q <= back
  BY <1>4, <1>7, <1>8, <1>9, FloorOfFloor
<1>11. q <= cur
  <2>1. K < cur * left + cur
    BY <1>2, <1>7, FloorBounds
  <2>2. cur * left + cur <= back * cur + back
    <3>1. left + 1 <= back
      BY <1>3, <1>6, <1>7
    <3>2. cur * (left + 1) <= cur * back
      BY <1>7, <1>8, <3>1
    <3>3. cur * (left + 1) = cur * left + cur /\ cur * back = back * cur
      BY <1>7, <1>8
    <3>4. cur * left \in Nat /\ back * cur \in Nat
      BY <1>7, <1>8
    <3> QED
      BY <1>7, <1>8, <3>2, <3>3, <3>4
  <2>3. cur * left \in Nat /\ back * cur \in Nat
    BY <1>7, <1>8
  <2>4. K < back * cur + back
    BY <1>7, <1>8, <2>1, <2>2, <2>3
  <2> QED
    BY <1>4, <1>7, <1>8, <2>4, FloorLess
<1>12. release \in Nat
  BY <1>5, <1>7, <1>10, <1>11
<1>13. o.gbx \in Nat /\ o.reserve \in 0..r /\ o.gbx <= release
  BY <1>6, <1>12
<1>14. PICK s : s = o.reserve
  OBVIOUS
<1>15. s \in Nat /\ VGbx + s \in Nat /\ q <= VGbx + s
  BY <1>1, <1>5, <1>6, <1>7, <1>10, <1>13, <1>14
<1>16. K \div (VGbx + s) <= K \div q
  BY <1>7, <1>10, <1>15, FloorFalls
<1>17. K \div (VGbx + s) \in Nat /\ CurveTokensSold(s) = VTokens - K \div (VGbx + s)
  BY <1>15, SoldIsInt
<1>18. K \div q \in Nat
  BY <1>7, <1>10, FloorBounds
<1>19. CurveTokensSold(r) <= CurveTokensSold(s) + n
  BY <1>3, <1>7, <1>8, <1>10, <1>16, <1>17, <1>18
<1> QED
  BY <1>13, <1>14, <1>19

(* The arithmetic of a refund: Q tokens unsold, d left after it.           *)
LEMMA ShareIsSmall ==
  ASSUME NEW A \in Nat \ {0}, NEW Q \in Nat, NEW d \in Nat, NEW a \in Nat \ {0}, NEW r \in Nat, NEW l \in Nat,
         A * (d + a) < A + r * (Q + 1), r * d <= (d + a) * l
  PROVE  A * (Q + (d + a)) < (A + l) * (Q + a) + (A + l)
<1> SUFFICES ASSUME (A + l) * (Q + a) + (A + l) <= A * (Q + (d + a)) PROVE FALSE
  <2>1. (A + l) * (Q + a) + (A + l) \in Int /\ A * (Q + (d + a)) \in Int
    OBVIOUS
  <2> QED
    BY <2>1
<1>1. PICK p : p = r * (Q + 1)
  OBVIOUS
<1>2. PICK x : x = l * (Q + a + 1)
  OBVIOUS
<1>3. PICK Ad : Ad = A * d
  OBVIOUS
<1>4. p \in Nat /\ x \in Nat /\ Ad \in Nat
  BY <1>1, <1>2, <1>3
(* What the sale of one share too many would mean, times what was sold.    *)
<1>5. x + A <= Ad
  <2>1. (A + l) * (Q + a) + (A + l) = A * Q + A * a + A + l * (Q + a + 1)
    OBVIOUS
  <2>2. A * (Q + (d + a)) = A * Q + A * d + A * a
    OBVIOUS
  <2>3. A * Q \in Nat /\ A * a \in Nat
    OBVIOUS
  <2> QED
    BY <1>2, <1>3, <1>4, <2>1, <2>2, <2>3
<1>6. d # 0 /\ d - 1 \in Nat
  <2>1. d = 0 => Ad = 0
    BY <1>3
  <2> QED
    BY <1>4, <1>5, <2>1
<1>7. x <= A * (d - 1)
  <2>1. A * (d - 1) = Ad - A
    BY <1>3
  <2> QED
    BY <1>4, <1>5, <2>1
<1>8. (d + a) * x <= (d + a) * (A * (d - 1))
  <2>1. A * (d - 1) \in Nat /\ d + a \in Nat
    BY <1>6
  <2> QED
    BY <1>4, <1>7, <2>1
<1>9. d * p <= (d + a) * x
  <2>1. PICK u : u = (d + a) * l
    OBVIOUS
  <2>2. u \in Nat /\ r * d \in Nat /\ r * d <= u
    BY <2>1
  <2>3. PICK y : y = Q + a + 1
    OBVIOUS
  <2>4. y \in Nat /\ Q + 1 <= y
    BY <2>3
  <2>5. (r * d) * (Q + 1) <= (r * d) * y
    BY <2>2, <2>4
  <2>6. (r * d) * y <= u * y
    BY <2>2, <2>4
  <2>7. (r * d) * (Q + 1) = d * p /\ (r * d) * (Q + 1) \in Nat
    BY <1>1, <2>2
  <2>8. u * y = (d + a) * x /\ u * y \in Nat /\ (r * d) * y \in Nat
    BY <1>2, <2>1, <2>2, <2>3, <2>4
  <2> QED
    BY <2>5, <2>6, <2>7, <2>8
<1>10. (d + a) * (A * (d - 1)) <= (d - 1) * (A + p - 1)
  <2>1. PICK v : v = A * (d + a)
    OBVIOUS
  <2>2. v \in Nat /\ v <= A + p - 1
    BY <1>1, <1>4, <2>1
  <2>3. (d - 1) * v <= (d - 1) * (A + p - 1)
    BY <1>4, <1>6, <2>2
  <2>4. (d + a) * (A * (d - 1)) = (d - 1) * v
    BY <1>6, <2>1
  <2> QED
    BY <2>3, <2>4
<1>11. p <= (d - 1) * (A - 1)
  <2>1. d * p <= (d - 1) * (A + p - 1)
    <3>1. (d + a) * x \in Int /\ d * p \in Int /\ (d + a) * (A * (d - 1)) \in Int /\ (d - 1) * (A + p - 1) \in Int
      BY <1>4
    <3> QED
      BY <1>8, <1>9, <1>10, <3>1
  <2>2. (d - 1) * (A + p - 1) = (d - 1) * (A - 1) + d * p - p
    BY <1>4
  <2>3. (d - 1) * (A - 1) \in Int /\ d * p \in Int
    BY <1>4
  <2> QED
    BY <1>4, <2>1, <2>2, <2>3
<1>12. Ad < p
  <2>1. A * (d + a) = Ad + A * a /\ A <= A * a /\ A * a \in Nat
    BY <1>3
  <2> QED
    BY <1>1, <1>4, <2>1
<1>13. (d - 1) * (A - 1) <= Ad
  <2>1. (d - 1) * (A - 1) = Ad - d - A + 1
    BY <1>3
  <2> QED
    BY <1>4, <1>6, <2>1
<1> QED
  BY <1>4, <1>11, <1>12, <1>13

(* A refund pays a share of the reserve that leaves the rest covered.      *)
LEMMA RefundCovers ==
  ASSUME NEW r \in Nat, NEW a \in Nat \ {0}, a <= CurveTokensSold(r)
  PROVE  RefundShare(r, a) \in 0..r /\ CurveTokensSold(r) <= CurveTokensSold(r - RefundShare(r, a)) + a
<1>1. PICK Q : Q = K \div (VGbx + r)
  OBVIOUS
<1>2. PICK S : S = CurveTokensSold(r)
  OBVIOUS
<1>3. PICK share : share = (r * a) \div S
  OBVIOUS
<1>4. /\ VGbx \in Nat \ {0} /\ VTokens \in Nat /\ VGbx + r \in Nat \ {0} /\ K \in Nat /\ Q \in Nat /\ S = VTokens - Q
      /\ S \in Nat \ {0} /\ a <= S
  <2>1. VGbx \in Nat \ {0} /\ VTokens \in Nat
    BY CurveAssumption
  <2>2. VGbx + r \in Nat \ {0} /\ K \in Nat /\ Q \in Nat /\ S = VTokens - Q
    BY <1>1, <1>2, SoldIsInt
  <2> QED
    BY <1>2, <2>1, <2>2
<1>5. r * a \in Nat
  OBVIOUS
<1>6. share \in Nat /\ S * share <= r * a
  BY <1>3, <1>4, <1>5, FloorBounds
<1>7. share <= r
  <2>1. r * a <= r * S /\ r * S = S * r
    BY <1>4
  <2>2. S * share <= S * r
    BY <1>4, <1>5, <1>6, <2>1
  <2> SUFFICES ASSUME r + 1 <= share PROVE FALSE
    BY <1>6
  <2>3. S * (r + 1) <= S * share
    BY <1>4, <1>6
  <2>4. S * (r + 1) = S * r + S /\ S * r \in Nat /\ S * share \in Nat
    BY <1>4, <1>6
  <2> QED
    BY <1>4, <2>2, <2>3, <2>4
<1>8. PICK l : l = r - share
  OBVIOUS
<1>9. PICK d : d = S - a
  OBVIOUS
<1>10. l \in Nat /\ d \in Nat /\ S = d + a /\ VTokens = Q + (d + a)
  BY <1>4, <1>6, <1>7, <1>8, <1>9
<1>11. r * d <= (d + a) * l
  <2>1. S * l = S * r - S * share /\ r * d = S * r - r * a
    BY <1>4, <1>6, <1>8, <1>9
  <2>2. S * r \in Nat /\ S * share \in Nat
    BY <1>4, <1>6
  <2> QED
    BY <1>5, <1>6, <1>10, <2>1, <2>2
<1>12. VGbx * (d + a) < VGbx + r * (Q + 1)
  <2>1. K < (VGbx + r) * Q + (VGbx + r)
    BY <1>1, <1>4, FloorBounds
  <2>2. K = VGbx * Q + VGbx * (d + a)
    BY <1>4, <1>10 DEF K
  <2>3. (VGbx + r) * Q = VGbx * Q + r * Q /\ r * (Q + 1) = r * Q + r
    BY <1>4
  <2>4. VGbx * Q \in Nat /\ r * Q \in Nat /\ VGbx * (d + a) \in Nat
    BY <1>4, <1>10
  <2> QED
    BY <1>4, <2>1, <2>2, <2>3, <2>4
<1>13. K < (VGbx + l) * (Q + a) + (VGbx + l)
  <2>1. VGbx * (Q + (d + a)) < (VGbx + l) * (Q + a) + (VGbx + l)
    BY <1>4, <1>10, <1>11, <1>12, ShareIsSmall
  <2> QED
    BY <1>10, <2>1 DEF K
<1>14. K \div (VGbx + l) <= Q + a
  <2>1. VGbx + l \in Nat \ {0} /\ Q + a \in Nat
    BY <1>4, <1>10
  <2> QED
    BY <1>4, <1>13, <2>1, FloorLess
<1>15. S <= CurveTokensSold(l) + a
  <2>1. CurveTokensSold(l) = VTokens - K \div (VGbx + l) /\ K \div (VGbx + l) \in Nat
    BY <1>10, SoldIsInt
  <2> QED
    BY <1>4, <1>14, <2>1
<1>16. RefundShare(r, a) = share
  BY <1>2, <1>3 DEF RefundShare
<1> QED
  BY <1>2, <1>6, <1>7, <1>8, <1>15, <1>16

(* A fee is a number.                                                      *)
LEMMA FeeIsInt == ASSUME NEW n \in Int PROVE CurveFee(n) \in Int /\ PoolFee(n) \in Int
<1>1. ASSUME NEW bps \in Nat PROVE Fee(n, bps) \in Int
  <2>1. CASE n <= 0
    BY <2>1 DEF Fee
  <2>2. CASE ~(n <= 0)
    <3>1. n * bps \in Nat /\ 10000 \in Nat \ {0}
      BY <2>2
    <3>2. (n * bps) \div 10000 \in Nat
      BY <3>1, FloorBounds
    <3> QED
      BY <2>2, <3>2 DEF Fee
  <2> QED
    BY <2>1, <2>2
<1> QED
  BY <1>1, CurveAssumption DEF CurveFee, PoolFee

(* The pool gives what it has less, and takes what it has more.            *)
LEMMA PoolCovers ==
  ASSUME NEW g \in Nat, NEW n \in Nat, NEW m \in Int
  PROVE  /\ \A o \in PoolBuy(g, n, m) :
              o.gbx \in Nat /\ o.tokens \in Nat /\ o.tokensOut \in Nat \ {0} /\ o.tokens + o.tokensOut = n
         /\ \A o \in PoolSell(g, n, m) : o.gbx \in Nat /\ o.tokens \in Nat /\ o.out \in Nat /\ o.tokens = n + m
<1>1. g * n \in Nat
  OBVIOUS
<1>2. ASSUME NEW o \in PoolBuy(g, n, m)
      PROVE  o.gbx \in Nat /\ o.tokens \in Nat /\ o.tokensOut \in Nat \ {0} /\ o.tokens + o.tokensOut = n
  <2>1. PICK left : left = CeilDiv(g * n, g + m)
    OBVIOUS
  <2>2. m > 0 /\ left < n /\ o.tokensOut = n - left /\ o.gbx = g + m /\ o.tokens = left
    BY <2>1 DEF PoolBuy
  <2>3. g + m \in Nat \ {0}
    BY <2>2
  <2>4. left \in Nat
    BY <1>1, <2>1, <2>3, CeilBounds
  <2> QED
    BY <2>2, <2>3, <2>4
<1>3. ASSUME NEW o \in PoolSell(g, n, m)
      PROVE  o.gbx \in Nat /\ o.tokens \in Nat /\ o.out \in Nat /\ o.tokens = n + m
  <2>1. PICK left : left = CeilDiv(g * n, n + m)
    OBVIOUS
  <2>2. m > 0 /\ left < g /\ o.out = g - left /\ o.gbx = left /\ o.tokens = n + m
    BY <2>1 DEF PoolSell
  <2>3. n + m \in Nat \ {0}
    BY <2>2
  <2>4. left \in Nat
    BY <1>1, <2>1, <2>3, CeilBounds
  <2> QED
    BY <2>2, <2>3, <2>4
<1> QED
  BY <1>2, <1>3
-----------------------------------------------------------------------------
(* Launchpad.tla: the tokens a coin's market can take back are covered.    *)
Holders == Others \union {Me}
Holdings == [id : Nat, who : Holders, amount : Nat \ {0}]
CoinSet == [phase : {"live", "graduated", "closed"}, at : Nat, gbx : Nat, tokens : Nat, m : Int, hM : Int]
Legal(c) == c \in CoinSet /\ (c.phase = "live" => CurveTokensSold(c.gbx) <= CurveTokens)

(* How many tokens may be with holders, and what a transaction gives.      *)
Cover(c) == IF c.phase = "live" THEN CurveTokensSold(c.gbx) ELSE CurveTokens + LpTokens - c.tokens
Tokens(id, gives) == {[id |-> id, who |-> g[1], amount |-> g[2]] : g \in gives}

(* A transaction that the node takes leaves what it gives covered; one of  *)
(* the wallet gives what it takes.                                         *)
Open(op, c) == IF op \in {"B", "S", "G", "R"} THEN c.phase = "live" ELSE c.phase # "closed"
Keeps(t, id, c) ==
  /\ Legal(t.next)
  /\ t.next.phase # "closed" => Cover(c) + Amounts(Tokens(id, t.gives)) <= Cover(t.next) + Amounts(t.uses)
Gives(t, id) == LET g == Tokens(id, t.gives) IN g \subseteq Holdings /\ IsFiniteSet(g)
Honest(t, id, c) ==
  t.uses \subseteq Holdings /\ IsFiniteSet(t.uses) =>
    /\ Gives(t, id)
    /\ IF t.op = "T" THEN Amounts(Tokens(id, t.gives)) <= Amounts(t.uses)
       ELSE t.on = c.at /\ Open(t.op, c) => Keeps(t, id, c)

(* What holdings amount to, and what a transaction gives: none, one, two.  *)
LEMMA AmountsOfHoldings ==
  ASSUME NEW A, IsFiniteSet(A), A \subseteq Holdings
  PROVE  Amounts(A) \in Nat
<1>1. \A p \in A \cup {} : p.amount \in Nat
  BY DEF Holdings
<1>2. A \cap {} = {} /\ IsFiniteSet({})
  BY FS_EmptySet
<1> QED
  BY <1>1, <1>2, AmountsApart

LEMMA OneAmount == ASSUME NEW x, x.amount \in Int PROVE Amounts({x}) = x.amount
<1>1. IsFiniteSet({x}) /\ {} = {x} \ {x}
  BY FS_Singleton
<1>2. Amounts({x}) = x.amount + Amounts({})
  BY <1>1, AmountTakeOut
<1> QED
  BY <1>2, AmountsNothing

LEMMA GivesNothing ==
  ASSUME NEW id
  PROVE  Tokens(id, {}) \subseteq Holdings /\ IsFiniteSet(Tokens(id, {})) /\ Amounts(Tokens(id, {})) = 0
<1>1. Tokens(id, {}) = {}
  BY DEF Tokens
<1> QED
  BY <1>1, AmountsNothing, FS_EmptySet

LEMMA GivesOne ==
  ASSUME NEW id \in Nat, NEW u \in Holders, NEW n \in Nat \ {0}
  PROVE  /\ Tokens(id, {<<u, n>>}) \subseteq Holdings /\ IsFiniteSet(Tokens(id, {<<u, n>>}))
         /\ Amounts(Tokens(id, {<<u, n>>})) = n
<1>1. PICK x : x = [id |-> id, who |-> u, amount |-> n]
  OBVIOUS
<1>2. Tokens(id, {<<u, n>>}) = {x}
  BY <1>1 DEF Tokens
<1>3. x \in Holdings /\ x.amount = n
  BY <1>1 DEF Holdings
<1>4. Amounts({x}) = n
  BY <1>3, OneAmount
<1> QED
  BY <1>2, <1>3, <1>4, FS_Singleton

LEMMA GivesTwo ==
  ASSUME NEW id \in Nat, NEW u \in Holders, NEW n \in Nat \ {0}, NEW v \in Holders, NEW m \in Nat \ {0},
         NEW g, g = {<<u, n>>} \union {<<v, m>>}
  PROVE  Tokens(id, g) \subseteq Holdings /\ IsFiniteSet(Tokens(id, g)) /\ Amounts(Tokens(id, g)) <= n + m
<1>1. PICK A : A = Tokens(id, {<<u, n>>})
  OBVIOUS
<1>2. PICK B : B = Tokens(id, {<<v, m>>})
  OBVIOUS
<1>3. Tokens(id, g) = A \union B
  BY <1>1, <1>2 DEF Tokens
<1>4. A \subseteq Holdings /\ IsFiniteSet(A) /\ Amounts(A) = n
  BY <1>1, GivesOne
<1>5. B \subseteq Holdings /\ IsFiniteSet(B) /\ Amounts(B) = m
  BY <1>2, GivesOne
<1>6. \A p \in A \union B : p.amount \in Nat
  BY <1>4, <1>5 DEF Holdings
<1>7. Amounts(A \union B) <= n + m
  BY <1>4, <1>5, <1>6, AmountsTogether
<1>8. IsFiniteSet(A \union B)
  BY <1>4, <1>5, FS_Union
<1> QED
  BY <1>3, <1>4, <1>5, <1>7, <1>8
-----------------------------------------------------------------------------
(* The transactions, from a copy d of the chain.                           *)
LEMMA RemembersOnly ==
  ASSUME NEW c \in CoinSet, NEW trade \in Int, NEW h \in Int
  PROVE  /\ Remembers(c, trade, h) \in CoinSet /\ Remembers(c, trade, h).phase = c.phase
         /\ Remembers(c, trade, h).gbx = c.gbx /\ Remembers(c, trade, h).tokens = c.tokens
<1>1. PICK n : n = NextM(c.m, c.hM, trade, h)
  OBVIOUS
<1>2. n.m \in Int /\ n.hM \in Int
  BY <1>1 DEF NextM, CoinSet
<1>3. Remembers(c, trade, h) = [c EXCEPT !.m = n.m, !.hM = n.hM]
  BY <1>1 DEF Remembers
<1> QED
  BY <1>2, <1>3 DEF CoinSet

LEMMA BuyHonest ==
  ASSUME NEW d, Legal(d.coin), NEW u \in Holders, NEW h \in Int, NEW gross \in Int,
         NEW t \in BuyTx(u, d, h, gross), NEW id \in Nat
  PROVE  t.op = "B" /\ t.on = d.coin.at /\ Honest(t, id, d.coin)
<1>1. PICK q \in QuoteBuy(d.coin.gbx, gross) :
        t = [op |-> "B", by |-> u, on |-> d.coin.at, uses |-> {}, gives |-> {<<u, q.tokens>>}, burn |-> q.fee,
             amount |-> gross, out |-> q.tokens, moved |-> q.net,
             next |-> Remembers([d.coin EXCEPT !.gbx = q.reserve], q.net, h + 1)]
  BY ZenonT(30) DEF BuyTx
<1>2. /\ t.op = "B" /\ t.on = d.coin.at /\ t.uses = {} /\ t.gives = {<<u, q.tokens>>}
      /\ t.next = Remembers([d.coin EXCEPT !.gbx = q.reserve], q.net, h + 1)
  BY <1>1
<1>3. gross - CurveFee(gross) \in Int /\ d.coin \in CoinSet /\ d.coin.gbx \in Nat
  BY FeeIsInt DEF Legal, CoinSet
<1>4. PICK o \in CurveBuy(d.coin.gbx, gross - CurveFee(gross)) :
        q.tokens = o.tokens /\ q.reserve = o.reserve /\ q.net = gross - CurveFee(gross)
  BY DEF QuoteBuy
<1>5. /\ q.reserve \in Nat /\ q.tokens \in Nat \ {0}
      /\ CurveTokensSold(q.reserve) = CurveTokensSold(d.coin.gbx) + q.tokens
      /\ CurveTokensSold(q.reserve) <= CurveTokens
  BY <1>3, <1>4, BuyCovers
<1>6. PICK c : c = [d.coin EXCEPT !.gbx = q.reserve]
  OBVIOUS
<1>7. c \in CoinSet /\ c.gbx = q.reserve /\ c.phase = d.coin.phase /\ q.net \in Int /\ h + 1 \in Int
  BY <1>3, <1>4, <1>5, <1>6 DEF CoinSet
<1>8. t.next \in CoinSet /\ t.next.gbx = q.reserve /\ t.next.phase = d.coin.phase
  <2>1. t.next = Remembers(c, q.net, h + 1)
    BY <1>2, <1>6
  <2> QED
    BY <1>7, <2>1, RemembersOnly
<1>9. Gives(t, id) /\ Amounts(Tokens(id, t.gives)) = q.tokens /\ Amounts(t.uses) = 0
  BY <1>2, <1>5, GivesOne, AmountsNothing DEF Gives
<1>10. ASSUME d.coin.phase = "live" PROVE Keeps(t, id, d.coin)
  <2>1. Cover(d.coin) = CurveTokensSold(d.coin.gbx) /\ Cover(t.next) = CurveTokensSold(q.reserve)
    BY <1>8, <1>10 DEF Cover
  <2>2. CurveTokensSold(d.coin.gbx) \in Int
    BY <1>3, SoldIsInt
  <2> QED
    BY <1>5, <1>8, <1>9, <2>1, <2>2 DEF Keeps, Legal
<1> QED
  BY <1>2, <1>9, <1>10 DEF Honest, Open

(* A sale gives back what it does not sell.                                *)
LEMMA RestGiven ==
  ASSUME NEW id \in Nat, NEW u \in Holders, NEW x \in Holdings, NEW n \in Nat, n <= x.amount
  PROVE  /\ Tokens(id, Rest(u, x, n)) \subseteq Holdings /\ IsFiniteSet(Tokens(id, Rest(u, x, n)))
         /\ Amounts(Tokens(id, Rest(u, x, n))) + n = Amounts({x})
<1>1. x.amount \in Nat \ {0} /\ Amounts({x}) = x.amount
  BY OneAmount DEF Holdings
<1>2. CASE x.amount > n
  <2>1. PICK m : m = x.amount - n
    OBVIOUS
  <2>2. m \in Nat \ {0} /\ m + n = x.amount
    BY <1>1, <1>2, <2>1
  <2>3. Rest(u, x, n) = {<<u, m>>}
    BY <1>2, <2>1 DEF Rest
  <2>4. /\ Amounts(Tokens(id, {<<u, m>>})) = m
        /\ Tokens(id, {<<u, m>>}) \subseteq Holdings /\ IsFiniteSet(Tokens(id, {<<u, m>>}))
    BY <2>2, GivesOne
  <2> QED
    BY <1>1, <2>2, <2>3, <2>4
<1>3. CASE ~(x.amount > n)
  <2>1. Rest(u, x, n) = {} /\ n = x.amount
    BY <1>1, <1>3 DEF Rest
  <2> QED
    BY <1>1, <2>1, GivesNothing, FS_EmptySet
<1> QED
  BY <1>2, <1>3

LEMMA SellHonest ==
  ASSUME NEW d, Legal(d.coin), NEW u \in Holders, NEW h \in Int, NEW x, NEW n, x \in Holdings => n \in Nat,
         NEW t \in SellTx(u, d, h, x, n), NEW id \in Nat
  PROVE  t.op = "S" /\ t.on = d.coin.at /\ Honest(t, id, d.coin)
<1>1. PICK q \in QuoteSell(d.coin.gbx, n) :
        /\ n <= x.amount
        /\ t.op = "S" /\ t.on = d.coin.at /\ t.uses = {x} /\ t.gives = Rest(u, x, n)
        /\ t.next = Remembers([d.coin EXCEPT !.gbx = q.reserve], q.gross, h + 1)
  BY DEF SellTx
<1> SUFFICES ASSUME x \in Holdings PROVE Honest(t, id, d.coin)
  BY <1>1 DEF Honest
<1>2. d.coin \in CoinSet /\ d.coin.gbx \in Nat /\ n \in Nat
  BY DEF Legal, CoinSet
<1>3. PICK o \in CurveSell(d.coin.gbx, n) : q.gross = o.gbx /\ q.reserve = o.reserve
  BY DEF QuoteSell
<1>4. /\ q.gross \in Nat /\ q.reserve \in 0..d.coin.gbx
      /\ CurveTokensSold(d.coin.gbx) <= CurveTokensSold(q.reserve) + n
  BY <1>2, <1>3, SellCovers
<1>5. PICK c : c = [d.coin EXCEPT !.gbx = q.reserve]
  OBVIOUS
<1>6. q.reserve \in Nat /\ q.reserve <= d.coin.gbx
  BY <1>2, <1>4
<1>7. c \in CoinSet /\ c.gbx = q.reserve /\ c.phase = d.coin.phase /\ q.gross \in Int /\ h + 1 \in Int
  BY <1>2, <1>4, <1>5, <1>6 DEF CoinSet
<1>8. t.next \in CoinSet /\ t.next.gbx = q.reserve /\ t.next.phase = d.coin.phase
  <2>1. t.next = Remembers(c, q.gross, h + 1)
    BY <1>1, <1>5
  <2> QED
    BY <1>7, <2>1, RemembersOnly
<1>9. Gives(t, id) /\ Amounts(Tokens(id, t.gives)) + n = Amounts(t.uses)
  BY <1>1, <1>2, RestGiven DEF Gives
<1>10. Amounts(Tokens(id, t.gives)) \in Nat
  BY <1>9, AmountsOfHoldings DEF Gives
<1>11. ASSUME d.coin.phase = "live" PROVE Keeps(t, id, d.coin)
  <2>1. Cover(d.coin) = CurveTokensSold(d.coin.gbx) /\ Cover(t.next) = CurveTokensSold(q.reserve)
    BY <1>8, <1>11 DEF Cover
  <2>2. CurveTokensSold(d.coin.gbx) \in Int /\ CurveTokensSold(q.reserve) \in Int
    BY <1>2, <1>6, SoldIsInt
  <2>3. CurveTokensSold(q.reserve) <= CurveTokens
    <3>1. CurveTokensSold(q.reserve) <= CurveTokensSold(d.coin.gbx)
      BY <1>2, <1>6, SoldGrows
    <3>2. CurveTokensSold(d.coin.gbx) <= CurveTokens /\ CurveTokens \in Nat
      BY <1>11, CurveAssumption DEF Legal
    <3> QED
      BY <2>2, <3>1, <3>2
  <2>4. Cover(d.coin) + Amounts(Tokens(id, t.gives)) <= Cover(t.next) + Amounts(t.uses)
    BY <1>2, <1>4, <1>9, <1>10, <2>1, <2>2
  <2> QED
    BY <1>8, <2>3, <2>4 DEF Keeps, Legal
<1> QED
  BY <1>1, <1>9, <1>11 DEF Honest, Open

(* The sum of Launchpad is the one of SumLemmas.                           *)
LEMMA SumIsAmounts == ASSUME NEW P PROVE Sum(P) = Amounts(P)
BY DEF Sum, Amounts, MapThenSumSet, MapThenFoldSet

(* What a coin covers is a number.                                         *)
LEMMA CoverIsInt == ASSUME NEW c \in CoinSet PROVE Cover(c) \in Int
<1>1. CurveTokens \in Nat /\ LpTokens \in Nat
  BY CurveAssumption
<1> QED
  BY <1>1, SoldIsInt DEF Cover, CoinSet

(* A buy from the pool; a sale to it; a refund; the graduation; a send.    *)
LEMMA PoolBuyHonest ==
  ASSUME NEW d, Legal(d.coin), d.coin.phase = "graduated", NEW u \in Holders, NEW gross \in Int,
         NEW t \in PoolBuyTx(u, d, gross), NEW id \in Nat
  PROVE  t.op = "P" /\ t.on = d.coin.at /\ Honest(t, id, d.coin)
<1>1. PICK q \in QuotePoolBuy(d.coin.gbx, d.coin.tokens, gross) :
        t = [op |-> "P", by |-> u, on |-> d.coin.at, uses |-> {}, gives |-> {<<u, q.tokensOut>>}, burn |-> q.fee,
             amount |-> gross, out |-> q.tokensOut, moved |-> gross - q.fee,
             next |-> [d.coin EXCEPT !.gbx = q.gbx, !.tokens = q.tokens]]
  BY ZenonT(30) DEF PoolBuyTx
<1>2. /\ t.op = "P" /\ t.on = d.coin.at /\ t.uses = {} /\ t.gives = {<<u, q.tokensOut>>}
      /\ t.next = [d.coin EXCEPT !.gbx = q.gbx, !.tokens = q.tokens]
  BY <1>1
<1>3. gross - PoolFee(gross) \in Int /\ d.coin \in CoinSet /\ d.coin.gbx \in Nat /\ d.coin.tokens \in Nat
  BY FeeIsInt DEF Legal, CoinSet
<1>4. PICK o \in PoolBuy(d.coin.gbx, d.coin.tokens, gross - PoolFee(gross)) :
        q.tokensOut = o.tokensOut /\ q.gbx = o.gbx /\ q.tokens = o.tokens
  BY DEF QuotePoolBuy
<1>5. q.gbx \in Nat /\ q.tokens \in Nat /\ q.tokensOut \in Nat \ {0} /\ q.tokens + q.tokensOut = d.coin.tokens
  BY <1>3, <1>4, PoolCovers
<1>6. t.next \in CoinSet /\ t.next.tokens = q.tokens /\ t.next.phase = "graduated"
  BY <1>2, <1>3, <1>5 DEF CoinSet
<1>7. Gives(t, id) /\ Amounts(Tokens(id, t.gives)) = q.tokensOut /\ Amounts(t.uses) = 0
  BY <1>2, <1>5, GivesOne, AmountsNothing DEF Gives
<1>8. Keeps(t, id, d.coin)
  <2>1. Cover(d.coin) = CurveTokens + LpTokens - d.coin.tokens /\ Cover(t.next) = CurveTokens + LpTokens - q.tokens
    BY <1>6 DEF Cover
  <2>2. CurveTokens \in Nat /\ LpTokens \in Nat
    BY CurveAssumption
  <2>3. Cover(d.coin) + q.tokensOut <= Cover(t.next) + 0
    BY <1>3, <1>5, <2>1, <2>2
  <2> QED
    BY <1>6, <1>7, <2>3 DEF Keeps, Legal
<1> QED
  BY <1>2, <1>7, <1>8 DEF Honest

LEMMA PoolSellHonest ==
  ASSUME NEW d, Legal(d.coin), d.coin.phase = "graduated", NEW u \in Holders, NEW x, NEW n, x \in Holdings => n \in Nat,
         NEW t \in PoolSellTx(u, d, x, n), NEW id \in Nat
  PROVE  t.op = "Q" /\ t.on = d.coin.at /\ Honest(t, id, d.coin)
<1>1. PICK q \in QuotePoolSell(d.coin.gbx, d.coin.tokens, n) :
        /\ n <= x.amount
        /\ t = [op |-> "Q", by |-> u, on |-> d.coin.at, uses |-> {x}, gives |-> Rest(u, x, n), burn |-> q.fee,
                amount |-> n, out |-> x.amount - n, moved |-> q.net + q.fee,
                next |-> [d.coin EXCEPT !.gbx = q.gbx, !.tokens = q.tokens]]
  BY ZenonT(30) DEF PoolSellTx
<1>2. /\ t.op = "Q" /\ t.on = d.coin.at /\ t.uses = {x} /\ t.gives = Rest(u, x, n)
      /\ t.next = [d.coin EXCEPT !.gbx = q.gbx, !.tokens = q.tokens]
  BY <1>1
<1> SUFFICES ASSUME x \in Holdings PROVE Honest(t, id, d.coin)
  BY <1>2 DEF Honest
<1>3. d.coin \in CoinSet /\ d.coin.gbx \in Nat /\ d.coin.tokens \in Nat /\ n \in Nat
  BY DEF Legal, CoinSet
<1>4. PICK o \in PoolSell(d.coin.gbx, d.coin.tokens, n) : q.gbx = o.gbx /\ q.tokens = o.tokens
  BY DEF QuotePoolSell
<1>5. q.gbx \in Nat /\ q.tokens \in Nat /\ q.tokens = d.coin.tokens + n
  BY <1>3, <1>4, PoolCovers
<1>6. t.next \in CoinSet /\ t.next.tokens = q.tokens /\ t.next.phase = "graduated"
  BY <1>2, <1>3, <1>5 DEF CoinSet
<1>7. Gives(t, id) /\ Amounts(Tokens(id, t.gives)) + n = Amounts(t.uses)
  BY <1>1, <1>2, <1>3, RestGiven DEF Gives
<1>8. Amounts(Tokens(id, t.gives)) \in Nat
  BY <1>7, AmountsOfHoldings DEF Gives
<1>9. Keeps(t, id, d.coin)
  <2>1. Cover(d.coin) = CurveTokens + LpTokens - d.coin.tokens /\ Cover(t.next) = CurveTokens + LpTokens - q.tokens
    BY <1>6 DEF Cover
  <2>2. CurveTokens \in Nat /\ LpTokens \in Nat
    BY CurveAssumption
  <2>3. Cover(d.coin) + Amounts(Tokens(id, t.gives)) <= Cover(t.next) + Amounts(t.uses)
    BY <1>3, <1>5, <1>7, <1>8, <2>1, <2>2
  <2> QED
    BY <1>6, <2>3 DEF Keeps, Legal
<1> QED
  BY <1>2, <1>7, <1>9 DEF Honest

LEMMA RefundHonest ==
  ASSUME NEW d, Legal(d.coin), NEW u, NEW x, NEW t \in RefundTx(u, d, x), NEW id \in Nat
  PROVE  t.op = "R" /\ t.on = d.coin.at /\ Honest(t, id, d.coin)
<1>1. PICK share : share = RefundShare(d.coin.gbx, x.amount)
  OBVIOUS
<1>2. PICK left : left = d.coin.gbx - share
  OBVIOUS
<1>3. /\ d.coin.phase = "live" /\ ~(x.amount > CurveTokensSold(d.coin.gbx))
      /\ t.op = "R" /\ t.on = d.coin.at /\ t.uses = {x} /\ t.gives = {}
      /\ t.next = IF left <= Dust THEN [d.coin EXCEPT !.phase = "closed", !.gbx = 0] ELSE [d.coin EXCEPT !.gbx = left]
  BY <1>1, <1>2 DEF RefundTx
<1> SUFFICES ASSUME x \in Holdings PROVE Honest(t, id, d.coin)
  BY <1>3 DEF Honest
<1>4. d.coin \in CoinSet /\ d.coin.gbx \in Nat /\ x.amount \in Nat \ {0} /\ CurveTokensSold(d.coin.gbx) \in Int
  BY SoldIsInt DEF Legal, CoinSet, Holdings
<1>5. share \in 0..d.coin.gbx /\ CurveTokensSold(d.coin.gbx) <= CurveTokensSold(left) + x.amount
  <2>1. x.amount <= CurveTokensSold(d.coin.gbx)
    BY <1>3, <1>4
  <2> QED
    BY <1>1, <1>2, <1>4, <2>1, RefundCovers
<1>6. left \in Nat /\ left <= d.coin.gbx
  BY <1>2, <1>4, <1>5
<1>7. Gives(t, id) /\ Amounts(Tokens(id, t.gives)) = 0 /\ Amounts(t.uses) = x.amount
  BY <1>3, <1>4, GivesNothing, OneAmount DEF Gives
<1>8. CASE left <= Dust
  <2>1. PICK p, z : p = "closed" /\ z = 0
    OBVIOUS
  <2>2. t.next = [d.coin EXCEPT !.phase = p, !.gbx = z]
    BY <1>3, <1>6, <1>8, <2>1
  <2>3. z \in Nat /\ p \in {"live", "graduated", "closed"}
    BY <2>1
  <2>4. t.next \in CoinSet /\ t.next.phase = "closed"
    BY <1>4, <2>1, <2>2, <2>3 DEF CoinSet
  <2>5. Keeps(t, id, d.coin)
    BY <2>4 DEF Keeps, Legal
  <2> QED
    BY <1>3, <1>7, <2>5 DEF Honest
<1>9. CASE ~(left <= Dust)
  <2>1. t.next \in CoinSet /\ t.next.phase = "live" /\ t.next.gbx = left
    BY <1>3, <1>4, <1>6, <1>9 DEF CoinSet
  <2>2. Cover(d.coin) = CurveTokensSold(d.coin.gbx) /\ Cover(t.next) = CurveTokensSold(left)
    BY <1>3, <2>1 DEF Cover
  <2>3. CurveTokensSold(left) \in Int /\ CurveTokensSold(left) <= CurveTokensSold(d.coin.gbx)
    BY <1>4, <1>6, SoldIsInt, SoldGrows
  <2>4. CurveTokensSold(d.coin.gbx) <= CurveTokens /\ CurveTokens \in Nat
    BY <1>3, CurveAssumption DEF Legal
  <2>5. CurveTokensSold(left) <= CurveTokens
    BY <1>4, <2>3, <2>4
  <2>6. Cover(d.coin) + 0 <= Cover(t.next) + x.amount
    BY <1>4, <1>5, <2>2, <2>3
  <2> QED
    BY <1>3, <1>7, <2>1, <2>5, <2>6 DEF Honest, Keeps, Legal
<1> QED
  BY <1>8, <1>9

LEMMA GraduateHonest ==
  ASSUME NEW d, Legal(d.coin), NEW u, NEW t \in GraduateTx(u, d), NEW id \in Nat
  PROVE  t.op = "G" /\ t.on = d.coin.at /\ Honest(t, id, d.coin)
<1>1. /\ t.op = "G" /\ t.on = d.coin.at /\ t.uses = {} /\ t.gives = {}
      /\ t.next = [d.coin EXCEPT !.phase = "graduated", !.tokens = PoolTokens(d.coin.gbx)]
  BY DEF GraduateTx
<1>2. Gives(t, id) /\ Amounts(Tokens(id, t.gives)) = 0 /\ Amounts(t.uses) = 0
  BY <1>1, GivesNothing, AmountsNothing DEF Gives
<1>3. ASSUME d.coin.phase = "live" PROVE Keeps(t, id, d.coin)
  <2>1. d.coin \in CoinSet /\ CurveTokensSold(d.coin.gbx) \in Int /\ CurveTokensSold(d.coin.gbx) <= CurveTokens
    BY <1>3, SoldIsInt DEF Legal, CoinSet
  <2>2. CurveTokens \in Nat /\ LpTokens \in Nat
    BY CurveAssumption
  <2>3. PICK n : n = PoolTokens(d.coin.gbx)
    OBVIOUS
  <2>4. n \in Nat /\ CurveTokens + LpTokens - n = CurveTokensSold(d.coin.gbx)
    BY <2>1, <2>2, <2>3 DEF PoolTokens
  <2>5. t.next \in CoinSet /\ t.next.phase = "graduated" /\ t.next.tokens = n
    BY <1>1, <2>1, <2>3, <2>4 DEF CoinSet
  <2>6. Cover(d.coin) = CurveTokensSold(d.coin.gbx) /\ Cover(t.next) = CurveTokens + LpTokens - n
    BY <1>3, <2>5 DEF Cover
  <2>7. Cover(d.coin) + 0 <= Cover(t.next) + 0
    BY <2>1, <2>4, <2>6
  <2> QED
    BY <1>2, <2>5, <2>7 DEF Keeps, Legal
<1> QED
  BY <1>1, <1>2, <1>3 DEF Honest, Open

LEMMA SendHonest ==
  ASSUME NEW d, NEW u \in Holders, NEW v \in Holders, NEW t \in SendTx(u, d, v, 1), NEW id \in Nat, NEW c
  PROVE  t.op = "T" /\ Honest(t, id, c)
<1>1. PICK used : used = Covering(d, u, 1)
  OBVIOUS
<1>2. PICK rest : rest = Sum(used) - 1
  OBVIOUS
<1>3. /\ used # {} /\ t.op = "T" /\ t.uses = used
      /\ t.gives = {<<v, 1>>} \union (IF rest > 0 THEN {<<u, rest>>} ELSE {})
  BY <1>1, <1>2 DEF SendTx
<1> SUFFICES ASSUME used \subseteq Holdings, IsFiniteSet(used)
             PROVE  Gives(t, id) /\ Amounts(Tokens(id, t.gives)) <= Amounts(used)
  BY <1>3 DEF Honest
<1>4. Amounts(used) \in Nat \ {0}
  <2>1. PICK x \in used : TRUE
    BY <1>3
  <2>2. PICK r : r = used \ {x}
    OBVIOUS
  <2>3. IsFiniteSet(r) /\ r \subseteq Holdings /\ x.amount \in Nat \ {0} /\ \A p \in used : p.amount \in Int
    BY <2>2, FS_Subset DEF Holdings
  <2>4. Amounts(used) = x.amount + Amounts(r) /\ Amounts(r) \in Nat
    BY <2>1, <2>2, <2>3, AmountTakeOut, AmountsOfHoldings
  <2> QED
    BY <2>3, <2>4
<1>5. rest = Amounts(used) - 1 /\ rest \in Nat
  BY <1>2, <1>4, SumIsAmounts
<1>6. CASE rest > 0
  <2>1. PICK g : g = {<<v, 1>>} \union {<<u, rest>>}
    OBVIOUS
  <2>2. t.gives = g /\ rest \in Nat \ {0} /\ 1 \in Nat \ {0}
    BY <1>3, <1>5, <1>6, <2>1
  <2>3. Tokens(id, g) \subseteq Holdings /\ IsFiniteSet(Tokens(id, g)) /\ Amounts(Tokens(id, g)) <= 1 + rest
    BY <2>1, <2>2, GivesTwo
  <2>4. 1 + rest = Amounts(used)
    BY <1>4, <1>5
  <2> QED
    BY <2>2, <2>3, <2>4 DEF Gives
<1>7. CASE ~(rest > 0)
  <2>1. t.gives = {<<v, 1>>} /\ 1 \in Nat \ {0}
    BY <1>3, <1>7
  <2>2. Tokens(id, t.gives) \subseteq Holdings /\ IsFiniteSet(Tokens(id, t.gives)) /\ Amounts(Tokens(id, t.gives)) = 1
    BY <2>1, GivesOne
  <2> QED
    BY <1>4, <2>2 DEF Gives
<1> QED
  BY <1>6, <1>7

Alike(t, r) == t.op = r.op /\ t.on = r.on /\ t.uses = r.uses /\ t.gives = r.gives /\ t.next = r.next

(* A transaction keeps its content when it is given a name.                *)
LEMMA NamedAlike ==
  ASSUME NEW txs, NEW h, NEW knew, NEW t \in Named(txs, h, knew)
  PROVE  t.id = sends + 1 /\ \E r \in txs : Alike(t, r)
BY DEF Named, Alike

(* A transaction made from a copy d of the chain.                          *)
MadeFrom(t, d) == t.id = sends + 1 /\ Honest(t, t.id, d.coin) /\ (t.op # "T" => t.on = d.coin.at)
LEMMA AlikeHonest ==
  ASSUME NEW t, NEW r, Alike(t, r), t.id = sends + 1, NEW d, Honest(r, sends + 1, d.coin), r.op # "T" => r.on = d.coin.at
  PROVE  MadeFrom(t, d)
BY DEF Alike, MadeFrom, Honest, Gives, Keeps

(* What the page buys and sells, on the curve or in the pool.              *)
LEMMA BoughtHonest ==
  ASSUME NEW d, Legal(d.coin), NEW u \in Holders, NEW h \in Int, NEW gross \in Int,
         NEW t \in Bought(u, d, h, gross), NEW id \in Nat
  PROVE  t.on = d.coin.at /\ Honest(t, id, d.coin)
BY BuyHonest, PoolBuyHonest DEF Bought

LEMMA SoldHonest ==
  ASSUME NEW d, Legal(d.coin), NEW u \in Holders, NEW h \in Int, NEW x, NEW n, x \in Holdings => n \in Nat,
         NEW t \in Sold(u, d, h, x, n), NEW id \in Nat
  PROVE  t.on = d.coin.at /\ Honest(t, id, d.coin)
BY SellHonest, PoolSellHonest DEF Sold
-----------------------------------------------------------------------------
(* The inductive invariant.  An outpoint names one state of the coin: a    *)
(* copy of the chain that has the coin's outpoint has its state, and no    *)
(* outpoint that anyone knows is that of a transaction still waiting.  So  *)
(* a transaction that the node can take was made from the coin as it is.   *)
Fresh(n, w, s) == n \in 0..s /\ \A t \in w : t.id # n
Copy(d, c, w, s) == Legal(d.coin) /\ Fresh(d.coin.at, w, s) /\ (d.coin.at = c.at => d.coin = c)
Waiting(w, c, s) ==
  /\ \A t \in w : t.id \in 0..s /\ Honest(t, t.id, c) /\ (t.op # "T" => Fresh(t.on, w, s))
  /\ \A t, v \in w : t # v => t.id # v.id /\ t.uses \cap v.uses = {}
Covered(c, hs) == hs \subseteq Holdings /\ IsFiniteSet(hs) /\ (c.phase # "closed" => Amounts(hs) <= Cover(c))
(* The rest, which no step here endangers.                                 *)
FlightSet == [op : {"buy", "sell", "refund", "graduate"}, n : Nat, h : Nat, stage : {"load", "build"},
              tries : 0..Tries, knew : SUBSET Nat]
Marks ==
  /\ tip \in 1..MaxTip /\ (\E S : log \in Seq(S)) /\ Len(log) <= tip /\ spent \subseteq Nat
  /\ flight \in [Flights -> {Idle} \union FlightSet]
MarketInv ==
  /\ Marks /\ sends \in Nat
  /\ Legal(coin) /\ Fresh(coin.at, wait, sends) /\ Covered(coin, hold)
  /\ Waiting(wait, coin, sends)
  /\ Copy(ix, coin, wait, sends) /\ Copy(D, coin, wait, sends)

(* The invariant says what the run checks.                                 *)
LEMMA MarketInvMeans == MarketInv => TokensBacked
<1> SUFFICES ASSUME MarketInv PROVE TokensBacked
  OBVIOUS
<1>1. TypeOK
  <2>1. tip \in 1 .. MaxTip /\ Len(log) <= tip /\ sends \in Nat
    BY DEF MarketInv, Marks
  <2>2. coin.phase \in {"live", "graduated", "closed"} /\ coin.gbx \in Nat /\ coin.tokens \in Nat
    BY DEF MarketInv, Legal, CoinSet
  <2>3. \A h \in hold : h.who \in Others \union {Me} /\ h.amount \in Nat \ {0}
    BY DEF MarketInv, Covered, Holdings, Holders
  <2>4. \A t, w \in wait : t # w => t.uses \cap w.uses = {}
    BY DEF MarketInv, Waiting
  <2>5. \A f \in Flights : flight[f] = Idle \/ (flight[f].tries <= Tries /\ flight[f].stage \in {"load", "build"})
    BY MarketAssumption DEF MarketInv, Marks, FlightSet
  <2> QED
    BY <2>1, <2>2, <2>3, <2>4, <2>5 DEF TypeOK
<1>2. Backed
  <2>1. Sum(hold) = Amounts(hold) /\ Amounts(hold) \in Nat
    BY SumIsAmounts, AmountsOfHoldings DEF MarketInv, Covered
  <2>2. coin.phase # "closed" => Amounts(hold) <= Cover(coin)
    BY DEF MarketInv, Covered
  <2>3. coin.phase = "live" => Sum(hold) <= CurveTokensSold(coin.gbx)
    BY <2>1, <2>2 DEF Cover
  <2>4. coin.phase = "graduated" => Sum(hold) + coin.tokens <= CurveTokens + LpTokens
    <3>1. coin.tokens \in Nat /\ CurveTokens \in Nat /\ LpTokens \in Nat
      BY CurveAssumption DEF MarketInv, Legal, CoinSet
    <3>2. coin.phase = "graduated" => Amounts(hold) <= CurveTokens + LpTokens - coin.tokens
      BY <2>2 DEF Cover
    <3> QED
      BY <2>1, <3>1, <3>2
  <2> QED
    BY <2>3, <2>4 DEF Backed
<1> QED
  BY <1>1, <1>2 DEF TokensBacked

(* What is known of a transaction, and of a name, when others are sent.    *)
LEMMA Carried ==
  ASSUME NEW t, NEW id, NEW c, NEW e, Honest(t, id, c), t.op # "T" => (t.on # e.at \/ c = e)
  PROVE  Honest(t, id, e)
BY DEF Honest

LEMMA FreshLater ==
  ASSUME NEW n, NEW w, NEW v, NEW s \in Nat, NEW r \in Nat, s <= r, Fresh(n, w, s), v \subseteq w
  PROVE  Fresh(n, v, r)
BY DEF Fresh

LEMMA FreshStill ==
  ASSUME NEW n, NEW w, NEW s \in Nat, Fresh(n, w, s), NEW t, t.id = s + 1
  PROVE  Fresh(n, w \union {t}, s + 1)
<1>1. n \in 0..(s + 1) /\ n # s + 1
  BY DEF Fresh
<1> QED
  BY <1>1 DEF Fresh

(* Steps that leave the coin alone and send nothing.                       *)
LEMMA Quiet ==
  ASSUME MarketInv, Marks', coin' = coin, hold' = hold, sends' = sends, wait' \subseteq wait,
         ix' = ix \/ ix' = Chain, D' = D \/ D' = ix
  PROVE  MarketInv'
<1> USE DEF MarketInv
<1>1. Fresh(coin.at, wait', sends)
  BY FreshLater
<1>2. \A d : Copy(d, coin, wait, sends) => Copy(d, coin, wait', sends)
  BY FreshLater DEF Copy
<1>3. Copy(Chain, coin, wait, sends)
  BY DEF Copy, Chain
<1>4. Waiting(wait', coin, sends)
  BY FreshLater DEF Waiting
<1>5. Copy(ix', coin, wait', sends)
  BY <1>2, <1>3
<1>6. Copy(D', coin, wait', sends)
  BY <1>2
<1> QED
  BY <1>1, <1>4, <1>5, <1>6

(* A transaction goes out.                                                 *)
LEMMA Sends ==
  ASSUME MarketInv, Marks', coin' = coin, hold' = hold, ix' = ix, D' = D,
         NEW d \in {ix, D}, NEW t, MadeFrom(t, d), Accept(t), wait' = wait \union {t}, sends' = sends + 1
  PROVE  MarketInv'
<1> USE DEF MarketInv
<1>1. sends \in Nat /\ sends + 1 \in Nat /\ t.id = sends + 1 /\ t.id \in 0..(sends + 1)
  BY DEF MadeFrom
<1>2. Copy(d, coin, wait, sends)
  OBVIOUS
<1>3. \A n : Fresh(n, wait, sends) => Fresh(n, wait', sends')
  BY <1>1, FreshStill
<1>4. Honest(t, t.id, coin)
  BY <1>2, Carried DEF Copy, MadeFrom
<1>5. t.op # "T" => Fresh(t.on, wait', sends')
  BY <1>2, <1>3 DEF Copy, MadeFrom
<1>6. \A w \in wait : w.id # t.id /\ w.uses \cap t.uses = {}
  <2>1. \A w \in wait : w.uses \cap t.uses = {}
    BY DEF Accept, Rivals
  <2>2. \A w \in wait : w.id \in 0..sends
    BY DEF Waiting
  <2> QED
    BY <1>1, <2>1, <2>2
<1>7. Waiting(wait', coin, sends')
  <2>1. \A w \in wait' : w.id \in 0..sends' /\ Honest(w, w.id, coin) /\ (w.op # "T" => Fresh(w.on, wait', sends'))
    <3> SUFFICES ASSUME NEW w \in wait'
                 PROVE  w.id \in 0..sends' /\ Honest(w, w.id, coin) /\ (w.op # "T" => Fresh(w.on, wait', sends'))
      OBVIOUS
    <3>1. CASE w = t
      BY <1>1, <1>4, <1>5, <3>1
    <3>2. CASE w \in wait
      <4>1. w.id \in 0..sends /\ Honest(w, w.id, coin) /\ (w.op # "T" => Fresh(w.on, wait, sends))
        BY <3>2 DEF Waiting
      <4>2. w.id \in 0..(sends + 1)
        BY <1>1, <4>1
      <4> QED
        BY <1>3, <4>1, <4>2
    <3> QED
      BY <3>1, <3>2
  <2>2. \A w, v \in wait' : w # v => w.id # v.id /\ w.uses \cap v.uses = {}
    BY <1>6 DEF Waiting
  <2> QED
    BY <2>1, <2>2 DEF Waiting
<1>8. Copy(ix, coin, wait', sends') /\ Copy(D, coin, wait', sends') /\ Fresh(coin.at, wait', sends')
  BY <1>3 DEF Copy
<1> QED
  BY <1>1, <1>7, <1>8

(* A transaction is mined.                                                 *)
LEMMA MineKeeps ==
  ASSUME MarketInv, NEW t \in wait, Mine(t)
  PROVE  MarketInv'
<1> USE DEF MarketInv
<1>1. /\ tip < MaxTip /\ Spendable(t) /\ Allowed(t, tip + 1) /\ tip' = tip + 1 /\ wait' = wait \ {t}
      /\ coin' = IF t.op = "T" THEN coin ELSE [t.next EXCEPT !.at = t.id]
      /\ hold' = (hold \ t.uses) \union Tokens(t.id, t.gives)
      /\ ix' = ix /\ D' = D /\ flight' = flight /\ spent' = spent /\ sends' = sends
      /\ \E e : log' = Append(log, e)
  BY DEF Mine, Tokens, pageVars
<1>2. PICK A : A = hold \ t.uses
  OBVIOUS
<1>3. PICK B : B = Tokens(t.id, t.gives)
  OBVIOUS
<1>4. t.uses \subseteq hold /\ IsFiniteSet(t.uses) /\ t.uses \subseteq Holdings
  BY <1>1, FS_Subset DEF Spendable, Covered
<1>5. t.id \in 0..sends /\ Honest(t, t.id, coin) /\ \A w \in wait : w # t => w.id # t.id
  BY DEF Waiting
<1>6. B \subseteq Holdings /\ IsFiniteSet(B) /\ A \subseteq Holdings /\ IsFiniteSet(A)
  <2>1. B \subseteq Holdings /\ IsFiniteSet(B)
    BY <1>3, <1>4, <1>5 DEF Honest, Gives
  <2>2. A \subseteq Holdings /\ IsFiniteSet(A)
    BY <1>2, FS_Subset DEF Covered
  <2> QED
    BY <2>1, <2>2
<1>7. /\ hold' = A \union B /\ hold' \subseteq Holdings /\ IsFiniteSet(hold')
      /\ Amounts(hold') <= Amounts(A) + Amounts(B) /\ Amounts(A) \in Nat /\ Amounts(B) \in Nat /\ Amounts(hold') \in Nat
  <2>1. hold' = A \union B
    BY <1>1, <1>2, <1>3
  <2>2. \A p \in A \cup B : p.amount \in Nat
    BY <1>6 DEF Holdings
  <2>3. /\ Amounts(A \cup B) <= Amounts(A) + Amounts(B) /\ Amounts(A) \in Nat /\ Amounts(B) \in Nat
        /\ Amounts(A \cup B) \in Nat
    BY <1>6, <2>2, AmountsTogether
  <2> QED
    BY <1>6, <2>1, <2>3, FS_Union
<1>8. Amounts(hold) = Amounts(A) + Amounts(t.uses) /\ Amounts(t.uses) \in Nat /\ Amounts(hold) \in Nat
  <2>1. PICK U : U = t.uses
    OBVIOUS
  <2>2. A \cap U = {} /\ A \cup U = hold /\ IsFiniteSet(U) /\ U \subseteq Holdings
    BY <1>2, <1>4, <2>1
  <2>3. \A p \in A \cup U : p.amount \in Nat
    BY <1>6, <2>2 DEF Holdings
  <2>4. Amounts(A \cup U) = Amounts(A) + Amounts(U) /\ Amounts(A) \in Nat /\ Amounts(U) \in Nat
    BY <1>6, <2>2, <2>3, AmountsApart
  <2>5. Amounts(A \cup U) = Amounts(hold)
    BY <2>2
  <2> QED
    BY <2>1, <2>4, <2>5
<1>9. Legal(coin') /\ Covered(coin', hold')
  <2>1. CASE t.op = "T"
    <3>1. coin' = coin /\ Amounts(B) <= Amounts(t.uses)
      BY <1>1, <1>3, <1>4, <1>5, <2>1 DEF Honest
    <3>2. Amounts(hold') <= Amounts(hold)
      BY <1>7, <1>8, <3>1
    <3>3. coin.phase # "closed" => Amounts(hold) <= Cover(coin) /\ Cover(coin) \in Int
      BY CoverIsInt DEF Covered, Legal
    <3>4. coin.phase # "closed" => Amounts(hold') <= Cover(coin)
      BY <1>7, <1>8, <3>2, <3>3
    <3> QED
      BY <1>7, <3>1, <3>4 DEF Covered
  <2>2. CASE t.op # "T"
    <3>1. t.on = coin.at /\ coin.phase # "closed"
      BY <1>1, <2>2 DEF Spendable
    <3>2. Open(t.op, coin)
      BY <1>1, <3>1 DEF Open, Allowed
    <3>3. Keeps(t, t.id, coin)
      BY <1>4, <1>5, <2>2, <3>1, <3>2 DEF Honest
    <3>4. PICK c : c = t.next
      OBVIOUS
    <3>5. c \in CoinSet /\ Legal(c) /\ coin' = [c EXCEPT !.at = t.id] /\ t.id \in Nat
      BY <1>1, <1>5, <2>2, <3>3, <3>4 DEF Keeps, Legal
    <3>6. coin' \in CoinSet /\ coin'.phase = c.phase /\ coin'.gbx = c.gbx /\ coin'.tokens = c.tokens
      BY <3>5 DEF CoinSet
    <3>7. Legal(coin')
      BY <3>5, <3>6 DEF Legal
    <3>8. Cover(coin') = Cover(c)
      BY <3>6 DEF Cover
    <3>9. Amounts(hold) <= Cover(coin) /\ Cover(coin) \in Int /\ Cover(c) \in Int
      BY <3>1, <3>5, CoverIsInt DEF Covered, Legal
    <3>10. c.phase # "closed" => Cover(coin) + Amounts(B) <= Cover(c) + Amounts(t.uses)
      BY <1>3, <3>3, <3>4 DEF Keeps
    <3>11. c.phase # "closed" => Amounts(hold') <= Cover(c)
      BY <1>7, <1>8, <3>9, <3>10
    <3> QED
      BY <1>7, <3>6, <3>7, <3>8, <3>11 DEF Covered
  <2> QED
    BY <2>1, <2>2
<1>10. \A n : Fresh(n, wait, sends) => Fresh(n, wait', sends) /\ n # t.id
  BY <1>1 DEF Fresh
<1>11. Fresh(t.id, wait', sends)
  BY <1>1, <1>5 DEF Fresh
<1>12. coin' = coin \/ coin'.at = t.id
  <2>1. CASE t.op = "T"
    BY <1>1, <2>1
  <2>2. CASE t.op # "T"
    <3>1. t.next \in CoinSet
      <4>1. t.on = coin.at /\ Open(t.op, coin)
        BY <1>1, <2>2 DEF Spendable, Open, Allowed
      <4> QED
        BY <1>4, <1>5, <2>2, <4>1 DEF Honest, Keeps, Legal
    <3>2. coin' = [t.next EXCEPT !.at = t.id]
      BY <1>1, <2>2
    <3> QED
      BY <3>1, <3>2 DEF CoinSet
  <2> QED
    BY <2>1, <2>2
<1>13. Fresh(coin'.at, wait', sends)
  BY <1>10, <1>11, <1>12
<1>14. \A d : Copy(d, coin, wait, sends) => Copy(d, coin', wait', sends)
  BY <1>10, <1>12 DEF Copy
<1>15. Waiting(wait', coin', sends)
  <2>1. \A w \in wait' : w.id \in 0..sends /\ Honest(w, w.id, coin') /\ (w.op # "T" => Fresh(w.on, wait', sends))
    <3> SUFFICES ASSUME NEW w \in wait'
                 PROVE  w.id \in 0..sends /\ Honest(w, w.id, coin') /\ (w.op # "T" => Fresh(w.on, wait', sends))
      OBVIOUS
    <3>1. w \in wait /\ w.id \in 0..sends /\ Honest(w, w.id, coin) /\ (w.op # "T" => Fresh(w.on, wait, sends))
      BY <1>1 DEF Waiting
    <3>2. w.op # "T" => (w.on # coin'.at \/ coin = coin')
      BY <1>10, <1>12, <3>1
    <3>3. Honest(w, w.id, coin')
      BY <3>1, <3>2, Carried
    <3> QED
      BY <1>10, <3>1, <3>3
  <2>2. \A w, v \in wait' : w # v => w.id # v.id /\ w.uses \cap v.uses = {}
    BY <1>1 DEF Waiting
  <2> QED
    BY <2>1, <2>2 DEF Waiting
<1>16. Marks'
  <2>1. tip' \in 1..MaxTip
    BY <1>1, MarketAssumption DEF Marks
  <2>2. (\E S : log' \in Seq(S)) /\ Len(log') <= tip'
    <3>1. PICK e : log' = Append(log, e)
      BY <1>1
    <3>2. PICK S : log \in Seq(S)
      BY DEF Marks
    <3>3. PICK R : R = S \union {e}
      OBVIOUS
    <3>4. log \in Seq(R) /\ e \in R
      BY <3>2, <3>3
    <3>5. log' \in Seq(R) /\ Len(log') = Len(log) + 1 /\ Len(log) \in Nat
      BY <3>1, <3>4
    <3>6. Len(log) <= tip /\ tip \in Nat
      BY DEF Marks
    <3> QED
      BY <1>1, <3>5, <3>6
  <2> QED
    BY <1>1, <2>1, <2>2 DEF Marks
<1> QED
  BY <1>1, <1>9, <1>13, <1>14, <1>15, <1>16

(* The first buy gives what it sells.                                      *)
LEMMA MarketStarts == Init => MarketInv
<1> SUFFICES ASSUME Init PROVE MarketInv
  OBVIOUS
<1>1. Born \in QuoteBuy(0, DevBuy) /\ DevBuy \in Nat
  BY MarketAssumption DEF Born
<1>2. DevBuy - CurveFee(DevBuy) \in Int
  BY <1>1, FeeIsInt
<1>3. PICK o \in CurveBuy(0, DevBuy - CurveFee(DevBuy)) :
        Born.tokens = o.tokens /\ Born.reserve = o.reserve /\ Born.net = DevBuy - CurveFee(DevBuy)
  BY <1>1 DEF QuoteBuy
<1>4. /\ Born.reserve \in Nat /\ Born.tokens \in Nat \ {0} /\ Born.net \in Int
      /\ CurveTokensSold(Born.reserve) = CurveTokensSold(0) + Born.tokens
      /\ CurveTokensSold(Born.reserve) <= CurveTokens
  BY <1>2, <1>3, BuyCovers
<1>5. CurveTokensSold(0) = 0
  <2>1. CurveTokensSold(0) = VTokens - K \div (VGbx + 0)
    BY DEF CurveTokensSold
  <2>2. VGbx \in Nat \ {0} /\ VTokens \in Nat /\ VGbx + 0 = VGbx
    BY CurveAssumption
  <2>3. (VGbx * VTokens) \div VGbx = VTokens
    <3>1. VGbx * VTokens \in Nat
      BY <2>2
    <3>2. PICK q : q = (VGbx * VTokens) \div VGbx
      OBVIOUS
    <3>3. q \in Nat /\ VGbx * q <= VGbx * VTokens
      BY <2>2, <3>1, <3>2, FloorBounds
    <3>4. VTokens <= q
      BY <2>2, <3>1, <3>2, FloorIsLargest
    <3>5. (VGbx * VTokens) \div VGbx <= VTokens
      <4>1. VGbx * VTokens < VGbx * VTokens + VGbx
        BY <2>2, <3>1
      <4> QED
        BY <2>2, <3>1, <4>1, FloorLess
    <3> QED
      BY <2>2, <3>2, <3>3, <3>4, <3>5
  <2> QED
    BY <2>1, <2>2, <2>3 DEF K
<1>6. Legal(coin) /\ coin.at = 1 /\ coin.phase = "live" /\ coin.gbx = Born.reserve
  <2>1. coin = [phase |-> "live", at |-> 1, gbx |-> Born.reserve, tokens |-> 0, m |-> Born.net, hM |-> 1]
    BY DEF Init
  <2>2. coin \in CoinSet
    BY <1>4, <2>1 DEF CoinSet
  <2> QED
    BY <1>4, <2>1, <2>2 DEF Legal
<1>7. sends = 1 /\ wait = {} /\ ix = Chain /\ D = Chain /\ Chain.coin = coin
  BY DEF Init, Chain
<1>8. Fresh(coin.at, wait, sends)
  BY <1>6, <1>7 DEF Fresh
<1>9. Copy(Chain, coin, wait, sends)
  BY <1>6, <1>7, <1>8 DEF Copy
<1>10. Waiting(wait, coin, sends)
  BY <1>7 DEF Waiting
<1>11. Covered(coin, hold)
  <2>1. PICK x : x = [id |-> 1, who |-> Creator, amount |-> Born.tokens]
    OBVIOUS
  <2>2. x \in Holdings /\ x.amount = Born.tokens /\ hold = {x}
    BY <1>4, <2>1, MarketAssumption DEF Init, Holdings, Holders
  <2>3. Amounts({x}) = Born.tokens /\ IsFiniteSet({x})
    <3>1. x.amount \in Int
      BY <1>4, <2>2
    <3> QED
      BY <2>2, <3>1, OneAmount, FS_Singleton
  <2>4. Cover(coin) = Born.tokens
    BY <1>4, <1>5, <1>6 DEF Cover
  <2> QED
    BY <1>4, <2>2, <2>3, <2>4 DEF Covered
<1>12. Marks
  <2>1. tip = 1 /\ spent = {} /\ flight = [f \in Flights |-> Idle] /\ \E e : log = <<e>>
    BY DEF Init
  <2>2. tip \in 1..MaxTip
    BY <2>1, MarketAssumption
  <2>3. (\E S : log \in Seq(S)) /\ Len(log) <= tip
    <3>1. PICK e : log = <<e>>
      BY <2>1
    <3>2. PICK S : S = {e}
      OBVIOUS
    <3> QED
      BY <2>1, <3>1, <3>2
  <2> QED
    BY <2>1, <2>2, <2>3 DEF Marks
<1> QED
  BY <1>6, <1>7, <1>8, <1>9, <1>10, <1>11, <1>12 DEF MarketInv
-----------------------------------------------------------------------------
(* What a press builds, and what goes out elsewhere.                       *)
LEMMA BuiltFromCopy ==
  ASSUME MarketInv, NEW f \in Flights, flight[f] # Idle, NEW t \in Built(f)
  PROVE  MadeFrom(t, D) /\ t.on = D.coin.at
<1>1. PICK p : p = flight[f]
  OBVIOUS
<1>2. p \in FlightSet /\ p.n \in Nat /\ p.h - 1 \in Int /\ Legal(D.coin) /\ sends \in Nat /\ sends + 1 \in Nat
  BY <1>1 DEF MarketInv, Marks, FlightSet, Copy
<1>3. PICK own : own = Largest(D, Me)
  OBVIOUS
<1>4. PICK n : n = IF p.n = 0 THEN own.amount ELSE p.n
  OBVIOUS
<1>5. own \in Holdings => n \in Nat
  BY <1>2, <1>4 DEF Holdings
<1>6. PICK txs : txs = CASE p.op = "buy" -> Bought(Me, D, p.h - 1, p.n)
          [] p.op = "sell" -> IF own = None THEN {} ELSE Sold(Me, D, p.h - 1, own, n)
          [] p.op = "refund" -> IF held = None THEN {} ELSE RefundTx(Me, D, held)
          [] p.op = "graduate" -> GraduateTx(Me, D)
  OBVIOUS
<1>7. t \in Named(txs, p.h, p.knew)
  BY <1>1, <1>3, <1>4, <1>6 DEF Built
<1>8. PICK r \in txs : Alike(t, r) /\ t.id = sends + 1
  BY <1>7, NamedAlike
<1>9. Me \in Holders
  BY DEF Holders
<1>10. r.on = D.coin.at /\ Honest(r, sends + 1, D.coin)
  <2>1. CASE p.op = "buy"
    <3>1. r \in Bought(Me, D, p.h - 1, p.n) /\ p.n \in Int
      BY <1>2, <1>6, <1>8, <2>1
    <3> QED
      BY <1>2, <1>9, <3>1, BoughtHonest
  <2>2. CASE p.op = "sell"
    <3>1. r \in Sold(Me, D, p.h - 1, own, n)
      BY <1>6, <1>8, <2>2
    <3> QED
      BY <1>2, <1>5, <1>9, <3>1, SoldHonest
  <2>3. CASE p.op = "refund"
    <3>1. r \in RefundTx(Me, D, held)
      BY <1>6, <1>8, <2>3
    <3> QED
      BY <1>2, <3>1, RefundHonest
  <2>4. CASE p.op = "graduate"
    <3>1. r \in GraduateTx(Me, D)
      BY <1>6, <1>8, <2>4
    <3> QED
      BY <1>2, <3>1, GraduateHonest
  <2>5. p.op \in {"buy", "sell", "refund", "graduate"}
    BY <1>2 DEF FlightSet
  <2> QED
    BY <2>1, <2>2, <2>3, <2>4, <2>5
<1>11. t.on = D.coin.at
  BY <1>8, <1>10 DEF Alike
<1> QED
  BY <1>8, <1>10, <1>11, AlikeHonest

(* What others send goes out from the index.                               *)
LEMMA ElsewhereKeeps == ASSUME MarketInv, Elsewhere PROVE MarketInv'
<1>1. PICK u \in Others :
       LET own == Largest(ix, u) IN
       \E t \in Named((UNION {Bought(u, ix, tip, n) : n \in Gross}) \union GraduateTx(u, ix)
                       \union SendTx(u, ix, Me, 1) \union SendTx(Me, ix, u, 1)
                       \union IF own = None THEN {} ELSE Sold(u, ix, tip, own, own.amount) \union RefundTx(u, ix, own),
                     tip + 1, {}) :
         Accept(t) /\ wait' = wait \union {t}
  BY DEF Elsewhere
<1>2. PICK own : own = Largest(ix, u)
  OBVIOUS
<1>3. PICK txs : txs = (UNION {Bought(u, ix, tip, n) : n \in Gross}) \union GraduateTx(u, ix)
                       \union SendTx(u, ix, Me, 1) \union SendTx(Me, ix, u, 1)
                       \union IF own = None THEN {} ELSE Sold(u, ix, tip, own, own.amount) \union RefundTx(u, ix, own)
  OBVIOUS
<1>4. PICK t \in Named(txs, tip + 1, {}) : Accept(t) /\ wait' = wait \union {t}
  BY <1>1, <1>2, <1>3
<1>5. PICK r \in txs : Alike(t, r) /\ t.id = sends + 1
  BY <1>4, NamedAlike
<1>6. u \in Holders /\ Me \in Holders /\ Legal(ix.coin) /\ tip \in Int /\ sends + 1 \in Nat
  BY DEF Holders, MarketInv, Marks, Copy
<1>7. Honest(r, sends + 1, ix.coin) /\ (r.op # "T" => r.on = ix.coin.at)
  <2>1. CASE \E n \in Gross : r \in Bought(u, ix, tip, n)
    <3>1. PICK n \in Gross : r \in Bought(u, ix, tip, n)
      BY <2>1
    <3>2. n \in Int
      BY MarketAssumption
    <3> QED
      BY <1>6, <3>1, <3>2, BoughtHonest
  <2>2. CASE r \in GraduateTx(u, ix)
    BY <1>6, <2>2, GraduateHonest
  <2>3. CASE r \in SendTx(u, ix, Me, 1)
    BY <1>6, <2>3, SendHonest
  <2>4. CASE r \in SendTx(Me, ix, u, 1)
    BY <1>6, <2>4, SendHonest
  <2>5. CASE r \in Sold(u, ix, tip, own, own.amount)
    <3>1. own \in Holdings => own.amount \in Nat
      BY DEF Holdings
    <3> QED
      BY <1>6, <2>5, <3>1, SoldHonest
  <2>6. CASE r \in RefundTx(u, ix, own)
    BY <1>6, <2>6, RefundHonest
  <2>7. PICK U : U = UNION {Bought(u, ix, tip, n) : n \in Gross}
    OBVIOUS
  <2>8. PICK Q : Q = IF own = None THEN {} ELSE Sold(u, ix, tip, own, own.amount) \union RefundTx(u, ix, own)
    OBVIOUS
  <2>9. r \in U \/ r \in GraduateTx(u, ix) \/ r \in SendTx(u, ix, Me, 1) \/ r \in SendTx(Me, ix, u, 1) \/ r \in Q
    BY <1>3, <1>5, <2>7, <2>8
  <2>10. r \in U => \E n \in Gross : r \in Bought(u, ix, tip, n)
    BY <2>7
  <2>11. r \in Q => r \in Sold(u, ix, tip, own, own.amount) \/ r \in RefundTx(u, ix, own)
    BY <2>8
  <2> QED
    BY <2>1, <2>2, <2>3, <2>4, <2>5, <2>6, <2>9, <2>10, <2>11
<1>8. MadeFrom(t, ix)
  BY <1>5, <1>7, AlikeHonest
<1>9. /\ coin' = coin /\ hold' = hold /\ ix' = ix /\ D' = D /\ sends' = sends + 1
      /\ tip' = tip /\ log' = log /\ spent' = spent /\ flight' = flight
  BY DEF Elsewhere, chainVars, pageVars
<1>10. Marks'
  BY <1>9 DEF MarketInv, Marks
<1> QED
  BY <1>4, <1>8, <1>9, <1>10, Sends

(* The presses.                                                            *)
LEMMA EndsTyped ==
  ASSUME MarketInv, NEW f \in Flights
  PROVE  [flight EXCEPT ![f] = Idle] \in [Flights -> {Idle} \union FlightSet]
BY DEF MarketInv, Marks

LEMMA PressKeeps ==
  ASSUME MarketInv, NEW f \in Flights, NEW op \in {"buy", "sell", "refund", "graduate"}, NEW n \in Nat, Press(f, op, n)
  PROVE  MarketInv'
<1>1. /\ coin' = coin /\ hold' = hold /\ ix' = ix /\ D' = D /\ sends' = sends /\ wait' = wait
      /\ tip' = tip /\ log' = log /\ spent' = spent
      /\ flight' = [flight EXCEPT ![f] = [op |-> op, n |-> n, h |-> tip + 1, stage |-> "load", tries |-> 0, knew |-> {}]]
  BY DEF Press, chainVars
<1>2. PICK p : p = [op |-> op, n |-> n, h |-> tip + 1, stage |-> "load", tries |-> 0, knew |-> {}]
  OBVIOUS
<1>3. tip + 1 \in Nat /\ 0 \in 0..Tries
  BY MarketAssumption DEF MarketInv, Marks
<1>4. p \in FlightSet
  BY <1>2, <1>3 DEF FlightSet
<1>5. Marks'
  BY <1>1, <1>2, <1>4 DEF MarketInv, Marks
<1> QED
  BY <1>1, <1>5, Quiet

LEMMA LoadKeeps == ASSUME MarketInv, NEW f \in Flights, Load(f) PROVE MarketInv'
<1>1. /\ coin' = coin /\ hold' = hold /\ ix' = ix /\ D' = ix /\ sends' = sends /\ wait' = wait
      /\ tip' = tip /\ log' = log /\ spent' = spent
  BY DEF Load, chainVars
<1>2. PICK p : p = flight[f]
  OBVIOUS
<1>3. p \in FlightSet /\ flight \in [Flights -> {Idle} \union FlightSet] /\ spent \subseteq Nat
  BY <1>2 DEF MarketInv, Marks, Load
<1>4. p.tries \in 0..Tries /\ Tries \in Nat
  BY <1>3, MarketAssumption DEF FlightSet
<1>5. flight' \in [Flights -> {Idle} \union FlightSet]
  <2>1. CASE Busy(f) /\ Patient(f)
    <3>1. flight' = [flight EXCEPT ![f].tries = @ + 1]
      BY <2>1 DEF Load
    <3>2. p.tries < Tries
      BY <1>2, <2>1 DEF Patient
    <3>3. PICK m : m = p.tries + 1
      OBVIOUS
    <3>4. m \in 0..Tries
      BY <1>4, <3>2, <3>3
    <3>5. PICK q : q = [p EXCEPT !.tries = m]
      OBVIOUS
    <3>6. q \in FlightSet
      BY <1>3, <3>4, <3>5 DEF FlightSet
    <3>7. flight' = [flight EXCEPT ![f] = q]
      BY <1>2, <1>3, <3>1, <3>3, <3>5
    <3> QED
      BY <1>3, <3>6, <3>7
  <2>2. CASE Busy(f) /\ ~Patient(f)
    <3>1. flight' = [flight EXCEPT ![f] = Idle]
      BY <2>2 DEF Load, Ends
    <3> QED
      BY <3>1, EndsTyped
  <2>3. CASE ~Busy(f)
    <3>1. flight' = [flight EXCEPT ![f].stage = "build", ![f].knew = spent]
      BY <2>3 DEF Load
    <3>2. PICK q : q = [p EXCEPT !.stage = "build", !.knew = spent]
      OBVIOUS
    <3>3. q \in FlightSet
      BY <1>3, <3>2 DEF FlightSet
    <3>4. flight' = [flight EXCEPT ![f] = q]
      BY <1>2, <1>3, <3>1, <3>2
    <3> QED
      BY <1>3, <3>3, <3>4
  <2> QED
    BY <2>1, <2>2, <2>3
<1>6. Marks'
  BY <1>1, <1>5 DEF MarketInv, Marks
<1> QED
  BY <1>1, <1>6, Quiet

LEMMA SubmitKeeps == ASSUME MarketInv, NEW f \in Flights, Submit(f) PROVE MarketInv'
<1>1. /\ coin' = coin /\ hold' = hold /\ ix' = ix /\ D' = D /\ tip' = tip /\ log' = log
      /\ flight[f] # Idle /\ flight' = [flight EXCEPT ![f] = Idle]
  BY DEF Submit, Ends, chainVars
<1>2. flight' \in [Flights -> {Idle} \union FlightSet]
  BY <1>1, EndsTyped
<1>3. PICK t \in Built(f) :
        \/ /\ Accept(t) /\ wait' = wait \union {t} /\ sends' = sends + 1
           /\ spent' = spent \/ spent' = spent \union {t.on}
        \/ wait' = wait /\ sends' = sends /\ spent' = spent
  BY DEF Submit
<1>4. MadeFrom(t, D) /\ t.on = D.coin.at
  BY <1>1, BuiltFromCopy
<1>5. CASE wait' = wait /\ sends' = sends /\ spent' = spent
  <2>1. Marks'
    BY <1>1, <1>2, <1>5 DEF MarketInv, Marks
  <2> QED
    BY <1>1, <1>5, <2>1, Quiet
<1>6. CASE /\ Accept(t) /\ wait' = wait \union {t} /\ sends' = sends + 1
           /\ spent' = spent \/ spent' = spent \union {t.on}
  <2>1. t.on \in Nat
    BY <1>4 DEF MarketInv, Copy, Fresh
  <2>2. Marks'
    BY <1>1, <1>2, <1>6, <2>1 DEF MarketInv, Marks
  <2> QED
    BY <1>1, <1>4, <1>6, <2>2, Sends
<1> QED
  BY <1>3, <1>5, <1>6

(* Every step keeps the invariant.                                         *)
LEMMA MarketStep == ASSUME MarketInv, [Next]_vars PROVE MarketInv'
<1>1. ASSUME NEW f \in Flights, NEW n \in Gross, Press(f, "buy", n) PROVE MarketInv'
  BY <1>1, PressKeeps, MarketAssumption
<1>2. ASSUME NEW f \in Flights, NEW n \in {0, 1}, Press(f, "sell", n) PROVE MarketInv'
  <2>1. n \in Nat
    OBVIOUS
  <2> QED
    BY <1>2, <2>1, PressKeeps
<1>3. ASSUME NEW f \in Flights, NEW op \in {"refund", "graduate"}, Press(f, op, 0) PROVE MarketInv'
  <2>1. op \in {"buy", "sell", "refund", "graduate"} /\ 0 \in Nat
    OBVIOUS
  <2> QED
    BY <1>3, <2>1, PressKeeps
<1>4. ASSUME NEW f \in Flights, Load(f) PROVE MarketInv'
  BY <1>4, LoadKeeps
<1>5. ASSUME NEW f \in Flights, Submit(f) PROVE MarketInv'
  BY <1>5, SubmitKeeps
<1>6. ASSUME NEW f \in Flights, Fail(f) PROVE MarketInv'
  <2>1. /\ coin' = coin /\ hold' = hold /\ ix' = ix /\ D' = D /\ sends' = sends /\ wait' = wait
        /\ tip' = tip /\ log' = log /\ spent' = spent /\ flight' = [flight EXCEPT ![f] = Idle]
    BY <1>6 DEF Fail, Ends, chainVars
  <2>2. Marks'
    BY <2>1, EndsTyped DEF MarketInv, Marks
  <2> QED
    BY <2>1, <2>2, Quiet
<1>7. ASSUME NEW t \in wait, Mine(t) PROVE MarketInv'
  BY <1>7, MineKeeps
<1>8. ASSUME NEW t \in wait, Evict(t) PROVE MarketInv'
  <2>1. /\ coin' = coin /\ hold' = hold /\ ix' = ix /\ D' = D /\ sends' = sends /\ wait' \subseteq wait
        /\ tip' = tip /\ log' = log /\ spent' = spent /\ flight' = flight
    BY <1>8 DEF Evict, chainVars, pageVars
  <2>2. Marks'
    BY <2>1 DEF MarketInv, Marks
  <2> QED
    BY <2>1, <2>2, Quiet
<1>9. CASE Block
  <2>1. /\ coin' = coin /\ hold' = hold /\ ix' = ix /\ D' = D /\ sends' = sends /\ wait' = wait
        /\ tip < MaxTip /\ tip' = tip + 1 /\ log' = log /\ spent' = spent /\ flight' = flight
    BY <1>9 DEF Block, pageVars
  <2>2. tip' \in 1..MaxTip /\ Len(log') <= tip'
    <3>1. tip \in 1..MaxTip /\ Len(log) <= tip /\ MaxTip \in Nat /\ Len(log) \in Int
      BY MarketAssumption DEF MarketInv, Marks
    <3> QED
      BY <2>1, <3>1
  <2>3. Marks'
    BY <2>1, <2>2 DEF MarketInv, Marks
  <2> QED
    BY <2>1, <2>3, Quiet
<1>10. CASE Scan
  <2>1. /\ coin' = coin /\ hold' = hold /\ ix' = Chain /\ D' = D /\ sends' = sends /\ wait' = wait
        /\ tip' = tip /\ log' = log /\ spent' = spent /\ flight' = flight
    BY <1>10 DEF Scan, chainVars, pageVars
  <2>2. Marks'
    BY <2>1 DEF MarketInv, Marks
  <2> QED
    BY <2>1, <2>2, Quiet
<1>11. CASE Refresh
  <2>1. /\ coin' = coin /\ hold' = hold /\ ix' = ix /\ D' = ix /\ sends' = sends /\ wait' = wait
        /\ tip' = tip /\ log' = log /\ spent' = spent /\ flight' = flight
    BY <1>11 DEF Refresh, chainVars
  <2>2. Marks'
    BY <2>1 DEF MarketInv, Marks
  <2> QED
    BY <2>1, <2>2, Quiet
<1>12. CASE Elsewhere
  BY <1>12, ElsewhereKeeps
<1>13. CASE UNCHANGED vars
  <2>1. /\ coin' = coin /\ hold' = hold /\ ix' = ix /\ D' = D /\ sends' = sends /\ wait' = wait
        /\ tip' = tip /\ log' = log /\ spent' = spent /\ flight' = flight
    BY <1>13 DEF vars, chainVars, pageVars
  <2>2. Marks'
    BY <2>1 DEF MarketInv, Marks
  <2> QED
    BY <2>1, <2>2, Quiet
<1> QED
  BY <1>1, <1>2, <1>3, <1>4, <1>5, <1>6, <1>7, <1>8, <1>9, <1>10, <1>11, <1>12, <1>13 DEF Next

(* No token without its market (curveTokensSold and curveBuy of            *)
(* gbx-curve.mjs, the pro-rata refund and pool_tokens of                   *)
(* gbx-launchpad-flow.mjs): whatever traders do with copies of the chain   *)
(* that are out of date, however transactions overtake each other, what    *)
(* holders have never exceeds what the curve has sold, nor, after          *)
(* graduation, what the pool does not hold.                                *)
THEOREM EveryTokenHasItsMarket == Spec => []TokensBacked
<1>1. MarketInv /\ [Next]_vars => MarketInv'
  BY MarketStep
<1> QED
  BY <1>1, MarketStarts, MarketInvMeans, PTL DEF Spec
-----------------------------------------------------------------------------
(* The page, the index and the node agree (Launchpad.tla).                 *)
(* The memory a trade declares is the one the curve's own rule gives at    *)
(* the height the trade was built for.                                     *)
Declares(t, c, h) ==
  /\ t.moved \in Nat \ {0}
  /\ t.next.m = NextM(c.m, c.hM, t.moved, h).m /\ t.next.hM = NextM(c.m, c.hM, t.moved, h).hM
TradeOf(t, c, h) == t.op \in {"B", "S"} /\ t.uses \subseteq Holdings => c.phase # "graduated" /\ Declares(t, c, h)

LEMMA RemembersWhat ==
  ASSUME NEW c \in CoinSet, NEW r \in Nat, NEW trade \in Int, NEW h \in Int, NEW e, e = [c EXCEPT !.gbx = r]
  PROVE  /\ Remembers(e, trade, h).m = NextM(c.m, c.hM, trade, h).m
         /\ Remembers(e, trade, h).hM = NextM(c.m, c.hM, trade, h).hM
<1>1. e \in CoinSet /\ e.m = c.m /\ e.hM = c.hM
  BY DEF CoinSet
<1>2. PICK n : n = NextM(c.m, c.hM, trade, h)
  OBVIOUS
<1>3. Remembers(e, trade, h) = [e EXCEPT !.m = n.m, !.hM = n.hM]
  BY <1>1, <1>2 DEF Remembers
<1> QED
  BY <1>1, <1>2, <1>3 DEF CoinSet

LEMMA BuyDeclares ==
  ASSUME NEW d, Legal(d.coin), NEW u, NEW h \in Int, NEW gross \in Int, NEW t \in BuyTx(u, d, h, gross)
  PROVE  Declares(t, d.coin, h + 1)
<1>1. PICK q \in QuoteBuy(d.coin.gbx, gross) :
        t = [op |-> "B", by |-> u, on |-> d.coin.at, uses |-> {}, gives |-> {<<u, q.tokens>>}, burn |-> q.fee,
             amount |-> gross, out |-> q.tokens, moved |-> q.net,
             next |-> Remembers([d.coin EXCEPT !.gbx = q.reserve], q.net, h + 1)]
  BY ZenonT(30) DEF BuyTx
<1>2. t.moved = q.net /\ t.next = Remembers([d.coin EXCEPT !.gbx = q.reserve], q.net, h + 1)
  BY <1>1
<1>3. gross - CurveFee(gross) \in Int /\ d.coin \in CoinSet /\ d.coin.gbx \in Nat
  BY FeeIsInt DEF Legal, CoinSet
<1>4. PICK o \in CurveBuy(d.coin.gbx, gross - CurveFee(gross)) : q.reserve = o.reserve /\ q.net = gross - CurveFee(gross)
  BY DEF QuoteBuy
<1>5. q.reserve \in Nat
  BY <1>3, <1>4, BuyCovers
<1>6. q.net > 0
  BY <1>4 DEF CurveBuy
<1>7. q.net \in Nat \ {0} /\ h + 1 \in Int
  BY <1>3, <1>4, <1>6
<1> QED
  BY <1>2, <1>3, <1>5, <1>7, RemembersWhat DEF Declares

(* A sale always releases something: the floor is less than what was there.*)
LEMMA SellReleases ==
  ASSUME NEW r \in Nat, NEW n \in Nat, NEW o \in CurveSell(r, n)
  PROVE  o.gbx \in Nat \ {0}
<1>1. PICK cur : cur = VGbx + r
  OBVIOUS
<1>2. PICK left : left = K \div cur
  OBVIOUS
<1>3. PICK back : back = left + n
  OBVIOUS
<1>4. PICK q : q = K \div back
  OBVIOUS
<1>5. o.gbx = (IF cur - q > r THEN r ELSE cur - q) /\ n > 0 /\ r > 0
  BY <1>1, <1>2, <1>3, <1>4 DEF CurveSell
<1>6. cur \in Nat \ {0} /\ left \in Nat /\ K \in Nat
  BY <1>1, <1>2, SoldIsInt
<1>7. back \in Nat \ {0} /\ back >= left + 1
  BY <1>3, <1>5, <1>6
<1>8. q \in Nat /\ back * q <= K
  BY <1>4, <1>6, <1>7, FloorBounds
<1>9. K < cur * left + cur
  BY <1>2, <1>6, FloorBounds
<1>10. ASSUME cur <= q PROVE FALSE
  <2>1. PICK a : a = left + 1
    OBVIOUS
  <2>2. a \in Nat /\ a <= back /\ cur * left + cur = a * cur
    BY <1>6, <1>7, <2>1
  <2>3. a * cur <= back * cur
    BY <1>6, <1>7, <2>2
  <2>4. back * cur <= back * q
    BY <1>6, <1>7, <1>8, <1>10
  <2>5. a * cur \in Nat /\ back * cur \in Nat /\ back * q \in Nat
    BY <1>6, <1>7, <1>8, <2>2
  <2> QED
    BY <1>6, <1>8, <1>9, <2>2, <2>3, <2>4, <2>5
<1> QED
  BY <1>5, <1>6, <1>8, <1>10

LEMMA SellDeclares ==
  ASSUME NEW d, Legal(d.coin), NEW u, NEW h \in Int, NEW x, NEW n, x \in Holdings => n \in Nat, NEW t \in SellTx(u, d, h, x, n)
  PROVE  t.op = "S" /\ (t.uses \subseteq Holdings => Declares(t, d.coin, h + 1))
<1>1. PICK q \in QuoteSell(d.coin.gbx, n) :
        /\ n <= x.amount
        /\ t.op = "S" /\ t.uses = {x} /\ t.moved = q.gross
        /\ t.next = Remembers([d.coin EXCEPT !.gbx = q.reserve], q.gross, h + 1)
  BY DEF SellTx
<1> SUFFICES ASSUME x \in Holdings PROVE Declares(t, d.coin, h + 1)
  BY <1>1
<1>2. d.coin \in CoinSet /\ d.coin.gbx \in Nat /\ n \in Nat
  BY DEF Legal, CoinSet
<1>3. PICK o \in CurveSell(d.coin.gbx, n) : q.gross = o.gbx /\ q.reserve = o.reserve
  BY DEF QuoteSell
<1>4. q.gross \in Nat \ {0} /\ q.reserve \in Nat /\ h + 1 \in Int
  BY <1>2, <1>3, SellCovers, SellReleases
<1> QED
  BY <1>1, <1>2, <1>4, RemembersWhat DEF Declares

LEMMA BoughtTrade ==
  ASSUME NEW d, Legal(d.coin), NEW u \in Holders, NEW h \in Int, NEW gross \in Int, NEW t \in Bought(u, d, h, gross)
  PROVE  t.op \in {"B", "P"} /\ TradeOf(t, d.coin, h + 1)
<1>1. CASE d.coin.phase = "graduated"
  <2>1. t.op = "P"
    BY <1>1, PoolBuyHonest DEF Bought
  <2> QED
    BY <2>1 DEF TradeOf
<1>2. CASE d.coin.phase # "graduated"
  <2>1. t \in BuyTx(u, d, h, gross)
    BY <1>2 DEF Bought
  <2>2. t.op = "B" /\ Declares(t, d.coin, h + 1)
    <3>1. t.op = "B"
      BY <2>1, BuyHonest
    <3> QED
      BY <2>1, <3>1, BuyDeclares
  <2> QED
    BY <1>2, <2>2 DEF TradeOf
<1> QED
  BY <1>1, <1>2

LEMMA SoldTrade ==
  ASSUME NEW d, Legal(d.coin), NEW u \in Holders, NEW h \in Int, NEW x, NEW n, x \in Holdings => n \in Nat, NEW t \in Sold(u, d, h, x, n)
  PROVE  t.op \in {"S", "Q"} /\ TradeOf(t, d.coin, h + 1)
<1>1. CASE d.coin.phase = "graduated"
  <2>1. t.op = "Q"
    BY <1>1, PoolSellHonest DEF Sold
  <2> QED
    BY <2>1 DEF TradeOf
<1>2. CASE d.coin.phase # "graduated"
  <2>1. t \in SellTx(u, d, h, x, n)
    BY <1>2 DEF Sold
  <2>2. t.op = "S" /\ (t.uses \subseteq Holdings => Declares(t, d.coin, h + 1))
    BY <2>1, SellDeclares
  <2> QED
    BY <1>2, <2>2 DEF TradeOf
<1> QED
  BY <1>1, <1>2

Swaps == {"B", "S", "P", "Q"}
(* What a transaction on its way is, beside what MarketInv knows of it.    *)
LEMMA NamedWith ==
  ASSUME NEW txs, NEW h, NEW knew, NEW t \in Named(txs, h, knew)
  PROVE  /\ t.id = sends + 1 /\ t.h = h /\ t.knew = knew
         /\ \E r \in txs : Alike(t, r) /\ t.moved = r.moved
BY DEF Named, Alike

LEMMA AlikeTrade ==
  ASSUME NEW t, NEW r, Alike(t, r), t.moved = r.moved, NEW c, NEW h, TradeOf(r, c, h)
  PROVE  TradeOf(t, c, h)
BY DEF Alike, TradeOf, Declares

(* What the page builds.                                                   *)
LEMMA BuiltTrade ==
  ASSUME MarketInv, NEW f \in Flights, flight[f] # Idle, NEW t \in Built(f)
  PROVE  /\ t.h = flight[f].h /\ t.knew = flight[f].knew /\ t.op # "T" /\ TradeOf(t, D.coin, t.h)
         /\ t.op \in Swaps => flight[f].op \in Trades
<1>1. PICK p : p = flight[f]
  OBVIOUS
<1>2. p \in FlightSet /\ p.n \in Nat /\ p.h \in Nat /\ Legal(D.coin)
  BY <1>1 DEF MarketInv, Marks, FlightSet, Copy
<1>3. PICK own : own = Largest(D, Me)
  OBVIOUS
<1>4. PICK n : n = IF p.n = 0 THEN own.amount ELSE p.n
  OBVIOUS
<1>5. own \in Holdings => n \in Nat
  BY <1>2, <1>4 DEF Holdings
<1>6. PICK txs : txs = CASE p.op = "buy" -> Bought(Me, D, p.h - 1, p.n)
          [] p.op = "sell" -> IF own = None THEN {} ELSE Sold(Me, D, p.h - 1, own, n)
          [] p.op = "refund" -> IF held = None THEN {} ELSE RefundTx(Me, D, held)
          [] p.op = "graduate" -> GraduateTx(Me, D)
  OBVIOUS
<1>7. t \in Named(txs, p.h, p.knew)
  BY <1>1, <1>3, <1>4, <1>6 DEF Built
<1>8. t.h = p.h /\ t.knew = p.knew
  BY <1>7, NamedWith
<1>9. PICK r \in txs : Alike(t, r) /\ t.moved = r.moved
  BY <1>7, NamedWith
<1>10. PICK k : k = p.h - 1
  OBVIOUS
<1>11. Me \in Holders /\ k \in Int /\ k + 1 = p.h /\ p.n \in Int
  BY <1>2, <1>10 DEF Holders
<1>12. r.op # "T" /\ TradeOf(r, D.coin, p.h) /\ (r.op \in Swaps => p.op \in Trades)
  <2>1. CASE p.op = "buy"
    <3>1. r \in Bought(Me, D, k, p.n)
      BY <1>6, <1>9, <1>10, <2>1
    <3>2. r.op \in {"B", "P"} /\ TradeOf(r, D.coin, k + 1)
      BY <1>2, <1>11, <3>1, BoughtTrade
    <3> QED
      BY <1>11, <2>1, <3>2 DEF Trades
  <2>2. CASE p.op = "sell"
    <3>1. r \in Sold(Me, D, k, own, n)
      BY <1>6, <1>9, <1>10, <2>2
    <3>2. r.op \in {"S", "Q"} /\ TradeOf(r, D.coin, k + 1)
      BY <1>2, <1>5, <1>11, <3>1, SoldTrade
    <3> QED
      BY <1>11, <2>2, <3>2 DEF Trades
  <2>3. CASE p.op = "refund"
    <3>1. r \in RefundTx(Me, D, held)
      BY <1>6, <1>9, <2>3
    <3>2. r.op = "R"
      BY <1>2, <3>1, RefundHonest
    <3> QED
      BY <3>2 DEF TradeOf, Swaps
  <2>4. CASE p.op = "graduate"
    <3>1. r \in GraduateTx(Me, D)
      BY <1>6, <1>9, <2>4
    <3>2. r.op = "G"
      BY <1>2, <3>1, GraduateHonest
    <3> QED
      BY <3>2 DEF TradeOf, Swaps
  <2>5. p.op \in {"buy", "sell", "refund", "graduate"}
    BY <1>2 DEF FlightSet
  <2> QED
    BY <2>1, <2>2, <2>3, <2>4, <2>5
<1>13. t.op = r.op
  BY <1>9 DEF Alike
<1>14. TradeOf(t, D.coin, p.h)
  BY <1>9, <1>12, AlikeTrade
<1> QED
  BY <1>1, <1>8, <1>12, <1>13, <1>14

(* What others send.                                                       *)
LEMMA ElsewhereTrade ==
  ASSUME MarketInv, Elsewhere
  PROVE  \E t : /\ Accept(t) /\ wait' = wait \union {t} /\ t.id = sends + 1 /\ t.h = tip + 1 /\ t.knew = {}
                /\ TradeOf(t, ix.coin, t.h) /\ (IF t.op = "T" THEN t.on = 0 ELSE t.on = ix.coin.at)
<1>1. PICK u \in Others :
       LET own == Largest(ix, u) IN
       \E t \in Named((UNION {Bought(u, ix, tip, n) : n \in Gross}) \union GraduateTx(u, ix)
                       \union SendTx(u, ix, Me, 1) \union SendTx(Me, ix, u, 1)
                       \union IF own = None THEN {} ELSE Sold(u, ix, tip, own, own.amount) \union RefundTx(u, ix, own),
                     tip + 1, {}) :
         Accept(t) /\ wait' = wait \union {t}
  BY DEF Elsewhere
<1>2. PICK own : own = Largest(ix, u)
  OBVIOUS
<1>3. PICK txs : txs = (UNION {Bought(u, ix, tip, n) : n \in Gross}) \union GraduateTx(u, ix)
                       \union SendTx(u, ix, Me, 1) \union SendTx(Me, ix, u, 1)
                       \union IF own = None THEN {} ELSE Sold(u, ix, tip, own, own.amount) \union RefundTx(u, ix, own)
  OBVIOUS
<1>4. PICK t \in Named(txs, tip + 1, {}) : Accept(t) /\ wait' = wait \union {t}
  BY <1>1, <1>2, <1>3
<1>5. t.id = sends + 1 /\ t.h = tip + 1 /\ t.knew = {}
  BY <1>4, NamedWith
<1>6. PICK r \in txs : Alike(t, r) /\ t.moved = r.moved
  BY <1>4, NamedWith
<1>7. u \in Holders /\ Me \in Holders /\ Legal(ix.coin) /\ tip \in Int /\ 0 \in Nat
  BY DEF Holders, MarketInv, Marks, Copy
<1>8. TradeOf(r, ix.coin, tip + 1) /\ (IF r.op = "T" THEN r.on = 0 ELSE r.on = ix.coin.at)
  <2>1. CASE \E n \in Gross : r \in Bought(u, ix, tip, n)
    <3>1. PICK n \in Gross : r \in Bought(u, ix, tip, n)
      BY <2>1
    <3>2. n \in Int
      BY MarketAssumption
    <3>3. r.op \in {"B", "P"} /\ TradeOf(r, ix.coin, tip + 1)
      BY <1>7, <3>1, <3>2, BoughtTrade
    <3>4. r.on = ix.coin.at
      BY <1>7, <3>1, <3>2, BoughtHonest
    <3> QED
      BY <3>3, <3>4
  <2>2. CASE r \in GraduateTx(u, ix)
    <3>1. r.op = "G" /\ r.on = ix.coin.at
      BY <1>7, <2>2, GraduateHonest
    <3> QED
      BY <3>1 DEF TradeOf
  <2>3. CASE r \in SendTx(u, ix, Me, 1) \union SendTx(Me, ix, u, 1)
    <3>1. r.op = "T" /\ r.on = 0
      BY <2>3 DEF SendTx
    <3> QED
      BY <3>1 DEF TradeOf
  <2>4. CASE r \in Sold(u, ix, tip, own, own.amount)
    <3>1. own \in Holdings => own.amount \in Nat
      BY DEF Holdings
    <3>2. r.op \in {"S", "Q"} /\ TradeOf(r, ix.coin, tip + 1)
      BY <1>7, <2>4, <3>1, SoldTrade
    <3>3. r.on = ix.coin.at
      BY <1>7, <2>4, <3>1, SoldHonest
    <3> QED
      BY <3>2, <3>3
  <2>5. CASE r \in RefundTx(u, ix, own)
    <3>1. r.op = "R" /\ r.on = ix.coin.at
      BY <1>7, <2>5, RefundHonest
    <3> QED
      BY <3>1 DEF TradeOf
  <2>6. PICK U : U = UNION {Bought(u, ix, tip, n) : n \in Gross}
    OBVIOUS
  <2>7. PICK Q : Q = IF own = None THEN {} ELSE Sold(u, ix, tip, own, own.amount) \union RefundTx(u, ix, own)
    OBVIOUS
  <2>8. r \in U \/ r \in GraduateTx(u, ix) \/ r \in SendTx(u, ix, Me, 1) \union SendTx(Me, ix, u, 1) \/ r \in Q
    BY <1>3, <1>6, <2>6, <2>7
  <2>9. r \in U => \E n \in Gross : r \in Bought(u, ix, tip, n)
    BY <2>6
  <2>10. r \in Q => r \in Sold(u, ix, tip, own, own.amount) \/ r \in RefundTx(u, ix, own)
    BY <2>7
  <2> QED
    BY <2>1, <2>2, <2>3, <2>4, <2>5, <2>8, <2>9, <2>10
<1>9. TradeOf(t, ix.coin, tip + 1)
  BY <1>6, <1>8, AlikeTrade
<1>10. t.op = r.op /\ t.on = r.on
  BY <1>6 DEF Alike
<1> QED
  BY <1>4, <1>5, <1>8, <1>9, <1>10
-----------------------------------------------------------------------------
(* The outputs the transactions of a log spent.                            *)
Gone(l) == {l[i].on : i \in DOMAIN l}
LEMMA GoneAppended ==
  ASSUME NEW S, NEW l \in Seq(S), NEW e
  PROVE  Gone(Append(l, e)) = Gone(l) \union {e.on}
<1>1. PICK R : R = S \union {e}
  OBVIOUS
<1>2. l \in Seq(R) /\ e \in R /\ Len(l) \in Nat
  BY <1>1
<1>3. PICK k : k = Append(l, e)
  OBVIOUS
<1>4. /\ DOMAIN l = 1..Len(l) /\ DOMAIN k = 1..(Len(l) + 1) /\ k[Len(l) + 1] = e
      /\ \A i \in 1..Len(l) : k[i] = l[i]
  BY <1>2, <1>3
<1>5. ASSUME NEW x \in Gone(k) PROVE x \in Gone(l) \union {e.on}
  <2>1. PICK i \in 1..(Len(l) + 1) : x = k[i].on
    BY <1>4, <1>5 DEF Gone
  <2>2. CASE i = Len(l) + 1
    BY <1>4, <2>1, <2>2
  <2>3. CASE i # Len(l) + 1
    <3>1. i \in 1..Len(l)
      BY <1>2, <2>1, <2>3
    <3> QED
      BY <1>4, <2>1, <3>1 DEF Gone
  <2> QED
    BY <2>2, <2>3
<1>6. ASSUME NEW x \in Gone(l) \union {e.on} PROVE x \in Gone(k)
  <2>1. Len(l) + 1 \in DOMAIN k /\ 1..Len(l) \subseteq DOMAIN k
    BY <1>2, <1>4
  <2>2. CASE x = e.on
    BY <1>4, <2>1, <2>2 DEF Gone
  <2>3. CASE x \in Gone(l)
    <3>1. PICK i \in 1..Len(l) : x = l[i].on
      BY <1>4, <2>3 DEF Gone
    <3> QED
      BY <1>4, <2>1, <3>1 DEF Gone
  <2> QED
    BY <2>2, <2>3, <1>6
<1> QED
  BY <1>3, <1>5, <1>6

(* The inductive invariant.  A copy is never ahead of what it was copied   *)
(* from, and its coin is unspent in it; so an output the page knew it had  *)
(* spent, when it found another, is gone from every copy it builds on.  A  *)
(* transaction on its way declares the memory of the coin it spends.       *)
Unspent(c, l) == c.at \notin Gone(l)
Behind(a, c, l) == Gone(a.log) \subseteq Gone(l) /\ a.coin.at \in Gone(l) \union {c.at}
Stamped(t, c) == t.on = c.at => TradeOf(t, c, t.h)
Ready(t, c, h) == Stamped(t, c) /\ t.h \in Nat /\ t.h <= h + 1 /\ (t.op \in Swaps => t.on \notin t.knew)
Prepared(p, d, h) == p.h <= h + 1 /\ (p.stage = "build" /\ p.op \in Trades => p.knew \subseteq Gone(d.log))
Copies ==
  /\ Unspent(D.coin, D.log) /\ Unspent(ix.coin, ix.log) /\ Unspent(coin, log)
  /\ Behind(D, ix.coin, ix.log) /\ Behind(ix, coin, log)
  /\ spent \subseteq Gone(ix.log) \union {ix.coin.at}
  /\ 0 \in Gone(log) /\ Gone(log) \subseteq 0..sends /\ ix.tip \in Int
Pending(w, c, l, h) == \A t \in w : Ready(t, c, h) /\ (t.op = "T" => t.on = 0) /\ t.id \notin Gone(l)
Presses(fl, d, h) == \A f \in Flights : fl[f] # Idle => Prepared(fl[f], d, h)
AgreeInv == RefusedForAReason /\ Copies /\ Pending(wait, coin, log, tip) /\ Presses(flight, D, tip)

(* The node finds the memory it expects, with a stamp it allows.           *)
LEMMA AsOwn ==
  ASSUME NEW t, NEW h, NEW n, n = NextMarketMemory(coin.m, coin.hM, t.moved, h, t.next.hM),
         t.next.m = n.m, t.next.hM = n.hM, n.updated => t.next.hM <= h /\ h - t.next.hM <= MaxAge
  PROVE  MemoryAsOwn(t, h)
BY DEF MemoryAsOwn

(* What the node refuses, it refuses for a reason.                         *)
LEMMA RefusalExplained ==
  ASSUME MarketInv, NEW t, Ready(t, coin, tip), t.op = "R" \/ ~Accept(t)
  PROVE  Reason(t) # "memory" /\ (t.op \in Swaps => Reason(t) # "twice")
<1>1. t.op \in Swaps => Reason(t) # "twice"
  BY DEF Ready, Reason
<1>2. ASSUME Reason(t) = "memory" PROVE FALSE
  <2>1. /\ Rivals(t) = {} /\ Spendable(t) /\ t.op \in {"B", "S"}
        /\ ~(tip + 1 - t.h > MaxAge) /\ Expired(coin.hM, tip + 1) = Expired(coin.hM, t.h)
    BY <1>2 DEF Reason
  <2>2. t.on = coin.at /\ coin.phase # "closed" /\ t.uses \subseteq Holdings
    BY <2>1 DEF Spendable, MarketInv, Covered
  <2>3. coin.phase # "graduated" /\ Declares(t, coin, t.h)
    BY <2>1, <2>2 DEF Ready, Stamped, TradeOf
  <2>4. coin.phase = "live" /\ coin.m \in Int /\ coin.hM \in Int
    BY <2>2, <2>3 DEF MarketInv, Legal, CoinSet
  <2>5. PICK h : h = tip + 1
    OBVIOUS
  <2>6. h \in Int /\ t.h \in Nat /\ t.h <= h /\ MaxAge \in Nat /\ h - t.h <= MaxAge /\ t.moved \in Nat /\ t.moved > 0
    <3>1. tip \in Int /\ MaxAge \in Nat
      BY CurveAssumption DEF MarketInv, Marks
    <3>2. t.h \in Nat /\ t.h <= tip + 1 /\ t.moved \in Nat \ {0}
      BY <2>3 DEF Ready, Declares
    <3> QED
      BY <2>1, <2>5, <3>1, <3>2
  <2>7. MemoryAsOwn(t, h)
    <3>1. PICK n : n = NextMarketMemory(coin.m, coin.hM, t.moved, h, t.next.hM)
      OBVIOUS
    <3>2. CASE Expired(coin.hM, t.h) \/ t.moved > coin.m
      <4>1. t.next.m = t.moved /\ t.next.hM = t.h
        BY <2>3, <3>2 DEF Declares, NextM
      <4>2. n.m = t.moved /\ n.hM = t.next.hM
        BY <2>1, <2>5, <2>6, <3>1, <3>2 DEF NextMarketMemory
      <4>3. t.next.hM <= h /\ h - t.next.hM <= MaxAge
        BY <2>6, <4>1
      <4> QED
        BY <3>1, <4>1, <4>2, <4>3, AsOwn
    <3>3. CASE ~(Expired(coin.hM, t.h) \/ t.moved > coin.m)
      <4>1. t.next.m = coin.m /\ t.next.hM = coin.hM
        BY <2>3, <3>3 DEF Declares, NextM
      <4>2. n.m = coin.m /\ n.hM = coin.hM /\ ~n.updated
        BY <2>1, <2>5, <3>1, <3>3 DEF NextMarketMemory
      <4> QED
        BY <3>1, <4>1, <4>2, AsOwn
    <3> QED
      BY <3>2, <3>3
  <2>8. Allowed(t, tip + 1)
    BY <2>1, <2>4, <2>5, <2>7 DEF Allowed
  <2> QED
    BY <2>1, <2>8 DEF Accept
<1> QED
  BY <1>1, <1>2

LEMMA RefusalNoted ==
  ASSUME MarketInv, RefusedForAReason, NEW t, Ready(t, coin, tip), t.op = "R" \/ ~Accept(t),
         refused' = refused \union {[op |-> t.op, why |-> Reason(t)]}
  PROVE  RefusedForAReason'
<1>1. Reason(t) # "memory" /\ (t.op \in Swaps => Reason(t) # "twice")
  BY RefusalExplained
<1>2. PICK w : w = Reason(t)
  OBVIOUS
<1> QED
  BY <1>1, <1>2 DEF RefusedForAReason, Swaps

(* The bar is the rule.                                                    *)
LEMMA TheBarIsTheRule == ASSUME MarketInv, ix.tip \in Int PROVE CardIsHonest
<1>1. PICK c : c = ix.coin
  OBVIOUS
<1>2. PICK h : h = ix.tip
  OBVIOUS
<1>3. PICK p : p = c.m * GradDepth
  OBVIOUS
<1>4. c \in CoinSet /\ c.gbx \in Nat /\ c.hM \in Int /\ c.m \in Int /\ h \in Int
  BY <1>1, <1>2 DEF MarketInv, Copy, Legal, CoinSet
<1>5. GradMin \in Nat /\ GradWindow \in Nat /\ GradDepth \in Nat /\ p \in Int
  BY <1>3, <1>4, CurveAssumption
<1>6. Bar(ix) = IF c.hM # 0 /\ h - c.hM <= GradWindow /\ p > GradMin THEN p ELSE GradMin
  BY <1>1, <1>2, <1>3 DEF Bar
<1>7. CanGraduate(c.gbx, c.m, c.hM, h + 1) <=>
        \/ CurveTokensSold(c.gbx) >= CurveTokens
        \/ c.gbx >= GradMin /\ (c.hM # 0 /\ h + 1 - c.hM <= GradWindow => c.gbx >= p)
  <2>1. PICK g : g = h + 1
    OBVIOUS
  <2>2. CanGraduate(c.gbx, c.m, c.hM, g) <=>
          \/ CurveTokensSold(c.gbx) >= CurveTokens
          \/ c.gbx >= GradMin /\ (c.hM # 0 /\ g - c.hM <= GradWindow => c.gbx >= c.m * GradDepth)
    BY DEF CanGraduate
  <2> QED
    BY <1>3, <1>4, <1>5, <2>1, <2>2
<1>8. c.gbx >= Bar(ix) => CanGraduate(c.gbx, c.m, c.hM, h + 1)
  BY <1>4, <1>5, <1>6, <1>7
<1>9. CanGraduate(c.gbx, c.m, c.hM, h + 1) /\ c.gbx < Bar(ix) =>
        CurveTokensSold(c.gbx) >= CurveTokens \/ Expired(c.hM, h + 1)
  BY <1>4, <1>5, <1>6, <1>7 DEF Expired
<1> QED
  BY <1>1, <1>2, <1>8, <1>9 DEF CardIsHonest

LEMMA AgreeStarts == Init => AgreeInv
<1> SUFFICES ASSUME Init PROVE AgreeInv
  OBVIOUS
<1>1. PICK e : log = <<e>> /\ e.on = 0
  BY DEF Init
<1>2. Gone(log) = {0}
  BY <1>1 DEF Gone
<1>3. tip = 1 /\ coin.at = 1 /\ sends = 1 /\ wait = {} /\ refused = {} /\ spent = {}
  BY DEF Init
<1>4. ix.coin = coin /\ ix.log = log /\ D.coin = coin /\ D.log = log /\ ix.tip = 1
  BY DEF Init, Chain
<1>5. \A f \in Flights : flight[f] = Idle
  BY DEF Init
<1>6. Copies
  BY <1>2, <1>3, <1>4 DEF Copies, Unspent, Behind
<1> QED
  BY <1>3, <1>5, <1>6 DEF AgreeInv, RefusedForAReason, Pending, Presses

(* What holds of a press and of a transaction holds when the chain grows.  *)
LEMMA ReadyLater ==
  ASSUME NEW t, NEW c, NEW h \in Int, NEW g \in Int, h <= g, Ready(t, c, h), NEW e,
         c = e \/ t.on # e.at \/ t.op \notin {"B", "S"}
  PROVE  Ready(t, e, g)
BY DEF Ready, Stamped, TradeOf

LEMMA PreparedLater ==
  ASSUME NEW p \in FlightSet, NEW d, NEW e, NEW h \in Int, NEW g \in Int, h <= g, Prepared(p, d, h), Gone(d.log) \subseteq Gone(e.log)
  PROVE  Prepared(p, e, g)
BY DEF Prepared, FlightSet

(* Steps of the page and of the index, of the chain, of the presses.       *)
LEMMA CopiesKeep ==
  ASSUME Copies, coin' = coin, log' = log, spent' = spent, sends' = sends \/ (sends \in Nat /\ sends' = sends + 1),
         tip \in Int, ix' = ix \/ ix' = Chain, D' = D \/ D' = ix, ix' = ix \/ D' = D
  PROVE  Copies' /\ Gone(D.log) \subseteq Gone(D.log)'
<1>1. Chain.coin = coin /\ Chain.log = log /\ Chain.tip = tip
  BY DEF Chain
<1>2. Gone(log) \subseteq 0..sends'
  BY DEF Copies
<1>3. CASE ix' = ix
  BY <1>2, <1>3 DEF Copies, Unspent, Behind
<1>4. CASE ix' = Chain /\ D' = D
  <2>1. Unspent(coin, log) /\ Unspent(D.coin, D.log) /\ 0 \in Gone(log)
    BY DEF Copies
  <2>2. Behind(D, coin, log) /\ Behind(Chain, coin, log) /\ spent \subseteq Gone(log) \union {coin.at}
    BY <1>1 DEF Copies, Behind
  <2>3. ix'.coin = coin /\ ix'.log = log /\ ix'.tip = tip
    BY <1>1, <1>4
  <2>4. Gone(ix'.log) = Gone(log)
    BY <2>3
  <2> QED
    BY <1>2, <1>4, <2>1, <2>2, <2>3, <2>4 DEF Copies, Unspent, Behind
<1> QED
  BY <1>3, <1>4

LEMMA PressesStill ==
  ASSUME MarketInv, AgreeInv, Gone(D.log) \subseteq Gone(D'.log), tip' \in Int, tip <= tip',
         \A f \in Flights : flight'[f] = Idle \/ flight'[f] = flight[f] \/ Prepared(flight'[f], D', tip')
  PROVE  Presses(flight', D', tip')
<1> SUFFICES ASSUME NEW f \in Flights, flight'[f] # Idle, flight'[f] = flight[f] PROVE Prepared(flight'[f], D', tip')
  BY DEF Presses
<1>1. Prepared(flight[f], D, tip) /\ flight[f] \in FlightSet /\ tip \in Int
  BY DEF AgreeInv, Presses, MarketInv, Marks
<1> QED
  BY <1>1, PreparedLater

LEMMA PendingStill ==
  ASSUME MarketInv, AgreeInv, wait' \subseteq wait, coin' = coin, log' = log, tip' \in Int, tip <= tip'
  PROVE  Pending(wait', coin', log', tip')
<1> SUFFICES ASSUME NEW t \in wait' PROVE Ready(t, coin', tip') /\ (t.op = "T" => t.on = 0) /\ t.id \notin Gone(log')
  BY DEF Pending
<1>1. Ready(t, coin, tip) /\ (t.op = "T" => t.on = 0) /\ t.id \notin Gone(log) /\ tip \in Int
  BY DEF AgreeInv, Pending, MarketInv, Marks
<1>2. Ready(t, coin, tip')
  BY <1>1, ReadyLater
<1> QED
  BY <1>1, <1>2

(* A step that mines nothing and refuses nothing.                          *)
LEMMA AgreeQuiet ==
  ASSUME MarketInv, AgreeInv, coin' = coin, log' = log, spent' = spent, sends' = sends, refused' = refused,
         wait' \subseteq wait, tip' \in {tip, tip + 1}, ix' = ix \/ ix' = Chain, D' = D \/ D' = ix, ix' = ix \/ D' = D,
         \A f \in Flights : flight'[f] = Idle \/ flight'[f] = flight[f] \/ Prepared(flight'[f], D', tip')
  PROVE  AgreeInv'
<1>1. tip \in Int /\ tip' \in Int /\ tip <= tip'
  BY DEF MarketInv, Marks
<1>2. Copies' /\ Gone(D.log) \subseteq Gone(D'.log)
  BY <1>1, CopiesKeep DEF AgreeInv
<1>3. Pending(wait', coin', log', tip') /\ Presses(flight', D', tip')
  BY <1>1, <1>2, PendingStill, PressesStill
<1>4. RefusedForAReason'
  BY DEF AgreeInv, RefusedForAReason
<1> QED
  BY <1>2, <1>3, <1>4 DEF AgreeInv

(* A transaction that goes out is ready.                                   *)
LEMMA ReadyFrom ==
  ASSUME MarketInv, NEW d \in {ix, D}, NEW t, t.op # "T" => t.on = d.coin.at, TradeOf(t, d.coin, t.h),
         t.h \in Nat, t.h <= tip + 1, t.op \in Swaps => t.on \notin t.knew
  PROVE  Ready(t, coin, tip)
<1>1. Copy(d, coin, wait, sends)
  BY DEF MarketInv
<1>2. t.op \in {"B", "S"} /\ t.on = coin.at => d.coin = coin
  BY <1>1 DEF Copy
<1>3. Stamped(t, coin)
  BY <1>2 DEF Stamped, TradeOf
<1> QED
  BY <1>3 DEF Ready

LEMMA PendingSent ==
  ASSUME MarketInv, AgreeInv, NEW t, Ready(t, coin, tip), t.id = sends + 1, t.op = "T" => t.on = 0, wait' = wait \union {t}
  PROVE  Pending(wait', coin, log, tip)
<1>1. t.id \notin Gone(log)
  <2>1. sends \in Nat /\ Gone(log) \subseteq 0..sends /\ ~(sends + 1 \in 0..sends)
    BY DEF AgreeInv, Copies, MarketInv
  <2> QED
    BY <2>1
<1> QED
  BY <1>1 DEF AgreeInv, Pending

LEMMA MineAgrees ==
  ASSUME MarketInv, AgreeInv, NEW t \in wait, Mine(t)
  PROVE  AgreeInv'
<1> USE DEF MarketInv
<1>1. /\ tip' = tip + 1 /\ wait' = wait \ {t} /\ Spendable(t)
      /\ coin' = IF t.op = "T" THEN coin ELSE [t.next EXCEPT !.at = t.id]
      /\ ix' = ix /\ D' = D /\ flight' = flight /\ spent' = spent /\ sends' = sends /\ refused' = refused
      /\ \E e : log' = Append(log, e) /\ e.on = t.on
  BY DEF Mine, pageVars
<1>2. PICK S : log \in Seq(S)
  BY DEF Marks
<1>3. Gone(log') = Gone(log) \union {t.on}
  BY <1>1, <1>2, GoneAppended
<1>4. /\ Copies /\ Fresh(coin.at, wait, sends) /\ t.id \in 0..sends /\ tip \in Int /\ sends \in Nat
      /\ \A w \in wait : w # t => w.id # t.id
      /\ \A w \in wait : Ready(w, coin, tip) /\ (w.op = "T" => w.on = 0) /\ w.id \notin Gone(log) /\ Honest(w, w.id, coin)
      /\ \A w \in wait : w.op # "T" => Fresh(w.on, wait, sends)
  BY DEF AgreeInv, Pending, Waiting, Marks
<1>5. ASSUME t.op = "T" PROVE Copies' /\ Pending(wait', coin', log', tip')
  <2>1. coin' = coin /\ t.on = 0 /\ Gone(log') = Gone(log)
    BY <1>1, <1>3, <1>4, <1>5 DEF Copies
  <2>2. Copies'
    BY <1>1, <1>4, <2>1 DEF Copies, Unspent, Behind
  <2>3. \A w \in wait' : Ready(w, coin', tip') /\ w.id \notin Gone(log')
    <3>1. tip + 1 \in Int /\ tip <= tip + 1
      BY <1>4
    <3> QED
      BY <1>1, <1>4, <2>1, <3>1, ReadyLater
  <2>4. Pending(wait', coin', log', tip')
    BY <1>1, <1>4, <2>3 DEF Pending
  <2> QED
    BY <2>2, <2>4
<1>6. ASSUME t.op # "T" PROVE Copies' /\ Pending(wait', coin', log', tip')
  <2>1. t.on = coin.at
    BY <1>1, <1>6 DEF Spendable
  <2>2. coin'.at = t.id
    <3>1. t.uses \subseteq Holdings /\ IsFiniteSet(t.uses)
      BY <1>1, FS_Subset DEF Spendable, Covered
    <3>2. Open(t.op, coin)
      BY <1>1, <1>6 DEF Open, Allowed, Spendable, Mine
    <3>3. t.next \in CoinSet
      BY <1>4, <1>6, <2>1, <3>1, <3>2 DEF Honest, Keeps, Legal
    <3> QED
      BY <1>1, <1>6, <3>3 DEF CoinSet
  <2>3. /\ Gone(log') = Gone(log) \union {coin.at} /\ t.id # coin.at /\ t.id \notin Gone(log)
    BY <1>3, <1>4, <2>1 DEF Fresh
  <2>4. Copies'
    <3>1. coin'.at \notin Gone(log')
      BY <2>2, <2>3
    <3>2. Behind(ix, coin', log')
      BY <1>4, <2>3 DEF Copies, Behind
    <3>3. 0 \in Gone(log') /\ Gone(log') \subseteq 0..sends
      BY <1>4, <2>3 DEF Copies, Fresh
    <3> QED
      BY <1>1, <1>4, <3>1, <3>2, <3>3 DEF Copies, Unspent, Behind
  <2>5. ASSUME NEW w \in wait' PROVE Ready(w, coin', tip') /\ w.id \notin Gone(log')
    <3>1. w \in wait /\ w # t /\ w.id \notin Gone(log) /\ w.id # coin.at /\ Ready(w, coin, tip)
      BY <1>1, <1>4 DEF Fresh
    <3>2. w.op # "T" => w.on # coin'.at
      BY <1>4, <2>2, <3>1 DEF Fresh
    <3>3. tip \in Int /\ tip' \in Int /\ tip <= tip'
      BY <1>1, <1>4
    <3>4. Ready(w, coin', tip')
      BY <3>1, <3>2, <3>3, ReadyLater
    <3> QED
      BY <2>3, <3>1, <3>4
  <2>6. Pending(wait', coin', log', tip')
    BY <1>1, <1>4, <2>5 DEF Pending
  <2> QED
    BY <2>4, <2>6
<1>7. Copies' /\ Pending(wait', coin', log', tip')
  BY <1>5, <1>6
<1>8. Presses(flight', D', tip')
  <2>1. tip' \in Int /\ tip <= tip'
    BY <1>1, <1>4
  <2> QED
    BY <1>1, <2>1, PressesStill
<1>9. RefusedForAReason'
  BY <1>1 DEF AgreeInv, RefusedForAReason
<1> QED
  BY <1>7, <1>8, <1>9 DEF AgreeInv

LEMMA SubmitAgrees == ASSUME MarketInv, AgreeInv, NEW f \in Flights, Submit(f) PROVE AgreeInv'
<1>1. /\ coin' = coin /\ ix' = ix /\ D' = D /\ tip' = tip /\ log' = log
      /\ flight[f] # Idle /\ flight[f].stage = "build" /\ flight' = [flight EXCEPT ![f] = Idle]
  BY DEF Submit, Ends, chainVars
<1>2. PICK t \in Built(f) :
        \/ /\ Accept(t) /\ wait' = wait \union {t} /\ sends' = sends + 1 /\ refused' = refused
           /\ spent' = spent \/ spent' = spent \union {t.on}
        \/ /\ t.op = "R" \/ ~Accept(t)
           /\ refused' = refused \union {[op |-> t.op, why |-> Reason(t)]}
           /\ wait' = wait /\ sends' = sends /\ spent' = spent
  BY DEF Submit
<1>3. t.id = sends + 1 /\ t.on = D.coin.at
  BY <1>1, BuiltFromCopy DEF MadeFrom
<1>4. /\ t.h = flight[f].h /\ t.knew = flight[f].knew /\ t.op # "T" /\ TradeOf(t, D.coin, t.h)
      /\ t.op \in Swaps => flight[f].op \in Trades
  BY <1>1, BuiltTrade
<1>5. flight[f] \in FlightSet /\ Prepared(flight[f], D, tip) /\ Unspent(D.coin, D.log) /\ tip \in Int /\ sends \in Nat
  BY <1>1 DEF MarketInv, Marks, AgreeInv, Presses, Copies
<1>6. t.h \in Nat /\ t.h <= tip + 1 /\ (t.op \in Swaps => t.on \notin t.knew)
  BY <1>1, <1>3, <1>4, <1>5 DEF FlightSet, Prepared, Unspent
<1>7. Ready(t, coin, tip)
  BY <1>3, <1>4, <1>6, ReadyFrom
<1>8. Presses(flight', D', tip')
  <2>1. \A g \in Flights : flight'[g] = Idle \/ flight'[g] = flight[g]
    BY <1>1 DEF MarketInv, Marks
  <2>2. Gone(D.log) \subseteq Gone(D'.log) /\ tip' \in Int /\ tip <= tip'
    BY <1>1, <1>5
  <2> QED
    BY <2>1, <2>2, PressesStill
<1>9. Copies' /\ Pending(wait', coin', log', tip')
  <2>1. CASE wait' = wait /\ sends' = sends /\ spent' = spent
    <3>1. Copies'
      BY <1>1, <1>5, <2>1, CopiesKeep DEF AgreeInv
    <3>2. tip' \in Int /\ tip <= tip'
      BY <1>1, <1>5
    <3> QED
      BY <1>1, <2>1, <3>1, <3>2, PendingStill
  <2>2. CASE /\ Accept(t) /\ wait' = wait \union {t} /\ sends' = sends + 1
             /\ spent' = spent \/ spent' = spent \union {t.on}
    <3>1. Pending(wait', coin, log, tip)
      BY <1>3, <1>4, <1>7, <2>2, PendingSent
    <3>2. Copies
      BY DEF AgreeInv
    <3>3. spent' \subseteq Gone(ix.log) \union {ix.coin.at}
      BY <1>3, <2>2, <3>2 DEF Copies, Behind
    <3>4. Gone(log) \subseteq 0..sends'
      BY <1>5, <2>2, <3>2 DEF Copies
    <3> QED
      BY <1>1, <3>1, <3>2, <3>3, <3>4 DEF Copies
  <2> QED
    BY <1>2, <2>1, <2>2
<1>10. RefusedForAReason'
  <2>1. CASE refused' = refused
    BY <2>1 DEF AgreeInv, RefusedForAReason
  <2>2. CASE refused' # refused
    BY <1>2, <1>7, <2>2, RefusalNoted DEF AgreeInv
  <2> QED
    BY <2>1, <2>2
<1> QED
  BY <1>8, <1>9, <1>10 DEF AgreeInv

LEMMA EvictAgrees == ASSUME MarketInv, AgreeInv, NEW t \in wait, Evict(t) PROVE AgreeInv'
<1>1. /\ coin' = coin /\ ix' = ix /\ D' = D /\ tip' = tip /\ log' = log /\ flight' = flight /\ spent' = spent
      /\ sends' = sends /\ wait' \subseteq wait /\ ~Accept(t)
      /\ refused' = refused \union {[op |-> t.op, why |-> Reason(t)]}
  BY DEF Evict, Accept, chainVars, pageVars
<1>2. Ready(t, coin, tip) /\ RefusedForAReason /\ tip \in Int
  BY DEF AgreeInv, Pending, MarketInv, Marks
<1>3. RefusedForAReason'
  BY <1>1, <1>2, RefusalNoted
<1>4. Copies' /\ Gone(D.log) \subseteq Gone(D'.log) /\ tip' \in Int /\ tip <= tip'
  BY <1>1, <1>2, CopiesKeep DEF AgreeInv
<1>5. Pending(wait', coin', log', tip') /\ Presses(flight', D', tip')
  BY <1>1, <1>4, PendingStill, PressesStill
<1> QED
  BY <1>3, <1>4, <1>5 DEF AgreeInv

LEMMA ElsewhereAgrees == ASSUME MarketInv, AgreeInv, Elsewhere PROVE AgreeInv'
<1>1. /\ coin' = coin /\ ix' = ix /\ D' = D /\ tip' = tip /\ log' = log /\ flight' = flight /\ spent' = spent
      /\ sends' = sends + 1 /\ refused' = refused
  BY DEF Elsewhere, chainVars, pageVars
<1>2. PICK t : /\ Accept(t) /\ wait' = wait \union {t} /\ t.id = sends + 1 /\ t.h = tip + 1 /\ t.knew = {}
               /\ TradeOf(t, ix.coin, t.h) /\ (IF t.op = "T" THEN t.on = 0 ELSE t.on = ix.coin.at)
  BY ElsewhereTrade
<1>3. tip \in Nat /\ sends \in Nat
  BY DEF MarketInv, Marks
<1>4. t.h \in Nat /\ t.h <= tip + 1 /\ t.on \notin t.knew
  BY <1>2, <1>3
<1>5. Ready(t, coin, tip)
  BY <1>2, <1>4, ReadyFrom
<1>6. Pending(wait', coin, log, tip)
  BY <1>2, <1>5, PendingSent
<1>7. Copies' /\ Gone(D.log) \subseteq Gone(D'.log) /\ tip' \in Int /\ tip <= tip'
  BY <1>1, <1>3, CopiesKeep DEF AgreeInv
<1>8. Presses(flight', D', tip')
  BY <1>1, <1>7, PressesStill
<1>9. RefusedForAReason'
  BY <1>1 DEF AgreeInv, RefusedForAReason
<1> QED
  BY <1>1, <1>6, <1>7, <1>8, <1>9 DEF AgreeInv

LEMMA PressAgrees == ASSUME MarketInv, AgreeInv, NEW f \in Flights, NEW op, NEW n, Press(f, op, n) PROVE AgreeInv'
<1>1. PICK p : p = [op |-> op, n |-> n, h |-> tip + 1, stage |-> "load", tries |-> 0, knew |-> {}]
  OBVIOUS
<1>2. /\ coin' = coin /\ ix' = ix /\ D' = D /\ tip' = tip /\ log' = log /\ spent' = spent
      /\ sends' = sends /\ wait' = wait /\ refused' = refused /\ flight' = [flight EXCEPT ![f] = p]
  BY <1>1 DEF Press, chainVars
<1>3. Prepared(p, D', tip')
  BY <1>1, <1>2 DEF Prepared, MarketInv, Marks
<1>4. \A g \in Flights : flight'[g] = flight[g] \/ flight'[g] = p
  BY <1>2 DEF MarketInv, Marks
<1> QED
  BY <1>2, <1>3, <1>4, AgreeQuiet

LEMMA LoadAgrees == ASSUME MarketInv, AgreeInv, NEW f \in Flights, Load(f) PROVE AgreeInv'
<1>1. /\ coin' = coin /\ ix' = ix /\ D' = ix /\ tip' = tip /\ log' = log /\ spent' = spent
      /\ sends' = sends /\ wait' = wait /\ refused' = refused
  BY DEF Load, chainVars
<1>2. PICK p : p = flight[f]
  OBVIOUS
<1>3. p \in FlightSet /\ flight \in [Flights -> {Idle} \union FlightSet] /\ Prepared(p, D, tip) /\ p.stage = "load"
  BY <1>2 DEF MarketInv, Marks, Load, AgreeInv, Presses
<1>4. \E q : (q = Idle \/ Prepared(q, D', tip')) /\ flight' = [flight EXCEPT ![f] = q]
  <2>1. CASE Busy(f) /\ Patient(f)
    <3>1. flight' = [flight EXCEPT ![f].tries = @ + 1]
      BY <2>1 DEF Load
    <3>2. PICK q : q = [p EXCEPT !.tries = p.tries + 1]
      OBVIOUS
    <3>3. q.h = p.h /\ q.stage = "load"
      BY <1>3, <3>2 DEF FlightSet
    <3>4. flight' = [flight EXCEPT ![f] = q]
      BY <1>2, <1>3, <3>1, <3>2
    <3>5. Prepared(q, D', tip')
      BY <1>1, <1>3, <3>3 DEF Prepared
    <3> QED
      BY <3>4, <3>5
  <2>2. CASE Busy(f) /\ ~Patient(f)
    BY <2>2 DEF Load, Ends
  <2>3. CASE ~Busy(f)
    <3>1. flight' = [flight EXCEPT ![f].stage = "build", ![f].knew = spent]
      BY <2>3 DEF Load
    <3>2. PICK q : q = [p EXCEPT !.stage = "build", !.knew = spent]
      OBVIOUS
    <3>3. q.h = p.h /\ q.op = p.op /\ q.knew = spent
      BY <1>3, <3>2 DEF FlightSet
    <3>4. flight' = [flight EXCEPT ![f] = q]
      BY <1>2, <1>3, <3>1, <3>2
    <3>5. p.op \in Trades => spent \subseteq Gone(ix.log)
      BY <1>2, <2>3 DEF Busy, AgreeInv, Copies
    <3>6. Prepared(q, D', tip')
      BY <1>1, <1>3, <3>3, <3>5 DEF Prepared
    <3> QED
      BY <3>4, <3>6
  <2> QED
    BY <2>1, <2>2, <2>3
<1>5. \A g \in Flights : flight'[g] = Idle \/ flight'[g] = flight[g] \/ Prepared(flight'[g], D', tip')
  BY <1>3, <1>4
<1> QED
  BY <1>1, <1>5, AgreeQuiet

LEMMA AgreeStep == ASSUME MarketInv, AgreeInv, [Next]_vars PROVE AgreeInv'
<1>1. ASSUME NEW f \in Flights, NEW op, NEW n, Press(f, op, n) PROVE AgreeInv'
  BY <1>1, PressAgrees
<1>2. ASSUME NEW f \in Flights, Load(f) PROVE AgreeInv'
  BY <1>2, LoadAgrees
<1>3. ASSUME NEW f \in Flights, Submit(f) PROVE AgreeInv'
  BY <1>3, SubmitAgrees
<1>4. ASSUME NEW f \in Flights, Fail(f) PROVE AgreeInv'
  <2>1. /\ coin' = coin /\ ix' = ix /\ D' = D /\ tip' = tip /\ log' = log /\ spent' = spent
        /\ sends' = sends /\ wait' = wait /\ refused' = refused /\ flight' = [flight EXCEPT ![f] = Idle]
    BY <1>4 DEF Fail, Ends, chainVars
  <2>2. \A g \in Flights : flight'[g] = Idle \/ flight'[g] = flight[g]
    BY <2>1 DEF MarketInv, Marks
  <2> QED
    BY <2>1, <2>2, AgreeQuiet
<1>5. ASSUME NEW t \in wait, Mine(t) PROVE AgreeInv'
  BY <1>5, MineAgrees
<1>6. ASSUME NEW t \in wait, Evict(t) PROVE AgreeInv'
  BY <1>6, EvictAgrees
<1>7. CASE Block
  <2>1. /\ coin' = coin /\ ix' = ix /\ D' = D /\ tip' = tip + 1 /\ log' = log /\ spent' = spent
        /\ sends' = sends /\ wait' = wait /\ refused' = refused /\ flight' = flight
    BY <1>7 DEF Block, pageVars
  <2> QED
    BY <2>1, AgreeQuiet
<1>8. CASE Scan
  <2>1. /\ coin' = coin /\ ix' = Chain /\ D' = D /\ tip' = tip /\ log' = log /\ spent' = spent
        /\ sends' = sends /\ wait' = wait /\ refused' = refused /\ flight' = flight
    BY <1>8 DEF Scan, chainVars, pageVars
  <2> QED
    BY <2>1, AgreeQuiet
<1>9. CASE Refresh
  <2>1. /\ coin' = coin /\ ix' = ix /\ D' = ix /\ tip' = tip /\ log' = log /\ spent' = spent
        /\ sends' = sends /\ wait' = wait /\ refused' = refused /\ flight' = flight
    BY <1>9 DEF Refresh, chainVars
  <2> QED
    BY <2>1, AgreeQuiet
<1>10. CASE Elsewhere
  BY <1>10, ElsewhereAgrees
<1>11. CASE UNCHANGED vars
  <2>1. /\ coin' = coin /\ ix' = ix /\ D' = D /\ tip' = tip /\ log' = log /\ spent' = spent
        /\ sends' = sends /\ wait' = wait /\ refused' = refused /\ flight' = flight
    BY <1>11 DEF vars, chainVars, pageVars
  <2> QED
    BY <2>1, AgreeQuiet
<1> QED
  BY <1>1, <1>2, <1>3, <1>4, <1>5, <1>6, <1>7, <1>8, <1>9, <1>10, <1>11 DEF Next

(* The page, the index and the node apply one rule (nextM and curveView of *)
(* gbx-curve.mjs and gbx-launchpad-flow.mjs, coin-x.html:819-834): however *)
(* far the page's copy is behind, and whatever others send meanwhile, no   *)
(* trade is refused for the memory it declares unless blocks made it too   *)
(* late, none spends again what its page knew it had spent, and where the  *)
(* card offers graduation the node allows it; it withholds it only from a  *)
(* curve that is sold out or whose record trade is about to be forgotten.  *)
THEOREM PageAndNodeAlwaysAgree == Spec => []PageAndNodeAgree
<1>1. Init => MarketInv /\ AgreeInv
  BY MarketStarts, AgreeStarts
<1>2. (MarketInv /\ AgreeInv) /\ [Next]_vars => (MarketInv /\ AgreeInv)'
  BY MarketStep, AgreeStep
<1>3. MarketInv /\ AgreeInv => PageAndNodeAgree
  BY TheBarIsTheRule DEF AgreeInv, Copies, PageAndNodeAgree
<1> QED
  BY <1>1, <1>2, <1>3, PTL DEF Spec
-----------------------------------------------------------------------------
(* The records of a launch (CoinLaunch.tla).                               *)
(* What is made, what is known of it, and what is left to be made.         *)
RecordSet == ({"create", "name", "about"} \X {0}) \union ({"logo"} \X Nat)
IsTx(t) == t = <<t[1], t[2], t[3], t[4]>> /\ t[1] \in Nat /\ t[2] \in RecordSet /\ t[4] \in Nat
IsForm(f) == f.about \in BOOLEAN /\ f.pieces \in Nat
Extras(f) == IF f.about THEN 1 ELSE 0

LaunchTyped ==
  /\ height \in Nat /\ tpl \in Nat /\ checked \in Nat /\ forges \in Nat /\ change \in Int /\ round \in 0 .. Rounds
  /\ stage \in {"idle", "template", "mine", "recheck", "build", "send", "done"} /\ IsForm(form)
  /\ pools \in [Nodes -> SUBSET got] /\ mined \subseteq got /\ heard \subseteq got
  /\ ask \in Seq(Nodes)

(* What the nodes have.  A pool holds what can be mined, and what it does  *)
(* not hold was mined, is elsewhere or can be nowhere.                     *)
Mineable(t) == t \notin mined /\ ProofHolds(t) /\ ~Rival(t, mined)
NetInv ==
  /\ \A n \in Nodes : \A t \in pools[n] : Mineable(t)
  /\ \A t \in got : t \in mined \/ (\E n \in Nodes : t \in pools[n]) \/ Lapsed(t)
TxInv ==
  \A t \in got : /\ IsTx(t) /\ t[1] <= forges
                 /\ t[3] = NoTx \/ Place(t[3][2]) < Place(t[2])

(* What is left to be made: the end of the form's records, paid for.       *)
Unmade(f, s) ==
  \E k \in 1 .. Len(Records(f)) :
    /\ s \in Seq(RecordSet) /\ Len(s) = Len(Records(f)) + 1 - k
    /\ \A i \in 1 .. Len(s) : s[i] = Records(f)[k + i - 1]
Owed(f, r) ==
  CASE r[1] \in {"create", "name"} -> f.pieces + 1
    [] r[1] = "about" -> f.pieces
    [] OTHER -> f.pieces - r[2] - Extras(f)
Paid(f, s, money) == money >= MetaFee * Owed(f, Head(s)) + DustSat
Active == stage \notin {"idle", "done"}
PlanInv ==
  Active =>
    /\ Unmade(form, todo) /\ Paid(form, todo, change)
    /\ stage \in {"build", "send"} => checked - tpl <= Outrun
    /\ stage = "send" => ask # <<>> /\ sending = <<forges, Head(todo), at, IF Kind(todo) = "create" THEN tpl ELSE 0>>
ChainInv ==
  Active =>
    /\ at = NoTx \/ (at \in got /\ at[1] = forges /\ Place(at[2]) < Place(Head(todo)))
    /\ \A t \in got : t[1] = forges => Place(t[2]) < Place(Head(todo)) \/ (stage = "send" /\ t = sending)
    /\ \A t \in heard : t[1] = forges => t[3] # at /\ Place(t[2]) < Place(Head(todo))

(* A rival the page has not heard of, and will not.                        *)
Unheard(t) == \E w \in got \ heard : w # t /\ w[1] = t[1] /\ w[3] = t[3] /\ ~(stage = "send" /\ w = sending)
Excused(r) ==
  /\ r.reason = "funds" =>
       /\ r.form.about
       /\ IF r.form.pieces = 0 THEN r.record[1] = "about" ELSE r.record = <<"logo", r.form.pieces - 1>>
  /\ r.reason = "stale" => r.late > PowMaxAge - Outrun
  /\ r.reason = "unknown parent" => r.tx[3] \in got /\ r.parent # "lost"
  /\ r.reason = "spent" => Unheard(r.tx)
WhyInv == \A r \in why : Excused(r)
LaunchInv == LaunchTyped /\ NetInv /\ TxInv /\ PlanInv /\ ChainInv /\ WhyInv
-----------------------------------------------------------------------------
(* What the i-th record of a launch is.                                    *)
Nth(f, i) ==
  IF i = 1 THEN <<"create", 0>> ELSE IF i = 2 THEN <<"name", 0>>
  ELSE IF i = 3 /\ f.about THEN <<"about", 0>> ELSE <<"logo", i - 3 - Extras(f)>>
HowMany(f) == 2 + Extras(f) + f.pieces
Wanted(f, r) ==
  \/ r = <<"create", 0>> \/ r = <<"name", 0>> \/ (r = <<"about", 0>> /\ f.about)
  \/ (r = <<"logo", r[2]>> /\ r[2] \in 0 .. f.pieces - 1)

LEMMA RecordsAre ==
  ASSUME NEW f, IsForm(f)
  PROVE  /\ Records(f) \in Seq(RecordSet) /\ Len(Records(f)) = HowMany(f)
         /\ \A i \in 1 .. HowMany(f) : Records(f)[i] = Nth(f, i)
<1>1. PICK first : first = <<<<"create", 0>>, <<"name", 0>>>>
  OBVIOUS
<1>2. PICK desc : desc = IF f.about THEN <<<<"about", 0>>>> ELSE <<>>
  OBVIOUS
<1>3. PICK logo : logo = [i \in 1 .. f.pieces |-> <<"logo", i - 1>>]
  OBVIOUS
<1>4. f.pieces \in Nat /\ Extras(f) \in Nat /\ ((Extras(f) = 0 /\ ~f.about) \/ (Extras(f) = 1 /\ f.about))
  BY DEF Extras, IsForm
<1>5. /\ first \in Seq(RecordSet) /\ Len(first) = 2 /\ first[1] = <<"create", 0>> /\ first[2] = <<"name", 0>>
      /\ desc \in Seq(RecordSet) /\ Len(desc) = Extras(f) /\ (f.about => desc[1] = <<"about", 0>>)
      /\ logo \in Seq(RecordSet) /\ Len(logo) = f.pieces /\ \A i \in 1 .. f.pieces : logo[i] = <<"logo", i - 1>>
  <2>1. first \in Seq(RecordSet) /\ Len(first) = 2 /\ first[1] = <<"create", 0>> /\ first[2] = <<"name", 0>>
    BY <1>1 DEF RecordSet
  <2>2. desc \in Seq(RecordSet) /\ Len(desc) = Extras(f) /\ (f.about => desc[1] = <<"about", 0>>)
    BY <1>2 DEF RecordSet, Extras
  <2>3. \A i \in 1 .. f.pieces : <<"logo", i - 1>> \in RecordSet
    BY <1>4 DEF RecordSet
  <2>4. logo \in [1 .. f.pieces -> RecordSet] /\ \A i \in 1 .. f.pieces : logo[i] = <<"logo", i - 1>>
    BY <1>3, <2>3
  <2>5. logo \in Seq(RecordSet)
    BY <1>4, <2>4, SeqDef
  <2>6. Len(logo) = f.pieces
    BY <1>4, <2>4, <2>5, LenProperties
  <2> QED
    BY <2>1, <2>2, <2>4, <2>5, <2>6
<1>6. PICK both : both = first \o desc
  OBVIOUS
<1>7. PICK all : all = both \o logo
  OBVIOUS
<1>9. both \in Seq(RecordSet) /\ Len(both) = 2 + Extras(f)
  <2>1. both \in Seq(RecordSet) /\ Len(both) = Len(first) + Len(desc)
    BY <1>5, <1>6, ConcatProperties
  <2> QED
    BY <1>4, <1>5, <2>1
<1>11. ASSUME NEW i \in 1 .. 2 + Extras(f) PROVE both[i] = IF i <= 2 THEN first[i] ELSE desc[i - 2]
  <2>1. \A k \in 1 .. Len(first) + Len(desc) : (first \o desc)[k] = IF k <= Len(first) THEN first[k] ELSE desc[k - Len(first)]
    BY <1>5, ConcatProperties
  <2>2. i \in Nat /\ i \in 1 .. Len(first) + Len(desc)
    BY <1>4, <1>5
  <2> QED
    BY <1>5, <1>6, <2>1, <2>2
<1>12. all \in Seq(RecordSet) /\ Len(all) = HowMany(f)
  BY <1>4, <1>5, <1>7, <1>9, ConcatProperties DEF HowMany
<1>13. ASSUME NEW i \in 1 .. HowMany(f)
       PROVE  i \in Nat /\ all[i] = IF i <= 2 + Extras(f) THEN both[i] ELSE logo[i - (2 + Extras(f))]
  <2>1. \A k \in 1 .. Len(both) + Len(logo) : (both \o logo)[k] = IF k <= Len(both) THEN both[k] ELSE logo[k - Len(both)]
    BY <1>5, <1>9, ConcatProperties
  <2>2. i \in Nat /\ i \in 1 .. Len(both) + Len(logo)
    BY <1>4, <1>5, <1>9 DEF HowMany
  <2> QED
    BY <1>5, <1>7, <1>9, <2>1, <2>2
<1>8. Records(f) = all
  BY <1>1, <1>2, <1>3, <1>6, <1>7 DEF Records
<1>10. ASSUME NEW i \in 1 .. HowMany(f) PROVE all[i] = Nth(f, i)
  <2>0. HowMany(f) = 2 + Extras(f) + f.pieces
    BY DEF HowMany
  <2>1. CASE i <= 2
    <3>1. (i = 1 \/ i = 2) /\ i \in 1 .. 2 + Extras(f) /\ i <= 2 + Extras(f)
      BY <1>4, <1>13, <2>1
    <3>2. all[i] = first[i]
      BY <1>11, <1>13, <2>1, <3>1
    <3> QED
      BY <1>5, <3>1, <3>2 DEF Nth
  <2>2. CASE i > 2 /\ i <= 2 + Extras(f)
    <3>1. i = 3 /\ f.about
      BY <1>4, <2>2
    <3> QED
      BY <1>4, <1>5, <1>11, <1>13, <3>1 DEF Nth
  <2>3. CASE i > 2 + Extras(f)
    <3>1. i - (2 + Extras(f)) \in 1 .. f.pieces
      BY <1>4, <2>0, <2>3
    <3>2. all[i] = <<"logo", i - (2 + Extras(f)) - 1>>
      BY <1>4, <1>5, <1>13, <2>0, <2>3, <3>1
    <3>3. ~(i = 1) /\ ~(i = 2) /\ ~(i = 3 /\ f.about) /\ i - (2 + Extras(f)) - 1 = i - 3 - Extras(f)
      BY <1>4, <2>3
    <3> QED
      BY <3>2, <3>3 DEF Nth
  <2> QED
    BY <1>4, <2>1, <2>2, <2>3
<1> QED
  BY <1>8, <1>10, <1>12

(* A record of the list, and the one that follows it.                      *)
LEMMA NthIsWanted ==
  ASSUME NEW f, IsForm(f), NEW i \in 1 .. HowMany(f)
  PROVE  /\ Wanted(f, Nth(f, i)) /\ Place(Nth(f, i)) \in Nat /\ Place(Nth(f, i)) > 0 /\ Owed(f, Nth(f, i)) \in Int
         /\ i + 1 \in 1 .. HowMany(f) =>
              /\ Place(Nth(f, i)) < Place(Nth(f, i + 1))
              /\ Owed(f, Nth(f, i + 1)) = Owed(f, Nth(f, i)) - (IF Nth(f, i)[1] = "create" THEN 0 ELSE 1)
<1>1. Extras(f) \in {0, 1} /\ (f.about <=> Extras(f) = 1) /\ f.pieces \in Nat /\ HowMany(f) = 2 + Extras(f) + f.pieces
  BY DEF Extras, IsForm, HowMany
<1>2. CASE i = 1
  <2>1. Nth(f, i) = <<"create", 0>> /\ Nth(f, i + 1) = <<"name", 0>>
    BY <1>2 DEF Nth
  <2> QED
    BY <1>1, <2>1 DEF Wanted, Place, Owed
<1>3. CASE i = 2
  <2>1. Nth(f, i) = <<"name", 0>> /\ Nth(f, i + 1) = IF f.about THEN <<"about", 0>> ELSE <<"logo", 0>>
    BY <1>1, <1>3 DEF Nth
  <2> QED
    BY <1>1, <2>1 DEF Wanted, Place, Owed
<1>4. CASE i = 3 /\ f.about
  <2>1. Nth(f, i) = <<"about", 0>> /\ Nth(f, i + 1) = <<"logo", 0>>
    BY <1>1, <1>4 DEF Nth
  <2> QED
    BY <1>1, <1>4, <2>1 DEF Wanted, Place, Owed
<1>5. CASE i > 3 \/ (i = 3 /\ ~f.about)
  <2>1. PICK j : j = i - 3 - Extras(f)
    OBVIOUS
  <2>2. i \in Nat /\ j \in 0 .. f.pieces - 1 /\ i + 1 - 3 - Extras(f) = j + 1
    BY <1>1, <1>5, <2>1
  <2>3. i # 1 /\ i # 2 /\ i + 1 # 1 /\ i + 1 # 2 /\ ~(i = 3 /\ f.about) /\ i + 1 # 3
    BY <1>5
  <2>4. Nth(f, i) = <<"logo", j>> /\ Nth(f, i + 1) = <<"logo", j + 1>>
    <3>1. Nth(f, i) = <<"logo", i - 3 - Extras(f)>> /\ Nth(f, i + 1) = <<"logo", i + 1 - 3 - Extras(f)>>
      BY <1>1, <2>2, <2>3 DEF Nth
    <3> QED
      BY <2>1, <2>2, <3>1
  <2> QED
    BY <1>1, <2>2, <2>4 DEF Wanted, Place, Owed
<1> QED
  BY <1>1, <1>2, <1>3, <1>4, <1>5

(* The first of the records left, and the records after it.                *)
LEMMA NextRecord ==
  ASSUME NEW f, IsForm(f), NEW s, Unmade(f, s)
  PROVE  /\ s \in Seq(RecordSet) /\ s # <<>> /\ Head(s) \in RecordSet /\ Wanted(f, Head(s))
         /\ Place(Head(s)) \in Nat /\ Place(Head(s)) > 0 /\ Owed(f, Head(s)) \in Int
         /\ Tail(s) # <<>> =>
              /\ Unmade(f, Tail(s)) /\ Place(Head(s)) < Place(Head(Tail(s)))
              /\ Owed(f, Head(Tail(s))) = Owed(f, Head(s)) - (IF Kind(s) = "create" THEN 0 ELSE 1)
<1>1. Len(Records(f)) = HowMany(f) /\ \A i \in 1 .. HowMany(f) : Records(f)[i] = Nth(f, i)
  BY RecordsAre
<1>2. HowMany(f) \in Nat
  BY DEF IsForm, Extras, HowMany
<1>3. PICK k \in 1 .. HowMany(f) :
        /\ s \in Seq(RecordSet) /\ Len(s) = HowMany(f) + 1 - k
        /\ \A i \in 1 .. Len(s) : s[i] = Records(f)[k + i - 1]
  BY <1>1 DEF Unmade
<1>4. s # <<>>
  BY <1>2, <1>3
<1>5. Head(s) = s[1] /\ 1 \in 1 .. Len(s)
  BY <1>2, <1>3, <1>4
<1>6. Head(s) = Nth(f, k)
  BY <1>1, <1>2, <1>3, <1>5
<1>7. /\ Head(s) \in RecordSet /\ Tail(s) \in Seq(RecordSet) /\ Len(Tail(s)) = Len(s) - 1
      /\ \A i \in 1 .. Len(Tail(s)) : Tail(s)[i] = s[i + 1]
  BY <1>3, <1>4, HeadTailProperties
<1>8. ASSUME Tail(s) # <<>> PROVE k + 1 \in 1 .. HowMany(f) /\ Head(Tail(s)) = Nth(f, k + 1) /\ Unmade(f, Tail(s))
  <2>1. Len(Tail(s)) \in Nat \ {0}
    BY <1>7, <1>8, EmptySeq
  <2>2. k + 1 \in 1 .. HowMany(f) /\ Len(Tail(s)) = HowMany(f) + 1 - (k + 1)
    BY <1>2, <1>3, <1>7, <2>1
  <2>3. \A i \in 1 .. Len(Tail(s)) : Tail(s)[i] = Records(f)[k + 1 + i - 1]
    <3> SUFFICES ASSUME NEW i \in 1 .. Len(Tail(s)) PROVE Tail(s)[i] = Records(f)[k + 1 + i - 1]
      OBVIOUS
    <3>1. i + 1 \in 1 .. Len(s) /\ k + (i + 1) - 1 = k + 1 + i - 1
      BY <1>2, <1>3, <1>7, <2>1
    <3> QED
      BY <1>3, <1>7, <3>1
  <2>4. Head(Tail(s)) = Records(f)[k + 1]
    <3>1. 1 \in 1 .. Len(Tail(s)) /\ k + 1 + 1 - 1 = k + 1 /\ Head(Tail(s)) = Tail(s)[1]
      BY <1>7, <1>8, <2>1
    <3> QED
      BY <2>3, <3>1
  <2> QED
    BY <1>1, <1>7, <2>2, <2>3, <2>4 DEF Unmade
<1> QED
  BY <1>3, <1>4, <1>6, <1>7, <1>8, NthIsWanted DEF Kind
-----------------------------------------------------------------------------
LEMMA LaunchNumbers ==
  /\ FirstBuy \in Nat /\ DustSat \in Nat /\ CreateFee \in Nat /\ MetaFee \in Nat
  /\ MaxInputs \in Nat /\ Rounds \in Nat /\ Outrun \in Nat /\ PowMaxAge \in Nat
BY LaunchAssumption

(* What is left of a purse is a number.                                    *)
LEMMA WorthIsInt == ASSUME NEW purse \in Seq(Nat), NEW k \in 0 .. Len(purse) PROVE Worth(purse, k) \in Int
<1>1. Worth(purse, k) = Total(purse, 1 .. k)
  BY DEF Worth, Total
<1>2. k \in Int /\ IsFiniteSet(1 .. k)
  BY FS_Interval, LenProperties
<1>3. \A y \in 1 .. k : purse[y] \in Int
  BY <1>2, ElementOfSeq, LenProperties
<1> QED
  BY <1>1, <1>2, <1>3, TotalIsInt

LEMMA SelectedIsInt ==
  ASSUME NEW purse \in Seq(Nat), NEW need, Selected(purse, need) # {}
  PROVE  Max(Selected(purse, need)) \in Int
<1>1. PICK most : most = IF Len(purse) > MaxInputs THEN MaxInputs ELSE Len(purse)
  OBVIOUS
<1>2. PICK enough : enough = {k \in 1 .. most : Worth(purse, k) >= need}
  OBVIOUS
<1>3. Len(purse) \in Nat /\ most \in Nat /\ most <= Len(purse)
  BY <1>1, LaunchNumbers, LenProperties
<1>4. Selected(purse, need) = IF enough = {} THEN {} ELSE {Worth(purse, Min(enough))}
  BY <1>1, <1>2 DEF Selected
<1>5. enough # {} /\ enough \subseteq 1 .. most /\ enough \in SUBSET Nat
  BY <1>2, <1>3, <1>4
<1>6. Min(enough) \in 0 .. Len(purse)
  <2>1. Min(enough) \in enough
    BY <1>5, MinOf
  <2>2. Min(enough) \in 1 .. most
    BY <1>5, <2>1
  <2> QED
    BY <1>3, <2>2
<1>7. PICK v : v = Worth(purse, Min(enough))
  OBVIOUS
<1>8. v \in Int
  BY <1>6, <1>7, WorthIsInt
<1>9. Selected(purse, need) = {v} /\ v >= v
  BY <1>4, <1>5, <1>7, <1>8
<1>10. Max({v}) = v
  BY <1>8, <1>9 DEF Max
<1> QED
  BY <1>8, <1>9, <1>10

(* A record that the change does not pay for is one that nobody counted.   *)
LEMMA Uncounted ==
  ASSUME NEW f, IsForm(f), NEW r, Wanted(f, r), NEW money \in Int, money >= MetaFee * Owed(f, r) + DustSat,
         ~(money >= MetaFee + DustSat), r[1] # "create"
  PROVE  f.about /\ IF f.pieces = 0 THEN r[1] = "about" ELSE r = <<"logo", f.pieces - 1>>
<1>1. f.pieces \in Nat /\ Extras(f) \in Nat /\ ((Extras(f) = 0 /\ ~f.about) \/ (Extras(f) = 1 /\ f.about))
  BY DEF Extras, IsForm
<1>2. ASSUME NEW n \in Int, n >= 1, n = Owed(f, r) PROVE FALSE
  <2>1. MetaFee * n >= MetaFee
    <3>1. \A k \in Nat : MetaFee * (k + 1) = MetaFee * k + MetaFee /\ MetaFee * k >= 0
      BY LaunchNumbers
    <3>2. n - 1 \in Nat /\ n = n - 1 + 1
      BY <1>2
    <3> QED
      BY <3>1, <3>2, LaunchNumbers
  <2> QED
    BY <1>2, <2>1, LaunchNumbers
<1>3. CASE r = <<"name", 0>>
  <2>1. Owed(f, r) = f.pieces + 1
    BY <1>3 DEF Owed
  <2> QED
    BY <1>1, <1>2, <2>1
<1>4. CASE r = <<"about", 0>> /\ f.about
  <2>1. Owed(f, r) = f.pieces
    BY <1>4 DEF Owed
  <2> QED
    BY <1>1, <1>2, <1>4, <2>1
<1>5. CASE r = <<"logo", r[2]>> /\ r[2] \in 0 .. f.pieces - 1
  <2>1. Owed(f, r) = f.pieces - r[2] - Extras(f) /\ r[2] \in Int
    <3>1. r[1] = "logo" /\ r[2] \in Int
      BY <1>1, <1>5
    <3> QED
      BY <3>1 DEF Owed
  <2>2. f.about /\ r[2] = f.pieces - 1 /\ f.pieces # 0
    BY <1>1, <1>2, <1>5, <2>1
  <2> QED
    BY <1>5, <2>2
<1> QED
  BY <1>3, <1>4, <1>5 DEF Wanted
-----------------------------------------------------------------------------
(* The rivals of a record that was called spent are never heard of: what   *)
(* the page hears of is what it sends, and it never sends them again.      *)
LEMMA StillExcused ==
  ASSUME WhyInv, got \subseteq got', heard' \subseteq heard \union (IF stage = "send" THEN {sending} ELSE {}),
         stage' = "send" => (stage = "send" /\ sending' = sending) \/ sending' \notin got
  PROVE  \A r \in why : Excused(r)'
<1>1. ASSUME NEW t, Unheard(t) PROVE Unheard(t)'
  <2>1. PICK w \in got \ heard : w # t /\ w[1] = t[1] /\ w[3] = t[3] /\ ~(stage = "send" /\ w = sending)
    BY <1>1 DEF Unheard
  <2>2. w \in got' \ heard'
    BY <2>1
  <2>3. ~(stage' = "send" /\ w = sending')
    BY <2>1
  <2> QED
    BY <2>1, <2>2, <2>3 DEF Unheard
<1> QED
  BY <1>1 DEF WhyInv, Excused

(* What the page has when it makes or sends a record.                      *)
LEMMA AtWork ==
  ASSUME LaunchInv, Active
  PROVE  /\ todo \in Seq(RecordSet) /\ todo # <<>> /\ Head(todo) \in RecordSet /\ Wanted(form, Head(todo))
         /\ Place(Head(todo)) \in Nat /\ Owed(form, Head(todo)) \in Int
         /\ Tail(todo) # <<>> =>
              /\ Unmade(form, Tail(todo)) /\ Place(Head(todo)) < Place(Head(Tail(todo)))
              /\ Owed(form, Head(Tail(todo))) = Owed(form, Head(todo)) - (IF Kind(todo) = "create" THEN 0 ELSE 1)
         /\ change >= MetaFee * Owed(form, Head(todo)) + DustSat
         /\ IsForm(form)
BY NextRecord DEF LaunchInv, LaunchTyped, PlanInv, Paid

LEMMA PlaceOfTx ==
  ASSUME TxInv, NEW t \in got
  PROVE  Place(t[2]) \in Nat /\ t[2] \in RecordSet /\ t[1] \in Nat /\ t[1] <= forges
<1>1. t[2] \in RecordSet /\ t[1] \in Nat /\ t[1] <= forges
  BY DEF TxInv, IsTx
<1>2. \A r \in RecordSet : Place(r) \in Nat
  BY DEF RecordSet, Place
<1> QED
  BY <1>1, <1>2

(* The record under way is not one of those before it, and nothing that    *)
(* the page heard of spends what it spends.                                *)
LEMMA UnderWay ==
  ASSUME LaunchInv, stage = "send"
  PROVE  /\ IsTx(sending) /\ sending[1] = forges /\ sending[2] = Head(todo) /\ sending[3] = at
         /\ sending[4] = (IF Kind(todo) = "create" THEN tpl ELSE 0)
         /\ Active /\ ask # <<>> /\ ask \in Seq(Nodes) /\ Head(ask) \in Nodes /\ Tail(ask) \in Seq(Nodes)
         /\ at = NoTx \/ (at \in got /\ Place(at[2]) < Place(sending[2]))
         /\ \A t \in heard : t[1] = forges => t[3] # at /\ Place(t[2]) < Place(sending[2])
         /\ sending \notin heard
<1>1. Active
  BY DEF Active
<1>2. sending = <<forges, Head(todo), at, IF Kind(todo) = "create" THEN tpl ELSE 0>> /\ ask # <<>>
  BY <1>1 DEF LaunchInv, PlanInv
<1>3. ask \in Seq(Nodes) /\ tpl \in Nat /\ forges \in Nat
  BY DEF LaunchInv, LaunchTyped
<1>4. Head(ask) \in Nodes /\ Tail(ask) \in Seq(Nodes)
  BY <1>2, <1>3, HeadTailProperties
<1>5. Head(todo) \in RecordSet
  BY <1>1, AtWork
<1>6. sending[1] = forges /\ sending[2] = Head(todo) /\ sending[3] = at /\ sending[4] = (IF Kind(todo) = "create" THEN tpl ELSE 0)
  BY <1>2
<1>7. IsTx(sending)
  BY <1>2, <1>3, <1>5, <1>6 DEF IsTx
<1>8. at = NoTx \/ (at \in got /\ Place(at[2]) < Place(sending[2]))
  BY <1>1, <1>6 DEF LaunchInv, ChainInv
<1>9. \A t \in heard : t[1] = forges => t[3] # at /\ Place(t[2]) < Place(sending[2])
  BY <1>1, <1>6 DEF LaunchInv, ChainInv
<1> QED
  BY <1>1, <1>2, <1>3, <1>4, <1>6, <1>7, <1>8, <1>9

(* A node that takes a transaction.                                        *)
LEMMA Stored ==
  ASSUME LaunchInv, NEW n \in Nodes, NEW t, Mineable(t), pools' = [pools EXCEPT ![n] = @ \union {t}],
         got' = got \union {t}, height' = height, mined' = mined
  PROVE  NetInv' /\ pools' \in [Nodes -> SUBSET got'] /\ mined' \subseteq got' /\ \A m \in Nodes : pools[m] \subseteq pools'[m]
<1>1. pools \in [Nodes -> SUBSET got] /\ mined \subseteq got
  BY DEF LaunchInv, LaunchTyped
<1>2. \A m \in Nodes : pools'[m] = IF m = n THEN pools[m] \union {t} ELSE pools[m]
  BY <1>1
<1>3. \A w : Mineable(w)' <=> Mineable(w)
  BY DEF Mineable, ProofHolds, Rival
<1>4. \A m \in Nodes : \A w \in pools'[m] : Mineable(w)'
  BY <1>2, <1>3 DEF LaunchInv, NetInv
<1>5. \A w : Lapsed(w) => Lapsed(w)'
  BY DEF Lapsed, ProofHolds, Rival
<1>6. ASSUME NEW w \in got' PROVE w \in mined' \/ (\E m \in Nodes : w \in pools'[m]) \/ Lapsed(w)'
  <2>1. CASE w = t
    BY <1>2, <2>1
  <2>2. CASE w \in got
    BY <1>2, <1>5, <2>2 DEF LaunchInv, NetInv
  <2> QED
    BY <2>1, <2>2
<1>7. NetInv'
  BY <1>4, <1>6 DEF NetInv
<1>8. pools' \in [Nodes -> SUBSET got']
  BY <1>1
<1> QED
  BY <1>1, <1>2, <1>7, <1>8

LEMMA NetIdle ==
  ASSUME LaunchInv, UNCHANGED netVars, got' = got
  PROVE  NetInv' /\ pools' \in [Nodes -> SUBSET got'] /\ mined' \subseteq got'
BY DEF LaunchInv, LaunchTyped, NetInv, Mineable, Lapsed, ProofHolds, Rival, netVars
-----------------------------------------------------------------------------
LEMMA SmallerStill == \A a, b, c \in Nat : a < b /\ b < c => a < c
OBVIOUS

LEMMA OneFeeLess == \A k \in Int : MetaFee * (k - 1) = MetaFee * k - MetaFee
BY LaunchNumbers

LEMMA FeeTaken ==
  ASSUME NEW f, NEW r, NEW q, NEW fee \in {0, 1}, NEW money \in Int, NEW left, Owed(f, r) \in Int,
         Owed(f, q) = Owed(f, r) - fee, money >= MetaFee * Owed(f, r) + DustSat,
         left = money \/ (fee = 1 /\ left = money - MetaFee)
  PROVE  left >= MetaFee * Owed(f, q) + DustSat
<1>1. PICK o \in Int : o = Owed(f, r)
  OBVIOUS
<1>2. PICK m \in Int : m = MetaFee * o
  BY <1>1, LaunchNumbers
<1>3. MetaFee * (o - 1) = m - MetaFee /\ o - 0 = o
  BY <1>2, OneFeeLess
<1>4. MetaFee * Owed(f, q) = IF fee = 0 THEN m ELSE m - MetaFee
  BY <1>1, <1>2, <1>3
<1>5. money >= m + DustSat
  BY <1>1, <1>2
<1> QED
  BY <1>2, <1>4, <1>5, LaunchNumbers

(* What follows when a record was given up, and when it was sent.          *)
LEMMA GivenUp ==
  ASSUME LaunchInv, stage \in {"build", "send"}, GiveUp, UNCHANGED <<form, tpl, checked, forges, sending>>,
         heard' = heard, got' = got \/ (stage = "send" /\ got' = got \union {sending})
  PROVE  PlanInv' /\ ChainInv' /\ stage' \in {"idle", "build", "done"} /\ change' \in Int
<1>1. stage' \in {"idle", "build", "done"} /\ change' = change /\ at' = at /\ change \in Int
  BY DEF GiveUp, LaunchInv, LaunchTyped
<1>2. SUFFICES ASSUME Active' PROVE PlanInv' /\ ChainInv'
  BY <1>1 DEF PlanInv, ChainInv
<1>3. Kind(todo) = "about" /\ todo' = Tail(todo) /\ Tail(todo) # <<>> /\ stage' = "build"
  BY <1>2 DEF GiveUp, Active
<1>4. Active
  BY DEF Active
<1>5. /\ Unmade(form, Tail(todo)) /\ Place(Head(todo)) < Place(Head(Tail(todo))) /\ Place(Head(todo)) \in Nat
      /\ Owed(form, Head(Tail(todo))) = Owed(form, Head(todo)) - 1 /\ Owed(form, Head(todo)) \in Int
      /\ change >= MetaFee * Owed(form, Head(todo)) + DustSat
  BY <1>3, <1>4, AtWork
<1>6. Place(Head(Tail(todo))) \in Nat
  BY <1>5, <1>4, AtWork, NextRecord
<1>7. PlanInv'
  <2>1. change >= MetaFee * Owed(form, Head(Tail(todo))) + DustSat
    BY <1>1, <1>5, FeeTaken
  <2>3. Paid(form', todo', change')
    BY <1>1, <1>3, <2>1 DEF Paid
  <2>4. checked' - tpl' <= Outrun
    BY <1>4 DEF LaunchInv, PlanInv
  <2> QED
    BY <1>3, <1>5, <2>3, <2>4 DEF PlanInv
<1>8. ChainInv'
  <2>1. at' = NoTx \/ (at' \in got' /\ at'[1] = forges' /\ Place(at'[2]) < Place(Head(todo')))
    <3>1. at = NoTx \/ (at \in got /\ at[1] = forges /\ Place(at[2]) < Place(Head(todo)))
      BY <1>4 DEF LaunchInv, ChainInv
    <3>2. at \in got => Place(at[2]) \in Nat
      BY PlaceOfTx DEF LaunchInv
    <3> QED
      BY <1>1, <1>3, <1>5, <1>6, <3>1, <3>2
  <2>2. ASSUME NEW t \in got', t[1] = forges' PROVE Place(t[2]) < Place(Head(todo'))
    <3>1. CASE t \in got /\ ~(stage = "send" /\ t = sending)
      <4>1. Place(t[2]) < Place(Head(todo))
        BY <1>4, <2>2, <3>1 DEF LaunchInv, ChainInv
      <4>2. Place(t[2]) \in Nat
        BY <3>1, PlaceOfTx DEF LaunchInv
      <4> QED
        BY <1>3, <1>5, <1>6, <4>1, <4>2
    <3>2. CASE stage = "send" /\ t = sending
      <4>1. t[2] = Head(todo)
        BY <3>2, UnderWay
      <4> QED
        BY <1>3, <1>5, <4>1
    <3> QED
      BY <3>1, <3>2
  <2>3. ASSUME NEW t \in heard, t[1] = forges PROVE t[3] # at /\ Place(t[2]) < Place(Head(todo'))
    <3>1. t[3] # at /\ Place(t[2]) < Place(Head(todo))
      BY <1>4, <2>3 DEF LaunchInv, ChainInv
    <3>2. Place(t[2]) \in Nat
      BY PlaceOfTx DEF LaunchInv, LaunchTyped
    <3> QED
      BY <1>3, <1>5, <1>6, <3>1, <3>2
  <2> QED
    BY <1>1, <2>1, <2>2, <2>3 DEF ChainInv
<1> QED
  BY <1>7, <1>8

LEMMA SentOn ==
  ASSUME LaunchInv, stage = "send", Sent, UNCHANGED <<form, tpl, checked, forges, sending>>, got' = got \union {sending}
  PROVE  PlanInv' /\ ChainInv' /\ stage' \in {"build", "done"} /\ change' \in Int
<1>1. stage' \in {"build", "done"} /\ at' = sending /\ heard' = heard \union {sending} /\ todo' = Tail(todo)
  BY DEF Sent
<1>2. /\ Active /\ IsTx(sending) /\ sending[1] = forges /\ sending[2] = Head(todo) /\ sending[3] = at
      /\ at = NoTx \/ (at \in got /\ Place(at[2]) < Place(sending[2]))
      /\ \A t \in heard : t[1] = forges => t[3] # at /\ Place(t[2]) < Place(sending[2])
  BY UnderWay
<1>3. change' \in Int /\ change' = (IF Kind(todo) = "create" THEN change ELSE change - MetaFee) /\ change \in Int
  BY LaunchNumbers DEF Sent, LaunchInv, LaunchTyped
<1>4. SUFFICES ASSUME Active' PROVE PlanInv' /\ ChainInv'
  BY <1>1, <1>3 DEF PlanInv, ChainInv
<1>5. Tail(todo) # <<>> /\ stage' = "build"
  BY <1>4 DEF Sent, Active
<1>6. /\ Unmade(form, Tail(todo)) /\ Place(Head(todo)) < Place(Head(Tail(todo))) /\ Place(Head(todo)) \in Nat
      /\ Owed(form, Head(Tail(todo))) = Owed(form, Head(todo)) - (IF Kind(todo) = "create" THEN 0 ELSE 1)
      /\ Owed(form, Head(todo)) \in Int /\ change >= MetaFee * Owed(form, Head(todo)) + DustSat
  BY <1>2, <1>5, AtWork
<1>7. Place(Head(todo)) < Place(Head(Tail(todo))) /\ Place(Head(todo)) \in Nat
  BY <1>6
<1>8. Place(Head(Tail(todo))) \in Nat
  BY <1>2, <1>6, AtWork, NextRecord
<1>9. PlanInv'
  <2>1. change' >= MetaFee * Owed(form, Head(Tail(todo))) + DustSat
    <3>1. CASE Kind(todo) = "create"
      <4>1. change' = change /\ Owed(form, Head(Tail(todo))) = Owed(form, Head(todo)) - 0
        BY <1>3, <1>6, <3>1
      <4> QED
        BY <1>3, <1>6, <4>1, FeeTaken
    <3>2. CASE Kind(todo) # "create"
      <4>1. change' = change - MetaFee /\ Owed(form, Head(Tail(todo))) = Owed(form, Head(todo)) - 1
        BY <1>3, <1>6, <3>2
      <4> QED
        BY <1>3, <1>6, <4>1, FeeTaken
    <3> QED
      BY <3>1, <3>2
  <2>3. Paid(form', todo', change')
    BY <1>1, <2>1 DEF Paid
  <2>4. checked' - tpl' <= Outrun
    BY <1>2 DEF LaunchInv, PlanInv
  <2> QED
    BY <1>1, <1>5, <1>6, <2>3, <2>4 DEF PlanInv
<1>10. \A t \in got : t[1] = forges => Place(t[2]) < Place(Head(todo)) \/ t = sending
  BY <1>2 DEF LaunchInv, ChainInv
<1>11. \A t \in got' : t[1] = forges => Place(t[2]) < Place(Head(Tail(todo)))
  <2> SUFFICES ASSUME NEW t \in got', t[1] = forges PROVE Place(t[2]) < Place(Head(Tail(todo)))
    OBVIOUS
  <2>1. CASE t = sending
    BY <1>2, <1>6, <2>1
  <2>2. CASE t \in got /\ t # sending
    <3>1. Place(t[2]) \in Nat
      BY <2>2, PlaceOfTx DEF LaunchInv
    <3>2. Place(t[2]) < Place(Head(todo))
      BY <1>10, <2>2
    <3> QED
      BY <1>7, <1>8, <3>1, <3>2, SmallerStill, Zenon
  <2> QED
    BY <2>1, <2>2
<1>12. ASSUME NEW t \in heard', t[1] = forges PROVE t[3] # sending
  <2>1. sending # NoTx
    BY <1>2 DEF IsTx, NoTx
  <2>2. CASE t = sending
    BY <1>2, <1>6, <2>1, <2>2
  <2>3. CASE t \in heard
    <3>1. t \in got
      BY <2>3 DEF LaunchInv, LaunchTyped
    <3>2. Place(t[2]) \in Nat /\ (t[3] = NoTx \/ Place(t[3][2]) < Place(t[2]))
      BY <3>1, PlaceOfTx DEF LaunchInv, TxInv
    <3>3. Place(t[2]) < Place(sending[2])
      BY <1>2, <1>12, <2>3
    <3> QED
      BY <1>2, <1>6, <2>1, <3>2, <3>3
  <2> QED
    BY <1>1, <2>2, <2>3
<1>13. heard' \subseteq got'
  BY <1>1 DEF LaunchInv, LaunchTyped
<1>14. ChainInv'
  BY <1>1, <1>2, <1>11, <1>12, <1>13 DEF ChainInv
<1> QED
  BY <1>9, <1>14
-----------------------------------------------------------------------------
LEMMA LaunchStarts == ASSUME LaunchInit PROVE LaunchInv
<1>1. stage = "idle" /\ got = {} /\ why = {} /\ heard = {} /\ mined = {} /\ pools = [n \in Nodes |-> {}]
  BY DEF LaunchInit
<1>2. LaunchTyped
  <2>1. ask \in Seq(Nodes) /\ IsForm(form)
    BY DEF LaunchInit, NoForm, IsForm
  <2>2. height \in Nat /\ tpl \in Nat /\ checked \in Nat /\ forges \in Nat /\ change \in Int /\ round \in 0 .. Rounds
    BY LaunchNumbers DEF LaunchInit
  <2> QED
    BY <1>1, <2>1, <2>2 DEF LaunchTyped
<1> QED
  BY <1>1, <1>2 DEF LaunchInv, NetInv, TxInv, PlanInv, ChainInv, WhyInv, Active

(* What the steps of the page that send nothing leave as it is.            *)
LEMMA PageStep ==
  ASSUME LaunchInv, UNCHANGED <<netVars, sending, got, heard, why>>, forges' \in Nat, forges <= forges',
         stage' = "send" => stage = "send"
  PROVE  /\ NetInv' /\ TxInv' /\ WhyInv' /\ height' \in Nat
         /\ pools' \in [Nodes -> SUBSET got'] /\ mined' \subseteq got' /\ heard' \subseteq got'
<1>1. NetInv' /\ pools' \in [Nodes -> SUBSET got'] /\ mined' \subseteq got'
  BY NetIdle
<1>2. \A r \in why' : Excused(r)'
  BY StillExcused DEF LaunchInv
<1>3. TxInv'
  <2> SUFFICES ASSUME NEW t \in got PROVE IsTx(t) /\ t[1] <= forges' /\ (t[3] = NoTx \/ Place(t[3][2]) < Place(t[2]))
    BY DEF TxInv
  <2>1. IsTx(t) /\ t[1] <= forges /\ (t[3] = NoTx \/ Place(t[3][2]) < Place(t[2]))
    BY DEF LaunchInv, TxInv
  <2>2. t[1] \in Nat /\ forges \in Nat
    BY <2>1 DEF IsTx, LaunchInv, LaunchTyped
  <2> QED
    BY <2>1, <2>2
<1>4. heard' \subseteq got' /\ height' \in Nat
  BY DEF LaunchInv, LaunchTyped, netVars
<1> QED
  BY <1>1, <1>2, <1>3, <1>4 DEF WhyInv

LEMMA ForgeStep == ASSUME LaunchInv, NEW f \in Forms, NEW purse \in Purses, Forge(f, purse) PROVE LaunchInv'
<1>1. UNCHANGED <<netVars, tpl, checked, sending, ask, unheard, got, heard, why>> /\ at' = NoTx /\ form' = f /\ round' = 0
  BY DEF Forge
<1>2. forges \in Nat /\ forges' = forges + 1 /\ change \in Int
  BY DEF Forge, LaunchInv, LaunchTyped
<1>3. IsForm(f) /\ purse \in Seq(Nat)
  BY LaunchAssumption DEF IsForm
<1>4. PICK sums : sums = Selected(purse, FirstBuy + DustSat + CreateFee)
  OBVIOUS
<1>5. \/ sums = {} /\ stage' = "idle" /\ change' = change
      \/ /\ sums # {} /\ change' = Max(sums) - FirstBuy - DustSat - CreateFee /\ todo' = Records(f)
         /\ stage' = IF Room(change', f) THEN "template" ELSE "idle"
  BY <1>4 DEF Forge
<1>6. change' \in Int /\ stage' \in {"idle", "template"} /\ (stage' = "template" => todo' = Records(f) /\ Room(change', f))
  <2>1. CASE sums = {}
    BY <1>2, <1>5, <2>1
  <2>2. CASE sums # {}
    <3>1. Max(sums) \in Int
      BY <1>3, <1>4, <2>2, SelectedIsInt
    <3> QED
      BY <1>5, <2>2, <3>1, LaunchNumbers
  <2> QED
    BY <2>1, <2>2
<1>7. /\ NetInv' /\ TxInv' /\ WhyInv' /\ height' \in Nat
      /\ pools' \in [Nodes -> SUBSET got'] /\ mined' \subseteq got' /\ heard' \subseteq got'
  <2>1. forges' \in Nat /\ forges <= forges' /\ stage' # "send"
    BY <1>2, <1>6
  <2> QED
    BY <1>1, <2>1, PageStep
<1>8. LaunchTyped'
  <2>1. IsForm(form') /\ tpl' \in Nat /\ checked' \in Nat /\ ask' \in Seq(Nodes) /\ forges' \in Nat /\ round' \in 0 .. Rounds
    BY <1>1, <1>2, <1>3, LaunchNumbers DEF LaunchInv, LaunchTyped
  <2> QED
    BY <1>6, <1>7, <2>1 DEF LaunchTyped
<1>9. \A t \in got' : t[1] # forges'
  <2> SUFFICES ASSUME NEW t \in got PROVE t[1] # forges'
    BY <1>1
  <2>1. t[1] \in Nat /\ t[1] <= forges
    BY PlaceOfTx DEF LaunchInv
  <2> QED
    BY <1>2, <2>1
<1>10. ASSUME Active' PROVE PlanInv'
  <2>1. stage' = "template" /\ todo' = Records(f) /\ Room(change', f)
    BY <1>6, <1>10 DEF Active
  <2>2. /\ Records(f) \in Seq(RecordSet) /\ Len(Records(f)) = HowMany(f)
        /\ \A i \in 1 .. HowMany(f) : Records(f)[i] = Nth(f, i)
    BY <1>3, RecordsAre
  <2>3. HowMany(f) \in Nat /\ HowMany(f) >= 2 /\ f.pieces \in Nat
    BY <1>3 DEF HowMany, IsForm, Extras
  <2>4. Unmade(f, Records(f))
    <3>1. 1 \in 1 .. Len(Records(f)) /\ Len(Records(f)) = Len(Records(f)) + 1 - 1
      BY <2>2, <2>3
    <3>2. \A i \in 1 .. Len(Records(f)) : Records(f)[i] = Records(f)[1 + i - 1]
      BY <2>2, <2>3
    <3> QED
      BY <2>2, <3>1, <3>2 DEF Unmade
  <2>5. Head(Records(f)) = <<"create", 0>>
    <3>1. Records(f)[1] = Nth(f, 1) /\ Records(f) # <<>>
      BY <2>2, <2>3
    <3>2. Nth(f, 1) = <<"create", 0>>
      BY DEF Nth
    <3> QED
      BY <2>2, <3>1, <3>2
  <2>6. Owed(f, Head(Records(f))) = 1 + f.pieces
    BY <2>3, <2>5 DEF Owed
  <2>7. Paid(form', todo', change')
    BY <1>1, <2>1, <2>6 DEF Paid, Room
  <2> QED
    BY <1>1, <2>1, <2>4, <2>7 DEF PlanInv
<1>11. PlanInv'
  BY <1>10 DEF PlanInv
<1>12. ChainInv'
  <2>1. heard' \subseteq got' /\ at' = NoTx
    BY <1>1, <1>7
  <2> QED
    BY <1>9, <2>1 DEF ChainInv
<1> QED
  BY <1>7, <1>8, <1>11, <1>12 DEF LaunchInv

(* The steps up to the record of the create.                               *)
LEMMA ProofStep == ASSUME LaunchInv, Template \/ MinePow \/ Recheck PROVE LaunchInv'
<1>1. /\ UNCHANGED <<netVars, form, change, at, todo, sending, ask, forges, unheard, got, heard, why>>
      /\ stage \in {"template", "mine", "recheck"} /\ stage' \in {"idle", "template", "mine", "recheck", "build"}
  BY DEF Template, MinePow, Recheck
<1>2. height \in Nat /\ tpl \in Nat /\ checked \in Nat /\ round \in 0 .. Rounds
  BY DEF LaunchInv, LaunchTyped
<1>3. tpl' \in Nat /\ checked' \in Nat /\ round' \in 0 .. Rounds
  BY <1>2, LaunchNumbers DEF Template, MinePow, Recheck, AnotherRound
<1>4. stage' = "build" => checked' - tpl' <= Outrun
  <2> SUFFICES ASSUME stage' = "build" PROVE checked' - tpl' <= Outrun
    OBVIOUS
  <2>1. Recheck
    BY DEF Template, MinePow
  <2> QED
    BY <1>2, <2>1, LaunchNumbers DEF Recheck, IsOutrun
<1>5. Active /\ stage # "send"
  BY <1>1 DEF Active
<1>6. /\ NetInv' /\ TxInv' /\ WhyInv' /\ height' \in Nat
      /\ pools' \in [Nodes -> SUBSET got'] /\ mined' \subseteq got' /\ heard' \subseteq got'
  <2>1. forges' \in Nat /\ forges <= forges'
    BY <1>1 DEF LaunchInv, LaunchTyped
  <2> QED
    BY <1>1, <2>1, PageStep
<1>7. LaunchTyped'
  <2>1. IsForm(form') /\ ask' \in Seq(Nodes) /\ forges' \in Nat /\ change' \in Int
    BY <1>1 DEF LaunchInv, LaunchTyped
  <2> QED
    BY <1>1, <1>3, <1>6, <2>1 DEF LaunchTyped
<1>8. PlanInv'
  <2>1. Unmade(form', todo') /\ Paid(form', todo', change')
    BY <1>1, <1>5 DEF LaunchInv, PlanInv
  <2> QED
    BY <1>1, <1>4, <2>1 DEF PlanInv
<1>9. ChainInv'
  BY <1>1, <1>5 DEF LaunchInv, ChainInv
<1> QED
  BY <1>6, <1>7, <1>8, <1>9 DEF LaunchInv

LEMMA StopStep == ASSUME LaunchInv, Stop PROVE LaunchInv'
<1>1. /\ UNCHANGED <<netVars, form, round, tpl, checked, change, at, sending, ask, forges, got, heard, why>>
      /\ stage' = "idle"
  BY DEF Stop
<1>2. /\ NetInv' /\ TxInv' /\ WhyInv' /\ height' \in Nat
      /\ pools' \in [Nodes -> SUBSET got'] /\ mined' \subseteq got' /\ heard' \subseteq got'
  <2>1. forges' \in Nat /\ forges <= forges' /\ stage' # "send"
    BY <1>1 DEF LaunchInv, LaunchTyped
  <2> QED
    BY <1>1, <2>1, PageStep
<1>3. LaunchTyped'
  BY <1>1, <1>2 DEF LaunchInv, LaunchTyped
<1> QED
  BY <1>1, <1>2, <1>3 DEF LaunchInv, PlanInv, ChainInv, Active
-----------------------------------------------------------------------------
LEMMA SomeNode == Cardinality(Nodes) \in Nat /\ Cardinality(Nodes) >= 1
BY LaunchAssumption, FS_CardinalityType, FS_EmptySet

LEMMA OrderOfNodes == ASSUME NEW order \in SetToSeqs(Nodes) PROVE order \in Seq(Nodes) /\ order # <<>>
<1>1. order \in [1 .. Cardinality(Nodes) -> Nodes]
  BY DEF SetToSeqs
<1>2. order \in Seq(Nodes)
  BY <1>1, SomeNode, SeqDef
<1>3. Len(order) = Cardinality(Nodes)
  BY <1>1, <1>2, SomeNode, LenProperties
<1> QED
  BY <1>2, <1>3, SomeNode, EmptySeq

LEMMA BuildStep == ASSUME LaunchInv, Build PROVE LaunchInv'
<1>1. stage = "build" /\ Active /\ UNCHANGED <<netVars, form, round, tpl, checked, forges, unheard, got, heard>>
  BY DEF Build, Active
<1>2. /\ NetInv' /\ pools' \in [Nodes -> SUBSET got'] /\ mined' \subseteq got'
      /\ TxInv' /\ heard' \subseteq got' /\ height' \in Nat
  <2>1. NetInv' /\ pools' \in [Nodes -> SUBSET got'] /\ mined' \subseteq got'
    BY <1>1, NetIdle
  <2> QED
    BY <1>1, <2>1 DEF LaunchInv, TxInv, LaunchTyped, netVars
<1>3. IsForm(form') /\ tpl' \in Nat /\ checked' \in Nat /\ forges' \in Nat /\ round' \in 0 .. Rounds
  BY <1>1 DEF LaunchInv, LaunchTyped
<1>4. CASE Fits /\ Affordable
  <2>1. /\ sending' = <<forges, Head(todo), at, IF Kind(todo) = "create" THEN tpl ELSE 0>>
        /\ ask' \in SetToSeqs(Nodes) /\ stage' = "send" /\ UNCHANGED <<change, at, todo, why>>
    BY <1>4 DEF Build
  <2>2. ask' \in Seq(Nodes) /\ ask' # <<>>
    BY <2>1, OrderOfNodes
  <2>3. LaunchTyped'
    BY <1>2, <1>3, <2>1, <2>2 DEF LaunchInv, LaunchTyped
  <2>4. \A t \in got : t[1] = forges => Place(t[2]) < Place(Head(todo))
    BY <1>1 DEF LaunchInv, ChainInv
  <2>5. sending' \notin got
    <3>1. sending'[1] = forges /\ sending'[2] = Head(todo) /\ Place(Head(todo)) \in Nat
      BY <1>1, <2>1, AtWork
    <3> QED
      BY <2>4, <3>1
  <2>6. PlanInv'
    BY <1>1, <2>1, <2>2 DEF LaunchInv, PlanInv
  <2>7. ChainInv'
    BY <1>1, <2>1, <2>4 DEF LaunchInv, ChainInv
  <2>8. WhyInv'
    <3>1. heard' \subseteq heard \union (IF stage = "send" THEN {sending} ELSE {}) /\ got \subseteq got'
      BY <1>1
    <3>2. \A r \in why : Excused(r)'
      BY <2>1, <2>5, <3>1, StillExcused DEF LaunchInv
    <3> QED
      BY <2>1, <3>2 DEF WhyInv
  <2> QED
    BY <1>2, <2>3, <2>6, <2>7, <2>8 DEF LaunchInv
<1>5. CASE ~(Fits /\ Affordable)
  <2>1. GiveUp /\ Blamed(Head(todo), IF Fits THEN "funds" ELSE "bytes", NoTx) /\ UNCHANGED <<sending, ask>>
    BY <1>5 DEF Build
  <2>2. PlanInv' /\ ChainInv' /\ stage' \in {"idle", "build", "done"} /\ change' \in Int
    BY <1>1, <2>1, GivenUp
  <2>3. LaunchTyped'
    <3>1. ask' \in Seq(Nodes)
      BY <2>1 DEF LaunchInv, LaunchTyped
    <3> QED
      BY <1>2, <1>3, <2>2, <3>1 DEF LaunchTyped
  <2>4. \A r \in why : Excused(r)'
    <3>1. heard' \subseteq heard \union (IF stage = "send" THEN {sending} ELSE {}) /\ got \subseteq got'
      BY <1>1
    <3> QED
      BY <2>2, <3>1, StillExcused DEF LaunchInv
  <2>5. ASSUME NEW r \in why', r \notin why PROVE Excused(r)'
    <3>1. r.record = Head(todo) /\ r.reason = (IF Fits THEN "funds" ELSE "bytes") /\ r.form = form
      BY <2>1, <2>5 DEF Blamed
    <3>2. CASE ~Fits
      <4>1. r.reason = "bytes"
        BY <3>1, <3>2
      <4> QED
        BY <4>1 DEF Excused
    <3>3. CASE Fits
      <4>1. r.reason = "funds" /\ ~Affordable
        BY <1>5, <3>1, <3>3
      <4>2. Kind(todo) # "create" /\ ~(change >= MetaFee + DustSat)
        BY <4>1 DEF Affordable
      <4>3. /\ Wanted(form, Head(todo)) /\ IsForm(form)
            /\ change >= MetaFee * Owed(form, Head(todo)) + DustSat
        BY <1>1, AtWork
      <4>4. change \in Int
        BY DEF LaunchInv, LaunchTyped
      <4>5. form.about /\ IF form.pieces = 0 THEN Head(todo)[1] = "about" ELSE Head(todo) = <<"logo", form.pieces - 1>>
        BY <4>2, <4>3, <4>4, Uncounted DEF Kind
      <4> QED
        BY <3>1, <4>1, <4>5 DEF Excused
    <3> QED
      BY <3>2, <3>3
  <2>6. WhyInv'
    BY <2>4, <2>5 DEF WhyInv
  <2> QED
    BY <1>2, <2>2, <2>3, <2>6 DEF LaunchInv
<1> QED
  BY <1>4, <1>5

(* What the page does not see.                                             *)
LEMMA Unseen ==
  ASSUME LaunchInv, UNCHANGED <<pageState, unheard, got, heard, why>>, NetInv', height' \in Nat,
         pools' \in [Nodes -> SUBSET got], mined' \subseteq got
  PROVE  LaunchInv'
<1>1. UNCHANGED <<form, stage, round, tpl, checked, change, at, todo, sending, ask, forges>>
  BY DEF pageState
<1>2. LaunchTyped'
  BY <1>1 DEF LaunchInv, LaunchTyped
<1>3. TxInv' /\ PlanInv' /\ ChainInv'
  BY <1>1 DEF LaunchInv, TxInv, PlanInv, ChainInv, Active
<1>4. WhyInv'
  BY <1>1 DEF LaunchInv, WhyInv, Excused, Unheard
<1> QED
  BY <1>2, <1>3, <1>4 DEF LaunchInv

LEMMA RelayStep == ASSUME LaunchInv, NEW n \in Nodes, NEW m \in Nodes, NEW t, Relay(n, m, t) PROVE LaunchInv'
<1>1. /\ t \in pools[n] /\ Takes(m, t) /\ pools' = [pools EXCEPT ![m] = @ \union {t}]
      /\ UNCHANGED <<height, mined, pageState, unheard, got, heard, why>>
  BY DEF Relay
<1>2. t \in got /\ got' = got \union {t}
  BY <1>1 DEF LaunchInv, LaunchTyped
<1>3. Mineable(t)
  BY <1>1 DEF Takes, Mineable, Rival
<1>4. NetInv' /\ pools' \in [Nodes -> SUBSET got'] /\ mined' \subseteq got'
  BY <1>1, <1>2, <1>3, Stored
<1>5. height' \in Nat /\ got' = got
  BY <1>1 DEF LaunchInv, LaunchTyped
<1> QED
  BY <1>1, <1>4, <1>5, Unseen

LEMMA ConfirmStep == ASSUME LaunchInv, NEW S \in {pools[n] : n \in Nodes} \union {{}}, Confirm(S) PROVE LaunchInv'
<1>1. PICK dead : dead = {t \in got : t \notin mined' /\ (Rival(t, mined') \/ (t[2][1] = "create" /\ height' - t[4] > PowMaxAge))}
  OBVIOUS
<1>2. height' = height + 1 /\ mined' = mined \union S /\ UNCHANGED <<pageState, unheard, got, heard, why>>
  BY DEF Confirm
<1>3. pools \in [Nodes -> SUBSET got] /\ mined \subseteq got /\ height \in Nat
  BY DEF LaunchInv, LaunchTyped
<1>4. S \subseteq got /\ \A w \in S : Mineable(w)
  BY <1>3 DEF LaunchInv, NetInv
<1>5. /\ pools' \in [Nodes -> SUBSET got]
      /\ \A n \in Nodes : \A t : t \in pools'[n] <=>
           t \in pools[n] /\ t \notin mined' /\ \A w \in pools[n] : w \in dead /\ w[1] = t[1] => Place(w[2]) > Place(t[2])
  <2>1. pools' = [n \in Nodes |->
          {t \in pools[n] \ mined' : \A w \in pools[n] :
             (w \notin mined' /\ (Rival(w, mined') \/ (w[2][1] = "create" /\ height' - w[4] > PowMaxAge))) /\ w[1] = t[1]
               => Place(w[2]) > Place(t[2])}]
    BY DEF Confirm
  <2>2. \A n \in Nodes : pools[n] \subseteq got
    BY <1>3
  <2>3. \A n \in Nodes : \A w \in pools[n] :
          w \in dead <=> (w \notin mined' /\ (Rival(w, mined') \/ (w[2][1] = "create" /\ height' - w[4] > PowMaxAge)))
    BY <1>1, <2>2
  <2>4. \A n \in Nodes : pools'[n] =
          {t \in pools[n] \ mined' : \A w \in pools[n] :
             (w \notin mined' /\ (Rival(w, mined') \/ (w[2][1] = "create" /\ height' - w[4] > PowMaxAge))) /\ w[1] = t[1]
               => Place(w[2]) > Place(t[2])}
    BY <2>1
  <2>5. pools' \in [Nodes -> SUBSET got]
    BY <2>1, <2>2
  <2> QED
    BY <2>3, <2>4, <2>5
<1>6. \A t \in got : Place(t[2]) \in Nat /\ t[4] \in Nat
  BY PlaceOfTx DEF LaunchInv, TxInv, IsTx
<1>7. \A t \in got : t \in dead <=> t \notin mined' /\ (Rival(t, mined') \/ ~ProofHolds(t)')
  <2> SUFFICES ASSUME NEW t \in got PROVE (t[2][1] = "create" /\ height' - t[4] > PowMaxAge) <=> ~ProofHolds(t)'
    BY <1>1
  <2>1. height' \in Nat /\ t[4] \in Nat /\ PowMaxAge \in Nat
    BY <1>2, <1>3, <1>6, LaunchNumbers
  <2> QED
    BY <2>1 DEF ProofHolds
<1>8. ASSUME NEW n \in Nodes, NEW t \in pools'[n] PROVE Mineable(t)'
  <2>1. t \in pools[n] /\ t \in got /\ t \notin mined' /\ ~(t \in dead)
    <3>1. t \in pools[n] /\ t \in got /\ t \notin mined' /\ (t \in dead => Place(t[2]) > Place(t[2]))
      BY <1>3, <1>5, <1>8
    <3> QED
      BY <1>6, <3>1
  <2> QED
    BY <1>7, <2>1 DEF Mineable, Rival
<1>9. \A w \in got : ~ProofHolds(w) => ~ProofHolds(w)'
  <2> SUFFICES ASSUME NEW w \in got, ~ProofHolds(w) PROVE ~ProofHolds(w)'
    OBVIOUS
  <2>1. height' = height + 1 /\ w[4] \in Nat /\ PowMaxAge \in Nat
    BY <1>2, <1>6, LaunchNumbers
  <2> QED
    BY <1>3, <2>1 DEF ProofHolds
<1>10. \A w : Rival(w, mined) => Rival(w, mined')
  BY <1>2 DEF Rival
<1>11. ASSUME NEW t \in got, Lapsed(t) PROVE Lapsed(t)'
  <2>1. PICK w \in got \ mined : w[1] = t[1] /\ Place(w[2]) <= Place(t[2]) /\ (~ProofHolds(w) \/ Rival(w, mined))
    BY <1>11 DEF Lapsed
  <2>2. w \notin S
    BY <1>4, <2>1 DEF Mineable
  <2>3. w \in got' \ mined' /\ (~ProofHolds(w)' \/ Rival(w, mined'))
    BY <1>2, <1>9, <1>10, <2>1, <2>2
  <2> QED
    BY <2>1, <2>3 DEF Lapsed, Rival
<1>12. ASSUME NEW t \in got PROVE t \in mined' \/ (\E n \in Nodes : t \in pools'[n]) \/ Lapsed(t)'
  <2>1. t \in mined \/ (\E n \in Nodes : t \in pools[n]) \/ Lapsed(t)
    BY DEF LaunchInv, NetInv
  <2>2. ASSUME NEW n \in Nodes, t \in pools[n], t \notin mined', t \notin pools'[n] PROVE Lapsed(t)'
    <3>1. PICK w \in pools[n] : w \in dead /\ w[1] = t[1] /\ ~(Place(w[2]) > Place(t[2]))
      BY <1>5, <2>2
    <3>2. w \in got /\ Place(w[2]) <= Place(t[2])
      BY <1>3, <1>6, <3>1
    <3>3. w \in got' \ mined' /\ (Rival(w, mined') \/ ~ProofHolds(w)')
      BY <1>2, <1>7, <3>1, <3>2
    <3> QED
      BY <3>1, <3>2, <3>3 DEF Lapsed, Rival
  <2> QED
    BY <1>2, <1>11, <2>1, <2>2
<1>13. NetInv'
  BY <1>2, <1>8, <1>12 DEF NetInv
<1>14. height' \in Nat /\ mined' \subseteq got
  BY <1>2, <1>3, <1>4
<1> QED
  BY <1>2, <1>5, <1>13, <1>14, Unseen
-----------------------------------------------------------------------------
LEMMA AskedNext ==
  ASSUME LaunchInv, stage = "send", AskNext, UNCHANGED <<form, tpl, checked, forges, sending>>,
         got' = got \/ got' = got \union {sending}
  PROVE  /\ PlanInv' /\ ChainInv' /\ stage' \in {"idle", "build", "send", "done"} /\ change' \in Int
         /\ ask' \in Seq(Nodes) /\ heard' = heard
<1>1. ask' = Tail(ask) /\ heard' = heard /\ Tail(ask) \in Seq(Nodes) /\ Active
  BY UnderWay DEF AskNext
<1>2. CASE ask' = <<>>
  <2>1. GiveUp
    BY <1>2 DEF AskNext
  <2>2. PlanInv' /\ ChainInv' /\ stage' \in {"idle", "build", "done"} /\ change' \in Int
    BY <1>1, <2>1, GivenUp
  <2> QED
    BY <1>1, <2>2
<1>3. CASE ask' # <<>>
  <2>1. UNCHANGED <<stage, todo, change, at>>
    BY <1>3 DEF AskNext
  <2>2. PlanInv'
    BY <1>1, <1>3, <2>1 DEF LaunchInv, PlanInv
  <2>3. ChainInv'
    BY <1>1, <2>1 DEF LaunchInv, ChainInv
  <2> QED
    BY <1>1, <2>1, <2>2, <2>3 DEF LaunchInv, LaunchTyped
<1> QED
  BY <1>2, <1>3

(* After a broadcast, what the page has, what the nodes have, and what is  *)
(* known make the invariant.                                               *)
LEMMA Told ==
  ASSUME LaunchInv, stage = "send", UNCHANGED <<height, mined, form, round, tpl, checked, sending, forges>>,
         got' = got \/ got' = got \union {sending}, heard' \subseteq got', heard' \subseteq heard \union {sending},
         NetInv', pools' \in [Nodes -> SUBSET got'], PlanInv', ChainInv',
         stage' \in {"idle", "build", "send", "done"}, change' \in Int, ask' \in Seq(Nodes),
         \A r \in why' : r \in why \/ Excused(r)'
  PROVE  LaunchInv'
<1>1. IsTx(sending) /\ sending[1] = forges /\ (sending[3] = NoTx \/ Place(sending[3][2]) < Place(sending[2]))
  BY UnderWay
<1>2. LaunchTyped'
  BY DEF LaunchInv, LaunchTyped
<1>3. forges \in Nat
  BY DEF LaunchInv, LaunchTyped
<1>4. TxInv'
  BY <1>1, <1>3 DEF LaunchInv, TxInv
<1>5. \A r \in why : Excused(r)'
  BY StillExcused DEF LaunchInv
<1> QED
  BY <1>2, <1>4, <1>5 DEF LaunchInv, WhyInv

LEMMA TooLate ==
  \A now, made, seen, age, margin \in Nat : ~(now - made <= age) /\ seen - made <= margin => now - seen > age - margin
OBVIOUS

(* Why a node refuses what is sent to it.                                  *)
LEMMA Refused ==
  ASSUME LaunchInv, stage = "send", UNCHANGED <<height, mined, pools, got, form, checked, sending>>,
         NEW n \in Nodes, ~Takes(n, sending), heard' = heard, NEW r,
         r.tx = sending /\ r.late = height - checked /\ r.form = form,
         r.parent = "lost" => ~(\E m \in Nodes : sending[3] \in pools[m]) /\ ~(sending[3] # NoTx /\ Lapsed(sending[3])),
         \/ r.reason = "unknown parent" /\ ~Knows(n, sending)
         \/ r.reason = "spent" /\ Rival(sending, pools[n] \union mined)
         \/ r.reason = "in a block"
         \/ r.reason = "stale" /\ ~ProofHolds(sending)
  PROVE  Excused(r)'
<1>1. /\ Active /\ sending[1] = forges /\ sending[3] = at /\ IsTx(sending) /\ sending[2] = Head(todo)
      /\ sending[4] = (IF Kind(todo) = "create" THEN tpl ELSE 0)
      /\ at = NoTx \/ at \in got
      /\ \A t \in heard : t[1] = forges => t[3] # at
  BY UnderWay
<1>2. pools \in [Nodes -> SUBSET got] /\ mined \subseteq got /\ height \in Nat /\ tpl \in Nat /\ checked \in Nat
  BY DEF LaunchInv, LaunchTyped
<1>3. CASE r.reason = "unknown parent" /\ ~Knows(n, sending)
  <2>1. sending[3] # NoTx /\ sending[3] \in got /\ sending[3] \notin mined
    BY <1>1, <1>3 DEF Knows
  <2>2. (\E m \in Nodes : sending[3] \in pools[m]) \/ Lapsed(sending[3])
    BY <2>1 DEF LaunchInv, NetInv
  <2>3. r.tx[3] \in got' /\ r.parent # "lost"
    BY <2>1, <2>2
  <2> QED
    BY <1>3, <2>3 DEF Excused
<1>4. CASE r.reason = "spent" /\ Rival(sending, pools[n] \union mined)
  <2>1. PICK w \in pools[n] \union mined : w # sending /\ w[1] = sending[1] /\ w[3] = sending[3]
    BY <1>4 DEF Rival
  <2>2. w \in got /\ w \notin heard
    BY <1>1, <1>2, <2>1
  <2>3. Unheard(r.tx)'
    BY <2>1, <2>2 DEF Unheard
  <2> QED
    BY <1>4, <2>3 DEF Excused
<1>5. CASE r.reason = "in a block"
  BY <1>5 DEF Excused
<1>6. CASE r.reason = "stale" /\ ~ProofHolds(sending)
  <2>1. sending[4] = tpl /\ ~(height - tpl <= PowMaxAge)
    BY <1>1, <1>6 DEF ProofHolds, Kind
  <2>2. checked - tpl <= Outrun
    BY <1>1 DEF LaunchInv, PlanInv
  <2>3. r.late > PowMaxAge - Outrun
    <3>1. height - checked > PowMaxAge - Outrun
      BY <1>2, <2>1, <2>2, LaunchNumbers, TooLate, Zenon
    <3> QED
      BY <3>1
  <2> QED
    BY <1>6, <2>3 DEF Excused
<1> QED
  BY <1>3, <1>4, <1>5, <1>6

LEMMA BroadcastStep == ASSUME LaunchInv, Broadcast PROVE LaunchInv'
<1>1. stage = "send" /\ UNCHANGED <<height, mined, form, round, tpl, checked, sending, forges>>
  BY DEF Broadcast
<1>2. PICK n \in Nodes : n = Head(ask)
  BY <1>1, UnderWay
<1>3. /\ IsTx(sending) /\ sending \notin heard /\ pools \in [Nodes -> SUBSET got] /\ heard \subseteq got /\ mined \subseteq got
  BY <1>1, UnderWay DEF LaunchInv, LaunchTyped
<1>4. ASSUME sending \in pools[n] \/ Takes(n, sending) PROVE Mineable(sending)
  <2>1. CASE sending \in pools[n]
    BY <2>1 DEF LaunchInv, NetInv
  <2>2. CASE Takes(n, sending)
    BY <2>2 DEF Takes, Mineable, Rival
  <2> QED
    BY <1>4, <2>1, <2>2
<1>5. CASE /\ sending \in pools[n] \/ Takes(n, sending)
           /\ pools' = [pools EXCEPT ![n] = @ \union {sending}] /\ got' = got \union {sending} /\ Sent
  <2>1. NetInv' /\ pools' \in [Nodes -> SUBSET got']
    BY <1>1, <1>4, <1>5, Stored
  <2>2. PlanInv' /\ ChainInv' /\ stage' \in {"build", "done"} /\ change' \in Int
    BY <1>1, <1>5, SentOn
  <2>3. heard' = heard \union {sending} /\ ask' = <<>> /\ why' = why
    BY <1>5 DEF Sent
  <2>4. ask' \in Seq(Nodes) /\ heard' \subseteq got'
    BY <1>3, <1>5, <2>3
  <2> QED
    BY <1>1, <1>5, <2>1, <2>2, <2>3, <2>4, Told
<1>6. CASE /\ Takes(n, sending) /\ pools' = [pools EXCEPT ![n] = @ \union {sending}] /\ got' = got \union {sending}
           /\ AskNext /\ why' = why
  <2>1. NetInv' /\ pools' \in [Nodes -> SUBSET got']
    BY <1>1, <1>4, <1>6, Stored
  <2>2. /\ PlanInv' /\ ChainInv' /\ stage' \in {"idle", "build", "send", "done"} /\ change' \in Int
        /\ ask' \in Seq(Nodes) /\ heard' = heard
    BY <1>1, <1>6, AskedNext
  <2> QED
    BY <1>1, <1>3, <1>6, <2>1, <2>2, Told
<1>7. CASE AskNext /\ UNCHANGED <<pools, got, why>>
  <2>1. NetInv' /\ pools' \in [Nodes -> SUBSET got']
    BY <1>1, <1>7, NetIdle DEF netVars
  <2>2. /\ PlanInv' /\ ChainInv' /\ stage' \in {"idle", "build", "send", "done"} /\ change' \in Int
        /\ ask' \in Seq(Nodes) /\ heard' = heard
    BY <1>1, <1>7, AskedNext
  <2> QED
    BY <1>1, <1>3, <1>7, <2>1, <2>2, Told
<1>8. ASSUME UNCHANGED <<pools, got>>, sending \notin pools[n], ~Takes(n, sending), NEW reason,
             Blamed(sending[2], reason, sending), AskNext \/ (GiveUp /\ ask' = <<>> /\ UNCHANGED heard),
             \/ reason = "unknown parent" /\ ~Knows(n, sending)
             \/ reason = "spent" /\ Rival(sending, pools[n] \union mined)
             \/ reason = "in a block"
             \/ reason = "stale" /\ ~ProofHolds(sending)
      PROVE  LaunchInv'
  <2>1. NetInv' /\ pools' \in [Nodes -> SUBSET got']
    BY <1>1, <1>8, NetIdle DEF netVars
  <2>2. /\ PlanInv' /\ ChainInv' /\ stage' \in {"idle", "build", "send", "done"} /\ change' \in Int
        /\ ask' \in Seq(Nodes) /\ heard' = heard
    <3>1. CASE AskNext
      BY <1>1, <1>8, <3>1, AskedNext
    <3>2. CASE GiveUp /\ ask' = <<>> /\ UNCHANGED heard
      <4>1. PlanInv' /\ ChainInv' /\ stage' \in {"idle", "build", "done"} /\ change' \in Int
        BY <1>1, <1>8, <3>2, GivenUp
      <4> QED
        BY <3>2, <4>1
    <3> QED
      BY <1>8, <3>1, <3>2
  <2>3. ASSUME NEW r \in why', r \notin why PROVE Excused(r)'
    <3>1. /\ r.reason = reason /\ r.tx = sending /\ r.late = height - checked /\ r.form = form
          /\ r.parent = "lost" =>
               ~(\E m \in Nodes : sending[3] \in pools[m]) /\ ~(sending[3] # NoTx /\ Lapsed(sending[3]))
      <4>1. Blamed(sending[2], reason, sending)
        BY <1>8
      <4>2. \A q \in why' :
             \/ q \in why
             \/ /\ q.record = sending[2] /\ q.reason = reason /\ q.tx = sending /\ q.late = height - checked /\ q.form = form
                /\ q.parent = "lost" =>
                     ~(\E m \in Nodes : sending[3] \in pools[m]) /\ ~(sending[3] # NoTx /\ Lapsed(sending[3]))
        BY <4>1 DEF Blamed
      <4> QED
        BY <2>3, <4>2
    <3> QED
      BY <1>1, <1>8, <2>2, <3>1, Refused
  <2>4. \A r \in why' : r \in why \/ Excused(r)'
    BY <2>3
  <2> QED
    BY <1>1, <1>3, <1>8, <2>1, <2>2, <2>4, Told
<1>9. CASE /\ sending \notin pools[n] /\ ~Takes(n, sending) /\ UNCHANGED <<pools, got, unheard>>
           /\ CASE sending \notin mined /\ ~Knows(n, sending) ->
                     Blamed(sending[2], "unknown parent", sending) /\ GiveUp /\ ask' = <<>> /\ UNCHANGED heard
                [] Rival(sending, mined) -> Blamed(sending[2], "spent", sending) /\ GiveUp /\ ask' = <<>> /\ UNCHANGED heard
                [] OTHER -> AskNext /\ Blamed(sending[2], IF sending \in mined THEN "in a block"
                                                          ELSE IF ProofHolds(sending) THEN "spent" ELSE "stale", sending)
  <2>1. CASE sending \notin mined /\ ~Knows(n, sending) /\ Blamed(sending[2], "unknown parent", sending)
             /\ GiveUp /\ ask' = <<>> /\ UNCHANGED heard
    BY <1>8, <1>9, <2>1
  <2>2. CASE Rival(sending, mined) /\ Blamed(sending[2], "spent", sending) /\ GiveUp /\ ask' = <<>> /\ UNCHANGED heard
    <3>1. Rival(sending, pools[n] \union mined)
      BY <2>2 DEF Rival
    <3> QED
      BY <1>8, <1>9, <2>2, <3>1
  <2>3. CASE /\ ~(sending \notin mined /\ ~Knows(n, sending)) /\ AskNext
             /\ Blamed(sending[2], IF sending \in mined THEN "in a block"
                                   ELSE IF ProofHolds(sending) THEN "spent" ELSE "stale", sending)
    <3>1. CASE sending \in mined
      <4>1. Blamed(sending[2], "in a block", sending)
        BY <2>3, <3>1
      <4> QED
        BY <1>8, <1>9, <2>3, <4>1
    <3>2. CASE sending \notin mined /\ ProofHolds(sending)
      <4>1. Blamed(sending[2], "spent", sending)
        BY <2>3, <3>2
      <4>2. Rival(sending, pools[n] \union mined)
        BY <1>9, <2>3, <3>2 DEF Takes
      <4> QED
        BY <1>8, <1>9, <2>3, <4>1, <4>2
    <3>3. CASE sending \notin mined /\ ~ProofHolds(sending)
      <4>1. Blamed(sending[2], "stale", sending)
        BY <2>3, <3>3
      <4> QED
        BY <1>8, <1>9, <2>3, <3>3, <4>1
    <3> QED
      BY <3>1, <3>2, <3>3
  <2> QED
    BY <1>9, <2>1, <2>2, <2>3
<1>10. \/ /\ sending \in pools[n] \/ Takes(n, sending)
          /\ pools' = [pools EXCEPT ![n] = @ \union {sending}] /\ got' = got \union {sending} /\ Sent
       \/ /\ Takes(n, sending) /\ pools' = [pools EXCEPT ![n] = @ \union {sending}] /\ got' = got \union {sending}
          /\ AskNext /\ why' = why
       \/ AskNext /\ UNCHANGED <<pools, got, why>>
       \/ /\ sending \notin pools[n] /\ ~Takes(n, sending) /\ UNCHANGED <<pools, got, unheard>>
          /\ CASE sending \notin mined /\ ~Knows(n, sending) ->
                    Blamed(sending[2], "unknown parent", sending) /\ GiveUp /\ ask' = <<>> /\ UNCHANGED heard
               [] Rival(sending, mined) -> Blamed(sending[2], "spent", sending) /\ GiveUp /\ ask' = <<>> /\ UNCHANGED heard
               [] OTHER -> AskNext /\ Blamed(sending[2], IF sending \in mined THEN "in a block"
                                                         ELSE IF ProofHolds(sending) THEN "spent" ELSE "stale", sending)
  BY <1>2, Zenon DEF Broadcast
<1> QED
  BY <1>5, <1>6, <1>7, <1>9, <1>10

LEMMA LaunchStep == ASSUME LaunchInv, [LaunchNext]_launchVars PROVE LaunchInv'
<1>1. CASE UNCHANGED launchVars
  <2>1. UNCHANGED <<netVars, pageState, unheard, got, heard, why>>
    BY <1>1 DEF launchVars
  <2>2. NetInv' /\ pools' \in [Nodes -> SUBSET got'] /\ mined' \subseteq got'
    BY <2>1, NetIdle
  <2>3. height' \in Nat /\ got' = got
    BY <2>1 DEF netVars, LaunchInv, LaunchTyped
  <2> QED
    BY <2>1, <2>2, <2>3, Unseen
<1>2. CASE LaunchNext
  <2>1. CASE \E f \in Forms, purse \in Purses : Forge(f, purse)
    BY <2>1, ForgeStep
  <2>2. CASE Template \/ MinePow \/ Recheck
    BY <2>2, ProofStep
  <2>3. CASE Build
    BY <2>3, BuildStep
  <2>4. CASE Broadcast
    BY <2>4, BroadcastStep
  <2>5. CASE Stop
    BY <2>5, StopStep
  <2>6. CASE \E n, m \in Nodes : \E t \in pools[n] : Relay(n, m, t)
    BY <2>6, RelayStep
  <2>7. CASE \E S \in {pools[n] : n \in Nodes} \union {{}} : Confirm(S)
    BY <2>7, ConfirmStep
  <2> QED
    BY <1>2, <2>1, <2>2, <2>3, <2>4, <2>5, <2>6, <2>7 DEF LaunchNext
<1> QED
  BY <1>1, <1>2

LEMMA LaunchSound == ASSUME LaunchInv PROVE LaunchIsSound
<1>1. LaunchTypeOK
  <2>1. stage = "send" => ask # <<>> /\ todo # <<>>
    BY UnderWay, AtWork
  <2> QED
    BY <2>1 DEF LaunchTypeOK, LaunchInv, LaunchTyped
<1>2. BudgetHolds /\ ProofStaysFresh
  BY DEF LaunchInv, WhyInv, Excused, BudgetHolds, ProofStaysFresh
<1>3. RecordsChain
  BY DEF LaunchInv, WhyInv, Excused, Unheard, RecordsChain
<1> QED
  BY <1>1, <1>2, <1>3 DEF LaunchIsSound

(* What keeps the records of a launch from the chain has one of the named  *)
(* causes: the money the form did not count, a chain that outran the       *)
(* proof, a parent another node has or none can have any more, a spend     *)
(* the page never heard of.                                                *)
THEOREM TheLaunchIsSound == LaunchSpec => []LaunchIsSound
<1>1. LaunchInit => LaunchInv
  BY LaunchStarts
<1>2. LaunchInv /\ [LaunchNext]_launchVars => LaunchInv'
  BY LaunchStep
<1>3. LaunchInv => LaunchIsSound
  BY LaunchSound
<1> QED
  BY <1>1, <1>2, <1>3, PTL DEF LaunchSpec
-----------------------------------------------------------------------------
(* A script of one push, which is all it has.                              *)
Cells(d) == d \in Seq(Nat \union Tags) /\ Len(d) >= 1 /\ \A i \in 2 .. Len(d) : d[i] \in Nat
Whole(s) == s.push = Len(s.body) /\ Cells(s.body)
(* What a parser finds in a transaction of one output is what it finds in  *)
(* what that output pushes.                                                *)
LEMMA OneOutput ==
  ASSUME NEW s, Whole(s)
  PROVE  /\ First(Intent, <<s>>) = Intent(s.body) /\ First(Transfer, <<s>>) = Transfer(s.body)
         /\ First(HtlcAnchor, <<s>>) = HtlcAnchor(s.body) /\ First(Offer, <<s>>) = Offer(s.body)
         /\ First(Meta, <<s>>) = Meta(s.body) /\ First(Meta2, <<s>>) = Meta2(s.body)
         /\ First(LogoChunk, <<s>>) = LogoChunk(s.body)
<1>1. Pushed(s) = s.body
  BY SubSeqFull DEF Pushed, Whole, Cells
<1>2. PICK tx : tx = <<s>>
  OBVIOUS
<1>3. DOMAIN tx = {1} /\ tx[1] = s
  BY <1>2
<1>4. ASSUME NEW good \in SUBSET {1}, good # {} PROVE (CHOOSE i \in good : \A j \in good : i <= j) = 1
  <2>1. good = {1}
    BY <1>4
  <2>2. \E i \in good : \A j \in good : i <= j
    BY <2>1
  <2> QED
    BY <2>1, <2>2
<1>5. First(Intent, tx) = Intent(s.body)
  BY <1>1, <1>3, <1>4 DEF First
<1>6. First(Transfer, tx) = Transfer(s.body)
  BY <1>1, <1>3, <1>4 DEF First
<1>7. First(HtlcAnchor, tx) = HtlcAnchor(s.body)
  BY <1>1, <1>3, <1>4 DEF First
<1>8. First(Offer, tx) = Offer(s.body)
  BY <1>1, <1>3, <1>4 DEF First
<1>9. First(Meta, tx) = Meta(s.body)
  BY <1>1, <1>3, <1>4 DEF First
<1>10. First(Meta2, tx) = Meta2(s.body)
  BY <1>1, <1>3, <1>4 DEF First
<1>11. First(LogoChunk, tx) = LogoChunk(s.body)
  BY <1>1, <1>3, <1>4 DEF First
<1> QED
  BY <1>2, <1>5, <1>6, <1>7, <1>8, <1>9, <1>10, <1>11

(* The page's parsers and the index's accept the same cells, and read the  *)
(* same in them.                                                           *)
Fine(d) == /\ Len(d) >= 5 /\ d[1] = "M" /\ d[2] = 2 /\ d[4] <= DescMax /\ Len(d) >= 5 + d[4]
           /\ d[5 + d[4]] <= LinksMax /\ Len(d) = 5 + d[4] + d[5 + d[4]] /\ d[4] + d[5 + d[4]] > 0
LEMMA SameParsers ==
  ASSUME NEW s, Whole(s)
  PROVE  /\ ParseIntentFromScript(s) = Intent(s.body)
         /\ ParseOfferFromScript(s) = Offer(s.body)
         /\ ParseMetaFromScript(s) = Meta(s.body)
         /\ ParseMeta2FromScript(s) = Meta2(s.body)
         /\ ParseLogoChunkFromScript(s) = LogoChunk(s.body)
<1>1. PICK d : d = s.body
  OBVIOUS
<1>2. Pushed(s) = d /\ Len(d) \in Nat /\ \A i \in 2 .. Len(d) : d[i] \in Nat
  BY <1>1, SubSeqFull DEF Pushed, Whole, Cells
<1>3. ParseIntentFromScript(s) = Intent(d)
  BY <1>2 DEF ParseIntentFromScript, Intent
<1>4. ParseOfferFromScript(s) = Offer(d)
  BY <1>1 DEF ParseOfferFromScript, Offer
<1>5. ParseMetaFromScript(s) = Meta(d)
  BY <1>1, <1>2 DEF ParseMetaFromScript, Meta
<1>6. ParseMeta2FromScript(s) = Meta2(d)
  <2>1. PICK Good : Good = {k \in 0 .. DescMax : /\ Len(d) >= 5 /\ d[1] = "M" /\ d[2] = 2 /\ d[4] = k /\ Len(d) >= 5 + k
                                                  /\ d[5 + k] <= LinksMax /\ Len(d) = 5 + k + d[5 + k] /\ k + d[5 + k] > 0}
    OBVIOUS
  <2>2. Good \subseteq Nat /\ \A k \in Good : d[4] = k
    BY <2>1, LimitsAssumption
  <2>3. ASSUME Fine(d) PROVE Good = {d[4]}
    <3>1. d[4] \in Nat /\ d[4] \in 0 .. DescMax
      <4>1. Len(d) >= 5 /\ d[4] <= DescMax
        BY <2>3 DEF Fine
      <4>2. 4 \in 2 .. Len(d) /\ DescMax \in Nat
        BY <1>2, <4>1, LimitsAssumption
      <4> QED
        BY <1>2, <4>1, <4>2
    <3>2. d[4] \in Good
      BY <2>1, <2>3, <3>1 DEF Fine
    <3> QED
      BY <2>2, <3>2
  <2>4. ASSUME ~Fine(d) PROVE Good = {}
    <3>1. ASSUME NEW k \in Good PROVE FALSE
      BY <2>1, <2>4, <3>1 DEF Fine
    <3> QED
      BY <3>1
  <2>5. ParseMeta2FromScript(s) =
          {[cid |-> d[3], desc |-> SubSeq(d, 5, 4 + n), links |-> SubSeq(d, 6 + n, Len(d))] : n \in Good}
    BY <1>1, <2>1 DEF ParseMeta2FromScript
  <2>6. Meta2(d) = IF Fine(d) THEN {[cid |-> d[3], desc |-> SubSeq(d, 5, 4 + d[4]), links |-> SubSeq(d, 6 + d[4], Len(d))]} ELSE {}
    BY DEF Meta2, Fine
  <2> QED
    BY <2>3, <2>4, <2>5, <2>6
<1>7. ParseLogoChunkFromScript(s) = LogoChunk(d)
  BY <1>1, <1>2 DEF ParseLogoChunkFromScript, LogoChunk
<1> QED
  BY <1>1, <1>3, <1>4, <1>5, <1>6, <1>7

LEMMA PagesReadAlike == ASSUME NEW s, s.push = Len(s.body) => Whole(s) PROVE ReadsAlike(s)
<1> SUFFICES ASSUME Whole(s) PROVE ReadByPage(s) = {a \in ReadByIndex(<<s>>) : a[1] \notin {"transfer", "htlc"}}
  BY DEF ReadsAlike
<1>1. PICK d : d = s.body
  OBVIOUS
<1>2. ReadByPage(s) = Tagged("intent", Intent(d)) \union Tagged("offer", Offer(d)) \union Tagged("meta", Meta(d))
                      \union Tagged("meta2", Meta2(d)) \union Tagged("logo", LogoChunk(d))
  BY <1>1, SameParsers DEF ReadByPage
<1>3. ReadByIndex(<<s>>) =
        Tagged("intent", Intent(d)) \union Tagged("transfer", Transfer(d)) \union Tagged("htlc", HtlcAnchor(d))
        \union Tagged("offer", Offer(d)) \union Tagged("meta", Meta(d)) \union Tagged("meta2", Meta2(d))
        \union Tagged("logo", LogoChunk(d))
  BY <1>1, OneOutput DEF ReadByIndex
<1>4. ASSUME NEW kind, NEW answers, NEW a \in Tagged(kind, answers) PROVE a[1] = kind
  BY DEF Tagged
<1> QED
  BY <1>2, <1>3, <1>4

(* A text that stands in a payload is what is cut out of it there.         *)
LEMMA Cut ==
  ASSUME NEW S, NEW t \in Seq(S), NEW r, NEW a \in Int, NEW b \in Int,
         b = a + Len(t) - 1, \A i \in 1 .. Len(t) : r[a + i - 1] = t[i]
  PROVE  SubSeq(r, a, b) = t
<1>1. Len(t) \in Nat /\ b - a + 1 = Len(t) /\ (IF a <= b THEN b - a + 1 ELSE 0) = Len(t)
  BY LenProperties
<1>2. ASSUME NEW j \in a .. b PROVE r[j] \in S
  <2>1. PICK i \in 1 .. Len(t) : j = a + i - 1
    <3>1. j - a + 1 \in 1 .. Len(t) /\ j = a + (j - a + 1) - 1
      BY <1>1, <1>2
    <3> QED
      BY <3>1
  <2> QED
    BY <2>1, ElementOfSeq
<1>3. /\ SubSeq(r, a, b) \in Seq(S) /\ Len(SubSeq(r, a, b)) = IF a <= b THEN b - a + 1 ELSE 0
      /\ \A i \in 1 .. b - a + 1 : SubSeq(r, a, b)[i] = r[a + i - 1]
  BY <1>2, SubSeqProperties
<1>4. Len(SubSeq(r, a, b)) = Len(t) /\ \A i \in 1 .. Len(t) : SubSeq(r, a, b)[i] = t[i]
  BY <1>1, <1>3
<1> QED
  BY <1>3, <1>4, SeqEqual

(* What stands where in a payload of a head and a text behind it.          *)
Joins(h, t, r) ==
  /\ Len(r) = Len(h) + Len(t) /\ Len(h) \in Nat /\ Len(t) \in Nat
  /\ \A i \in 1 .. Len(h) : r[i] = h[i]
  /\ \A i \in 1 .. Len(t) : r[Len(h) + i] = t[i]
LEMMA Joined == ASSUME NEW S, NEW h \in Seq(S), NEW t \in Seq(S) PROVE h \o t \in Seq(S) /\ Joins(h, t, h \o t)
<1>1. Len(h) \in Nat /\ Len(t) \in Nat
  BY LenProperties
<1>2. /\ h \o t \in Seq(S) /\ Len(h \o t) = Len(h) + Len(t)
      /\ \A i \in 1 .. Len(h) + Len(t) : (h \o t)[i] = IF i <= Len(h) THEN h[i] ELSE t[i - Len(h)]
  BY ConcatProperties
<1>3. \A i \in 1 .. Len(h) : (h \o t)[i] = h[i]
  BY <1>1, <1>2
<1>4. ASSUME NEW i \in 1 .. Len(t) PROVE (h \o t)[Len(h) + i] = t[i]
  <2>1. Len(h) + i \in 1 .. Len(h) + Len(t) /\ ~(Len(h) + i <= Len(h)) /\ Len(h) + i - Len(h) = i
    BY <1>1
  <2> QED
    BY <1>2, <2>1
<1> QED
  BY <1>1, <1>2, <1>3, <1>4 DEF Joins

(* What stands where in a payload of two texts.                            *)
TwoTexts(h, t, n, u, r) ==
  /\ Len(t) \in Nat /\ Len(u) \in Nat /\ Len(r) = 5 + Len(t) + Len(u)
  /\ \A i \in 1 .. 4 : r[i] = h[i]
  /\ r[5 + Len(t)] = n
  /\ SubSeq(r, 5, 4 + Len(t)) = t
  /\ SubSeq(r, 6 + Len(t), Len(r)) = u
LEMMA TwoTextsJoined ==
  ASSUME NEW S, NEW h \in Seq(S), NEW t \in Seq(S), NEW u \in Seq(S), NEW n \in S, NEW r, Len(h) = 4,
         r = h \o t \o <<n>> \o u
  PROVE  TwoTexts(h, t, n, u, r)
<1>1. PICK q : q = h \o t
  OBVIOUS
<1>2. /\ q \in Seq(S) /\ Len(q) = 4 + Len(t) /\ Len(t) \in Nat
      /\ \A i \in 1 .. 4 : q[i] = h[i] /\ \A j \in 1 .. Len(t) : q[4 + j] = t[j]
  <2>1. /\ q \in Seq(S) /\ Len(q) = Len(h) + Len(t) /\ Len(h) \in Nat /\ Len(t) \in Nat
        /\ \A i \in 1 .. Len(h) : q[i] = h[i]
        /\ \A i \in 1 .. Len(t) : q[Len(h) + i] = t[i]
    <3>1. q \in Seq(S) /\ Joins(h, t, q)
      BY <1>1, Joined
    <3> QED
      BY <3>1 DEF Joins
  <2> QED
    BY <2>1
<1>3. PICK p : p = q \o <<n>>
  OBVIOUS
<1>4. /\ p \in Seq(S) /\ Len(p) = Len(q) + 1
      /\ \A i \in 1 .. Len(q) : p[i] = q[i] /\ p[Len(q) + 1] = n
  <2>1. PICK w : w = <<n>>
    OBVIOUS
  <2>2. w \in Seq(S) /\ Len(w) = 1 /\ w[1] = n
    BY <2>1
  <2>3. /\ p \in Seq(S) /\ Len(p) = Len(q) + Len(w) /\ Len(q) \in Nat /\ Len(w) \in Nat
        /\ \A i \in 1 .. Len(q) : p[i] = q[i]
        /\ \A i \in 1 .. Len(w) : p[Len(q) + i] = w[i]
    <3>1. p \in Seq(S) /\ Joins(q, w, p)
      BY <1>2, <1>3, <2>1, <2>2, Joined
    <3> QED
      BY <3>1 DEF Joins
  <2> QED
    BY <2>2, <2>3
<1>5. r = p \o u
  BY <1>1, <1>3
<1>6. /\ r \in Seq(S) /\ Len(r) = Len(p) + Len(u) /\ Len(p) \in Nat /\ Len(u) \in Nat
      /\ \A i \in 1 .. Len(p) : r[i] = p[i]
      /\ \A i \in 1 .. Len(u) : r[Len(p) + i] = u[i]
  <2>1. r \in Seq(S) /\ Joins(p, u, r)
    BY <1>4, <1>5, Joined
  <2> QED
    BY <2>1 DEF Joins
<1>7. \A i \in 1 .. 4 : r[i] = h[i]
  BY <1>2, <1>4, <1>6
<1>8. r[5 + Len(t)] = n
  BY <1>2, <1>4, <1>6
<1>9. SubSeq(r, 5, 4 + Len(t)) = t
  <2>1. ASSUME NEW i \in 1 .. Len(t) PROVE r[5 + i - 1] = t[i]
    <3>1. 4 + i \in 1 .. Len(q) /\ 4 + i \in 1 .. Len(p) /\ 5 + i - 1 = 4 + i
      BY <1>2, <1>4
    <3> QED
      BY <1>2, <1>4, <1>6, <3>1
  <2>2. 5 \in Int /\ 4 + Len(t) \in Int /\ 4 + Len(t) = 5 + Len(t) - 1
    BY <1>2
  <2> QED
    BY <2>1, <2>2, Cut
<1>10. SubSeq(r, 6 + Len(t), Len(r)) = u
  <2>1. 6 + Len(t) \in Int /\ Len(r) \in Int /\ Len(r) = (6 + Len(t)) + Len(u) - 1 /\ Len(p) = 5 + Len(t)
    <3>1. Len(p) = 5 + Len(t) /\ Len(t) \in Nat
      BY <1>2, <1>4
    <3>2. Len(r) = Len(p) + Len(u) /\ Len(u) \in Nat
      BY <1>6
    <3>3. PICK lr, lp, lt, lu : lr = Len(r) /\ lp = Len(p) /\ lt = Len(t) /\ lu = Len(u)
      OBVIOUS
    <3>4. lt \in Nat /\ lu \in Nat /\ lp = 5 + lt /\ lr = lp + lu
      BY <3>1, <3>2, <3>3
    <3>5. 6 + lt \in Int /\ lr \in Int /\ lr = (6 + lt) + lu - 1
      BY <3>4
    <3> QED
      BY <3>1, <3>3, <3>5
  <2>2. ASSUME NEW i \in 1 .. Len(u) PROVE r[(6 + Len(t)) + i - 1] = u[i]
    <3>1. (6 + Len(t)) + i - 1 = Len(p) + i
      BY <1>2, <2>1
    <3> QED
      BY <1>6, <3>1
  <2> QED
    BY <2>1, <2>2, Cut
<1> QED
  BY <1>2, <1>4, <1>6, <1>7, <1>8, <1>9, <1>10 DEF TwoTexts

(* A payload that goes on with a text is still a payload.                  *)
LEMMA CellsJoined ==
  ASSUME NEW h, NEW t \in Seq(Nat), Cells(h)
  PROVE  Cells(h \o t) /\ Joins(h, t, h \o t)
<1>1. PICK S : S = Nat \union Tags
  OBVIOUS
<1>2. h \in Seq(S) /\ t \in Seq(S)
  BY <1>1 DEF Cells
<1>3. h \o t \in Seq(S) /\ Joins(h, t, h \o t)
  BY <1>2, Joined
<1>4. PICK r : r = h \o t
  OBVIOUS
<1>5. /\ r \in Seq(S) /\ Len(r) = Len(h) + Len(t) /\ Len(h) \in Nat /\ Len(t) \in Nat
      /\ \A i \in 1 .. Len(h) : r[i] = h[i]
      /\ \A i \in 1 .. Len(t) : r[Len(h) + i] = t[i]
  BY <1>3, <1>4 DEF Joins
<1>6. ASSUME NEW i \in 2 .. Len(r) PROVE r[i] \in Nat
  <2>1. ASSUME i <= Len(h) PROVE r[i] \in Nat
    <3>1. i \in 1 .. Len(h) /\ i \in 2 .. Len(h)
      BY <1>5, <1>6, <2>1
    <3> QED
      BY <1>5, <3>1 DEF Cells
  <2>2. ASSUME ~(i <= Len(h)) PROVE r[i] \in Nat
    <3>1. i - Len(h) \in 1 .. Len(t) /\ Len(h) + (i - Len(h)) = i
      BY <1>5, <1>6, <2>2
    <3>2. r[i] = t[i - Len(h)]
      BY <1>5, <3>1
    <3> QED
      BY <3>1, <3>2, ElementOfSeq
  <2> QED
    BY <2>1, <2>2
<1>7. Len(r) >= 1
  BY <1>5 DEF Cells
<1> QED
  BY <1>1, <1>3, <1>4, <1>5, <1>6, <1>7 DEF Cells

(* What the index reads in a payload that is the only output.              *)
Reading(d) ==
  Tagged("intent", Intent(d)) \union Tagged("transfer", Transfer(d)) \union Tagged("htlc", HtlcAnchor(d))
  \union Tagged("offer", Offer(d)) \union Tagged("meta", Meta(d)) \union Tagged("meta2", Meta2(d))
  \union Tagged("logo", LogoChunk(d))
LEMMA ReadsBackFrom ==
  ASSUME NEW d, NEW what, Cells(d), Len(d) <= PushMax, Reading(d) = {what}
  PROVE  ReadsBack(d, what)
<1>1. PICK s : s = Script(d)
  OBVIOUS
<1>2. Whole(s) /\ s.body = d
  BY <1>1 DEF Whole, Script
<1>3. ReadByIndex(<<s>>) = Reading(d)
  BY <1>2, OneOutput DEF ReadByIndex, Reading
<1>4. Script(d) \in OpReturn({d})
  BY DEF OpReturn
<1> QED
  BY <1>1, <1>3, <1>4 DEF ReadsBack

LEMMA Limits ==
  /\ TickerMax \in Nat /\ NameMax \in Nat /\ DescMax \in Nat /\ LinksMax \in Nat /\ ChunkMax \in Nat /\ TotalMax \in Nat
  /\ PushMax \in Nat /\ PushMax = 5 + DescMax + LinksMax /\ PushMax = 7 + ChunkMax
  /\ TickerMax + NameMax <= DescMax + LinksMax /\ 8 <= PushMax
  BY LimitsAssumption

(* Each builder's payloads.                                                *)
LEMMA NamesReadBack ==
  ASSUME NEW cid \in Nat, NEW t \in Seq(Nat), NEW u \in Seq(Nat), NEW r \in MetaPayload(cid, t, u)
  PROVE  Cells(r) /\ ReadsBack(r, <<"meta", [cid |-> cid, ticker |-> t, name |-> u]>>)
<1>1. PICK h : h = <<"M", 1, cid, Len(t)>>
  OBVIOUS
<1>2. r = h \o t \o <<Len(u)>> \o u /\ Len(t) \in 1 .. TickerMax /\ InAlphabet(t) /\ Len(u) \in 1 .. NameMax
  BY <1>1 DEF MetaPayload
<1>3. Cells(h) /\ Len(h) = 4 /\ h[1] = "M" /\ h[2] = 1 /\ h[3] = cid /\ h[4] = Len(t)
  BY <1>1, LenProperties DEF Cells, Tags
<1>4. <<Len(u)>> \in Seq(Nat)
  BY LenProperties
<1>5. Cells(r)
  BY <1>2, <1>3, <1>4, CellsJoined
<1>6. PICK S : S = Nat \union Tags
  OBVIOUS
<1>7. h \in Seq(S) /\ t \in Seq(S) /\ u \in Seq(S) /\ Len(u) \in S
  <2>1. h \in Seq(S)
    BY <1>3, <1>6 DEF Cells
  <2>2. t \in Seq(S) /\ u \in Seq(S)
    BY <1>6
  <2>3. Len(u) \in S
    BY <1>6, LenProperties
  <2> QED
    BY <2>1, <2>2, <2>3
<1>8. TwoTexts(h, t, Len(u), u, r)
  BY <1>2, <1>3, <1>7, TwoTextsJoined
<1>9. r[1] = "M" /\ r[2] = 1 /\ r[3] = cid /\ r[4] = Len(t)
  BY <1>3, <1>8 DEF TwoTexts
<1>10. Len(r) <= PushMax
  <2>1. Len(r) = 5 + Len(t) + Len(u)
    BY <1>8 DEF TwoTexts
  <2> QED
    BY <1>2, <2>1, Limits
<1>11. Meta(r) = {[cid |-> cid, ticker |-> t, name |-> u]}
  <2>1. /\ SubSeq(r, 5, 4 + r[4]) = t /\ SubSeq(r, 6 + r[4], Len(r)) = u
        /\ r[4] \in 1 .. TickerMax /\ r[5 + r[4]] \in 1 .. NameMax
        /\ Len(r) = 5 + r[4] + r[5 + r[4]] /\ r[4] \in Nat /\ r[5 + r[4]] \in Nat
    BY <1>2, <1>8, <1>9 DEF TwoTexts
  <2>2. Len(r) >= 6 /\ Len(r) >= 5 + r[4]
    <3>1. PICK a, b : a = r[4] /\ b = r[5 + r[4]]
      OBVIOUS
    <3>2. a \in 1 .. TickerMax /\ b \in 1 .. NameMax /\ Len(r) = 5 + a + b
      BY <2>1, <3>1
    <3>3. a >= 1 /\ b >= 1 /\ a \in Nat /\ b \in Nat
      BY <3>2, Limits
    <3>4. 5 + a + b >= 6 /\ 5 + a + b >= 5 + a
      BY <3>3
    <3> QED
      BY <3>1, <3>2, <3>4
  <2> QED
    BY <1>2, <1>9, <2>1, <2>2 DEF Meta
<1>12. Intent(r) = {} /\ Transfer(r) = {} /\ HtlcAnchor(r) = {} /\ Offer(r) = {} /\ Meta2(r) = {} /\ LogoChunk(r) = {}
  BY <1>9 DEF Intent, Transfer, HtlcAnchor, Offer, Meta2, LogoChunk
<1>13. Reading(r) = {<<"meta", [cid |-> cid, ticker |-> t, name |-> u]>>}
  BY <1>11, <1>12 DEF Reading, Tagged
<1> QED
  BY <1>5, <1>10, <1>13, ReadsBackFrom

LEMMA DescriptionsReadBack ==
  ASSUME NEW cid \in Nat, NEW t \in Seq(Nat), NEW u \in Seq(Nat), NEW r \in MetaPayload2(cid, t, u)
  PROVE  Cells(r) /\ ReadsBack(r, <<"meta2", [cid |-> cid, desc |-> t, links |-> u]>>)
<1>1. PICK h : h = <<"M", 2, cid, Len(t)>>
  OBVIOUS
<1>2. r = h \o t \o <<Len(u)>> \o u /\ Len(t) <= DescMax /\ Len(u) <= LinksMax /\ Len(t) + Len(u) > 0
  BY <1>1 DEF MetaPayload2
<1>3. Cells(h) /\ Len(h) = 4 /\ h[1] = "M" /\ h[2] = 2 /\ h[3] = cid /\ h[4] = Len(t)
  BY <1>1, LenProperties DEF Cells, Tags
<1>4. <<Len(u)>> \in Seq(Nat)
  BY LenProperties
<1>5. Cells(r)
  BY <1>2, <1>3, <1>4, CellsJoined
<1>6. PICK S : S = Nat \union Tags
  OBVIOUS
<1>7. h \in Seq(S) /\ t \in Seq(S) /\ u \in Seq(S) /\ Len(u) \in S
  <2>1. h \in Seq(S)
    BY <1>3, <1>6 DEF Cells
  <2>2. t \in Seq(S) /\ u \in Seq(S)
    BY <1>6
  <2>3. Len(u) \in S
    BY <1>6, LenProperties
  <2> QED
    BY <2>1, <2>2, <2>3
<1>8. TwoTexts(h, t, Len(u), u, r)
  BY <1>2, <1>3, <1>7, TwoTextsJoined
<1>9. r[1] = "M" /\ r[2] = 2 /\ r[3] = cid /\ r[4] = Len(t)
  BY <1>3, <1>8 DEF TwoTexts
<1>10. Len(r) <= PushMax
  <2>1. Len(r) = 5 + Len(t) + Len(u) /\ Len(t) \in Nat /\ Len(u) \in Nat
    BY <1>8 DEF TwoTexts
  <2> QED
    BY <1>2, <2>1, Limits
<1>11. Meta2(r) = {[cid |-> cid, desc |-> t, links |-> u]}
  <2>1. /\ SubSeq(r, 5, 4 + r[4]) = t /\ SubSeq(r, 6 + r[4], Len(r)) = u
        /\ r[4] <= DescMax /\ r[5 + r[4]] <= LinksMax /\ r[4] + r[5 + r[4]] > 0
        /\ Len(r) = 5 + r[4] + r[5 + r[4]] /\ r[4] \in Nat /\ r[5 + r[4]] \in Nat
    BY <1>2, <1>8, <1>9 DEF TwoTexts
  <2>2. Len(r) >= 5 /\ Len(r) >= 5 + r[4]
    <3>1. PICK a, b : a = r[4] /\ b = r[5 + r[4]]
      OBVIOUS
    <3>2. a \in Nat /\ b \in Nat /\ Len(r) = 5 + a + b
      BY <2>1, <3>1
    <3>3. 5 + a + b >= 5 /\ 5 + a + b >= 5 + a
      BY <3>2
    <3> QED
      BY <3>1, <3>2, <3>3
  <2> QED
    BY <1>2, <1>9, <2>1, <2>2 DEF Meta2
<1>12. Intent(r) = {} /\ Transfer(r) = {} /\ HtlcAnchor(r) = {} /\ Offer(r) = {} /\ Meta(r) = {} /\ LogoChunk(r) = {}
  BY <1>9 DEF Intent, Transfer, HtlcAnchor, Offer, Meta, LogoChunk
<1>13. Reading(r) = {<<"meta2", [cid |-> cid, desc |-> t, links |-> u]>>}
  BY <1>11, <1>12 DEF Reading, Tagged
<1> QED
  BY <1>5, <1>10, <1>13, ReadsBackFrom

LEMMA PiecesReadBack ==
  ASSUME NEW cid \in Nat, NEW i \in Nat, NEW n \in Nat, NEW k \in Nat, NEW t \in Seq(Nat), NEW r \in LogoChunkPayload(cid, i, n, k, t)
  PROVE  Cells(r) /\ ReadsBack(r, <<"logo", [cid |-> cid, idx |-> i, total |-> n, hash |-> k, data |-> t]>>)
<1>1. PICK h : h = <<"L", 1, cid, i, n, k, Len(t)>>
  OBVIOUS
<1>2. r = h \o t /\ n \in 1 .. TotalMax /\ i < n /\ Len(t) \in 1 .. ChunkMax /\ Len(t) \in Nat
  BY <1>1, LenProperties DEF LogoChunkPayload
<1>3. /\ Cells(h) /\ Len(h) = 7 /\ h[1] = "L" /\ h[2] = 1 /\ h[3] = cid /\ h[4] = i /\ h[5] = n /\ h[6] = k
      /\ h[7] = Len(t)
  BY <1>1, <1>2 DEF Cells, Tags
<1>4. Cells(r)
  BY <1>2, <1>3, CellsJoined
<1>5. Joins(h, t, r)
  BY <1>2, <1>3, CellsJoined
<1>6. /\ Len(r) = 7 + Len(t) /\ r[1] = "L" /\ r[2] = 1 /\ r[3] = cid /\ r[4] = i /\ r[5] = n /\ r[6] = k
      /\ r[7] = Len(t) /\ \A j \in 1 .. Len(t) : r[7 + j] = t[j]
  BY <1>3, <1>5 DEF Joins
<1>7. SubSeq(r, 8, 7 + r[7]) = t
  <2>1. ASSUME NEW j \in 1 .. Len(t) PROVE r[8 + j - 1] = t[j]
    <3>1. 8 + j - 1 = 7 + j
      BY <1>2
    <3> QED
      BY <1>6, <3>1
  <2>2. 8 \in Int /\ 7 + r[7] \in Int /\ 7 + r[7] = 8 + Len(t) - 1
    BY <1>2, <1>6
  <2> QED
    BY <2>1, <2>2, Cut
<1>8. Len(r) <= PushMax /\ Len(r) >= 8
  BY <1>2, <1>6, Limits
<1>9. LogoChunk(r) = {[cid |-> cid, idx |-> i, total |-> n, hash |-> k, data |-> t]}
  BY <1>2, <1>6, <1>7, <1>8 DEF LogoChunk
<1>10. Intent(r) = {} /\ Transfer(r) = {} /\ HtlcAnchor(r) = {} /\ Offer(r) = {} /\ Meta(r) = {} /\ Meta2(r) = {}
  BY <1>6 DEF Intent, Transfer, HtlcAnchor, Offer, Meta, Meta2
<1>11. Reading(r) = {<<"logo", [cid |-> cid, idx |-> i, total |-> n, hash |-> k, data |-> t]>>}
  BY <1>9, <1>10 DEF Reading, Tagged
<1> QED
  BY <1>4, <1>8, <1>11, ReadsBackFrom

LEMMA OffersReadBack ==
  ASSUME NEW c \in Nat, NEW p \in Nat, NEW t \in Seq(Nat), NEW n \in Nat, NEW r \in OfferPayload(c, p, t, n)
  PROVE  Cells(r) /\ ReadsBack(r, <<"offer", [chain |-> c, price |-> p, addr |-> t, nonce |-> n]>>)
<1>1. PICK h : h = <<"O", 1, c, p, Len(t)>>
  OBVIOUS
<1>2. PICK w : w = <<n>>
  OBVIOUS
<1>3. /\ r = h \o t \o w /\ c \in {ChainA, ChainB, ChainS} /\ Len(t) = AddressLength(c) /\ p > 0
      /\ Len(t) \in {1, 2}
  BY <1>1, <1>2 DEF OfferPayload, AddressLength
<1>4. Cells(h) /\ Len(h) = 5 /\ h[1] = "O" /\ h[2] = 1 /\ h[3] = c /\ h[4] = p /\ h[5] = Len(t)
  BY <1>1, <1>3 DEF Cells, Tags
<1>5. w \in Seq(Nat) /\ Len(w) = 1 /\ w[1] = n
  BY <1>2
<1>6. PICK q : q = h \o t
  OBVIOUS
<1>7. Cells(q) /\ Joins(h, t, q)
  BY <1>4, <1>6, CellsJoined
<1>8. Cells(r) /\ Joins(q, w, r)
  BY <1>3, <1>5, <1>6, <1>7, CellsJoined
<1>9. Len(q) = 5 + Len(t) /\ \A j \in 1 .. 5 : q[j] = h[j] /\ \A e \in 1 .. Len(t) : q[5 + e] = t[e]
  BY <1>4, <1>7 DEF Joins
<1>10. /\ Len(r) = 6 + Len(t) /\ r[6 + Len(t)] = n /\ \A j \in 1 .. 5 + Len(t) : r[j] = q[j]
  <2>1. PICK k \in {1, 2} : k = Len(t)
    BY <1>3
  <2>2. Len(r) = Len(q) + 1 /\ r[Len(q) + 1] = n /\ \A j \in 1 .. Len(q) : r[j] = q[j]
    BY <1>5, <1>8 DEF Joins
  <2>3. Len(q) = 5 + k /\ Len(q) + 1 = 6 + k
    BY <1>9, <2>1
  <2> QED
    BY <2>1, <2>2, <2>3
<1>11. r[1] = "O" /\ r[2] = 1 /\ r[3] = c /\ r[4] = p /\ r[5] = Len(t) /\ r[Len(r)] = n
  <2>1. \A j \in 1 .. 5 : j \in 1 .. 5 + Len(t)
    BY <1>3
  <2>2. \A j \in 1 .. 5 : r[j] = h[j]
    BY <1>9, <1>10, <2>1
  <2> QED
    BY <1>4, <1>10, <2>2
<1>12. SubSeq(r, 6, 5 + r[5]) = t
  <2>1. ASSUME NEW j \in 1 .. Len(t) PROVE r[6 + j - 1] = t[j]
    <3>1. 6 + j - 1 = 5 + j /\ 5 + j \in 1 .. 5 + Len(t)
      BY <1>3
    <3> QED
      BY <1>9, <1>10, <3>1
  <2>2. 6 \in Int /\ 5 + r[5] \in Int /\ 5 + r[5] = 6 + Len(t) - 1
    BY <1>3, <1>11
  <2> QED
    BY <2>1, <2>2, Cut
<1>13. Len(r) <= PushMax /\ Len(r) >= 7
  BY <1>3, <1>10, Limits
<1>14. Offer(r) = {[chain |-> c, price |-> p, addr |-> t, nonce |-> n]}
  BY <1>3, <1>10, <1>11, <1>12, <1>13 DEF Offer
<1>15. Intent(r) = {} /\ Transfer(r) = {} /\ HtlcAnchor(r) = {} /\ Meta(r) = {} /\ Meta2(r) = {} /\ LogoChunk(r) = {}
  BY <1>11 DEF Intent, Transfer, HtlcAnchor, Meta, Meta2, LogoChunk
<1>16. Reading(r) = {<<"offer", [chain |-> c, price |-> p, addr |-> t, nonce |-> n]>>}
  BY <1>14, <1>15 DEF Reading, Tagged
<1> QED
  BY <1>8, <1>13, <1>16, ReadsBackFrom

LEMMA TransfersReadBack ==
  ASSUME NEW c \in Nat, NEW n \in Nat, NEW k \in Nat, NEW r \in TransferPayload(c, n, k)
  PROVE  Cells(r) /\ ReadsBack(r, <<"transfer", [cid |-> c, amount |-> n, pk |-> k]>>)
<1>1. r = <<"T", 1, c, n, k>> /\ n > 0
  BY DEF TransferPayload
<1>2. Cells(r) /\ Len(r) = 5 /\ r[1] = "T" /\ r[2] = 1 /\ r[3] = c /\ r[4] = n /\ r[5] = k
  BY <1>1 DEF Cells, Tags
<1>3. Transfer(r) = {[cid |-> c, amount |-> n, pk |-> k]}
  BY <1>1, <1>2 DEF Transfer
<1>4. Intent(r) = {} /\ HtlcAnchor(r) = {} /\ Offer(r) = {} /\ Meta(r) = {} /\ Meta2(r) = {} /\ LogoChunk(r) = {}
  BY <1>2 DEF Intent, HtlcAnchor, Offer, Meta, Meta2, LogoChunk
<1>5. Reading(r) = {<<"transfer", [cid |-> c, amount |-> n, pk |-> k]>>}
  BY <1>3, <1>4 DEF Reading, Tagged
<1>6. Len(r) <= PushMax
  BY <1>2, Limits
<1> QED
  BY <1>2, <1>5, <1>6, ReadsBackFrom

LEMMA IntentsReadBack ==
  ASSUME NEW op \in Nat, NEW c \in Nat, NEW n \in Nat, NEW o \in Nat, NEW k \in Nat, NEW p \in Nat,
         NEW r \in IntentPayload(op, c, n, o, k, p)
  PROVE  Cells(r) /\ ReadsBack(r, <<"intent", [op |-> op, cid |-> c, amount |-> n, out |-> o, pk |-> k]>>)
<1>1. PICK h : h = <<"C", op, c, n, o, k>>
  OBVIOUS
<1>2. Cells(h) /\ Len(h) = 6 /\ h[1] = "C" /\ h[2] = op /\ h[3] = c /\ h[4] = n /\ h[5] = o /\ h[6] = k
  BY <1>1 DEF Cells, Tags
<1>3. PICK w : w = IF op = Create THEN <<p>> ELSE <<>>
  OBVIOUS
<1>4. w \in Seq(Nat) /\ Len(w) = IF op = Create THEN 1 ELSE 0
  BY <1>3
<1>5. r = h \o w
  BY <1>1, <1>3 DEF IntentPayload
<1>6. Cells(r) /\ Joins(h, w, r)
  BY <1>2, <1>4, <1>5, CellsJoined
<1>7. Len(r) = 6 + Len(w) /\ \A j \in 1 .. 6 : r[j] = h[j]
  BY <1>2, <1>6 DEF Joins
<1>8. r[1] = "C" /\ r[2] = op /\ r[3] = c /\ r[4] = n /\ r[5] = o /\ r[6] = k
  BY <1>2, <1>7
<1>9. Len(r) = 6 \/ (Len(r) = 7 /\ r[2] = Create)
  BY <1>4, <1>7, <1>8
<1>10. Intent(r) = {[op |-> op, cid |-> c, amount |-> n, out |-> o, pk |-> k]}
  BY <1>8, <1>9 DEF Intent
<1>11. Transfer(r) = {} /\ HtlcAnchor(r) = {} /\ Offer(r) = {} /\ Meta(r) = {} /\ Meta2(r) = {} /\ LogoChunk(r) = {}
  BY <1>8 DEF Transfer, HtlcAnchor, Offer, Meta, Meta2, LogoChunk
<1>12. Reading(r) = {<<"intent", [op |-> op, cid |-> c, amount |-> n, out |-> o, pk |-> k]>>}
  BY <1>10, <1>11 DEF Reading, Tagged
<1>13. Len(r) <= PushMax
  <2>1. Len(r) = 6 \/ Len(r) = 7
    BY <1>9
  <2>2. 6 <= PushMax /\ 7 <= PushMax
    BY Limits
  <2> QED
    BY <2>1, <2>2
<1> QED
  BY <1>6, <1>12, <1>13, ReadsBackFrom

(* Whatever a page has written, the index reads back.                      *)
LEMMA WrittenReadsBack ==
  ASSUME NEW w \in Written
  PROVE  w # <<>> /\ Cells(w[1]) /\ ReadsBack(w[1], w[2])
<1>1. Fields \subseteq Nat /\ Texts \subseteq Seq(Nat) /\ Create \in Nat /\ ChainS \in Nat
  BY WriterAssumption DEF Create, ChainS
<1>2. CASE w \in Intents
  <2>1. PICK op \in Fields \union {Create}, c \in Fields, n \in Fields, o \in Fields, k \in Fields :
          \E r \in UNION {IntentPayload(op, c, n, o, k, q) : q \in Fields} :
            w = <<r, <<"intent", [op |-> op, cid |-> c, amount |-> n, out |-> o, pk |-> k]>>>>
    BY <1>2 DEF Intents
  <2>2. PICK p \in Fields, r \in UNION {IntentPayload(op, c, n, o, k, q) : q \in Fields} :
          /\ r \in IntentPayload(op, c, n, o, k, p)
          /\ w = <<r, <<"intent", [op |-> op, cid |-> c, amount |-> n, out |-> o, pk |-> k]>>>>
    BY <2>1
  <2>3. op \in Nat /\ c \in Nat /\ n \in Nat /\ o \in Nat /\ k \in Nat /\ p \in Nat
    BY <1>1
  <2>4. Cells(r) /\ ReadsBack(r, <<"intent", [op |-> op, cid |-> c, amount |-> n, out |-> o, pk |-> k]>>)
    BY <2>2, <2>3, IntentsReadBack
  <2> QED
    BY <2>2, <2>4
<1>3. CASE w \in Transfers
  <2>1. PICK c \in Fields, n \in Fields, k \in Fields :
          \E r \in TransferPayload(c, n, k) : w = <<r, <<"transfer", [cid |-> c, amount |-> n, pk |-> k]>>>>
    BY <1>3 DEF Transfers
  <2> QED
    BY <1>1, <2>1, TransfersReadBack
<1>4. CASE w \in Names
  <2>1. PICK c \in Fields, t \in Texts, n \in Texts :
          \E r \in MetaPayload(c, t, n) : w = <<r, <<"meta", [cid |-> c, ticker |-> t, name |-> n]>>>>
    BY <1>4 DEF Names
  <2> QED
    BY <1>1, <2>1, NamesReadBack
<1>5. CASE w \in Descriptions
  <2>1. PICK c \in Fields, d \in Texts, l \in Texts :
          \E r \in MetaPayload2(c, d, l) : w = <<r, <<"meta2", [cid |-> c, desc |-> d, links |-> l]>>>>
    BY <1>5 DEF Descriptions
  <2> QED
    BY <1>1, <2>1, DescriptionsReadBack
<1>6. CASE w \in Pieces
  <2>1. PICK c \in Fields, i \in Fields, n \in Fields, k \in Fields, d \in Texts :
          \E r \in LogoChunkPayload(c, i, n, k, d) : w = <<r, <<"logo", [cid |-> c, idx |-> i, total |-> n, hash |-> k, data |-> d]>>>>
    BY <1>6 DEF Pieces
  <2> QED
    BY <1>1, <2>1, PiecesReadBack
<1>7. CASE w \in Offered
  <2>1. PICK c \in Fields \union {ChainS}, p \in Fields, a \in Texts, n \in Fields :
          \E r \in OfferPayload(c, p, a, n) : w = <<r, <<"offer", [chain |-> c, price |-> p, addr |-> a, nonce |-> n]>>>>
    BY <1>7 DEF Offered
  <2> QED
    BY <1>1, <2>1, OffersReadBack
<1> QED
  BY <1>2, <1>3, <1>4, <1>5, <1>6, <1>7 DEF Written

(* What is in the script are cells, and what a page meant by it, if a page *)
(* wrote it, is what the index reads.                                      *)
PayloadInv == Cells(script.body) /\ (meant # <<>> => ReadsBack(meant[1], meant[2]))

(* The page that writes a payload, the page that verifies it and the index *)
(* that reads it agree on every script (gbx-curve.mjs, scanner.js).        *)
THEOREM PayloadsAgreeAlways == PayloadSpec => []PayloadsAgree
<1>1. ASSUME PayloadInit PROVE PayloadInv
  <2>1. ASSUME NEW w \in Written, script = Script(w[1]), meant = w PROVE PayloadInv
    BY <2>1, WrittenReadsBack DEF PayloadInv, Script
  <2>2. ASSUME NEW tag \in Tags, script = Script(<<tag>>), meant = <<>> PROVE PayloadInv
    BY <2>2 DEF PayloadInv, Script, Cells
  <2> QED
    BY <1>1, <2>1, <2>2 DEF PayloadInit
<1>2. ASSUME PayloadInv, [Grow]_payloadVars PROVE PayloadInv'
  <2>1. CASE Grow
    <3>1. meant' = <<>>
      BY <2>1 DEF Grow
    <3>2. PICK c \in Fields : script'.body = Append(script.body, c)
      BY <2>1 DEF Grow
    <3>3. c \in Nat
      BY <3>2, WriterAssumption
    <3>4. Cells(Append(script.body, c))
      BY <1>2, <3>3, AppendProperties DEF PayloadInv, Cells
    <3> QED
      BY <3>1, <3>2, <3>4 DEF PayloadInv
  <2>2. CASE UNCHANGED payloadVars
    BY <1>2, <2>2 DEF PayloadInv, payloadVars
  <2> QED
    BY <1>2, <2>1, <2>2
<1>3. PayloadInv => PayloadsAgree
  BY PagesReadAlike DEF PayloadInv, PayloadsAgree, Whole
<1> QED
  BY <1>1, <1>2, <1>3, PTL DEF PayloadSpec
=============================================================================
