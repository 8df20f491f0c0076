------------------------------ MODULE SumLemmas ------------------------------
(***************************************************************************)
(* Facts about numbers and sums that several proofs need.  Induction is by *)
(* the least counterexample: a set of natural numbers that is not empty    *)
(* has a least member.                                                     *)
(***************************************************************************)
EXTENDS Integers, FiniteSets, FiniteSetsExt, FiniteSetTheorems, WellFoundedInduction, TLAPS

Below == {ss \in Nat \X Nat : ss[1] < ss[2]}
(* The least-number principle.                                             *)
LEMMA LeastMember == ASSUME NEW S \in SUBSET Nat, S # {} PROVE \E n \in S : \A m \in S : n <= m
<1>1. IsWellFoundedOn(Below, Nat)
  <2>1. Below = OpToRel(<, Nat)
    BY DEF OpToRel, Below
  <2> QED
    BY <2>1, NatLessThanWellFounded
<1>2. PICK n \in S : \A m \in S : ~(<<m, n>> \in Below)
  BY <1>1, WFMin
<1>3. \A m \in Nat : m < n => <<m, n>> \in Below
  BY DEF Below
<1>4. ASSUME NEW m \in S PROVE n <= m
  <2>1. m \in Nat /\ n \in Nat /\ ~(m < n)
    BY <1>2, <1>3
  <2> QED
    BY <2>1
<1> QED
  BY <1>4

(* The least and the greatest of a set of numbers.                         *)
LEMMA MinOf == ASSUME NEW S \in SUBSET Nat, S # {} PROVE Min(S) \in S /\ \A n \in S : Min(S) <= n
<1>1. PICK m \in S : \A n \in S : m <= n
  BY LeastMember
<1> QED
  BY <1>1 DEF Min

LEMMA MaxOf ==
  ASSUME NEW S \in SUBSET Nat, S # {}, NEW N \in Nat, \A n \in S : n <= N
  PROVE  Max(S) \in S /\ \A n \in S : n <= Max(S)
<1>1. PICK U : U = {u \in Nat : \A n \in S : n <= u}
  OBVIOUS
<1>2. U \in SUBSET Nat /\ N \in U
  BY <1>1
<1>3. PICK m \in U : \A u \in U : m <= u
  BY <1>2, LeastMember
<1>4. m \in Nat /\ \A n \in S : n <= m
  BY <1>1
<1>5. m \in S
  <2> SUFFICES ASSUME m \notin S PROVE FALSE
    OBVIOUS
  <2>1. \A n \in S : n \in Nat /\ n <= m /\ n # m
    BY <1>4
  <2>2. PICK n \in S : TRUE
    OBVIOUS
  <2>3. m - 1 \in Nat
    BY <1>4, <2>1, <2>2
  <2>4. \A k \in S : k <= m - 1
    BY <1>4, <2>1
  <2>5. m - 1 \in U
    BY <1>1, <2>3, <2>4
  <2> QED
    BY <1>3, <1>4, <2>5
<1>6. m \in S /\ \A n \in S : m >= n
  BY <1>4, <1>5
<1> QED
  BY <1>4, <1>6 DEF Max

(* The sums of f over the sets of D, taking one element after the other as *)
(* MapThenFoldSet of the community modules does.                           *)
One(s) == CHOOSE x \in s : TRUE
Sums(g, f, D) == g = [s \in D |-> IF s = {} THEN 0 ELSE f[One(s)] + g[s \ {One(s)}]]
SumsOver(g, f, S) == Sums(g, f, SUBSET S)
(* The subsets of S with n elements at most.                               *)
UpTo(S, n) == {s \in SUBSET S : Cardinality(s) <= n}

(* A set without one of its elements is smaller.                           *)
LEMMA TakeOne ==
  ASSUME NEW s, IsFiniteSet(s), s # {}, NEW x \in s
  PROVE  /\ One(s) \in s /\ IsFiniteSet(s \ {x}) /\ Cardinality(s \ {x}) = Cardinality(s) - 1
         /\ Cardinality(s) \in Nat \ {0}
<1>1. IsFiniteSet(s \ {x}) /\ Cardinality(s \ {x}) = Cardinality(s) - 1
  BY FS_RemoveElement
<1>2. Cardinality(s) \in Nat /\ Cardinality(s \ {x}) \in Nat
  BY <1>1, FS_CardinalityType
<1> QED
  BY <1>1, <1>2 DEF One

(* The sums over the subsets of a finite set exist.                        *)
LEMMA SumsExist == ASSUME NEW S, IsFiniteSet(S), NEW f PROVE \E g : SumsOver(g, f, S)
<1>1. \A s \in SUBSET S : IsFiniteSet(s) /\ Cardinality(s) \in Nat
  BY FS_Subset, FS_CardinalityType
<1> DEFINE Bad == {n \in Nat : ~\E g : Sums(g, f, UpTo(S, n))}
<1>2. Bad = {}
  <2> SUFFICES ASSUME Bad # {} PROVE FALSE
    OBVIOUS
  <2>1. PICK n \in Bad : \A m \in Bad : n <= m
    BY LeastMember
  <2>2. CASE n = 0
    <3>1. \A s \in UpTo(S, 0) : s = {}
      <4> SUFFICES ASSUME NEW s \in UpTo(S, 0) PROVE s = {}
        OBVIOUS
      <4>1. IsFiniteSet(s) /\ Cardinality(s) = 0
        BY <1>1 DEF UpTo
      <4> QED
        BY <4>1, FS_EmptySet
    <3>2. PICK g : g = [s \in UpTo(S, 0) |-> 0]
      OBVIOUS
    <3>3. Sums(g, f, UpTo(S, 0))
      BY <3>1, <3>2 DEF Sums
    <3> QED
      BY <2>1, <2>2, <3>3
  <2>3. CASE n # 0
    <3>1. n - 1 \in Nat /\ ~(n <= n - 1)
      BY <2>1, <2>3
    <3>2. PICK h : Sums(h, f, UpTo(S, n - 1))
      BY <2>1, <3>1
    <3>3. PICK g : g = [s \in UpTo(S, n) |-> IF s = {} THEN 0 ELSE f[One(s)] + h[s \ {One(s)}]]
      OBVIOUS
    <3>4. ASSUME NEW s \in UpTo(S, n), s # {} PROVE g[s \ {One(s)}] = h[s \ {One(s)}]
      <4>1. IsFiniteSet(s) /\ Cardinality(s) <= n /\ s \subseteq S
        BY <1>1 DEF UpTo
      <4>2. Cardinality(s \ {One(s)}) = Cardinality(s) - 1 /\ Cardinality(s) \in Nat
        BY <3>4, <4>1, TakeOne DEF One
      <4>3. s \ {One(s)} \in UpTo(S, n - 1) /\ s \ {One(s)} \in UpTo(S, n)
        BY <2>1, <4>1, <4>2 DEF UpTo
      <4> QED
        BY <3>2, <3>3, <4>3 DEF Sums
    <3>5. Sums(g, f, UpTo(S, n))
      BY <3>3, <3>4 DEF Sums
    <3> QED
      BY <2>1, <3>5
  <2> QED
    BY <2>2, <2>3
<1>3. UpTo(S, Cardinality(S)) = SUBSET S
  BY FS_Subset DEF UpTo
<1>4. Cardinality(S) \in Nat
  BY <1>1
<1>5. \E g : Sums(g, f, UpTo(S, Cardinality(S)))
  BY <1>2, <1>4
<1> QED
  BY <1>3, <1>5 DEF SumsOver

(* A sum of numbers is a number, and any element may be taken out first.   *)
LEMMA SumsTake ==
  ASSUME NEW S, IsFiniteSet(S), NEW f \in [S -> Int], NEW g, SumsOver(g, f, S)
  PROVE  /\ g[{}] = 0
         /\ \A s \in SUBSET S : g[s] \in Int
         /\ \A s \in SUBSET S : \A x \in s : \A r : r = s \ {x} => g[s] = f[x] + g[r]
<1>1. \A s \in SUBSET S : IsFiniteSet(s) /\ Cardinality(s) \in Nat
  BY FS_Subset, FS_CardinalityType
<1>2. g[{}] = 0
  BY DEF Sums, SumsOver
<1>3. \A s \in SUBSET S : s # {} => One(s) \in s /\ g[s] = f[One(s)] + g[s \ {One(s)}]
  BY DEF Sums, SumsOver, One
<1> DEFINE Taken(s) == g[s] \in Int /\ \A x \in s : g[s] = f[x] + g[s \ {x}]
           Bad == {n \in Nat : \E s \in SUBSET S : Cardinality(s) = n /\ ~Taken(s)}
<1>4. Bad = {}
  <2> SUFFICES ASSUME Bad # {} PROVE FALSE
    OBVIOUS
  <2>1. PICK n \in Bad : \A m \in Bad : n <= m
    BY LeastMember
  <2>2. PICK s \in SUBSET S : Cardinality(s) = n /\ ~Taken(s)
    BY <2>1
  <2>3. \A t \in SUBSET S : Cardinality(t) < n => Taken(t)
    BY <1>1, <2>1
  <2>4. s # {}
    <3>1. Taken({})
      BY <1>2
    <3> QED
      BY <2>2, <3>1
  <2>5. PICK y : y = One(s)
    OBVIOUS
  <2>6. y \in s /\ g[s] = f[y] + g[s \ {y}]
    BY <1>3, <2>4, <2>5
  <2>7. ASSUME NEW x \in s PROVE s \ {x} \in SUBSET S /\ Cardinality(s \ {x}) < n /\ g[s \ {x}] \in Int /\ f[x] \in Int
    <3>1. Cardinality(s \ {x}) = Cardinality(s) - 1 /\ Cardinality(s) \in Nat
      BY <1>1, <2>4, TakeOne
    <3>2. Cardinality(s \ {x}) < n
      BY <2>2, <3>1
    <3> QED
      BY <2>3, <3>2
  <2>8. ASSUME NEW x \in s PROVE g[s] = f[x] + g[s \ {x}]
    <3>1. CASE x = y
      BY <2>6, <3>1
    <3>2. CASE x # y
      <4>1. g[s \ {x}] = f[y] + g[(s \ {x}) \ {y}]
        BY <2>3, <2>6, <2>7, <3>2
      <4>2. g[s \ {y}] = f[x] + g[(s \ {y}) \ {x}]
        BY <2>3, <2>6, <2>7, <3>2
      <4>3. (s \ {x}) \ {y} = (s \ {y}) \ {x}
        OBVIOUS
      <4>4. PICK r : r = g[(s \ {y}) \ {x}]
        OBVIOUS
      <4>5. (s \ {y}) \ {x} \in SUBSET S /\ Cardinality((s \ {y}) \ {x}) < n
        <5>1. IsFiniteSet(s \ {y}) /\ x \in s \ {y} /\ s \ {y} # {}
          BY <1>1, <2>6, <2>7, <3>2
        <5>2. Cardinality((s \ {y}) \ {x}) = Cardinality(s \ {y}) - 1 /\ Cardinality(s \ {y}) \in Nat
          BY <5>1, TakeOne
        <5> QED
          BY <2>6, <2>7, <5>2
      <4>6. r \in Int
        BY <2>3, <4>4, <4>5
      <4>7. f[x] \in Int /\ f[y] \in Int
        BY <2>6, <2>7
      <4>8. g[s \ {x}] = f[y] + r /\ g[s \ {y}] = f[x] + r
        BY <4>1, <4>2, <4>3, <4>4
      <4> QED
        BY <2>6, <4>6, <4>7, <4>8
    <3> QED
      BY <3>1, <3>2
  <2>9. g[s] \in Int
    <3>1. f[y] \in Int /\ g[s \ {y}] \in Int
      BY <2>6, <2>7
    <3> QED
      BY <2>6, <3>1
  <2> QED
    BY <2>2, <2>8, <2>9
<1>5. \A s \in SUBSET S : Taken(s)
  BY <1>1, <1>4
<1> QED
  BY <1>2, <1>5

(* Two sums of the same numbers are the same.                              *)
LEMMA SumsAgree ==
  ASSUME NEW S, IsFiniteSet(S), NEW f, NEW g, SumsOver(g, f, S),
         NEW T, NEW e, NEW h, SumsOver(h, e, T),
         NEW U, U \subseteq S, U \subseteq T, \A x \in U : f[x] = e[x]
  PROVE  g[U] = h[U]
<1>1. \A s \in SUBSET U : IsFiniteSet(s) /\ Cardinality(s) \in Nat
  BY FS_Subset, FS_CardinalityType
<1> DEFINE Bad == {n \in Nat : \E s \in SUBSET U : Cardinality(s) = n /\ g[s] # h[s]}
<1>2. Bad = {}
  <2> SUFFICES ASSUME Bad # {} PROVE FALSE
    OBVIOUS
  <2>1. PICK n \in Bad : \A m \in Bad : n <= m
    BY LeastMember
  <2>2. PICK s \in SUBSET U : Cardinality(s) = n /\ g[s] # h[s]
    BY <2>1
  <2>3. s \in SUBSET S /\ s \in SUBSET T
    OBVIOUS
  <2>4. s # {}
    BY <2>2, <2>3 DEF Sums, SumsOver
  <2>5. One(s) \in s
    BY <2>4 DEF One
  <2>6. g[s] = f[One(s)] + g[s \ {One(s)}] /\ h[s] = e[One(s)] + h[s \ {One(s)}]
    BY <2>3, <2>4 DEF Sums, SumsOver
  <2>7. Cardinality(s \ {One(s)}) = Cardinality(s) - 1 /\ Cardinality(s) \in Nat
    BY <1>1, <2>4, <2>5, TakeOne
  <2>8. Cardinality(s \ {One(s)}) \in Nat /\ Cardinality(s \ {One(s)}) < n
    BY <1>1, <2>2, <2>7
  <2>9. g[s \ {One(s)}] = h[s \ {One(s)}]
    BY <2>1, <2>8
  <2> QED
    BY <2>2, <2>5, <2>6, <2>9
<1> QED
  BY <1>1, <1>2

(* The parts of SumsTake, each a fact to cite.                             *)
LEMMA SumIsInt ==
  ASSUME NEW S, IsFiniteSet(S), NEW f \in [S -> Int], NEW g, SumsOver(g, f, S), NEW s, s \subseteq S
  PROVE  g[s] \in Int
BY SumsTake

LEMMA SumTakeOut ==
  ASSUME NEW S, IsFiniteSet(S), NEW f \in [S -> Int], NEW g, SumsOver(g, f, S),
         NEW s, s \subseteq S, NEW x \in s, NEW r, r = s \ {x}
  PROVE  g[s] = f[x] + g[r]
BY SumsTake
-----------------------------------------------------------------------------
(* The sum of f over S, as MapThenSumSet of the community modules gives it *)
Total(f, S) == MapThenSumSet(LAMBDA x : f[x], S)

LEMMA TotalSums ==
  ASSUME NEW S, IsFiniteSet(S), NEW f
  PROVE  \E g : SumsOver(g, f, S) /\ Total(f, S) = g[S]
<1> DEFINE iter == CHOOSE g : g = [s \in SUBSET S |-> IF s = {} THEN 0 ELSE f[One(s)] + g[s \ {One(s)}]]
<1>1. Total(f, S) = iter[S]
  BY DEF Total, MapThenSumSet, MapThenFoldSet, One
<1>2. PICK g : SumsOver(g, f, S)
  BY SumsExist
<1>3. g = [s \in SUBSET S |-> IF s = {} THEN 0 ELSE f[One(s)] + g[s \ {One(s)}]]
  BY <1>2 DEF SumsOver, Sums
<1>4. iter = [s \in SUBSET S |-> IF s = {} THEN 0 ELSE f[One(s)] + iter[s \ {One(s)}]]
  BY <1>3
<1> HIDE DEF iter
<1>5. SumsOver(iter, f, S)
  BY <1>4 DEF SumsOver, Sums
<1> QED
  BY <1>1, <1>5

LEMMA TotalNothing == ASSUME NEW f PROVE Total(f, {}) = 0
<1>1. PICK g : SumsOver(g, f, {}) /\ Total(f, {}) = g[{}]
  BY TotalSums, FS_EmptySet
<1> QED
  BY <1>1 DEF SumsOver, Sums

LEMMA TotalAgree ==
  ASSUME NEW S, IsFiniteSet(S), NEW f, NEW e, \A x \in S : f[x] = e[x]
  PROVE  Total(f, S) = Total(e, S)
<1>1. PICK g : SumsOver(g, f, S) /\ Total(f, S) = g[S]
  BY TotalSums
<1>2. PICK h : SumsOver(h, e, S) /\ Total(e, S) = h[S]
  BY TotalSums
<1>3. g[S] = h[S]
  BY <1>1, <1>2, SumsAgree
<1> QED
  BY <1>1, <1>2, <1>3

LEMMA TotalTake ==
  ASSUME NEW S, IsFiniteSet(S), NEW f, \A y \in S : f[y] \in Int, NEW x \in S, NEW R, R = S \ {x}
  PROVE  Total(f, S) = f[x] + Total(f, R) /\ Total(f, S) \in Int /\ Total(f, R) \in Int
<1>1. PICK e : e = [y \in S |-> f[y]]
  OBVIOUS
<1>2. e \in [S -> Int] /\ \A y \in S : f[y] = e[y]
  BY <1>1
<1>3. R \subseteq S /\ IsFiniteSet(R)
  BY FS_Subset
<1>4. \A y \in R : f[y] = e[y]
  BY <1>2, <1>3
<1>5. Total(f, S) = Total(e, S)
  BY <1>2, TotalAgree
<1>6. Total(f, R) = Total(e, R)
  BY <1>3, <1>4, TotalAgree
<1>7. PICK g : SumsOver(g, e, S) /\ Total(e, S) = g[S]
  BY TotalSums
<1>8. PICK h : SumsOver(h, e, R) /\ Total(e, R) = h[R]
  BY <1>3, TotalSums
<1>9. g[R] = h[R]
  BY <1>3, <1>7, <1>8, SumsAgree
<1>10. g[S] = e[x] + g[R]
  BY <1>2, <1>7, SumTakeOut
<1>11. g[S] \in Int /\ g[R] \in Int
  BY <1>2, <1>3, <1>7, SumIsInt
<1> QED
  BY <1>2, <1>5, <1>6, <1>7, <1>8, <1>9, <1>10, <1>11

(* Sums of numbers are numbers, and not negative when the numbers are not. *)
LEMMA TotalIsInt ==
  ASSUME NEW S, IsFiniteSet(S), NEW f, \A y \in S : f[y] \in Int
  PROVE  Total(f, S) \in Int
<1>1. CASE S = {}
  BY <1>1, TotalNothing
<1>2. CASE S # {}
  BY <1>2, TotalTake
<1> QED
  BY <1>1, <1>2

(* The sum of one number taken n times is n times the number.              *)
LEMMA TotalSame ==
  ASSUME NEW S, IsFiniteSet(S), NEW f, NEW k \in Int, \A x \in S : f[x] = k
  PROVE  Total(f, S) = k * Cardinality(S)
<1>1. \A s \in SUBSET S : IsFiniteSet(s) /\ Cardinality(s) \in Nat
  BY FS_Subset, FS_CardinalityType
<1> DEFINE Bad == {n \in Nat : \E s \in SUBSET S : Cardinality(s) = n /\ Total(f, s) # k * n}
<1>2. Bad = {}
  <2> SUFFICES ASSUME Bad # {} PROVE FALSE
    OBVIOUS
  <2>1. PICK n \in Bad : \A m \in Bad : n <= m
    BY LeastMember
  <2>2. PICK s \in SUBSET S : Cardinality(s) = n /\ Total(f, s) # k * n
    BY <2>1
  <2>3. s # {}
    <3>1. Cardinality({}) = 0 /\ Total(f, {}) = 0
      BY FS_EmptySet, TotalNothing
    <3>2. k * 0 = 0
      OBVIOUS
    <3> QED
      BY <2>2, <3>1, <3>2
  <2>4. PICK x \in s : TRUE
    BY <2>3
  <2>5. PICK r : r = s \ {x}
    OBVIOUS
  <2>6. \A y \in s : f[y] \in Int
    OBVIOUS
  <2>7. Total(f, s) = f[x] + Total(f, r) /\ Total(f, r) \in Int
    <3>1. IsFiniteSet(s)
      BY <1>1
    <3> QED
      BY <2>5, <2>6, <3>1, TotalTake
  <2>8. r \in SUBSET S /\ Cardinality(r) = n - 1 /\ n - 1 \in Nat
    <3>1. Cardinality(s \ {x}) = Cardinality(s) - 1 /\ Cardinality(s) \in Nat \ {0}
      BY <1>1, <2>3, <2>4, TakeOne
    <3> QED
      BY <2>2, <2>5, <3>1
  <2>9. Total(f, r) = k * (n - 1)
    BY <2>1, <2>8
  <2>10. k * n = k + k * (n - 1)
    <3>1. n \in Int /\ k \in Int
      OBVIOUS
    <3> QED
      BY <3>1
  <2>11. f[x] = k
    BY <2>4
  <2> QED
    BY <2>2, <2>7, <2>9, <2>10, <2>11
<1>3. Cardinality(S) \in Nat
  BY <1>1
<1> QED
  BY <1>2, <1>3

(* What one summand loses another one gains.                               *)
LEMMA TotalMoved ==
  ASSUME NEW S, IsFiniteSet(S), NEW f, NEW e, \A z \in S : f[z] \in Int /\ e[z] \in Int,
         NEW x \in S, NEW y \in S, x # y, NEW n \in Int, e[x] = f[x] - n, e[y] = f[y] + n,
         \A z \in S : z # x /\ z # y => e[z] = f[z]
  PROVE  Total(e, S) = Total(f, S)
<1>1. PICK R : R = S \ {x}
  OBVIOUS
<1>2. PICK Q : Q = R \ {y}
  OBVIOUS
<1>3. IsFiniteSet(R) /\ IsFiniteSet(Q) /\ y \in R
  BY <1>1, <1>2, FS_Subset
<1>4. (\A z \in R : f[z] \in Int /\ e[z] \in Int) /\ \A z \in Q : e[z] = f[z]
  BY <1>1, <1>2
<1>5. Total(f, S) = f[x] + Total(f, R) /\ Total(e, S) = e[x] + Total(e, R)
  BY <1>1, TotalTake
<1>6. Total(f, R) = f[y] + Total(f, Q) /\ Total(e, R) = e[y] + Total(e, Q) /\ Total(f, Q) \in Int
  BY <1>2, <1>3, <1>4, TotalTake
<1>7. Total(e, Q) = Total(f, Q)
  BY <1>3, <1>4, TotalAgree
<1>8. f[x] \in Int /\ f[y] \in Int
  OBVIOUS
<1> QED
  BY <1>5, <1>6, <1>7, <1>8
-----------------------------------------------------------------------------
(* The amounts of a set of swaps or holdings.                              *)
Amounts(P) == MapThenSumSet(LAMBDA p : p.amount, P)

LEMMA AmountsTotal ==
  ASSUME NEW P, IsFiniteSet(P)
  PROVE  Amounts(P) = Total([id \in P |-> id.amount], P)
<1> DEFINE f == [id \in P |-> id.amount]
           iter == CHOOSE g : g = [s \in SUBSET P |-> IF s = {} THEN 0 ELSE One(s).amount + g[s \ {One(s)}]]
<1>1. Amounts(P) = iter[P]
  BY DEF Amounts, MapThenSumSet, MapThenFoldSet, One
<1>2. \A s \in SUBSET P : s # {} => f[One(s)] = One(s).amount
  BY DEF One
<1>3. PICK g : SumsOver(g, f, P)
  BY SumsExist
<1>4. g = [s \in SUBSET P |-> IF s = {} THEN 0 ELSE One(s).amount + g[s \ {One(s)}]]
  BY <1>2, <1>3 DEF Sums, SumsOver
<1>5. iter = [s \in SUBSET P |-> IF s = {} THEN 0 ELSE One(s).amount + iter[s \ {One(s)}]]
  BY <1>4
<1>6. iter = [s \in SUBSET P |-> IF s = {} THEN 0 ELSE f[One(s)] + iter[s \ {One(s)}]]
  BY <1>2, <1>5
<1> HIDE DEF iter, f
<1>7. SumsOver(iter, f, P)
  BY <1>6 DEF Sums, SumsOver
<1>8. PICK h : SumsOver(h, f, P) /\ Total(f, P) = h[P]
  BY TotalSums
<1>9. h[P] = iter[P]
  BY <1>7, <1>8, SumsAgree
<1> QED
  BY <1>1, <1>8, <1>9 DEF f

LEMMA AmountTakeOut ==
  ASSUME NEW P, IsFiniteSet(P), \A p \in P : p.amount \in Int, NEW x \in P, NEW R, R = P \ {x}
  PROVE  Amounts(P) = x.amount + Amounts(R) /\ Amounts(P) \in Int /\ Amounts(R) \in Int /\ x.amount \in Int
<1>1. IsFiniteSet(R)
  BY FS_Subset
<1>2. PICK f : f = [p \in P |-> p.amount]
  OBVIOUS
<1>3. PICK e : e = [p \in R |-> p.amount]
  OBVIOUS
<1>4. (\A p \in P : f[p] \in Int) /\ f[x] = x.amount /\ \A p \in R : f[p] = e[p]
  BY <1>2, <1>3
<1>5. Total(f, P) = f[x] + Total(f, R) /\ Total(f, P) \in Int /\ Total(f, R) \in Int
  BY <1>4, TotalTake
<1>6. Total(f, R) = Total(e, R)
  BY <1>1, <1>4, TotalAgree
<1>7. Amounts(P) = Total(f, P) /\ Amounts(R) = Total(e, R)
  BY <1>1, <1>2, <1>3, AmountsTotal
<1> QED
  BY <1>4, <1>5, <1>6, <1>7

LEMMA AmountsNothing == Amounts({}) = 0
<1>1. Amounts({}) = Total([p \in {} |-> p.amount], {})
  BY AmountsTotal, FS_EmptySet
<1> QED
  BY <1>1, TotalNothing

(* Amounts that are not negative have such a sum; sets without a common    *)
(* element add up, and others fall short of it.                            *)
LEMMA AmountsApart ==
  ASSUME NEW A, IsFiniteSet(A), NEW B, IsFiniteSet(B), A \cap B = {}, \A p \in A \cup B : p.amount \in Nat
  PROVE  Amounts(A \cup B) = Amounts(A) + Amounts(B) /\ Amounts(A) \in Nat /\ Amounts(B) \in Nat
<1>1. \A b \in SUBSET (A \cup B) : IsFiniteSet(b) /\ Cardinality(b) \in Nat
  BY FS_Subset, FS_Union, FS_CardinalityType
<1>2. \A b \in SUBSET (A \cup B) : \A p \in b : p.amount \in Int /\ p.amount \in Nat
  OBVIOUS
<1> DEFINE Bad == {n \in Nat : \E b \in SUBSET (A \cup B) : Cardinality(b) = n /\ Amounts(b) \notin Nat}
<1>3. Bad = {}
  <2> SUFFICES ASSUME Bad # {} PROVE FALSE
    OBVIOUS
  <2>1. PICK n \in Bad : \A m \in Bad : n <= m
    BY LeastMember
  <2>2. PICK b \in SUBSET (A \cup B) : Cardinality(b) = n /\ Amounts(b) \notin Nat
    BY <2>1
  <2>3. PICK x : x \in b
    BY <2>2, AmountsNothing
  <2>4. PICK r : r = b \ {x}
    OBVIOUS
  <2>5. Cardinality(r) = n - 1 /\ n \in Nat \ {0} /\ r \in SUBSET (A \cup B)
    BY <1>1, <2>2, <2>3, <2>4, TakeOne
  <2>6. Amounts(r) \in Nat
    <3>1. n - 1 \in Nat /\ ~(n <= n - 1)
      BY <2>5
    <3> QED
      BY <2>1, <2>5, <3>1
  <2>7. Amounts(b) = x.amount + Amounts(r)
    BY <1>1, <1>2, <2>3, <2>4, AmountTakeOut
  <2>8. x.amount \in Nat
    BY <2>3
  <2> QED
    BY <2>2, <2>6, <2>7, <2>8
<1>4. \A b \in SUBSET (A \cup B) : Amounts(b) \in Nat
  BY <1>1, <1>3
<1> HIDE DEF Bad
<1> DEFINE Off == {n \in Nat : \E b \in SUBSET B : Cardinality(b) = n /\ Amounts(A \cup b) # Amounts(A) + Amounts(b)}
<1>5. Off = {}
  <2> SUFFICES ASSUME Off # {} PROVE FALSE
    OBVIOUS
  <2>1. PICK n \in Off : \A m \in Off : n <= m
    BY LeastMember
  <2>2. PICK b \in SUBSET B : Cardinality(b) = n /\ Amounts(A \cup b) # Amounts(A) + Amounts(b)
    BY <2>1
  <2>3. b # {}
    <3>1. A \in SUBSET (A \cup B) /\ A \cup {} = A
      OBVIOUS
    <3>2. Amounts(A) \in Nat
      BY <1>4, <3>1
    <3>3. ASSUME b = {} PROVE FALSE
      <4>1. Amounts(A \cup b) = Amounts(A) /\ Amounts(b) = 0
        BY <3>1, <3>3, AmountsNothing
      <4> QED
        BY <2>2, <3>2, <4>1
    <3> QED
      BY <3>3
  <2>4. PICK x : x \in b
    BY <2>3
  <2>5. PICK r : r = b \ {x}
    OBVIOUS
  <2>6. PICK u : u = A \cup b
    OBVIOUS
  <2>7. PICK v : v = A \cup r
    OBVIOUS
  <2>8. b \in SUBSET (A \cup B) /\ r \in SUBSET B /\ r \in SUBSET (A \cup B) /\ u \in SUBSET (A \cup B) /\ v = u \ {x} /\ x \in u
    BY <2>4, <2>5, <2>6, <2>7
  <2>9. Cardinality(r) = n - 1 /\ n \in Nat \ {0}
    BY <1>1, <2>2, <2>4, <2>5, <2>8, TakeOne
  <2>10. Amounts(v) = Amounts(A) + Amounts(r)
    <3>1. n - 1 \in Nat /\ ~(n <= n - 1)
      BY <2>9
    <3> QED
      BY <2>1, <2>7, <2>8, <2>9, <3>1
  <2>11. Amounts(b) = x.amount + Amounts(r)
    BY <1>1, <1>2, <2>4, <2>5, <2>8, AmountTakeOut
  <2>12. Amounts(u) = x.amount + Amounts(v)
    BY <1>1, <1>2, <2>8, AmountTakeOut
  <2>13. x.amount \in Nat /\ Amounts(A) \in Nat /\ Amounts(r) \in Nat
    BY <1>4, <2>8
  <2> QED
    BY <2>2, <2>6, <2>10, <2>11, <2>12, <2>13
<1>6. Cardinality(B) \in Nat
  BY <1>1
<1> QED
  BY <1>4, <1>5, <1>6

LEMMA AmountsTogether ==
  ASSUME NEW A, IsFiniteSet(A), NEW B, IsFiniteSet(B), \A p \in A \cup B : p.amount \in Nat
  PROVE  Amounts(A \cup B) <= Amounts(A) + Amounts(B) /\ Amounts(A) \in Nat /\ Amounts(B) \in Nat
         /\ Amounts(A \cup B) \in Nat
<1>1. PICK C : C = B \ A
  OBVIOUS
<1>2. PICK E : E = B \cap A
  OBVIOUS
<1>3. IsFiniteSet(C) /\ IsFiniteSet(E) /\ A \cap C = {} /\ E \cap C = {} /\ A \cup C = A \cup B /\ E \cup C = B
  BY <1>1, <1>2, FS_Subset
<1>4. (\A p \in A \cup C : p.amount \in Nat) /\ \A p \in E \cup C : p.amount \in Nat
  BY <1>3
<1>5. Amounts(A \cup B) = Amounts(A) + Amounts(C) /\ Amounts(A) \in Nat /\ Amounts(C) \in Nat
  BY <1>3, <1>4, AmountsApart
<1>6. Amounts(B) = Amounts(E) + Amounts(C) /\ Amounts(E) \in Nat
  BY <1>3, <1>4, AmountsApart
<1> QED
  BY <1>5, <1>6
=============================================================================
