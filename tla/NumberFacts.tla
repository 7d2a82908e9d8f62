---------------------------- MODULE NumberFacts ----------------------------
(***************************************************************************)
(* Facts about sets of naturals and about sums, which the proofs about all *)
(* components use.  Induction is about a set and not about a predicate:    *)
(* the least element of what is left out of the set gives it.              *)
(***************************************************************************)
EXTENDS FiniteSetsExt, FiniteSetTheorems, WellFoundedInduction, TLAPS

(* The induction principle of the naturals, about a set. *)
LEMMA SetInduction ==
    ASSUME NEW S \in SUBSET Nat, 0 \in S, \A n \in S : n + 1 \in S
    PROVE  S = Nat
<1> DEFINE R == OpToRel(<, Nat)
           T == Nat \ S
<1>1. IsWellFoundedOn(R, Nat)
  BY NatLessThanWellFounded
<1>2. SUFFICES ASSUME T # {} PROVE FALSE
  OBVIOUS
<1>3. PICK x \in T : \A y \in T : ~ (<<y, x>> \in R)
  <2> HIDE DEF R, T
  <2>1. T \subseteq Nat
    BY DEF T
  <2> QED
    BY <1>1, <1>2, <2>1, WFMin
<1>4. \A y \in T : ~ (y < x)
  <2>1. TAKE y \in T
  <2>2. <<y, x>> \in R <=> y < x
    BY DEF OpToRel
  <2> QED
    BY <1>3, <2>2
<1> QED
  BY <1>4

(* A set of naturals that is not empty has a least element. *)
LEMMA LeastExists ==
    ASSUME NEW S \in SUBSET Nat, S # {}
    PROVE  \E m \in S : \A n \in S : m <= n
<1> DEFINE R == OpToRel(<, Nat)
<1>1. IsWellFoundedOn(R, Nat)
  BY NatLessThanWellFounded
<1>2. PICK m \in S : \A n \in S : ~ (<<n, m>> \in R)
  <2> HIDE DEF R
  <2> QED
    BY <1>1, WFMin
<1>3. ASSUME NEW n \in S PROVE m <= n
  <2>1. <<n, m>> \in R <=> n < m
    BY DEF OpToRel
  <2>2. ~ (n < m)
    BY <1>2, <2>1
  <2> QED
    BY <2>2
<1> QED
  BY <1>3

(* A bounded set of naturals that is not empty has a greatest element. *)
LEMMA GreatestExists ==
    ASSUME NEW S \in SUBSET Nat, S # {}, NEW bound \in Nat,
           \A n \in S : n <= bound
    PROVE  \E m \in S : \A n \in S : n <= m
<1> DEFINE Gap == {gap \in Nat : \E n \in S : bound = n + gap}
<1>1. Gap \in SUBSET Nat /\ Gap # {}
  <2>1. PICK n \in S : TRUE
    OBVIOUS
  <2>2. bound - n \in Nat /\ bound = n + (bound - n)
    BY <2>1
  <2> QED
    BY <2>1, <2>2
<1>2. PICK gap \in Gap : \A g \in Gap : gap <= g
  <2> HIDE DEF Gap
  <2> QED
    BY <1>1, LeastExists
<1>3. PICK m \in S : bound = m + gap
  OBVIOUS
<1>4. ASSUME NEW n \in S PROVE n <= m
  <2>1. bound - n \in Nat /\ bound = n + (bound - n)
    OBVIOUS
  <2>2. gap <= bound - n
    BY <1>2, <2>1
  <2> QED
    BY <1>3, <2>2
<1> QED
  BY <1>4

LEMMA MaxIsGreatest ==
    ASSUME NEW S \in SUBSET Nat, S # {}, NEW bound \in Nat,
           \A n \in S : n <= bound
    PROVE  Max(S) \in S /\ \A n \in S : n <= Max(S)
<1>1. PICK m \in S : \A n \in S : m >= n
  BY GreatestExists
<1> QED
  BY <1>1 DEF Max

LEMMA MinIsLeast ==
    ASSUME NEW S \in SUBSET Nat, S # {}
    PROVE  Min(S) \in S /\ \A n \in S : Min(S) <= n
<1>1. PICK m \in S : \A n \in S : m <= n
  BY LeastExists
<1> QED
  BY <1>1 DEF Min

-----------------------------------------------------------------------------
(* Sums over finite sets *)

Pick(S) == CHOOSE x \in S : TRUE

(* The function that a sum of f over the subsets of S is taken from. *)
IsSum(sum, f, S) ==
    sum = [s \in SUBSET S |-> IF s = {} THEN 0 ELSE f[Pick(s)] + sum[s \ {Pick(s)}]]

LEMMA SumDef ==
    ASSUME NEW f, NEW S
    PROVE  SumFunctionOnSet(f, S) = (CHOOSE sum : IsSum(sum, f, S))[S]
<1> QED
  BY DEF SumFunctionOnSet, FoldFunctionOnSet, MapThenFoldSet, IsSum, Pick

(* A set without its picked element has one element less. *)
LEMMA PickOut ==
    ASSUME NEW S, IsFiniteSet(S), S # {}
    PROVE  /\ Pick(S) \in S /\ IsFiniteSet(S \ {Pick(S)})
           /\ Cardinality(S) \in Nat
           /\ Cardinality(S) = Cardinality(S \ {Pick(S)}) + 1
           /\ Cardinality(S \ {Pick(S)}) \in Nat
<1>1. Pick(S) \in S
  BY DEF Pick
<1>2. IsFiniteSet(S \ {Pick(S)}) /\ Cardinality(S \ {Pick(S)}) = Cardinality(S) - 1
  BY <1>1, FS_RemoveElement
<1>3. Cardinality(S) \in Nat /\ Cardinality(S \ {Pick(S)}) \in Nat
  BY <1>2, FS_CardinalityType
<1> QED
  BY <1>1, <1>2, <1>3

LEMMA SumExists ==
    ASSUME NEW S, IsFiniteSet(S), NEW f, \A x \in S : f[x] \in Int
    PROVE  \E sum \in [SUBSET S -> Int] : IsSum(sum, f, S)
<1> DEFINE Small(n) == {s \in SUBSET S : Cardinality(s) <= n}
           Body(sum, s) == IF s = {} THEN 0 ELSE f[Pick(s)] + sum[s \ {Pick(s)}]
           N == {n \in Nat : \E sum \in [Small(n) -> Int] :
                               \A s \in Small(n) : sum[s] = Body(sum, s)}
<1>0. \A s \in SUBSET S : IsFiniteSet(s) /\ Cardinality(s) \in Nat
  BY FS_Subset, FS_CardinalityType
<1>1. 0 \in N
  <2> DEFINE sum == [s \in Small(0) |-> 0]
  <2>1. \A s \in Small(0) : s = {}
    BY <1>0, FS_EmptySet
  <2>2. sum \in [Small(0) -> Int] /\ \A s \in Small(0) : sum[s] = Body(sum, s)
    BY <2>1
  <2> QED
    BY <2>2
<1>2. ASSUME NEW n \in N PROVE n + 1 \in N
  <2>1. PICK old \in [Small(n) -> Int] : \A s \in Small(n) : old[s] = Body(old, s)
    OBVIOUS
  <2> DEFINE new == [s \in Small(n + 1) |-> Body(old, s)]
  <2>2. ASSUME NEW s \in Small(n + 1), s # {}
        PROVE  /\ Pick(s) \in S /\ s \ {Pick(s)} \in Small(n)
               /\ s \ {Pick(s)} \in Small(n + 1)
    <3>1. /\ Pick(s) \in s /\ Cardinality(s) = Cardinality(s \ {Pick(s)}) + 1
          /\ Cardinality(s \ {Pick(s)}) \in Nat
      BY <1>0, <2>2, PickOut
    <3>2. Cardinality(s) <= n + 1 /\ n \in Nat /\ s \in SUBSET S
      OBVIOUS
    <3>3. Cardinality(s \ {Pick(s)}) <= n
      BY <3>1, <3>2
    <3> QED
      BY <3>1, <3>2, <3>3
  <2>3. ASSUME NEW s \in Small(n + 1) PROVE Body(old, s) \in Int
    <3>1. CASE s = {}
      BY <3>1
    <3>2. CASE s # {}
      <4>1. f[Pick(s)] \in Int /\ old[s \ {Pick(s)}] \in Int
        BY <2>2, <3>2
      <4> QED
        BY <3>2, <4>1
    <3> QED
      BY <3>1, <3>2
  <2>4. ASSUME NEW s \in Small(n) PROVE s \in Small(n + 1) /\ new[s] = old[s]
    <3>1. Cardinality(s) \in Nat /\ Cardinality(s) <= n /\ n \in Nat
      BY <1>0
    <3>2. s \in Small(n + 1)
      BY <3>1
    <3> QED
      BY <2>1, <3>2
  <2>5. ASSUME NEW s \in Small(n + 1) PROVE new[s] = Body(new, s)
    <3>1. CASE s = {}
      BY <3>1
    <3>2. CASE s # {}
      <4>1. new[s \ {Pick(s)}] = old[s \ {Pick(s)}]
        BY <2>2, <2>4, <3>2
      <4>2. new[s] = f[Pick(s)] + old[s \ {Pick(s)}]
        BY <3>2
      <4> HIDE DEF new
      <4> QED
        BY <3>2, <4>1, <4>2
    <3> QED
      BY <3>1, <3>2
  <2>6. new \in [Small(n + 1) -> Int]
    BY <2>3
  <2> HIDE DEF new, Small, Body
  <2>7. n + 1 \in Nat
    OBVIOUS
  <2> QED
    BY <2>5, <2>6, <2>7
<1>3. Cardinality(S) \in N
  <2> HIDE DEF N
  <2>1. N \in SUBSET Nat /\ Cardinality(S) \in Nat
    BY FS_CardinalityType DEF N
  <2> QED
    BY <2>1, <1>1, <1>2, SetInduction
<1>4. Small(Cardinality(S)) = SUBSET S
  BY FS_Subset
<1>5. PICK sum \in [SUBSET S -> Int] : \A s \in SUBSET S : sum[s] = Body(sum, s)
  BY <1>3, <1>4
<1>6. IsSum(sum, f, S)
  BY <1>5 DEF IsSum
<1> QED
  BY <1>6

(* The sum over a subset does not depend on the set around it.  *)
LEMMA SumOfSubset ==
    ASSUME NEW S, IsFiniteSet(S), NEW f, NEW sum, IsSum(sum, f, S),
           NEW other, NEW T \in SUBSET S, IsSum(other, f, T)
    PROVE  other[T] = sum[T]
<1> DEFINE N == {n \in Nat : \A s \in SUBSET T : Cardinality(s) = n => other[s] = sum[s]}
<1>0. \A s \in SUBSET T : /\ IsFiniteSet(s) /\ Cardinality(s) \in Nat /\ s \in SUBSET S
  BY FS_Subset, FS_CardinalityType
<1>1. 0 \in N
  <2>1. ASSUME NEW s \in SUBSET T, Cardinality(s) = 0 PROVE other[s] = sum[s]
    <3>1. s = {}
      BY <1>0, <2>1, FS_EmptySet
    <3> QED
      BY <3>1 DEF IsSum
  <2> QED
    BY <2>1
<1>2. ASSUME NEW n \in N PROVE n + 1 \in N
  <2>1. ASSUME NEW s \in SUBSET T, Cardinality(s) = n + 1 PROVE other[s] = sum[s]
    <3>1. s # {}
      <4>1. Cardinality(s) # 0
        BY <2>1
      <4> QED
        BY <4>1, FS_EmptySet
    <3> DEFINE rest == s \ {Pick(s)}
    <3>2. rest \in SUBSET T /\ Cardinality(rest) = n
      BY <1>0, <2>1, <3>1, PickOut
    <3>3. other[rest] = sum[rest]
      BY <3>2
    <3>4. /\ other[s] = f[Pick(s)] + other[rest]
          /\ sum[s] = f[Pick(s)] + sum[rest]
      BY <1>0, <3>1 DEF IsSum
    <3> QED
      BY <3>3, <3>4
  <2>2. n + 1 \in Nat
    OBVIOUS
  <2> QED
    BY <2>1, <2>2
<1>3. Cardinality(T) \in N
  <2> HIDE DEF N
  <2>1. N \in SUBSET Nat /\ Cardinality(T) \in Nat
    BY <1>0 DEF N
  <2> QED
    BY <2>1, <1>1, <1>2, SetInduction
<1> QED
  BY <1>3

(* One function has the sums over all subsets of a finite set. *)
SumsUp(sum, f, S) ==
    /\ sum \in [SUBSET S -> Int] /\ IsSum(sum, f, S)
    /\ \A T \in SUBSET S : SumFunctionOnSet(f, T) = sum[T]

LEMMA SumOnSet ==
    ASSUME NEW S, IsFiniteSet(S), NEW f, \A x \in S : f[x] \in Int
    PROVE  \E sum : SumsUp(sum, f, S)
<1>1. PICK sum \in [SUBSET S -> Int] : IsSum(sum, f, S)
  BY SumExists
<1>2. ASSUME NEW T \in SUBSET S PROVE SumFunctionOnSet(f, T) = sum[T]
  <2>1. IsFiniteSet(T) /\ \A x \in T : f[x] \in Int
    BY FS_Subset
  <2>2. \E other : IsSum(other, f, T)
    BY <2>1, SumExists
  <2> DEFINE other == CHOOSE g : IsSum(g, f, T)
  <2>3. IsSum(other, f, T)
    BY <2>2
  <2>4. SumFunctionOnSet(f, T) = other[T]
    BY SumDef
  <2> HIDE DEF other
  <2> QED
    BY <1>1, <2>3, <2>4, SumOfSubset
<1> QED
  BY <1>1, <1>2 DEF SumsUp

(* The sum over no element is zero, and one element more adds its value.   *)
LEMMA SumEmpty ==
    ASSUME NEW f
    PROVE  SumFunctionOnSet(f, {}) = 0
<1>1. PICK sum : SumsUp(sum, f, {})
  BY FS_EmptySet, SumOnSet
<1>2. sum[{}] = 0
  BY <1>1 DEF SumsUp, IsSum
<1> QED
  BY <1>1, <1>2 DEF SumsUp

LEMMA SumTakesOut ==
    ASSUME NEW S, IsFiniteSet(S), NEW f, \A x \in S : f[x] \in Int, NEW e \in S
    PROVE  /\ SumFunctionOnSet(f, S) = f[e] + SumFunctionOnSet(f, S \ {e})
           /\ SumFunctionOnSet(f, S \ {e}) \in Int
<1>1. PICK sum : SumsUp(sum, f, S)
  BY SumOnSet
<1> DEFINE N == {n \in Nat : \A s \in SUBSET S : Cardinality(s) = n =>
                    \A x \in s : sum[s] = f[x] + sum[s \ {x}]}
<1>2. \A s \in SUBSET S : IsFiniteSet(s) /\ Cardinality(s) \in Nat
  BY FS_Subset, FS_CardinalityType
<1>3. 0 \in N
  BY <1>2, FS_EmptySet
<1>4. ASSUME NEW n \in N PROVE n + 1 \in N
  <2>1. ASSUME NEW s \in SUBSET S, Cardinality(s) = n + 1, NEW x \in s
        PROVE  sum[s] = f[x] + sum[s \ {x}]
    <3> DEFINE p == Pick(s)
    <3>1. p \in s /\ Cardinality(s \ {p}) = n
      BY <1>2, <2>1, PickOut
    <3>2. sum[s] = f[p] + sum[s \ {p}]
      BY <1>1, <3>1 DEF SumsUp, IsSum
    <3>3. CASE x = p
      BY <3>2, <3>3
    <3>4. CASE x # p
      <4> DEFINE rest == (s \ {p}) \ {x}
      <4>1. s \ {p} \in SUBSET S /\ x \in s \ {p}
        BY <3>4
      <4>2. sum[s \ {p}] = f[x] + sum[rest]
        BY <3>1, <4>1
      <4>3. s \ {x} \in SUBSET S /\ p \in s \ {x} /\ (s \ {x}) \ {p} = rest
        BY <3>1, <3>4
      <4>4. Cardinality(s \ {x}) = n
        BY <1>2, <2>1, FS_RemoveElement
      <4>5. sum[s \ {x}] = f[p] + sum[rest]
        BY <4>3, <4>4
      <4>6. f[p] \in Int /\ f[x] \in Int /\ sum[rest] \in Int
        BY <1>1, <3>1 DEF SumsUp
      <4> QED
        BY <3>2, <4>2, <4>5, <4>6
    <3> QED
      BY <3>3, <3>4
  <2>2. n + 1 \in Nat
    OBVIOUS
  <2> QED
    BY <2>1, <2>2
<1>5. Cardinality(S) \in N
  <2> HIDE DEF N
  <2>1. N \in SUBSET Nat /\ Cardinality(S) \in Nat
    BY <1>2 DEF N
  <2> QED
    BY <2>1, <1>3, <1>4, SetInduction
<1>6. sum[S] = f[e] + sum[S \ {e}]
  BY <1>5
<1> QED
  BY <1>1, <1>6 DEF SumsUp

(* The sum depends on the values at the elements only. *)
LEMMA SumSame ==
    ASSUME NEW S, IsFiniteSet(S), NEW f, NEW g,
           \A x \in S : f[x] \in Int, \A x \in S : g[x] = f[x]
    PROVE  SumFunctionOnSet(g, S) = SumFunctionOnSet(f, S)
<1>1. PICK sum : SumsUp(sum, f, S)
  BY SumOnSet
<1>2. IsSum(sum, g, S)
  <2>1. ASSUME NEW s \in SUBSET S, s # {}
        PROVE  g[Pick(s)] = f[Pick(s)]
    BY <2>1 DEF Pick
  <2>2. \A s \in SUBSET S :
           sum[s] = IF s = {} THEN 0 ELSE g[Pick(s)] + sum[s \ {Pick(s)}]
    BY <1>1, <2>1 DEF SumsUp, IsSum
  <2>3. sum = [s \in SUBSET S |-> sum[s]]
    BY <1>1 DEF SumsUp
  <2>4. [s \in SUBSET S |-> sum[s]] =
          [s \in SUBSET S |-> IF s = {} THEN 0 ELSE g[Pick(s)] + sum[s \ {Pick(s)}]]
    BY <2>2
  <2> QED
    BY <2>3, <2>4 DEF IsSum
<1>3. \E other : IsSum(other, g, S)
  BY <1>2
<1> DEFINE other == CHOOSE h : IsSum(h, g, S)
<1>4. IsSum(other, g, S) /\ SumFunctionOnSet(g, S) = other[S]
  BY <1>3, SumDef
<1> HIDE DEF other
<1>5. other[S] = sum[S]
  BY <1>2, <1>4, SumOfSubset
<1> QED
  BY <1>1, <1>4, <1>5 DEF SumsUp

(* The sum of a function on a finite set, and what a change of one value   *)
(* does to it.                                                              *)
LEMMA SumType ==
    ASSUME NEW S, IsFiniteSet(S), NEW f \in [S -> Int]
    PROVE  SumFunction(f) \in Int
<1>1. SumFunction(f) = SumFunctionOnSet(f, S)
  BY DEF SumFunction
<1>2. PICK sum : SumsUp(sum, f, S)
  BY SumOnSet
<1> QED
  BY <1>1, <1>2 DEF SumsUp

LEMMA SumChanges ==
    ASSUME NEW S, IsFiniteSet(S), NEW f \in [S -> Int], NEW e \in S, NEW v \in Int
    PROVE  SumFunction([f EXCEPT ![e] = v]) = SumFunction(f) - f[e] + v
<1> DEFINE g == [f EXCEPT ![e] = v]
           rest == SumFunctionOnSet(f, S \ {e})
<1>1. g \in [S -> Int] /\ g[e] = v /\ \A x \in S \ {e} : g[x] = f[x]
  OBVIOUS
<1> HIDE DEF g
<1>2. SumFunction(f) = SumFunctionOnSet(f, S) /\ SumFunction(g) = SumFunctionOnSet(g, S)
  BY <1>1 DEF SumFunction
<1>3. SumFunctionOnSet(f, S) = f[e] + rest /\ rest \in Int
  BY SumTakesOut
<1>4. SumFunctionOnSet(g, S) = g[e] + SumFunctionOnSet(g, S \ {e})
  BY <1>1, SumTakesOut
<1>5. SumFunctionOnSet(g, S \ {e}) = rest
  <2>1. IsFiniteSet(S \ {e})
    BY FS_RemoveElement
  <2>2. \A x \in S \ {e} : f[x] \in Int
    OBVIOUS
  <2> QED
    BY <1>1, <2>1, <2>2, SumSame
<1>6. SumFunction(g) = SumFunction(f) - f[e] + v
  <2> HIDE DEF rest
  <2>1. f[e] \in Int
    OBVIOUS
  <2> QED
    BY <1>1, <1>2, <1>3, <1>4, <1>5, <2>1
<1> QED
  BY <1>6 DEF g

(* A sequence of numbers that is one longer has the last one more.         *)
LEMMA SumAppends ==
    ASSUME NEW n \in Nat, NEW f \in [1..n -> Int], NEW g \in [1..n + 1 -> Int],
           \A i \in 1..n : g[i] = f[i]
    PROVE  SumFunction(g) = SumFunction(f) + g[n + 1]
<1>1. /\ SumFunction(f) = SumFunctionOnSet(f, 1..n)
      /\ SumFunction(g) = SumFunctionOnSet(g, 1..n + 1)
  BY DEF SumFunction
<1>2. IsFiniteSet(1..n) /\ IsFiniteSet(1..n + 1)
  BY FS_Interval
<1>3. n + 1 \in 1..n + 1 /\ (1..n + 1) \ {n + 1} = 1..n
  OBVIOUS
<1>4. /\ SumFunctionOnSet(g, 1..n + 1) = g[n + 1] + SumFunctionOnSet(g, 1..n)
      /\ SumFunctionOnSet(g, 1..n) \in Int
  <2> DEFINE S == 1..n + 1
             e == n + 1
  <2>1. IsFiniteSet(S) /\ e \in S /\ S \ {e} = 1..n /\ \A x \in S : g[x] \in Int
    BY <1>2, <1>3
  <2> HIDE DEF S, e
  <2>2. /\ SumFunctionOnSet(g, S) = g[e] + SumFunctionOnSet(g, S \ {e})
        /\ SumFunctionOnSet(g, S \ {e}) \in Int
    BY <2>1, SumTakesOut
  <2>3. S = 1..n + 1 /\ e = n + 1
    BY DEF S, e
  <2> QED
    BY <2>1, <2>2, <2>3
<1>5. SumFunctionOnSet(g, 1..n) = SumFunctionOnSet(f, 1..n)
  <2> DEFINE S == 1..n
  <2>1. IsFiniteSet(S) /\ (\A x \in S : f[x] \in Int) /\ (\A x \in S : g[x] = f[x])
    BY <1>2
  <2> HIDE DEF S
  <2>2. SumFunctionOnSet(g, S) = SumFunctionOnSet(f, S)
    BY <2>1, SumSame
  <2> QED
    BY <2>2 DEF S
<1>6. g[n + 1] \in Int
  BY <1>3
<1> QED
  BY <1>1, <1>4, <1>5, <1>6

(* A sum over two disjoint sets. *)
LEMMA SumUnion ==
    ASSUME NEW A, IsFiniteSet(A), NEW B, IsFiniteSet(B), A \cap B = {},
           NEW f, \A x \in A \cup B : f[x] \in Int
    PROVE  /\ SumFunctionOnSet(f, A) \in Int /\ SumFunctionOnSet(f, B) \in Int
           /\ SumFunctionOnSet(f, A \cup B) = SumFunctionOnSet(f, A) + SumFunctionOnSet(f, B)
<1>1. IsFiniteSet(A \cup B)
  BY FS_Union
<1>2. PICK sum : SumsUp(sum, f, A \cup B)
  BY <1>1, SumOnSet
<1>3. \A s \in SUBSET (A \cup B) : SumFunctionOnSet(f, s) = sum[s] /\ sum[s] \in Int
  BY <1>2 DEF SumsUp
<1> DEFINE N == {n \in Nat : \A s \in SUBSET A : Cardinality(s) = n =>
                    sum[s \cup B] = sum[s] + sum[B]}
<1>4. \A s \in SUBSET A : IsFiniteSet(s) /\ Cardinality(s) \in Nat
  BY FS_Subset, FS_CardinalityType
<1>5. 0 \in N
  <2>1. ASSUME NEW s \in SUBSET A, Cardinality(s) = 0 PROVE sum[s \cup B] = sum[s] + sum[B]
    <3>1. s = {}
      BY <1>4, <2>1, FS_EmptySet
    <3>2. sum[{}] = 0 /\ {} \cup B = B /\ sum[B] \in Int
      BY <1>3, SumEmpty
    <3> QED
      BY <3>1, <3>2
  <2> QED
    BY <2>1
<1>6. ASSUME NEW n \in N PROVE n + 1 \in N
  <2>1. ASSUME NEW s \in SUBSET A, Cardinality(s) = n + 1
        PROVE  sum[s \cup B] = sum[s] + sum[B]
    <3>0. n \in Nat /\ IsFiniteSet(s) /\ Cardinality(s) \in Nat
      BY <1>4
    <3>1. s # {}
      BY <2>1, <3>0, FS_EmptySet
    <3>2. PICK x \in s : TRUE
      BY <3>1
    <3> DEFINE rest == s \ {x}
    <3>3. rest \in SUBSET A /\ IsFiniteSet(rest)
      BY <1>4
    <3>4. Cardinality(rest) = n
      <4>1. Cardinality(rest) = Cardinality(s) - 1
        BY <3>0, <3>2, FS_RemoveElement
      <4> HIDE DEF rest
      <4> QED
        BY <2>1, <3>0, <4>1
    <3>5. sum[rest \cup B] = sum[rest] + sum[B]
      BY <3>3, <3>4
    <3>6. sum[s] = f[x] + sum[rest]
      <4>1. \A y \in s : f[y] \in Int
        OBVIOUS
      <4>2. SumFunctionOnSet(f, s) = f[x] + SumFunctionOnSet(f, rest)
        BY <3>0, <3>2, <4>1, SumTakesOut
      <4> QED
        BY <1>3, <3>3, <4>2
    <3>7. sum[s \cup B] = f[x] + sum[rest \cup B]
      <4>1. IsFiniteSet(s \cup B) /\ \A y \in s \cup B : f[y] \in Int
        BY <3>0, FS_Union
      <4>2. x \in s \cup B /\ (s \cup B) \ {x} = rest \cup B
        BY <3>2
      <4>3. SumFunctionOnSet(f, s \cup B) = f[x] + SumFunctionOnSet(f, rest \cup B)
        BY <4>1, <4>2, SumTakesOut
      <4>4. s \cup B \in SUBSET (A \cup B) /\ rest \cup B \in SUBSET (A \cup B)
        OBVIOUS
      <4> HIDE DEF rest
      <4> QED
        BY <1>3, <4>3, <4>4
    <3>8. f[x] \in Int /\ sum[rest] \in Int /\ sum[B] \in Int
      BY <1>3, <3>2, <3>3
    <3> HIDE DEF rest
    <3> QED
      BY <3>5, <3>6, <3>7, <3>8
  <2>2. n + 1 \in Nat
    OBVIOUS
  <2> QED
    BY <2>1, <2>2
<1>7. Cardinality(A) \in N
  <2> HIDE DEF N
  <2>1. N \in SUBSET Nat /\ Cardinality(A) \in Nat
    BY FS_CardinalityType DEF N
  <2> QED
    BY <2>1, <1>5, <1>6, SetInduction
<1>8. sum[A \cup B] = sum[A] + sum[B]
  BY <1>7
<1> QED
  BY <1>3, <1>8

(* A sum of naturals is one, and no smaller than the sum over a part.      *)
LEMMA SumNat ==
    ASSUME NEW S, IsFiniteSet(S), NEW f, \A x \in S : f[x] \in Nat
    PROVE  SumFunctionOnSet(f, S) \in Nat
<1>1. PICK sum : SumsUp(sum, f, S)
  BY SumOnSet
<1> DEFINE N == {n \in Nat : \A s \in SUBSET S : Cardinality(s) = n => sum[s] \in Nat}
<1>2. \A s \in SUBSET S : IsFiniteSet(s) /\ Cardinality(s) \in Nat
  BY FS_Subset, FS_CardinalityType
<1>3. 0 \in N
  <2>1. \A s \in SUBSET S : Cardinality(s) = 0 => s = {}
    BY <1>2, FS_EmptySet
  <2>2. sum[{}] = 0
    BY <1>1 DEF SumsUp, IsSum
  <2> QED
    BY <2>1, <2>2
<1>4. ASSUME NEW n \in N PROVE n + 1 \in N
  <2>1. ASSUME NEW s \in SUBSET S, Cardinality(s) = n + 1 PROVE sum[s] \in Nat
    <3>0. n \in Nat /\ IsFiniteSet(s) /\ Cardinality(s) \in Nat
      BY <1>2
    <3>1. s # {}
      BY <2>1, <3>0, FS_EmptySet
    <3> DEFINE rest == s \ {Pick(s)}
    <3>2. Pick(s) \in s /\ Cardinality(s) = Cardinality(rest) + 1 /\ Cardinality(rest) \in Nat
      BY <3>0, <3>1, PickOut
    <3>3. rest \in SUBSET S
      OBVIOUS
    <3>4. sum[s] = f[Pick(s)] + sum[rest]
      BY <1>1, <3>1 DEF SumsUp, IsSum
    <3>5. Cardinality(rest) = n
      <4> HIDE DEF rest
      <4> QED
        BY <2>1, <3>0, <3>2
    <3>6. sum[rest] \in Nat /\ f[Pick(s)] \in Nat
      BY <3>2, <3>3, <3>5
    <3> HIDE DEF rest
    <3> QED
      BY <3>4, <3>6
  <2>2. n + 1 \in Nat
    OBVIOUS
  <2> QED
    BY <2>1, <2>2
<1>5. Cardinality(S) \in N
  <2> HIDE DEF N
  <2>1. N \in SUBSET Nat /\ Cardinality(S) \in Nat
    BY <1>2 DEF N
  <2> QED
    BY <2>1, <1>3, <1>4, SetInduction
<1>6. sum[S] \in Nat
  BY <1>5
<1> QED
  BY <1>1, <1>6 DEF SumsUp

LEMMA SumOfPart ==
    ASSUME NEW S, IsFiniteSet(S), NEW f, \A x \in S : f[x] \in Nat, NEW T \in SUBSET S
    PROVE  SumFunctionOnSet(f, T) <= SumFunctionOnSet(f, S)
<1>1. IsFiniteSet(T) /\ IsFiniteSet(S \ T)
  BY FS_Subset
<1>2. T \cap (S \ T) = {} /\ T \cup (S \ T) = S /\ \A x \in T \cup (S \ T) : f[x] \in Int
  OBVIOUS
<1>3. SumFunctionOnSet(f, S) = SumFunctionOnSet(f, T) + SumFunctionOnSet(f, S \ T)
  BY <1>1, <1>2, SumUnion
<1>4. SumFunctionOnSet(f, T) \in Nat /\ SumFunctionOnSet(f, S \ T) \in Nat
  BY <1>1, SumNat
<1> QED
  BY <1>3, <1>4

LEMMA SumOfOne ==
    ASSUME NEW x, NEW f, f[x] \in Int
    PROVE  SumFunctionOnSet(f, {x}) = f[x]
<1>1. IsFiniteSet({x}) /\ {x} \ {x} = {}
  BY FS_Singleton
<1>2. SumFunctionOnSet(f, {x}) = f[x] + SumFunctionOnSet(f, {})
  BY <1>1, SumTakesOut
<1> QED
  BY <1>2, SumEmpty

=============================================================================
