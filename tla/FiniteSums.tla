----------------------------- MODULE FiniteSums -----------------------------
(***************************************************************************)
(* What the folds of the community modules add up to. The models sum miles *)
(* over segments and distances over points with MapThenSumSet; here the    *)
(* recursive function behind it is shown to exist and to be additive.      *)
(* Inductions are over sets: the least counterexample of a set of bad      *)
(* cases, so that no theorem with an operator parameter is needed.         *)
(***************************************************************************)
EXTENDS Integers, FiniteSets, FiniteSetTheorems, WellFoundedInduction, TLAPS

Pick(s) == CHOOSE x \in s : TRUE

(* g adds up F over every subset of S, one picked element after the other. *)
IsSum(g, S, F) ==
    g = [s \in SUBSET S |-> IF s = {} THEN 0 ELSE F[Pick(s)] + g[s \ {Pick(s)}]]

LEMMA LeastNatural ==
    ASSUME NEW T \in SUBSET Nat, T # {}
    PROVE  \E m \in T : \A k \in T : m <= k
<1>1. \E m \in T : \A k \in T : <<k, m>> \notin OpToRel(<, Nat)
  BY NatLessThanWellFounded, WFMin
<1>2. \A k, m \in Nat : <<k, m>> \notin OpToRel(<, Nat) => m <= k
  BY DEF OpToRel
<1>3. QED
  BY <1>1, <1>2

(* Induction over the subsets of a finite set.                             *)
LEMMA SubsetInduction ==
    ASSUME NEW S, IsFiniteSet(S), NEW G,
           \A T \in SUBSET S : (\A x \in T : T \ {x} \in G) => T \in G
    PROVE  \A T \in SUBSET S : T \in G
<1> DEFINE bad == {T \in SUBSET S : T \notin G}
           sizes == {Cardinality(T) : T \in bad}
<1>1. \A T \in SUBSET S : IsFiniteSet(T) /\ Cardinality(T) \in Nat
  BY FS_Subset, FS_CardinalityType
<1>2. ASSUME bad # {} PROVE FALSE
  <2>1. sizes \in SUBSET Nat /\ sizes # {}
    BY <1>1, <1>2
  <2>2. PICK m \in sizes : \A k \in sizes : m <= k
    BY <2>1, LeastNatural
  <2>3. PICK T \in bad : Cardinality(T) = m
    OBVIOUS
  <2>4. PICK x \in T : T \ {x} \notin G
    BY <2>3
  <2>5. T \ {x} \in bad
    BY <2>3, <2>4
  <2>6. Cardinality(T \ {x}) = Cardinality(T) - 1
    BY <1>1, <2>3, <2>4, FS_RemoveElement
  <2>7. m <= Cardinality(T \ {x})
    BY <2>2, <2>5
  <2> HIDE DEF bad
  <2>8. Cardinality(T) \in Nat
    BY <1>1, <2>3 DEF bad
  <2> QED BY <2>3, <2>6, <2>7, <2>8
<1>3. QED
  BY <1>2

(* Induction over the naturals, for a set of good numbers.                 *)
LEMMA NumberInduction ==
    ASSUME NEW G, 0 \in G, \A n \in Nat : n \in G => n + 1 \in G
    PROVE  \A n \in Nat : n \in G
<1>1. ASSUME NEW n \in Nat, n \notin G PROVE FALSE
  <2>1. PICK m \in Nat \ G : \A k \in Nat \ G : m <= k
    BY <1>1, LeastNatural
  <2>2. m # 0 /\ m - 1 \in Nat
    BY <2>1
  <2>3. m - 1 \in G
    BY <2>1, <2>2
  <2> QED BY <2>1, <2>2, <2>3
<1>2. QED
  BY <1>1

LEMMA PickIsElement ==
    ASSUME NEW s, s # {}
    PROVE  Pick(s) \in s
BY DEF Pick

LEMMA SumStep ==
    ASSUME NEW S, NEW F, NEW g, IsSum(g, S, F), NEW T \in SUBSET S, T # {}
    PROVE  g[T] = F[Pick(T)] + g[T \ {Pick(T)}]
<1> DEFINE body(h, s) == IF s = {} THEN 0 ELSE F[Pick(s)] + h[s \ {Pick(s)}]
<1>1. g = [s \in SUBSET S |-> body(g, s)]
  BY DEF IsSum
<1> HIDE DEF body
<1>2. g[T] = body(g, T)
  BY <1>1
<1>3. QED
  BY <1>2 DEF body

LEMMA SumEmpty ==
    ASSUME NEW S, NEW F, NEW g, IsSum(g, S, F)
    PROVE  g[{}] = 0
<1> DEFINE body(h, s) == IF s = {} THEN 0 ELSE F[Pick(s)] + h[s \ {Pick(s)}]
<1>1. g = [s \in SUBSET S |-> body(g, s)]
  BY DEF IsSum
<1> HIDE DEF body
<1>2. g[{}] = body(g, {})
  BY <1>1
<1>3. QED
  BY <1>2 DEF body

(* The recursion has a solution: build it for subsets of growing size.     *)
LEMMA SumExists ==
    ASSUME NEW S, IsFiniteSet(S), NEW F
    PROVE  \E g : IsSum(g, S, F)
<1> DEFINE body(h, s) == IF s = {} THEN 0 ELSE F[Pick(s)] + h[s \ {Pick(s)}]
           upTo(n) == {s \in SUBSET S : Cardinality(s) <= n}
           solves(h, n) == h = [s \in upTo(n) |-> body(h, s)]
           good == {n \in Nat : \E h : solves(h, n)}
<1>1. \A T \in SUBSET S : IsFiniteSet(T) /\ Cardinality(T) \in Nat
  BY FS_Subset, FS_CardinalityType
<1>2. \A T \in SUBSET S : T # {} =>
          T \ {Pick(T)} \in SUBSET S /\ Cardinality(T \ {Pick(T)}) = Cardinality(T) - 1
  BY <1>1, PickIsElement, FS_RemoveElement
<1>3. 0 \in good
  <2>1. \A T \in upTo(0) : T = {}
    BY <1>1, FS_EmptySet
  <2> DEFINE h0 == [s \in upTo(0) |-> 0]
  <2>2. solves(h0, 0)
    BY <2>1
  <2> QED BY <2>2
<1>4. ASSUME NEW n \in Nat, n \in good PROVE n + 1 \in good
  <2>1. PICK h : solves(h, n)
    BY <1>4
  <2> DEFINE h1 == [s \in upTo(n + 1) |-> body(h, s)]
  <2>2. \A s \in upTo(n) : s \in upTo(n + 1) /\ h1[s] = h[s]
    <3> HIDE DEF body
    <3>1. \A s \in upTo(n) : s \in upTo(n + 1)
      BY <1>1
    <3> HIDE DEF upTo
    <3>2. \A s \in upTo(n) : h[s] = body(h, s)
      BY <2>1
    <3> QED BY <3>1, <3>2
  <2>3. ASSUME NEW s \in upTo(n + 1) PROVE body(h1, s) = body(h, s)
    <3>1. CASE s = {}
      BY <3>1
    <3>2. CASE s # {}
      <4>1. s \ {Pick(s)} \in upTo(n)
        BY <1>1, <1>2, <3>2
      <4>2. h1[s \ {Pick(s)}] = h[s \ {Pick(s)}]
        BY <2>2, <4>1
      <4> QED BY <3>2, <4>2
    <3> QED BY <3>1, <3>2
  <2>4. solves(h1, n + 1)
    <3> HIDE DEF body, upTo
    <3> QED BY <2>3
  <2> HIDE DEF solves, h1
  <2> QED BY <2>4
<1>5. \A n \in Nat : n \in good
  <2> HIDE DEF good
  <2> QED BY <1>3, <1>4, NumberInduction
<1>6. PICK g : solves(g, Cardinality(S))
  BY <1>1, <1>5
<1>7. upTo(Cardinality(S)) = SUBSET S
  BY FS_Subset
<1>8. IsSum(g, S, F)
  <2> HIDE DEF upTo
  <2> QED BY <1>6, <1>7 DEF IsSum
<1>9. QED
  BY <1>8

LEMMA SumType ==
    ASSUME NEW S, IsFiniteSet(S), NEW F, \A x \in S : F[x] \in Nat, NEW g, IsSum(g, S, F)
    PROVE  \A T \in SUBSET S : g[T] \in Nat
<1> DEFINE good == {s \in SUBSET S : g[s] \in Nat}
<1>1. ASSUME NEW s \in SUBSET S, \A x \in s : s \ {x} \in good
      PROVE  s \in good
  <2>1. CASE s = {}
    BY <2>1, SumEmpty
  <2>2. CASE s # {}
    <3>1. Pick(s) \in s
      BY <2>2, PickIsElement
    <3>2. g[s \ {Pick(s)}] \in Nat /\ F[Pick(s)] \in Nat
      BY <1>1, <3>1
    <3>3. g[s] = F[Pick(s)] + g[s \ {Pick(s)}]
      BY <2>2, SumStep
    <3> QED BY <3>2, <3>3
  <2> QED BY <2>1, <2>2
<1>2. \A s \in SUBSET S : s \in good
  <2> HIDE DEF good
  <2> QED BY <1>1, SubsetInduction
<1>3. QED
  BY <1>2

(* Two solutions agree wherever both are defined.                          *)
LEMMA SumUnique ==
    ASSUME NEW S, IsFiniteSet(S), NEW T \in SUBSET S, NEW F, NEW E, NEW g, NEW h,
           IsSum(g, S, F), IsSum(h, T, E), \A x \in S : F[x] \in Nat, \A x \in T : E[x] = F[x]
    PROVE  \A s \in SUBSET T : h[s] = g[s]
<1> DEFINE good == {s \in SUBSET T : h[s] = g[s]}
<1>1. IsFiniteSet(T)
  BY FS_Subset
<1>2. ASSUME NEW s \in SUBSET T, \A x \in s : s \ {x} \in good
      PROVE  s \in good
  <2>1. CASE s = {}
    <3>1. g[s] = 0
      BY <2>1, SumEmpty
    <3>2. h[s] = 0
      BY <2>1, SumEmpty
    <3> QED BY <3>1, <3>2
  <2>2. CASE s # {}
    <3>1. Pick(s) \in s
      BY <2>2, PickIsElement
    <3>2. h[s \ {Pick(s)}] = g[s \ {Pick(s)}]
      BY <1>2, <3>1
    <3>3. g[s] = F[Pick(s)] + g[s \ {Pick(s)}]
      <4>1. s \in SUBSET S
        OBVIOUS
      <4>2. F[Pick(s)] \in Nat /\ g[s \ {Pick(s)}] \in Nat
        BY <3>1, <4>1, SumType
      <4> QED BY <2>2, <4>1, <4>2, SumStep
    <3>4. h[s] = E[Pick(s)] + h[s \ {Pick(s)}]
      <4>1. E[Pick(s)] \in Nat /\ h[s \ {Pick(s)}] \in Nat
        BY <1>1, <3>1, SumType
      <4> QED BY <2>2, <4>1, SumStep
    <3>5. E[Pick(s)] = F[Pick(s)]
      BY <3>1
    <3> QED BY <3>2, <3>3, <3>4, <3>5
  <2> QED BY <2>1, <2>2
<1>3. \A s \in SUBSET T : s \in good
  <2> HIDE DEF good
  <2> QED BY <1>1, <1>2, SubsetInduction
<1>4. QED
  BY <1>3

(* Any element may be taken out, not only the picked one.                  *)
LEMMA SumRemove ==
    ASSUME NEW S, IsFiniteSet(S), NEW F, \A x \in S : F[x] \in Nat, NEW g, IsSum(g, S, F)
    PROVE  \A T \in SUBSET S : \A x \in T : g[T] = F[x] + g[T \ {x}]
<1> DEFINE good == {s \in SUBSET S : \A x \in s : g[s] = F[x] + g[s \ {x}]}
<1>1. ASSUME NEW s \in SUBSET S, \A x \in s : s \ {x} \in good
      PROVE  s \in good
  <2> SUFFICES ASSUME NEW x \in s PROVE g[s] = F[x] + g[s \ {x}]
    OBVIOUS
  <2> DEFINE y == Pick(s)
  <2>1. y \in s
    BY PickIsElement
  <2>2. g[s] = F[y] + g[s \ {y}]
    BY SumStep
  <2>3. CASE x = y
    BY <2>2, <2>3
  <2>4. CASE x # y
    <3> HIDE DEF y
    <3>1. g[s \ {y}] = F[x] + g[(s \ {y}) \ {x}]
      BY <1>1, <2>1, <2>4
    <3>2. g[s \ {x}] = F[y] + g[(s \ {x}) \ {y}]
      BY <1>1, <2>1, <2>4
    <3>3. (s \ {x}) \ {y} = (s \ {y}) \ {x}
      OBVIOUS
    <3>4. F[x] \in Nat /\ F[y] \in Nat /\ g[(s \ {y}) \ {x}] \in Nat
      BY <2>1, SumType
    <3>5. g[s] = F[y] + (F[x] + g[(s \ {y}) \ {x}])
      BY <2>2, <3>1, Zenon
    <3>6. g[s \ {x}] = F[y] + g[(s \ {y}) \ {x}]
      BY <3>2, <3>3, Zenon
    <3>7. F[y] + (F[x] + g[(s \ {y}) \ {x}]) = F[x] + (F[y] + g[(s \ {y}) \ {x}])
      BY <3>4
    <3> QED BY <3>5, <3>6, <3>7, Zenon
  <2> QED BY <2>3, <2>4
<1>2. \A s \in SUBSET S : s \in good
  <2> HIDE DEF good
  <2> QED BY <1>1, SubsetInduction
<1>3. QED
  BY <1>2

(* Sums over disjoint sets add up.                                         *)
LEMMA SumDisjoint ==
    ASSUME NEW S, IsFiniteSet(S), NEW F, \A x \in S : F[x] \in Nat, NEW g, IsSum(g, S, F),
           NEW T \in SUBSET S
    PROVE  \A U \in SUBSET S : T \cap U = {} => g[T \cup U] = g[T] + g[U]
<1> DEFINE good == {s \in SUBSET S : T \cap s = {} => g[T \cup s] = g[T] + g[s]}
<1>1. ASSUME NEW s \in SUBSET S, \A x \in s : s \ {x} \in good
      PROVE  s \in good
  <2> SUFFICES ASSUME T \cap s = {} PROVE g[T \cup s] = g[T] + g[s]
    OBVIOUS
  <2>t. g[T] \in Nat
    BY SumType
  <2>1. CASE s = {}
    <3>1. g[s] = 0 /\ T \cup s = T
      BY <2>1, SumEmpty
    <3> QED BY <2>t, <3>1
  <2>2. CASE s # {}
    <3>1. PICK x \in s : TRUE
      BY <2>2
    <3>2. g[T \cup (s \ {x})] = g[T] + g[s \ {x}]
      BY <1>1
    <3>3. (T \cup s) \ {x} = T \cup (s \ {x})
      OBVIOUS
    <3>4. g[T \cup s] = F[x] + g[(T \cup s) \ {x}]
      <4>1. T \cup s \in SUBSET S /\ x \in T \cup s
        OBVIOUS
      <4> QED BY <4>1, SumRemove
    <3>5. g[s] = F[x] + g[s \ {x}]
      BY SumRemove
    <3>6. F[x] \in Nat /\ g[s \ {x}] \in Nat
      BY SumType
    <3>7. g[T \cup s] = F[x] + (g[T] + g[s \ {x}])
      BY <3>2, <3>3, <3>4, Zenon
    <3>8. F[x] + (g[T] + g[s \ {x}]) = g[T] + (F[x] + g[s \ {x}])
      BY <2>t, <3>6
    <3> QED BY <3>5, <3>7, <3>8, Zenon
  <2> QED BY <2>1, <2>2
<1>2. \A s \in SUBSET S : s \in good
  <2> HIDE DEF good
  <2> QED BY <1>1, SubsetInduction
<1>3. QED
  BY <1>2

(* A sum of sums: the parts are disjoint, and a number is given to each.   *)
LEMMA PartsAddUp ==
    ASSUME NEW S, IsFiniteSet(S), NEW F, \A x \in S : F[x] \in Nat, NEW g, IsSum(g, S, F),
           NEW I, IsFiniteSet(I), NEW D \in [I -> SUBSET S], \A i, j \in I : i # j => D[i] \cap D[j] = {},
           NEW E, \A i \in I : E[i] = g[D[i]], NEW e, IsSum(e, I, E)
    PROVE  e[I] = g[UNION {D[i] : i \in I}]
<1> DEFINE part(J) == UNION {D[i] : i \in J}
           good == {J \in SUBSET I : e[J] = g[part(J)]}
<1>a. \A A, B \in SUBSET S : A \cap B = {} => g[A \cup B] = g[A] + g[B]
  BY SumDisjoint
<1>1. \A i \in I : E[i] \in Nat
  BY SumType
<1>2. ASSUME NEW J \in SUBSET I, \A i \in J : J \ {i} \in good
      PROVE  J \in good
  <2>1. CASE J = {}
    <3>1. part(J) = {}
      BY <2>1
    <3>2. e[J] = 0 /\ g[part(J)] = 0
      BY <2>1, <3>1, SumEmpty
    <3> QED BY <3>2
  <2>2. CASE J # {}
    <3>1. PICK i \in J : TRUE
      BY <2>2
    <3>2. e[J \ {i}] = g[part(J \ {i})]
      BY <1>2, <3>1
    <3>3. e[J] = E[i] + e[J \ {i}]
      BY <1>1, <3>1, SumRemove
    <3> DEFINE A == part(J \ {i})
               B == D[i]
    <3>4. A \in SUBSET S /\ B \in SUBSET S
      BY <3>1
    <3>5. part(J) = A \cup B /\ A \cap B = {}
      BY <3>1
    <3> HIDE DEF part, A, B
    <3>6. g[A \cup B] = g[A] + g[B]
      BY <1>a, <3>4, <3>5
    <3>7. g[A] \in Nat /\ g[B] \in Nat
      BY <3>4, SumType
    <3>8. e[J] = g[B] + g[A]
      BY <3>2, <3>3 DEF A, B
    <3>9. g[part(J)] = g[A] + g[B]
      BY <3>5, <3>6, Zenon
    <3>10. e[J] = g[part(J)]
      BY <3>7, <3>8, <3>9
    <3> QED BY <3>10
  <2> QED BY <2>1, <2>2
<1>3. \A J \in SUBSET I : J \in good
  <2> HIDE DEF good
  <2> QED BY <1>2, SubsetInduction
<1>4. QED
  BY <1>3

(* Counting is adding ones.                                                *)
LEMMA CountIsSum ==
    ASSUME NEW S, IsFiniteSet(S), NEW g, IsSum(g, S, [x \in S |-> 1])
    PROVE  \A T \in SUBSET S : g[T] = Cardinality(T)
<1> DEFINE F == [x \in S |-> 1]
           good == {T \in SUBSET S : g[T] = Cardinality(T)}
<1>1. \A x \in S : F[x] \in Nat /\ F[x] = 1
  OBVIOUS
<1>2. IsSum(g, S, F)
  OBVIOUS
<1> HIDE DEF F
<1>3. ASSUME NEW T \in SUBSET S, \A x \in T : T \ {x} \in good
      PROVE  T \in good
  <2>1. CASE T = {}
    BY <1>2, <2>1, SumEmpty, FS_EmptySet
  <2>2. CASE T # {}
    <3>1. PICK x \in T : TRUE
      BY <2>2
    <3>2. g[T] = F[x] + g[T \ {x}]
      BY <1>1, <1>2, SumRemove
    <3>3. IsFiniteSet(T) /\ Cardinality(T) \in Nat /\ Cardinality(T \ {x}) = Cardinality(T) - 1
      BY <3>1, FS_Subset, FS_RemoveElement, FS_CardinalityType
    <3>4. g[T \ {x}] = Cardinality(T \ {x})
      BY <1>3, <3>1
    <3> QED BY <1>1, <3>1, <3>2, <3>3, <3>4
  <2> QED BY <2>1, <2>2
<1>4. \A T \in SUBSET S : T \in good
  <2> HIDE DEF good
  <2> QED BY <1>3, SubsetInduction
<1>5. QED
  BY <1>4
=============================================================================
