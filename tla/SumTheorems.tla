---------------------------- MODULE SumTheorems ----------------------------
(***************************************************************************)
(* Sums over finite sets, as MapThenSumSet of FiniteSetsExt computes them: *)
(* a recursive function on the subsets takes the elements one by one in an *)
(* order that CHOOSE fixes.  The lemmas say that this function exists,     *)
(* that it is unique, and that the order does not matter.  Induction is by *)
(* a least counterexample.                                                 *)
(***************************************************************************)
EXTENDS Integers, FiniteSets, FiniteSetsExt, FiniteSetTheorems, WellFoundedInduction, TLAPS

(* A nonempty set of natural numbers has a least element.                  *)
LEMMA LeastNatural ==
  ASSUME NEW T \in SUBSET Nat, T # {}
  PROVE  \E n \in T : \A m \in T : n <= m
<1>1. \E R : IsWellFoundedOn(R, Nat) /\ \A x, y \in Nat : <<y, x>> \in R <=> y < x
  <2>1. IsWellFoundedOn(OpToRel(<, Nat), Nat)
    BY NatLessThanWellFounded
  <2>2. \A x, y \in Nat : <<y, x>> \in OpToRel(<, Nat) <=> y < x
    BY DEF OpToRel
  <2> QED
    BY <2>1, <2>2
<1>2. PICK R : IsWellFoundedOn(R, Nat) /\ \A x, y \in Nat : <<y, x>> \in R <=> y < x
  BY <1>1
<1>3. PICK x \in T : \A y \in T : ~(<<y, x>> \in R)
  BY <1>2, WFMin
<1>4. \A y \in T : x \in Nat /\ y \in Nat /\ ~(y < x)
  BY <1>2, <1>3
<1>5. \A y \in T : x <= y
  BY <1>4
<1> QED
  BY <1>5

(* The element that the sum takes next.                                    *)
pick(s) == CHOOSE x \in s : TRUE

(* g adds up w over every subset of S.                                     *)
IsSum(g, w, S) ==
  g = [s \in SUBSET S |-> IF s = {} THEN 0 ELSE w[pick(s)] + g[s \ {pick(s)}]]

(* One step of the recursion.                                              *)
LEMMA SumStep ==
  ASSUME NEW g, NEW w, NEW S, IsSum(g, w, S), NEW s \in SUBSET S
  PROVE  g[s] = IF s = {} THEN 0 ELSE w[pick(s)] + g[s \ {pick(s)}]
  BY DEF IsSum

(* What is left when an element has been taken.                            *)
LEMMA PickFacts ==
  ASSUME NEW s, IsFiniteSet(s), s # {}
  PROVE  /\ pick(s) \in s /\ IsFiniteSet(s \ {pick(s)})
         /\ Cardinality(s) \in Nat /\ Cardinality(s \ {pick(s)}) \in Nat
         /\ Cardinality(s \ {pick(s)}) = Cardinality(s) - 1
<1>1. pick(s) \in s
  BY DEF pick
<1> QED
  BY <1>1, FS_RemoveElement, FS_CardinalityType

(* The subsets of S with at most n elements, and a sum over them.          *)
Level(S, n) == {s \in SUBSET S : Cardinality(s) <= n}
LevelSum(g, w, S, n) ==
  /\ g \in [Level(S, n) -> Nat]
  /\ \A s \in Level(S, n) : g[s] = IF s = {} THEN 0 ELSE w[pick(s)] + g[s \ {pick(s)}]

(* A sum over one level extends to the next.                               *)
LEMMA LevelUp ==
  ASSUME NEW S, IsFiniteSet(S), NEW w, \A x \in S : w[x] \in Nat, NEW n \in Nat,
         NEW g, LevelSum(g, w, S, n)
  PROVE  \E h : LevelSum(h, w, S, n + 1)
<1> DEFINE h == [s \in Level(S, n + 1) |->
                   IF s = {} THEN 0 ELSE w[pick(s)] + g[s \ {pick(s)}]]
<1>1. \A s \in SUBSET S : IsFiniteSet(s) /\ Cardinality(s) \in Nat
  BY FS_Subset, FS_CardinalityType
<1>2. ASSUME NEW s \in Level(S, n + 1), s # {}
      PROVE  pick(s) \in S /\ s \ {pick(s)} \in Level(S, n)
  <2>1. s \in SUBSET S /\ Cardinality(s) <= n + 1
    BY DEF Level
  <2>2. pick(s) \in s /\ Cardinality(s \ {pick(s)}) = Cardinality(s) - 1
    BY <1>1, <1>2, <2>1, PickFacts
  <2>3. Cardinality(s \ {pick(s)}) <= n
    BY <1>1, <2>1, <2>2
  <2> QED
    BY <2>1, <2>2, <2>3 DEF Level
<1>3. h \in [Level(S, n + 1) -> Nat]
  <2>1. ASSUME NEW s \in Level(S, n + 1), s # {} PROVE w[pick(s)] + g[s \ {pick(s)}] \in Nat
    <3>1. w[pick(s)] \in Nat
      BY <1>2, <2>1
    <3>2. g[s \ {pick(s)}] \in Nat
      BY <1>2, <2>1 DEF LevelSum
    <3> QED
      BY <3>1, <3>2
  <2> QED
    BY <2>1
<1>4. ASSUME NEW s \in Level(S, n) PROVE s \in Level(S, n + 1) /\ h[s] = g[s]
  <2>1. s \in SUBSET S /\ Cardinality(s) <= n
    BY DEF Level
  <2>2. Cardinality(s) <= n + 1
    BY <1>1, <2>1
  <2>3. s \in Level(S, n + 1)
    BY <2>1, <2>2 DEF Level
  <2> QED
    BY <2>3 DEF LevelSum
<1>5. ASSUME NEW s \in Level(S, n + 1)
      PROVE  h[s] = IF s = {} THEN 0 ELSE w[pick(s)] + h[s \ {pick(s)}]
  <2>1. CASE s = {}
    BY <2>1
  <2>2. CASE s # {}
    <3>1. s \ {pick(s)} \in Level(S, n)
      BY <1>2, <2>2
    <3>2. h[s \ {pick(s)}] = g[s \ {pick(s)}]
      BY <1>4, <3>1
    <3> QED
      BY <2>2, <3>2
  <2> QED
    BY <2>1, <2>2
<1> HIDE DEF h
<1>6. LevelSum(h, w, S, n + 1)
  BY <1>3, <1>5 DEF LevelSum
<1> QED
  BY <1>6

(* Every finite set of weights has a sum.                                  *)
LEMMA SumExists ==
  ASSUME NEW S, IsFiniteSet(S), NEW w, \A x \in S : w[x] \in Nat
  PROVE  \E g : IsSum(g, w, S) /\ g \in [SUBSET S -> Nat]
<1>1. \A s \in SUBSET S : IsFiniteSet(s) /\ Cardinality(s) \in Nat /\ Cardinality(s) <= Cardinality(S)
  BY FS_Subset, FS_CardinalityType
<1>2. \E g : LevelSum(g, w, S, 0)
  <2> DEFINE z == [s \in Level(S, 0) |-> 0]
  <2>1. \A s \in Level(S, 0) : s = {}
    <3> SUFFICES ASSUME NEW s \in Level(S, 0) PROVE s = {}
      OBVIOUS
    <3>1. s \in SUBSET S /\ Cardinality(s) <= 0
      BY DEF Level
    <3>2. IsFiniteSet(s) /\ Cardinality(s) = 0
      BY <1>1, <3>1
    <3> QED
      BY <3>2, FS_EmptySet
  <2>2. LevelSum(z, w, S, 0)
    BY <2>1 DEF LevelSum
  <2> QED
    BY <2>2
<1>3. \A n \in Nat : \E g : LevelSum(g, w, S, n)
  <2> DEFINE T == {n \in Nat : ~\E g : LevelSum(g, w, S, n)}
  <2> SUFFICES ASSUME T # {} PROVE FALSE
    OBVIOUS
  <2>1. PICK n \in T : \A m \in T : n <= m
    <3>1. T \in SUBSET Nat
      OBVIOUS
    <3> HIDE DEF T
    <3> QED
      BY <3>1, LeastNatural
  <2>2. n \in Nat /\ n # 0
    BY <1>2
  <2>3. n - 1 \in Nat /\ n - 1 \notin T /\ (n - 1) + 1 = n
    BY <2>1, <2>2
  <2>4. PICK g : LevelSum(g, w, S, n - 1)
    BY <2>3
  <2>5. \E h : LevelSum(h, w, S, (n - 1) + 1)
    BY <2>3, <2>4, LevelUp
  <2> QED
    BY <2>1, <2>3, <2>5
<1>4. PICK g : LevelSum(g, w, S, Cardinality(S))
  <2>1. Cardinality(S) \in Nat
    BY FS_CardinalityType
  <2> QED
    BY <1>3, <2>1
<1>5. Level(S, Cardinality(S)) = SUBSET S
  BY <1>1 DEF Level
<1>6. IsSum(g, w, S) /\ g \in [SUBSET S -> Nat]
  BY <1>4, <1>5 DEF LevelSum, IsSum
<1> QED
  BY <1>6

(* Two sums agree on every set that both cover, if the weights do.         *)
LEMMA SumUnique ==
  ASSUME NEW g, NEW w, NEW S, IsSum(g, w, S), NEW h, NEW v, NEW T, IsSum(h, v, T),
         NEW U, IsFiniteSet(U), U \subseteq S, U \subseteq T, \A x \in U : w[x] = v[x]
  PROVE  g[U] = h[U]
<1> DEFINE Bad == {n \in Nat : \E s \in SUBSET U : Cardinality(s) = n /\ g[s] # h[s]}
<1>1. \A s \in SUBSET U : IsFiniteSet(s) /\ Cardinality(s) \in Nat
  BY FS_Subset, FS_CardinalityType
<1>2. ASSUME Bad # {} PROVE FALSE
  <2>1. PICK n \in Bad : \A m \in Bad : n <= m
    <3>1. Bad \in SUBSET Nat
      OBVIOUS
    <3> HIDE DEF Bad
    <3> QED
      BY <1>2, <3>1, LeastNatural
  <2>2. PICK s \in SUBSET U : Cardinality(s) = n /\ g[s] # h[s]
    BY <2>1
  <2>3. /\ g[s] = IF s = {} THEN 0 ELSE w[pick(s)] + g[s \ {pick(s)}]
        /\ h[s] = IF s = {} THEN 0 ELSE v[pick(s)] + h[s \ {pick(s)}]
    BY SumStep
  <2>4. s # {}
    BY <2>2, <2>3
  <2>5. /\ pick(s) \in U /\ Cardinality(s \ {pick(s)}) \in Nat
        /\ Cardinality(s \ {pick(s)}) = n - 1
    BY <1>1, <2>2, <2>4, PickFacts
  <2>6. g[s \ {pick(s)}] # h[s \ {pick(s)}]
    BY <2>2, <2>3, <2>4, <2>5
  <2>7. n - 1 \in Bad
    BY <2>5, <2>6
  <2> QED
    BY <2>1, <2>7
<1>3. Cardinality(U) \notin Bad
  BY <1>2
<1> QED
  BY <1>1, <1>3

(* The order does not matter: an element may as well be added last.        *)
AddsLast(g, w, S) ==
  \A s \in SUBSET S : \A y \in S : y \notin s => g[s \cup {y}] = g[s] + w[y]

LEMMA SumAdds ==
  ASSUME NEW S, IsFiniteSet(S), NEW w, \A x \in S : w[x] \in Nat, NEW g, IsSum(g, w, S),
         g \in [SUBSET S -> Nat]
  PROVE  AddsLast(g, w, S)
<1> DEFINE Bad == {n \in Nat : \E t \in SUBSET S, x \in S :
                     x \notin t /\ Cardinality(t) = n /\ g[t \cup {x}] # g[t] + w[x]}
<1>1. \A t \in SUBSET S : IsFiniteSet(t) /\ Cardinality(t) \in Nat
  BY FS_Subset, FS_CardinalityType
<1>2. ASSUME Bad # {} PROVE FALSE
  <2>1. PICK n \in Bad : \A m \in Bad : n <= m
    <3>1. Bad \in SUBSET Nat
      OBVIOUS
    <3> HIDE DEF Bad
    <3> QED
      BY <1>2, <3>1, LeastNatural
  <2>2. PICK t \in SUBSET S, x \in S :
          x \notin t /\ Cardinality(t) = n /\ g[t \cup {x}] # g[t] + w[x]
    BY <2>1
  <2>3. \A u \in SUBSET S, z \in S : z \notin u /\ Cardinality(u) < n => g[u \cup {z}] = g[u] + w[z]
    <3> SUFFICES ASSUME NEW u \in SUBSET S, NEW z \in S, z \notin u, Cardinality(u) < n,
                        g[u \cup {z}] # g[u] + w[z]
                 PROVE  FALSE
      OBVIOUS
    <3>1. Cardinality(u) \in Nat /\ n \in Nat
      BY <1>1, <2>1
    <3>2. Cardinality(u) \in Bad
      BY <3>1
    <3>3. n <= Cardinality(u)
      BY <2>1, <3>2
    <3> QED
      BY <3>1, <3>3
  <2> DEFINE a == t \cup {x}
             z == pick(a)
  <2>4. a \in SUBSET S /\ a # {}
    OBVIOUS
  <2>5. z \in a /\ g[a] = w[z] + g[a \ {z}]
    <3>1. z \in a
      BY <1>1, <2>4, PickFacts
    <3>2. g[a] = IF a = {} THEN 0 ELSE w[z] + g[a \ {z}]
      <4> HIDE DEF a
      <4> QED
        BY <2>4, SumStep
    <3> QED
      BY <2>4, <3>1, <3>2
  <2>6. CASE z = x
    <3>1. a \ {z} = t
      BY <2>2, <2>6
    <3>2. g[t] \in Nat /\ w[x] \in Nat
      OBVIOUS
    <3>3. g[a] = w[x] + g[t]
      BY <2>5, <2>6, <3>1
    <3>4. g[a] = g[t] + w[x]
      <4> HIDE DEF a
      <4> QED
        BY <3>2, <3>3
    <3> QED
      BY <2>2, <3>4
  <2>7. CASE z # x
    <3> DEFINE u == t \ {z}
    <3>1. z \in t /\ z \in S
      BY <2>5, <2>7
    <3>2. u \in SUBSET S /\ Cardinality(u) < n /\ x \notin u /\ z \notin u
      <4>1. IsFiniteSet(t) /\ Cardinality(t) = n /\ n \in Nat
        BY <1>1, <2>2
      <4>2. Cardinality(u) = n - 1
        <5>1. z \in t
          BY <3>1
        <5> HIDE DEF z
        <5> QED
          BY <4>1, <5>1, FS_RemoveElement
      <4> QED
        BY <2>2, <4>1, <4>2
    <3>3. a \ {z} = u \cup {x} /\ t = u \cup {z}
      BY <3>1, <2>7
    <3>4. g[u \cup {x}] = g[u] + w[x] /\ g[u \cup {z}] = g[u] + w[z]
      BY <2>3, <3>1, <3>2
    <3>5. g[u] \in Nat /\ w[x] \in Nat /\ w[z] \in Nat
      BY <3>1, <3>2
    <3> HIDE DEF u, a, z
    <3>6. g[a] = w[z] + (g[u] + w[x]) /\ g[t] = g[u] + w[z]
      BY <2>5, <3>3, <3>4
    <3>7. g[a] = g[t] + w[x]
      BY <3>5, <3>6
    <3> QED
      BY <2>2, <3>7 DEF a
  <2> QED
    BY <2>6, <2>7
<1>3. \A n \in Nat : n \notin Bad
  BY <1>2
<1> QED
  BY <1>1, <1>3 DEF AddsLast

-----------------------------------------------------------------------------
(* The sum of the weights w over S.                                        *)
SumOf(w, S) == (CHOOSE g : IsSum(g, w, S))[S]

(* It is what any sum that covers S says.                                  *)
LEMMA SumOfIs ==
  ASSUME NEW S, IsFiniteSet(S), NEW w, \A x \in S : w[x] \in Nat,
         NEW h, NEW v, NEW T, IsSum(h, v, T), S \subseteq T, \A x \in S : w[x] = v[x]
  PROVE  SumOf(w, S) = h[S]
<1> DEFINE c == CHOOSE g : IsSum(g, w, S)
<1>1. \E g : IsSum(g, w, S)
  BY SumExists
<1>2. IsSum(c, w, S)
  BY <1>1
<1> HIDE DEF c
<1>3. c[S] = h[S]
  BY <1>2, SumUnique
<1> QED
  BY <1>3 DEF SumOf, c

(* Equal weights have equal sums.                                          *)
LEMMA SumOfEqual ==
  ASSUME NEW S, IsFiniteSet(S), NEW w, \A x \in S : w[x] \in Nat,
         NEW v, \A x \in S : w[x] = v[x]
  PROVE  SumOf(w, S) = SumOf(v, S)
<1>1. \A x \in S : v[x] \in Nat
  OBVIOUS
<1>2. PICK g : IsSum(g, v, S)
  BY <1>1, SumExists
<1>3. SumOf(w, S) = g[S]
  BY <1>2, SumOfIs
<1>4. SumOf(v, S) = g[S]
  BY <1>1, <1>2, SumOfIs
<1> QED
  BY <1>3, <1>4

(* A sum of natural numbers is one.                                        *)
LEMMA SumOfNat ==
  ASSUME NEW S, IsFiniteSet(S), NEW w, \A x \in S : w[x] \in Nat
  PROVE  SumOf(w, S) \in Nat
<1>1. PICK g : IsSum(g, w, S) /\ g \in [SUBSET S -> Nat]
  BY SumExists
<1>2. SumOf(w, S) = g[S]
  BY <1>1, SumOfIs
<1> QED
  BY <1>1, <1>2

(* The sum over nothing, and the sum of nothing.                           *)
LEMMA SumOfZeros ==
  ASSUME NEW S, IsFiniteSet(S), NEW w, \A x \in S : w[x] = 0
  PROVE  SumOf(w, S) = 0
<1> DEFINE z == [s \in SUBSET S |-> 0]
<1>1. \A s \in SUBSET S : s # {} => pick(s) \in S /\ s \ {pick(s)} \in SUBSET S
  BY DEF pick
<1>2. IsSum(z, w, S)
  BY <1>1 DEF IsSum
<1>3. SumOf(w, S) = z[S]
  <2>1. \A x \in S : w[x] \in Nat
    OBVIOUS
  <2> HIDE DEF z
  <2> QED
    BY <1>2, <2>1, SumOfIs
<1> QED
  BY <1>3

(* One more element adds its weight.                                       *)
LEMMA SumOfAdd ==
  ASSUME NEW S, IsFiniteSet(S), NEW y, y \notin S, NEW w, \A x \in S \cup {y} : w[x] \in Nat
  PROVE  SumOf(w, S \cup {y}) = SumOf(w, S) + w[y]
<1>1. PICK U : U = S \cup {y}
  OBVIOUS
<1>2. IsFiniteSet(U) /\ S \in SUBSET U /\ y \in U /\ \A x \in U : w[x] \in Nat
  BY <1>1, FS_AddElement
<1>3. PICK g : IsSum(g, w, U) /\ g \in [SUBSET U -> Nat]
  BY <1>2, SumExists
<1>4. SumOf(w, U) = g[U]
  BY <1>2, <1>3, SumOfIs
<1>5. SumOf(w, S) = g[S]
  BY <1>2, <1>3, SumOfIs
<1>6. AddsLast(g, w, U)
  BY <1>2, <1>3, SumAdds
<1>7. g[S \cup {y}] = g[S] + w[y]
  BY <1>2, <1>6 DEF AddsLast
<1> QED
  BY <1>1, <1>4, <1>5, <1>7

(* One less takes it away.                                                 *)
LEMMA SumOfRemove ==
  ASSUME NEW S, IsFiniteSet(S), NEW y \in S, NEW w, \A x \in S : w[x] \in Nat
  PROVE  SumOf(w, S \ {y}) = SumOf(w, S) - w[y]
<1> DEFINE T == S \ {y}
<1>1. IsFiniteSet(T) /\ y \notin T /\ T \cup {y} = S /\ \A x \in T : w[x] \in Nat
  BY FS_RemoveElement
<1> HIDE DEF T
<1>2. SumOf(w, T \cup {y}) = SumOf(w, T) + w[y]
  BY <1>1, SumOfAdd
<1>3. SumOf(w, T) \in Nat /\ w[y] \in Nat
  BY <1>1, SumOfNat
<1>4. SumOf(w, T) = SumOf(w, S) - w[y]
  BY <1>1, <1>2, <1>3
<1> QED
  BY <1>4 DEF T

(* A change of one weight changes the sum by the difference.               *)
LEMMA SumOfChange ==
  ASSUME NEW S, IsFiniteSet(S), NEW y \in S, NEW w, \A x \in S : w[x] \in Nat,
         NEW v, v[y] \in Nat, \A x \in S \ {y} : v[x] = w[x]
  PROVE  SumOf(v, S) = SumOf(w, S) - w[y] + v[y]
<1> DEFINE T == S \ {y}
<1>1. /\ IsFiniteSet(T) /\ \A x \in T : w[x] \in Nat /\ v[x] \in Nat /\ w[x] = v[x]
      /\ \A x \in S : v[x] \in Nat
  BY FS_RemoveElement
<1>2. SumOf(w, T) = SumOf(w, S) - w[y] /\ SumOf(v, T) = SumOf(v, S) - v[y]
  BY <1>1, SumOfRemove
<1> HIDE DEF T
<1>3. SumOf(w, T) = SumOf(v, T)
  BY <1>1, SumOfEqual
<1>4. SumOf(w, S) \in Nat /\ SumOf(v, S) \in Nat
  BY <1>1, SumOfNat
<1> QED
  BY <1>2, <1>3, <1>4

(* If each element of S has an element of T of its own that weighs at      *)
(* least as much, and none of T is left over, the sets are equally large   *)
(* and T weighs at least as much as S.                                     *)
LEMMA SumOfMatched ==
  ASSUME NEW S, IsFiniteSet(S), NEW w, \A x \in S : w[x] \in Nat,
         NEW T, IsFiniteSet(T), NEW v, \A y \in T : v[y] \in Nat,
         NEW f \in [S -> T], \A x \in S : w[x] <= v[f[x]],
         \A x, y \in S : f[x] = f[y] => x = y, \A y \in T : \E x \in S : f[x] = y
  PROVE  Cardinality(S) = Cardinality(T) /\ SumOf(w, S) <= SumOf(v, T)
<1> DEFINE image(U) == {f[x] : x \in U}
           Bad == {n \in Nat : \E U \in SUBSET S :
                     Cardinality(U) = n /\ ~(SumOf(w, U) <= SumOf(v, image(U)))}
<1>1. Cardinality(S) = Cardinality(T)
  <2>1. f \in Bijection(S, T)
    BY DEF Bijection, Injection, Surjection, IsInjective
  <2> QED
    BY <2>1, FS_Bijection DEF ExistsBijection
<1>2. ASSUME NEW U \in SUBSET S
      PROVE  /\ IsFiniteSet(U) /\ Cardinality(U) \in Nat /\ \A x \in U : w[x] \in Nat
             /\ image(U) \subseteq T /\ IsFiniteSet(image(U)) /\ \A y \in image(U) : v[y] \in Nat
  <2>1. image(U) \subseteq T
    OBVIOUS
  <2> QED
    BY <2>1, FS_Subset, FS_CardinalityType
<1>3. ASSUME Bad # {} PROVE FALSE
  <2>1. PICK n \in Bad : \A m \in Bad : n <= m
    <3>1. Bad \in SUBSET Nat
      OBVIOUS
    <3> HIDE DEF Bad
    <3> QED
      BY <1>3, <3>1, LeastNatural
  <2>2. PICK U \in SUBSET S : Cardinality(U) = n /\ ~(SumOf(w, U) <= SumOf(v, image(U)))
    BY <2>1
  <2>3. U # {}
    <3> SUFFICES ASSUME U = {} PROVE FALSE
      OBVIOUS
    <3>1. image(U) = {}
      OBVIOUS
    <3>2. SumOf(w, U) = 0 /\ SumOf(v, image(U)) = 0
      <4> HIDE DEF image
      <4> QED
        BY <1>2, <3>1, SumOfZeros
    <3> QED
      BY <2>2, <3>2
  <2>4. PICK x : x \in U
    BY <2>3
  <2>5. image(U \ {x}) = image(U) \ {f[x]} /\ f[x] \in image(U)
    BY <2>4
  <2>6. U \ {x} \in SUBSET S /\ Cardinality(U \ {x}) = n - 1 /\ Cardinality(U \ {x}) \in Nat
    BY <1>2, <2>2, <2>4, FS_RemoveElement
  <2>7. SumOf(w, U \ {x}) <= SumOf(v, image(U \ {x}))
    <3> SUFFICES ASSUME ~(SumOf(w, U \ {x}) <= SumOf(v, image(U \ {x}))) PROVE FALSE
      OBVIOUS
    <3>1. n - 1 \in Bad /\ n \in Nat
      BY <2>6
    <3>2. n <= n - 1
      <4> HIDE DEF Bad
      <4> QED
        BY <2>1, <3>1
    <3> QED
      BY <3>1, <3>2
  <2> HIDE DEF image
  <2>8. SumOf(w, U \ {x}) = SumOf(w, U) - w[x]
    BY <1>2, <2>4, SumOfRemove
  <2>9. SumOf(v, image(U) \ {f[x]}) = SumOf(v, image(U)) - v[f[x]]
    BY <1>2, <2>5, SumOfRemove
  <2>10. SumOf(w, U) \in Nat /\ SumOf(v, image(U)) \in Nat /\ w[x] \in Nat /\ v[f[x]] \in Nat
    BY <1>2, <2>4, <2>5, SumOfNat
  <2>11. w[x] <= v[f[x]]
    BY <2>4
  <2>12. SumOf(w, U) - w[x] <= SumOf(v, image(U)) - v[f[x]]
    BY <2>5, <2>7, <2>8, <2>9
  <2>13. SumOf(w, U) <= SumOf(v, image(U))
    BY <2>10, <2>11, <2>12
  <2> QED
    BY <2>2, <2>13
<1>4. Cardinality(S) \notin Bad
  BY <1>3
<1>5. SumOf(w, S) <= SumOf(v, image(S))
  BY <1>2, <1>4
<1>6. image(S) = T
  OBVIOUS
<1> QED
  BY <1>1, <1>5, <1>6
=============================================================================
