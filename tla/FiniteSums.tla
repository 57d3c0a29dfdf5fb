----------------------------- MODULE FiniteSums -----------------------------
(***************************************************************************)
(* Facts about finite sets that proofs about the shop's figures need: that *)
(* a statement about all subsets of a finite set can be proved from those  *)
(* smaller, that a finite set of numbers has a least and a greatest        *)
(* element, and what the sums of module Functions add up to.               *)
(***************************************************************************)
EXTENDS Integers, Functions, FiniteSetTheorems, TLAPS

-----------------------------------------------------------------------------
(* Every non-empty collection of subsets of a finite set has one that      *)
(* contains no other.  Applied to the counterexamples of a statement it is *)
(* induction on the size of a set.                                         *)
LEMMA SmallestSubset ==
  ASSUME NEW S, IsFiniteSet(S), NEW P \in SUBSET SUBSET S, P # {}
  PROVE  \E s \in P : \A t \in P : t \subseteq s => t = s
<1>1. IsWellFoundedOn(StrictSubsetOrdering(S), SUBSET S)
  BY FS_StrictSubsetOrderingWellFounded, FS_FiniteSubsetsOfFinite
<1>2. PICK s \in P : \A t \in P : <<t, s>> \notin StrictSubsetOrdering(S)
  BY <1>1, WFMin
<1>3. QED
  BY <1>2 DEF StrictSubsetOrdering

(* A finite set of integers has a greatest element ...                     *)
LEMMA HasGreatest ==
  ASSUME NEW A, IsFiniteSet(A)
  PROVE  A # {} /\ A \subseteq Int => \E m \in A : \A n \in A : m >= n
<1> DEFINE P == {s \in SUBSET A : s # {} /\ s \subseteq Int /\ ~\E m \in s : \A n \in s : m >= n}
<1> SUFFICES ASSUME P # {}
             PROVE  FALSE
  OBVIOUS
<1>1. PICK s \in P : \A t \in P : t \subseteq s => t = s
  <2>1. P \in SUBSET SUBSET A
    OBVIOUS
  <2> HIDE DEF P
  <2>2. QED
    BY <2>1, SmallestSubset
<1>2. PICK x \in s : x \in Int
  BY <1>1
<1>3. s \ {x} \notin P
  BY <1>1, <1>2
<1>4. CASE s = {x}
  BY <1>1, <1>2, <1>4
<1>5. CASE s # {x}
  <2>1. PICK m \in s \ {x} : m \in Int /\ \A n \in s \ {x} : m >= n
    BY <1>1, <1>2, <1>3, <1>5
  <2>2. s \subseteq Int
    BY <1>1
  <2>3. CASE m >= x
    BY <1>1, <2>1, <2>3
  <2>4. CASE x > m
    <3>1. \A n \in s : x >= n
      BY <1>2, <2>1, <2>2, <2>4
    <3>2. QED
      BY <1>1, <1>2, <3>1
  <2>5. QED
    BY <1>2, <2>1, <2>3, <2>4
<1>6. QED
  BY <1>4, <1>5

(* ... and a least one.                                                    *)
LEMMA HasLeast ==
  ASSUME NEW A, IsFiniteSet(A)
  PROVE  A # {} /\ A \subseteq Int => \E m \in A : \A n \in A : m <= n
<1> DEFINE P == {s \in SUBSET A : s # {} /\ s \subseteq Int /\ ~\E m \in s : \A n \in s : m <= n}
<1> SUFFICES ASSUME P # {}
             PROVE  FALSE
  OBVIOUS
<1>1. PICK s \in P : \A t \in P : t \subseteq s => t = s
  <2>1. P \in SUBSET SUBSET A
    OBVIOUS
  <2> HIDE DEF P
  <2>2. QED
    BY <2>1, SmallestSubset
<1>2. PICK x \in s : x \in Int
  BY <1>1
<1>3. s \ {x} \notin P
  BY <1>1, <1>2
<1>4. CASE s = {x}
  BY <1>1, <1>2, <1>4
<1>5. CASE s # {x}
  <2>1. PICK m \in s \ {x} : m \in Int /\ \A n \in s \ {x} : m <= n
    BY <1>1, <1>2, <1>3, <1>5
  <2>2. s \subseteq Int
    BY <1>1
  <2>3. CASE m <= x
    BY <1>1, <2>1, <2>3
  <2>4. CASE x < m
    <3>1. \A n \in s : x <= n
      BY <1>2, <2>1, <2>2, <2>4
    <3>2. QED
      BY <1>1, <1>2, <3>1
  <2>5. QED
    BY <1>2, <2>1, <2>3, <2>4
<1>6. QED
  BY <1>4, <1>5

-----------------------------------------------------------------------------
(* SumFunctionOnSet(f, D) takes the elements out of D one by one, by way   *)
(* of a function on the subsets of D.                                      *)
Taken(s) == CHOOSE x \in s : TRUE
IsSum(F, f, D) ==
  F = [s \in SUBSET D |-> IF s = {} THEN 0 ELSE f[Taken(s)] + F[s \ {Taken(s)}]]

LEMMA SumIsAFunction ==
  ASSUME NEW f, NEW D
  PROVE  SumFunctionOnSet(f, D) = (CHOOSE F : IsSum(F, f, D))[D]
BY DEF SumFunctionOnSet, FoldFunctionOnSet, MapThenFoldSet, IsSum, Taken

(* Two such functions agree wherever both are defined.                     *)
LEMMA SumsAgree ==
  ASSUME NEW f, NEW D, NEW E, NEW F, NEW G, IsSum(F, f, D), IsSum(G, f, E),
         NEW w, w \subseteq D, w \subseteq E, IsFiniteSet(w)
  PROVE  F[w] = G[w]
<1> DEFINE P == {s \in SUBSET w : F[s] # G[s]}
<1> SUFFICES ASSUME P # {}
             PROVE  FALSE
  OBVIOUS
<1>1. PICK s \in P : \A t \in P : t \subseteq s => t = s
  <2>1. P \in SUBSET SUBSET w
    OBVIOUS
  <2> HIDE DEF P
  <2>2. QED
    BY <2>1, SmallestSubset
<1>2. s \in SUBSET D /\ s \in SUBSET E
  BY <1>1
<1>3. /\ F[s] = IF s = {} THEN 0 ELSE f[Taken(s)] + F[s \ {Taken(s)}]
      /\ G[s] = IF s = {} THEN 0 ELSE f[Taken(s)] + G[s \ {Taken(s)}]
  BY <1>2 DEF IsSum
<1>4. s # {} => Taken(s) \in s
  BY DEF Taken
<1>5. s # {} => F[s \ {Taken(s)}] = G[s \ {Taken(s)}]
  BY <1>1, <1>4
<1>6. QED
  BY <1>1, <1>3, <1>5

LEMMA SumExists ==
  ASSUME NEW f, NEW D, IsFiniteSet(D)
  PROVE  \E F : IsSum(F, f, D)
<1> DEFINE P == {s \in SUBSET D : ~\E F : IsSum(F, f, s)}
           Sum(s) == SumFunctionOnSet(f, s)
<1> SUFFICES ASSUME P # {}
             PROVE  FALSE
  OBVIOUS
<1>1. PICK s \in P : \A t \in P : t \subseteq s => t = s
  <2>1. P \in SUBSET SUBSET D
    OBVIOUS
  <2> HIDE DEF P
  <2>2. QED
    BY <2>1, SmallestSubset
<1>2. \A t \in SUBSET s : t # s => IsSum(CHOOSE F : IsSum(F, f, t), f, t)
  BY <1>1
<1>3. ASSUME NEW u \in SUBSET s, u # s, u # {}
      PROVE  Sum(u) = f[Taken(u)] + Sum(u \ {Taken(u)})
  <2> DEFINE v == u \ {Taken(u)}
             U == CHOOSE F : IsSum(F, f, u)
             V == CHOOSE F : IsSum(F, f, v)
  <2>1. v \subseteq u /\ v # s /\ v \in SUBSET s
    BY <1>3
  <2>2. IsSum(U, f, u) /\ IsSum(V, f, v)
    BY <1>2, <1>3, <2>1
  <2>3. IsFiniteSet(v)
    BY <2>1, FS_Subset, <1>1
  <2>4. Sum(u) = U[u] /\ Sum(v) = V[v]
    BY SumIsAFunction
  <2> HIDE DEF U, V, v
  <2>5. U[v] = V[v]
    BY <2>1, <2>2, <2>3, SumsAgree
  <2>6. U[u] = f[Taken(u)] + U[v]
    BY <1>3, <2>2 DEF IsSum, v
  <2>7. QED
    BY <2>4, <2>5, <2>6 DEF v
<1>4. Sum({}) = 0 \/ s = {}
  <2>1. CASE s # {}
    <3>1. IsSum(CHOOSE F : IsSum(F, f, {}), f, {})
      BY <1>2, <2>1
    <3>2. QED
      BY <3>1, SumIsAFunction DEF IsSum
  <2>2. QED
    BY <2>1
<1> DEFINE G == [t \in SUBSET s |-> IF t = {} THEN 0 ELSE f[Taken(t)] + Sum(t \ {Taken(t)})]
<1> HIDE DEF Sum
<1>5. ASSUME NEW t \in SUBSET s, t # {}
      PROVE  G[t \ {Taken(t)}] = Sum(t \ {Taken(t)})
  <2> DEFINE u == t \ {Taken(t)}
  <2>1. Taken(t) \in t
    BY <1>5 DEF Taken
  <2>2. u \in SUBSET s /\ u # s
    BY <2>1
  <2>3. G[u] = IF u = {} THEN 0 ELSE f[Taken(u)] + Sum(u \ {Taken(u)})
    BY <2>2
  <2> HIDE DEF u, G
  <2>4. CASE u = {}
    BY <2>2, <2>3, <2>4, <1>4, <1>5 DEF u
  <2>5. CASE u # {}
    BY <2>2, <2>3, <2>5, <1>3 DEF u
  <2>6. QED
    BY <2>4, <2>5 DEF u
<1>6. G = [t \in SUBSET s |-> IF t = {} THEN 0 ELSE f[Taken(t)] + G[t \ {Taken(t)}]]
  <2> DEFINE H == [t \in SUBSET s |-> IF t = {} THEN 0 ELSE f[Taken(t)] + G[t \ {Taken(t)}]]
  <2>1. \A t \in SUBSET s : G[t] = H[t]
    <3> SUFFICES ASSUME NEW t \in SUBSET s
                 PROVE  G[t] = H[t]
      OBVIOUS
    <3>1. G[t] = IF t = {} THEN 0 ELSE f[Taken(t)] + Sum(t \ {Taken(t)})
      OBVIOUS
    <3>2. H[t] = IF t = {} THEN 0 ELSE f[Taken(t)] + G[t \ {Taken(t)}]
      OBVIOUS
    <3> HIDE DEF G, H
    <3>3. QED
      BY <3>1, <3>2, <1>5
  <2>2. QED
    BY <2>1
<1> HIDE DEF G
<1>7. IsSum(G, f, s)
  BY <1>6 DEF IsSum
<1>8. QED
  BY <1>1, <1>7

LEMMA SumEmpty == ASSUME NEW f PROVE SumFunctionOnSet(f, {}) = 0
<1>1. PICK F : IsSum(F, f, {})
  BY SumExists, FS_EmptySet
<1>2. IsSum(CHOOSE G : IsSum(G, f, {}), f, {})
  BY <1>1
<1>3. QED
  BY <1>2, SumIsAFunction DEF IsSum

LEMMA SumEquation ==
  ASSUME NEW f, NEW D, IsFiniteSet(D), D # {}
  PROVE  /\ Taken(D) \in D
         /\ SumFunctionOnSet(f, D) = f[Taken(D)] + SumFunctionOnSet(f, D \ {Taken(D)})
<1> DEFINE v == D \ {Taken(D)}
           U == CHOOSE F : IsSum(F, f, D)
           V == CHOOSE F : IsSum(F, f, v)
<1>1. v \subseteq D /\ IsFiniteSet(v)
  BY FS_Subset
<1>2. IsSum(U, f, D) /\ IsSum(V, f, v)
  BY <1>1, SumExists
<1>3. SumFunctionOnSet(f, D) = U[D] /\ SumFunctionOnSet(f, v) = V[v]
  BY SumIsAFunction
<1> HIDE DEF U, V, v
<1>4. U[v] = V[v]
  BY <1>1, <1>2, SumsAgree
<1>5. U[D] = f[Taken(D)] + U[v]
  BY <1>2 DEF IsSum, v
<1>6. Taken(D) \in D
  BY DEF Taken
<1>7. QED
  BY <1>3, <1>4, <1>5, <1>6 DEF v

(* A sum of numbers is a number.                                           *)
LEMMA SumType ==
  ASSUME NEW f, NEW D, IsFiniteSet(D), NEW T \in {Nat, Int}, \A x \in D : f[x] \in T
  PROVE  SumFunctionOnSet(f, D) \in T
<1> DEFINE P == {s \in SUBSET D : SumFunctionOnSet(f, s) \notin T}
<1> SUFFICES ASSUME P # {}
             PROVE  FALSE
  OBVIOUS
<1>1. PICK s \in P : \A t \in P : t \subseteq s => t = s
  <2>1. P \in SUBSET SUBSET D
    OBVIOUS
  <2> HIDE DEF P
  <2>2. QED
    BY <2>1, SmallestSubset
<1>2. s # {}
  <2>1. 0 \in T
    OBVIOUS
  <2>2. SumFunctionOnSet(f, s) \notin T
    BY <1>1
  <2>3. QED
    BY <2>1, <2>2, SumEmpty
<1>3. IsFiniteSet(s)
  BY <1>1, FS_Subset
<1>4. /\ Taken(s) \in s
      /\ SumFunctionOnSet(f, s) = f[Taken(s)] + SumFunctionOnSet(f, s \ {Taken(s)})
  BY <1>2, <1>3, SumEquation
<1>5. s \ {Taken(s)} \notin P
  BY <1>1, <1>4
<1>6. SumFunctionOnSet(f, s \ {Taken(s)}) \in T /\ f[Taken(s)] \in T
  BY <1>1, <1>4, <1>5
<1>7. SumFunctionOnSet(f, s) \in T
  BY <1>4, <1>6
<1>8. QED
  BY <1>1, <1>7

(* Any element can be taken out first.                                     *)
LEMMA SumRemove ==
  ASSUME NEW f, NEW D, IsFiniteSet(D), \A x \in D : f[x] \in Int, NEW x \in D
  PROVE  SumFunctionOnSet(f, D) = f[x] + SumFunctionOnSet(f, D \ {x})
<1> DEFINE Sum(s) == SumFunctionOnSet(f, s)
           P == {s \in SUBSET D : ~\A y \in s : Sum(s) = f[y] + Sum(s \ {y})}
<1> SUFFICES ASSUME P # {}
             PROVE  FALSE
  OBVIOUS
<1>1. PICK s \in P : \A t \in P : t \subseteq s => t = s
  <2>1. P \in SUBSET SUBSET D
    OBVIOUS
  <2> HIDE DEF P
  <2>2. QED
    BY <2>1, SmallestSubset
<1>2. PICK y \in s : Sum(s) # f[y] + Sum(s \ {y})
  BY <1>1
<1>3. /\ IsFiniteSet(s) /\ Taken(s) \in s
      /\ Sum(s) = f[Taken(s)] + Sum(s \ {Taken(s)})
  BY <1>1, <1>2, FS_Subset, SumEquation
<1> DEFINE c == Taken(s)
           r == (s \ {c}) \ {y}
<1>4. y # c
  BY <1>2, <1>3
<1>5. r = (s \ {y}) \ {c}
  OBVIOUS
<1>6. Sum(s \ {c}) = f[y] + Sum(r)
  <2>1. s \ {c} \notin P /\ s \ {c} \in SUBSET D /\ y \in s \ {c}
    BY <1>1, <1>2, <1>3, <1>4
  <2> HIDE DEF c, Sum
  <2>2. QED
    BY <2>1
<1>7. Sum(s \ {y}) = f[c] + Sum(r)
  <2>1. s \ {y} \notin P /\ s \ {y} \in SUBSET D /\ c \in s \ {y}
    BY <1>1, <1>2, <1>3, <1>4
  <2> HIDE DEF c, Sum
  <2>2. QED
    BY <2>1, <1>5
<1>8. IsFiniteSet(r) /\ \A z \in r : f[z] \in Int
  <2>1. r \subseteq s /\ s \subseteq D
    BY <1>1
  <2> HIDE DEF r
  <2>2. QED
    BY <1>3, <2>1, FS_Subset
<1>9. Sum(r) \in Int /\ f[c] \in Int /\ f[y] \in Int
  BY <1>1, <1>2, <1>3, <1>8, SumType
<1> HIDE DEF Sum, c, r
<1>10. Sum(s) = f[y] + Sum(s \ {y})
  BY <1>3, <1>6, <1>7, <1>9 DEF c
<1>11. QED
  BY <1>2, <1>10

(* Greater terms, a greater sum.                                           *)
LEMMA SumMonotonic ==
  ASSUME NEW f, NEW g, NEW D, IsFiniteSet(D),
         \A x \in D : f[x] \in Int /\ g[x] \in Int /\ f[x] <= g[x]
  PROVE  SumFunctionOnSet(f, D) <= SumFunctionOnSet(g, D)
<1> DEFINE P == {s \in SUBSET D : ~(SumFunctionOnSet(f, s) <= SumFunctionOnSet(g, s))}
<1> SUFFICES ASSUME P # {}
             PROVE  FALSE
  OBVIOUS
<1>1. PICK s \in P : \A t \in P : t \subseteq s => t = s
  <2>1. P \in SUBSET SUBSET D
    OBVIOUS
  <2> HIDE DEF P
  <2>2. QED
    BY <2>1, SmallestSubset
<1>2. s # {}
  <2>1. SumFunctionOnSet(f, {}) = 0 /\ SumFunctionOnSet(g, {}) = 0
    BY SumEmpty
  <2>2. SumFunctionOnSet(f, {}) <= SumFunctionOnSet(g, {})
    BY <2>1
  <2>3. QED
    BY <1>1, <2>2
<1>3. IsFiniteSet(s) /\ s \subseteq D
  BY <1>1, FS_Subset
<1> DEFINE c == Taken(s)
           r == s \ {c}
<1>4. /\ c \in s
      /\ SumFunctionOnSet(f, s) = f[c] + SumFunctionOnSet(f, r)
      /\ SumFunctionOnSet(g, s) = g[c] + SumFunctionOnSet(g, r)
  BY <1>2, <1>3, SumEquation
<1>5. r \subseteq s /\ r # s /\ r \in SUBSET D
  BY <1>3, <1>4
<1>6. IsFiniteSet(r)
  BY <1>3, <1>5, FS_Subset
<1> HIDE DEF c, r
<1>7. SumFunctionOnSet(f, r) \in Int /\ SumFunctionOnSet(g, r) \in Int
  BY <1>5, <1>6, SumType
<1>8. SumFunctionOnSet(f, r) <= SumFunctionOnSet(g, r)
  BY <1>1, <1>5
<1>9. f[c] \in Int /\ g[c] \in Int /\ f[c] <= g[c]
  BY <1>3, <1>4
<1>10. SumFunctionOnSet(f, s) <= SumFunctionOnSet(g, s)
  BY <1>4, <1>7, <1>8, <1>9
<1>11. QED
  BY <1>1, <1>10

(* Equal terms, equal sums.                                                *)
LEMMA SumSame ==
  ASSUME NEW f, NEW g, NEW D, IsFiniteSet(D), \A x \in D : f[x] \in Int /\ f[x] = g[x]
  PROVE  SumFunctionOnSet(f, D) = SumFunctionOnSet(g, D)
<1>1. SumFunctionOnSet(f, D) \in Int /\ SumFunctionOnSet(g, D) \in Int
  BY SumType
<1>2. SumFunctionOnSet(f, D) <= SumFunctionOnSet(g, D)
  BY SumMonotonic
<1>3. SumFunctionOnSet(g, D) <= SumFunctionOnSet(f, D)
  BY SumMonotonic
<1>4. QED
  BY <1>1, <1>2, <1>3

(* Nothing but zeros add up to zero.                                       *)
LEMMA SumZero ==
  ASSUME NEW f, NEW D, IsFiniteSet(D), \A x \in D : f[x] = 0
  PROVE  SumFunctionOnSet(f, D) = 0
<1> DEFINE P == {s \in SUBSET D : SumFunctionOnSet(f, s) # 0}
<1> SUFFICES ASSUME P # {}
             PROVE  FALSE
  OBVIOUS
<1>1. PICK s \in P : \A t \in P : t \subseteq s => t = s
  <2>1. P \in SUBSET SUBSET D
    OBVIOUS
  <2> HIDE DEF P
  <2>2. QED
    BY <2>1, SmallestSubset
<1>2. s # {} /\ IsFiniteSet(s)
  BY <1>1, SumEmpty, FS_Subset
<1>3. /\ Taken(s) \in s
      /\ SumFunctionOnSet(f, s) = f[Taken(s)] + SumFunctionOnSet(f, s \ {Taken(s)})
  BY <1>2, SumEquation
<1>4. SumFunctionOnSet(f, s \ {Taken(s)}) = 0 /\ f[Taken(s)] = 0
  BY <1>1, <1>3
<1>5. SumFunctionOnSet(f, s) = 0
  BY <1>3, <1>4
<1>6. QED
  BY <1>1, <1>5
=============================================================================
