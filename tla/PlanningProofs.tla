--------------------------- MODULE PlanningProofs ---------------------------
(***************************************************************************)
(* Proofs of the properties of Planning, for any mapping file, any         *)
(* well-formed snapshots and any number of channels.                       *)
(***************************************************************************)
EXTENDS Planning, FiniteSetTheorems, WellFoundedInduction, TLAPS

LEMMA SmallestNat ==
  ASSUME NEW S \in SUBSET Nat, S # {}
  PROVE  \E x \in S : \A y \in S : x <= y
<1> DEFINE R == OpToRel(<, Nat)
<1>1. IsWellFoundedOn(R, Nat)
  BY NatLessThanWellFounded
<1>2. \A x, y \in Nat : y < x => <<y, x>> \in R
  BY DEF OpToRel
<1> HIDE DEF R
<1>3. PICK x \in S : \A y \in S : ~(<<y, x>> \in R)
  BY <1>1, WFMin
<1>4. \A y \in S : ~(y < x)
  BY <1>2, <1>3
<1> QED
  BY <1>4

(* Of finite sets, one of the smallest.                                    *)
LEMMA SmallestSet ==
  ASSUME NEW C, C # {}, \A s \in C : IsFiniteSet(s)
  PROVE  \E s \in C : \A u \in C : Cardinality(s) <= Cardinality(u)
<1> DEFINE N == {Cardinality(s) : s \in C}
<1>1. N \in SUBSET Nat /\ N # {}
  BY FS_CardinalityType
<1>2. PICK n \in N : \A k \in N : n <= k
  <2> HIDE DEF N
  <2> QED
    BY <1>1, SmallestNat
<1> QED
  BY <1>2

First(s) == CHOOSE x \in s : TRUE

Sums(F, f, L) ==
  F = [s \in L |-> IF s = {} THEN 0 ELSE f[First(s)] + F[s \ {First(s)}]]

Upto(S, n) == {s \in SUBSET S : Cardinality(s) <= n}

LEMMA FirstRemoved ==
  ASSUME NEW s, IsFiniteSet(s), s # {}
  PROVE  /\ First(s) \in s
         /\ IsFiniteSet(s \ {First(s)})
         /\ Cardinality(s) \in Nat \ {0}
         /\ Cardinality(s \ {First(s)}) = Cardinality(s) - 1
<1>1. First(s) \in s
  BY DEF First
<1>2. Cardinality(s) \in Nat /\ Cardinality(s) # 0
  BY FS_CardinalityType, FS_EmptySet
<1> QED
  BY <1>1, <1>2, FS_RemoveElement

LEMMA SumsExist ==
  ASSUME NEW S, IsFiniteSet(S), NEW f, \A x \in S : f[x] \in Nat, NEW n \in Nat
  PROVE  \E F \in [Upto(S, n) -> Nat] : Sums(F, f, Upto(S, n))
<1> DEFINE Without == {k \in Nat : ~\E F \in [Upto(S, k) -> Nat] : Sums(F, f, Upto(S, k))}
<1> SUFFICES ASSUME Without # {} PROVE FALSE
  OBVIOUS
<1>1. PICK k \in Without : \A m \in Without : k <= m
  <2>1. Without \in SUBSET Nat
    OBVIOUS
  <2> HIDE DEF Without
  <2> QED
    BY <2>1, SmallestNat
<1>2. k \in Nat /\ ~\E F \in [Upto(S, k) -> Nat] : Sums(F, f, Upto(S, k))
  BY <1>1
<1>3. \A s \in SUBSET S : IsFiniteSet(s) /\ Cardinality(s) \in Nat /\ (Cardinality(s) = 0 <=> s = {})
  BY FS_Subset, FS_CardinalityType, FS_EmptySet
<1>4. k # 0
  <2> SUFFICES ASSUME k = 0 PROVE FALSE
    OBVIOUS
  <2>1. Upto(S, 0) = {{}}
    BY <1>3 DEF Upto
  <2> DEFINE G == [s \in {{}} |-> 0]
  <2>2. G \in [{{}} -> Nat]
    OBVIOUS
  <2>3. Sums(G, f, {{}})
    BY DEF Sums
  <2> QED
    BY <1>2, <2>1, <2>2, <2>3
<1>5. k - 1 \in Nat /\ k - 1 \notin Without
  <2>1. k - 1 \in Nat /\ ~(k <= k - 1)
    BY <1>2, <1>4
  <2> HIDE DEF Without
  <2> QED
    BY <1>1, <2>1
<1>6. PICK F \in [Upto(S, k - 1) -> Nat] : Sums(F, f, Upto(S, k - 1))
  BY <1>5, Zenon
<1> DEFINE G == [s \in Upto(S, k) |-> IF s = {} THEN 0 ELSE f[First(s)] + F[s \ {First(s)}]]
<1>7. ASSUME NEW s \in Upto(S, k), s # {}
      PROVE  First(s) \in S /\ s \ {First(s)} \in Upto(S, k - 1) /\ s \ {First(s)} \in Upto(S, k)
  <2>1. s \in SUBSET S /\ IsFiniteSet(s) /\ Cardinality(s) <= k
    BY <1>3 DEF Upto
  <2>2. First(s) \in s /\ Cardinality(s) \in Nat \ {0} /\ Cardinality(s \ {First(s)}) = Cardinality(s) - 1
    BY <1>7, <2>1, FirstRemoved
  <2> QED
    BY <1>2, <2>1, <2>2 DEF Upto
<1>8. G \in [Upto(S, k) -> Nat]
  BY <1>7
<1>9. ASSUME NEW s \in Upto(S, k - 1) PROVE s \in Upto(S, k) /\ G[s] = F[s]
  <2>1. s \in Upto(S, k)
    BY <1>2, <1>3 DEF Upto
  <2>2. F[s] = IF s = {} THEN 0 ELSE f[First(s)] + F[s \ {First(s)}]
    BY <1>6 DEF Sums
  <2> QED
    BY <2>1, <2>2
<1>10. ASSUME NEW s \in Upto(S, k), s # {} PROVE G[s] = f[First(s)] + G[s \ {First(s)}]
  BY <1>7, <1>9, <1>10
<1>11. Sums(G, f, Upto(S, k))
  <2>1. \A s \in Upto(S, k) : G[s] = IF s = {} THEN 0 ELSE f[First(s)] + G[s \ {First(s)}]
    BY <1>10
  <2>2. G = [s \in Upto(S, k) |-> G[s]]
    OBVIOUS
  <2> HIDE DEF G
  <2> QED
    BY <2>1, <2>2 DEF Sums
<1> QED
  BY <1>2, <1>8, <1>11

Agree(F, G, T) == \A s \in SUBSET T : F[s] = G[s]

LEMMA SumsAgree ==
  ASSUME NEW S, NEW T, IsFiniteSet(S), T \subseteq S, NEW f, NEW F, NEW G,
         Sums(F, f, SUBSET S), Sums(G, f, SUBSET T)
  PROVE  Agree(F, G, T)
<1> DEFINE Apart == {s \in SUBSET T : F[s] # G[s]}
<1> SUFFICES ASSUME Apart # {} PROVE FALSE
  BY DEF Agree
<1>1. \A s \in SUBSET T : s \in SUBSET S /\ IsFiniteSet(s)
  BY FS_Subset
<1>2. PICK s \in Apart : \A u \in Apart : Cardinality(s) <= Cardinality(u)
  <2>1. \A u \in Apart : IsFiniteSet(u)
    BY <1>1
  <2> HIDE DEF Apart
  <2> QED
    BY <2>1, SmallestSet
<1>3. s \in SUBSET T /\ s \in SUBSET S /\ IsFiniteSet(s) /\ F[s] # G[s]
  BY <1>1, <1>2
<1>4. /\ F[s] = IF s = {} THEN 0 ELSE f[First(s)] + F[s \ {First(s)}]
      /\ G[s] = IF s = {} THEN 0 ELSE f[First(s)] + G[s \ {First(s)}]
  BY <1>3 DEF Sums
<1>5. s # {}
  BY <1>3, <1>4
<1>6. s \ {First(s)} \notin Apart
  <2>1. Cardinality(s) \in Nat \ {0} /\ Cardinality(s \ {First(s)}) = Cardinality(s) - 1
    BY <1>3, <1>5, FirstRemoved
  <2> HIDE DEF Apart
  <2> QED
    BY <1>2, <2>1
<1>7. F[s \ {First(s)}] = G[s \ {First(s)}]
  BY <1>3, <1>6
<1> QED
  BY <1>3, <1>4, <1>5, <1>7

LEMMA SumUnfolds ==
  ASSUME NEW S, IsFiniteSet(S), NEW f, \A x \in S : f[x] \in Nat
  PROVE  /\ SumFunctionOnSet(f, S) \in Nat
         /\ S = {} => SumFunctionOnSet(f, S) = 0
         /\ S # {} => SumFunctionOnSet(f, S) = f[First(S)] + SumFunctionOnSet(f, S \ {First(S)})
<1> DEFINE iter(T) == CHOOSE F : Sums(F, f, SUBSET T)
<1>1. \A T : SumFunctionOnSet(f, T) = iter(T)[T]
  BY DEF SumFunctionOnSet, FoldFunctionOnSet, MapThenFoldSet, Sums, First
<1>2. ASSUME NEW T \in SUBSET S
      PROVE  Sums(iter(T), f, SUBSET T) /\ iter(T) \in [SUBSET T -> Nat]
  <2>1. IsFiniteSet(T) /\ \A x \in T : f[x] \in Nat
    BY FS_Subset
  <2>2. Cardinality(T) \in Nat
    BY <2>1, FS_CardinalityType
  <2>3. Upto(T, Cardinality(T)) = SUBSET T
    BY <2>1, FS_Subset DEF Upto
  <2>4. PICK F \in [SUBSET T -> Nat] : Sums(F, f, SUBSET T)
    <3>1. \E F \in [Upto(T, Cardinality(T)) -> Nat] : Sums(F, f, Upto(T, Cardinality(T)))
      BY <2>1, <2>2, SumsExist
    <3> QED
      BY <2>3, <3>1
  <2>5. Sums(iter(T), f, SUBSET T)
    BY <2>4
  <2> HIDE DEF iter
  <2>6. \A s \in SUBSET T : iter(T)[s] = F[s]
    <3>1. T \subseteq T /\ Sums(F, f, SUBSET T)
      BY <2>4
    <3>2. Agree(iter(T), F, T)
      BY ONLY <2>1, <2>5, <3>1, SumsAgree
    <3> QED
      BY <3>2 DEF Agree
  <2>7. iter(T) = [s \in SUBSET T |-> iter(T)[s]]
    BY <2>5 DEF Sums
  <2> QED
    BY <2>4, <2>5, <2>6, <2>7
<1> HIDE DEF iter
<1>3. SumFunctionOnSet(f, S) \in Nat
  <2>1. iter(S) \in [SUBSET S -> Nat] /\ S \in SUBSET S
    BY <1>2
  <2> QED
    BY <1>1, <2>1
<1>4. iter(S)[S] = IF S = {} THEN 0 ELSE f[First(S)] + iter(S)[S \ {First(S)}]
  BY <1>2 DEF Sums
<1>5. ASSUME S # {} PROVE iter(S)[S \ {First(S)}] = iter(S \ {First(S)})[S \ {First(S)}]
  <2> DEFINE T == S \ {First(S)}
  <2>1. T \in SUBSET S
    OBVIOUS
  <2> HIDE DEF T
  <2>2. Sums(iter(S), f, SUBSET S) /\ Sums(iter(T), f, SUBSET T)
    <3>1. S \in SUBSET S
      OBVIOUS
    <3> QED
      BY <1>2, <2>1, <3>1
  <2>3. \A s \in SUBSET T : iter(S)[s] = iter(T)[s]
    <3>1. T \subseteq S
      BY <2>1
    <3>2. Agree(iter(S), iter(T), T)
      BY ONLY <2>2, <3>1, IsFiniteSet(S), SumsAgree
    <3> QED
      BY <3>2 DEF Agree
  <2>4. iter(S)[T] = iter(T)[T]
    BY <2>3
  <2> QED
    BY <2>4 DEF T
<1> QED
  BY <1>1, <1>3, <1>4, <1>5

(* The order in which a set is summed does not matter.                     *)
LEMMA SumRemove ==
  ASSUME NEW S, IsFiniteSet(S), NEW f, \A x \in S : f[x] \in Nat, NEW z \in S
  PROVE  SumFunctionOnSet(f, S) = f[z] + SumFunctionOnSet(f, S \ {z})
<1> DEFINE Bad == {s \in SUBSET S : \E x \in s : SumFunctionOnSet(f, s) # f[x] + SumFunctionOnSet(f, s \ {x})}
<1> SUFFICES ASSUME Bad # {} PROVE FALSE
  OBVIOUS
<1>1. \A s \in SUBSET S : IsFiniteSet(s) /\ \A x \in s : f[x] \in Nat
  BY FS_Subset
<1>2. PICK s \in Bad : \A u \in Bad : Cardinality(s) <= Cardinality(u)
  <2>1. \A u \in Bad : IsFiniteSet(u)
    BY <1>1
  <2> HIDE DEF Bad
  <2> QED
    BY <2>1, SmallestSet
<1>3. s \in SUBSET S /\ s # {}
  BY <1>2
<1>4. PICK x \in s : SumFunctionOnSet(f, s) # f[x] + SumFunctionOnSet(f, s \ {x})
  BY <1>2
<1> DEFINE y == First(s)
           both == (s \ {x}) \ {y}
<1>5. SumFunctionOnSet(f, s) = f[y] + SumFunctionOnSet(f, s \ {y})
  BY <1>1, <1>3, SumUnfolds
<1>6. y \in s /\ x # y
  BY <1>3, <1>4, <1>5 DEF First
<1>7. ASSUME NEW v \in s PROVE s \ {v} \notin Bad
  <2>1. Cardinality(s) \in Nat /\ Cardinality(s \ {v}) = Cardinality(s) - 1
    BY <1>1, <1>3, FS_CardinalityType, FS_RemoveElement
  <2> HIDE DEF Bad
  <2> QED
    BY <1>2, <2>1
<1>8. ASSUME NEW v \in s, NEW w \in s \ {v}
      PROVE  SumFunctionOnSet(f, s \ {v}) = f[w] + SumFunctionOnSet(f, (s \ {v}) \ {w})
  <2>1. s \ {v} \in SUBSET S
    BY <1>3
  <2> QED
    BY <1>7, <2>1
<1>9. SumFunctionOnSet(f, s \ {x}) = f[y] + SumFunctionOnSet(f, both)
  BY <1>6, <1>8
<1>10. SumFunctionOnSet(f, s \ {y}) = f[x] + SumFunctionOnSet(f, (s \ {y}) \ {x})
  BY <1>6, <1>8
<1>11. (s \ {y}) \ {x} = both
  OBVIOUS
<1>12. SumFunctionOnSet(f, both) \in Nat /\ f[x] \in Nat /\ f[y] \in Nat
  <2>1. both \in SUBSET S /\ x \in S /\ y \in S
    BY <1>3, <1>6
  <2> HIDE DEF both, y
  <2> QED
    BY <1>1, <2>1, SumUnfolds
<1> HIDE DEF y, both
<1> QED
  BY <1>4, <1>5, <1>9, <1>10, <1>11, <1>12

LEMMA SumEqual ==
  ASSUME NEW S, IsFiniteSet(S), NEW f, NEW g, \A x \in S : f[x] \in Nat /\ f[x] = g[x]
  PROVE  SumFunctionOnSet(f, S) = SumFunctionOnSet(g, S)
<1> DEFINE Bad == {s \in SUBSET S : SumFunctionOnSet(f, s) # SumFunctionOnSet(g, s)}
<1> SUFFICES ASSUME Bad # {} PROVE FALSE
  OBVIOUS
<1>1. \A s \in SUBSET S : IsFiniteSet(s) /\ \A x \in s : f[x] \in Nat /\ g[x] \in Nat /\ f[x] = g[x]
  BY FS_Subset
<1>2. PICK s \in Bad : \A u \in Bad : Cardinality(s) <= Cardinality(u)
  <2>1. \A u \in Bad : IsFiniteSet(u)
    BY <1>1
  <2> HIDE DEF Bad
  <2> QED
    BY <2>1, SmallestSet
<1>3. s \in SUBSET S /\ SumFunctionOnSet(f, s) # SumFunctionOnSet(g, s)
  BY <1>2
<1>4. s # {}
  BY <1>1, <1>3, SumUnfolds
<1>5. SumFunctionOnSet(f, s) = f[First(s)] + SumFunctionOnSet(f, s \ {First(s)})
      /\ SumFunctionOnSet(g, s) = g[First(s)] + SumFunctionOnSet(g, s \ {First(s)})
  BY <1>1, <1>3, <1>4, SumUnfolds
<1>6. First(s) \in s /\ Cardinality(s) \in Nat /\ Cardinality(s \ {First(s)}) = Cardinality(s) - 1
  BY <1>1, <1>3, <1>4, FirstRemoved
<1>7. s \ {First(s)} \notin Bad
  <2> HIDE DEF Bad
  <2> QED
    BY <1>2, <1>6
<1> QED
  BY <1>1, <1>3, <1>5, <1>6, <1>7

LEMMA SumOfSums ==
  ASSUME NEW S, IsFiniteSet(S), NEW f, NEW g, NEW h,
         \A x \in S : f[x] \in Nat /\ g[x] \in Nat /\ h[x] = f[x] + g[x]
  PROVE  SumFunctionOnSet(h, S) = SumFunctionOnSet(f, S) + SumFunctionOnSet(g, S)
<1> DEFINE Bad == {s \in SUBSET S :
                     SumFunctionOnSet(h, s) # SumFunctionOnSet(f, s) + SumFunctionOnSet(g, s)}
<1> SUFFICES ASSUME Bad # {} PROVE FALSE
  OBVIOUS
<1>1. \A s \in SUBSET S : /\ IsFiniteSet(s)
                          /\ \A x \in s : f[x] \in Nat /\ g[x] \in Nat /\ h[x] \in Nat /\ h[x] = f[x] + g[x]
  BY FS_Subset
<1>2. PICK s \in Bad : \A u \in Bad : Cardinality(s) <= Cardinality(u)
  <2>1. \A u \in Bad : IsFiniteSet(u)
    BY <1>1
  <2> HIDE DEF Bad
  <2> QED
    BY <2>1, SmallestSet
<1>3. s \in SUBSET S /\ SumFunctionOnSet(h, s) # SumFunctionOnSet(f, s) + SumFunctionOnSet(g, s)
  BY <1>2
<1>4. s # {}
  <2> SUFFICES ASSUME s = {} PROVE FALSE
    OBVIOUS
  <2>1. SumFunctionOnSet(f, s) = 0 /\ SumFunctionOnSet(g, s) = 0 /\ SumFunctionOnSet(h, s) = 0
    BY FS_EmptySet, SumUnfolds
  <2> QED
    BY <1>3, <2>1
<1> DEFINE z == First(s)
           r == s \ {z}
<1>5. /\ SumFunctionOnSet(f, s) = f[z] + SumFunctionOnSet(f, r)
      /\ SumFunctionOnSet(g, s) = g[z] + SumFunctionOnSet(g, r)
      /\ SumFunctionOnSet(h, s) = h[z] + SumFunctionOnSet(h, r)
  BY <1>1, <1>3, <1>4, SumUnfolds
<1>6. z \in s /\ Cardinality(s) \in Nat /\ Cardinality(r) = Cardinality(s) - 1
  BY <1>1, <1>3, <1>4, FirstRemoved
<1> HIDE DEF z, r
<1>7. r \notin Bad
  <2> HIDE DEF Bad
  <2> QED
    BY <1>2, <1>6
<1>8. r \in SUBSET S
  BY <1>3 DEF r
<1>9. SumFunctionOnSet(f, r) \in Nat /\ SumFunctionOnSet(g, r) \in Nat
  BY <1>1, <1>8, SumUnfolds
<1>10. SumFunctionOnSet(h, r) = SumFunctionOnSet(f, r) + SumFunctionOnSet(g, r)
  BY <1>7, <1>8
<1>11. f[z] \in Nat /\ g[z] \in Nat /\ h[z] = f[z] + g[z]
  BY <1>1, <1>3, <1>6
<1> QED
  BY <1>3, <1>5, <1>9, <1>10, <1>11

LEMMA SumOfZeros ==
  ASSUME NEW S, IsFiniteSet(S), NEW f, \A x \in S : f[x] = 0
  PROVE  SumFunctionOnSet(f, S) = 0
<1>1. \A x \in S : f[x] \in Nat /\ f[x] = f[x] + f[x]
  OBVIOUS
<1>2. SumFunctionOnSet(f, S) \in Nat
  BY <1>1, SumUnfolds
<1>3. SumFunctionOnSet(f, S) = SumFunctionOnSet(f, S) + SumFunctionOnSet(f, S)
  <2>1. \A x \in S : f[x] \in Nat /\ f[x] \in Nat /\ f[x] = f[x] + f[x]
    BY <1>1
  <2> QED
    BY <2>1, SumOfSums, Zenon
<1> DEFINE n == SumFunctionOnSet(f, S)
<1> HIDE DEF n
<1>4. n \in Nat /\ n = n + n
  BY <1>2, <1>3 DEF n
<1>5. n = 0
  BY <1>4
<1> QED
  BY <1>5 DEF n

LEMMA SumOfOne ==
  ASSUME NEW S, IsFiniteSet(S), NEW f, NEW z \in S, f[z] \in Nat, \A x \in S \ {z} : f[x] = 0
  PROVE  SumFunctionOnSet(f, S) = f[z]
<1>1. SumFunctionOnSet(f, S) = f[z] + SumFunctionOnSet(f, S \ {z})
  BY SumRemove
<1>2. SumFunctionOnSet(f, S \ {z}) = 0
  BY SumOfZeros, FS_RemoveElement
<1> QED
  BY <1>1, <1>2

(* Summed by rows or by columns.                                           *)
LEMMA SumBothWays ==
  ASSUME NEW S, IsFiniteSet(S), NEW T, IsFiniteSet(T), NEW h, \A x \in S, y \in T : h[x][y] \in Nat
  PROVE  SumFunctionOnSet([x \in S |-> SumFunctionOnSet(h[x], T)], S)
         = SumFunctionOnSet([y \in T |-> SumFunctionOnSet([x \in S |-> h[x][y]], S)], T)
<1> DEFINE row(x) == SumFunctionOnSet(h[x], T)
           rows(s) == SumFunctionOnSet([x \in s |-> row(x)], s)
           column(s, y) == SumFunctionOnSet([x \in s |-> h[x][y]], s)
           columns(s) == SumFunctionOnSet([y \in T |-> column(s, y)], T)
           Bad == {s \in SUBSET S : rows(s) # columns(s)}
<1> SUFFICES ASSUME Bad # {} PROVE FALSE
  OBVIOUS
<1>1. \A s \in SUBSET S : IsFiniteSet(s)
  BY FS_Subset
<1>2. PICK s \in Bad : \A u \in Bad : Cardinality(s) <= Cardinality(u)
  <2>1. \A u \in Bad : IsFiniteSet(u)
    BY <1>1
  <2> HIDE DEF Bad
  <2> QED
    BY <2>1, SmallestSet
<1>3. s \in SUBSET S /\ IsFiniteSet(s) /\ rows(s) # columns(s)
  BY <1>1, <1>2
<1>4. ASSUME NEW y \in T, NEW u \in SUBSET S PROVE column(u, y) \in Nat
  BY <1>1, SumUnfolds
<1>5. \A x \in S : row(x) \in Nat
  BY SumUnfolds
<1>6. s # {}
  <2> SUFFICES ASSUME s = {} PROVE FALSE
    OBVIOUS
  <2>1. rows(s) = 0
    BY FS_EmptySet, SumUnfolds
  <2>2. \A y \in T : column(s, y) = 0
    BY FS_EmptySet, SumUnfolds
  <2> HIDE DEF column
  <2>3. columns(s) = 0
    BY <2>2, SumOfZeros
  <2> QED
    BY <1>3, <2>1, <2>3
<1> DEFINE z == First(s)
           r == s \ {z}
<1>7. z \in s /\ IsFiniteSet(r) /\ Cardinality(s) \in Nat /\ Cardinality(r) = Cardinality(s) - 1
  BY <1>3, <1>6, FirstRemoved
<1>8. r \in SUBSET S /\ z \in S /\ r \subseteq s
  BY <1>3, <1>7
<1>9. r \notin Bad
  <2> HIDE DEF Bad, r
  <2> QED
    BY <1>2, <1>7
<1>10. rows(r) = columns(r)
  BY <1>8, <1>9
<1>11. rows(s) = row(z) + rows(r)
  <2> HIDE DEF row
  <2>1. rows(s) = [x \in s |-> row(x)][z] + SumFunctionOnSet([x \in s |-> row(x)], r)
    BY <1>3, <1>5, <1>7, SumRemove
  <2>2. SumFunctionOnSet([x \in s |-> row(x)], r) = rows(r)
    BY <1>3, <1>5, <1>7, SumEqual
  <2> QED
    BY <1>7, <2>1, <2>2
<1>12. ASSUME NEW y \in T PROVE column(s, y) = column(r, y) + h[z][y]
  <2>1. column(s, y) = [x \in s |-> h[x][y]][z] + SumFunctionOnSet([x \in s |-> h[x][y]], r)
    BY <1>3, <1>7, SumRemove
  <2>2. SumFunctionOnSet([x \in s |-> h[x][y]], r) = column(r, y)
    BY <1>3, <1>7, SumEqual
  <2>3. column(r, y) \in Nat /\ h[z][y] \in Nat
    BY <1>4, <1>8
  <2> QED
    BY <1>7, <2>1, <2>2, <2>3
<1>13. columns(s) = columns(r) + row(z)
  <2> HIDE DEF column, z, r
  <2>1. \A y \in T : /\ [v \in T |-> column(r, v)][y] \in Nat /\ h[z][y] \in Nat
                     /\ [v \in T |-> column(s, v)][y] = [v \in T |-> column(r, v)][y] + h[z][y]
    BY <1>4, <1>8, <1>12
  <2> QED
    BY <2>1, SumOfSums
<1>14. rows(r) \in Nat /\ row(z) \in Nat
  <2>1. row(z) \in Nat
    BY <1>5, <1>8
  <2> HIDE DEF row
  <2> QED
    BY <1>5, <1>7, <1>8, <2>1, SumUnfolds
<1> HIDE DEF rows, columns, row
<1> QED
  BY <1>3, <1>10, <1>11, <1>13, <1>14

-----------------------------------------------------------------------------
(***************************************************************************)
(* Sequences.                                                              *)
(***************************************************************************)
LEMMA Positions ==
  ASSUME NEW s, IsSequence(s)
  PROVE  DOMAIN s = 1..Len(s) /\ Len(s) \in Nat /\ IsFiniteSet(DOMAIN s) /\ \A i \in DOMAIN s : s[i] \in ToSet(s)
<1>1. DOMAIN s = 1..Len(s) /\ Len(s) \in Nat
  BY DEF IsSequence
<1> QED
  BY <1>1, FS_Interval DEF ToSet

LEMMA SequenceOf ==
  ASSUME NEW S, NEW s \in Seq(S)
  PROVE  IsSequence(s) /\ ToSet(s) \subseteq S
<1>1. \A i \in 1..Len(s) : s[i] \in ToSet(s)
  BY DEF ToSet
<1>2. s = [i \in 1..Len(s) |-> s[i]] /\ Len(s) \in Nat
  OBVIOUS
<1>3. s \in [1..Len(s) -> ToSet(s)]
  BY <1>1, <1>2
<1>4. s \in Seq(ToSet(s))
  BY <1>2, <1>3
<1> QED
  BY <1>4 DEF IsSequence, ToSet

Nested(ss) == IsSequence(ss) /\ \A i \in DOMAIN ss : IsSequence(ss[i])

(* FlattenSeq by its prefixes.                                             *)
Flattens(f, ss, n) == f = [i \in 1..n |-> IF i = 1 THEN ss[i] ELSE f[i - 1] \o ss[i]]

LEMMA FlattenExists ==
  ASSUME NEW S, NEW ss \in Seq(Seq(S)), NEW n \in 1..Len(ss)
  PROVE  \E f \in [1..n -> Seq(S)] : Flattens(f, ss, n)
<1> DEFINE Without == {k \in 1..Len(ss) : ~\E f \in [1..k -> Seq(S)] : Flattens(f, ss, k)}
<1> SUFFICES ASSUME Without # {} PROVE FALSE
  OBVIOUS
<1>1. PICK k \in Without : \A m \in Without : k <= m
  <2>1. Without \in SUBSET Nat
    OBVIOUS
  <2> HIDE DEF Without
  <2> QED
    BY <2>1, SmallestNat
<1>2. k \in 1..Len(ss) /\ ~\E f \in [1..k -> Seq(S)] : Flattens(f, ss, k)
  BY <1>1
<1>3. ss[k] \in Seq(S)
  BY <1>2
<1>4. k # 1
  <2> SUFFICES ASSUME k = 1 PROVE FALSE
    OBVIOUS
  <2> DEFINE g == [i \in 1..1 |-> ss[i]]
  <2>1. g \in [1..1 -> Seq(S)]
    BY <1>3
  <2>2. Flattens(g, ss, 1)
    BY DEF Flattens
  <2> QED
    BY <1>2, <2>1, <2>2
<1>5. k - 1 \in 1..Len(ss) /\ k - 1 \notin Without
  <2>1. k \in Nat /\ k - 1 \in 1..Len(ss) /\ ~(k <= k - 1)
    BY <1>2, <1>4
  <2> HIDE DEF Without
  <2> QED
    BY <1>1, <2>1
<1>6. PICK f \in [1..(k - 1) -> Seq(S)] : Flattens(f, ss, k - 1)
  BY <1>5, Zenon
<1> DEFINE g == [i \in 1..k |-> IF i = k THEN f[k - 1] \o ss[k] ELSE f[i]]
<1>7. g \in [1..k -> Seq(S)]
  <2>1. f[k - 1] \in Seq(S)
    BY <1>2, <1>4
  <2>2. f[k - 1] \o ss[k] \in Seq(S)
    BY <1>3, <2>1
  <2> QED
    BY <1>2, <2>2
<1>8. ASSUME NEW i \in 1..k
      PROVE  g[i] = IF i = 1 THEN ss[i] ELSE g[i - 1] \o ss[i]
  <2>1. CASE i = k
    <3>1. g[k] = f[k - 1] \o ss[k]
      BY <2>1, Zenon
    <3>2. k - 1 \in 1..k /\ k - 1 # k
      BY <1>2, <1>4
    <3>3. g[k - 1] = f[k - 1]
      BY <3>2
    <3> QED
      BY <1>4, <2>1, <3>1, <3>3
  <2>2. CASE i # k
    <3>1. i \in 1..(k - 1) /\ g[i] = f[i]
      BY <1>2, <2>2
    <3>2. f[i] = IF i = 1 THEN ss[i] ELSE f[i - 1] \o ss[i]
      BY <1>6, <3>1 DEF Flattens
    <3>3. i # 1 => g[i - 1] = f[i - 1]
      BY <1>2, <2>2
    <3> QED
      BY <3>1, <3>2, <3>3
  <2> QED
    BY <2>1, <2>2
<1>9. Flattens(g, ss, k)
  BY <1>8, Zenon DEF Flattens
<1> QED
  BY <1>2, <1>7, <1>9


LEMMA FlattenUnfolds ==
  ASSUME NEW ss, Nested(ss)
  PROVE  LET S == UNION {ToSet(ss[i]) : i \in DOMAIN ss}
         IN  \E g \in [1..Len(ss) -> Seq(S)] :
               /\ FlattenSeq(ss) = IF Len(ss) = 0 THEN <<>> ELSE g[Len(ss)]
               /\ \A i \in 1..Len(ss) : g[i] = IF i = 1 THEN ss[i] ELSE g[i - 1] \o ss[i]
<1> DEFINE S == UNION {ToSet(ss[i]) : i \in DOMAIN ss}
<1>1. DOMAIN ss = 1..Len(ss) /\ Len(ss) \in Nat
  BY Positions DEF Nested
<1>2. ASSUME NEW i \in 1..Len(ss) PROVE ss[i] \in Seq(S)
  <2>1. ss[i] \in Seq(ToSet(ss[i])) /\ ToSet(ss[i]) \subseteq S
    BY <1>1 DEF Nested, IsSequence
  <2> HIDE DEF S
  <2>2. \A k \in 1..Len(ss[i]) : ss[i][k] \in S
    BY <2>1
  <2> QED
    BY <2>1, <2>2
<1> HIDE DEF S
<1>3. ss \in Seq(Seq(S))
  <2>1. ss = [i \in 1..Len(ss) |-> ss[i]]
    BY <1>1 DEF Nested, IsSequence
  <2> QED
    BY <1>1, <1>2, <2>1
<1>4. CASE Len(ss) = 0
  <2> DEFINE g == [i \in 1..0 |-> <<>>]
  <2>1. g \in [1..Len(ss) -> Seq(S)]
    BY <1>4
  <2>2. FlattenSeq(ss) = <<>>
    BY <1>1, <1>3, <1>4 DEF FlattenSeq
  <2>3. \A i \in 1..Len(ss) : g[i] = IF i = 1 THEN ss[i] ELSE g[i - 1] \o ss[i]
    BY <1>4
  <2> QED
    BY <1>4, <2>1, <2>2, <2>3 DEF S
<1>5. CASE Len(ss) # 0
  <2> DEFINE F == CHOOSE f : Flattens(f, ss, Len(ss))
  <2>1. FlattenSeq(ss) = F[Len(ss)]
    BY <1>5 DEF FlattenSeq, Flattens
  <2>2. PICK g \in [1..Len(ss) -> Seq(S)] : Flattens(g, ss, Len(ss))
    BY <1>1, <1>3, <1>5, FlattenExists
  <2>3. Flattens(F, ss, Len(ss))
    BY <2>2
  <2> HIDE DEF F
  <2> DEFINE Apart == {i \in 1..Len(ss) : F[i] # g[i]}
  <2>4. Apart = {}
    <3> SUFFICES ASSUME Apart # {} PROVE FALSE
      OBVIOUS
    <3>1. PICK k \in Apart : \A m \in Apart : k <= m
      <4>1. Apart \in SUBSET Nat
        OBVIOUS
      <4> HIDE DEF Apart
      <4> QED
        BY <4>1, SmallestNat
    <3>2. F[k] = IF k = 1 THEN ss[k] ELSE F[k - 1] \o ss[k]
      BY <2>3, <3>1 DEF Flattens
    <3>3. g[k] = IF k = 1 THEN ss[k] ELSE g[k - 1] \o ss[k]
      BY <2>2, <3>1 DEF Flattens
    <3>4. k # 1 => F[k - 1] = g[k - 1]
      BY <3>1
    <3> QED
      BY <3>1, <3>2, <3>3, <3>4
  <2>5. FlattenSeq(ss) = g[Len(ss)]
    BY <1>1, <1>5, <2>1, <2>4
  <2>6. \A i \in 1..Len(ss) : g[i] = IF i = 1 THEN ss[i] ELSE g[i - 1] \o ss[i]
    BY <2>2 DEF Flattens
  <2> QED
    BY <1>5, <2>5, <2>6 DEF S
<1> QED
  BY <1>4, <1>5

LEMMA ConcatContents ==
  ASSUME NEW S, NEW s \in Seq(S), NEW u \in Seq(S)
  PROVE  ToSet(s \o u) = ToSet(s) \union ToSet(u)
<1>1. \A i \in DOMAIN s : i \in DOMAIN (s \o u) /\ (s \o u)[i] = s[i]
  OBVIOUS
<1>2. \A i \in DOMAIN u : Len(s) + i \in DOMAIN (s \o u) /\ (s \o u)[Len(s) + i] = u[i]
  OBVIOUS
<1>3. ASSUME NEW i \in DOMAIN (s \o u) PROVE (s \o u)[i] \in ToSet(s) \union ToSet(u)
  <2>1. CASE i <= Len(s)
    BY <2>1 DEF ToSet
  <2>2. CASE ~(i <= Len(s))
    <3>1. i - Len(s) \in DOMAIN u /\ (s \o u)[i] = u[i - Len(s)]
      BY <2>2
    <3> QED
      BY <3>1 DEF ToSet
  <2> QED
    BY <2>1, <2>2
<1>4. ToSet(s \o u) \subseteq ToSet(s) \union ToSet(u)
  BY <1>3 DEF ToSet
<1>5. ToSet(s) \subseteq ToSet(s \o u)
  BY <1>1 DEF ToSet
<1>6. ToSet(u) \subseteq ToSet(s \o u)
  BY <1>2 DEF ToSet
<1> QED
  BY <1>4, <1>5, <1>6

LEMMA FlattenContents ==
  ASSUME NEW ss, Nested(ss)
  PROVE  /\ IsSequence(FlattenSeq(ss))
         /\ ToSet(FlattenSeq(ss)) = UNION {ToSet(ss[i]) : i \in DOMAIN ss}
<1> DEFINE S == UNION {ToSet(ss[i]) : i \in DOMAIN ss}
           n == Len(ss)
<1>1. DOMAIN ss = 1..n /\ n \in Nat
  BY Positions DEF Nested
<1>2. PICK g \in [1..n -> Seq(S)] :
        /\ FlattenSeq(ss) = IF n = 0 THEN <<>> ELSE g[n]
        /\ \A i \in 1..n : g[i] = IF i = 1 THEN ss[i] ELSE g[i - 1] \o ss[i]
  BY FlattenUnfolds
<1>3. \A i \in 1..n : ss[i] \in Seq(S) /\ ToSet(ss[i]) \subseteq S
  <2> SUFFICES ASSUME NEW i \in 1..n PROVE ss[i] \in Seq(S) /\ ToSet(ss[i]) \subseteq S
    OBVIOUS
  <2>1. ss[i] \in Seq(ToSet(ss[i])) /\ ToSet(ss[i]) \subseteq S
    BY <1>1 DEF Nested, IsSequence
  <2> HIDE DEF S
  <2>2. \A k \in 1..Len(ss[i]) : ss[i][k] \in S
    BY <2>1
  <2> QED
    BY <2>1, <2>2
<1>4. S = UNION {ToSet(ss[i]) : i \in 1..n}
  BY <1>1
<1> HIDE DEF S, n
<1>5. CASE n = 0
  <2>1. FlattenSeq(ss) = <<>> /\ S = {} /\ ToSet(<<>>) = {}
    BY <1>2, <1>4, <1>5 DEF ToSet
  <2> QED
    BY <2>1 DEF IsSequence, S
<1>6. CASE n # 0
  <2> DEFINE Bad == {k \in 1..n : ToSet(g[k]) # UNION {ToSet(ss[i]) : i \in 1..k}}
  <2>1. Bad = {}
    <3> SUFFICES ASSUME Bad # {} PROVE FALSE
      OBVIOUS
    <3>1. PICK k \in Bad : \A m \in Bad : k <= m
      <4>1. Bad \in SUBSET Nat
        OBVIOUS
      <4> HIDE DEF Bad
      <4> QED
        BY <4>1, SmallestNat
    <3>2. k \in 1..n /\ ToSet(g[k]) # UNION {ToSet(ss[i]) : i \in 1..k}
      BY <3>1
    <3>3. CASE k = 1
      <4>1. UNION {ToSet(ss[i]) : i \in 1..1} = ToSet(ss[1])
        BY SMT
      <4> QED
        BY <1>2, <3>2, <3>3, <4>1
    <3>4. CASE k # 1
      <4>1. k - 1 \in 1..n /\ k - 1 \notin Bad
        <5>1. k - 1 \in 1..n /\ ~(k <= k - 1)
          BY <1>1, <3>2, <3>4
        <5> HIDE DEF Bad
        <5> QED
          BY <3>1, <5>1
      <4>2. g[k] = g[k - 1] \o ss[k] /\ g[k - 1] \in Seq(S) /\ ss[k] \in Seq(S)
        BY <1>2, <1>3, <3>2, <3>4, <4>1
      <4>3. ToSet(g[k]) = ToSet(g[k - 1]) \union ToSet(ss[k])
        BY <4>2, ConcatContents
      <4>4. ToSet(g[k - 1]) = UNION {ToSet(ss[i]) : i \in 1..(k - 1)}
        BY <4>1
      <4>5. 1..k = 1..(k - 1) \union {k}
        BY <1>1, <3>2
      <4> QED
        BY <3>2, <4>3, <4>4, <4>5
    <3> QED
      BY <3>3, <3>4
  <2>2. n \in 1..n
    BY <1>1, <1>6
  <2>3. ToSet(g[n]) = S
    BY <1>4, <2>1, <2>2
  <2>4. IsSequence(g[n])
    BY <1>2, <2>2, SequenceOf
  <2> QED
    BY <1>2, <1>6, <2>3, <2>4 DEF S
<1> QED
  BY <1>5, <1>6

-----------------------------------------------------------------------------
(***************************************************************************)
(* Records of a stream that go to a target.                                *)
(***************************************************************************)
Hits(s, t) == {i \in DOMAIN s : s[i].kind = "record" /\ s[i].target = t}

HitCount(s, t) == Cardinality(Hits(s, t))

LEMMA HitsFinite ==
  ASSUME NEW s, IsSequence(s), NEW t
  PROVE  IsFiniteSet(Hits(s, t)) /\ HitCount(s, t) \in Nat
<1>1. Hits(s, t) \in SUBSET DOMAIN s /\ IsFiniteSet(DOMAIN s)
  BY Positions DEF Hits
<1> QED
  BY <1>1, FS_Subset, FS_CardinalityType DEF HitCount

LEMMA HitsOfConcat ==
  ASSUME NEW S, NEW s \in Seq(S), NEW u \in Seq(S), NEW t
  PROVE  HitCount(s \o u, t) = HitCount(s, t) + HitCount(u, t)
<1> DEFINE Moved == {Len(s) + i : i \in Hits(u, t)}
           move == [i \in Hits(u, t) |-> Len(s) + i]
<1>1. Hits(s \o u, t) = Hits(s, t) \union Moved
  <2>1. ASSUME NEW k \in Hits(s \o u, t) PROVE k \in Hits(s, t) \union Moved
    <3>1. k \in 1..(Len(s) + Len(u)) /\ (s \o u)[k].kind = "record" /\ (s \o u)[k].target = t
      BY DEF Hits
    <3>2. CASE k <= Len(s)
      BY <3>1, <3>2 DEF Hits
    <3>3. CASE ~(k <= Len(s))
      <4>1. k - Len(s) \in DOMAIN u /\ (s \o u)[k] = u[k - Len(s)] /\ k = Len(s) + (k - Len(s))
        BY <3>1, <3>3
      <4> QED
        BY <3>1, <4>1 DEF Hits
    <3> QED
      BY <3>2, <3>3
  <2>2. ASSUME NEW k \in Hits(s, t) PROVE k \in Hits(s \o u, t)
    BY DEF Hits
  <2>3. ASSUME NEW i \in Hits(u, t) PROVE Len(s) + i \in Hits(s \o u, t)
    BY DEF Hits
  <2> QED
    BY <2>1, <2>2, <2>3
<1>2. Hits(s, t) \intersect Moved = {}
  BY DEF Hits
<1>3. IsFiniteSet(Hits(s, t)) /\ IsFiniteSet(Hits(u, t)) /\ HitCount(s, t) \in Nat /\ HitCount(u, t) \in Nat
  BY SequenceOf, HitsFinite
<1>4. IsFiniteSet(Moved) /\ Cardinality(Moved) = HitCount(u, t)
  <2>1. \A i, j \in Hits(u, t) : Len(s) + i = Len(s) + j => i = j
    BY DEF Hits
  <2>2. move \in Bijection(Hits(u, t), Moved)
    BY <2>1 DEF Bijection, Injection, Surjection, IsInjective
  <2> QED
    BY <1>3, <2>2, FS_Bijection DEF HitCount, ExistsBijection
<1> HIDE DEF Moved
<1>5. Cardinality(Hits(s, t) \union Moved) = Cardinality(Hits(s, t)) + Cardinality(Moved) - Cardinality({})
  BY <1>2, <1>3, <1>4, FS_Union
<1> QED
  BY <1>1, <1>3, <1>4, <1>5, FS_EmptySet DEF HitCount

LEMMA FlattenHits ==
  ASSUME NEW ss, Nested(ss), NEW t
  PROVE  HitCount(FlattenSeq(ss), t)
         = SumFunctionOnSet([i \in DOMAIN ss |-> HitCount(ss[i], t)], DOMAIN ss)
<1> DEFINE S == UNION {ToSet(ss[i]) : i \in DOMAIN ss}
           n == Len(ss)
           f == [i \in DOMAIN ss |-> HitCount(ss[i], t)]
<1>1. DOMAIN ss = 1..n /\ n \in Nat
  BY Positions DEF Nested
<1>2. PICK g \in [1..n -> Seq(S)] :
        /\ FlattenSeq(ss) = IF n = 0 THEN <<>> ELSE g[n]
        /\ \A i \in 1..n : g[i] = IF i = 1 THEN ss[i] ELSE g[i - 1] \o ss[i]
  BY FlattenUnfolds
<1>3. ASSUME NEW i \in 1..n PROVE ss[i] \in Seq(S) /\ f[i] = HitCount(ss[i], t) /\ f[i] \in Nat
  <2>1. IsSequence(ss[i]) /\ ToSet(ss[i]) \subseteq S
    BY <1>1 DEF Nested
  <2>2. ss[i] \in Seq(ToSet(ss[i]))
    BY <2>1 DEF IsSequence
  <2>3. f[i] = HitCount(ss[i], t)
    BY <1>1
  <2> HIDE DEF S, f
  <2>4. \A k \in 1..Len(ss[i]) : ss[i][k] \in S
    BY <2>1, <2>2
  <2> QED
    BY <2>1, <2>2, <2>3, <2>4, HitsFinite
<1> HIDE DEF S, n, f
<1>4. ASSUME NEW k \in 0..n PROVE IsFiniteSet(1..k) /\ \A i \in 1..k : f[i] \in Nat
  BY <1>1, <1>3, FS_Interval
<1>5. CASE n = 0
  <2>1. Hits(<<>>, t) = {}
    BY DEF Hits
  <2>2. SumFunctionOnSet(f, {}) = 0
    BY FS_EmptySet, SumUnfolds
  <2> QED
    BY <1>1, <1>2, <1>5, <2>1, <2>2, FS_EmptySet DEF HitCount, f
<1>6. CASE n # 0
  <2> DEFINE Bad == {k \in 1..n : HitCount(g[k], t) # SumFunctionOnSet(f, 1..k)}
  <2>1. Bad = {}
    <3> SUFFICES ASSUME Bad # {} PROVE FALSE
      OBVIOUS
    <3>1. PICK k \in Bad : \A m \in Bad : k <= m
      <4>1. Bad \in SUBSET Nat
        OBVIOUS
      <4> HIDE DEF Bad
      <4> QED
        BY <4>1, SmallestNat
    <3>2. k \in 1..n /\ HitCount(g[k], t) # SumFunctionOnSet(f, 1..k)
      BY <3>1
    <3>3. IsFiniteSet(1..k) /\ (\A i \in 1..k : f[i] \in Nat) /\ k \in 1..k
      BY <1>1, <1>4, <3>2
    <3>4. SumFunctionOnSet(f, 1..k) = f[k] + SumFunctionOnSet(f, (1..k) \ {k})
      BY <3>3, SumRemove
    <3>5. (1..k) \ {k} = 1..(k - 1)
      BY <1>1, <3>2
    <3>6. CASE k = 1
      <4>1. SumFunctionOnSet(f, {}) = 0
        BY FS_EmptySet, SumUnfolds
      <4>2. HitCount(g[1], t) = f[1] /\ f[1] \in Nat
        BY <1>2, <1>3, <3>2, <3>6
      <4>3. (1..k) \ {k} = {}
        BY <3>6
      <4>4. SumFunctionOnSet(f, 1..k) = f[1] + 0
        BY <3>4, <3>6, <4>1, <4>3
      <4> QED
        BY <3>2, <3>6, <4>2, <4>4
    <3>7. CASE k # 1
      <4>1. k - 1 \in 1..n /\ k - 1 \notin Bad
        <5>1. k - 1 \in 1..n /\ ~(k <= k - 1)
          BY <1>1, <3>2, <3>7
        <5> HIDE DEF Bad
        <5> QED
          BY <3>1, <5>1
      <4>2. g[k] = g[k - 1] \o ss[k] /\ g[k - 1] \in Seq(S) /\ ss[k] \in Seq(S)
        BY <1>2, <1>3, <3>2, <3>7, <4>1
      <4>3. HitCount(g[k], t) = HitCount(g[k - 1], t) + HitCount(ss[k], t)
        BY <4>2, HitsOfConcat
      <4>4. HitCount(g[k - 1], t) = SumFunctionOnSet(f, 1..(k - 1))
        BY <4>1
      <4>5. HitCount(g[k - 1], t) \in Nat /\ f[k] = HitCount(ss[k], t) /\ f[k] \in Nat
        BY <1>3, <3>2, <4>2, SequenceOf, HitsFinite
      <4>6. SumFunctionOnSet(f, 1..k) = f[k] + SumFunctionOnSet(f, 1..(k - 1))
        BY <3>4, <3>5
      <4> HIDE DEF Bad
      <4> QED
        BY <3>2, <4>3, <4>4, <4>5, <4>6
    <3> QED
      BY <3>6, <3>7
  <2>2. n \in 1..n
    BY <1>1, <1>6
  <2> QED
    BY <1>1, <1>2, <1>6, <2>1, <2>2 DEF f
<1> QED
  BY <1>5, <1>6

-----------------------------------------------------------------------------
(***************************************************************************)
(* The sum over the positions of a list, of which each belongs to at most  *)
(* one mapping, is the sum over the mappings of what belongs to them.      *)
(***************************************************************************)
Owned(D, R, entry, m) == {entry[i] : i \in {j \in D : <<j, m>> \in R}}

LEMMA OwnedCount ==
  ASSUME NEW D, IsFiniteSet(D), NEW R, NEW m, NEW entry, NEW len,
         \A i, j \in D : entry[i] = entry[j] => i = j,
         \A i \in D : len[entry[i]] \in Nat
  PROVE  /\ IsFiniteSet(Owned(D, R, entry, m))
         /\ SumFunctionOnSet([i \in D |-> IF <<i, m>> \in R THEN len[entry[i]] ELSE 0], D)
            = SumFunctionOnSet(len, Owned(D, R, entry, m))
<1> DEFINE B == {j \in D : <<j, m>> \in R}
           E == Owned(D, R, entry, m)
           k == [i \in D |-> [e \in E |-> IF e = entry[i] THEN len[e] ELSE 0]]
           f == [i \in D |-> IF <<i, m>> \in R THEN len[entry[i]] ELSE 0]
<1>1. IsFiniteSet(E)
  <2> DEFINE b == [i \in B |-> entry[i]]
  <2>1. IsFiniteSet(B)
    BY FS_Subset
  <2>2. b \in Surjection(B, E)
    BY DEF Surjection, Owned
  <2> QED
    BY <2>1, <2>2, FS_Surjection
<1>2. \A e \in E : \E i \in B : e = entry[i]
  BY DEF Owned
<1>3. \A i \in D : entry[i] \in E <=> <<i, m>> \in R
  BY DEF Owned
<1>4. \A e \in E : len[e] \in Nat
  BY <1>2
<1> HIDE DEF E
<1>5. ASSUME NEW i \in D PROVE SumFunctionOnSet(k[i], E) = f[i] /\ f[i] \in Nat
  <2>1. \A e \in E : k[i][e] = IF e = entry[i] THEN len[e] ELSE 0
    OBVIOUS
  <2> HIDE DEF k
  <2>2. CASE <<i, m>> \in R
    <3>1. entry[i] \in E /\ k[i][entry[i]] = len[entry[i]] /\ f[i] = len[entry[i]] /\ f[i] \in Nat
      BY <1>3, <2>1, <2>2
    <3>2. \A e \in E \ {entry[i]} : k[i][e] = 0
      BY <2>1
    <3> QED
      BY <1>1, <3>1, <3>2, SumOfOne
  <2>3. CASE <<i, m>> \notin R
    <3>1. (\A e \in E : k[i][e] = 0) /\ f[i] = 0
      BY <1>3, <2>1, <2>3
    <3> QED
      BY <1>1, <3>1, SumOfZeros
  <2> QED
    BY <2>2, <2>3
<1>6. ASSUME NEW e \in E PROVE SumFunctionOnSet([i \in D |-> k[i][e]], D) = len[e]
  <2>1. PICK i \in B : e = entry[i]
    BY <1>2
  <2> DEFINE g == [x \in D |-> k[x][e]]
  <2>2. g[i] = len[e] /\ len[e] \in Nat /\ \A x \in D \ {i} : g[x] = 0
    BY <1>4, <2>1
  <2> HIDE DEF g
  <2>3. SumFunctionOnSet(g, D) = g[i]
    BY <2>1, <2>2, SumOfOne
  <2> QED
    BY <2>2, <2>3 DEF g
<1>7. \A i \in D, e \in E : k[i][e] \in Nat
  BY <1>4
<1> HIDE DEF k
<1>8. SumFunctionOnSet([i \in D |-> SumFunctionOnSet(k[i], E)], D)
      = SumFunctionOnSet([e \in E |-> SumFunctionOnSet([i \in D |-> k[i][e]], D)], E)
  <2>1. IsFiniteSet(D) /\ IsFiniteSet(E) /\ \A i \in D, e \in E : k[i][e] \in Nat
    BY <1>1, <1>7
  <2> QED
    BY ONLY <2>1, SumBothWays
<1>9. SumFunctionOnSet([i \in D |-> SumFunctionOnSet(k[i], E)], D) = SumFunctionOnSet(f, D)
  <2> DEFINE g == [i \in D |-> SumFunctionOnSet(k[i], E)]
  <2>1. \A i \in D : g[i] \in Nat /\ g[i] = f[i]
    BY <1>5
  <2> HIDE DEF g, f
  <2>2. SumFunctionOnSet(g, D) = SumFunctionOnSet(f, D)
    BY <2>1, SumEqual
  <2> QED
    BY <2>2 DEF g
<1>10. SumFunctionOnSet([e \in E |-> SumFunctionOnSet([i \in D |-> k[i][e]], D)], E) = SumFunctionOnSet(len, E)
  <2> DEFINE g == [e \in E |-> SumFunctionOnSet([i \in D |-> k[i][e]], D)]
  <2>1. \A e \in E : g[e] \in Nat /\ g[e] = len[e]
    BY <1>4, <1>6
  <2> HIDE DEF g
  <2>2. SumFunctionOnSet(g, E) = SumFunctionOnSet(len, E)
    BY <1>1, <2>1, SumEqual
  <2> QED
    BY <2>2 DEF g
<1> QED
  BY <1>1, <1>8, <1>9, <1>10 DEF E

Splits(D, M, R, T, entry, len, f, c) ==
  /\ IsFiniteSet(D) /\ IsFiniteSet(M)
  /\ \A i \in D : \A m, n \in M : <<i, m>> \in R /\ <<i, n>> \in R => m = n
  /\ \A i, j \in D : entry[i] = entry[j] => i = j
  /\ \A i \in D : len[entry[i]] \in Nat
  /\ \A i \in D : f[i] = IF \E m \in M : <<i, m>> \in R /\ m \in T THEN len[entry[i]] ELSE 0
  /\ \A m \in M : c[m] = IF m \in T THEN SumFunctionOnSet(len, Owned(D, R, entry, m)) ELSE 0

LEMMA CountByMapping ==
  ASSUME NEW D, NEW M, NEW R, NEW T, NEW entry, NEW len, NEW f, NEW c, Splits(D, M, R, T, entry, len, f, c)
  PROVE  SumFunctionOnSet(f, D) = SumFunctionOnSet(c, M)
<1> USE DEF Splits
<1> DEFINE h == [i \in D |-> [m \in M |-> IF <<i, m>> \in R /\ m \in T THEN len[entry[i]] ELSE 0]]
<1>1. ASSUME NEW i \in D PROVE SumFunctionOnSet(h[i], M) = f[i] /\ f[i] \in Nat
  <2>1. \A m \in M : h[i][m] = IF <<i, m>> \in R /\ m \in T THEN len[entry[i]] ELSE 0
    OBVIOUS
  <2> HIDE DEF h
  <2>2. CASE \E m \in M : <<i, m>> \in R /\ m \in T
    <3>1. PICK m \in M : <<i, m>> \in R /\ m \in T
      BY <2>2
    <3>2. h[i][m] = len[entry[i]] /\ f[i] = len[entry[i]] /\ f[i] \in Nat
      BY <2>1, <3>1
    <3>3. \A n \in M \ {m} : h[i][n] = 0
      BY <2>1, <3>1
    <3>4. SumFunctionOnSet(h[i], M) = h[i][m]
      BY <3>2, <3>3, SumOfOne
    <3> QED
      BY <3>2, <3>4
  <2>3. CASE ~\E m \in M : <<i, m>> \in R /\ m \in T
    <3>1. (\A m \in M : h[i][m] = 0) /\ f[i] = 0
      BY <2>1, <2>3
    <3> QED
      BY <3>1, SumOfZeros
  <2> QED
    BY <2>2, <2>3
<1>2. ASSUME NEW m \in M PROVE SumFunctionOnSet([i \in D |-> h[i][m]], D) = c[m] /\ c[m] \in Nat
  <2> DEFINE g == [i \in D |-> h[i][m]]
             o == [i \in D |-> IF <<i, m>> \in R THEN len[entry[i]] ELSE 0]
  <2>1. \A i \in D : g[i] = IF <<i, m>> \in R /\ m \in T THEN len[entry[i]] ELSE 0
    OBVIOUS
  <2>2. \A i \in D : g[i] \in Nat
    BY <2>1
  <2>3. CASE m \in T
    <3>1. \A i \in D : g[i] = o[i]
      BY <2>1, <2>3
    <3>2. SumFunctionOnSet(o, D) = SumFunctionOnSet(len, Owned(D, R, entry, m))
      BY OwnedCount
    <3>3. c[m] = SumFunctionOnSet(len, Owned(D, R, entry, m))
      BY <2>3
    <3> HIDE DEF g, o
    <3>4. SumFunctionOnSet(g, D) = SumFunctionOnSet(o, D) /\ SumFunctionOnSet(g, D) \in Nat
      BY <2>2, <3>1, SumEqual, SumUnfolds
    <3> QED
      BY <3>2, <3>3, <3>4 DEF g
  <2>4. CASE m \notin T
    <3>1. (\A i \in D : g[i] = 0) /\ c[m] = 0
      BY <2>1, <2>4
    <3> HIDE DEF g
    <3>2. SumFunctionOnSet(g, D) = 0
      BY <3>1, SumOfZeros
    <3> QED
      BY <3>1, <3>2 DEF g
  <2> QED
    BY <2>3, <2>4
<1>3. \A i \in D, m \in M : h[i][m] \in Nat
  OBVIOUS
<1> HIDE DEF h
<1>4. SumFunctionOnSet([i \in D |-> SumFunctionOnSet(h[i], M)], D)
      = SumFunctionOnSet([m \in M |-> SumFunctionOnSet([i \in D |-> h[i][m]], D)], M)
  BY ONLY <1>3, IsFiniteSet(D), IsFiniteSet(M), SumBothWays
<1>5. SumFunctionOnSet([i \in D |-> SumFunctionOnSet(h[i], M)], D) = SumFunctionOnSet(f, D)
  <2> DEFINE g == [i \in D |-> SumFunctionOnSet(h[i], M)]
  <2>1. \A i \in D : g[i] \in Nat /\ g[i] = f[i]
    BY <1>1
  <2> HIDE DEF g
  <2>2. SumFunctionOnSet(g, D) = SumFunctionOnSet(f, D)
    BY <2>1, SumEqual
  <2> QED
    BY <2>2 DEF g
<1>6. SumFunctionOnSet([m \in M |-> SumFunctionOnSet([i \in D |-> h[i][m]], D)], M) = SumFunctionOnSet(c, M)
  <2> DEFINE g == [m \in M |-> SumFunctionOnSet([i \in D |-> h[i][m]], D)]
  <2>1. \A m \in M : g[m] \in Nat /\ g[m] = c[m]
    BY <1>2
  <2> HIDE DEF g
  <2>2. SumFunctionOnSet(g, M) = SumFunctionOnSet(c, M)
    BY <2>1, SumEqual
  <2> QED
    BY <2>2 DEF g
<1> QED
  BY <1>4, <1>5, <1>6

(* The same for a stream that is made of one part for every entry.         *)
Streamed(entries, M, R, T, parts, t) ==
  /\ IsSequence(entries) /\ IsFiniteSet(M)
  /\ \A i \in DOMAIN entries : IsSequence(entries[i].records)
  /\ \A i, j \in DOMAIN entries : entries[i] = entries[j] => i = j
  /\ \A i \in DOMAIN entries : \A m, n \in M : <<i, m>> \in R /\ <<i, n>> \in R => m = n
  /\ Nested(parts) /\ DOMAIN parts = DOMAIN entries
  /\ \A i \in DOMAIN entries :
       HitCount(parts[i], t) = IF \E m \in M : <<i, m>> \in R /\ m \in T THEN Len(entries[i].records) ELSE 0

LEMMA PartCounts ==
  ASSUME NEW entries, NEW M, NEW R, NEW T, NEW parts, NEW t, Streamed(entries, M, R, T, parts, t)
  PROVE  HitCount(FlattenSeq(parts), t)
         = SumFunctionOnSet([m \in M |-> IF m \in T THEN RecordsIn(Owned(DOMAIN entries, R, entries, m)) ELSE 0], M)
<1> USE DEF Streamed
<1> DEFINE D == DOMAIN entries
           len == [e \in ToSet(entries) |-> Len(e.records)]
           f == [i \in D |-> HitCount(parts[i], t)]
           g == [i \in D |-> IF \E m \in M : <<i, m>> \in R /\ m \in T THEN len[entries[i]] ELSE 0]
           a == [m \in M |-> IF m \in T THEN SumFunctionOnSet(len, Owned(D, R, entries, m)) ELSE 0]
           b == [m \in M |-> IF m \in T THEN RecordsIn(Owned(D, R, entries, m)) ELSE 0]
<1>1. IsFiniteSet(D) /\ \A i \in D : entries[i] \in ToSet(entries)
  BY Positions
<1>2. \A i \in D : len[entries[i]] = Len(entries[i].records) /\ len[entries[i]] \in Nat
  BY <1>1, Positions
<1>3. HitCount(FlattenSeq(parts), t) = SumFunctionOnSet(f, D)
  BY FlattenHits
<1>4. SumFunctionOnSet(f, D) = SumFunctionOnSet(g, D)
  <2>1. \A i \in D : f[i] \in Nat /\ f[i] = g[i]
    BY <1>2
  <2> HIDE DEF f, g, D
  <2> QED
    BY <1>1, <2>1, SumEqual
<1> HIDE DEF len
<1>5. SumFunctionOnSet(g, D) = SumFunctionOnSet(a, M)
  <2>1. /\ \A i \in D : \A m, n \in M : <<i, m>> \in R /\ <<i, n>> \in R => m = n
        /\ \A i, j \in D : entries[i] = entries[j] => i = j
        /\ \A i \in D : len[entries[i]] \in Nat
    BY <1>2
  <2>2. \A i \in D : g[i] = IF \E m \in M : <<i, m>> \in R /\ m \in T THEN len[entries[i]] ELSE 0
    OBVIOUS
  <2>3. \A m \in M : a[m] = IF m \in T THEN SumFunctionOnSet(len, Owned(D, R, entries, m)) ELSE 0
    OBVIOUS
  <2> HIDE DEF D, g, a
  <2> QED
    <3>1. Splits(D, M, R, T, entries, len, g, a)
      BY <1>1, <2>1, <2>2, <2>3 DEF Splits
    <3> QED
      BY ONLY <3>1, CountByMapping
<1>6. ASSUME NEW m \in M PROVE a[m] \in Nat /\ a[m] = b[m]
  <2> DEFINE E == Owned(D, R, entries, m)
             own == [ns \in E |-> Len(ns.records)]
  <2>1. IsFiniteSet(E)
    BY <1>1, <1>2, OwnedCount
  <2>2. \A e \in E : own[e] \in Nat /\ own[e] = len[e]
    <3>1. \A e \in E : \E i \in D : e = entries[i]
      BY DEF Owned
    <3> HIDE DEF E
    <3> QED
      BY <1>2, <3>1
  <2>3. RecordsIn(E) = SumFunctionOnSet(own, E)
    BY DEF RecordsIn, SumFunction
  <2> HIDE DEF E, own
  <2>4. SumFunctionOnSet(own, E) = SumFunctionOnSet(len, E) /\ SumFunctionOnSet(own, E) \in Nat
    BY <2>1, <2>2, SumEqual, SumUnfolds
  <2> QED
    BY <2>3, <2>4 DEF E
<1>7. SumFunctionOnSet(a, M) = SumFunctionOnSet(b, M)
  <2> HIDE DEF a, b
  <2> QED
    BY <1>6, SumEqual
<1> QED
  BY <1>3, <1>4, <1>5, <1>7

-----------------------------------------------------------------------------
(***************************************************************************)
(* sortedKeys: every key comes once, in order.                             *)
(***************************************************************************)
Ascends(s, S) ==
  /\ s \in [1..Cardinality(S) -> S]
  /\ \A i, j \in 1..Cardinality(S) : i < j => s[i] < s[j]

LEMMA SortedExists ==
  ASSUME NEW S \in SUBSET Nat, IsFiniteSet(S)
  PROVE  \E s : Ascends(s, S)
<1> DEFINE Bad == {T \in SUBSET S : ~\E s : Ascends(s, T)}
<1> SUFFICES ASSUME Bad # {} PROVE FALSE
  OBVIOUS
<1>1. PICK T \in Bad : \A u \in Bad : Cardinality(T) <= Cardinality(u)
  <2>1. \A u \in Bad : IsFiniteSet(u)
    BY FS_Subset
  <2> HIDE DEF Bad
  <2> QED
    BY <2>1, SmallestSet
<1>2. T \in SUBSET S /\ ~\E s : Ascends(s, T)
  BY <1>1
<1>3. IsFiniteSet(T) /\ T \in SUBSET Nat /\ Cardinality(T) \in Nat
  BY <1>2, FS_Subset, FS_CardinalityType
<1>4. T # {}
  <2> SUFFICES ASSUME T = {} PROVE FALSE
    OBVIOUS
  <2> DEFINE e == [i \in 1..0 |-> 0]
  <2>1. Cardinality(T) = 0
    BY FS_EmptySet
  <2>2. e \in [1..0 -> T]
    OBVIOUS
  <2>3. Ascends(e, T)
    BY <2>1, <2>2 DEF Ascends
  <2> QED
    BY <1>2, <2>3
<1>5. PICK z \in T : \A y \in T : z <= y
  BY <1>3, <1>4, SmallestNat
<1> DEFINE U == T \ {z}
           n == Cardinality(T)
<1>6. IsFiniteSet(U) /\ Cardinality(U) = n - 1 /\ n \in Nat
  BY <1>3, FS_RemoveElement
<1>7. U \in SUBSET S /\ U \notin Bad
  <2>1. U \in SUBSET S
    BY <1>2
  <2> HIDE DEF Bad, U
  <2> QED
    BY <1>1, <1>6, <2>1
<1>8. PICK e : Ascends(e, U)
  BY <1>7
<1> DEFINE s == [i \in 1..n |-> IF i = 1 THEN z ELSE e[i - 1]]
<1>9. \A i \in 1..n : i # 1 => i - 1 \in 1..Cardinality(U) /\ e[i - 1] \in U
  <2> SUFFICES ASSUME NEW i \in 1..n, i # 1 PROVE i - 1 \in 1..Cardinality(U) /\ e[i - 1] \in U
    OBVIOUS
  <2>1. i - 1 \in 1..(n - 1)
    BY <1>6
  <2> HIDE DEF U
  <2> QED
    BY <1>6, <1>8, <2>1 DEF Ascends
<1>10. s \in [1..n -> T]
  BY <1>9
<1>11. ASSUME NEW i \in 1..n, NEW j \in 1..n, i < j PROVE s[i] < s[j]
  <2>1. j # 1 /\ s[j] = e[j - 1] /\ e[j - 1] \in U /\ j - 1 \in 1..Cardinality(U)
    BY <1>6, <1>9, <1>11
  <2>2. CASE i = 1
    <3>1. s[i] = z /\ z \in Nat /\ e[j - 1] \in Nat /\ z <= e[j - 1] /\ z # e[j - 1]
      BY <1>3, <1>5, <2>1, <2>2
    <3> QED
      BY <2>1, <3>1
  <2>3. CASE i # 1
    <3>1. s[i] = e[i - 1] /\ i - 1 \in 1..Cardinality(U) /\ i - 1 < j - 1
      BY <1>6, <1>9, <1>11, <2>3
    <3> QED
      BY <1>8, <2>1, <3>1 DEF Ascends
  <2> QED
    BY <2>2, <2>3
<1>12. Ascends(s, T)
  BY <1>10, <1>11 DEF Ascends
<1> QED
  BY <1>2, <1>12

LEMMA KeysSorted ==
  ASSUME NEW S \in SUBSET Nat, IsFiniteSet(S)
  PROVE  LET s == SortedKeys(S)
         IN  /\ DOMAIN s = 1..Cardinality(S) /\ Cardinality(S) \in Nat /\ IsSequence(s)
             /\ \A i \in DOMAIN s : s[i] \in S
             /\ \A i, j \in DOMAIN s : s[i] = s[j] => i = j
             /\ \A c \in S : \E i \in DOMAIN s : s[i] = c
<1> DEFINE s == SortedKeys(S)
           n == Cardinality(S)
<1>1. Ascends(s, S)
  <2>1. s = CHOOSE t \in [1..n -> S] : \A i, j \in 1..n : i < j => t[i] < t[j]
    BY DEF SortedKeys
  <2> HIDE DEF s
  <2> QED
    BY <2>1, SortedExists DEF Ascends
<1>2. n \in Nat
  BY FS_CardinalityType
<1> HIDE DEF s
<1>3. s \in [1..n -> S]
  BY <1>1 DEF Ascends
<1>4. \A i, j \in 1..n : s[i] = s[j] => i = j
  <2> SUFFICES ASSUME NEW i \in 1..n, NEW j \in 1..n, s[i] = s[j], i # j PROVE FALSE
    OBVIOUS
  <2>1. i < j \/ j < i
    BY <1>2
  <2>2. s[i] \in Nat /\ (s[i] < s[j] \/ s[j] < s[i])
    BY <1>1, <1>3, <2>1 DEF Ascends
  <2> QED
    BY <2>2
<1>5. \A c \in S : \E i \in 1..n : s[i] = c
  <2> SUFFICES ASSUME NEW c \in S, \A i \in 1..n : s[i] # c PROVE FALSE
    OBVIOUS
  <2>1. IsFiniteSet(1..n) /\ Cardinality(1..n) = n
    BY <1>2, FS_Interval
  <2>2. IsFiniteSet(S \ {c}) /\ Cardinality(S \ {c}) = n - 1
    BY FS_RemoveElement
  <2>3. s \in [1..n -> S \ {c}]
    BY <1>3
  <2>4. Cardinality(S \ {c}) < Cardinality(1..n)
    BY <1>2, <2>1, <2>2
  <2>5. \E i, j \in 1..n : i # j /\ s[i] = s[j]
    <3> DEFINE D == 1..n
               R == S \ {c}
    <3>1. IsFiniteSet(D) /\ IsFiniteSet(R) /\ Cardinality(R) < Cardinality(D) /\ s \in [D -> R]
      BY <2>1, <2>2, <2>3, <2>4
    <3> HIDE DEF D, R
    <3>2. \E i, j \in D : i # j /\ s[i] = s[j]
      BY ONLY <3>1, FS_PigeonHole
    <3> QED
      BY <3>2 DEF D
  <2> QED
    BY <1>4, <2>5
<1>6. IsSequence(s)
  <2>1. s \in Seq(S)
    BY <1>2, <1>3
  <2> QED
    BY <2>1, SequenceOf
<1> QED
  BY <1>2, <1>3, <1>4, <1>5, <1>6 DEF s
-----------------------------------------------------------------------------
(***************************************************************************)
(* The parts of the walk.                                                  *)
(***************************************************************************)
LEMMA YieldsAre ==
  ASSUME NEW c, NEW target, NEW records, IsSequence(records)
  PROVE  /\ IsSequence(Yields(c, target, records))
         /\ ToSet(Yields(c, target, records)) = {RecordItem(c, target, r) : r \in ToSet(records)}
         /\ \A t : HitCount(Yields(c, target, records), t) = IF target = t THEN Len(records) ELSE 0
<1> DEFINE y == Yields(c, target, records)
           S == {RecordItem(c, target, r) : r \in ToSet(records)}
<1>1. DOMAIN records = 1..Len(records) /\ Len(records) \in Nat /\ IsFiniteSet(DOMAIN records)
  BY Positions
<1>2. y = [i \in DOMAIN records |-> RecordItem(c, target, records[i])]
  BY DEF Yields
<1>3. \A i \in DOMAIN records : y[i] = RecordItem(c, target, records[i]) /\ records[i] \in ToSet(records)
  BY <1>2, Positions
<1>4. ToSet(y) = S
  <2> HIDE DEF y
  <2> QED
    BY <1>2, <1>3 DEF ToSet
<1>5. y \in Seq(S)
  <2>1. \A i \in 1..Len(records) : y[i] \in S
    BY <1>1, <1>3
  <2> HIDE DEF S, y
  <2>2. y = [i \in 1..Len(records) |-> y[i]]
    BY <1>1, <1>2
  <2> QED
    BY <1>1, <2>1, <2>2
<1> HIDE DEF y
<1>6. ASSUME NEW t PROVE HitCount(y, t) = IF target = t THEN Len(records) ELSE 0
  <2>1. DOMAIN y = 1..Len(records)
    BY <1>1, <1>2
  <2>2. \A i \in DOMAIN y : y[i].kind = "record" /\ y[i].target = target
    BY <1>2, <1>3 DEF RecordItem
  <2>3. Hits(y, t) = IF target = t THEN 1..Len(records) ELSE {}
    BY <2>1, <2>2 DEF Hits
  <2> QED
    BY <1>1, <2>3, FS_Interval, FS_EmptySet DEF HitCount
<1> QED
  BY <1>4, <1>5, <1>6, SequenceOf DEF y

LEMMA EmptyPart ==
  /\ IsSequence(<<>>) /\ ToSet(<<>>) = {}
  /\ \A t : HitCount(<<>>, t) = 0
<1>1. IsSequence(<<>>) /\ ToSet(<<>>) = {}
  BY DEF IsSequence, ToSet
<1>2. \A t : Hits(<<>>, t) = {}
  BY DEF Hits
<1> QED
  BY <1>1, <1>2, FS_EmptySet DEF HitCount

LEMMA EndPart ==
  ASSUME NEW c
  PROVE  /\ IsSequence(<<EndItem(c)>>) /\ ToSet(<<EndItem(c)>>) = {EndItem(c)}
         /\ \A t : HitCount(<<EndItem(c)>>, t) = 0
<1>1. IsSequence(<<EndItem(c)>>) /\ ToSet(<<EndItem(c)>>) = {EndItem(c)}
  <2> DEFINE e == EndItem(c)
  <2> HIDE DEF e
  <2>1. ToSet(<<e>>) = {e}
    BY DEF ToSet
  <2> QED
    BY <2>1 DEF IsSequence, e
<1>2. \A t : Hits(<<EndItem(c)>>, t) = {}
  BY DEF Hits, EndItem
<1> QED
  BY <1>1, <1>2, FS_EmptySet DEF HitCount

-----------------------------------------------------------------------------
(***************************************************************************)
(* A part of the walk: entries of which each belongs (R) to at most one    *)
(* mapping, whose records go where that mapping sends them (dest).         *)
(***************************************************************************)
Parts(entries, M, R, c, dest, parts) ==
  /\ IsSequence(entries) /\ IsFiniteSet(M)
  /\ \A i \in DOMAIN entries : IsSequence(entries[i].records)
  /\ \A i, j \in DOMAIN entries : entries[i] = entries[j] => i = j
  /\ \A i \in DOMAIN entries : \A m, n \in M : <<i, m>> \in R /\ <<i, n>> \in R => m = n
  /\ parts = [i \in DOMAIN entries |-> parts[i]]
  /\ \A i \in DOMAIN entries :
       \/ \E m \in M : <<i, m>> \in R /\ parts[i] = Yields(c, dest[m], entries[i].records)
       \/ parts[i] = <<>> /\ \A m \in M : <<i, m>> \notin R

(* What such a part holds, and how many records of each target.            *)
Holds(entries, M, R, c, dest, parts) ==
  /\ IsSequence(FlattenSeq(parts))
  /\ \A x : x \in ToSet(FlattenSeq(parts)) <=>
       \E m \in M : \E ns \in Owned(DOMAIN entries, R, entries, m) : \E r \in ToSet(ns.records) :
         x = RecordItem(c, dest[m], r)
  /\ \A t : HitCount(FlattenSeq(parts), t)
       = SumFunctionOnSet([m \in M |-> IF m \in {n \in M : dest[n] = t}
                                       THEN RecordsIn(Owned(DOMAIN entries, R, entries, m)) ELSE 0], M)

LEMMA PartsAre ==
  ASSUME NEW entries, NEW M, NEW R, NEW c, NEW dest, NEW parts, Parts(entries, M, R, c, dest, parts)
  PROVE  Holds(entries, M, R, c, dest, parts)
<1> USE DEF Parts
<1> DEFINE D == DOMAIN entries
<1>1. D = 1..Len(entries) /\ Len(entries) \in Nat
  BY Positions
<1>2. ASSUME NEW i \in D
      PROVE  /\ IsSequence(parts[i])
             /\ \A x : x \in ToSet(parts[i]) <=>
                  \E m \in M : <<i, m>> \in R /\ \E r \in ToSet(entries[i].records) : x = RecordItem(c, dest[m], r)
             /\ \A t : HitCount(parts[i], t)
                  = IF \E m \in M : <<i, m>> \in R /\ m \in {n \in M : dest[n] = t}
                    THEN Len(entries[i].records) ELSE 0
  <2>1. CASE \E m \in M : <<i, m>> \in R /\ parts[i] = Yields(c, dest[m], entries[i].records)
    <3>1. PICK m \in M : <<i, m>> \in R /\ parts[i] = Yields(c, dest[m], entries[i].records)
      BY <2>1
    <3>2. IsSequence(entries[i].records) /\ \A n \in M : <<i, n>> \in R => n = m
      BY <3>1
    <3>3. /\ IsSequence(parts[i])
          /\ ToSet(parts[i]) = {RecordItem(c, dest[m], r) : r \in ToSet(entries[i].records)}
          /\ \A t : HitCount(parts[i], t) = IF dest[m] = t THEN Len(entries[i].records) ELSE 0
      BY <3>1, <3>2, YieldsAre
    <3> QED
      BY <3>1, <3>2, <3>3
  <2>2. CASE parts[i] = <<>> /\ \A m \in M : <<i, m>> \notin R
    BY <2>2, EmptyPart
  <2> QED
    BY <2>1, <2>2
<1>3. DOMAIN parts = D /\ Nested(parts)
  <2>1. DOMAIN parts = D
    OBVIOUS
  <2>2. IsSequence(parts)
    <3>1. \A i \in 1..Len(entries) : parts[i] \in ToSet(parts)
      BY <1>1, <2>1 DEF ToSet
    <3>2. parts = [i \in 1..Len(entries) |-> parts[i]]
      BY <1>1
    <3>3. parts \in Seq(ToSet(parts))
      BY <1>1, <3>1, <3>2
    <3> QED
      BY <3>3 DEF IsSequence
  <2> QED
    BY <1>2, <2>1, <2>2 DEF Nested
<1>4. IsSequence(FlattenSeq(parts)) /\ ToSet(FlattenSeq(parts)) = UNION {ToSet(parts[i]) : i \in D}
  BY <1>3, FlattenContents
<1>5. ASSUME NEW x
      PROVE  x \in ToSet(FlattenSeq(parts)) <=>
              \E m \in M : \E ns \in Owned(D, R, entries, m) : \E r \in ToSet(ns.records) :
                x = RecordItem(c, dest[m], r)
  <2> HIDE DEF D, Parts
  <2>1. x \in ToSet(FlattenSeq(parts)) <=> \E i \in D : x \in ToSet(parts[i])
    BY <1>4
  <2>2. ASSUME NEW i \in D, x \in ToSet(parts[i])
        PROVE  \E m \in M : \E ns \in Owned(D, R, entries, m) : \E r \in ToSet(ns.records) :
                 x = RecordItem(c, dest[m], r)
    <3>1. PICK m \in M : <<i, m>> \in R /\ \E r \in ToSet(entries[i].records) : x = RecordItem(c, dest[m], r)
      <4>1. \A y : y \in ToSet(parts[i]) <=>
              \E m \in M : <<i, m>> \in R /\ \E r \in ToSet(entries[i].records) : y = RecordItem(c, dest[m], r)
        BY <1>2
      <4> QED
        BY <2>2, <4>1, Zenon
    <3>2. entries[i] \in Owned(D, R, entries, m)
      BY <3>1 DEF Owned
    <3> QED
      BY <3>1, <3>2
  <2>3. ASSUME NEW m \in M, NEW ns \in Owned(D, R, entries, m), NEW r \in ToSet(ns.records),
               x = RecordItem(c, dest[m], r)
        PROVE  \E i \in D : x \in ToSet(parts[i])
    <3>1. PICK i \in D : <<i, m>> \in R /\ ns = entries[i]
      BY DEF Owned
    <3> QED
      BY <1>2, <2>3, <3>1
  <2> QED
    BY <2>1, <2>2, <2>3
<1>6. ASSUME NEW t
      PROVE  HitCount(FlattenSeq(parts), t)
              = SumFunctionOnSet([m \in M |-> IF m \in {n \in M : dest[n] = t}
                                              THEN RecordsIn(Owned(D, R, entries, m)) ELSE 0], M)
  <2> DEFINE T == {n \in M : dest[n] = t}
  <2>1. \A i \in D : HitCount(parts[i], t)
                  = IF \E m \in M : <<i, m>> \in R /\ m \in T THEN Len(entries[i].records) ELSE 0
    BY <1>2
  <2> HIDE DEF T
  <2>2. HitCount(FlattenSeq(parts), t)
        = SumFunctionOnSet([m \in M |-> IF m \in T THEN RecordsIn(Owned(D, R, entries, m)) ELSE 0], M)
    <3>1. Streamed(entries, M, R, T, parts, t)
      BY <1>3, <2>1 DEF Streamed
    <3> QED
      BY ONLY <3>1, PartCounts DEF D
  <2> QED
    BY <2>2 DEF T
<1> QED
  BY <1>4, <1>5, <1>6 DEF Holds

(***************************************************************************)
(* What readMappings and mappingCounts have made sure of before the walk.  *)
(***************************************************************************)
Sound(M, s) ==
  /\ IsFiniteSet(M)
  /\ \A m, n \in M : m.channel = n.channel /\ m.namespace = n.namespace => m = n
  /\ \A m \in M : m.channel \in DOMAIN s
  /\ DOMAIN s \subseteq Nat /\ IsFiniteSet(DOMAIN s)
  /\ \A c \in DOMAIN s : WellFormed(s[c])

(* What a mapping adds to the count of a target.                           *)
PublicShare(m, s, t) == IF m.target = t THEN RecordsIn(PublicOf(m, s)) ELSE 0
HashShare(m, s, t) == IF HashTarget(m) = t THEN RecordsIn(HashesOf(m, s)) ELSE 0

LEMMA NoRecords == RecordsIn({}) = 0
BY FS_EmptySet, SumUnfolds DEF RecordsIn, SumFunction

LEMMA RecordsCounted ==
  ASSUME NEW N, IsFiniteSet(N), \A ns \in N : IsSequence(ns.records)
  PROVE  RecordsIn(N) \in Nat
<1> DEFINE f == [ns \in N |-> Len(ns.records)]
<1>1. \A ns \in N : f[ns] \in Nat
  BY Positions
<1>2. RecordsIn(N) = SumFunctionOnSet(f, N)
  BY DEF RecordsIn, SumFunction
<1> HIDE DEF f
<1> QED
  BY <1>1, <1>2, SumUnfolds

LEMMA EntriesFinite ==
  ASSUME NEW e, IsSequence(e)
  PROVE  IsFiniteSet(ToSet(e))
<1>1. IsFiniteSet(DOMAIN e) /\ \A i \in DOMAIN e : e[i] \in ToSet(e)
  BY Positions
<1>2. e \in [DOMAIN e -> ToSet(e)]
  BY <1>1 DEF IsSequence
<1>3. e \in Surjection(DOMAIN e, ToSet(e))
  BY <1>2 DEF Surjection, ToSet
<1> QED
  BY <1>1, <1>3, FS_Surjection

LEMMA SharesAreNat ==
  ASSUME NEW M, NEW s, Sound(M, s), NEW m \in M, NEW t
  PROVE  PublicShare(m, s, t) \in Nat /\ HashShare(m, s, t) \in Nat
<1>1. WellFormed(s[m.channel])
  BY DEF Sound
<1>2. IsFiniteSet(PublicOf(m, s)) /\ IsFiniteSet(HashesOf(m, s))
  <2>1. IsFiniteSet(ToSet(s[m.channel].public)) /\ IsFiniteSet(ToSet(s[m.channel].hashes))
    BY <1>1, EntriesFinite DEF WellFormed
  <2>2. PublicOf(m, s) \in SUBSET ToSet(s[m.channel].public) /\ HashesOf(m, s) \in SUBSET ToSet(s[m.channel].hashes)
    BY DEF PublicOf, HashesOf
  <2> QED
    BY <2>1, <2>2, FS_Subset
<1>3. \A ns \in PublicOf(m, s) \union HashesOf(m, s) : IsSequence(ns.records)
  BY <1>1 DEF WellFormed, PublicOf, HashesOf
<1> QED
  BY <1>2, <1>3, RecordsCounted DEF PublicShare, HashShare

LEMMA PublicPart ==
  ASSUME NEW M, NEW s, Sound(M, s), NEW c \in DOMAIN s
  PROVE  LET W == WalkPublicRecords(M, c, s[c])
         IN  /\ IsSequence(W)
             /\ \A x : x \in ToSet(W) <=>
                  \E m \in M : m.channel = c /\ \E ns \in PublicOf(m, s) : \E r \in ToSet(ns.records) :
                    x = RecordItem(c, m.target, r)
             /\ \A t : HitCount(W, t)
                  = SumFunctionOnSet([m \in M |-> IF m.channel = c THEN PublicShare(m, s, t) ELSE 0], M)
<1> DEFINE entries == s[c].public
           D == DOMAIN entries
           R == {p \in D \X M : p[2].channel = c /\ p[2].namespace = entries[p[1]].name}
           dest == [m \in M |-> m.target]
           parts == [i \in D |-> LET ns == entries[i]
                                 IN IF Selected(M, c, ns.name)
                                    THEN Yields(c, MappingFor(M, c, ns.name).target, ns.records) ELSE <<>>]
<1>1. WalkPublicRecords(M, c, s[c]) = FlattenSeq(parts)
  BY DEF WalkPublicRecords
<1>2. IsSequence(entries) /\ (\A ns \in ToSet(entries) : IsSequence(ns.records))
      /\ \A i, j \in D : entries[i].name = entries[j].name => i = j
  BY DEF Sound, WellFormed
<1>3. \A i \in D : entries[i] \in ToSet(entries)
  BY <1>2, Positions
<1>4. \A i \in D, m \in M : <<i, m>> \in R <=> m.channel = c /\ m.namespace = entries[i].name
  OBVIOUS
<1>5. ASSUME NEW i \in D
      PROVE  \/ \E m \in M : <<i, m>> \in R /\ parts[i] = Yields(c, dest[m], entries[i].records)
             \/ parts[i] = <<>> /\ \A m \in M : <<i, m>> \notin R
  <2>1. CASE Selected(M, c, entries[i].name)
    <3>1. PICK m \in M : m.channel = c /\ m.namespace = entries[i].name
      BY <2>1 DEF Selected
    <3>2. MappingFor(M, c, entries[i].name) = m
      BY <3>1 DEF MappingFor, Sound
    <3> QED
      BY <1>4, <2>1, <3>1, <3>2
  <2>2. CASE ~Selected(M, c, entries[i].name)
    BY <1>4, <2>2 DEF Selected
  <2> QED
    BY <2>1, <2>2
<1>6. parts = [i \in D |-> parts[i]]
  OBVIOUS
<1>7. \A m \in M : dest[m] = m.target
  OBVIOUS
<1>8. \A m \in M : Owned(D, R, entries, m) = IF m.channel = c THEN PublicOf(m, s) ELSE {}
  <2> SUFFICES ASSUME NEW m \in M
               PROVE  Owned(D, R, entries, m) = IF m.channel = c THEN PublicOf(m, s) ELSE {}
    OBVIOUS
  <2>1. m.channel = c => PublicOf(m, s) = {ns \in ToSet(entries) : ns.name = m.namespace}
    BY DEF PublicOf
  <2>2. ToSet(entries) = {entries[i] : i \in D}
    BY DEF ToSet
  <2> HIDE DEF D, entries, R
  <2>3. CASE m.channel = c
    <3>1. \A i \in D : <<i, m>> \in R <=> m.namespace = entries[i].name
      BY <1>4, <2>3
    <3>2. Owned(D, R, entries, m) \subseteq PublicOf(m, s)
      BY <2>1, <2>2, <2>3, <3>1 DEF Owned
    <3>3. PublicOf(m, s) \subseteq Owned(D, R, entries, m)
      BY <2>1, <2>2, <2>3, <3>1 DEF Owned
    <3> QED
      BY <2>3, <3>2, <3>3
  <2>4. CASE m.channel # c
    <3>1. \A i \in D : <<i, m>> \notin R
      BY <1>4, <2>4
    <3> QED
      BY <2>4, <3>1 DEF Owned
  <2> QED
    BY <2>3, <2>4
<1> HIDE DEF entries, D, R, dest, parts
<1>9. Parts(entries, M, R, c, dest, parts)
  BY <1>2, <1>3, <1>4, <1>5, <1>6 DEF Parts, Sound, D
<1>10. /\ IsSequence(FlattenSeq(parts))
       /\ \A x : x \in ToSet(FlattenSeq(parts)) <=>
              \E m \in M : \E ns \in Owned(D, R, entries, m) : \E r \in ToSet(ns.records) :
                x = RecordItem(c, dest[m], r)
       /\ \A t : HitCount(FlattenSeq(parts), t)
              = SumFunctionOnSet([m \in M |-> IF m \in {n \in M : dest[n] = t}
                                              THEN RecordsIn(Owned(D, R, entries, m)) ELSE 0], M)
  <2>1. Holds(entries, M, R, c, dest, parts)
    BY ONLY <1>9, PartsAre
  <2> QED
    BY <2>1 DEF D, Holds
<1>11. ASSUME NEW t
       PROVE  HitCount(FlattenSeq(parts), t)
              = SumFunctionOnSet([m \in M |-> IF m.channel = c THEN PublicShare(m, s, t) ELSE 0], M)
  <2> DEFINE f == [m \in M |-> IF m \in {n \in M : dest[n] = t} THEN RecordsIn(Owned(D, R, entries, m)) ELSE 0]
             g == [m \in M |-> IF m.channel = c THEN PublicShare(m, s, t) ELSE 0]
  <2>1. \A m \in M : g[m] \in Nat /\ g[m] = f[m]
    BY <1>7, <1>8, NoRecords, SharesAreNat DEF PublicShare
  <2>2. HitCount(FlattenSeq(parts), t) = SumFunctionOnSet(f, M)
    BY <1>10
  <2> HIDE DEF f, g
  <2>3. SumFunctionOnSet(g, M) = SumFunctionOnSet(f, M)
    BY <2>1, SumEqual DEF Sound
  <2> QED
    BY <2>2, <2>3 DEF g
<1>12. ASSUME NEW x
       PROVE  x \in ToSet(FlattenSeq(parts)) <=>
                \E m \in M : m.channel = c /\ \E ns \in PublicOf(m, s) : \E r \in ToSet(ns.records) :
                  x = RecordItem(c, m.target, r)
  BY <1>7, <1>8, <1>10
<1> QED
  BY <1>1, <1>10, <1>11, <1>12

LEMMA HashPart ==
  ASSUME NEW M, NEW s, Sound(M, s), NEW c \in DOMAIN s
  PROVE  LET W == WalkPrivateHashRecords(M, c, s[c])
         IN  /\ IsSequence(W)
             /\ \A x : x \in ToSet(W) <=>
                  \E m \in M : m.channel = c /\ \E ns \in HashesOf(m, s) : \E r \in ToSet(ns.records) :
                    x = RecordItem(c, HashTarget(m), r)
             /\ \A t : HitCount(W, t)
                  = SumFunctionOnSet([m \in M |-> IF m.channel = c THEN HashShare(m, s, t) ELSE 0], M)
<1> DEFINE entries == s[c].hashes
           D == DOMAIN entries
           R == {p \in D \X M : p[2].channel = c /\ p[2].namespace = entries[p[1]].namespace}
           dest == [m \in M |-> HashTarget(m)]
           parts == [i \in D |-> LET ns == entries[i]
                                 IN IF Selected(M, c, ns.namespace)
                                    THEN Yields(c, HashTarget(MappingFor(M, c, ns.namespace)), ns.records) ELSE <<>>]
<1>1. WalkPrivateHashRecords(M, c, s[c]) = FlattenSeq(parts)
  BY DEF WalkPrivateHashRecords
<1>2. IsSequence(entries) /\ (\A ns \in ToSet(entries) : IsSequence(ns.records))
      /\ \A i, j \in D : entries[i] = entries[j] => i = j
  BY DEF Sound, WellFormed
<1>3. \A i \in D : entries[i] \in ToSet(entries)
  BY <1>2, Positions
<1>4. \A i \in D, m \in M : <<i, m>> \in R <=> m.channel = c /\ m.namespace = entries[i].namespace
  OBVIOUS
<1>5. ASSUME NEW i \in D
      PROVE  \/ \E m \in M : <<i, m>> \in R /\ parts[i] = Yields(c, dest[m], entries[i].records)
             \/ parts[i] = <<>> /\ \A m \in M : <<i, m>> \notin R
  <2>1. CASE Selected(M, c, entries[i].namespace)
    <3>1. PICK m \in M : m.channel = c /\ m.namespace = entries[i].namespace
      BY <2>1 DEF Selected
    <3>2. MappingFor(M, c, entries[i].namespace) = m
      BY <3>1 DEF MappingFor, Sound
    <3> QED
      BY <1>4, <2>1, <3>1, <3>2
  <2>2. CASE ~Selected(M, c, entries[i].namespace)
    BY <1>4, <2>2 DEF Selected
  <2> QED
    BY <2>1, <2>2
<1>6. parts = [i \in D |-> parts[i]]
  OBVIOUS
<1>7. \A m \in M : dest[m] = HashTarget(m)
  OBVIOUS
<1>8. \A m \in M : Owned(D, R, entries, m) = IF m.channel = c THEN HashesOf(m, s) ELSE {}
  <2> SUFFICES ASSUME NEW m \in M
               PROVE  Owned(D, R, entries, m) = IF m.channel = c THEN HashesOf(m, s) ELSE {}
    OBVIOUS
  <2>1. m.channel = c => HashesOf(m, s) = {ns \in ToSet(entries) : ns.namespace = m.namespace}
    BY DEF HashesOf
  <2>2. ToSet(entries) = {entries[i] : i \in D}
    BY DEF ToSet
  <2> HIDE DEF D, entries, R
  <2>3. CASE m.channel = c
    <3>1. \A i \in D : <<i, m>> \in R <=> m.namespace = entries[i].namespace
      BY <1>4, <2>3
    <3>2. Owned(D, R, entries, m) \subseteq HashesOf(m, s)
      BY <2>1, <2>2, <2>3, <3>1 DEF Owned
    <3>3. HashesOf(m, s) \subseteq Owned(D, R, entries, m)
      BY <2>1, <2>2, <2>3, <3>1 DEF Owned
    <3> QED
      BY <2>3, <3>2, <3>3
  <2>4. CASE m.channel # c
    <3>1. \A i \in D : <<i, m>> \notin R
      BY <1>4, <2>4
    <3> QED
      BY <2>4, <3>1 DEF Owned
  <2> QED
    BY <2>3, <2>4
<1> HIDE DEF entries, D, R, dest, parts
<1>9. Parts(entries, M, R, c, dest, parts)
  BY <1>2, <1>3, <1>4, <1>5, <1>6 DEF Parts, Sound, D
<1>10. /\ IsSequence(FlattenSeq(parts))
       /\ \A x : x \in ToSet(FlattenSeq(parts)) <=>
              \E m \in M : \E ns \in Owned(D, R, entries, m) : \E r \in ToSet(ns.records) :
                x = RecordItem(c, dest[m], r)
       /\ \A t : HitCount(FlattenSeq(parts), t)
              = SumFunctionOnSet([m \in M |-> IF m \in {n \in M : dest[n] = t}
                                              THEN RecordsIn(Owned(D, R, entries, m)) ELSE 0], M)
  <2>1. Holds(entries, M, R, c, dest, parts)
    BY ONLY <1>9, PartsAre
  <2> QED
    BY <2>1 DEF D, Holds
<1>11. ASSUME NEW t
       PROVE  HitCount(FlattenSeq(parts), t)
              = SumFunctionOnSet([m \in M |-> IF m.channel = c THEN HashShare(m, s, t) ELSE 0], M)
  <2> DEFINE f == [m \in M |-> IF m \in {n \in M : dest[n] = t} THEN RecordsIn(Owned(D, R, entries, m)) ELSE 0]
             g == [m \in M |-> IF m.channel = c THEN HashShare(m, s, t) ELSE 0]
  <2>1. \A m \in M : g[m] \in Nat /\ g[m] = f[m]
    BY <1>7, <1>8, NoRecords, SharesAreNat DEF HashShare
  <2>2. HitCount(FlattenSeq(parts), t) = SumFunctionOnSet(f, M)
    BY <1>10
  <2> HIDE DEF f, g
  <2>3. SumFunctionOnSet(g, M) = SumFunctionOnSet(f, M)
    BY <2>1, SumEqual DEF Sound
  <2> QED
    BY <2>2, <2>3 DEF g
<1>12. ASSUME NEW x
       PROVE  x \in ToSet(FlattenSeq(parts)) <=>
                \E m \in M : m.channel = c /\ \E ns \in HashesOf(m, s) : \E r \in ToSet(ns.records) :
                  x = RecordItem(c, HashTarget(m), r)
  BY <1>7, <1>8, <1>10
<1> QED
  BY <1>1, <1>10, <1>11, <1>12

-----------------------------------------------------------------------------
(***************************************************************************)
(* The walk of one channel, and of all of them.                            *)
(***************************************************************************)
LEMMA TwoParts ==
  ASSUME NEW a, IsSequence(a), NEW b, IsSequence(b)
  PROVE  /\ IsSequence(a \o b)
         /\ ToSet(a \o b) = ToSet(a) \union ToSet(b)
         /\ \A t : HitCount(a \o b, t) = HitCount(a, t) + HitCount(b, t)
         /\ Len(b) # 0 => Len(a \o b) # 0 /\ (a \o b)[Len(a \o b)] = b[Len(b)]
<1> DEFINE S == ToSet(a) \union ToSet(b)
<1>1. a \in Seq(S) /\ b \in Seq(S)
  <2>1. ToSet(a) \subseteq S /\ ToSet(b) \subseteq S
    OBVIOUS
  <2>2. a \in Seq(ToSet(a)) /\ b \in Seq(ToSet(b))
    BY DEF IsSequence
  <2> HIDE DEF S
  <2> QED
    BY <2>1, <2>2
<1> HIDE DEF S
<1>2. ToSet(a \o b) = ToSet(a) \union ToSet(b)
  BY <1>1, ConcatContents
<1>3. \A t : HitCount(a \o b, t) = HitCount(a, t) + HitCount(b, t)
  BY <1>1, HitsOfConcat
<1>4. a \o b \in Seq(S)
  BY <1>1
<1>5. IsSequence(a \o b)
  BY <1>4, SequenceOf
<1>6. ASSUME Len(b) # 0 PROVE Len(a \o b) # 0 /\ (a \o b)[Len(a \o b)] = b[Len(b)]
  <2>1. Len(a) \in Nat /\ Len(b) \in Nat /\ Len(a \o b) = Len(a) + Len(b)
    BY <1>1
  <2> QED
    BY <1>1, <1>6, <2>1
<1> QED
  BY <1>2, <1>3, <1>5, <1>6

ChannelWalk(M, c, snapshot) ==
  WalkPublicRecords(M, c, snapshot) \o <<EndItem(c)>>
  \o WalkPrivateHashRecords(M, c, snapshot) \o <<EndItem(c)>>

Share(m, s, t) == PublicShare(m, s, t) + HashShare(m, s, t)

(* x is the item of a selected record of the mapping's source.             *)
PublicItem(x, m, s) ==
  \E ns \in PublicOf(m, s) : \E r \in ToSet(ns.records) : x = RecordItem(m.channel, m.target, r)

HashItem(x, m, s) ==
  \E ns \in HashesOf(m, s) : \E r \in ToSet(ns.records) : x = RecordItem(m.channel, HashTarget(m), r)

LEMMA ChannelPart ==
  ASSUME NEW M, NEW s, Sound(M, s), NEW c \in DOMAIN s
  PROVE  LET W == ChannelWalk(M, c, s[c])
         IN  /\ IsSequence(W) /\ Len(W) # 0 /\ W[Len(W)] = EndItem(c)
             /\ \A x : x \in ToSet(W) <=>
                  x = EndItem(c) \/ \E m \in M : m.channel = c /\ (PublicItem(x, m, s) \/ HashItem(x, m, s))
             /\ \A t : HitCount(W, t)
                  = SumFunctionOnSet([m \in M |-> IF m.channel = c THEN Share(m, s, t) ELSE 0], M)
<1> DEFINE P == WalkPublicRecords(M, c, s[c])
           H == WalkPrivateHashRecords(M, c, s[c])
           E == <<EndItem(c)>>
           W == ChannelWalk(M, c, s[c])
<1>1. /\ IsSequence(P)
      /\ \A x : x \in ToSet(P) <=>
           \E m \in M : m.channel = c /\ \E ns \in PublicOf(m, s) : \E r \in ToSet(ns.records) :
             x = RecordItem(c, m.target, r)
      /\ \A t : HitCount(P, t)
           = SumFunctionOnSet([m \in M |-> IF m.channel = c THEN PublicShare(m, s, t) ELSE 0], M)
  BY PublicPart
<1>2. /\ IsSequence(H)
      /\ \A x : x \in ToSet(H) <=>
           \E m \in M : m.channel = c /\ \E ns \in HashesOf(m, s) : \E r \in ToSet(ns.records) :
             x = RecordItem(c, HashTarget(m), r)
      /\ \A t : HitCount(H, t)
           = SumFunctionOnSet([m \in M |-> IF m.channel = c THEN HashShare(m, s, t) ELSE 0], M)
  BY HashPart
<1>3. IsSequence(E) /\ ToSet(E) = {EndItem(c)} /\ \A t : HitCount(E, t) = 0
  BY EndPart
<1>4. Len(E) = 1 /\ E[1] = EndItem(c)
  OBVIOUS
<1>5. W = P \o E \o H \o E
  BY DEF ChannelWalk
<1> HIDE DEF P, H, E, W
<1>6. /\ IsSequence(P \o E) /\ ToSet(P \o E) = ToSet(P) \union {EndItem(c)}
      /\ \A t : HitCount(P \o E, t) = HitCount(P, t) + 0
  BY <1>1, <1>3, TwoParts
<1>7. /\ IsSequence(P \o E \o H) /\ ToSet(P \o E \o H) = ToSet(P) \union {EndItem(c)} \union ToSet(H)
      /\ \A t : HitCount(P \o E \o H, t) = HitCount(P, t) + 0 + HitCount(H, t)
  BY <1>2, <1>6, TwoParts
<1>8. /\ IsSequence(W) /\ ToSet(W) = ToSet(P) \union {EndItem(c)} \union ToSet(H)
      /\ \A t : HitCount(W, t) = HitCount(P, t) + 0 + HitCount(H, t) + 0
      /\ Len(W) # 0 /\ W[Len(W)] = EndItem(c)
  <2> DEFINE Q == P \o E \o H
  <2>1. IsSequence(Q) /\ W = Q \o E
    BY <1>5, <1>7
  <2> HIDE DEF Q
  <2>2. /\ IsSequence(W) /\ ToSet(W) = ToSet(Q) \union {EndItem(c)}
        /\ \A t : HitCount(W, t) = HitCount(Q, t) + 0
        /\ Len(W) # 0 /\ W[Len(W)] = EndItem(c)
    <3>1. Len(E) # 0 /\ E[Len(E)] = EndItem(c)
      BY <1>4
    <3>2. /\ IsSequence(Q \o E) /\ ToSet(Q \o E) = ToSet(Q) \union ToSet(E)
          /\ \A t : HitCount(Q \o E, t) = HitCount(Q, t) + HitCount(E, t)
          /\ Len(Q \o E) # 0 /\ (Q \o E)[Len(Q \o E)] = E[Len(E)]
      BY <1>3, <2>1, <3>1, TwoParts
    <3> QED
      BY <1>3, <2>1, <3>1, <3>2
  <2> QED
    BY <1>7, <2>2 DEF Q
<1>9. ASSUME NEW t
      PROVE  HitCount(W, t) = SumFunctionOnSet([m \in M |-> IF m.channel = c THEN Share(m, s, t) ELSE 0], M)
  <2> DEFINE f == [m \in M |-> IF m.channel = c THEN PublicShare(m, s, t) ELSE 0]
             g == [m \in M |-> IF m.channel = c THEN HashShare(m, s, t) ELSE 0]
             h == [m \in M |-> IF m.channel = c THEN Share(m, s, t) ELSE 0]
  <2>1. \A m \in M : f[m] \in Nat /\ g[m] \in Nat /\ h[m] = f[m] + g[m]
    BY SharesAreNat DEF Share
  <2>2. HitCount(P, t) = SumFunctionOnSet(f, M) /\ HitCount(H, t) = SumFunctionOnSet(g, M)
    BY <1>1, <1>2
  <2>3. HitCount(P, t) \in Nat /\ HitCount(H, t) \in Nat
    BY <1>1, <1>2, HitsFinite
  <2> HIDE DEF f, g, h
  <2>4. SumFunctionOnSet(h, M) = SumFunctionOnSet(f, M) + SumFunctionOnSet(g, M)
    BY <2>1, SumOfSums DEF Sound
  <2>5. HitCount(W, t) = SumFunctionOnSet(h, M)
    BY <1>8, <2>2, <2>3, <2>4
  <2> QED
    BY <2>5 DEF h
<1>10. ASSUME NEW x
       PROVE  x \in ToSet(W) <=>
                x = EndItem(c) \/ \E m \in M : m.channel = c /\ (PublicItem(x, m, s) \/ HashItem(x, m, s))
  <2>1. x \in ToSet(P) <=> \E m \in M : m.channel = c /\ PublicItem(x, m, s)
    BY <1>1 DEF PublicItem
  <2>2. x \in ToSet(H) <=> \E m \in M : m.channel = c /\ HashItem(x, m, s)
    BY <1>2 DEF HashItem
  <2> QED
    BY <1>8, <2>1, <2>2
<1> QED
  BY <1>8, <1>9, <1>10 DEF W

(* A concatenation whose last part is not empty ends with its last item.   *)
LEMMA FlattenEnds ==
  ASSUME NEW ss, Nested(ss), Len(ss) # 0, Len(ss[Len(ss)]) # 0
  PROVE  LET f == FlattenSeq(ss)
             e == ss[Len(ss)]
         IN  Len(f) # 0 /\ f[Len(f)] = e[Len(e)]
<1> DEFINE S == UNION {ToSet(ss[i]) : i \in DOMAIN ss}
           n == Len(ss)
<1>1. PICK g \in [1..n -> Seq(S)] :
         /\ FlattenSeq(ss) = IF n = 0 THEN <<>> ELSE g[n]
         /\ \A i \in 1..n : g[i] = IF i = 1 THEN ss[i] ELSE g[i - 1] \o ss[i]
  BY FlattenUnfolds
<1>2. n \in Nat /\ n \in 1..n
  BY Positions DEF Nested
<1>3. FlattenSeq(ss) = g[n] /\ g[n] = IF n = 1 THEN ss[n] ELSE g[n - 1] \o ss[n]
  BY <1>1, <1>2
<1>4. CASE n = 1
  BY <1>3, <1>4
<1>5. CASE n # 1
  <2>1. IsSequence(g[n - 1])
    <3>1. n - 1 \in 1..n
      BY <1>2, <1>5
    <3> HIDE DEF n, S
    <3>2. g[n - 1] \in Seq(S)
      BY <3>1
    <3> QED
      BY <3>2, SequenceOf
  <2>2. IsSequence(ss[n]) /\ Len(ss[n]) # 0
    BY <1>2, Positions DEF Nested
  <2> DEFINE a == g[n - 1]
             b == ss[n]
  <2>3. IsSequence(a) /\ IsSequence(b) /\ Len(b) # 0 /\ FlattenSeq(ss) = a \o b
    BY <1>3, <1>5, <2>1, <2>2
  <2> HIDE DEF a, b
  <2>4. Len(a \o b) # 0 /\ (a \o b)[Len(a \o b)] = b[Len(b)]
    BY <2>3, TwoParts
  <2> QED
    BY <2>3, <2>4 DEF b
<1> QED
  BY <1>4, <1>5

LEMMA WholeWalk ==
  ASSUME NEW M, NEW s, Sound(M, s), DOMAIN s # {}
  PROVE  LET W == Walk(M, s)
         IN  /\ IsSequence(W) /\ Len(W) # 0 /\ \E c \in DOMAIN s : W[Len(W)] = EndItem(c)
             /\ \A x : x \in ToSet(W) <=>
                  \/ \E c \in DOMAIN s : x = EndItem(c)
                  \/ \E m \in M : PublicItem(x, m, s) \/ HashItem(x, m, s)
             /\ \A t : HitCount(W, t) = CountFor(t, M, s)
<1> DEFINE ch == SortedKeys(DOMAIN s)
           D == DOMAIN ch
           ss == [i \in D |-> ChannelWalk(M, ch[i], s[ch[i]])]
<1>1. Walk(M, s) = FlattenSeq(ss)
  BY DEF Walk, ChannelWalk
<1>2. /\ D = 1..Cardinality(DOMAIN s) /\ Cardinality(DOMAIN s) \in Nat
      /\ \A i \in D : ch[i] \in DOMAIN s
      /\ \A i, j \in D : ch[i] = ch[j] => i = j
      /\ \A c \in DOMAIN s : \E i \in D : ch[i] = c
  BY KeysSorted DEF Sound
<1>3. \A i \in D : ss[i] = ChannelWalk(M, ch[i], s[ch[i]])
  OBVIOUS
<1>4. DOMAIN ss = D /\ ss = [i \in D |-> ss[i]]
  OBVIOUS
<1> HIDE DEF ch, D, ss
<1>5. ASSUME NEW i \in D
      PROVE  /\ IsSequence(ss[i]) /\ Len(ss[i]) # 0 /\ ss[i][Len(ss[i])] = EndItem(ch[i])
             /\ \A x : x \in ToSet(ss[i]) <=>
                  x = EndItem(ch[i]) \/ \E m \in M : m.channel = ch[i] /\ (PublicItem(x, m, s) \/ HashItem(x, m, s))
             /\ \A t : HitCount(ss[i], t)
                  = SumFunctionOnSet([m \in M |-> IF m.channel = ch[i] THEN Share(m, s, t) ELSE 0], M)
  <2> DEFINE c == ch[i]
             W == ChannelWalk(M, c, s[c])
  <2>1. c \in DOMAIN s /\ ss[i] = W
    BY <1>2, <1>3
  <2> HIDE DEF c
  <2>2. /\ IsSequence(W) /\ Len(W) # 0 /\ W[Len(W)] = EndItem(c)
        /\ \A x : x \in ToSet(W) <=>
             x = EndItem(c) \/ \E m \in M : m.channel = c /\ (PublicItem(x, m, s) \/ HashItem(x, m, s))
        /\ \A t : HitCount(W, t)
             = SumFunctionOnSet([m \in M |-> IF m.channel = c THEN Share(m, s, t) ELSE 0], M)
    BY <2>1, ChannelPart
  <2> HIDE DEF W
  <2>3. /\ IsSequence(ss[i]) /\ Len(ss[i]) # 0 /\ ss[i][Len(ss[i])] = EndItem(c)
        /\ \A x : x \in ToSet(ss[i]) <=>
             x = EndItem(c) \/ \E m \in M : m.channel = c /\ (PublicItem(x, m, s) \/ HashItem(x, m, s))
        /\ \A t : HitCount(ss[i], t)
             = SumFunctionOnSet([m \in M |-> IF m.channel = c THEN Share(m, s, t) ELSE 0], M)
    BY <2>1, <2>2
  <2> QED
    BY <2>3 DEF c
<1>6. Nested(ss) /\ Len(ss) = Cardinality(DOMAIN s)
  <2> DEFINE n == Cardinality(DOMAIN s)
  <2>1. \A i \in 1..n : ss[i] \in ToSet(ss)
    BY <1>2, <1>4 DEF ToSet
  <2>2. ss = [i \in 1..n |-> ss[i]] /\ n \in Nat
    BY <1>2, <1>4
  <2> HIDE DEF n
  <2>3. ss \in Seq(ToSet(ss)) /\ Len(ss) = n
    BY <2>1, <2>2
  <2> QED
    BY <1>4, <1>5, <2>3 DEF Nested, IsSequence, n
<1>7. Cardinality(DOMAIN s) # 0 /\ Cardinality(DOMAIN s) \in D
  <2>1. Cardinality(DOMAIN s) # 0
    BY FS_EmptySet DEF Sound
  <2> QED
    BY <1>2, <2>1
<1>8. Len(Walk(M, s)) # 0 /\ \E c \in DOMAIN s : Walk(M, s)[Len(Walk(M, s))] = EndItem(c)
  <2> DEFINE n == Len(ss)
             e == ss[n]
             f == FlattenSeq(ss)
  <2>1. n \in D /\ n # 0
    BY <1>6, <1>7
  <2>2. Len(e) # 0 /\ e[Len(e)] = EndItem(ch[n]) /\ ch[n] \in DOMAIN s
    BY <1>2, <1>5, <2>1
  <2>3. Len(f) # 0 /\ f[Len(f)] = e[Len(e)]
    <3>1. Nested(ss) /\ Len(ss) # 0 /\ Len(ss[Len(ss)]) # 0
      BY <1>6, <2>1, <2>2
    <3> QED
      BY ONLY <3>1, FlattenEnds
  <2> QED
    BY <1>1, <2>2, <2>3
<1>9. IsSequence(Walk(M, s)) /\ ToSet(Walk(M, s)) = UNION {ToSet(ss[i]) : i \in D}
  BY <1>1, <1>4, <1>6, FlattenContents
<1>10. ASSUME NEW x
       PROVE  x \in ToSet(Walk(M, s)) <=>
                  \/ \E c \in DOMAIN s : x = EndItem(c)
                  \/ \E m \in M : PublicItem(x, m, s) \/ HashItem(x, m, s)
  <2>1. x \in ToSet(Walk(M, s)) <=> \E i \in D : x \in ToSet(ss[i])
    BY <1>9
  <2>2. \A m \in M : \E i \in D : m.channel = ch[i]
    <3>1. \A m \in M : m.channel \in DOMAIN s
      BY DEF Sound
    <3> QED
      BY <1>2, <3>1
  <2>3. \A i \in D : x \in ToSet(ss[i]) <=>
          x = EndItem(ch[i]) \/ \E m \in M : m.channel = ch[i] /\ (PublicItem(x, m, s) \/ HashItem(x, m, s))
    BY <1>5
  <2> QED
    BY <1>2, <2>1, <2>2, <2>3
<1>11. ASSUME NEW t
       PROVE  HitCount(Walk(M, s), t) = CountFor(t, M, s)
  <2> DEFINE h == [i \in D |-> [m \in M |-> IF m.channel = ch[i] THEN Share(m, s, t) ELSE 0]]
             k == [i \in D |-> HitCount(ss[i], t)]
             rows == [i \in D |-> SumFunctionOnSet(h[i], M)]
             columns == [m \in M |-> SumFunctionOnSet([i \in D |-> h[i][m]], D)]
             counts == [m \in M |-> Share(m, s, t)]
  <2>1. IsFiniteSet(M) /\ IsFiniteSet(D)
    BY <1>2, FS_Interval DEF Sound
  <2>2. \A m \in M : Share(m, s, t) \in Nat
    BY SharesAreNat DEF Share
  <2>3. \A i \in D, m \in M : h[i][m] = IF m.channel = ch[i] THEN Share(m, s, t) ELSE 0
    OBVIOUS
  <2>4. HitCount(Walk(M, s), t) = SumFunctionOnSet(k, D)
    BY <1>1, <1>4, <1>6, FlattenHits
  <2>5. SumFunctionOnSet(k, D) = SumFunctionOnSet(rows, D)
    <3>1. \A i \in D : k[i] \in Nat /\ k[i] = rows[i]
      BY <1>5, HitsFinite
    <3> HIDE DEF k, rows
    <3> QED
      BY <2>1, <3>1, SumEqual
  <2>6. SumFunctionOnSet(rows, D) = SumFunctionOnSet(columns, M)
    <3>1. \A i \in D, m \in M : h[i][m] \in Nat
      BY <2>2, <2>3
    <3> HIDE DEF h
    <3> QED
      BY ONLY <2>1, <3>1, SumBothWays
  <2>7. \A m \in M : columns[m] = counts[m]
    <3> SUFFICES ASSUME NEW m \in M PROVE columns[m] = counts[m]
      OBVIOUS
    <3>1. PICK z \in D : ch[z] = m.channel
      BY <1>2 DEF Sound
    <3> DEFINE g == [i \in D |-> h[i][m]]
    <3>2. g[z] = Share(m, s, t) /\ \A i \in D \ {z} : g[i] = 0
      BY <1>2, <2>3, <3>1
    <3>3. columns[m] = SumFunctionOnSet(g, D) /\ counts[m] = Share(m, s, t)
      OBVIOUS
    <3> HIDE DEF g, h, columns, counts
    <3>4. SumFunctionOnSet(g, D) = g[z]
      BY <2>1, <2>2, <3>2, SumOfOne
    <3> QED
      BY <3>2, <3>3, <3>4
  <2>8. SumFunctionOnSet(columns, M) = SumFunctionOnSet(counts, M)
    <3>1. \A m \in M : counts[m] \in Nat
      BY <2>2
    <3> HIDE DEF columns, counts
    <3> QED
      BY <2>1, <2>7, <3>1, SumEqual
  <2>9. CountFor(t, M, s) = SumFunctionOnSet(counts, M)
    BY DEF CountFor, Share, PublicShare, HashShare, SumFunction
  <2> QED
    BY <2>4, <2>5, <2>6, <2>8, <2>9
<1> QED
  BY <1>8, <1>9, <1>10, <1>11

-----------------------------------------------------------------------------
(***************************************************************************)
(* What an accepted preflight has made sure of, and what it returns.       *)
(***************************************************************************)
LEMMA SourcesDiffer ==
  ASSUME NEW f, IsSequence(f), ~SourceMappedTwice(f)
  PROVE  \A m, n \in ToSet(f) : m.channel = n.channel /\ m.namespace = n.namespace => m = n
<1> SUFFICES ASSUME NEW i \in DOMAIN f, NEW j \in DOMAIN f, i # j,
                    f[i].channel = f[j].channel, f[i].namespace = f[j].namespace
             PROVE  FALSE
  BY DEF ToSet
<1>1. i < j \/ j < i
  BY Positions
<1> QED
  BY <1>1 DEF SourceMappedTwice

LEMMA AcceptedInputs ==
  ASSUME NEW f \in MappingFiles, NEW s \in Supplied, Preflight(f, s) # Rejected
  PROVE  LET M == ToSet(f)
             p == Preflight(f, s)
         IN  /\ Sound(M, s) /\ M # {} /\ DOMAIN s # {}
             /\ \A m \in M : ~InvalidMapping(m)
             /\ ~UnsupportedMetadata(M, s)
             /\ p.counts = [t \in CountedTargets(M, s) |-> CountFor(t, M, s)]
             /\ p.stream = Walk(M, s)
<1> DEFINE M == ToSet(f)
<1>1. IsSequence(f) /\ DOMAIN s \subseteq Nat /\ IsFiniteSet(DOMAIN s) /\ \A c \in DOMAIN s : WellFormed(s[c])
  BY PlanningAssumption
<1>2. /\ ReadMappings(f) # Rejected /\ MappingCounts(ReadMappings(f), s) # Rejected
      /\ ~UnsupportedMetadata(ReadMappings(f), s)
      /\ Preflight(f, s) = [counts |-> MappingCounts(ReadMappings(f), s), stream |-> Walk(ReadMappings(f), s)]
  BY DEF Preflight
<1>3. /\ f # <<>> /\ ~SourceMappedTwice(f) /\ \A i \in DOMAIN f : ~InvalidMapping(f[i])
      /\ ReadMappings(f) = M
  BY <1>2 DEF ReadMappings
<1>4. M # {} /\ \A m \in M : ~InvalidMapping(m)
  <2>1. DOMAIN f # {}
    BY <1>1, <1>3 DEF IsSequence
  <2> QED
    BY <1>3, <2>1 DEF ToSet
<1> HIDE DEF M
<1>5. /\ \A m \in M : m.channel \in DOMAIN s
      /\ MappingCounts(M, s) = [t \in CountedTargets(M, s) |-> CountFor(t, M, s)]
  BY <1>2, <1>3 DEF MappingCounts
<1>6. \A m, n \in M : m.channel = n.channel /\ m.namespace = n.namespace => m = n
  BY <1>1, <1>3, SourcesDiffer DEF M
<1>7. IsFiniteSet(M)
  BY <1>1, EntriesFinite DEF M
<1>8. Sound(M, s)
  BY <1>1, <1>5, <1>6, <1>7 DEF Sound
<1>9. DOMAIN s # {}
  BY <1>4, <1>5
<1> QED
  BY <1>2, <1>3, <1>4, <1>5, <1>8, <1>9 DEF M

(***************************************************************************)
(* The invariant: the inputs stay what they were, the plan is Preflight of *)
(* them.                                                                   *)
(***************************************************************************)
PlanInv ==
  /\ file \in MappingFiles /\ snapshots \in Supplied
  /\ plan \in {Pending, Preflight(file, snapshots)}

(* Import plans from the inputs it was started with and never changes a    *)
(* plan it has made (import.go, lines 59 to 156).                          *)
THEOREM PlanInvariant == Spec => []PlanInv
<1>1. Init => PlanInv
  BY DEF Init, PlanInv
<1>2. PlanInv /\ [Next]_vars => PlanInv'
  <2> SUFFICES ASSUME PlanInv, [Next]_vars PROVE PlanInv'
    OBVIOUS
  <2>1. CASE RunPreflight
    BY <2>1 DEF RunPreflight, PlanInv
  <2>2. CASE UNCHANGED vars
    BY <2>2 DEF vars, PlanInv
  <2> QED
    BY <2>1, <2>2 DEF Next, Done
<1> QED
  BY <1>1, <1>2, PTL DEF Spec

LEMMA AcceptedPlan ==
  ASSUME PlanInv, Accepted
  PROVE  LET M == ToSet(file)
             s == snapshots
         IN  /\ Sound(M, s) /\ M # {} /\ DOMAIN s # {}
             /\ \A m \in M : ~InvalidMapping(m)
             /\ ~UnsupportedMetadata(M, s)
             /\ DOMAIN plan.counts = CountedTargets(M, s)
             /\ \A t \in CountedTargets(M, s) : plan.counts[t] = HitCount(plan.stream, t)
             /\ IsSequence(plan.stream) /\ Len(plan.stream) # 0
             /\ \E c \in DOMAIN s : plan.stream[Len(plan.stream)] = EndItem(c)
             /\ \A x : x \in ToSet(plan.stream) <=>
                  \/ \E c \in DOMAIN s : x = EndItem(c)
                  \/ \E m \in M : PublicItem(x, m, s) \/ HashItem(x, m, s)
<1> DEFINE M == ToSet(file)
           s == snapshots
<1>1. file \in MappingFiles /\ s \in Supplied /\ plan = Preflight(file, s) /\ Preflight(file, s) # Rejected
  BY DEF PlanInv, Accepted
<1>2. /\ Sound(M, s) /\ M # {} /\ DOMAIN s # {}
      /\ \A m \in M : ~InvalidMapping(m)
      /\ ~UnsupportedMetadata(M, s)
      /\ plan.counts = [t \in CountedTargets(M, s) |-> CountFor(t, M, s)]
      /\ plan.stream = Walk(M, s)
  BY <1>1, AcceptedInputs
<1>3. /\ IsSequence(plan.stream) /\ Len(plan.stream) # 0
      /\ \E c \in DOMAIN s : plan.stream[Len(plan.stream)] = EndItem(c)
      /\ \A x : x \in ToSet(plan.stream) <=>
           \/ \E c \in DOMAIN s : x = EndItem(c)
           \/ \E m \in M : PublicItem(x, m, s) \/ HashItem(x, m, s)
      /\ \A t : HitCount(plan.stream, t) = CountFor(t, M, s)
  BY <1>2, WholeWalk
<1> QED
  BY <1>2, <1>3

(* Every record item of the stream is a selected record of a mapping.      *)
LEMMA RecordItemsAreSelected ==
  ASSUME PlanInv, Accepted, NEW i \in RecordItems
  PROVE  \E m \in ToSet(file) : PublicItem(plan.stream[i], m, snapshots) \/ HashItem(plan.stream[i], m, snapshots)
<1>1. plan.stream[i] \in ToSet(plan.stream) /\ plan.stream[i].kind = "record"
  BY DEF RecordItems, ToSet
<1>2. \A c : EndItem(c).kind = "end"
  BY DEF EndItem
<1> QED
  BY <1>1, <1>2, AcceptedPlan

LEMMA SelectedAreRecordItems ==
  ASSUME PlanInv, Accepted, NEW x, NEW m \in ToSet(file),
         PublicItem(x, m, snapshots) \/ HashItem(x, m, snapshots)
  PROVE  \E i \in RecordItems : plan.stream[i] = x
<1>1. x.kind = "record"
  BY DEF PublicItem, HashItem, RecordItem
<1>2. x \in ToSet(plan.stream)
  BY AcceptedPlan
<1> QED
  BY <1>1, <1>2 DEF RecordItems, ToSet

LEMMA ItemsHaveCountedTargets ==
  ASSUME PlanInv, Accepted, NEW i \in RecordItems
  PROVE  plan.stream[i].target \in DOMAIN plan.counts
<1>1. PICK m \in ToSet(file) : PublicItem(plan.stream[i], m, snapshots) \/ HashItem(plan.stream[i], m, snapshots)
  BY RecordItemsAreSelected
<1>2. CASE PublicItem(plan.stream[i], m, snapshots)
  <2>1. plan.stream[i].target = m.target
    BY <1>2 DEF PublicItem, RecordItem
  <2> QED
    BY <2>1, AcceptedPlan DEF CountedTargets
<1>3. CASE HashItem(plan.stream[i], m, snapshots)
  <2>1. plan.stream[i].target = HashTarget(m) /\ HashesOf(m, snapshots) # {}
    BY <1>3 DEF HashItem, RecordItem
  <2> QED
    BY <2>1, AcceptedPlan DEF CountedTargets
<1> QED
  BY <1>1, <1>2, <1>3
-----------------------------------------------------------------------------
(* The counts taken from namespace metadata (mappingCounts) are those of   *)
(* the records the walk yields, for every target, and the walk yields none *)
(* for a target that is not counted, whatever mappings share a source      *)
(* channel, a target or a hash target.                                     *)
THEOREM CountsAgree == Spec => []CountsMatchWalk
<1>1. PlanInv => CountsMatchWalk
  <2> SUFFICES ASSUME PlanInv, Accepted PROVE CountsMatchWalk
    BY DEF CountsMatchWalk
  <2>1. \A i \in RecordItems : plan.stream[i].target \in DOMAIN plan.counts
    BY ItemsHaveCountedTargets
  <2>2. \A t : {i \in RecordItems : plan.stream[i].target = t} = Hits(plan.stream, t)
    BY DEF RecordItems, Hits
  <2>3. \A t \in DOMAIN plan.counts : plan.counts[t] = Cardinality(Hits(plan.stream, t))
    BY AcceptedPlan DEF HitCount
  <2> QED
    BY <2>1, <2>2, <2>3 DEF CountsMatchWalk
<1> QED
  BY <1>1, PlanInvariant, PTL

RowOf(x) == [file |-> x.file, target |-> x.target, key |-> x.key, value |-> x.value]

LEMMA RowsOfItems ==
  ASSUME NEW m, NEW s
  PROVE  /\ \A x : PublicItem(x, m, s) => RowOf(x) \in RowsTo(m.target, PublicOf(m, s), m.channel)
         /\ \A x : HashItem(x, m, s) => RowOf(x) \in RowsTo(HashTarget(m), HashesOf(m, s), m.channel)
         /\ \A row \in RowsTo(m.target, PublicOf(m, s), m.channel) : \E x : PublicItem(x, m, s) /\ RowOf(x) = row
         /\ \A row \in RowsTo(HashTarget(m), HashesOf(m, s), m.channel) : \E x : HashItem(x, m, s) /\ RowOf(x) = row
<1> DEFINE row(t, r) == [file |-> m.channel, target |-> t, key |-> r.key, value |-> r.value]
<1>1. ASSUME NEW t, NEW N, NEW y
      PROVE  y \in RowsTo(t, N, m.channel) <=> \E ns \in N : \E r \in ToSet(ns.records) : y = row(t, r)
  <2>1. y \in RowsTo(t, N, m.channel) <=> \E r \in UNION {ToSet(ns.records) : ns \in N} : y = row(t, r)
    BY DEF RowsTo
  <2> HIDE DEF row
  <2> QED
    BY <2>1
<1>2. ASSUME NEW t, NEW r PROVE RowOf(RecordItem(m.channel, t, r)) = row(t, r)
  BY DEF RowOf, RecordItem
<1> HIDE DEF row
<1>3. ASSUME NEW x
      PROVE  /\ PublicItem(x, m, s) => RowOf(x) \in RowsTo(m.target, PublicOf(m, s), m.channel)
             /\ HashItem(x, m, s) => RowOf(x) \in RowsTo(HashTarget(m), HashesOf(m, s), m.channel)
  BY <1>1, <1>2 DEF PublicItem, HashItem
<1>4. ASSUME NEW y \in RowsTo(m.target, PublicOf(m, s), m.channel)
      PROVE  \E x : PublicItem(x, m, s) /\ RowOf(x) = y
  <2>1. PICK ns \in PublicOf(m, s) : \E r \in ToSet(ns.records) : y = row(m.target, r)
    BY <1>1
  <2>2. PICK r \in ToSet(ns.records) : y = row(m.target, r)
    BY <2>1
  <2>3. PublicItem(RecordItem(m.channel, m.target, r), m, s)
    BY DEF PublicItem
  <2> QED
    BY <1>2, <2>2, <2>3
<1>5. ASSUME NEW y \in RowsTo(HashTarget(m), HashesOf(m, s), m.channel)
      PROVE  \E x : HashItem(x, m, s) /\ RowOf(x) = y
  <2>1. PICK ns \in HashesOf(m, s) : \E r \in ToSet(ns.records) : y = row(HashTarget(m), r)
    BY <1>1
  <2>2. PICK r \in ToSet(ns.records) : y = row(HashTarget(m), r)
    BY <2>1
  <2>3. HashItem(RecordItem(m.channel, HashTarget(m), r), m, s)
    BY DEF HashItem
  <2> QED
    BY <1>2, <2>2, <2>3
<1> QED
  BY <1>3, <1>4, <1>5

(* The walk yields the public records of the mapped namespaces and the     *)
(* hashes of their collections, each to its target, and nothing else.      *)
THEOREM WalkSelects == Spec => []WalkIsTheSelection
<1>1. PlanInv => WalkIsTheSelection
  <2> SUFFICES ASSUME PlanInv, Accepted PROVE WalkIsTheSelection
    BY DEF WalkIsTheSelection
  <2> DEFINE Rows(m) == RowsTo(m.target, PublicOf(m, snapshots), m.channel)
                        \union RowsTo(HashTarget(m), HashesOf(m, snapshots), m.channel)
             Left == {RowOf(plan.stream[i]) : i \in RecordItems}
             Right == UNION {Rows(m) : m \in ToSet(file)}
  <2>1. \A m, x : PublicItem(x, m, snapshots) \/ HashItem(x, m, snapshots) => RowOf(x) \in Rows(m)
    BY RowsOfItems
  <2>2. \A m : \A row \in Rows(m) :
          \E x : (PublicItem(x, m, snapshots) \/ HashItem(x, m, snapshots)) /\ RowOf(x) = row
    <3> SUFFICES ASSUME NEW m, NEW row \in Rows(m)
                 PROVE  \E x : (PublicItem(x, m, snapshots) \/ HashItem(x, m, snapshots)) /\ RowOf(x) = row
      OBVIOUS
    <3>1. CASE row \in RowsTo(m.target, PublicOf(m, snapshots), m.channel)
      BY <3>1, RowsOfItems
    <3>2. CASE row \in RowsTo(HashTarget(m), HashesOf(m, snapshots), m.channel)
      BY <3>2, RowsOfItems
    <3> QED
      BY <3>1, <3>2
  <2>3. Left = {[file |-> plan.stream[i].file, target |-> plan.stream[i].target,
                 key |-> plan.stream[i].key, value |-> plan.stream[i].value] : i \in RecordItems}
    BY DEF RowOf
  <2>4. Right = UNION {RowsTo(m.target, PublicOf(m, snapshots), m.channel)
                       \union RowsTo(HashTarget(m), HashesOf(m, snapshots), m.channel) : m \in ToSet(file)}
    OBVIOUS
  <2> HIDE DEF Rows
  <2>5. Left \subseteq Right
    BY <2>1, RecordItemsAreSelected
  <2>6. Right \subseteq Left
    <3> SUFFICES ASSUME NEW m \in ToSet(file), NEW row \in Rows(m) PROVE row \in Left
      OBVIOUS
    <3>1. PICK x : (PublicItem(x, m, snapshots) \/ HashItem(x, m, snapshots)) /\ RowOf(x) = row
      BY <2>2
    <3>2. PICK i \in RecordItems : plan.stream[i] = x
      BY <3>1, SelectedAreRecordItems
    <3> QED
      BY <3>1, <3>2
  <2> HIDE DEF Left, Right
  <2>7. Left = Right
    BY <2>5, <2>6
  <2> QED
    BY <2>3, <2>4, <2>7 DEF WalkIsTheSelection
<1> QED
  BY <1>1, PlanInvariant, PTL

(* Nothing of a system namespace, nothing into a reserved namespace and no *)
(* record with key-level metadata is streamed, for any mapping file.       *)
THEOREM ApplicationStateOnly == Spec => []OnlyApplicationState
<1>1. PlanInv => OnlyApplicationState
  <2> SUFFICES ASSUME PlanInv, Accepted, NEW i \in RecordItems
               PROVE  /\ plan.stream[i].target \notin ReservedTargets
                      /\ \E m \in ToSet(file) :
                           /\ m.channel = plan.stream[i].file
                           /\ m.namespace \notin SystemSources
                           /\ ApplicationRecord(m, plan.stream[i])
    BY DEF OnlyApplicationState
  <2>1. PICK m \in ToSet(file) : PublicItem(plan.stream[i], m, snapshots) \/ HashItem(plan.stream[i], m, snapshots)
    BY RecordItemsAreSelected
  <2>2. /\ m.namespace \notin SystemSources /\ m.target \notin ReservedTargets
        /\ HashTarget(m) \notin ReservedTargets
    <3>1. ~InvalidMapping(m)
      BY AcceptedPlan
    <3> QED
      BY <3>1 DEF InvalidMapping, HashTarget
  <2>3. PICK ns \in PublicOf(m, snapshots) \union HashesOf(m, snapshots) : \E r \in ToSet(ns.records) :
          plan.stream[i] \in {RecordItem(m.channel, m.target, r), RecordItem(m.channel, HashTarget(m), r)}
    BY <2>1 DEF PublicItem, HashItem
  <2> PICK r \in ToSet(ns.records) :
          plan.stream[i] \in {RecordItem(m.channel, m.target, r), RecordItem(m.channel, HashTarget(m), r)}
    BY <2>3
  <2>4. ~r.metadata
    <3>1. ~HasMetadata(PublicOf(m, snapshots) \union HashesOf(m, snapshots))
      BY AcceptedPlan DEF UnsupportedMetadata
    <3> QED
      BY <2>3, <3>1 DEF HasMetadata, ToSet
  <2>5. /\ plan.stream[i].file = m.channel /\ plan.stream[i].target \in {m.target, HashTarget(m)}
        /\ plan.stream[i].key = r.key /\ plan.stream[i].value = r.value
    BY <2>3 DEF RecordItem
  <2> QED
    BY <2>2, <2>3, <2>4, <2>5 DEF ApplicationRecord
<1> QED
  BY <1>1, PlanInvariant, PTL

(***************************************************************************)
(* What ImportPlan assumes of plans (PlanAssumption, CountAssumption)      *)
(* holds of those Preflight accepts: there is a target, the stream ends    *)
(* with the digest check of an opened file, every item is of such a file,  *)
(* every record goes to a counted target, and the counts are right.        *)
(***************************************************************************)
AsImportAssumes(p, s) ==
  /\ DOMAIN p.counts # {}
  /\ p.stream # <<>> /\ p.stream[Len(p.stream)].kind = "end"
  /\ \A i \in DOMAIN p.stream :
       /\ p.stream[i].file \in DOMAIN s
       /\ p.stream[i].kind = "record" => p.stream[i].target \in DOMAIN p.counts
  /\ \A t \in DOMAIN p.counts :
       p.counts[t] = Cardinality({i \in 1..Len(p.stream) : p.stream[i].kind = "record" /\ p.stream[i].target = t})

(* The preflight hands the transaction a plan as Import relies on it       *)
(* (import.go, lines 117 to 156).                                          *)
THEOREM PlansAreAsAssumed == Spec => [](Accepted => AsImportAssumes(plan, snapshots))
<1>1. PlanInv => (Accepted => AsImportAssumes(plan, snapshots))
  <2> SUFFICES ASSUME PlanInv, Accepted PROVE AsImportAssumes(plan, snapshots)
    OBVIOUS
  <2>1. DOMAIN plan.counts # {}
    BY AcceptedPlan DEF CountedTargets
  <2>2. plan.stream # <<>> /\ plan.stream[Len(plan.stream)].kind = "end"
    <3>1. \A c : EndItem(c).kind = "end"
      BY DEF EndItem
    <3>2. Len(plan.stream) # 0 /\ \E c \in DOMAIN snapshots : plan.stream[Len(plan.stream)] = EndItem(c)
      BY AcceptedPlan
    <3>3. Len(<<>>) = 0
      OBVIOUS
    <3> QED
      BY <3>1, <3>2, <3>3
  <2>3. ASSUME NEW i \in DOMAIN plan.stream
        PROVE  plan.stream[i].file \in DOMAIN snapshots
    <3>1. plan.stream[i] \in ToSet(plan.stream)
      BY DEF ToSet
    <3>2. CASE \E c \in DOMAIN snapshots : plan.stream[i] = EndItem(c)
      BY <3>2 DEF EndItem
    <3>3. CASE \E m \in ToSet(file) : PublicItem(plan.stream[i], m, snapshots) \/ HashItem(plan.stream[i], m, snapshots)
      <4>1. PICK m \in ToSet(file) : PublicItem(plan.stream[i], m, snapshots) \/ HashItem(plan.stream[i], m, snapshots)
        BY <3>3
      <4>2. plan.stream[i].file = m.channel
        <5>1. CASE PublicItem(plan.stream[i], m, snapshots)
          BY <5>1 DEF PublicItem, RecordItem
        <5>2. CASE HashItem(plan.stream[i], m, snapshots)
          BY <5>2 DEF HashItem, RecordItem
        <5> QED
          BY <4>1, <5>1, <5>2
      <4> QED
        BY <4>2, AcceptedPlan DEF Sound
    <3> QED
      BY <3>1, <3>2, <3>3, AcceptedPlan
  <2>4. \A i \in DOMAIN plan.stream : plan.stream[i].kind = "record" => plan.stream[i].target \in DOMAIN plan.counts
    BY ItemsHaveCountedTargets DEF RecordItems
  <2>5. ASSUME NEW t \in DOMAIN plan.counts
        PROVE  plan.counts[t]
                 = Cardinality({i \in 1..Len(plan.stream) : plan.stream[i].kind = "record" /\ plan.stream[i].target = t})
    <3>1. DOMAIN plan.stream = 1..Len(plan.stream)
      BY AcceptedPlan, Positions
    <3> QED
      BY <3>1, AcceptedPlan DEF HitCount, Hits
  <2> QED
    BY <2>1, <2>2, <2>3, <2>4, <2>5 DEF AsImportAssumes
<1> QED
  BY <1>1, PlanInvariant, PTL
=============================================================================
