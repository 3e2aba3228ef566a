---------------------------- MODULE Finite_proofs -----------------------------
(***************************************************************************)
(* What the library does not say of finite sets: a set of naturals has a   *)
(* least element and a family of subsets a smallest one; how a sum over a  *)
(* set changes with the set; and where a row stands in a list that is      *)
(* ordered by age, as long as rows only enter it.                          *)
(***************************************************************************)
EXTENDS Integers, FiniteSets, Functions, FiniteSetTheorems, TLAPS

-----------------------------------------------------------------------------
(* Least elements *)

\* A nonempty set of naturals has a least element.
LEMMA LeastNat ==
  ASSUME NEW N \in SUBSET Nat, N # {}
  PROVE  \E n \in N : \A m \in N : n <= m
<1> DEFINE Less == {ss \in Nat \X Nat : ss[1] < ss[2]}
<1>1. IsWellFoundedOn(Less, Nat)
  BY NatLessThanWellFounded DEF OpToRel
<1>2. PICK n \in N : \A m \in N : ~(<<m, n>> \in Less)
  <2> HIDE DEF Less
  <2> QED
    BY <1>1, WFMin, Zenon
<1>3. \A m \in N : m < n => <<m, n>> \in Less
  OBVIOUS
<1>4. \A m \in N : ~(m < n)
  BY <1>2, <1>3
<1> HIDE DEF Less
<1> QED
  BY <1>4

\* Among the subsets of a finite set there is a smallest one.
LEMMA SmallestSet ==
  ASSUME NEW S, IsFiniteSet(S), NEW B \in SUBSET (SUBSET S), B # {}
  PROVE  \E T \in B : \A U \in SUBSET S : Cardinality(U) < Cardinality(T) => U \notin B
<1>1. \A T \in SUBSET S : Cardinality(T) \in Nat
  BY FS_Subset, FS_CardinalityType
<1> DEFINE N == {Cardinality(T) : T \in B}
<1>2. N \in SUBSET Nat /\ N # {}
  BY <1>1
<1>3. PICK n \in N : \A m \in N : n <= m
  <2> HIDE DEF N
  <2> QED
    BY <1>2, LeastNat
<1>4. PICK T \in B : n = Cardinality(T)
  OBVIOUS
<1>5. \A U \in B : ~(Cardinality(U) < Cardinality(T))
  BY <1>1, <1>3, <1>4
<1> QED
  BY <1>5

-----------------------------------------------------------------------------
(* Sums over a finite set *)

Pick(T) == CHOOSE x \in T : TRUE

\* One element less.
LEMMA PickOne ==
  ASSUME NEW S, IsFiniteSet(S), NEW T \in SUBSET S
  PROVE  /\ T = {} \/ Pick(T) \in T
         /\ \A x \in T : /\ T \ {x} \in SUBSET S
                         /\ Cardinality(T \ {x}) < Cardinality(T)
<1>1. T = {} \/ Pick(T) \in T
  BY DEF Pick
<1>2. IsFiniteSet(T) /\ Cardinality(T) \in Nat
  BY FS_Subset, FS_CardinalityType
<1>3. \A x \in T : Cardinality(T \ {x}) = Cardinality(T) - 1
  BY <1>2, FS_RemoveElement
<1> QED
  BY <1>1, <1>2, <1>3

Defines(f, w, S) ==
  f = [T \in SUBSET S |-> IF T = {} THEN 0 ELSE w[Pick(T)] + f[T \ {Pick(T)}]]

LEMMA SumIs ==
  ASSUME NEW w, NEW S
  PROVE SumFunctionOnSet(w, S) = (CHOOSE f : Defines(f, w, S))[S]
  BY DEF SumFunctionOnSet, FoldFunctionOnSet, MapThenFoldSet, Defines, Pick

\* The recursive function behind a sum exists.
LEMMA SumDefined ==
  ASSUME NEW S, IsFiniteSet(S), NEW w, \A x \in S : w[x] \in Int
  PROVE  \E f \in [SUBSET S -> Int] : Defines(f, w, S)
<1> DEFINE Small(n) == {T \in SUBSET S : Cardinality(T) <= n}
           Partial(f, n) ==
             /\ f \in [Small(n) -> Int]
             /\ \A T \in Small(n) : f[T] = IF T = {} THEN 0 ELSE w[Pick(T)] + f[T \ {Pick(T)}]
           N == {n \in Nat : ~ \E f : Partial(f, n)}
<1>1. \A T \in SUBSET S : IsFiniteSet(T) /\ Cardinality(T) \in Nat /\ Cardinality(T) <= Cardinality(S)
  BY FS_Subset, FS_CardinalityType
<1>2. \A T \in SUBSET S : T # {} =>
        Pick(T) \in S /\ T \ {Pick(T)} \in SUBSET S /\ Cardinality(T \ {Pick(T)}) < Cardinality(T)
  BY PickOne
<1>3. N = {}
  <2> SUFFICES ASSUME N # {} PROVE FALSE
    OBVIOUS
  <2>1. PICK n \in N : \A m \in N : n <= m
    <3>1. N \in SUBSET Nat
      OBVIOUS
    <3> HIDE DEF N
    <3> QED
      BY <3>1, LeastNat
  <2>2. n \in Nat /\ ~ \E f : Partial(f, n)
    OBVIOUS
  <2>3. CASE n = 0
    <3>1. \A T \in Small(n) : T = {}
      BY <1>1, <2>3, FS_EmptySet
    <3>2. Partial([T \in Small(n) |-> 0], n)
      BY <3>1
    <3> QED
      BY <2>2, <3>2
  <2>4. CASE n # 0
    <3>1. n - 1 \in Nat /\ n - 1 \notin N
      <4>1. n - 1 \in Nat /\ ~(n <= n - 1)
        BY <2>2, <2>4
      <4> HIDE DEF N
      <4> QED
        BY <2>1, <4>1
    <3>2. PICK f : Partial(f, n - 1)
      BY <3>1
    <3> DEFINE g == [T \in Small(n) |-> IF T = {} THEN 0 ELSE w[Pick(T)] + f[T \ {Pick(T)}]]
    <3>3. \A T \in Small(n) : T # {} => T \ {Pick(T)} \in Small(n - 1) /\ Pick(T) \in S
      BY <1>1, <1>2, <2>2
    <3>4. g \in [Small(n) -> Int]
      BY <3>2, <3>3
    <3>5. \A T \in Small(n - 1) : T \in Small(n) /\ g[T] = f[T]
      BY <1>1, <2>2, <3>2
    <3>6. Partial(g, n)
      BY <3>3, <3>4, <3>5
    <3> QED
      BY <2>2, <3>6
  <2> QED
    BY <2>3, <2>4
<1>4. PICK f : Partial(f, Cardinality(S))
  BY <1>1, <1>3
<1>5. Small(Cardinality(S)) = SUBSET S
  BY <1>1
<1>6. f \in [SUBSET S -> Int]
  BY <1>4, <1>5
<1>7. Defines(f, w, S)
  BY <1>4, <1>5, <1>6 DEF Defines
<1> QED
  BY <1>6, <1>7

\* Two such functions agree where both are defined.
LEMMA SumUnique ==
  ASSUME NEW S, IsFiniteSet(S), NEW w, NEW f, Defines(f, w, S),
         NEW T \in SUBSET S, NEW g, Defines(g, w, T)
  PROVE  \A U \in SUBSET T : g[U] = f[U]
<1> DEFINE B == {U \in SUBSET T : g[U] # f[U]}
<1> SUFFICES ASSUME B # {} PROVE FALSE
  OBVIOUS
<1>1. IsFiniteSet(T)
  BY FS_Subset
<1>2. PICK U \in B : \A V \in SUBSET T : Cardinality(V) < Cardinality(U) => V \notin B
  <2>1. B \in SUBSET (SUBSET T)
    OBVIOUS
  <2> HIDE DEF B
  <2> QED
    BY <1>1, <2>1, SmallestSet
<1>3. g[U] = IF U = {} THEN 0 ELSE w[Pick(U)] + g[U \ {Pick(U)}]
  BY DEF Defines
<1>4. f[U] = IF U = {} THEN 0 ELSE w[Pick(U)] + f[U \ {Pick(U)}]
  BY DEF Defines
<1>5. U # {} => g[U \ {Pick(U)}] = f[U \ {Pick(U)}]
  BY <1>1, <1>2, PickOne
<1> QED
  BY <1>3, <1>4, <1>5

LEMMA SumUnfold ==
  ASSUME NEW S, IsFiniteSet(S), NEW w, \A x \in S : w[x] \in Int, NEW T \in SUBSET S
  PROVE  /\ SumFunctionOnSet(w, T) \in Int
         /\ T = {} => SumFunctionOnSet(w, T) = 0
         /\ T # {} =>
              SumFunctionOnSet(w, T) = w[Pick(T)] + SumFunctionOnSet(w, T \ {Pick(T)})
<1>1. PICK f \in [SUBSET S -> Int] : Defines(f, w, S)
  BY SumDefined
<1>2. ASSUME NEW U \in SUBSET S PROVE SumFunctionOnSet(w, U) = f[U]
  <2>1. IsFiniteSet(U) /\ \A x \in U : w[x] \in Int
    BY FS_Subset
  <2>2. Defines(CHOOSE g : Defines(g, w, U), w, U)
    BY <2>1, SumDefined
  <2> DEFINE g == CHOOSE h : Defines(h, w, U)
  <2>3. g[U] = f[U]
    <3>1. Defines(g, w, U)
      BY <2>2
    <3> HIDE DEF g
    <3> QED
      BY <1>1, <3>1, SumUnique
  <2> QED
    BY <2>3, SumIs
<1>3. T # {} => T \ {Pick(T)} \in SUBSET S
  OBVIOUS
<1>4. f[T] = IF T = {} THEN 0 ELSE w[Pick(T)] + f[T \ {Pick(T)}]
  BY <1>1 DEF Defines
<1> QED
  BY <1>1, <1>2, <1>3, <1>4

LEMMA SumType ==
  ASSUME NEW S, IsFiniteSet(S), NEW w, \A x \in S : w[x] \in Int
  PROVE  SumFunctionOnSet(w, S) \in Int
  BY SumUnfold

LEMMA SumEmpty == \A w : SumFunctionOnSet(w, {}) = 0
<1> TAKE w
<1> DEFINE E == {}
<1>1. IsFiniteSet(E) /\ E \in SUBSET E /\ E = {} /\ \A x \in E : w[x] \in Int
  BY FS_EmptySet
<1>2. SumFunctionOnSet(w, E) = 0
  <2> HIDE DEF E
  <2> QED
    BY <1>1, SumUnfold
<1> QED
  BY <1>2

\* Any element can be taken out of a sum, not only the one the fold picks.
LEMMA SumRemove ==
  ASSUME NEW S, IsFiniteSet(S), NEW w, \A y \in S : w[y] \in Int,
         NEW T \in SUBSET S, NEW x \in T
  PROVE  SumFunctionOnSet(w, T) = w[x] + SumFunctionOnSet(w, T \ {x})
<1> DEFINE Sum(U) == SumFunctionOnSet(w, U)
           B == {U \in SUBSET S : \E y \in U : Sum(U) # w[y] + Sum(U \ {y})}
<1> SUFFICES ASSUME B # {} PROVE FALSE
  OBVIOUS
<1>1. PICK U \in B : \A V \in SUBSET S : Cardinality(V) < Cardinality(U) => V \notin B
  <2>1. B \in SUBSET (SUBSET S)
    OBVIOUS
  <2> HIDE DEF B
  <2> QED
    BY <2>1, SmallestSet
<1>2. PICK y \in U : Sum(U) # w[y] + Sum(U \ {y})
  OBVIOUS
<1> DEFINE p == Pick(U)
<1>3. p \in U /\ Sum(U) = w[p] + Sum(U \ {p})
  BY <1>2, PickOne, SumUnfold
<1>4. y # p
  BY <1>2, <1>3
<1>5. /\ U \ {p} \in SUBSET S /\ Cardinality(U \ {p}) < Cardinality(U)
      /\ U \ {y} \in SUBSET S /\ Cardinality(U \ {y}) < Cardinality(U)
  BY <1>3, PickOne
<1>6. U \ {p} \notin B /\ U \ {y} \notin B
  BY <1>1, <1>5
<1>7. Sum(U \ {p}) = w[y] + Sum((U \ {p}) \ {y})
  BY <1>4, <1>5, <1>6
<1>8. Sum(U \ {y}) = w[p] + Sum((U \ {y}) \ {p})
  BY <1>3, <1>4, <1>5, <1>6
<1>9. (U \ {p}) \ {y} = (U \ {y}) \ {p}
  OBVIOUS
<1> DEFINE rest == Sum((U \ {y}) \ {p})
<1>10. rest \in Int /\ w[y] \in Int /\ w[p] \in Int
  BY <1>3, SumUnfold
<1>11. Sum(U) = w[p] + (w[y] + rest) /\ Sum(U \ {y}) = w[p] + rest
  BY <1>3, <1>7, <1>8, <1>9
<1> QED
  <2> HIDE DEF rest, Sum, p, B
  <2> QED
    BY <1>2, <1>10, <1>11

LEMMA SumAdd ==
  ASSUME NEW S, IsFiniteSet(S), NEW w, \A y \in S : w[y] \in Int,
         NEW T \in SUBSET S, NEW x \in S \ T
  PROVE  SumFunctionOnSet(w, T \cup {x}) = SumFunctionOnSet(w, T) + w[x]
<1>1. T \cup {x} \in SUBSET S /\ (T \cup {x}) \ {x} = T /\ x \in T \cup {x}
  OBVIOUS
<1>2. SumFunctionOnSet(w, T \cup {x}) = w[x] + SumFunctionOnSet(w, (T \cup {x}) \ {x})
  BY <1>1, SumRemove
<1>3. SumFunctionOnSet(w, T) \in Int /\ w[x] \in Int
  BY SumUnfold
<1>4. SumFunctionOnSet(w, T \cup {x}) = w[x] + SumFunctionOnSet(w, T)
  BY <1>1, <1>2, Zenon
<1> QED
  BY <1>3, <1>4

\* A sum reads its function on the set only.
LEMMA SumAgree ==
  ASSUME NEW S, IsFiniteSet(S), NEW w, NEW v, \A y \in S : w[y] \in Int /\ v[y] = w[y]
  PROVE  SumFunctionOnSet(v, S) = SumFunctionOnSet(w, S)
<1> DEFINE B == {U \in SUBSET S : SumFunctionOnSet(v, U) # SumFunctionOnSet(w, U)}
<1> SUFFICES ASSUME B # {} PROVE FALSE
  OBVIOUS
<1>1. PICK U \in B : \A V \in SUBSET S : Cardinality(V) < Cardinality(U) => V \notin B
  <2>1. B \in SUBSET (SUBSET S)
    OBVIOUS
  <2> HIDE DEF B
  <2> QED
    BY <2>1, SmallestSet
<1>2. U # {} => Pick(U) \in U /\ SumFunctionOnSet(v, U \ {Pick(U)}) = SumFunctionOnSet(w, U \ {Pick(U)})
  BY <1>1, PickOne
<1>3. /\ U = {} => SumFunctionOnSet(w, U) = 0
      /\ U # {} => SumFunctionOnSet(w, U) = w[Pick(U)] + SumFunctionOnSet(w, U \ {Pick(U)})
  BY SumUnfold
<1>4. /\ U = {} => SumFunctionOnSet(v, U) = 0
      /\ U # {} => SumFunctionOnSet(v, U) = v[Pick(U)] + SumFunctionOnSet(v, U \ {Pick(U)})
  <2>1. \A y \in S : v[y] \in Int
    OBVIOUS
  <2>2. U \in SUBSET S
    OBVIOUS
  <2> HIDE DEF B
  <2> QED
    BY <2>1, <2>2, SumUnfold
<1>5. U # {} => v[Pick(U)] = w[Pick(U)]
  BY <1>2
<1>6. SumFunctionOnSet(v, U) # SumFunctionOnSet(w, U)
  OBVIOUS
<1> HIDE DEF B
<1> QED
  BY <1>2, <1>3, <1>4, <1>5, <1>6
-----------------------------------------------------------------------------
(* Places in a list *)

\* How many elements of L are no older than r, when t says how old they are.
PlaceIn(L, t, r) == Cardinality({q \in L : t[q] >= t[r]})

\* No two elements have one age.
Ordered(L, t) ==
  /\ IsFiniteSet(L)
  /\ \A r \in L : t[r] \in Nat
  /\ \A r, q \in L : t[r] = t[q] => r = q

LEMMA PlaceType ==
  ASSUME NEW L, NEW t, Ordered(L, t), NEW r \in L
  PROVE  /\ PlaceIn(L, t, r) \in 1 .. Cardinality(L)
         /\ PlaceIn(L, t, r) \in Nat
<1> DEFINE U == {q \in L : t[q] >= t[r]}
<1>1. U \in SUBSET L /\ r \in U
  BY DEF Ordered
<1>2. IsFiniteSet(L)
  BY DEF Ordered
<1> HIDE DEF U
<1>3. IsFiniteSet(U) /\ Cardinality(U) <= Cardinality(L) /\ Cardinality(U) \in Nat /\ Cardinality(L) \in Nat
  BY <1>1, <1>2, FS_Subset, FS_CardinalityType
<1>4. Cardinality(U) # 0
  BY <1>1, <1>3, FS_EmptySet
<1>5. Cardinality(U) \in 1 .. Cardinality(L) /\ Cardinality(U) \in Nat
  BY <1>3, <1>4
<1> QED
  BY <1>5 DEF PlaceIn, U

\* A newer element stands closer to the front.
LEMMA PlaceOrder ==
  ASSUME NEW L, NEW t, Ordered(L, t), NEW r \in L, NEW q \in L, t[q] > t[r]
  PROVE  PlaceIn(L, t, q) < PlaceIn(L, t, r)
<1> DEFINE U == {x \in L : t[x] >= t[q]}
           V == {x \in L : t[x] >= t[r]}
<1>1. U \in SUBSET V /\ V \in SUBSET L /\ r \in V /\ r \notin U
  BY DEF Ordered
<1>2. IsFiniteSet(L)
  BY DEF Ordered
<1> HIDE DEF U, V
<1>3. IsFiniteSet(V) /\ IsFiniteSet(U) /\ Cardinality(U) \in Nat /\ Cardinality(V) \in Nat
  BY <1>1, <1>2, FS_Subset, FS_CardinalityType
<1>4. Cardinality(U) <= Cardinality(V) /\ Cardinality(U) # Cardinality(V)
  BY <1>1, <1>3, FS_Subset
<1>5. Cardinality(U) < Cardinality(V)
  BY <1>3, <1>4
<1> QED
  BY <1>5 DEF PlaceIn, U, V

LEMMA PlaceInjective ==
  ASSUME NEW L, NEW t, Ordered(L, t), NEW r \in L, NEW q \in L, r # q
  PROVE  PlaceIn(L, t, r) # PlaceIn(L, t, q)
<1>1. t[r] \in Nat /\ t[q] \in Nat /\ t[r] # t[q]
  BY DEF Ordered
<1>2. PlaceIn(L, t, r) \in Nat /\ PlaceIn(L, t, q) \in Nat
  BY PlaceType
<1>3. CASE t[r] > t[q]
  BY <1>2, <1>3, PlaceOrder
<1>4. CASE t[q] > t[r]
  BY <1>2, <1>4, PlaceOrder
<1> QED
  BY <1>1, <1>3, <1>4

\* Every place up to the length of the list is taken.
LEMMA PlaceSurjective ==
  ASSUME NEW L, NEW t, Ordered(L, t), NEW k \in 1 .. Cardinality(L)
  PROVE  \E r \in L : PlaceIn(L, t, r) = k
<1> DEFINE n == Cardinality(L)
           f == [r \in L |-> PlaceIn(L, t, r)]
<1>1. IsFiniteSet(L) /\ n \in Nat
  BY FS_CardinalityType DEF Ordered
<1>2. IsFiniteSet(1 .. n) /\ Cardinality(1 .. n) = n
  BY <1>1, FS_Interval
<1>3. f \in [L -> 1 .. n]
  BY PlaceType
<1>4. \A r, q \in L : f[r] = f[q] => r = q
  BY PlaceInjective
<1>5. f \in Injection(L, 1 .. n)
  BY <1>3, <1>4 DEF Injection, IsInjective
<1>6. f \in Surjection(L, 1 .. n)
  <2> HIDE DEF f
  <2> QED
    BY <1>1, <1>2, <1>5, FS_Injection
<1> QED
  BY <1>6 DEF Surjection

\* A page that something comes after has no room left.
LEMMA PagesAreFull ==
  ASSUME NEW L, NEW t, Ordered(L, t), NEW skip \in Nat, NEW limit \in Nat,
         NEW r \in L, PlaceIn(L, t, r) > skip + limit
  PROVE  Cardinality({q \in L : PlaceIn(L, t, q) \in skip + 1 .. skip + limit}) >= limit
<1> DEFINE R == {q \in L : PlaceIn(L, t, q) \in skip + 1 .. skip + limit}
           I == skip + 1 .. skip + limit
           g == [q \in R |-> PlaceIn(L, t, q)]
<1>1. I \in SUBSET (1 .. Cardinality(L))
  <2>1. PlaceIn(L, t, r) \in 1 .. Cardinality(L) /\ Cardinality(L) \in Nat
    BY PlaceType, FS_CardinalityType DEF Ordered
  <2> QED
    BY <2>1
<1>2. \A k \in I : \E q \in R : g[q] = k
  BY <1>1, PlaceSurjective
<1>3. g \in Surjection(R, I)
  BY <1>2 DEF Surjection
<1>4. IsFiniteSet(R)
  BY FS_Subset DEF Ordered
<1>5. Cardinality(I) = limit
  BY FS_Interval
<1>6. Cardinality(I) <= Cardinality(R)
  <2> HIDE DEF g, R, I
  <2> QED
    BY <1>3, <1>4, FS_Surjection
<1>7. Cardinality(R) \in Nat
  <2> HIDE DEF R
  <2> QED
    BY <1>4, FS_CardinalityType
<1> QED
  <2> HIDE DEF R, I
  <2>1. Cardinality(R) >= limit
    BY <1>5, <1>6, <1>7
  <2> QED
    BY <2>1 DEF R

\* No more elements stand behind a place than the list has places there.
LEMMA FewBehind ==
  ASSUME NEW L, NEW t, Ordered(L, t), NEW skip \in Nat, NEW extra \in Nat,
         Cardinality(L) <= skip + extra,
         NEW S \in SUBSET L, \A r \in S : PlaceIn(L, t, r) > skip
  PROVE  Cardinality(S) <= extra
<1> DEFINE I == skip + 1 .. skip + extra
           f == [r \in S |-> PlaceIn(L, t, r)]
<1>1. \A r \in S : PlaceIn(L, t, r) \in I
  <2>1. Cardinality(L) \in Nat
    BY FS_CardinalityType DEF Ordered
  <2>2. \A r \in S : PlaceIn(L, t, r) \in 1 .. Cardinality(L) /\ PlaceIn(L, t, r) \in Nat
    BY PlaceType
  <2> QED
    BY <2>1, <2>2
<1>2. f \in [S -> I]
  BY <1>1
<1>3. \A r, q \in S : f[r] = f[q] => r = q
  BY PlaceInjective
<1>4. f \in Injection(S, I)
  BY <1>2, <1>3 DEF Injection, IsInjective
<1>5. IsFiniteSet(I) /\ Cardinality(I) = extra
  BY FS_Interval
<1> HIDE DEF f, I
<1> QED
  BY <1>4, <1>5, FS_Injection

\* Whatever is put into the list, an element moves back by one place or stays.
LEMMA PlaceGrows ==
  ASSUME NEW L, NEW x, NEW t, Ordered(L \cup {x}, t), NEW r \in L
  PROVE  /\ Ordered(L, t)
         /\ PlaceIn(L \cup {x}, t, r) >= PlaceIn(L, t, r)
         /\ PlaceIn(L \cup {x}, t, r) <= PlaceIn(L, t, r) + 1
<1> DEFINE U == {q \in L : t[q] >= t[r]}
           V == {q \in L \cup {x} : t[q] >= t[r]}
<1>1. Ordered(L, t)
  <2>1. IsFiniteSet(L \cup {x}) /\ L \in SUBSET (L \cup {x})
    BY DEF Ordered
  <2>2. IsFiniteSet(L)
    BY <2>1, FS_Subset
  <2> QED
    BY <2>2 DEF Ordered
<1>2. V = U \/ V = U \cup {x}
  OBVIOUS
<1>3. IsFiniteSet(U)
  BY <1>1, FS_Subset DEF Ordered
<1> HIDE DEF U, V
<1>4. Cardinality(U) \in Nat
  BY <1>3, FS_CardinalityType
<1>5. Cardinality(V) = Cardinality(U) \/ Cardinality(V) = Cardinality(U) + 1
  BY <1>2, <1>3, FS_AddElement
<1>6. Cardinality(V) >= Cardinality(U) /\ Cardinality(V) <= Cardinality(U) + 1
  BY <1>4, <1>5
<1> QED
  BY <1>1, <1>6 DEF PlaceIn, U, V
=============================================================================
