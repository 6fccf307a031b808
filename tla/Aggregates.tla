----------------------------- MODULE Aggregates -----------------------------
(* What the models compute from sets of numbers: least and greatest        *)
(* elements (Min, Max) and sums (SumFunction), as the community modules    *)
(* define them.  Where a fact needs induction, a least counterexample is   *)
(* taken: the induction theorems of the library have operators as          *)
(* parameters.                                                             *)
EXTENDS Integers, FiniteSetsExt, Functions, FiniteSetTheorems, TLAPS

(* A set of natural numbers that is not empty has a least element.         *)
LEMMA LeastNatural ==
    ASSUME NEW S \in SUBSET Nat, S # {}
    PROVE  \E m \in S : \A n \in S : m <= n
<1>1. PICK m \in S : \A n \in S : ~ (<<n, m>> \in OpToRel(<, Nat))
  BY NatLessThanWellFounded, WFMin
<1>2. \A n \in S : ~ (n < m)
  BY <1>1 DEF OpToRel
<1> QED
  BY <1>2

(* Min of such a set is that element.                                      *)
LEMMA MinOfNaturals ==
    ASSUME NEW S \in SUBSET Nat, S # {}
    PROVE  Min(S) \in S /\ \A n \in S : Min(S) <= n
BY LeastNatural DEF Min

(* A finite set of integers that is not empty has a greatest element: one  *)
(* that the fewest elements exceed.                                        *)
LEMMA GreatestOfFinite ==
    ASSUME NEW S \in SUBSET Int, IsFiniteSet(S), S # {}
    PROVE  \E m \in S : \A n \in S : n <= m
<1> DEFINE Above(m) == {n \in S : n > m}
           Counts == {Cardinality(Above(m)) : m \in S}
<1>1. \A m \in S : IsFiniteSet(Above(m)) /\ Cardinality(Above(m)) \in Nat
  BY FS_Subset, FS_CardinalityType
<1>2. Counts \in SUBSET Nat /\ Counts # {}
  BY <1>1
<1>3. PICK m \in S : \A n \in S : Cardinality(Above(m)) <= Cardinality(Above(n))
  <2>1. PICK k \in Counts : \A j \in Counts : k <= j
    BY <1>2, LeastNatural
  <2> QED
    BY <2>1
<1>4. \A n \in S : n <= m
  <2> SUFFICES ASSUME NEW n \in S, ~ (n <= m) PROVE FALSE
    OBVIOUS
  <2>1. n \in Above(m) /\ n \notin Above(n) /\ Above(n) \in SUBSET Above(m)
    <3>1. n \in Int /\ m \in Int /\ n > m
      OBVIOUS
    <3>2. \A k \in S : k \in Int /\ (k > n => k > m)
      BY <3>1
    <3>3. n \in Above(m)
      BY <3>1
    <3>4. n \notin Above(n)
      BY <3>1
    <3>5. Above(n) \subseteq Above(m)
      BY <3>2
    <3> QED
      BY <3>3, <3>4, <3>5
  <2>2. Cardinality(Above(n)) # Cardinality(Above(m))
    BY <1>1, <2>1, FS_Subset
  <2>3. Cardinality(Above(n)) <= Cardinality(Above(m))
    BY <1>1, <2>1, FS_Subset
  <2> HIDE DEF Above
  <2> QED
    BY <1>1, <1>3, <2>2, <2>3
<1> QED
  BY <1>4

(* Max of such a set is that element.                                      *)
LEMMA MaxOfFinite ==
    ASSUME NEW S \in SUBSET Int, IsFiniteSet(S), S # {}
    PROVE  Max(S) \in S /\ \A n \in S : n <= Max(S)
<1>1. \E m \in S : \A n \in S : m >= n
  BY GreatestOfFinite
<1> QED
  BY <1>1 DEF Max

(* So it is with natural numbers that have a bound.                        *)
LEMMA MaxOfBounded ==
    ASSUME NEW S \in SUBSET Nat, S # {}, NEW bound \in Nat, \A n \in S : n <= bound
    PROVE  Max(S) \in S /\ \A n \in S : n <= Max(S)
<1>1. IsFiniteSet(S)
  BY FS_BoundedSetOfNaturals
<1>2. S \in SUBSET Int
  OBVIOUS
<1> QED
  BY <1>1, <1>2, MaxOfFinite

-----------------------------------------------------------------------------
(* Sums                                                                    *)

\* The element a sum takes out next.
Pick(s) == CHOOSE x \in s : TRUE

LEMMA PickIn == \A s : s # {} => Pick(s) \in s
BY DEF Pick

\* g gives the sums of f over the subsets of S.
IsSum(g, f, S) ==
    g = [s \in SUBSET S |-> IF s = {} THEN 0 ELSE f[Pick(s)] + g[s \ {Pick(s)}]]

(* A set of finite sets that is not empty has a member of which no proper  *)
(* subset is a member: induction over finite sets, without an operator as  *)
(* parameter.                                                              *)
LEMMA LeastSet ==
    ASSUME NEW F, F # {}, \A T \in F : IsFiniteSet(T)
    PROVE  \E T \in F : \A U \in F : U \subseteq T => U = T
<1> DEFINE Sizes == {Cardinality(T) : T \in F}
<1>1. Sizes \in SUBSET Nat /\ Sizes # {}
  BY FS_CardinalityType
<1>2. PICK k \in Sizes : \A j \in Sizes : k <= j
  BY <1>1, LeastNatural
<1>3. PICK T \in F : Cardinality(T) = k
  BY <1>2
<1>4. ASSUME NEW U \in F, U \subseteq T PROVE U = T
  <2>1. Cardinality(U) \in Sizes
    OBVIOUS
  <2>2. k \in Nat /\ Cardinality(U) \in Nat
    BY <1>1, <2>1
  <2> HIDE DEF Sizes
  <2>3. Cardinality(T) <= Cardinality(U)
    BY <1>2, <1>3, <2>1
  <2>4. U \in SUBSET T /\ IsFiniteSet(T)
    BY <1>4
  <2>5. Cardinality(U) <= Cardinality(T) /\ (Cardinality(T) = Cardinality(U) => T = U)
    BY <2>4, FS_Subset
  <2> QED
    BY <1>3, <2>2, <2>3, <2>5
<1> QED
  BY <1>4

(* Two such functions agree where they are both defined.                   *)
LEMMA SumsCohere ==
    ASSUME NEW f, NEW S, NEW T, NEW g, NEW h, IsSum(g, f, S), IsSum(h, f, T),
           NEW V, V \subseteq S, V \subseteq T, IsFiniteSet(V)
    PROVE  g[V] = h[V]
<1> SUFFICES ASSUME g[V] # h[V] PROVE FALSE
  OBVIOUS
<1> DEFINE F == {U \in SUBSET V : g[U] # h[U]}
<1>1. F # {} /\ \A U \in F : IsFiniteSet(U)
  BY FS_Subset
<1>2. PICK U \in F : \A W \in F : W \subseteq U => W = U
  <2> HIDE DEF F
  <2> QED
    BY <1>1, LeastSet
<1>3. U \in SUBSET S /\ U \in SUBSET T
  OBVIOUS
<1>4. g[U] = IF U = {} THEN 0 ELSE f[Pick(U)] + g[U \ {Pick(U)}]
  BY <1>3 DEF IsSum
<1>5. h[U] = IF U = {} THEN 0 ELSE f[Pick(U)] + h[U \ {Pick(U)}]
  BY <1>3 DEF IsSum
<1>6. U # {} => U \ {Pick(U)} \notin F
  BY <1>2, PickIn
<1>7. U # {} => g[U \ {Pick(U)}] = h[U \ {Pick(U)}]
  BY <1>6
<1> QED
  BY <1>4, <1>5, <1>7

(* There is such a function for every finite set.                          *)
LEMMA SumsExist ==
    ASSUME NEW f, NEW S, IsFiniteSet(S)
    PROVE  \E g : IsSum(g, f, S)
<1> SUFFICES ASSUME ~ \E g : IsSum(g, f, S) PROVE FALSE
  OBVIOUS
<1> DEFINE F == {U \in SUBSET S : ~ \E g : IsSum(g, f, U)}
<1>1. F # {} /\ \A U \in F : IsFiniteSet(U)
  BY FS_Subset
<1>2. PICK U \in F : \A W \in F : W \subseteq U => W = U
  <2> HIDE DEF F
  <2> QED
    BY <1>1, LeastSet
<1> DEFINE G(W) == CHOOSE g : IsSum(g, f, W)
           h == [s \in SUBSET U |-> IF s = {} THEN 0
                                    ELSE f[Pick(s)] + G(s \ {Pick(s)})[s \ {Pick(s)}]]
<1>3. ASSUME NEW W \in SUBSET U, W # U PROVE IsSum(G(W), f, W)
  <2>1. W \in SUBSET S /\ W \notin F
    BY <1>2, <1>3
  <2> QED
    BY <2>1
<1>4. IsFiniteSet(U)
  BY <1>1
<1>5. ASSUME NEW s \in SUBSET U, s # {}
      PROVE  h[s \ {Pick(s)}] = G(s \ {Pick(s)})[s \ {Pick(s)}]
  <2> DEFINE v == s \ {Pick(s)}
  <2>1. v \in SUBSET U /\ v # U
    BY <1>5, PickIn
  <2>2. IsSum(G(v), f, v)
    BY <1>3, <2>1
  <2>3. G(v)[v] = IF v = {} THEN 0 ELSE f[Pick(v)] + G(v)[v \ {Pick(v)}]
    BY <2>2 DEF IsSum
  <2>4. h[v] = IF v = {} THEN 0 ELSE f[Pick(v)] + G(v \ {Pick(v)})[v \ {Pick(v)}]
    BY <2>1
  <2>5. ASSUME v # {} PROVE G(v)[v \ {Pick(v)}] = G(v \ {Pick(v)})[v \ {Pick(v)}]
    <3>1. v \ {Pick(v)} \in SUBSET U /\ v \ {Pick(v)} # U
      BY <2>1
    <3>2. IsSum(G(v \ {Pick(v)}), f, v \ {Pick(v)})
      BY <1>3, <3>1
    <3>3. IsFiniteSet(v \ {Pick(v)})
      BY <1>4, <3>1, FS_Subset
    <3> QED
      BY <2>2, <3>2, <3>3, SumsCohere
  <2> QED
    BY <2>3, <2>4, <2>5
<1>6. h = [s \in SUBSET U |-> IF s = {} THEN 0 ELSE f[Pick(s)] + h[s \ {Pick(s)}]]
  <2> HIDE DEF G
  <2>1. \A s \in SUBSET U : s # {} => f[Pick(s)] + G(s \ {Pick(s)})[s \ {Pick(s)}] = f[Pick(s)] + h[s \ {Pick(s)}]
    BY <1>5
  <2> QED
    BY <2>1
<1>7. IsSum(h, f, U)
  BY <1>6 DEF IsSum
<1> QED
  BY <1>7

(* The equation of a sum.                                                  *)
LEMMA SumEquation ==
    ASSUME NEW f, NEW S, IsFiniteSet(S)
    PROVE  SumFunctionOnSet(f, S) =
             IF S = {} THEN 0 ELSE f[Pick(S)] + SumFunctionOnSet(f, S \ {Pick(S)})
<1> DEFINE G(T) == CHOOSE g : IsSum(g, f, T)
<1>1. ASSUME NEW T \in SUBSET S
      PROVE  IsSum(G(T), f, T) /\ SumFunctionOnSet(f, T) = G(T)[T]
  <2>1. IsSum(G(T), f, T)
    BY FS_Subset, SumsExist
  <2>2. SumFunctionOnSet(f, T) = (CHOOSE g : IsSum(g, f, T))[T]
    BY DEF SumFunctionOnSet, FoldFunctionOnSet, MapThenFoldSet, IsSum, Pick
  <2> QED
    BY <2>1, <2>2
<1> DEFINE R == S \ {Pick(S)}
<1>2. G(S)[S] = IF S = {} THEN 0 ELSE f[Pick(S)] + G(S)[R]
  <2>1. IsSum(G(S), f, S)
    BY <1>1
  <2> HIDE DEF G
  <2> QED
    BY <2>1 DEF IsSum
<1>3. G(S)[R] = G(R)[R]
  <2>1. R \subseteq S /\ IsFiniteSet(R)
    BY FS_Subset
  <2> HIDE DEF R, G
  <2> QED
    BY <1>1, <2>1, SumsCohere
<1> HIDE DEF G
<1> QED
  BY <1>1, <1>2, <1>3

LEMMA SumEmpty == \A f : SumFunctionOnSet(f, {}) = 0
BY SumEquation, FS_EmptySet

(* A sum of integers is an integer.                                        *)
LEMMA SumType ==
    ASSUME NEW f, NEW S, IsFiniteSet(S), \A x \in S : f[x] \in Int
    PROVE  SumFunctionOnSet(f, S) \in Int
<1> DEFINE F == {T \in SUBSET S : SumFunctionOnSet(f, T) \notin Int}
<1> SUFFICES ASSUME F # {} PROVE FALSE
  OBVIOUS
<1>1. \A T \in F : IsFiniteSet(T)
  BY FS_Subset
<1>2. PICK T \in F : \A U \in F : U \subseteq T => U = T
  <2> HIDE DEF F
  <2> QED
    BY <1>1, LeastSet
<1>3. SumFunctionOnSet(f, T) =
        IF T = {} THEN 0 ELSE f[Pick(T)] + SumFunctionOnSet(f, T \ {Pick(T)})
  BY <1>1, SumEquation
<1>4. T # {} => Pick(T) \in S /\ SumFunctionOnSet(f, T \ {Pick(T)}) \in Int
  BY <1>2, PickIn
<1> QED
  BY <1>3, <1>4

(* A sum of natural numbers is a natural number.                           *)
LEMMA SumNat ==
    ASSUME NEW f, NEW S, IsFiniteSet(S), \A x \in S : f[x] \in Nat
    PROVE  SumFunctionOnSet(f, S) \in Nat
<1> DEFINE F == {T \in SUBSET S : SumFunctionOnSet(f, T) \notin Nat}
<1> SUFFICES ASSUME F # {} PROVE FALSE
  OBVIOUS
<1>1. \A T \in F : IsFiniteSet(T)
  BY FS_Subset
<1>2. PICK T \in F : \A U \in F : U \subseteq T => U = T
  <2> HIDE DEF F
  <2> QED
    BY <1>1, LeastSet
<1>3. SumFunctionOnSet(f, T) =
        IF T = {} THEN 0 ELSE f[Pick(T)] + SumFunctionOnSet(f, T \ {Pick(T)})
  BY <1>1, SumEquation
<1>4. T # {} => Pick(T) \in S /\ SumFunctionOnSet(f, T \ {Pick(T)}) \in Nat
  BY <1>2, PickIn
<1> QED
  BY <1>3, <1>4

(* Any element can be taken out of a sum.                                  *)
LEMMA SumWithout ==
    ASSUME NEW f, NEW S, IsFiniteSet(S), \A x \in S : f[x] \in Int, NEW x \in S
    PROVE  SumFunctionOnSet(f, S) = f[x] + SumFunctionOnSet(f, S \ {x})
<1> DEFINE F == {T \in SUBSET S :
                   \E y \in T : SumFunctionOnSet(f, T) # f[y] + SumFunctionOnSet(f, T \ {y})}
<1> SUFFICES ASSUME F # {} PROVE FALSE
  OBVIOUS
<1>1. \A T \in F : IsFiniteSet(T)
  BY FS_Subset
<1>2. PICK T \in F : \A U \in F : U \subseteq T => U = T
  <2> HIDE DEF F
  <2> QED
    BY <1>1, LeastSet
<1>3. PICK y \in T : SumFunctionOnSet(f, T) # f[y] + SumFunctionOnSet(f, T \ {y})
  OBVIOUS
<1> DEFINE p == Pick(T)
<1>4. p \in T /\ SumFunctionOnSet(f, T) = f[p] + SumFunctionOnSet(f, T \ {p})
  <2>1. T # {}
    OBVIOUS
  <2> QED
    BY <1>1, <2>1, PickIn, SumEquation
<1>5. y # p
  BY <1>3, <1>4
<1>6. T \ {p} \notin F /\ T \ {y} \notin F
  BY <1>2, <1>4
<1>7. SumFunctionOnSet(f, T \ {p}) = f[y] + SumFunctionOnSet(f, (T \ {p}) \ {y})
  BY <1>5, <1>6
<1>8. SumFunctionOnSet(f, T \ {y}) = f[p] + SumFunctionOnSet(f, (T \ {y}) \ {p})
  BY <1>4, <1>5, <1>6
<1>9. SumFunctionOnSet(f, (T \ {p}) \ {y}) = SumFunctionOnSet(f, (T \ {y}) \ {p})
  <2>1. (T \ {p}) \ {y} = (T \ {y}) \ {p}
    OBVIOUS
  <2> QED
    BY ONLY <2>1, Zenon
<1>10. f[y] \in Int /\ f[p] \in Int
  BY <1>4
<1>11. SumFunctionOnSet(f, (T \ {y}) \ {p}) \in Int
  <2>1. (T \ {y}) \ {p} \in SUBSET S
    OBVIOUS
  <2> QED
    BY <2>1, FS_Subset, SumType
<1> HIDE DEF F, p
<1> QED
  BY <1>3, <1>4, <1>7, <1>8, <1>9, <1>10, <1>11

(* Sums of functions that agree are equal.                                 *)
LEMMA SumSame ==
    ASSUME NEW f, NEW g, NEW S, IsFiniteSet(S), \A x \in S : f[x] = g[x]
    PROVE  SumFunctionOnSet(f, S) = SumFunctionOnSet(g, S)
<1> DEFINE F == {T \in SUBSET S : SumFunctionOnSet(f, T) # SumFunctionOnSet(g, T)}
<1> SUFFICES ASSUME F # {} PROVE FALSE
  OBVIOUS
<1>1. \A T \in F : IsFiniteSet(T)
  BY FS_Subset
<1>2. PICK T \in F : \A U \in F : U \subseteq T => U = T
  <2> HIDE DEF F
  <2> QED
    BY <1>1, LeastSet
<1>3. SumFunctionOnSet(f, T) =
        IF T = {} THEN 0 ELSE f[Pick(T)] + SumFunctionOnSet(f, T \ {Pick(T)})
  BY <1>1, SumEquation
<1>4. SumFunctionOnSet(g, T) =
        IF T = {} THEN 0 ELSE g[Pick(T)] + SumFunctionOnSet(g, T \ {Pick(T)})
  BY <1>1, SumEquation
<1>5. T # {} => Pick(T) \in S /\ T \ {Pick(T)} \notin F
  BY <1>2, PickIn
<1>6. T # {} => f[Pick(T)] + SumFunctionOnSet(f, T \ {Pick(T)})
                  = g[Pick(T)] + SumFunctionOnSet(g, T \ {Pick(T)})
  BY <1>5
<1> QED
  BY <1>3, <1>4, <1>6

(* A function that changes at one point changes its sum by as much.        *)
LEMMA SumChange ==
    ASSUME NEW f, NEW g, NEW S, IsFiniteSet(S), NEW x \in S,
           \A y \in S : f[y] \in Int, g[x] \in Int, \A y \in S \ {x} : g[y] = f[y]
    PROVE  SumFunctionOnSet(g, S) = SumFunctionOnSet(f, S) + (g[x] - f[x])
<1>1. \A y \in S : g[y] \in Int
  OBVIOUS
<1>2. SumFunctionOnSet(f, S) = f[x] + SumFunctionOnSet(f, S \ {x})
  BY SumWithout
<1>3. SumFunctionOnSet(g, S) = g[x] + SumFunctionOnSet(g, S \ {x})
  BY <1>1, SumWithout
<1>4. IsFiniteSet(S \ {x})
  BY FS_Subset
<1>5. SumFunctionOnSet(g, S \ {x}) = SumFunctionOnSet(f, S \ {x})
  BY <1>4, SumSame
<1>6. SumFunctionOnSet(f, S \ {x}) \in Int
  BY <1>4, SumType
<1> QED
  BY <1>2, <1>3, <1>5, <1>6

(* Summing zeros.                                                          *)
LEMMA SumZero ==
    ASSUME NEW f, NEW S, IsFiniteSet(S), \A x \in S : f[x] = 0
    PROVE  SumFunctionOnSet(f, S) = 0
<1> DEFINE F == {T \in SUBSET S : SumFunctionOnSet(f, T) # 0}
<1> SUFFICES ASSUME F # {} PROVE FALSE
  OBVIOUS
<1>1. \A T \in F : IsFiniteSet(T)
  BY FS_Subset
<1>2. PICK T \in F : \A U \in F : U \subseteq T => U = T
  <2> HIDE DEF F
  <2> QED
    BY <1>1, LeastSet
<1>3. SumFunctionOnSet(f, T) =
        IF T = {} THEN 0 ELSE f[Pick(T)] + SumFunctionOnSet(f, T \ {Pick(T)})
  BY <1>1, SumEquation
<1>4. T # {} => f[Pick(T)] = 0 /\ SumFunctionOnSet(f, T \ {Pick(T)}) = 0
  BY <1>2, PickIn
<1> QED
  BY <1>3, <1>4

(* A sum is monotone.                                                      *)
LEMMA SumAtMost ==
    ASSUME NEW f, NEW g, NEW S, IsFiniteSet(S),
           \A x \in S : f[x] \in Int /\ g[x] \in Int /\ f[x] <= g[x]
    PROVE  SumFunctionOnSet(f, S) <= SumFunctionOnSet(g, S)
<1> DEFINE F == {T \in SUBSET S : ~(SumFunctionOnSet(f, T) <= SumFunctionOnSet(g, T))}
<1> SUFFICES ASSUME F # {} PROVE FALSE
  OBVIOUS
<1>1. \A T \in F : IsFiniteSet(T)
  BY FS_Subset
<1>2. PICK T \in F : \A U \in F : U \subseteq T => U = T
  <2> HIDE DEF F
  <2> QED
    BY <1>1, LeastSet
<1>3. SumFunctionOnSet(f, T) =
        IF T = {} THEN 0 ELSE f[Pick(T)] + SumFunctionOnSet(f, T \ {Pick(T)})
  BY <1>1, SumEquation
<1>4. SumFunctionOnSet(g, T) =
        IF T = {} THEN 0 ELSE g[Pick(T)] + SumFunctionOnSet(g, T \ {Pick(T)})
  BY <1>1, SumEquation
<1>5. CASE T = {}
  BY <1>3, <1>4, <1>5
<1>6. CASE T # {}
  <2>1. Pick(T) \in T /\ T \ {Pick(T)} \notin F /\ T \ {Pick(T)} \in SUBSET S
    BY <1>2, <1>6, PickIn
  <2>2. SumFunctionOnSet(f, T \ {Pick(T)}) \in Int /\ SumFunctionOnSet(g, T \ {Pick(T)}) \in Int
    BY <2>1, FS_Subset, SumType
  <2>3. SumFunctionOnSet(f, T \ {Pick(T)}) <= SumFunctionOnSet(g, T \ {Pick(T)})
    BY <2>1
  <2> QED
    BY <1>3, <1>4, <1>6, <2>1, <2>2, <2>3
<1> QED
  BY <1>5, <1>6

(* The sum of a function that adds two others.                             *)
LEMMA SumPlus ==
    ASSUME NEW f, NEW g, NEW h, NEW S, IsFiniteSet(S),
           \A x \in S : f[x] \in Int /\ g[x] \in Int /\ h[x] = f[x] + g[x]
    PROVE  SumFunctionOnSet(h, S) = SumFunctionOnSet(f, S) + SumFunctionOnSet(g, S)
<1> DEFINE F == {T \in SUBSET S :
                   SumFunctionOnSet(h, T) # SumFunctionOnSet(f, T) + SumFunctionOnSet(g, T)}
<1> SUFFICES ASSUME F # {} PROVE FALSE
  OBVIOUS
<1>1. \A T \in F : IsFiniteSet(T)
  BY FS_Subset
<1>2. PICK T \in F : \A U \in F : U \subseteq T => U = T
  <2> HIDE DEF F
  <2> QED
    BY <1>1, LeastSet
<1>3. \A e \in {f, g, h} :
        SumFunctionOnSet(e, T) = IF T = {} THEN 0 ELSE e[Pick(T)] + SumFunctionOnSet(e, T \ {Pick(T)})
  BY <1>1, SumEquation
<1>4. CASE T = {}
  BY <1>3, <1>4
<1>5. CASE T # {}
  <2> DEFINE R == T \ {Pick(T)}
  <2>1. Pick(T) \in T /\ R \notin F /\ R \in SUBSET S
    BY <1>2, <1>5, PickIn
  <2>2. IsFiniteSet(R) /\ \A x \in R : f[x] \in Int /\ g[x] \in Int
    BY <2>1, FS_Subset
  <2>3. SumFunctionOnSet(f, R) \in Int /\ SumFunctionOnSet(g, R) \in Int
    BY <2>2, SumType
  <2>4. SumFunctionOnSet(h, R) = SumFunctionOnSet(f, R) + SumFunctionOnSet(g, R)
    BY <2>1
  <2>5. /\ SumFunctionOnSet(f, T) = f[Pick(T)] + SumFunctionOnSet(f, R)
        /\ SumFunctionOnSet(g, T) = g[Pick(T)] + SumFunctionOnSet(g, R)
        /\ SumFunctionOnSet(h, T) = h[Pick(T)] + SumFunctionOnSet(h, R)
    BY <1>3, <1>5
  <2>6. f[Pick(T)] \in Int /\ g[Pick(T)] \in Int /\ h[Pick(T)] = f[Pick(T)] + g[Pick(T)]
    BY <2>1
  <2>7. SumFunctionOnSet(h, T) # SumFunctionOnSet(f, T) + SumFunctionOnSet(g, T)
    OBVIOUS
  <2> HIDE DEF R, F
  <2> QED
    BY <2>3, <2>4, <2>5, <2>6, <2>7
<1> QED
  BY <1>4, <1>5

(* The sum of a constant.                                                  *)
LEMMA SumConstant ==
    ASSUME NEW f, NEW c \in Int, NEW S, IsFiniteSet(S), \A x \in S : f[x] = c
    PROVE  SumFunctionOnSet(f, S) = c * Cardinality(S)
<1> DEFINE F == {T \in SUBSET S : SumFunctionOnSet(f, T) # c * Cardinality(T)}
<1> SUFFICES ASSUME F # {} PROVE FALSE
  OBVIOUS
<1>1. \A T \in F : IsFiniteSet(T)
  BY FS_Subset
<1>2. PICK T \in F : \A U \in F : U \subseteq T => U = T
  <2> HIDE DEF F
  <2> QED
    BY <1>1, LeastSet
<1>3. SumFunctionOnSet(f, T) =
        IF T = {} THEN 0 ELSE f[Pick(T)] + SumFunctionOnSet(f, T \ {Pick(T)})
  BY <1>1, SumEquation
<1>4. CASE T = {}
  <2>1. Cardinality(T) = 0
    BY <1>4, FS_EmptySet
  <2> QED
    BY <1>3, <1>4, <2>1
<1>5. CASE T # {}
  <2> DEFINE R == T \ {Pick(T)}
  <2>1. Pick(T) \in T /\ R \notin F /\ R \in SUBSET S
    BY <1>2, <1>5, PickIn
  <2>2. Cardinality(R) = Cardinality(T) - 1 /\ Cardinality(T) \in Nat
    BY <1>1, <2>1, FS_RemoveElement, FS_CardinalityType
  <2>3. SumFunctionOnSet(f, R) = c * Cardinality(R)
    BY <2>1
  <2>4. SumFunctionOnSet(f, T) = c + SumFunctionOnSet(f, R)
    BY <1>3, <1>5, <2>1
  <2>5. SumFunctionOnSet(f, T) # c * Cardinality(T)
    OBVIOUS
  <2> HIDE DEF R, F
  <2>6. c * (Cardinality(T) - 1) = c * Cardinality(T) - c
    BY <2>2
  <2>7. c * Cardinality(T) \in Int
    BY <2>2
  <2> QED
    BY <2>2, <2>3, <2>4, <2>5, <2>6, <2>7
<1> QED
  BY <1>4, <1>5

(* A factor of all summands.                                               *)
LEMMA SumScaled ==
    ASSUME NEW f, NEW g, NEW k \in Int, NEW S, IsFiniteSet(S),
           \A x \in S : f[x] \in Int /\ g[x] = k * f[x]
    PROVE  SumFunctionOnSet(g, S) = k * SumFunctionOnSet(f, S)
<1> DEFINE F == {T \in SUBSET S : SumFunctionOnSet(g, T) # k * SumFunctionOnSet(f, T)}
<1> SUFFICES ASSUME F # {} PROVE FALSE
  OBVIOUS
<1>1. \A T \in F : IsFiniteSet(T)
  BY FS_Subset
<1>2. PICK T \in F : \A U \in F : U \subseteq T => U = T
  <2> HIDE DEF F
  <2> QED
    BY <1>1, LeastSet
<1>3. \A e \in {f, g} :
        SumFunctionOnSet(e, T) = IF T = {} THEN 0 ELSE e[Pick(T)] + SumFunctionOnSet(e, T \ {Pick(T)})
  BY <1>1, SumEquation
<1>4. CASE T = {}
  BY <1>3, <1>4
<1>5. CASE T # {}
  <2> DEFINE R == T \ {Pick(T)}
             a == f[Pick(T)]
             b == SumFunctionOnSet(f, R)
  <2>1. Pick(T) \in T /\ R \notin F /\ R \in SUBSET S
    BY <1>2, <1>5, PickIn
  <2>2. IsFiniteSet(R) /\ \A x \in R : f[x] \in Int
    BY <2>1, FS_Subset
  <2>3. b \in Int
    BY <2>2, SumType
  <2>4. SumFunctionOnSet(g, R) = k * b
    BY <2>1
  <2>5. SumFunctionOnSet(f, T) = a + b /\ SumFunctionOnSet(g, T) = g[Pick(T)] + SumFunctionOnSet(g, R)
    BY <1>3, <1>5
  <2>6. a \in Int /\ g[Pick(T)] = k * a
    BY <2>1
  <2>7. SumFunctionOnSet(g, T) # k * SumFunctionOnSet(f, T)
    OBVIOUS
  <2> HIDE DEF R, F, a, b
  <2>8. k * (a + b) = k * a + k * b
    BY <2>3, <2>6
  <2> QED
    BY <2>4, <2>5, <2>6, <2>7, <2>8
<1> QED
  BY <1>4, <1>5

(* SumFunction is the sum over the whole domain.                           *)
LEMMA SumWhole == \A f : SumFunction(f) = SumFunctionOnSet(f, DOMAIN f)
BY DEF SumFunction
-----------------------------------------------------------------------------
(* The sum over two sets that do not meet.                                 *)
LEMMA SumDisjoint ==
    ASSUME NEW f, NEW A, NEW B, IsFiniteSet(A), IsFiniteSet(B), A \cap B = {},
           \A x \in A \cup B : f[x] \in Int
    PROVE  SumFunctionOnSet(f, A \cup B) = SumFunctionOnSet(f, A) + SumFunctionOnSet(f, B)
<1> DEFINE F == {T \in SUBSET B :
                   SumFunctionOnSet(f, A \cup T) # SumFunctionOnSet(f, A) + SumFunctionOnSet(f, T)}
<1> SUFFICES ASSUME F # {} PROVE FALSE
  OBVIOUS
<1>1. \A T \in SUBSET B : IsFiniteSet(T) /\ IsFiniteSet(A \cup T)
  BY FS_Subset, FS_Union
<1>2. PICK T \in F : \A U \in F : U \subseteq T => U = T
  <2>1. \A U \in F : IsFiniteSet(U)
    BY <1>1
  <2> HIDE DEF F
  <2> QED
    BY <2>1, LeastSet
<1>3. SumFunctionOnSet(f, A) \in Int
  BY SumType
<1>4. T # {}
  <2> SUFFICES ASSUME T = {} PROVE FALSE
    OBVIOUS
  <2>1. SumFunctionOnSet(f, T) = 0 /\ A \cup T = A
    BY SumEmpty
  <2> QED
    BY <1>3, <2>1
<1>5. PICK y \in T : TRUE
  BY <1>4
<1>6. (A \cup T) \ {y} = A \cup (T \ {y}) /\ y \in A \cup T
  OBVIOUS
<1>7. SumFunctionOnSet(f, A \cup T) = f[y] + SumFunctionOnSet(f, A \cup (T \ {y}))
  <2>1. SumFunctionOnSet(f, A \cup T) = f[y] + SumFunctionOnSet(f, (A \cup T) \ {y})
    <3> DEFINE V == A \cup T
    <3>1. IsFiniteSet(V) /\ y \in V /\ \A x \in V : f[x] \in Int
      BY <1>1, <1>6
    <3> HIDE DEF V
    <3>2. SumFunctionOnSet(f, V) = f[y] + SumFunctionOnSet(f, V \ {y})
      BY <3>1, SumWithout
    <3> QED
      BY <3>2 DEF V
  <2> QED
    BY <1>6, <2>1
<1>8. SumFunctionOnSet(f, T) = f[y] + SumFunctionOnSet(f, T \ {y})
  <2>1. IsFiniteSet(T) /\ \A x \in T : f[x] \in Int
    BY <1>1
  <2> HIDE DEF F
  <2> QED
    BY <2>1, SumWithout
<1>9. SumFunctionOnSet(f, A \cup (T \ {y})) = SumFunctionOnSet(f, A) + SumFunctionOnSet(f, T \ {y})
  <2>1. T \ {y} \notin F /\ T \ {y} \in SUBSET B
    BY <1>2
  <2> QED
    BY <2>1
<1>10. SumFunctionOnSet(f, T \ {y}) \in Int /\ f[y] \in Int
  <2>1. IsFiniteSet(T \ {y}) /\ \A x \in T \ {y} : f[x] \in Int
    BY <1>1
  <2>2. SumFunctionOnSet(f, T \ {y}) \in Int
    BY <2>1, SumType
  <2> QED
    BY <2>2
<1>11. SumFunctionOnSet(f, A \cup T) # SumFunctionOnSet(f, A) + SumFunctionOnSet(f, T)
  OBVIOUS
<1> HIDE DEF F
<1> QED
  BY <1>3, <1>7, <1>8, <1>9, <1>10, <1>11

(* The values of a function on a finite set.                               *)
LEMMA FiniteImage ==
    ASSUME NEW S, IsFiniteSet(S), NEW f
    PROVE  IsFiniteSet({f[x] : x \in S})
<1> DEFINE T == {f[x] : x \in S}
           h == [x \in S |-> f[x]]
<1>1. h \in Surjection(S, T)
  BY DEF Surjection
<1> HIDE DEF h, T
<1>2. IsFiniteSet(T)
  BY <1>1, FS_Surjection
<1> QED
  BY <1>2 DEF T

(* The sum of the sums over the classes of a partition.                    *)
LEMMA SumParted ==
    ASSUME NEW f, NEW g, NEW class, NEW I, NEW K, IsFiniteSet(I), IsFiniteSet(K),
           \A i \in I : f[i] \in Int /\ class[i] \in K,
           \A k \in K : g[k] = SumFunctionOnSet(f, {i \in I : class[i] = k})
    PROVE  SumFunctionOnSet(g, K) = SumFunctionOnSet(f, I)
<1> DEFINE Of(T) == {i \in I : class[i] \in T}
           F == {T \in SUBSET K : SumFunctionOnSet(g, T) # SumFunctionOnSet(f, Of(T))}
<1>1. \A T \in SUBSET K : IsFiniteSet(T) /\ IsFiniteSet(Of(T))
  BY FS_Subset
<1>2. \A k \in K : g[k] \in Int
  <2> SUFFICES ASSUME NEW k \in K PROVE g[k] \in Int
    OBVIOUS
  <2> DEFINE C == {i \in I : class[i] = k}
  <2>1. IsFiniteSet(C) /\ \A i \in C : f[i] \in Int
    BY FS_Subset
  <2>2. g[k] = SumFunctionOnSet(f, C)
    OBVIOUS
  <2> HIDE DEF C
  <2> QED
    BY <2>1, <2>2, SumType
<1>3. ASSUME F # {} PROVE FALSE
  <2>1. PICK T \in F : \A U \in F : U \subseteq T => U = T
    <3>1. \A U \in F : IsFiniteSet(U)
      BY <1>1
    <3> HIDE DEF F
    <3> QED
      BY <1>3, <3>1, LeastSet
  <2>2. T # {}
    <3> SUFFICES ASSUME T = {} PROVE FALSE
      OBVIOUS
    <3>1. Of(T) = {}
      OBVIOUS
    <3>2. SumFunctionOnSet(g, T) = 0 /\ SumFunctionOnSet(f, {}) = 0
      BY SumEmpty
    <3> QED
      BY <3>1, <3>2
  <2>3. PICK k \in T : TRUE
    BY <2>2
  <2> DEFINE A == {i \in I : class[i] = k}
             B == Of(T \ {k})
  <2>4. SumFunctionOnSet(g, T) = g[k] + SumFunctionOnSet(g, T \ {k})
    <3>1. IsFiniteSet(T) /\ \A x \in T : g[x] \in Int
      BY <1>1, <1>2
    <3> HIDE DEF F
    <3> QED
      BY <3>1, SumWithout
  <2>5. SumFunctionOnSet(g, T \ {k}) = SumFunctionOnSet(f, B)
    <3>1. T \ {k} \notin F /\ T \ {k} \in SUBSET K
      BY <2>1
    <3> QED
      BY <3>1
  <2>6. A \cup B = Of(T) /\ A \cap B = {}
    OBVIOUS
  <2>7. SumFunctionOnSet(f, A \cup B) = SumFunctionOnSet(f, A) + SumFunctionOnSet(f, B)
    <3>1. IsFiniteSet(A) /\ IsFiniteSet(B) /\ \A i \in A \cup B : f[i] \in Int
      BY FS_Subset
    <3> HIDE DEF A, B
    <3> QED
      BY <2>6, <3>1, SumDisjoint
  <2>8. g[k] = SumFunctionOnSet(f, A)
    OBVIOUS
  <2>9. SumFunctionOnSet(g, T) # SumFunctionOnSet(f, A \cup B)
    BY <2>6
  <2> HIDE DEF A, B, F
  <2> QED
    BY <2>4, <2>5, <2>7, <2>8, <2>9
<1>4. K \notin F
  <2> HIDE DEF F
  <2> QED
    BY <1>3
<1>5. Of(K) = I
  OBVIOUS
<1> HIDE DEF Of
<1> QED
  BY <1>4, <1>5

(* The same summands under other names.                                    *)
LEMMA SumRenamed ==
    ASSUME NEW f, NEW g, NEW name, NEW A, NEW B, IsFiniteSet(A),
           \A x \in A : f[x] \in Int /\ g[name[x]] = f[x],
           \A x, y \in A : name[x] = name[y] => x = y, B = {name[x] : x \in A}
    PROVE  SumFunctionOnSet(g, B) = SumFunctionOnSet(f, A)
<1> DEFINE Of(T) == {name[x] : x \in T}
           F == {T \in SUBSET A : SumFunctionOnSet(g, Of(T)) # SumFunctionOnSet(f, T)}
<1>1. \A T \in SUBSET A : IsFiniteSet(T) /\ IsFiniteSet(Of(T))
  <2> SUFFICES ASSUME NEW T \in SUBSET A PROVE IsFiniteSet(T) /\ IsFiniteSet(Of(T))
    OBVIOUS
  <2>1. IsFiniteSet(T)
    BY FS_Subset
  <2> QED
    BY <2>1, FiniteImage
<1>2. ASSUME F # {} PROVE FALSE
  <2>1. PICK T \in F : \A U \in F : U \subseteq T => U = T
    <3>1. \A U \in F : IsFiniteSet(U)
      BY <1>1
    <3> HIDE DEF F
    <3> QED
      BY <1>2, <3>1, LeastSet
  <2>2. T # {}
    <3> SUFFICES ASSUME T = {} PROVE FALSE
      OBVIOUS
    <3>1. Of(T) = {}
      OBVIOUS
    <3>2. SumFunctionOnSet(f, T) = 0 /\ SumFunctionOnSet(g, {}) = 0
      BY SumEmpty
    <3> QED
      BY <3>1, <3>2
  <2>3. PICK y \in T : TRUE
    BY <2>2
  <2>4. SumFunctionOnSet(f, T) = f[y] + SumFunctionOnSet(f, T \ {y})
    <3>1. IsFiniteSet(T) /\ \A x \in T : f[x] \in Int
      BY <1>1
    <3> HIDE DEF F
    <3> QED
      BY <3>1, SumWithout
  <2>5. SumFunctionOnSet(g, Of(T)) = g[name[y]] + SumFunctionOnSet(g, Of(T) \ {name[y]})
    <3>1. IsFiniteSet(Of(T)) /\ (\A z \in Of(T) : g[z] \in Int) /\ name[y] \in Of(T)
      BY <1>1
    <3> HIDE DEF F, Of
    <3> QED
      BY <3>1, SumWithout
  <2>6. Of(T) \ {name[y]} = Of(T \ {y})
    OBVIOUS
  <2>7. SumFunctionOnSet(g, Of(T \ {y})) = SumFunctionOnSet(f, T \ {y})
    <3>1. T \ {y} \notin F /\ T \ {y} \in SUBSET A
      BY <2>1
    <3> QED
      BY <3>1
  <2>8. SumFunctionOnSet(g, Of(T)) # SumFunctionOnSet(f, T) /\ g[name[y]] = f[y]
    OBVIOUS
  <2> HIDE DEF F, Of
  <2> QED
    BY <2>4, <2>5, <2>6, <2>7, <2>8
<1>3. A \notin F
  <2> HIDE DEF F
  <2> QED
    BY <1>2
<1>4. Of(A) = B
  OBVIOUS
<1> HIDE DEF Of
<1> QED
  BY <1>3, <1>4

=============================================================================
