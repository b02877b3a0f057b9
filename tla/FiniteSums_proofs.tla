------------------------- MODULE FiniteSums_proofs -------------------------
(* Facts about sums over finite sets, and about least and greatest elements. *)
(* The induction is well-founded: among the subsets of a finite set that are *)
(* not as wanted there is a smallest one (MinimalSubset).                    *)
EXTENDS FiniteSums, FiniteSetTheorems, WellFoundedInduction, TLAPS

LEMMA MinimalSubset ==
  ASSUME NEW S, IsFiniteSet(S), NEW F, F \subseteq SUBSET S, F # {}
  PROVE  \E A \in F : \A B \in F : B \subseteq A => B = A
<1> DEFINE R == StrictSubsetOrdering(S)
<1>1. IsWellFoundedOn(R, SUBSET S)
  BY FS_StrictSubsetOrderingWellFounded, FS_FiniteSubsetsOfFinite
<1>2. \E A \in F : \A B \in F : ~(<<B, A>> \in R)
  <2> HIDE DEF R
  <2> QED BY <1>1, WFMin
<1> QED BY <1>2 DEF StrictSubsetOrdering

First(T) == CHOOSE x \in T : TRUE

(* What the partial sums of f over the subsets of S satisfy.                *)
IsSum(f, S, g) ==
  g = [T \in SUBSET S |-> IF T = {} THEN 0 ELSE f[First(T)] + g[T \ {First(T)}]]

LEMMA SumIs ==
  ASSUME NEW f, NEW S PROVE Sum(f, S) = (CHOOSE g : IsSum(f, S, g))[S]
BY DEF Sum, MapThenSumSet, MapThenFoldSet, IsSum, First

LEMMA FirstIn == ASSUME NEW T, T # {} PROVE First(T) \in T
BY DEF First

(* Two of them agree where both are defined.                                *)
LEMMA SumsAgree ==
  ASSUME NEW f, NEW S, IsFiniteSet(S), NEW T \in SUBSET S, NEW g, NEW h,
         IsSum(f, S, g), IsSum(f, T, h), NEW U \in SUBSET T
  PROVE  g[U] = h[U]
<1> DEFINE F == {A \in SUBSET T : g[A] # h[A]}
<1> SUFFICES ASSUME F # {} PROVE FALSE
  OBVIOUS
<1>1. PICK A \in F : \A B \in F : B \subseteq A => B = A
  <2> F \subseteq SUBSET S OBVIOUS
  <2> HIDE DEF F
  <2> QED BY MinimalSubset
<1>2. A # {}
  BY <1>1 DEF IsSum
<1> DEFINE B == A \ {First(A)}
<1>3. B \in SUBSET T /\ B # A /\ B \subseteq A
  BY <1>2, FirstIn
<1>4. g[B] = h[B]
  BY <1>1, <1>3
<1>5. g[A] = f[First(A)] + g[B] /\ h[A] = f[First(A)] + h[B]
  <2>1. A \in SUBSET T /\ A \in SUBSET S OBVIOUS
  <2> HIDE DEF F
  <2> QED BY <2>1, <1>2 DEF IsSum
<1> QED BY <1>1, <1>4, <1>5

(* There is one for every finite set.                                       *)
LEMMA SumsExist ==
  ASSUME NEW f, NEW S, IsFiniteSet(S)
  PROVE  \E g : IsSum(f, S, g)
<1> DEFINE F == {A \in SUBSET S : ~ \E g : IsSum(f, A, g)}
<1> SUFFICES ASSUME F # {} PROVE FALSE
  OBVIOUS
<1>1. PICK A \in F : \A B \in F : B \subseteq A => B = A
  <2> F \subseteq SUBSET S OBVIOUS
  <2> HIDE DEF F
  <2> QED BY MinimalSubset
<1> DEFINE G(B) == CHOOSE g : IsSum(f, B, g)
<1>2. ASSUME NEW B \in SUBSET A, B # A PROVE IsSum(f, B, G(B))
  <2>1. \E g : IsSum(f, B, g)
    BY <1>1, <1>2
  <2> QED BY <2>1
<1> DEFINE h == [T \in SUBSET A |-> IF T = {} THEN 0
                   ELSE f[First(T)] + G(T \ {First(T)})[T \ {First(T)}]]
<1>3. ASSUME NEW T \in SUBSET A, T # {}
      PROVE  h[T \ {First(T)}] = G(T \ {First(T)})[T \ {First(T)}]
  <2> DEFINE U == T \ {First(T)}
  <2> HIDE DEF G
  <2>1. U \in SUBSET A /\ U # A
    BY <1>3, FirstIn
  <2>2. CASE U = {}
    <3>1. IsSum(f, U, G(U))
      BY <2>1, <1>2
    <3>2. G(U)[U] = 0
      BY <3>1, <2>2 DEF IsSum
    <3>3. h[U] = 0
      BY <2>2
    <3> QED BY <3>2, <3>3
  <2>3. CASE U # {}
    <3> DEFINE V == U \ {First(U)}
    <3>1. V \in SUBSET U /\ V \in SUBSET A /\ V # A
      BY <2>1, <2>3, FirstIn
    <3>2. IsSum(f, U, G(U)) /\ IsSum(f, V, G(V))
      BY <2>1, <3>1, <1>2
    <3>3. IsFiniteSet(U)
      BY FS_Subset, <2>1
    <3>4. G(U)[V] = G(V)[V]
      BY <3>1, <3>2, <3>3, SumsAgree
    <3>5. G(U)[U] = f[First(U)] + G(U)[V]
      BY <3>2, <2>3 DEF IsSum
    <3>6. h[U] = f[First(U)] + G(V)[V]
      BY <2>1, <2>3
    <3> QED BY <3>4, <3>5, <3>6
  <2> QED BY <2>2, <2>3
<1>4. IsSum(f, A, h)
  <2> HIDE DEF G
  <2> QED BY <1>3 DEF IsSum
<1> QED BY <1>1, <1>4

(* The sum, one summand at a time.                                          *)
LEMMA SumEmpty == ASSUME NEW f PROVE Sum(f, {}) = 0
<1>1. IsFiniteSet({}) BY FS_EmptySet
<1> DEFINE g == CHOOSE g : IsSum(f, {}, g)
<1>2. IsSum(f, {}, g) BY <1>1, SumsExist
<1>3. g[{}] = 0
  <2> HIDE DEF g
  <2> QED BY <1>2 DEF IsSum
<1> QED BY <1>3, SumIs

LEMMA SumStep ==
  ASSUME NEW f, NEW S, IsFiniteSet(S), S # {}
  PROVE  Sum(f, S) = f[First(S)] + Sum(f, S \ {First(S)})
<1> DEFINE U == S \ {First(S)}
           g == CHOOSE g : IsSum(f, S, g)
           h == CHOOSE h : IsSum(f, U, h)
<1>1. IsFiniteSet(U) BY FS_RemoveElement
<1>2. IsSum(f, S, g) BY SumsExist
<1>3. IsSum(f, U, h) BY <1>1, SumsExist
<1>4. Sum(f, S) = g[S] /\ Sum(f, U) = h[U]
  BY SumIs
<1>5. U \in SUBSET S /\ U \in SUBSET U
  OBVIOUS
<1> HIDE DEF g, h
<1>6. g[S] = f[First(S)] + g[U]
  BY <1>2 DEF IsSum
<1>7. g[U] = h[U]
  <2> HIDE DEF U
  <2> QED BY <1>2, <1>3, <1>5, SumsAgree
<1> QED BY <1>4, <1>6, <1>7

(* Induction over the subsets of a finite set, for a set F of good ones.    *)
LEMMA SubsetInduction ==
  ASSUME NEW S, IsFiniteSet(S), NEW F,
         \A T \in SUBSET S : (\A U \in SUBSET T : U # T => U \in F) => T \in F
  PROVE  S \in F
<1> DEFINE Bad == {T \in SUBSET S : T \notin F}
<1> SUFFICES ASSUME Bad # {} PROVE FALSE
  OBVIOUS
<1>1. PICK A \in Bad : \A B \in Bad : B \subseteq A => B = A
  <2> Bad \subseteq SUBSET S OBVIOUS
  <2> HIDE DEF Bad
  <2> QED BY MinimalSubset
<1> QED BY <1>1

LEMMA SumInt ==
  ASSUME NEW f, NEW S, IsFiniteSet(S), \A x \in S : f[x] \in Int
  PROVE  Sum(f, S) \in Int
<1> DEFINE F == {T \in SUBSET S : Sum(f, T) \in Int}
<1>1. ASSUME NEW T \in SUBSET S, \A U \in SUBSET T : U # T => U \in F PROVE T \in F
  <2>1. CASE T = {}
    BY <2>1, SumEmpty
  <2>2. CASE T # {}
    <3> DEFINE U == T \ {First(T)}
    <3>1. IsFiniteSet(T) BY FS_Subset
    <3>2. First(T) \in T BY <2>2, FirstIn
    <3>3. Sum(f, U) \in Int BY <1>1, <3>2
    <3> QED BY <2>2, <3>1, <3>2, <3>3, SumStep
  <2> QED BY <2>1, <2>2
<1>2. S \in F
  <2> HIDE DEF F
  <2> QED BY <1>1, SubsetInduction
<1> QED BY <1>2

LEMMA SumNat ==
  ASSUME NEW f, NEW S, IsFiniteSet(S), \A x \in S : f[x] \in Nat
  PROVE  Sum(f, S) \in Nat
<1> DEFINE F == {T \in SUBSET S : Sum(f, T) \in Nat}
<1>1. ASSUME NEW T \in SUBSET S, \A U \in SUBSET T : U # T => U \in F PROVE T \in F
  <2>1. CASE T = {}
    BY <2>1, SumEmpty
  <2>2. CASE T # {}
    <3> DEFINE U == T \ {First(T)}
    <3>1. IsFiniteSet(T) BY FS_Subset
    <3>2. First(T) \in T BY <2>2, FirstIn
    <3>3. Sum(f, U) \in Nat BY <1>1, <3>2
    <3> QED BY <2>2, <3>1, <3>2, <3>3, SumStep
  <2> QED BY <2>1, <2>2
<1>2. S \in F
  <2> HIDE DEF F
  <2> QED BY <1>1, SubsetInduction
<1> QED BY <1>2

(* Any summand can be taken out.                                            *)
LEMMA SumRemove ==
  ASSUME NEW f, NEW S, IsFiniteSet(S), \A x \in S : f[x] \in Int, NEW x \in S
  PROVE  Sum(f, S) = f[x] + Sum(f, S \ {x})
<1> DEFINE F == {T \in SUBSET S : \A z \in T : Sum(f, T) = f[z] + Sum(f, T \ {z})}
<1>1. ASSUME NEW T \in SUBSET S, \A U \in SUBSET T : U # T => U \in F PROVE T \in F
  <2> SUFFICES ASSUME NEW z \in T PROVE Sum(f, T) = f[z] + Sum(f, T \ {z})
    OBVIOUS
  <2> DEFINE y == First(T)
  <2>1. IsFiniteSet(T) /\ y \in T
    BY FS_Subset, FirstIn
  <2>2. Sum(f, T) = f[y] + Sum(f, T \ {y})
    BY <2>1, SumStep
  <2>3. CASE z = y
    BY <2>2, <2>3
  <2>4. CASE z # y
    <3> DEFINE V == T \ {y, z}
    <3>1. T \ {y} \in F /\ T \ {z} \in F
      BY <1>1, <2>1
    <3>2. (T \ {y}) \ {z} = V /\ (T \ {z}) \ {y} = V
      OBVIOUS
    <3>3. Sum(f, T \ {y}) = f[z] + Sum(f, V)
      BY <3>1, <3>2, <2>4
    <3>4. Sum(f, T \ {z}) = f[y] + Sum(f, V)
      BY <3>1, <3>2, <2>4, <2>1
    <3>5. Sum(f, V) \in Int
      BY FS_Subset, SumInt, V \in SUBSET S
    <3> QED BY <2>1, <2>2, <3>3, <3>4, <3>5
  <2> QED BY <2>3, <2>4
<1>2. S \in F
  <2> HIDE DEF F
  <2> QED BY <1>1, SubsetInduction
<1> QED BY <1>2

(* Summands compared one by one.                                            *)
LEMMA SumMonotone ==
  ASSUME NEW f, NEW g, NEW S, IsFiniteSet(S),
         \A x \in S : f[x] \in Int /\ g[x] \in Int /\ f[x] <= g[x]
  PROVE  Sum(f, S) <= Sum(g, S)
<1> DEFINE F == {T \in SUBSET S : Sum(f, T) <= Sum(g, T)}
<1>1. ASSUME NEW T \in SUBSET S, \A U \in SUBSET T : U # T => U \in F PROVE T \in F
  <2>1. CASE T = {}
    BY <2>1, SumEmpty
  <2>2. CASE T # {}
    <3> DEFINE U == T \ {First(T)}
    <3>1. IsFiniteSet(T) /\ IsFiniteSet(U) BY FS_Subset
    <3>2. First(T) \in T BY <2>2, FirstIn
    <3>3. Sum(f, U) <= Sum(g, U) BY <1>1, <3>2
    <3>4. Sum(f, U) \in Int /\ Sum(g, U) \in Int
      BY <3>1, SumInt
    <3>5. Sum(f, T) = f[First(T)] + Sum(f, U) /\ Sum(g, T) = g[First(T)] + Sum(g, U)
      BY <2>2, <3>1, SumStep
    <3> HIDE DEF U
    <3> QED BY <3>2, <3>3, <3>4, <3>5
  <2> QED BY <2>1, <2>2
<1>2. S \in F
  <2> HIDE DEF F
  <2> QED BY <1>1, SubsetInduction
<1> QED BY <1>2

LEMMA SumSame ==
  ASSUME NEW f, NEW g, NEW S, IsFiniteSet(S), \A x \in S : f[x] = g[x] /\ f[x] \in Int
  PROVE  Sum(f, S) = Sum(g, S)
<1>1. Sum(f, S) <= Sum(g, S) /\ Sum(g, S) <= Sum(f, S)
  BY SumMonotone
<1>2. Sum(f, S) \in Int /\ Sum(g, S) \in Int
  BY SumInt
<1> QED BY <1>1, <1>2

(* Sums of sums.                                                            *)
LEMMA SumPlus ==
  ASSUME NEW f, NEW g, NEW h, NEW S, IsFiniteSet(S),
         \A x \in S : f[x] \in Int /\ g[x] \in Int /\ h[x] = f[x] + g[x]
  PROVE  Sum(h, S) = Sum(f, S) + Sum(g, S)
<1> DEFINE F == {T \in SUBSET S : Sum(h, T) = Sum(f, T) + Sum(g, T)}
<1>1. ASSUME NEW T \in SUBSET S, \A U \in SUBSET T : U # T => U \in F PROVE T \in F
  <2>1. CASE T = {}
    BY <2>1, SumEmpty
  <2>2. CASE T # {}
    <3> DEFINE U == T \ {First(T)}
    <3>1. IsFiniteSet(T) /\ IsFiniteSet(U) BY FS_Subset
    <3>2. First(T) \in T BY <2>2, FirstIn
    <3>3. Sum(h, U) = Sum(f, U) + Sum(g, U) BY <1>1, <3>2
    <3>4. Sum(f, U) \in Int /\ Sum(g, U) \in Int
      BY <3>1, SumInt
    <3>5. /\ Sum(f, T) = f[First(T)] + Sum(f, U) /\ Sum(g, T) = g[First(T)] + Sum(g, U)
          /\ Sum(h, T) = h[First(T)] + Sum(h, U)
      BY <2>2, <3>1, SumStep
    <3> HIDE DEF U
    <3> QED BY <3>2, <3>3, <3>4, <3>5
  <2> QED BY <2>1, <2>2
<1>2. S \in F
  <2> HIDE DEF F
  <2> QED BY <1>1, SubsetInduction
<1> QED BY <1>2

(* What is zero need not be summed up.                                      *)
LEMMA SumSupport ==
  ASSUME NEW f, NEW S, IsFiniteSet(S), NEW R \in SUBSET S,
         \A x \in S : f[x] \in Int, \A x \in S \ R : f[x] = 0
  PROVE  Sum(f, S) = Sum(f, R)
<1> DEFINE F == {T \in SUBSET S : Sum(f, T) = Sum(f, T \cap R)}
<1>1. ASSUME NEW T \in SUBSET S, \A U \in SUBSET T : U # T => U \in F PROVE T \in F
  <2>1. CASE T \subseteq R
    <3>1. T \cap R = T BY <2>1
    <3> QED BY <3>1
  <2>2. CASE ~(T \subseteq R)
    <3>1. PICK x \in T : x \notin R BY <2>2
    <3>2. (T \ {x}) \cap R = T \cap R BY <3>1
    <3>3. Sum(f, T \ {x}) = Sum(f, T \cap R) BY <1>1, <3>1, <3>2
    <3>4. IsFiniteSet(T) /\ IsFiniteSet(T \ {x}) BY FS_Subset
    <3>5. Sum(f, T) = f[x] + Sum(f, T \ {x}) BY <3>4, SumRemove
    <3>6. Sum(f, T \ {x}) \in Int BY <3>4, SumInt
    <3>7. f[x] = 0 BY <3>1
    <3> QED BY <3>3, <3>5, <3>6, <3>7
  <2> QED BY <2>1, <2>2
<1>2. S \in F
  <2> HIDE DEF F
  <2> QED BY <1>1, SubsetInduction
<1>3. S \cap R = R OBVIOUS
<1> QED BY <1>2, <1>3

(* Some summands move, each by its own amount.                              *)
LEMMA SumShift ==
  ASSUME NEW f, NEW g, NEW d, NEW S, IsFiniteSet(S), NEW R \in SUBSET S,
         \A x \in S : f[x] \in Int,
         \A x \in R : d[x] \in Int /\ g[x] = f[x] + d[x],
         \A x \in S \ R : g[x] = f[x]
  PROVE  Sum(g, S) = Sum(f, S) + Sum(d, R)
<1> DEFINE e == [x \in S |-> IF x \in R THEN d[x] ELSE 0]
<1>1. \A x \in S : f[x] \in Int /\ e[x] \in Int /\ g[x] = f[x] + e[x]
  OBVIOUS
<1>2. \A x \in S : e[x] \in Int
  OBVIOUS
<1>3. \A x \in S \ R : e[x] = 0
  OBVIOUS
<1>4. IsFiniteSet(R) /\ \A x \in R : e[x] = d[x] /\ e[x] \in Int
  BY FS_Subset
<1> HIDE DEF e
<1>5. Sum(g, S) = Sum(f, S) + Sum(e, S)
  BY <1>1, SumPlus
<1>6. Sum(e, S) = Sum(e, R)
  BY <1>2, <1>3, SumSupport
<1>7. Sum(e, R) = Sum(d, R)
  BY <1>4, SumSame
<1> QED BY <1>5, <1>6, <1>7

(* One summand changes.                                                     *)
LEMMA SumChange ==
  ASSUME NEW f, NEW g, NEW S, IsFiniteSet(S), NEW x \in S, f[x] \in Int, g[x] \in Int,
         \A y \in S \ {x} : f[y] = g[y] /\ f[y] \in Int
  PROVE  Sum(g, S) = Sum(f, S) + g[x] - f[x]
<1> DEFINE U == S \ {x}
<1>1. IsFiniteSet(U) BY FS_RemoveElement
<1>2. Sum(f, S) = f[x] + Sum(f, U) BY SumRemove
<1>3. Sum(g, S) = g[x] + Sum(g, U) BY SumRemove
<1>4. Sum(f, U) = Sum(g, U) /\ Sum(f, U) \in Int
  BY <1>1, SumSame, SumInt
<1> HIDE DEF U
<1> QED BY <1>2, <1>3, <1>4

LEMMA SumOne == ASSUME NEW f, NEW x, f[x] \in Int PROVE Sum(f, {x}) = f[x]
<1>1. IsFiniteSet({x}) /\ {x} \ {x} = {} /\ \A y \in {x} : f[y] \in Int
  BY FS_Singleton
<1>2. x \in {x}
  OBVIOUS
<1>3. Sum(f, {x}) = f[x] + Sum(f, {x} \ {x})
  BY <1>1, <1>2, SumRemove
<1>4. Sum(f, {x} \ {x}) = 0
  BY <1>1, SumEmpty
<1> QED BY <1>3, <1>4

LEMMA SumTwo ==
  ASSUME NEW f, NEW x, NEW y, x # y, f[x] \in Int, f[y] \in Int
  PROVE  Sum(f, {x, y}) = f[x] + f[y]
<1>1. IsFiniteSet({x, y})
  <2>1. IsFiniteSet({x}) BY FS_Singleton
  <2>2. IsFiniteSet({x} \cup {y}) BY <2>1, FS_AddElement
  <2>3. {x, y} = {x} \cup {y} OBVIOUS
  <2> QED BY <2>2, <2>3
<1>2. {x, y} \ {x} = {y} /\ \A z \in {x, y} : f[z] \in Int
  OBVIOUS
<1>3. Sum(f, {x, y}) = f[x] + Sum(f, {x, y} \ {x})
  BY <1>1, <1>2, SumRemove
<1> QED BY <1>2, <1>3, SumOne

(* A finite set of integers has a least and a greatest element.             *)
LEMMA MinIsLeast ==
  ASSUME NEW S \in SUBSET Int, IsFiniteSet(S), S # {}
  PROVE  Min(S) \in S /\ \A y \in S : Min(S) <= y
<1> DEFINE F == {T \in SUBSET S : T = {} \/ \E x \in T : \A y \in T : x <= y}
<1>1. ASSUME NEW T \in SUBSET S, \A U \in SUBSET T : U # T => U \in F PROVE T \in F
  <2> SUFFICES ASSUME NEW z \in T PROVE \E x \in T : \A y \in T : x <= y
    OBVIOUS
  <2>1. T \ {z} \in F BY <1>1
  <2>2. CASE T \ {z} = {} BY <2>2
  <2>3. CASE T \ {z} # {}
    <3>1. PICK x \in T \ {z} : \A y \in T \ {z} : x <= y BY <2>1, <2>3
    <3>2. CASE x <= z BY <3>1, <3>2
    <3>3. CASE z <= x BY <3>1, <3>3
    <3> QED BY <3>2, <3>3
  <2> QED BY <2>2, <2>3
<1>2. S \in F
  <2> HIDE DEF F
  <2> QED BY <1>1, SubsetInduction
<1>3. \E x \in S : \A y \in S : x =< y BY <1>2
<1> QED BY <1>3 DEF Min

LEMMA MaxIsGreatest ==
  ASSUME NEW S \in SUBSET Int, IsFiniteSet(S), S # {}
  PROVE  Max(S) \in S /\ \A y \in S : y <= Max(S)
<1> DEFINE F == {T \in SUBSET S : T = {} \/ \E x \in T : \A y \in T : x >= y}
<1>1. ASSUME NEW T \in SUBSET S, \A U \in SUBSET T : U # T => U \in F PROVE T \in F
  <2> SUFFICES ASSUME NEW z \in T PROVE \E x \in T : \A y \in T : x >= y
    OBVIOUS
  <2>1. T \ {z} \in F BY <1>1
  <2>2. CASE T \ {z} = {} BY <2>2
  <2>3. CASE T \ {z} # {}
    <3>1. PICK x \in T \ {z} : \A y \in T \ {z} : x >= y BY <2>1, <2>3
    <3>2. CASE x >= z BY <3>1, <3>2
    <3>3. CASE z >= x BY <3>1, <3>3
    <3> QED BY <3>2, <3>3
  <2> QED BY <2>2, <2>3
<1>2. S \in F
  <2> HIDE DEF F
  <2> QED BY <1>1, SubsetInduction
<1>3. \E x \in S : \A y \in S : x >= y BY <1>2
<1> QED BY <1>3 DEF Max
=============================================================================
