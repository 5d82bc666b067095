---------------------------- MODULE SumTheorems ----------------------------
(***************************************************************************)
(* What SumFunction of the community modules computes, for functions with  *)
(* a finite domain: it unfolds one element at a time, its value is an      *)
(* integer (a natural number) when every summand is one, and changing one  *)
(* summand changes it by the difference.  The induction is by smallest     *)
(* counterexample under the strict subset ordering.                        *)
(***************************************************************************)
EXTENDS Integers, Functions, FiniteSets, FiniteSetTheorems,
        WellFoundedInduction, TLAPS

AnyOf(T) == CHOOSE x \in T : TRUE

\* g is the fold of f over all subsets of S.
IsFoldOf(f, S, g) ==
  g = [T \in SUBSET S |->
         IF T = {} THEN 0 ELSE f[AnyOf(T)] + g[T \ {AnyOf(T)}]]

\* Smallest counterexample: a nonempty set of finite sets has a minimal member.
LEMMA SmallestSubset ==
  ASSUME NEW S, IsFiniteSet(S), NEW Bad, Bad \subseteq SUBSET S, Bad # {}
  PROVE  \E T \in Bad : \A U \in SUBSET T : U # T => U \notin Bad
<1>1. IsWellFoundedOn(StrictSubsetOrdering(S), FiniteSubsetsOf(S))
  BY FS_StrictSubsetOrderingWellFounded
<1>2. Bad \subseteq FiniteSubsetsOf(S)
  BY FS_Subset DEF FiniteSubsetsOf
<1>3. PICK T \in Bad : \A U \in Bad : <<U, T>> \notin StrictSubsetOrdering(S)
  BY <1>1, <1>2, WFMin
<1>4. ASSUME NEW U \in SUBSET T, U # T, U \in Bad PROVE FALSE
  BY <1>3, <1>4 DEF StrictSubsetOrdering
<1> QED BY <1>4

\* Two folds of one function agree wherever both are defined.
LEMMA FoldUnique ==
  ASSUME NEW S, IsFiniteSet(S), NEW T \in SUBSET S, NEW f, NEW g, NEW h,
         IsFoldOf(f, S, g), IsFoldOf(f, T, h)
  PROVE  \A U \in SUBSET T : g[U] = h[U]
<1> DEFINE Bad == {U \in SUBSET T : g[U] # h[U]}
<1> SUFFICES ASSUME Bad # {} PROVE FALSE
  OBVIOUS
<1>1. IsFiniteSet(T)
  BY FS_Subset
<1> HIDE DEF Bad
<1>2. PICK U \in Bad : \A V \in SUBSET U : V # U => V \notin Bad
  <2>1. Bad \subseteq SUBSET T
    BY DEF Bad
  <2> QED BY <1>1, <2>1, SmallestSubset
<1>3. U \in SUBSET T /\ U \in SUBSET S /\ g[U] # h[U]
  BY DEF Bad
<1>4. CASE U = {}
  BY <1>3, <1>4 DEF IsFoldOf
<1>5. CASE U # {}
  <2> DEFINE V == U \ {AnyOf(U)}
  <2>1. AnyOf(U) \in U
    BY <1>5 DEF AnyOf
  <2>2. V \in SUBSET U /\ V # U /\ V \in SUBSET T
    BY <2>1, <1>3
  <2>3. g[V] = h[V]
    BY <1>2, <2>2 DEF Bad
  <2>4. g[U] = f[AnyOf(U)] + g[V]
    BY <1>3, <1>5 DEF IsFoldOf
  <2>5. h[U] = f[AnyOf(U)] + h[V]
    BY <1>3, <1>5 DEF IsFoldOf
  <2> QED BY <1>3, <2>3, <2>4, <2>5
<1> QED BY <1>4, <1>5

\* The recursive function behind the fold exists.
LEMMA FoldExists ==
  ASSUME NEW S, IsFiniteSet(S), NEW f
  PROVE  \E g : IsFoldOf(f, S, g)
<1> DEFINE Bad == {T \in SUBSET S : ~ \E g : IsFoldOf(f, T, g)}
<1> SUFFICES ASSUME Bad # {} PROVE FALSE
  OBVIOUS
<1> HIDE DEF Bad
<1>1. PICK T \in Bad : \A U \in SUBSET T : U # T => U \notin Bad
  <2>1. Bad \subseteq SUBSET S
    BY DEF Bad
  <2> QED BY <2>1, SmallestSubset
<1>2. T \in SUBSET S /\ ~ \E g : IsFoldOf(f, T, g)
  BY DEF Bad
<1>3. IsFiniteSet(T)
  BY <1>2, FS_Subset
<1> DEFINE F(W) == CHOOSE g : IsFoldOf(f, W, g)
           G == [U \in SUBSET T |->
                   IF U = {} THEN 0 ELSE f[AnyOf(U)] + F(U \ {AnyOf(U)})[U \ {AnyOf(U)}]]
<1>4. ASSUME NEW W \in SUBSET T, W # T PROVE IsFoldOf(f, W, F(W))
  <2>1. W \notin Bad /\ W \in SUBSET S
    BY <1>1, <1>2, <1>4
  <2>2. \E g : IsFoldOf(f, W, g)
    BY <2>1 DEF Bad
  <2> QED BY <2>2
<1>5. ASSUME NEW W \in SUBSET T, W # T PROVE G[W] = F(W)[W]
  <2>1. IsFoldOf(f, W, F(W))
    BY <1>4, <1>5
  <2> HIDE DEF F
  <2>2. CASE W = {}
    BY <2>1, <2>2 DEF IsFoldOf
  <2>3. CASE W # {}
    <3> DEFINE V == W \ {AnyOf(W)}
    <3>1. AnyOf(W) \in W
      BY <2>3 DEF AnyOf
    <3>2. V \in SUBSET W /\ V \in SUBSET T /\ V # T
      BY <3>1, <1>5
    <3>3. IsFoldOf(f, V, F(V))
      BY <1>4, <3>2
    <3>4. IsFiniteSet(W)
      BY <1>3, FS_Subset
    <3>5. F(W)[V] = F(V)[V]
      <4> HIDE DEF V
      <4>1. V \in SUBSET V
        OBVIOUS
      <4> QED BY <2>1, <3>2, <3>3, <3>4, <4>1, FoldUnique
    <3>6. F(W)[W] = f[AnyOf(W)] + F(W)[V]
      BY <2>1, <2>3 DEF IsFoldOf
    <3>7. G[W] = f[AnyOf(W)] + F(V)[V]
      BY <2>3
    <3> QED BY <3>5, <3>6, <3>7
  <2> QED BY <2>2, <2>3
<1>6. IsFoldOf(f, T, G)
  <2>1. ASSUME NEW U \in SUBSET T, U # {}
        PROVE  F(U \ {AnyOf(U)})[U \ {AnyOf(U)}] = G[U \ {AnyOf(U)}]
    <3>1. AnyOf(U) \in U
      BY <2>1 DEF AnyOf
    <3>2. U \ {AnyOf(U)} \in SUBSET T /\ U \ {AnyOf(U)} # T
      BY <3>1
    <3> HIDE DEF F, G
    <3> QED BY <1>5, <3>2
  <2>2. G = [U \in SUBSET T |->
                IF U = {} THEN 0 ELSE f[AnyOf(U)] + G[U \ {AnyOf(U)}]]
    <3> DEFINE H == [U \in SUBSET T |->
                IF U = {} THEN 0 ELSE f[AnyOf(U)] + G[U \ {AnyOf(U)}]]
    <3> HIDE DEF F
    <3>1. ASSUME NEW U \in SUBSET T PROVE G[U] = H[U]
      <4>1. CASE U = {}
        BY <4>1
      <4>2. CASE U # {}
        BY <2>1, <4>2
      <4> QED BY <4>1, <4>2
    <3> QED BY <3>1, Zenon
  <2> HIDE DEF G
  <2> QED BY <2>2 DEF IsFoldOf
<1> HIDE DEF G
<1> QED BY <1>2, <1>6

-----------------------------------------------------------------------------

\* SumFunction is that fold, taken at the whole domain.
LEMMA SumIsFold ==
  ASSUME NEW S, IsFiniteSet(S), NEW f, DOMAIN f = S
  PROVE  \E g : IsFoldOf(f, S, g) /\ SumFunction(f) = g[S]
<1>1. SumFunction(f) = (CHOOSE g : IsFoldOf(f, S, g))[S]
  BY Zenon DEF SumFunction, SumFunctionOnSet, FoldFunctionOnSet,
               MapThenFoldSet, IsFoldOf, AnyOf
<1>2. IsFoldOf(f, S, CHOOSE g : IsFoldOf(f, S, g))
  BY FoldExists
<1> QED BY <1>1, <1>2

\* A fold stays in any set that holds 0 and the summands and is closed under +.
LEMMA FoldType ==
  ASSUME NEW S, IsFiniteSet(S), NEW f, NEW g, IsFoldOf(f, S, g), NEW R,
         0 \in R, \A a, b \in R : a + b \in R, \A x \in S : f[x] \in R
  PROVE  \A T \in SUBSET S : g[T] \in R
<1> DEFINE Bad == {T \in SUBSET S : g[T] \notin R}
<1> SUFFICES ASSUME Bad # {} PROVE FALSE
  OBVIOUS
<1> HIDE DEF Bad
<1>1. PICK T \in Bad : \A U \in SUBSET T : U # T => U \notin Bad
  <2>1. Bad \subseteq SUBSET S
    BY DEF Bad
  <2> QED BY <2>1, SmallestSubset
<1>2. T \in SUBSET S /\ g[T] \notin R
  BY DEF Bad
<1>3. CASE T = {}
  BY <1>2, <1>3 DEF IsFoldOf
<1>4. CASE T # {}
  <2> DEFINE V == T \ {AnyOf(T)}
  <2>1. AnyOf(T) \in T
    BY <1>4 DEF AnyOf
  <2>2. V \in SUBSET T /\ V # T /\ V \in SUBSET S
    BY <1>2, <2>1
  <2>3. g[V] \in R
    BY <1>1, <2>2 DEF Bad
  <2>4. g[T] = f[AnyOf(T)] + g[V]
    BY <1>2, <1>4 DEF IsFoldOf
  <2>5. f[AnyOf(T)] \in R
    BY <1>2, <2>1
  <2> HIDE DEF V
  <2> QED BY <1>2, <2>3, <2>4, <2>5
<1> QED BY <1>3, <1>4

\* A sum of integers is an integer.
THEOREM SumInt ==
  ASSUME NEW S, IsFiniteSet(S), NEW f \in [S -> Int]
  PROVE  SumFunction(f) \in Int
<1>1. PICK g : IsFoldOf(f, S, g) /\ SumFunction(f) = g[S]
  BY SumIsFold
<1>2. \A T \in SUBSET S : g[T] \in Int
  <2>1. \A a, b \in Int : a + b \in Int
    OBVIOUS
  <2>2. \A x \in S : f[x] \in Int
    OBVIOUS
  <2> QED BY <1>1, <2>1, <2>2, FoldType
<1> QED BY <1>1, <1>2

\* A sum of natural numbers is a natural number.
THEOREM SumNat ==
  ASSUME NEW S, IsFiniteSet(S), NEW f \in [S -> Nat]
  PROVE  SumFunction(f) \in Nat
<1>1. PICK g : IsFoldOf(f, S, g) /\ SumFunction(f) = g[S]
  BY SumIsFold
<1>2. \A T \in SUBSET S : g[T] \in Nat
  <2>1. \A a, b \in Nat : a + b \in Nat
    OBVIOUS
  <2>2. \A x \in S : f[x] \in Nat
    OBVIOUS
  <2> QED BY <1>1, <2>1, <2>2, FoldType
<1> QED BY <1>1, <1>2

\* A sum of zeros is zero.
THEOREM SumZero ==
  ASSUME NEW S, IsFiniteSet(S), NEW f, DOMAIN f = S, \A x \in S : f[x] = 0
  PROVE  SumFunction(f) = 0
<1>1. PICK g : IsFoldOf(f, S, g) /\ SumFunction(f) = g[S]
  BY SumIsFold
<1> DEFINE R == {0}
<1>2. 0 \in R /\ (\A a, b \in R : a + b \in R) /\ \A x \in S : f[x] \in R
  OBVIOUS
<1> HIDE DEF R
<1>3. \A T \in SUBSET S : g[T] \in R
  BY <1>1, <1>2, FoldType
<1> QED BY <1>1, <1>3 DEF R

\* Changing one summand changes the sum by the difference.
THEOREM SumExcept ==
  ASSUME NEW S, IsFiniteSet(S), NEW f \in [S -> Int], NEW e \in S, NEW v \in Int
  PROVE  SumFunction([f EXCEPT ![e] = v]) = SumFunction(f) - f[e] + v
<1> DEFINE h == [f EXCEPT ![e] = v]
<1>0. h \in [S -> Int]
  OBVIOUS
<1>1. PICK g : IsFoldOf(f, S, g) /\ SumFunction(f) = g[S]
  BY SumIsFold
<1>2. PICK m : IsFoldOf(h, S, m) /\ SumFunction(h) = m[S]
  BY <1>0, SumIsFold
<1> HIDE DEF h
<1>3. (\A x \in S : f[x] \in Int) /\ (\A a, b \in Int : a + b \in Int)
  OBVIOUS
<1>4. \A T \in SUBSET S : g[T] \in Int
  BY <1>1, <1>3, FoldType
<1> DEFINE Delta(T) == IF e \in T THEN v - f[e] ELSE 0
           Bad == {T \in SUBSET S : m[T] # g[T] + Delta(T)}
<1> HIDE DEF Bad
<1>5. ASSUME Bad # {} PROVE FALSE
  <2>1. PICK T \in Bad : \A U \in SUBSET T : U # T => U \notin Bad
    <3>1. Bad \subseteq SUBSET S
      BY DEF Bad
    <3> QED BY <1>5, <3>1, SmallestSubset
  <2>2. T \in SUBSET S /\ m[T] # g[T] + Delta(T)
    BY DEF Bad
  <2>3. CASE T = {}
    BY <1>1, <1>2, <2>2, <2>3 DEF IsFoldOf
  <2>4. CASE T # {}
    <3> DEFINE x == AnyOf(T)
               V == T \ {x}
    <3>1. x \in T /\ x \in S
      BY <2>2, <2>4 DEF AnyOf
    <3>2. V \in SUBSET T /\ V # T /\ V \in SUBSET S
      BY <2>2, <3>1
    <3>3. m[V] = g[V] + Delta(V)
      BY <2>1, <3>2 DEF Bad
    <3>4. g[T] = f[x] + g[V] /\ m[T] = h[x] + m[V]
      BY <1>1, <1>2, <2>2, <2>4 DEF IsFoldOf
    <3>5. g[V] \in Int /\ f[x] \in Int /\ f[e] \in Int
      BY <1>3, <1>4, <3>1, <3>2
    <3>6. CASE x = e
      <4>1. h[x] = v /\ Delta(V) = 0 /\ Delta(T) = v - f[e]
        BY <3>1, <3>6 DEF h
      <4> HIDE DEF x, V, Delta
      <4> QED BY <2>2, <3>3, <3>4, <3>5, <3>6, <4>1
    <3>7. CASE x # e
      <4>1. h[x] = f[x] /\ Delta(V) = Delta(T) /\ Delta(T) \in Int
        BY <3>1, <3>5, <3>7 DEF h
      <4> HIDE DEF x, V, Delta
      <4> QED BY <2>2, <3>3, <3>4, <3>5, <4>1
    <3> QED BY <3>6, <3>7
  <2> QED BY <2>3, <2>4
<1>6. m[S] = g[S] + Delta(S)
  BY <1>5 DEF Bad
<1> QED BY <1>1, <1>2, <1>4, <1>6 DEF h
=============================================================================
