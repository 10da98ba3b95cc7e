----------------------------- MODULE SumProofs ------------------------------
(***************************************************************************)
(* The sum of a function over a finite set, and what it is of a set that   *)
(* grows, shrinks or weighs differently.  A sum takes the elements in the  *)
(* order CHOOSE gives them; the lemmas say that no order matters.          *)
(***************************************************************************)
EXTENDS Integers, FiniteSetsExt, FiniteSetTheorems, TLAPS

\* What the elements of S weigh together.
Sum(w, S) == MapThenSumSet(LAMBDA x : w[x], S)

\* What a function of the subsets of S must be, whatever element is taken first.
Adds(g, w, S) ==
  /\ g \in [SUBSET S -> Int]
  /\ g[{}] = 0
  /\ \A T \in SUBSET S : \A x \in T : g[T] = w[x] + g[T \ {x}]

\* A set of subsets of a finite set has a smallest one.
LEMMA Smallest ==
  ASSUME NEW S, IsFiniteSet(S), NEW Z \in SUBSET (SUBSET S), Z # {}
  PROVE  \E T \in Z : \A U \in Z : ~(U \subseteq T /\ U # T)
<1>1. IsWellFoundedOn(StrictSubsetOrdering(S), SUBSET S)
  BY FS_StrictSubsetOrderingWellFounded, FS_FiniteSubsetsOfFinite
<1>2. PICK T \in Z : \A U \in Z : ~(<<U, T>> \in StrictSubsetOrdering(S))
  BY <1>1, WFMin
<1>3. ASSUME NEW U \in Z, U \subseteq T, U # T PROVE FALSE
  <2>1. <<U, T>> \in StrictSubsetOrdering(S) BY <1>3 DEF StrictSubsetOrdering
  <2> QED BY <1>2, <2>1
<1>4. \A U \in Z : ~(U \subseteq T /\ U # T) BY <1>3, Zenon
<1> QED BY <1>4, Zenon

\* One element more.
LEMMA OneMore ==
  ASSUME NEW w, NEW S, NEW x, x \notin S, w[x] \in Int, NEW g, Adds(g, w, S), \A y \in S : w[y] \in Int
  PROVE  \E h : Adds(h, w, S \cup {x})
<1> DEFINE h == [T \in SUBSET (S \cup {x}) |-> IF x \in T THEN w[x] + g[T \ {x}] ELSE g[T]]
<1>1. \A T \in SUBSET S : g[T] \in Int BY DEF Adds
<1>2. \A T \in SUBSET (S \cup {x}) : T \ {x} \in SUBSET S /\ (x \notin T => T \in SUBSET S) OBVIOUS
<1>3. h \in [SUBSET (S \cup {x}) -> Int] BY <1>1, <1>2
<1>4. h[{}] = 0 BY DEF Adds
<1>5. ASSUME NEW T \in SUBSET (S \cup {x}), NEW y \in T PROVE h[T] = w[y] + h[T \ {y}]
  <2>1. CASE y = x
    <3>1. h[T] = w[x] + g[T \ {x}] /\ h[T \ {x}] = g[T \ {x}] BY <2>1, <1>2
    <3> QED BY <2>1, <3>1
  <2>2. CASE y # x /\ x \notin T
    <3>1. T \in SUBSET S /\ h[T] = g[T] /\ h[T \ {y}] = g[T \ {y}] BY <2>2, <1>2
    <3> QED BY <3>1 DEF Adds
  <2>3. CASE y # x /\ x \in T
    <3>1. h[T] = w[x] + g[T \ {x}] /\ h[T \ {y}] = w[x] + g[(T \ {y}) \ {x}] BY <2>3, <1>2
    <3>2. T \ {x} \in SUBSET S /\ y \in T \ {x} /\ (T \ {y}) \ {x} = (T \ {x}) \ {y} BY <2>3, <1>2
    <3>3. g[T \ {x}] = w[y] + g[(T \ {x}) \ {y}] BY <3>2 DEF Adds
    <3>4. w[y] \in Int /\ g[(T \ {x}) \ {y}] \in Int BY <3>2, <1>1
    <3>5. ASSUME NEW a \in Int, NEW b \in Int, NEW c \in Int PROVE a + (b + c) = b + (a + c) OBVIOUS
    <3>6. h[T] = w[x] + (w[y] + g[(T \ {x}) \ {y}]) BY <3>1, <3>3
    <3>7. h[T \ {y}] = w[x] + g[(T \ {x}) \ {y}] BY <3>1, <3>2
    <3> HIDE DEF h
    <3> QED BY <3>4, <3>5, <3>6, <3>7
  <2> QED BY <2>1, <2>2, <2>3
<1> HIDE DEF h
<1>6. Adds(h, w, S \cup {x}) BY <1>3, <1>4, <1>5 DEF Adds
<1> QED BY <1>6

\* There is such a function.
LEMMA Additive ==
  ASSUME NEW S, IsFiniteSet(S), NEW w, \A x \in S : w[x] \in Int
  PROVE  \E g : Adds(g, w, S)
<1> DEFINE Z == {T \in SUBSET S : ~\E g : Adds(g, w, T)}
<1> SUFFICES ASSUME Z # {} PROVE FALSE
  OBVIOUS
<1>1. PICK T \in Z : \A U \in Z : ~(U \subseteq T /\ U # T)
  <2>1. Z \in SUBSET (SUBSET S) OBVIOUS
  <2> HIDE DEF Z
  <2> QED BY <2>1, Smallest
<1>2. CASE T = {}
  <2>1. Adds([U \in SUBSET {} |-> 0], w, {}) BY DEF Adds
  <2> QED BY <1>2, <2>1
<1>3. CASE T # {}
  <2>1. PICK x \in T : TRUE BY <1>3
  <2>2. PICK g : Adds(g, w, T \ {x}) BY <1>1
  <2>3. \E h : Adds(h, w, (T \ {x}) \cup {x}) BY <2>2, OneMore
  <2>4. (T \ {x}) \cup {x} = T OBVIOUS
  <2> QED BY <2>3, <2>4
<1> QED BY <1>2, <1>3

\* It is the one the recursion defines.
LEMMA SumIs ==
  ASSUME NEW S, IsFiniteSet(S), NEW w, NEW g, Adds(g, w, S)
  PROVE  Sum(w, S) = g[S]
<1> DEFINE one(f) == f = [T \in SUBSET S |->
              IF T = {} THEN 0 ELSE LET x == CHOOSE x \in T : TRUE IN w[x] + f[T \ {x}]]
<1>1. one(g)
  <2>1. g = [T \in SUBSET S |-> g[T]] BY DEF Adds
  <2>2. \A T \in SUBSET S : g[T] = IF T = {} THEN 0 ELSE LET x == CHOOSE x \in T : TRUE IN w[x] + g[T \ {x}]
    BY DEF Adds
  <2> QED BY <2>1, <2>2
<1> DEFINE sums == CHOOSE f : one(f)
<1>2. one(sums)
  <2> HIDE DEF one
  <2> QED BY <1>1
<1>3. sums = g
  <2> HIDE DEF sums
  <2> DEFINE h == sums
             Z == {T \in SUBSET S : h[T] # g[T]}
  <2>1. ASSUME NEW T \in Z, \A U \in Z : ~(U \subseteq T /\ U # T) PROVE FALSE
    <3>1. T \in SUBSET S /\ h[T] # g[T] OBVIOUS
    <3>2. h[T] = (IF T = {} THEN 0 ELSE LET x == CHOOSE x \in T : TRUE IN w[x] + h[T \ {x}]) BY <1>2
    <3>3. T # {} BY <3>1, <3>2 DEF Adds
    <3>4. PICK x \in T : h[T] = w[x] + h[T \ {x}] BY <3>2, <3>3
    <3>5. h[T \ {x}] = g[T \ {x}] BY <2>1
    <3> QED BY <3>1, <3>4, <3>5 DEF Adds
  <2>2. Z = {}
    <3>1. Z \in SUBSET (SUBSET S) OBVIOUS
    <3> HIDE DEF Z
    <3> QED BY <2>1, <3>1, Smallest
  <2>3. \A T \in SUBSET S : h[T] = g[T] BY <2>2
  <2>4. h = [T \in SUBSET S |-> h[T]] BY <1>2
  <2>5. g = [T \in SUBSET S |-> g[T]] BY DEF Adds
  <2> HIDE DEF h
  <2> QED BY <2>3, <2>4, <2>5 DEF h
<1>4. Sum(w, S) = sums[S] BY DEF Sum, MapThenSumSet, MapThenFoldSet
<1> QED BY <1>3, <1>4

\* One function has the sums of every subset.
LEMMA SumsOf ==
  ASSUME NEW S, IsFiniteSet(S), NEW w, \A x \in S : w[x] \in Int
  PROVE  \E g : Adds(g, w, S) /\ \A T \in SUBSET S : Sum(w, T) = g[T]
<1>1. PICK g : Adds(g, w, S) BY Additive
<1>2. ASSUME NEW T \in SUBSET S PROVE Sum(w, T) = g[T]
  <2> DEFINE h == [U \in SUBSET T |-> g[U]]
  <2>1. \A U \in SUBSET T : U \in SUBSET S /\ h[U] = g[U] /\ g[U] \in Int BY <1>1 DEF Adds
  <2>2. h \in [SUBSET T -> Int] /\ h[{}] = 0 BY <1>1, <2>1 DEF Adds
  <2>3. ASSUME NEW U \in SUBSET T, NEW x \in U PROVE h[U] = w[x] + h[U \ {x}]
    <3>1. U \in SUBSET S /\ U \ {x} \in SUBSET T BY <2>1
    <3>2. g[U] = w[x] + g[U \ {x}] BY <1>1, <3>1 DEF Adds
    <3> QED BY <2>1, <3>1, <3>2
  <2> HIDE DEF h
  <2>4. Adds(h, w, T) BY <2>2, <2>3 DEF Adds
  <2>5. IsFiniteSet(T) BY FS_Subset
  <2> QED BY <2>1, <2>4, <2>5, SumIs
<1> QED BY <1>1, <1>2

\* Nothing sums to zero.
LEMMA SumEmpty == \A w : Sum(w, {}) = 0
<1> TAKE w
<1>1. PICK g : Adds(g, w, {}) /\ \A T \in SUBSET {} : Sum(w, T) = g[T] BY SumsOf, FS_EmptySet
<1> QED BY <1>1 DEF Adds

\* Integers sum to an integer.
LEMMA SumInt ==
  ASSUME NEW S, IsFiniteSet(S), NEW w, \A x \in S : w[x] \in Int
  PROVE  Sum(w, S) \in Int
<1>1. PICK g : Adds(g, w, S) /\ \A T \in SUBSET S : Sum(w, T) = g[T] BY SumsOf
<1> QED BY <1>1 DEF Adds

\* Any element may be taken out.
LEMMA SumPick ==
  ASSUME NEW S, IsFiniteSet(S), NEW w, \A x \in S : w[x] \in Int, NEW x \in S
  PROVE  Sum(w, S) = w[x] + Sum(w, S \ {x})
<1>1. PICK g : Adds(g, w, S) /\ \A T \in SUBSET S : Sum(w, T) = g[T] BY SumsOf
<1>2. Sum(w, S \ {x}) = g[S \ {x}] /\ Sum(w, S) = g[S] BY <1>1
<1> QED BY <1>1, <1>2 DEF Adds

\* The sum is of what the elements weigh.
LEMMA SumSame ==
  ASSUME NEW S, IsFiniteSet(S), NEW w, NEW v, \A x \in S : w[x] \in Int /\ v[x] = w[x]
  PROVE  Sum(v, S) = Sum(w, S)
<1>1. PICK g : Adds(g, w, S) /\ \A T \in SUBSET S : Sum(w, T) = g[T] BY SumsOf
<1>2. Adds(g, v, S) BY <1>1 DEF Adds
<1> QED BY <1>1, <1>2, SumIs

\* Of weights that are no debts, a part weighs no more than the whole.
LEMMA SumPart ==
  ASSUME NEW S, IsFiniteSet(S), NEW w, \A x \in S : w[x] \in Nat, NEW T \in SUBSET S
  PROVE  Sum(w, T) \in Nat /\ Sum(w, T) <= Sum(w, S)
<1>1. PICK g : Adds(g, w, S) /\ \A U \in SUBSET S : Sum(w, U) = g[U] BY SumsOf
<1>2. \A U \in SUBSET S : g[U] \in Int BY <1>1 DEF Adds
<1>3. \A U \in SUBSET S : g[U] >= 0
  <2> DEFINE Z == {U \in SUBSET S : ~(g[U] >= 0)}
  <2>1. ASSUME NEW U \in Z, \A V \in Z : ~(V \subseteq U /\ V # U) PROVE FALSE
    <3>1. U \in SUBSET S /\ ~(g[U] >= 0) OBVIOUS
    <3>0. g[{}] = 0 BY <1>1 DEF Adds
    <3>2. PICK x \in U : TRUE
      <4>1. U # {} BY <3>0, <3>1
      <4> QED BY <4>1
    <3>3. g[U] = w[x] + g[U \ {x}] BY <1>1, <3>1, <3>2 DEF Adds
    <3>4. g[U \ {x}] >= 0 BY <2>1
    <3>5. w[x] \in Nat /\ g[U \ {x}] \in Int BY <1>2
    <3> QED BY <3>1, <3>3, <3>4, <3>5
  <2>2. Z \in SUBSET (SUBSET S) OBVIOUS
  <2>3. Z = {}
    <3> HIDE DEF Z
    <3> QED BY <2>1, <2>2, Smallest
  <2> QED BY <2>3
<1>4. \A U \in SUBSET S : T \subseteq U => g[T] <= g[U]
  <2> DEFINE Z == {U \in SUBSET S : T \subseteq U /\ ~(g[T] <= g[U])}
  <2>1. ASSUME NEW U \in Z, \A V \in Z : ~(V \subseteq U /\ V # U) PROVE FALSE
    <3>1. U \in SUBSET S /\ T \subseteq U /\ ~(g[T] <= g[U]) OBVIOUS
    <3>2. PICK x \in U : x \notin T BY <1>2, <3>1
    <3>3. g[U] = w[x] + g[U \ {x}] BY <1>1, <3>1, <3>2 DEF Adds
    <3>4. g[T] <= g[U \ {x}] BY <2>1, <3>2
    <3>5. w[x] \in Nat /\ g[U \ {x}] \in Int /\ g[T] \in Int BY <1>2
    <3> QED BY <3>1, <3>3, <3>4, <3>5
  <2>2. Z \in SUBSET (SUBSET S) OBVIOUS
  <2>3. Z = {}
    <3> HIDE DEF Z
    <3> QED BY <2>1, <2>2, Smallest
  <2> QED BY <2>3
<1> QED BY <1>1, <1>2, <1>3, <1>4

\* Of two parts with nothing in common.
LEMMA SumJoin ==
  ASSUME NEW S, IsFiniteSet(S), NEW w, \A x \in S : w[x] \in Int, NEW T \in SUBSET S
  PROVE  Sum(w, S) = Sum(w, T) + Sum(w, S \ T)
<1>1. PICK g : Adds(g, w, S) /\ \A U \in SUBSET S : Sum(w, U) = g[U] BY SumsOf
<1>2. \A U \in SUBSET S : g[U] \in Int BY <1>1 DEF Adds
<1> DEFINE Z == {U \in SUBSET S : T \subseteq U /\ g[U] # g[T] + g[U \ T]}
<1>3. ASSUME NEW U \in Z, \A V \in Z : ~(V \subseteq U /\ V # U) PROVE FALSE
  <2>1. U \in SUBSET S /\ T \subseteq U /\ g[U] # g[T] + g[U \ T] OBVIOUS
  <2>2. PICK x \in U : x \notin T
    <3>1. CASE U = T
      <4>1. g[U \ T] = 0 BY <1>1, <3>1 DEF Adds
      <4> QED BY <1>2, <2>1, <3>1, <4>1
    <3> QED BY <2>1, <3>1
  <2>3. U \ {x} \in SUBSET S /\ U \ T \in SUBSET S /\ x \in U \ T /\ (U \ {x}) \ T = (U \ T) \ {x} BY <2>2
  <2>4. g[U] = w[x] + g[U \ {x}] /\ g[U \ T] = w[x] + g[(U \ T) \ {x}]
    BY <1>1, <2>1, <2>2, <2>3 DEF Adds
  <2>5. g[U \ {x}] = g[T] + g[(U \ {x}) \ T]
    <3>1. U \ {x} \notin Z BY <1>3
    <3>2. T \subseteq U \ {x} BY <2>1, <2>2
    <3> QED BY <2>3, <3>1, <3>2
  <2>6. w[x] \in Int /\ g[T] \in Int /\ g[(U \ T) \ {x}] \in Int BY <1>2, <2>3
  <2>7. ASSUME NEW a \in Int, NEW b \in Int, NEW c \in Int PROVE a + (b + c) = b + (a + c) OBVIOUS
  <2>8. g[U] = w[x] + (g[T] + g[(U \ T) \ {x}]) BY <2>3, <2>4, <2>5
  <2>9. g[U] # g[T] + (w[x] + g[(U \ T) \ {x}]) BY <2>1, <2>4
  <2> QED BY <2>6, <2>7, <2>8, <2>9
<1>4. Z \in SUBSET (SUBSET S) OBVIOUS
<1>5. Z = {}
  <2> HIDE DEF Z
  <2> QED BY <1>3, <1>4, Smallest
<1> QED BY <1>1, <1>5

\* The sum of nothing but zeros.
LEMMA SumZero ==
  ASSUME NEW S, IsFiniteSet(S), NEW w, \A x \in S : w[x] = 0
  PROVE  Sum(w, S) = 0
<1> DEFINE g == [T \in SUBSET S |-> 0]
<1>1. Adds(g, w, S) BY DEF Adds
<1>2. g[S] = 0 OBVIOUS
<1> HIDE DEF g
<1> QED BY <1>1, <1>2, SumIs

\* One weight changed.
LEMMA SumPut ==
  ASSUME NEW S, IsFiniteSet(S), NEW w, NEW v, NEW y \in S,
         \A x \in S : w[x] \in Int /\ v[x] \in Int, \A x \in S \ {y} : v[x] = w[x]
  PROVE  Sum(v, S) = Sum(w, S) - w[y] + v[y]
<1>1. IsFiniteSet(S \ {y}) BY FS_RemoveElement
<1>2. Sum(v, S \ {y}) = Sum(w, S \ {y}) BY <1>1, SumSame
<1>3. Sum(w, S) = w[y] + Sum(w, S \ {y}) /\ Sum(v, S) = v[y] + Sum(v, S \ {y}) BY SumPick
<1>4. Sum(w, S \ {y}) \in Int BY <1>1, SumInt
<1>5. w[y] \in Int /\ v[y] \in Int OBVIOUS
<1> QED BY <1>2, <1>3, <1>4, <1>5

\* Some weights given up.
LEMMA SumDrop ==
  ASSUME NEW S, IsFiniteSet(S), NEW w, NEW v, NEW T \in SUBSET S,
         \A x \in S : w[x] \in Int, \A x \in T : v[x] = 0, \A x \in S \ T : v[x] = w[x]
  PROVE  Sum(v, S) = Sum(w, S) - Sum(w, T)
<1>1. IsFiniteSet(T) /\ IsFiniteSet(S \ T) BY FS_Subset, FS_Difference
<1>2. \A x \in S : v[x] \in Int OBVIOUS
<1>3. Sum(v, T) = 0 BY <1>1, SumZero
<1>4. Sum(v, S \ T) = Sum(w, S \ T) BY <1>1, SumSame
<1>5. Sum(w, S) = Sum(w, T) + Sum(w, S \ T) /\ Sum(v, S) = Sum(v, T) + Sum(v, S \ T) BY <1>2, SumJoin
<1>6. Sum(w, T) \in Int /\ Sum(w, S \ T) \in Int BY <1>1, SumInt
<1> QED BY <1>3, <1>4, <1>5, <1>6
=============================================================================
