--------------------------- MODULE SelectionProofs ---------------------------
(***************************************************************************)
(* Facts about the sums of module Selection.  A sum is a recursive         *)
(* function on the subsets of a finite set; induction over those subsets   *)
(* is a minimal counterexample, of which FiniteSetTheorems and             *)
(* WellFoundedInduction say that it exists.                                *)
(***************************************************************************)
EXTENDS Selection, FiniteSetTheorems, TLAPS

(* A non-empty set of subsets of a finite set has a minimal member.        *)
LEMMA MinimalSubset ==
    ASSUME NEW S, IsFiniteSet(S), NEW Bad, Bad \subseteq SUBSET S, Bad # {}
    PROVE  \E T \in Bad : \A U \in Bad : U \subseteq T => U = T
<1>1. IsWellFoundedOn(StrictSubsetOrdering(S), FiniteSubsetsOf(S))
      BY FS_StrictSubsetOrderingWellFounded
<1>2. FiniteSubsetsOf(S) = SUBSET S
      BY FS_FiniteSubsetsOfFinite
<1>3. PICK T \in Bad : \A U \in Bad : <<U, T>> \notin StrictSubsetOrdering(S)
      <2>1. \E T \in Bad : \A U \in Bad : ~ (<<U, T>> \in StrictSubsetOrdering(S))
            BY <1>1, <1>2, WFMin
      <2>2. QED BY <2>1
<1>4. ASSUME NEW U \in Bad, U \subseteq T, U # T PROVE FALSE
      <2>1. <<U, T>> \in (SUBSET S) \X (SUBSET S)
            OBVIOUS
      <2>2. <<U, T>> \in StrictSubsetOrdering(S)
            BY <1>4, <2>1 DEF StrictSubsetOrdering
      <2>3. QED BY <1>3, <2>2
<1>5. QED BY <1>4

(* A non-empty finite set has a member with the greatest value.            *)
LEMMA GreatestMember ==
    ASSUME NEW C, IsFiniteSet(C), C # {}, NEW order, \A x \in C : order[x] \in Int
    PROVE  \E last \in C : \A x \in C : order[x] <= order[last]
<1> DEFINE Good == {T \in SUBSET C : T # {} /\ \A x \in C \ T, y \in T : order[x] <= order[y]}
<1>1. C \in Good /\ Good \subseteq SUBSET C
      OBVIOUS
<1>2. PICK T \in Good : \A U \in Good : U \subseteq T => U = T
      <2> HIDE DEF Good
      <2>1. QED BY <1>1, MinimalSubset
<1>3. PICK y \in T : TRUE
      OBVIOUS
<1>4. ASSUME NEW x \in T, ~ order[x] <= order[y] PROVE FALSE
      <2> DEFINE V == {z \in T : order[z] > order[y]}
      <2>1. V \in Good
            <3>1. V # {} /\ V \subseteq C
                  BY <1>4
            <3>2. ASSUME NEW a \in C \ V, NEW b \in V PROVE order[a] <= order[b]
                  <4>1. CASE a \in T
                        BY <4>1
                  <4>2. CASE a \notin T
                        BY <4>2
                  <4>3. QED BY <4>1, <4>2
            <3>3. QED BY <3>1, <3>2
      <2>2. V = T
            BY <2>1, <1>2
      <2>3. y \notin V
            OBVIOUS
      <2>4. QED BY <2>2, <2>3
<1>5. ASSUME NEW x \in C PROVE order[x] <= order[y]
      BY <1>4
<1>6. QED BY <1>5

-----------------------------------------------------------------------------
(* Sums of the values of a function.                                       *)

SumOver(f, S) == MapThenSumSet(LAMBDA x : f[x], S)

(* g gives the sum of the values of every subset of S.                     *)
IsSum(g, f, S) ==
    /\ g \in [SUBSET S -> Int] /\ g[{}] = 0
    /\ \A T \in SUBSET S : \A x \in T : g[T] = g[T \ {x}] + f[x]

(* There is such a function, whatever the order of the elements.           *)
LEMMA SumExists ==
    ASSUME NEW S, IsFiniteSet(S), NEW f, \A x \in S : f[x] \in Int
    PROVE  \E g : IsSum(g, f, S)
<1> DEFINE Bad == {U \in SUBSET S : ~ \E g : IsSum(g, f, U)}
<1>1. SUFFICES ASSUME Bad # {} PROVE FALSE
      OBVIOUS
<1>2. PICK U \in Bad : \A V \in Bad : V \subseteq U => V = U
      <2>1. Bad \subseteq SUBSET S
            OBVIOUS
      <2> HIDE DEF Bad
      <2>2. QED BY <1>1, <2>1, MinimalSubset
<1>3. CASE U = {}
      <2>1. IsSum([T \in SUBSET U |-> 0], f, U)
            BY <1>3 DEF IsSum
      <2>2. QED BY <2>1
<1>4. CASE U # {}
      <2>1. PICK u \in U : TRUE
            BY <1>4
      <2> DEFINE V == U \ {u}
      <2>2. V \notin Bad
            BY <1>2, <2>1
      <2>3. PICK g : IsSum(g, f, V)
            BY <2>2
      <2>a. g \in [SUBSET V -> Int] /\ g[{}] = 0
            BY <2>3 DEF IsSum
      <2>b. \A T \in SUBSET V : \A x \in T : g[T] = g[T \ {x}] + f[x]
            BY <2>3 DEF IsSum
      <2> DEFINE h == [T \in SUBSET U |-> IF u \in T THEN g[T \ {u}] + f[u] ELSE g[T]]
      <2>4. h \in [SUBSET U -> Int]
            <3>1. ASSUME NEW T \in SUBSET U
                  PROVE  (IF u \in T THEN g[T \ {u}] + f[u] ELSE g[T]) \in Int
                  <4>1. CASE u \in T
                        <5>1. T \ {u} \in SUBSET V
                              OBVIOUS
                        <5>2. g[T \ {u}] \in Int /\ f[u] \in Int
                              BY <5>1, <2>a
                        <5>3. QED BY <4>1, <5>2
                  <4>2. CASE u \notin T
                        <5>1. T \in SUBSET V
                              BY <4>2
                        <5>2. g[T] \in Int
                              BY <5>1, <2>a
                        <5>3. QED BY <4>2, <5>2
                  <4>3. QED BY <4>1, <4>2
            <3>2. QED BY <3>1
      <2>5. h[{}] = 0
            BY <2>a
      <2>6. ASSUME NEW T \in SUBSET U, NEW x \in T PROVE h[T] = h[T \ {x}] + f[x]
            <3>0. T \ {x} \in SUBSET U
                  OBVIOUS
            <3>1. CASE x = u
                  BY <3>0, <3>1
            <3>2. CASE x # u /\ u \in T
                  <4>1. T \ {u} \in SUBSET V /\ x \in T \ {u}
                        BY <3>2
                  <4>2. g[T \ {u}] = g[(T \ {u}) \ {x}] + f[x]
                        BY <4>1, <2>b
                  <4>3. (T \ {x}) \ {u} = (T \ {u}) \ {x}
                        OBVIOUS
                  <4>4. h[T] = g[T \ {u}] + f[u] /\ h[T \ {x}] = g[(T \ {u}) \ {x}] + f[u]
                        BY <3>0, <3>2, <4>3
                  <4>5. (T \ {u}) \ {x} \in SUBSET V
                        OBVIOUS
                  <4>6. g[(T \ {u}) \ {x}] \in Int /\ f[u] \in Int /\ f[x] \in Int
                        BY <4>5, <2>a
                  <4>7. QED BY <4>2, <4>4, <4>6
            <3>3. CASE u \notin T
                  <4>1. T \in SUBSET V
                        BY <3>3
                  <4>2. g[T] = g[T \ {x}] + f[x]
                        BY <4>1, <2>b
                  <4>3. h[T] = g[T] /\ h[T \ {x}] = g[T \ {x}]
                        BY <3>0, <3>3
                  <4>4. QED BY <4>2, <4>3
            <3>4. QED BY <3>1, <3>2, <3>3
      <2>7. IsSum(h, f, U)
            BY <2>4, <2>5, <2>6 DEF IsSum
      <2>8. QED BY <2>7
<1>5. QED BY <1>3, <1>4

(* The recursive function that SumOver and Total unfold to: it takes the   *)
(* elements in the order CHOOSE picks them.                                *)
IsRecursiveSum(i, f, S) ==
    i = [s \in SUBSET S |->
           IF s = {} THEN 0 ELSE LET x == CHOOSE x \in s : TRUE IN f[x] + i[s \ {x}]]

LEMMA SumIsRecursive ==
    ASSUME NEW S, NEW f, \A x \in S : f[x] \in Int, NEW g, IsSum(g, f, S)
    PROVE  IsRecursiveSum(g, f, S)
<1>0. /\ g \in [SUBSET S -> Int] /\ g[{}] = 0
      /\ \A T \in SUBSET S : \A x \in T : g[T] = g[T \ {x}] + f[x]
      BY DEF IsSum
<1>1. ASSUME NEW s \in SUBSET S
      PROVE  g[s] = IF s = {} THEN 0 ELSE LET x == CHOOSE x \in s : TRUE IN f[x] + g[s \ {x}]
      <2>1. CASE s = {}
            BY <1>0, <2>1
      <2>2. CASE s # {}
            <3> DEFINE x == CHOOSE x \in s : TRUE
            <3>1. x \in s
                  BY <2>2
            <3>2. g[s] = g[s \ {x}] + f[x]
                  BY <1>0, <3>1
            <3>3. g[s \ {x}] \in Int /\ f[x] \in Int
                  BY <1>0, <3>1
            <3>4. QED BY <2>2, <3>2, <3>3
      <2>3. QED BY <2>1, <2>2
<1>2. QED BY <1>0, <1>1 DEF IsRecursiveSum

LEMMA RecursiveSumIsUnique ==
    ASSUME NEW S, IsFiniteSet(S), NEW f, NEW i, IsRecursiveSum(i, f, S),
           NEW g, IsRecursiveSum(g, f, S)
    PROVE  i[S] = g[S]
<1> DEFINE Bad == {T \in SUBSET S : i[T] # g[T]}
<1>1. SUFFICES ASSUME Bad # {} PROVE FALSE
      OBVIOUS
<1>2. PICK T \in Bad : \A U \in Bad : U \subseteq T => U = T
      <2>1. Bad \subseteq SUBSET S
            OBVIOUS
      <2> HIDE DEF Bad
      <2>2. QED BY <1>1, <2>1, MinimalSubset
<1>3. T \in SUBSET S /\ T # {}
      BY DEF IsRecursiveSum
<1> DEFINE x == CHOOSE x \in T : TRUE
<1>4. x \in T /\ T \ {x} \in SUBSET S
      BY <1>3
<1>5. i[T \ {x}] = g[T \ {x}]
      BY <1>2, <1>4
<1>6. i[T] = f[x] + i[T \ {x}] /\ g[T] = f[x] + g[T \ {x}]
      BY <1>3 DEF IsRecursiveSum
<1>7. QED BY <1>5, <1>6

LEMMA SumUnique ==
    ASSUME NEW S, IsFiniteSet(S), NEW f, \A x \in S : f[x] \in Int, NEW g, IsSum(g, f, S)
    PROVE  SumOver(f, S) = g[S]
<1> DEFINE iter == CHOOSE i : i = [s \in SUBSET S |->
              IF s = {} THEN 0 ELSE LET x == CHOOSE x \in s : TRUE IN f[x] + i[s \ {x}]]
<1>1. SumOver(f, S) = iter[S]
      BY DEF SumOver, MapThenSumSet, MapThenFoldSet
<1>2. IsRecursiveSum(g, f, S)
      BY SumIsRecursive
<1>3. IsRecursiveSum(iter, f, S)
      BY <1>2 DEF IsRecursiveSum
<1>4. QED
      <2> HIDE DEF iter
      <2>1. QED BY <1>1, <1>2, <1>3, RecursiveSumIsUnique

LEMMA SumOnSubsets ==
    ASSUME NEW S, IsFiniteSet(S), NEW f, \A x \in S : f[x] \in Int
    PROVE  \E g : IsSum(g, f, S) /\ \A T \in SUBSET S : SumOver(f, T) = g[T]
<1>1. PICK g : IsSum(g, f, S)
      BY SumExists
<1>0. /\ g \in [SUBSET S -> Int] /\ g[{}] = 0
      /\ \A T \in SUBSET S : \A x \in T : g[T] = g[T \ {x}] + f[x]
      BY <1>1 DEF IsSum
<1>2. ASSUME NEW T \in SUBSET S PROVE SumOver(f, T) = g[T]
      <2> DEFINE h == [U \in SUBSET T |-> g[U]]
      <2>1. h \in [SUBSET T -> Int] /\ h[{}] = 0
            BY <1>0
      <2>2. ASSUME NEW U \in SUBSET T, NEW x \in U PROVE h[U] = h[U \ {x}] + f[x]
            <3>1. U \in SUBSET S /\ U \ {x} \in SUBSET T
                  OBVIOUS
            <3>2. QED BY <1>0, <3>1
      <2>3. IsSum(h, f, T)
            BY <2>1, <2>2 DEF IsSum
      <2>4. IsFiniteSet(T) /\ \A x \in T : f[x] \in Int
            BY FS_Subset
      <2>5. SumOver(f, T) = h[T]
            <3> HIDE DEF h
            <3>1. QED BY <2>3, <2>4, SumUnique
      <2>6. QED BY <2>5
<1>3. QED BY <1>1, <1>2

-----------------------------------------------------------------------------
(* What the proofs use of a sum: its type, one element less, a part and    *)
(* the rest, and another set with the same values.                         *)

LEMMA SumRemove ==
    ASSUME NEW S, IsFiniteSet(S), NEW f, \A x \in S : f[x] \in Int
    PROVE  /\ SumOver(f, {}) = 0 /\ SumOver(f, S) \in Int
           /\ \A x \in S : SumOver(f, S) = SumOver(f, S \ {x}) + f[x]
<1>1. PICK g : IsSum(g, f, S) /\ \A T \in SUBSET S : SumOver(f, T) = g[T]
      BY SumOnSubsets
<1>2. SumOver(f, {}) = g[{}] /\ SumOver(f, S) = g[S]
      BY <1>1
<1>3. \A x \in S : SumOver(f, S \ {x}) = g[S \ {x}]
      BY <1>1
<1>4. S \in SUBSET S
      OBVIOUS
<1>5. QED BY <1>1, <1>2, <1>3, <1>4 DEF IsSum

LEMMA SumSplit ==
    ASSUME NEW S, IsFiniteSet(S), NEW f, \A x \in S : f[x] \in Int, NEW T, T \subseteq S
    PROVE  /\ SumOver(f, T) \in Int /\ SumOver(f, S \ T) \in Int
           /\ SumOver(f, S) = SumOver(f, T) + SumOver(f, S \ T)
<1>0. PICK g : IsSum(g, f, S) /\ \A V \in SUBSET S : SumOver(f, V) = g[V]
      BY SumOnSubsets
<1>1. /\ g \in [SUBSET S -> Int] /\ g[{}] = 0
      /\ \A V \in SUBSET S : \A x \in V : g[V] = g[V \ {x}] + f[x]
      BY <1>0 DEF IsSum
<1> DEFINE Bad == {V \in SUBSET T : g[S] # g[V] + g[S \ V]}
<1>2. Bad = {}
      <2>1. SUFFICES ASSUME Bad # {} PROVE FALSE
            OBVIOUS
      <2>2. PICK V \in Bad : \A U \in Bad : U \subseteq V => U = V
            <3>1. Bad \subseteq SUBSET T /\ IsFiniteSet(T)
                  BY FS_Subset
            <3> HIDE DEF Bad
            <3>2. QED BY <2>1, <3>1, MinimalSubset
      <2>3. PICK x \in V : TRUE
            <3>1. g[S] \in Int /\ S \ {} = S
                  BY <1>1
            <3>2. g[S] = g[{}] + g[S \ {}]
                  BY <1>1, <3>1
            <3>3. V # {}
                  BY <3>2
            <3>4. QED BY <3>3
      <2> DEFINE U == V \ {x}
      <2>4. U \in SUBSET T /\ V \in SUBSET S /\ U \in SUBSET S /\ S \ U \in SUBSET S
                /\ x \in S \ U /\ S \ V \in SUBSET S
            OBVIOUS
      <2>5. g[S] = g[U] + g[S \ U]
            <3>1. U \notin Bad
                  BY <2>2, <2>3
            <3>2. QED BY <2>4, <3>1
      <2>6. g[V] = g[U] + f[x]
            BY <1>1, <2>4
      <2>7. g[S \ U] = g[S \ V] + f[x]
            <3>1. (S \ U) \ {x} = S \ V
                  OBVIOUS
            <3>2. g[S \ U] = g[(S \ U) \ {x}] + f[x]
                  BY <1>1, <2>4
            <3>3. QED BY <3>1, <3>2
      <2>8. g[U] \in Int /\ g[V] \in Int /\ g[S \ U] \in Int /\ g[S \ V] \in Int /\ f[x] \in Int
            BY <1>1, <2>4
      <2>9. QED BY <2>2, <2>5, <2>6, <2>7, <2>8
<1>3. g[S] = g[T] + g[S \ T]
      BY <1>2
<1>4. S \in SUBSET S /\ T \in SUBSET S /\ S \ T \in SUBSET S
      OBVIOUS
<1>5. SumOver(f, S) = g[S] /\ SumOver(f, T) = g[T] /\ SumOver(f, S \ T) = g[S \ T]
      BY <1>0, <1>4
<1>6. g[T] \in Int /\ g[S \ T] \in Int
      BY <1>1, <1>4
<1>7. QED BY <1>3, <1>5, <1>6

LEMMA SumNat ==
    ASSUME NEW S, IsFiniteSet(S), NEW f, \A x \in S : f[x] \in Nat
    PROVE  SumOver(f, S) \in Nat
<1>0. PICK g : IsSum(g, f, S) /\ \A V \in SUBSET S : SumOver(f, V) = g[V]
      BY SumOnSubsets
<1>1. /\ g \in [SUBSET S -> Int] /\ g[{}] = 0
      /\ \A V \in SUBSET S : \A x \in V : g[V] = g[V \ {x}] + f[x]
      BY <1>0 DEF IsSum
<1> DEFINE Bad == {V \in SUBSET S : g[V] \notin Nat}
<1>2. SUFFICES ASSUME Bad # {} PROVE FALSE
      BY <1>0
<1>3. PICK V \in Bad : \A U \in Bad : U \subseteq V => U = V
      <2>1. Bad \subseteq SUBSET S
            OBVIOUS
      <2> HIDE DEF Bad
      <2>2. QED BY <1>2, <2>1, MinimalSubset
<1>4. PICK x \in V : TRUE
      <2>1. V # {}
            <3>1. {} \notin Bad
                  BY <1>1
            <3> HIDE DEF Bad
            <3>2. QED BY <3>1
      <2>2. QED BY <2>1
<1>5. g[V \ {x}] \in Nat
      BY <1>3, <1>4
<1>6. QED BY <1>1, <1>3, <1>4, <1>5

(* m pairs the elements of S with those of T, of the same value.           *)
LEMMA SumImage ==
    ASSUME NEW S, IsFiniteSet(S), NEW f, \A x \in S : f[x] \in Int,
           NEW T, NEW m \in [S -> T], \A y \in T : \E x \in S : m[x] = y,
           \A x, y \in S : m[x] = m[y] => x = y,
           NEW h, \A x \in S : h[m[x]] = f[x]
    PROVE  IsFiniteSet(T) /\ SumOver(h, T) = SumOver(f, S)
<1>1. IsFiniteSet(T)
      <2>1. m \in Surjection(S, T)
            BY DEF Surjection
      <2>2. QED BY <2>1, FS_Surjection
<1>2. \A y \in T : h[y] \in Int
      OBVIOUS
<1>3. PICK g : IsSum(g, f, S) /\ \A V \in SUBSET S : SumOver(f, V) = g[V]
      BY SumOnSubsets
<1>4. PICK k : IsSum(k, h, T) /\ \A V \in SUBSET T : SumOver(h, V) = k[V]
      BY <1>1, <1>2, SumOnSubsets
<1>5. /\ g[{}] = 0 /\ \A V \in SUBSET S : \A x \in V : g[V] = g[V \ {x}] + f[x]
      /\ k[{}] = 0 /\ \A V \in SUBSET T : \A y \in V : k[V] = k[V \ {y}] + h[y]
      BY <1>3, <1>4 DEF IsSum
<1> DEFINE Im(V) == {m[x] : x \in V}
<1> DEFINE Bad == {V \in SUBSET S : k[Im(V)] # g[V]}
<1>6. Bad = {}
      <2>1. SUFFICES ASSUME Bad # {} PROVE FALSE
            OBVIOUS
      <2>2. PICK V \in Bad : \A U \in Bad : U \subseteq V => U = V
            <3>1. Bad \subseteq SUBSET S
                  OBVIOUS
            <3> HIDE DEF Bad
            <3>2. QED BY <2>1, <3>1, MinimalSubset
      <2>3. PICK x \in V : TRUE
            <3>1. Im({}) = {}
                  OBVIOUS
            <3>2. QED BY <1>5, <3>1
      <2>4. Im(V) \ {m[x]} = Im(V \ {x})
            <3>1. ASSUME NEW z \in V, z # x PROVE m[z] # m[x]
                  BY <3>1
            <3>2. QED BY <3>1
      <2>5. k[Im(V \ {x})] = g[V \ {x}]
            <3>1. V \ {x} \in SUBSET S /\ V \ {x} # V
                  OBVIOUS
            <3>2. V \ {x} \notin Bad
                  BY <2>2, <3>1
            <3> HIDE DEF Im
            <3>3. QED BY <3>1, <3>2
      <2>6. Im(V) \in SUBSET T /\ m[x] \in Im(V) /\ V \in SUBSET S /\ h[m[x]] = f[x]
            OBVIOUS
      <2>7. k[Im(V)] = k[Im(V) \ {m[x]}] + h[m[x]]
            <3> HIDE DEF Im
            <3>1. QED BY <1>5, <2>6
      <2>8. g[V] = g[V \ {x}] + f[x]
            BY <1>5
      <2>9. QED BY <2>2, <2>4, <2>5, <2>6, <2>7, <2>8
<1>7. Im(S) = T
      OBVIOUS
<1>8. k[T] = g[S]
      BY <1>6, <1>7
<1>9. QED BY <1>1, <1>3, <1>4, <1>8

LEMMA SumSame ==
    ASSUME NEW S, IsFiniteSet(S), NEW f, \A x \in S : f[x] \in Int,
           NEW h, \A x \in S : h[x] = f[x]
    PROVE  SumOver(h, S) = SumOver(f, S)
<1> DEFINE m == [x \in S |-> x]
<1>1. /\ m \in [S -> S] /\ \A x \in S : m[x] = x
      /\ \A y \in S : \E x \in S : m[x] = y
      /\ \A x, y \in S : m[x] = m[y] => x = y
      OBVIOUS
<1>2. \A x \in S : h[m[x]] = f[x]
      OBVIOUS
<1> HIDE DEF m
<1>3. QED BY <1>1, <1>2, SumImage

(* Values that change in one place, the sum over a part, and of zeros.     *)
LEMMA SumChange ==
  ASSUME NEW S, IsFiniteSet(S), NEW f, \A y \in S : f[y] \in Int,
         NEW h, NEW x, \A y \in S \ {x} : h[y] = f[y], x \in S => h[x] \in Int
  PROVE  /\ x \notin S => SumOver(h, S) = SumOver(f, S)
         /\ x \in S => SumOver(h, S) = SumOver(f, S) + h[x] - f[x]
         /\ SumOver(f, S) \in Int /\ SumOver(h, S) \in Int
<1>1. CASE x \notin S
  BY <1>1, SumSame, SumRemove
<1>2. CASE x \in S
  <2>1. IsFiniteSet(S \ {x}) /\ \A y \in S : h[y] \in Int
    BY <1>2, FS_Subset
  <2>2. SumOver(h, S \ {x}) = SumOver(f, S \ {x})
    BY <2>1, SumSame
  <2>3. SumOver(h, S) = SumOver(h, S \ {x}) + h[x] /\ SumOver(f, S) = SumOver(f, S \ {x}) + f[x]
    BY <1>2, <2>1, SumRemove
  <2>4. SumOver(f, S \ {x}) \in Int /\ SumOver(f, S) \in Int /\ SumOver(h, S) \in Int
    BY <1>2, <2>1, SumRemove
  <2>. QED
    BY <1>2, <2>1, <2>2, <2>3, <2>4
<1>. QED
  BY <1>1, <1>2

LEMMA SumOfPart ==
  ASSUME NEW S, IsFiniteSet(S), NEW f, \A y \in S : f[y] \in Nat, NEW T, T \subseteq S
  PROVE  /\ SumOver(f, T) \in Nat /\ SumOver(f, S) \in Nat /\ SumOver(f, T) <= SumOver(f, S)
         /\ SumOver(f, S) = SumOver(f, T) + SumOver(f, S \ T)
<1>1. IsFiniteSet(T) /\ IsFiniteSet(S \ T)
  BY FS_Subset
<1>2. SumOver(f, T) \in Nat /\ SumOver(f, S) \in Nat /\ SumOver(f, S \ T) \in Nat
  BY <1>1, SumNat
<1>3. SumOver(f, S) = SumOver(f, T) + SumOver(f, S \ T)
  BY SumSplit
<1>. QED
  BY <1>2, <1>3

LEMMA SumZero ==
  ASSUME NEW S, IsFiniteSet(S), NEW f, \A x \in S : f[x] = 0 PROVE SumOver(f, S) = 0
<1>0. PICK g : IsSum(g, f, S) /\ \A V \in SUBSET S : SumOver(f, V) = g[V]
  <2>1. \A x \in S : f[x] \in Int
    OBVIOUS
  <2>. QED
    BY <2>1, SumOnSubsets
<1>1. /\ g \in [SUBSET S -> Int] /\ g[{}] = 0
      /\ \A V \in SUBSET S : \A x \in V : g[V] = g[V \ {x}] + f[x]
  BY <1>0 DEF IsSum
<1> DEFINE Bad == {V \in SUBSET S : g[V] # 0}
<1>2. SUFFICES ASSUME Bad # {} PROVE FALSE
  BY <1>0
<1>3. PICK V \in Bad : \A U \in Bad : U \subseteq V => U = V
  <2>1. Bad \subseteq SUBSET S
    OBVIOUS
  <2> HIDE DEF Bad
  <2>. QED
    BY <1>2, <2>1, MinimalSubset
<1>4. PICK x \in V : TRUE
  <2>1. {} \notin Bad
    BY <1>1
  <2> HIDE DEF Bad
  <2>. QED
    BY <2>1
<1>5. g[V \ {x}] = 0
  BY <1>3, <1>4
<1>. QED
  BY <1>1, <1>3, <1>4, <1>5

-----------------------------------------------------------------------------
(* Sums of amounts.                                                        *)

(* The amounts of a set of allocations, as a function on it.               *)
Amounts(allocs) == [k \in allocs |-> k.amount]
Summable(allocs) == IsFiniteSet(allocs) /\ \A k \in allocs : k.amount \in Nat

LEMMA TotalIsSum ==
    ASSUME NEW S, Summable(S)
    PROVE  Total(S) = SumOver(Amounts(S), S)
<1> DEFINE Step(i) == [s \in SUBSET S |->
              IF s = {} THEN 0 ELSE LET x == CHOOSE x \in s : TRUE IN x.amount + i[s \ {x}]]
<1> DEFINE iter == CHOOSE i : i = Step(i)
<1>1. Total(S) = iter[S]
      BY DEF Total, MapThenSumSet, MapThenFoldSet
<1>2. IsFiniteSet(S) /\ \A x \in S : Amounts(S)[x] \in Int
      BY DEF Summable, Amounts
<1>3. PICK g : IsSum(g, Amounts(S), S)
      BY <1>2, SumExists
<1>4. IsRecursiveSum(g, Amounts(S), S)
      BY <1>2, <1>3, SumIsRecursive
<1>5. ASSUME NEW i PROVE i = Step(i) <=> IsRecursiveSum(i, Amounts(S), S)
      <2> DEFINE Other == [s \in SUBSET S |->
              IF s = {} THEN 0
              ELSE LET x == CHOOSE x \in s : TRUE IN Amounts(S)[x] + i[s \ {x}]]
      <2>1. ASSUME NEW s \in SUBSET S PROVE Step(i)[s] = Other[s]
            <3>1. CASE s = {}
                  BY <3>1
            <3>2. CASE s # {}
                  <4>1. (CHOOSE x \in s : TRUE) \in S
                        BY <3>2
                  <4>2. QED BY <3>2, <4>1 DEF Amounts
            <3>3. QED BY <3>1, <3>2
      <2>2. Step(i) = Other
            BY <2>1
      <2>3. QED BY <2>2 DEF IsRecursiveSum
<1>6. iter = Step(iter)
      <2>1. g = Step(g)
            BY <1>4, <1>5
      <2> HIDE DEF Step
      <2>2. QED BY <2>1
<1>7. iter[S] = g[S]
      <2> HIDE DEF iter
      <2>1. IsRecursiveSum(iter, Amounts(S), S)
            BY <1>5, <1>6
      <2>2. QED BY <1>2, <1>4, <2>1, RecursiveSumIsUnique
<1>8. QED BY <1>1, <1>2, <1>3, <1>7, SumUnique

LEMMA TotalOnSubsets ==
    ASSUME NEW S, Summable(S), NEW T, T \subseteq S
    PROVE  Summable(T) /\ Total(T) = SumOver(Amounts(S), T)
<1>1. IsFiniteSet(T)
      BY FS_Subset DEF Summable
<1>2. Summable(T)
      BY <1>1 DEF Summable
<1>3. \A x \in T : Amounts(S)[x] \in Int /\ Amounts(T)[x] = Amounts(S)[x]
      BY DEF Amounts, Summable
<1>4. SumOver(Amounts(T), T) = SumOver(Amounts(S), T)
      BY <1>1, <1>3, SumSame
<1>5. QED BY <1>2, <1>4, TotalIsSum

(* The total of what is taken apart is the sum of the totals.              *)
LEMMA TotalSplit ==
    ASSUME NEW S, Summable(S), NEW T, T \subseteq S
    PROVE  /\ Total(S) \in Nat /\ Total(T) \in Nat /\ Total(S \ T) \in Nat
           /\ Summable(T) /\ Summable(S \ T)
           /\ Total(S) = Total(T) + Total(S \ T)
<1>1. Total(S) = SumOver(Amounts(S), S) /\ Total(T) = SumOver(Amounts(S), T)
          /\ Total(S \ T) = SumOver(Amounts(S), S \ T) /\ Summable(T) /\ Summable(S \ T)
      BY TotalOnSubsets
<1>2. IsFiniteSet(S) /\ \A x \in S : Amounts(S)[x] \in Nat
      BY DEF Summable, Amounts
<1>3. IsFiniteSet(T) /\ IsFiniteSet(S \ T)
      BY <1>2, FS_Subset
<1>4. SumOver(Amounts(S), S) \in Nat /\ SumOver(Amounts(S), T) \in Nat
          /\ SumOver(Amounts(S), S \ T) \in Nat
      BY <1>2, <1>3, SumNat
<1>5. SumOver(Amounts(S), S) = SumOver(Amounts(S), T) + SumOver(Amounts(S), S \ T)
      BY <1>2, SumSplit
<1>6. QED BY <1>1, <1>4, <1>5

LEMMA TotalUnion ==
    ASSUME NEW S, Summable(S), NEW T, Summable(T), S \cap T = {}
    PROVE  Summable(S \cup T) /\ Total(S \cup T) = Total(S) + Total(T)
<1>1. Summable(S \cup T)
      BY FS_Union DEF Summable
<1>2. (S \cup T) \ S = T
      OBVIOUS
<1>3. QED BY <1>1, <1>2, TotalSplit

LEMMA TotalOfOne ==
    /\ Summable({}) /\ Total({}) = 0
    /\ \A k : k.amount \in Nat => Summable({k}) /\ Total({k}) = k.amount
<1>1. Summable({})
      BY FS_EmptySet DEF Summable
<1>2. Total({}) = 0
      <2>1. \A x \in {} : Amounts({})[x] \in Int
            OBVIOUS
      <2>2. SumOver(Amounts({}), {}) = 0
            BY <2>1, FS_EmptySet, SumRemove
      <2>3. QED BY <1>1, <2>2, TotalIsSum
<1>3. ASSUME NEW k, k.amount \in Nat PROVE Summable({k}) /\ Total({k}) = k.amount
      <2>1. Summable({k})
            BY <1>3, FS_Singleton DEF Summable
      <2>2. \A x \in {k} : Amounts({k})[x] \in Int /\ Amounts({k})[x] = k.amount
            BY <1>3 DEF Amounts
      <2>3. {k} \ {k} = {} /\ IsFiniteSet({k})
            BY FS_Singleton
      <2>4. SumOver(Amounts({k}), {k}) = SumOver(Amounts({k}), {}) + k.amount
                /\ SumOver(Amounts({k}), {}) = 0
            BY <2>2, <2>3, SumRemove
      <2>5. QED BY <1>3, <2>1, <2>4, TotalIsSum
<1>4. QED BY <1>1, <1>2, <1>3

(* A part has no larger total; a union no larger one than its parts have.  *)
LEMMA TotalOfPart ==
  ASSUME NEW S, Summable(S), NEW T, T \subseteq S
  PROVE  Summable(T) /\ Total(T) \in Nat /\ Total(S) \in Nat /\ Total(T) <= Total(S)
<1>1. /\ Total(S) \in Nat /\ Total(T) \in Nat /\ Total(S \ T) \in Nat /\ Summable(T)
      /\ Total(S) = Total(T) + Total(S \ T)
  BY TotalSplit
<1>. QED
  BY <1>1

LEMMA TotalOfBoth ==
  ASSUME NEW S, Summable(S), NEW T, Summable(T)
  PROVE  /\ Summable(S \cup T) /\ Total(S \cup T) <= Total(S) + Total(T)
         /\ Total(S) \in Nat /\ Total(T) \in Nat /\ Total(S \cup T) \in Nat
<1>1. Summable(T \ S) /\ Total(T \ S) \in Nat /\ Total(T \ S) <= Total(T) /\ Total(T) \in Nat
  BY TotalOfPart
<1>2. S \cup T = S \cup (T \ S) /\ S \cap (T \ S) = {}
  OBVIOUS
<1>3. Summable(S \cup T) /\ Total(S \cup T) = Total(S) + Total(T \ S)
  BY <1>1, <1>2, TotalUnion
<1>4. Total(S) \in Nat
  BY TotalOfPart
<1>. QED
  BY <1>1, <1>3, <1>4

(* m pairs the allocations of S with those of T, of the same amount.       *)
LEMMA TotalImage ==
    ASSUME NEW S, Summable(S),
           NEW T, NEW m \in [S -> T], \A y \in T : \E x \in S : m[x] = y,
           \A x, y \in S : m[x] = m[y] => x = y,
           \A x \in S : m[x].amount = x.amount
    PROVE  Summable(T) /\ Total(T) = Total(S)
<1>1. IsFiniteSet(S) /\ \A x \in S : Amounts(S)[x] \in Int
      BY DEF Summable, Amounts
<1>2. \A x \in S : Amounts(T)[m[x]] = Amounts(S)[x]
      BY DEF Amounts
<1>3. IsFiniteSet(T) /\ SumOver(Amounts(T), T) = SumOver(Amounts(S), S)
      <2> DEFINE f == Amounts(S)
                 h == Amounts(T)
      <2>1. \A x \in S : f[x] \in Int /\ h[m[x]] = f[x]
            BY <1>1, <1>2
      <2> HIDE DEF f, h
      <2>2. /\ m \in [S -> T] /\ \A y \in T : \E x \in S : m[x] = y
            /\ \A x, y \in S : m[x] = m[y] => x = y
            OBVIOUS
      <2>3. IsFiniteSet(S) /\ \A x \in S : f[x] \in Int
            BY <1>1, <2>1
      <2>4. \A x \in S : h[m[x]] = f[x]
            BY <2>1
      <2>5. IsFiniteSet(T) /\ SumOver(h, T) = SumOver(f, S)
            BY ONLY <2>2, <2>3, <2>4, SumImage
      <2>6. QED BY <2>5 DEF f, h
<1>4. \A y \in T : y.amount \in Nat
      BY DEF Summable
<1>5. Summable(T)
      BY <1>3, <1>4 DEF Summable
<1>6. QED BY <1>3, <1>5, TotalIsSum

(* The allocations of several UTXOs: the total is the sum of the totals.   *)
LEMMA TotalOfParts ==
    ASSUME NEW H, IsFiniteSet(H), NEW part, \A u \in H : Summable(part[u]),
           \A u, v \in H : u # v => part[u] \cap part[v] = {}
    PROVE  /\ Summable(UNION {part[u] : u \in H})
           /\ Total(UNION {part[u] : u \in H}) = SumOver([u \in H |-> Total(part[u])], H)
<1> DEFINE f == [u \in H |-> Total(part[u])]
<1> DEFINE All(V) == UNION {part[u] : u \in V}
<1>1. \A u \in H : f[u] \in Int /\ f[u] = Total(part[u])
      <2>1. \A u \in H : Total(part[u]) \in Nat
            BY TotalSplit
      <2>2. QED BY <2>1
<1> HIDE DEF f
<1>2. PICK g : IsSum(g, f, H) /\ \A V \in SUBSET H : SumOver(f, V) = g[V]
      BY <1>1, SumOnSubsets
<1>3. g[{}] = 0 /\ \A V \in SUBSET H : \A u \in V : g[V] = g[V \ {u}] + f[u]
      BY <1>2 DEF IsSum
<1> DEFINE Bad == {V \in SUBSET H : ~ (Summable(All(V)) /\ Total(All(V)) = g[V])}
<1>4. Bad = {}
      <2>1. SUFFICES ASSUME Bad # {} PROVE FALSE
            OBVIOUS
      <2>2. PICK V \in Bad : \A U \in Bad : U \subseteq V => U = V
            <3>1. Bad \subseteq SUBSET H
                  OBVIOUS
            <3> HIDE DEF Bad
            <3>2. QED BY <2>1, <3>1, MinimalSubset
      <2>3. PICK u \in V : TRUE
            <3>1. All({}) = {}
                  OBVIOUS
            <3>2. {} \notin Bad
                  <4> HIDE DEF All
                  <4>1. QED BY <1>3, <3>1, TotalOfOne
            <3> HIDE DEF Bad
            <3>3. QED BY <3>2
      <2> DEFINE U == V \ {u}
      <2>4. Summable(All(U)) /\ Total(All(U)) = g[U]
            <3>1. U \in SUBSET H /\ U # V /\ U \subseteq V
                  OBVIOUS
            <3>2. U \notin Bad
                  BY <2>2, <3>1
            <3> HIDE DEF All
            <3>3. QED BY <3>1, <3>2
      <2>5. All(V) = All(U) \cup part[u]
            OBVIOUS
      <2>6. All(U) \cap part[u] = {}
            OBVIOUS
      <2>7. Summable(part[u])
            OBVIOUS
      <2>8. Summable(All(V)) /\ Total(All(V)) = g[U] + f[u]
            <3> HIDE DEF All
            <3>1. Summable(All(U) \cup part[u])
                      /\ Total(All(U) \cup part[u]) = Total(All(U)) + Total(part[u])
                  BY <2>4, <2>6, <2>7, TotalUnion
            <3>2. f[u] = Total(part[u])
                  BY <1>1
            <3>3. QED BY <2>4, <2>5, <3>1, <3>2
      <2>9. g[V] = g[U] + f[u]
            BY <1>3
      <2>10. QED
            <3> HIDE DEF All
            <3>1. QED BY <2>2, <2>8, <2>9
<1>5. Summable(All(H)) /\ Total(All(H)) = g[H] /\ SumOver(f, H) = g[H]
      <2>1. H \in SUBSET H
            OBVIOUS
      <2> HIDE DEF All
      <2>2. QED BY <1>2, <1>4, <2>1
<1>6. QED BY <1>5 DEF f

-----------------------------------------------------------------------------
(* What Reaching returns, and when it returns nothing.                     *)

LEMMA ReachingFacts ==
    ASSUME NEW S, NEW order, NEW value, NEW need, NEW C \in Reaching(S, order, value, need)
    PROVE  C \subseteq S /\ SumOver(value, C) >= need
               /\ \E last \in C : SumOver(value, C \ {last}) < need
BY DEF Reaching, SumOver

(* Candidates that suffice are reached.                                    *)
LEMMA EnoughIsReached ==
    ASSUME NEW S, IsFiniteSet(S), NEW order, \A x \in S : order[x] \in Int,
           NEW value, \A x \in S : value[x] \in Int,
           NEW need \in Nat \ {0}, SumOver(value, S) >= need
    PROVE  Reaching(S, order, value, need) # {}
<1> DEFINE Good == {C \in SUBSET S : /\ SumOver(value, C) >= need
                                     /\ \A x \in C, y \in S \ C : order[x] <= order[y]}
<1>1. S \in Good /\ Good \subseteq SUBSET S
      OBVIOUS
<1>2. PICK C \in Good : \A U \in Good : U \subseteq C => U = C
      <2> HIDE DEF Good
      <2>1. QED BY <1>1, MinimalSubset
<1>3. IsFiniteSet(C) /\ \A x \in C : order[x] \in Int /\ value[x] \in Int
      BY FS_Subset
<1>4. C # {}
      <2>1. SumOver(value, {}) = 0
            BY <1>3, SumRemove
      <2>2. {} \notin Good
            BY <2>1
      <2> HIDE DEF Good
      <2>3. QED BY <2>2
<1>5. PICK last \in C : \A x \in C : order[x] <= order[last]
      BY <1>3, <1>4, GreatestMember
<1>6. \A x \in S \ C : order[last] <= order[x]
      OBVIOUS
<1>7. SumOver(value, C \ {last}) \in Int
      BY <1>3, SumSplit
<1>8. ~ SumOver(value, C \ {last}) >= need
      <2>1. ASSUME NEW x \in C \ {last}, NEW y \in S \ (C \ {last}) PROVE order[x] <= order[y]
            BY <1>5
      <2>2. C \ {last} \in SUBSET S /\ C \ {last} # C
            OBVIOUS
      <2>3. QED BY <1>2, <2>1, <2>2
<1>9. SumOver(value, C \ {last}) < need
      BY <1>7, <1>8
<1>10. SumOver(value, C) >= need /\ C \in SUBSET S
      OBVIOUS
<1>11. QED BY <1>5, <1>6, <1>9, <1>10 DEF Reaching, SumOver
=============================================================================
