---------------------------- MODULE SumTheorems -----------------------------
(***************************************************************************)
(* Facts about sums over finite sets (SumFunctionOnSet of the community    *)
(* modules) and about recursion on an interval of naturals, that the other *)
(* proofs cite.  Induction is done with sets: the library's induction      *)
(* theorems take an operator, but that a finite set has a minimal          *)
(* counterexample (WFMin) is a first-order fact.                           *)
(***************************************************************************)
EXTENDS Integers, FiniteSets, Functions, FiniteSetTheorems, WellFoundedInduction, TLAPS

\* A nonempty family of subsets of a finite set has a minimal member; the inductions below
\* are arguments about a smallest counterexample.
LEMMA MinimalSubset ==
    ASSUME NEW S, IsFiniteSet(S), NEW C, C \subseteq SUBSET S, C # {}
    PROVE  \E T \in C : \A U \in C : U \subseteq T => U = T
<1>1. C \subseteq FiniteSubsetsOf(S)
  BY FS_Subset DEF FiniteSubsetsOf
<1>2. PICK T \in C : \A U \in C : ~(<<U, T>> \in StrictSubsetOrdering(S))
  BY <1>1, FS_StrictSubsetOrderingWellFounded, WFMin
<1> QED
  BY <1>2 DEF StrictSubsetOrdering

\* The element that the fold of MapThenFoldSet takes first.
Pick(T) == CHOOSE x \in T : TRUE

\* g is the recursive function that SumFunctionOnSet chooses to sum f over S.
PartialSums(g, f, S) ==
    g = [T \in SUBSET S |-> IF T = {} THEN 0 ELSE f[Pick(T)] + g[T \ {Pick(T)}]]

\* Pick takes an element.
LEMMA PickIn == ASSUME NEW T, T # {} PROVE Pick(T) \in T
BY DEF Pick

\* The sum, with the definitions of the folds expanded.
LEMMA SumUnfolded ==
    ASSUME NEW f, NEW S
    PROVE  SumFunctionOnSet(f, S) = (CHOOSE g : PartialSums(g, f, S))[S]
BY DEF SumFunctionOnSet, FoldFunctionOnSet, MapThenFoldSet, PartialSums, Pick

\* Two such functions agree wherever both are defined.
LEMMA PartialSumsAgree ==
    ASSUME NEW f, NEW S, NEW R, NEW g, NEW h, PartialSums(g, f, S), PartialSums(h, f, R),
           NEW V, V \subseteq S, V \subseteq R, IsFiniteSet(V)
    PROVE  g[V] = h[V]
<1> DEFINE Bad == {T \in SUBSET V : g[T] # h[T]}
<1> SUFFICES ASSUME Bad # {} PROVE FALSE
  OBVIOUS
<1>1. PICK T \in Bad : \A U \in Bad : U \subseteq T => U = T
  <2>1. Bad \subseteq SUBSET V
    OBVIOUS
  <2> HIDE DEF Bad
  <2> QED
    BY <2>1, MinimalSubset
<1>2. T # {}
  BY <1>1 DEF PartialSums
<1>3. /\ g[T] = f[Pick(T)] + g[T \ {Pick(T)}]
      /\ h[T] = f[Pick(T)] + h[T \ {Pick(T)}]
  BY <1>2 DEF PartialSums
<1>4. T \ {Pick(T)} \notin Bad
  BY <1>1, <1>2, PickIn
<1> QED
  BY <1>3, <1>4

\* There is one over every finite set.
LEMMA PartialSumsExist ==
    ASSUME NEW f, NEW S, IsFiniteSet(S)
    PROVE  \E g : PartialSums(g, f, S)
<1> DEFINE Bad == {T \in SUBSET S : ~ \E g : PartialSums(g, f, T)}
<1> SUFFICES ASSUME Bad # {} PROVE FALSE
  OBVIOUS
<1>1. PICK R \in Bad : \A U \in Bad : U \subseteq R => U = R
  <2>1. Bad \subseteq SUBSET S
    OBVIOUS
  <2> HIDE DEF Bad
  <2> QED
    BY <2>1, MinimalSubset
<1> DEFINE h(T) == CHOOSE g : PartialSums(g, f, T)
           g == [T \in SUBSET R |-> IF T = {} THEN 0
                                    ELSE f[Pick(T)] + h(T \ {Pick(T)})[T \ {Pick(T)}]]
<1>2. ASSUME NEW T \in SUBSET R, T # R PROVE PartialSums(h(T), f, T)
  BY <1>1, <1>2
<1>3. ASSUME NEW T \in SUBSET R, T # R PROVE g[T] = h(T)[T]
  <2>1. CASE T = {}
    <3>1. g[T] = 0
      BY <2>1
    <3>2. PartialSums(h(T), f, T)
      BY <1>2, <1>3
    <3> HIDE DEF g, h
    <3> QED
      BY <2>1, <3>1, <3>2 DEF PartialSums
  <2>2. CASE T # {}
    <3> DEFINE U == T \ {Pick(T)}
    <3>1. U \in SUBSET T /\ U # T /\ U \in SUBSET R /\ U # R
      BY <2>2, PickIn
    <3>2. h(T)[U] = h(U)[U]
      <4>1. IsFiniteSet(U)
        BY <3>1, FS_Subset
      <4>2. PartialSums(h(U), f, U) /\ PartialSums(h(T), f, T)
        BY <1>2, <1>3, <3>1
      <4> HIDE DEF U, h
      <4> QED
        BY <4>1, <4>2, <3>1, PartialSumsAgree
    <3>3. h(T)[T] = f[Pick(T)] + h(T)[U]
      <4>1. PartialSums(h(T), f, T)
        BY <1>2, <1>3
      <4> HIDE DEF h
      <4> QED
        BY <4>1, <2>2 DEF PartialSums
    <3>4. g[T] = f[Pick(T)] + h(U)[U]
      BY <2>2
    <3> QED
      BY <3>2, <3>3, <3>4
  <2> QED
    BY <2>1, <2>2
<1>4. PartialSums(g, f, R)
  <2>1. ASSUME NEW T \in SUBSET R, T # {}
        PROVE  g[T] = f[Pick(T)] + g[T \ {Pick(T)}]
    <3>1. T \ {Pick(T)} \in SUBSET R /\ T \ {Pick(T)} # R
      BY <2>1, PickIn
    <3>2. g[T \ {Pick(T)}] = h(T \ {Pick(T)})[T \ {Pick(T)}]
      BY <1>3, <3>1
    <3> QED
      BY <2>1, <3>2
  <2>2. g[{}] = 0
    OBVIOUS
  <2>3. g = [T \in SUBSET R |-> g[T]]
    OBVIOUS
  <2> HIDE DEF g
  <2> QED
    BY <2>1, <2>2, <2>3 DEF PartialSums
<1> QED
  BY <1>1, <1>4

\* The sum takes out one element and goes on with the rest.
LEMMA SumStep ==
    ASSUME NEW f, NEW S, IsFiniteSet(S)
    PROVE  SumFunctionOnSet(f, S) =
             IF S = {} THEN 0 ELSE f[Pick(S)] + SumFunctionOnSet(f, S \ {Pick(S)})
<1> DEFINE h(T) == CHOOSE g : PartialSums(g, f, T)
           U == S \ {Pick(S)}
<1>1. IsFiniteSet(U)
  BY FS_Subset
<1>2. PartialSums(h(S), f, S) /\ PartialSums(h(U), f, U)
  BY <1>1, PartialSumsExist
<1>3. SumFunctionOnSet(f, S) = h(S)[S] /\ SumFunctionOnSet(f, U) = h(U)[U]
  BY SumUnfolded
<1> HIDE DEF h
<1>4. h(S)[U] = h(U)[U]
  BY <1>1, <1>2, PartialSumsAgree
<1>5. CASE S = {}
  BY <1>2, <1>3, <1>5 DEF PartialSums
<1>6. CASE S # {}
  <2>1. h(S)[S] = f[Pick(S)] + h(S)[U]
    BY <1>2, <1>6 DEF PartialSums
  <2> QED
    BY <1>3, <1>4, <1>6, <2>1
<1> QED
  BY <1>5, <1>6

\* The empty sum.
LEMMA SumEmpty == ASSUME NEW f PROVE SumFunctionOnSet(f, {}) = 0
BY SumStep, FS_EmptySet

\* A sum of integers is an integer.
LEMMA SumInt ==
    ASSUME NEW S, IsFiniteSet(S), NEW f, \A x \in S : f[x] \in Int
    PROVE  SumFunctionOnSet(f, S) \in Int
<1> DEFINE Bad == {T \in SUBSET S : SumFunctionOnSet(f, T) \notin Int}
<1> SUFFICES ASSUME Bad # {} PROVE FALSE
  OBVIOUS
<1>1. PICK T \in Bad : \A U \in Bad : U \subseteq T => U = T
  <2>1. Bad \subseteq SUBSET S
    OBVIOUS
  <2> HIDE DEF Bad
  <2> QED
    BY <2>1, MinimalSubset
<1>2. T # {}
  <2>1. SumFunctionOnSet(f, {}) = 0
    BY SumEmpty
  <2>2. SumFunctionOnSet(f, T) \notin Int
    OBVIOUS
  <2> HIDE DEF Bad
  <2>3. SumFunctionOnSet(f, {}) \in Int
    BY <2>1
  <2> QED
    BY <2>2, <2>3
<1>3. /\ SumFunctionOnSet(f, T) = f[Pick(T)] + SumFunctionOnSet(f, T \ {Pick(T)})
      /\ Pick(T) \in S
  BY <1>2, SumStep, FS_Subset, PickIn
<1>4. T \ {Pick(T)} \notin Bad
  BY <1>1, <1>2, PickIn
<1>5. SumFunctionOnSet(f, T \ {Pick(T)}) \in Int
  BY <1>4
<1> QED
  BY <1>1, <1>3, <1>5

\* Any element may be taken out first.
LEMMA SumRemove ==
    ASSUME NEW S, IsFiniteSet(S), NEW f, \A x \in S : f[x] \in Int, NEW x \in S
    PROVE  SumFunctionOnSet(f, S) = f[x] + SumFunctionOnSet(f, S \ {x})
<1> DEFINE Bad == {T \in SUBSET S : \E y \in T :
                      SumFunctionOnSet(f, T) # f[y] + SumFunctionOnSet(f, T \ {y})}
<1> SUFFICES ASSUME Bad # {} PROVE FALSE
  OBVIOUS
<1>1. PICK T \in Bad : \A U \in Bad : U \subseteq T => U = T
  <2>1. Bad \subseteq SUBSET S
    OBVIOUS
  <2> HIDE DEF Bad
  <2> QED
    BY <2>1, MinimalSubset
<1>2. PICK y \in T : SumFunctionOnSet(f, T) # f[y] + SumFunctionOnSet(f, T \ {y})
  OBVIOUS
<1> DEFINE z == Pick(T)
<1>3. z \in T /\ SumFunctionOnSet(f, T) = f[z] + SumFunctionOnSet(f, T \ {z})
  BY <1>2, SumStep, FS_Subset, PickIn
<1>4. z # y
  BY <1>2, <1>3
<1> HIDE DEF z
<1>5. T \ {z} \notin Bad /\ T \ {y} \notin Bad
  BY <1>1, <1>3
<1>6. /\ SumFunctionOnSet(f, T \ {z}) = f[y] + SumFunctionOnSet(f, (T \ {z}) \ {y})
      /\ SumFunctionOnSet(f, T \ {y}) = f[z] + SumFunctionOnSet(f, (T \ {y}) \ {z})
  BY <1>3, <1>4, <1>5
<1>7. (T \ {z}) \ {y} = (T \ {y}) \ {z}
  OBVIOUS
<1>8. SumFunctionOnSet(f, (T \ {y}) \ {z}) \in Int /\ f[y] \in Int /\ f[z] \in Int
  <2>1. IsFiniteSet((T \ {y}) \ {z})
    BY FS_Subset
  <2> QED
    BY <1>3, <2>1, SumInt
<1> HIDE DEF Bad
<1>9. f[z] + (f[y] + SumFunctionOnSet(f, (T \ {y}) \ {z}))
        = f[y] + (f[z] + SumFunctionOnSet(f, (T \ {y}) \ {z}))
  BY <1>8
<1> QED
  BY <1>2, <1>3, <1>6, <1>7, <1>9

\* A new element adds its value.
LEMMA SumAdd ==
    ASSUME NEW S, IsFiniteSet(S), NEW x, x \notin S,
           NEW f, f[x] \in Int, \A y \in S : f[y] \in Int
    PROVE  SumFunctionOnSet(f, S \cup {x}) = f[x] + SumFunctionOnSet(f, S)
<1>1. IsFiniteSet(S \cup {x}) /\ (S \cup {x}) \ {x} = S
  BY FS_AddElement
<1> QED
  BY <1>1, SumRemove

\* Induction over the subsets of a finite set; G is the set of those that have the property.
LEMMA SetInduction ==
    ASSUME NEW S, IsFiniteSet(S), NEW G, {} \in G,
           \A T \in SUBSET S : \A x \in S \ T : T \in G => T \cup {x} \in G
    PROVE  S \in G
<1> DEFINE Bad == {T \in SUBSET S : T \notin G}
<1> SUFFICES ASSUME Bad # {} PROVE FALSE
  OBVIOUS
<1>1. PICK T \in Bad : \A U \in Bad : U \subseteq T => U = T
  <2>1. Bad \subseteq SUBSET S
    OBVIOUS
  <2> HIDE DEF Bad
  <2> QED
    BY <2>1, MinimalSubset
<1>2. PICK x \in T : TRUE
  OBVIOUS
<1>3. T \ {x} \in G
  BY <1>1, <1>2
<1>4. (T \ {x}) \cup {x} = T /\ x \in S \ (T \ {x}) /\ T \ {x} \in SUBSET S
  BY <1>2
<1> QED
  BY <1>3, <1>4

\* A sum of natural numbers is one.
LEMMA SumNat ==
    ASSUME NEW S, IsFiniteSet(S), NEW f, \A x \in S : f[x] \in Nat
    PROVE  SumFunctionOnSet(f, S) \in Nat
<1> DEFINE G == {T \in SUBSET S : SumFunctionOnSet(f, T) \in Nat}
<1>1. {} \in G
  BY SumEmpty
<1>2. ASSUME NEW T \in SUBSET S, NEW x \in S \ T, T \in G PROVE T \cup {x} \in G
  <2>1. SumFunctionOnSet(f, T \cup {x}) = f[x] + SumFunctionOnSet(f, T)
    <3>1. IsFiniteSet(T) /\ x \notin T
      BY FS_Subset
    <3> HIDE DEF G
    <3> QED
      BY <3>1, SumAdd
  <2> QED
    BY <1>2, <2>1
<1>3. S \in G
  <2> HIDE DEF G
  <2> QED
    BY <1>1, <1>2, SetInduction
<1> QED
  BY <1>3

\* Functions that agree on the set have the same sum.
LEMMA SumCongruence ==
    ASSUME NEW S, IsFiniteSet(S), NEW f, NEW g,
           \A x \in S : f[x] = g[x] /\ f[x] \in Int
    PROVE  SumFunctionOnSet(f, S) = SumFunctionOnSet(g, S)
<1> DEFINE G == {T \in SUBSET S : SumFunctionOnSet(f, T) = SumFunctionOnSet(g, T)}
<1>1. {} \in G
  BY SumEmpty
<1>2. ASSUME NEW T \in SUBSET S, NEW x \in S \ T, T \in G PROVE T \cup {x} \in G
  <2>1. /\ SumFunctionOnSet(f, T \cup {x}) = f[x] + SumFunctionOnSet(f, T)
        /\ SumFunctionOnSet(g, T \cup {x}) = g[x] + SumFunctionOnSet(g, T)
    <3>1. IsFiniteSet(T) /\ x \notin T
      BY FS_Subset
    <3> HIDE DEF G
    <3> QED
      BY <3>1, SumAdd
  <2> QED
    BY <1>2, <2>1
<1>3. S \in G
  <2> HIDE DEF G
  <2> QED
    BY <1>1, <1>2, SetInduction
<1> QED
  BY <1>3

\* The sum of the sums of two functions.
LEMMA SumPlus ==
    ASSUME NEW S, IsFiniteSet(S), NEW f, NEW g, NEW h,
           \A x \in S : f[x] \in Int /\ g[x] \in Int /\ h[x] = f[x] + g[x]
    PROVE  SumFunctionOnSet(h, S) = SumFunctionOnSet(f, S) + SumFunctionOnSet(g, S)
<1> DEFINE G == {T \in SUBSET S : SumFunctionOnSet(h, T) =
                                     SumFunctionOnSet(f, T) + SumFunctionOnSet(g, T)}
<1>1. {} \in G
  BY SumEmpty
<1>2. ASSUME NEW T \in SUBSET S, NEW x \in S \ T, T \in G PROVE T \cup {x} \in G
  <2>1. /\ SumFunctionOnSet(f, T \cup {x}) = f[x] + SumFunctionOnSet(f, T)
        /\ SumFunctionOnSet(g, T \cup {x}) = g[x] + SumFunctionOnSet(g, T)
        /\ SumFunctionOnSet(h, T \cup {x}) = h[x] + SumFunctionOnSet(h, T)
    <3>1. IsFiniteSet(T) /\ x \notin T /\ \A y \in S : f[y] \in Int /\ g[y] \in Int /\ h[y] \in Int
      BY FS_Subset
    <3> HIDE DEF G
    <3> QED
      BY <3>1, SumAdd
  <2>2. SumFunctionOnSet(f, T) \in Int /\ SumFunctionOnSet(g, T) \in Int
    BY FS_Subset, SumInt
  <2> QED
    BY <1>2, <2>1, <2>2
<1>3. S \in G
  <2> HIDE DEF G
  <2> QED
    BY <1>1, <1>2, SetInduction
<1> QED
  BY <1>3

\* A sum of zeros.
LEMMA SumZero ==
    ASSUME NEW S, IsFiniteSet(S), NEW f, \A x \in S : f[x] = 0
    PROVE  SumFunctionOnSet(f, S) = 0
<1> DEFINE G == {T \in SUBSET S : SumFunctionOnSet(f, T) = 0}
<1>1. {} \in G
  BY SumEmpty
<1>2. ASSUME NEW T \in SUBSET S, NEW x \in S \ T, T \in G PROVE T \cup {x} \in G
  <2>1. SumFunctionOnSet(f, T \cup {x}) = f[x] + SumFunctionOnSet(f, T)
    <3>1. IsFiniteSet(T) /\ x \notin T /\ \A y \in S : f[y] \in Int
      BY FS_Subset
    <3> HIDE DEF G
    <3> QED
      BY <3>1, SumAdd
  <2> QED
    BY <1>2, <2>1
<1>3. S \in G
  <2> HIDE DEF G
  <2> QED
    BY <1>1, <1>2, SetInduction
<1> QED
  BY <1>3

\* The sum over two disjoint sets.
LEMMA SumUnion ==
    ASSUME NEW S, IsFiniteSet(S), NEW R, IsFiniteSet(R), S \cap R = {},
           NEW f, \A x \in S \cup R : f[x] \in Int
    PROVE  SumFunctionOnSet(f, S \cup R) = SumFunctionOnSet(f, S) + SumFunctionOnSet(f, R)
<1> DEFINE G == {T \in SUBSET R : SumFunctionOnSet(f, S \cup T) =
                                     SumFunctionOnSet(f, S) + SumFunctionOnSet(f, T)}
<1>1. {} \in G
  <2>1. S \cup {} = S /\ SumFunctionOnSet(f, S) \in Int
    BY SumInt
  <2> QED
    BY <2>1, SumEmpty
<1>2. ASSUME NEW T \in SUBSET R, NEW x \in R \ T, T \in G PROVE T \cup {x} \in G
  <2>0. IsFiniteSet(T) /\ IsFiniteSet(S \cup T) /\ (S \cup T) \cup {x} = S \cup (T \cup {x})
        /\ x \notin S \cup T
    BY FS_Subset, FS_Union
  <2>1. /\ SumFunctionOnSet(f, T \cup {x}) = f[x] + SumFunctionOnSet(f, T)
        /\ SumFunctionOnSet(f, S \cup (T \cup {x})) = f[x] + SumFunctionOnSet(f, S \cup T)
    BY <2>0, SumAdd
  <2>2. SumFunctionOnSet(f, T) \in Int /\ SumFunctionOnSet(f, S) \in Int /\ f[x] \in Int
    BY <2>0, SumInt
  <2> QED
    BY <1>2, <2>1, <2>2
<1>3. R \in G
  <2> HIDE DEF G
  <2> QED
    BY <1>1, <1>2, SetInduction
<1> QED
  BY <1>3

\* A sum with one value that is not zero.
LEMMA SumSingle ==
    ASSUME NEW S, IsFiniteSet(S), NEW f, NEW x \in S, f[x] \in Int,
           \A y \in S \ {x} : f[y] = 0
    PROVE  SumFunctionOnSet(f, S) = f[x]
<1>1. SumFunctionOnSet(f, S) = f[x] + SumFunctionOnSet(f, S \ {x})
  BY SumRemove
<1>2. SumFunctionOnSet(f, S \ {x}) = 0
  <2>1. IsFiniteSet(S \ {x})
    BY FS_Subset
  <2> QED
    BY <2>1, SumZero
<1> QED
  BY <1>1, <1>2

\* Each natural number is at most the sum.
LEMMA SumPart ==
    ASSUME NEW S, IsFiniteSet(S), NEW f, \A x \in S : f[x] \in Nat, NEW x \in S
    PROVE  f[x] <= SumFunctionOnSet(f, S)
<1>1. SumFunctionOnSet(f, S) = f[x] + SumFunctionOnSet(f, S \ {x})
  BY SumRemove
<1>2. SumFunctionOnSet(f, S \ {x}) \in Nat
  BY FS_Subset, SumNat
<1> QED
  BY <1>1, <1>2

\* The order of a double sum does not matter.
LEMMA SumSwap ==
    ASSUME NEW A, IsFiniteSet(A), NEW B, IsFiniteSet(B), NEW h,
           \A a \in A, b \in B : h[a][b] \in Int
    PROVE  SumFunctionOnSet([a \in A |-> SumFunctionOnSet([b \in B |-> h[a][b]], B)], A)
             = SumFunctionOnSet([b \in B |-> SumFunctionOnSet([a \in A |-> h[a][b]], A)], B)
<1> DEFINE row(a) == [b \in B |-> h[a][b]]
           col(b) == [a \in A |-> h[a][b]]
           F == [a \in A |-> SumFunctionOnSet(row(a), B)]
           H(T) == [b \in B |-> SumFunctionOnSet(col(b), T)]
           G == {T \in SUBSET A : SumFunctionOnSet(F, T) = SumFunctionOnSet(H(T), B)}
<1>0. /\ \A a \in A : F[a] \in Int
      /\ \A T \in SUBSET A : \A b \in B : H(T)[b] \in Int
  <2>1. ASSUME NEW a \in A PROVE F[a] \in Int
    <3>1. \A b \in B : row(a)[b] \in Int
      OBVIOUS
    <3>2. F[a] = SumFunctionOnSet(row(a), B)
      OBVIOUS
    <3> HIDE DEF row, F
    <3> QED
      BY <3>1, <3>2, SumInt
  <2>2. ASSUME NEW T \in SUBSET A, NEW b \in B PROVE H(T)[b] \in Int
    <3>1. \A a \in T : col(b)[a] \in Int
      OBVIOUS
    <3>2. IsFiniteSet(T)
      BY FS_Subset
    <3>3. H(T)[b] = SumFunctionOnSet(col(b), T)
      OBVIOUS
    <3> HIDE DEF col, H
    <3> QED
      BY <3>1, <3>2, <3>3, SumInt
  <2> QED
    BY <2>1, <2>2
<1>1. {} \in G
  <2>1. \A b \in B : H({})[b] = 0
    BY SumEmpty
  <2>2. SumFunctionOnSet(H({}), B) = 0
    <3> HIDE DEF H
    <3> QED
      BY <2>1, SumZero
  <2> QED
    BY <2>2, SumEmpty
<1>2. ASSUME NEW T \in SUBSET A, NEW x \in A \ T, T \in G PROVE T \cup {x} \in G
  <2>0. IsFiniteSet(T) /\ x \notin T /\ T \cup {x} \in SUBSET A
    BY FS_Subset
  <2>1. SumFunctionOnSet(F, T \cup {x}) = F[x] + SumFunctionOnSet(F, T)
    <3> HIDE DEF F
    <3> QED
      BY <1>0, <2>0, SumAdd
  <2>2. ASSUME NEW b \in B
        PROVE  /\ row(x)[b] \in Int /\ H(T)[b] \in Int
               /\ H(T \cup {x})[b] = row(x)[b] + H(T)[b]
    <3>1. \A a \in A : col(b)[a] \in Int
      OBVIOUS
    <3>2. /\ H(T \cup {x})[b] = SumFunctionOnSet(col(b), T \cup {x})
          /\ H(T)[b] = SumFunctionOnSet(col(b), T)
          /\ row(x)[b] = col(b)[x]
      OBVIOUS
    <3>3. H(T)[b] \in Int
      BY <1>0
    <3> HIDE DEF H, col, row
    <3>4. SumFunctionOnSet(col(b), T \cup {x}) = col(b)[x] + SumFunctionOnSet(col(b), T)
      BY <3>1, <2>0, SumAdd
    <3> QED
      BY <3>1, <3>2, <3>3, <3>4
  <2>3. SumFunctionOnSet(H(T \cup {x}), B) = SumFunctionOnSet(row(x), B) + SumFunctionOnSet(H(T), B)
    <3> HIDE DEF H, row
    <3> QED
      BY <2>2, SumPlus
  <2>4. F[x] = SumFunctionOnSet(row(x), B)
    OBVIOUS
  <2> QED
    BY <1>2, <2>1, <2>3, <2>4
<1>3. A \in G
  <2> HIDE DEF G
  <2> QED
    BY <1>1, <1>2, SetInduction
<1> QED
  BY <1>3

\* The image of a finite set is finite.
LEMMA FiniteImage ==
    ASSUME NEW A, IsFiniteSet(A), NEW m, NEW B, B = {m[a] : a \in A}
    PROVE  IsFiniteSet(B)
<1> DEFINE f == [a \in A |-> m[a]]
<1>1. f \in Surjection(A, B)
  BY DEF Surjection
<1> HIDE DEF f
<1> QED
  BY <1>1, FS_Surjection

\* Summing over the image of an injection is summing over its domain.
LEMMA SumReindex ==
    ASSUME NEW A, IsFiniteSet(A), NEW m, \A a, b \in A : m[a] = m[b] => a = b,
           NEW f, \A a \in A : f[m[a]] \in Int, NEW B, B = {m[a] : a \in A}
    PROVE  SumFunctionOnSet(f, B) = SumFunctionOnSet([a \in A |-> f[m[a]]], A)
<1> DEFINE g == [a \in A |-> f[m[a]]]
           Im(T) == {m[a] : a \in T}
           G == {T \in SUBSET A : /\ IsFiniteSet(Im(T))
                                  /\ SumFunctionOnSet(f, Im(T)) = SumFunctionOnSet(g, T)}
<1>1. {} \in G
  <2>1. Im({}) = {}
    OBVIOUS
  <2> QED
    BY <2>1, SumEmpty, FS_EmptySet
<1>2. ASSUME NEW T \in SUBSET A, NEW x \in A \ T, T \in G PROVE T \cup {x} \in G
  <2>0. /\ IsFiniteSet(T) /\ x \notin T /\ T \cup {x} \in SUBSET A
        /\ \A a \in A : g[a] \in Int /\ g[a] = f[m[a]]
    BY FS_Subset
  <2>1. SumFunctionOnSet(g, T \cup {x}) = g[x] + SumFunctionOnSet(g, T)
    <3> HIDE DEF G, g
    <3> QED
      BY <2>0, SumAdd
  <2>2. /\ Im(T \cup {x}) = Im(T) \cup {m[x]} /\ m[x] \notin Im(T)
        /\ \A y \in Im(T) : f[y] \in Int
    OBVIOUS
  <2>3. IsFiniteSet(Im(T))
    BY <1>2
  <2>4. /\ IsFiniteSet(Im(T \cup {x}))
        /\ SumFunctionOnSet(f, Im(T \cup {x})) = f[m[x]] + SumFunctionOnSet(f, Im(T))
    <3> HIDE DEF Im, G, g
    <3>1. f[m[x]] \in Int
      OBVIOUS
    <3>2. IsFiniteSet(Im(T) \cup {m[x]})
      BY <2>3, FS_AddElement
    <3>3. SumFunctionOnSet(f, Im(T) \cup {m[x]}) = f[m[x]] + SumFunctionOnSet(f, Im(T))
      BY <2>2, <2>3, <3>1, SumAdd
    <3> QED
      BY <2>2, <3>2, <3>3
  <2>5. SumFunctionOnSet(f, Im(T)) = SumFunctionOnSet(g, T)
    BY <1>2
  <2> QED
    BY <2>0, <2>1, <2>4, <2>5
<1>3. A \in G
  <2> HIDE DEF G
  <2> QED
    BY <1>1, <1>2, SetInduction
<1> QED
  BY <1>3

\* A sum of values that are zero outside P is a sum over P.
LEMMA SumSelect ==
    ASSUME NEW A, IsFiniteSet(A), NEW P, P \subseteq A, NEW f, \A a \in P : f[a] \in Int,
           NEW F, \A a \in A : F[a] = IF a \in P THEN f[a] ELSE 0
    PROVE  SumFunctionOnSet(F, A) = SumFunctionOnSet(f, P)
<1>1. /\ IsFiniteSet(P) /\ IsFiniteSet(A \ P)
      /\ P \cap (A \ P) = {} /\ P \cup (A \ P) = A /\ \A a \in A : F[a] \in Int
  BY FS_Subset
<1>2. SumFunctionOnSet(F, A) = SumFunctionOnSet(F, P) + SumFunctionOnSet(F, A \ P)
  BY <1>1, SumUnion
<1>3. SumFunctionOnSet(F, A \ P) = 0
  <2>1. \A a \in A \ P : F[a] = 0
    OBVIOUS
  <2> QED
    BY <1>1, <2>1, SumZero
<1>4. SumFunctionOnSet(F, P) = SumFunctionOnSet(f, P) /\ SumFunctionOnSet(f, P) \in Int
  <2>1. \A a \in P : F[a] = f[a] /\ F[a] \in Int
    OBVIOUS
  <2> QED
    BY <1>1, <2>1, SumCongruence, SumInt
<1> QED
  BY <1>2, <1>3, <1>4


\* A nonempty set of natural numbers has a least element.
LEMMA LeastNat == 
    ASSUME NEW T, T \subseteq Nat, T # {} PROVE \E m \in T : \A k \in T : m <= k
<1>1. PICK m \in T : \A k \in T : ~(<<k, m>> \in OpToRel(<, Nat))
  BY NatLessThanWellFounded, WFMin
<1>2. \A k \in T : k < m => <<k, m>> \in OpToRel(<, Nat)
  BY DEF OpToRel
<1>3. \A k \in T : ~(k < m)
  BY <1>1, <1>2, Zenon
<1> QED
  BY <1>3

\* Induction over the steps of an interval; G is the set of indices that have the property.
LEMMA StepInduction ==
    ASSUME NEW n \in Nat, NEW G, 0 \in G, \A i \in 1..n : i - 1 \in G => i \in G
    PROVE  \A i \in 0..n : i \in G
<1> DEFINE T == {i \in 0..n : i \notin G}
<1> SUFFICES ASSUME T # {} PROVE FALSE
  OBVIOUS
<1>1. PICK m \in T : \A k \in T : m <= k
  <2>1. T \subseteq Nat
    OBVIOUS
  <2> QED
    BY <2>1, LeastNat
<1>2. m \in 1..n /\ m - 1 \in 0..n /\ m - 1 \notin T
  BY <1>1
<1> QED
  BY <1>1, <1>2

\* step[i] takes values of V to values of V.
StepsWithin(n, V, step) == \A i \in 1..n : \A v \in V : step[i][v] \in V

\* F is the recursive function on 0..n that starts with v0 and goes on with step.
Recursion(F, n, V, v0, step) ==
    /\ F \in [0..n -> V]
    /\ F[0] = v0
    /\ \A i \in 1..n : F[i] = step[i][F[i - 1]]

\* A recursion that stays within V has a solution.
LEMMA RecursionExists ==
    ASSUME NEW n \in Nat, NEW V, NEW v0 \in V, NEW step, StepsWithin(n, V, step)
    PROVE  \E F : Recursion(F, n, V, v0, step)
<1>0. \A i \in 1..n : \A v \in V : step[i][v] \in V
  BY DEF StepsWithin
<1> DEFINE Upto(k) == \E F \in [0..k -> V] :
                          F[0] = v0 /\ \A i \in 1..k : F[i] = step[i][F[i - 1]]
           G == {k \in 0..n : Upto(k)}
<1>1. 0 \in G
  <2>1. Upto(0)
    <3> WITNESS [j \in 0..0 |-> v0] \in [0..0 -> V]
    <3> QED OBVIOUS
  <2> QED BY <2>1
<1>2. ASSUME NEW k \in 1..n, k - 1 \in G PROVE k \in G
  <2>1. PICK F \in [0..(k - 1) -> V] :
            F[0] = v0 /\ \A i \in 1..(k - 1) : F[i] = step[i][F[i - 1]]
    BY <1>2
  <2> DEFINE H == [j \in 0..k |-> IF j = k THEN step[k][F[k - 1]] ELSE F[j]]
  <2>2. H \in [0..k -> V]
    BY <1>0
  <2>3. H[0] = v0 /\ \A i \in 1..k : H[i] = step[i][H[i - 1]]
    <3>1. H[0] = v0 /\ H[k - 1] = F[k - 1] /\ H[k] = step[k][F[k - 1]]
      <4>1. 0 \in 0..k /\ k - 1 \in 0..k /\ k \in 0..k /\ k # 0 /\ k - 1 # k
        OBVIOUS
      <4> QED BY <2>1, <4>1
    <3>2. ASSUME NEW i \in 1..k, i # k PROVE H[i] = step[i][H[i - 1]]
      <4>1. i \in 1..(k - 1) /\ i - 1 \in 0..k /\ i - 1 # k /\ i \in 0..k
        BY <3>2
      <4>2. H[i] = F[i] /\ H[i - 1] = F[i - 1]
        BY <4>1
      <4> QED BY <2>1, <4>1, <4>2
    <3> QED BY <3>1, <3>2
  <2>4. Upto(k)
    BY <2>2, <2>3
  <2> QED BY <2>4
<1>3. n \in G
  <2> HIDE DEF G
  <2> QED BY <1>1, <1>2, StepInduction
<1> QED
  BY <1>3 DEF Recursion

\* The sum of a function over an interval, the second part of it counted from one.
LEMMA SumShifted ==
    ASSUME NEW r \in Nat, NEW k \in Nat, NEW f, \A i \in 1 .. (r + k) : f[i] \in Int, NEW g,
           \A i \in 1 .. k : g[i] = f[i + r]
    PROVE  SumFunctionOnSet(f, 1 .. (r + k)) = SumFunctionOnSet(f, 1 .. r) + SumFunctionOnSet(g, 1 .. k)
<1> DEFINE A == 1 .. k
           B == (r + 1) .. (r + k)
           C == 1 .. r
           m == [i \in A |-> i + r]
           h == [i \in A |-> f[m[i]]]
<1>1. C \cap B = {} /\ C \cup B = 1 .. (r + k)
  OBVIOUS
<1>2. B = {m[i] : i \in A}
  <2>1. \A j \in B : j - r \in A /\ m[j - r] = j
    OBVIOUS
  <2>2. \A i \in A : m[i] \in B
    OBVIOUS
  <2> QED BY <2>1, <2>2
<1>3. \A i, j \in A : m[i] = m[j] => i = j
  OBVIOUS
<1>4. IsFiniteSet(C) /\ IsFiniteSet(B) /\ IsFiniteSet(A)
  BY FS_Interval
<1>5. \A i \in A : f[m[i]] \in Int
  BY <1>1, <1>2
<1>6. \A i \in A : h[i] = g[i] /\ h[i] \in Int
  BY <1>5
<1>7. \A j \in C \cup B : f[j] \in Int
  BY <1>1
<1> HIDE DEF m, A, B, C
<1>8. SumFunctionOnSet(f, B) = SumFunctionOnSet(h, A)
  BY <1>2, <1>3, <1>4, <1>5, SumReindex
<1> HIDE DEF h
<1>9. SumFunctionOnSet(h, A) = SumFunctionOnSet(g, A)
  BY <1>4, <1>6, SumCongruence
<1>10. SumFunctionOnSet(f, C \cup B) = SumFunctionOnSet(f, C) + SumFunctionOnSet(f, B)
  BY <1>1, <1>4, <1>7, SumUnion
<1> QED
  BY <1>1, <1>8, <1>9, <1>10 DEF A, C
=============================================================================
