----------------------------- MODULE ChartProofs -----------------------------
(* What charts and tables show of one window adds up, for every set of       *)
(* instants, ages, observations and limits: PartsAddUp, WindowsCompare,      *)
(* ChartsAgree and TablesAgree.  The module begins with what it needs of     *)
(* finite sums and of sorted listings, for any data.                         *)
EXTENDS ChartPictures, FiniteSetTheorems, SequenceTheorems, WellFoundedInduction, TLAPS

\* What holds of a finite set if it holds of its proper subsets.
LEMMA SubsetInduction ==
  ASSUME NEW S, IsFiniteSet(S), NEW P,
         \A T \in SUBSET S : (\A U \in SUBSET T : U # T => U \in P) => T \in P
  PROVE  SUBSET S \subseteq P
<1> DEFINE bad == (SUBSET S) \ P
<1>1. SUFFICES ASSUME bad # {} PROVE FALSE
  OBVIOUS
<1>2. IsWellFoundedOn(StrictSubsetOrdering(S), SUBSET S)
  BY FS_StrictSubsetOrderingWellFounded, FS_FiniteSubsetsOfFinite
<1>3. PICK T \in bad : \A U \in bad : ~(<<U, T>> \in StrictSubsetOrdering(S))
  <2> HIDE DEF bad
  <2>1. bad \subseteq SUBSET S
    BY DEF bad
  <2> QED BY <1>1, <1>2, <2>1, WFMin
<1>4. \A U \in SUBSET T : U # T => U \in P
  BY <1>3 DEF StrictSubsetOrdering
<1> QED BY <1>4

\* What holds of the empty set, and with one element more.
LEMMA SetInduction ==
  ASSUME NEW S, IsFiniteSet(S), NEW P, {} \in P,
         \A T \in SUBSET S : \A x \in S \ T : T \in P => T \cup {x} \in P
  PROVE  S \in P
<1>1. ASSUME NEW T \in SUBSET S, \A U \in SUBSET T : U # T => U \in P
      PROVE  T \in P
  <2>1. CASE T = {}
    BY <2>1
  <2>2. CASE T # {}
    <3>1. PICK x \in T : TRUE
      BY <2>2
    <3>2. T \ {x} \in P
      BY <1>1, <3>1
    <3>3. T = (T \ {x}) \cup {x} /\ x \in S \ (T \ {x}) /\ T \ {x} \in SUBSET S
      BY <3>1
    <3>4. (T \ {x}) \cup {x} \in P
      BY <3>2, <3>3
    <3> QED BY <3>3, <3>4
  <2> QED BY <2>1, <2>2
<1>2. SUBSET S \subseteq P
  BY <1>1, SubsetInduction
<1> QED BY <1>2

-----------------------------------------------------------------------------
(* A sum over a finite set is a recursive function over its subsets.         *)

Pick(s) == CHOOSE x \in s : TRUE
Adds(f, g, S) ==
  g = [s \in SUBSET S |-> IF s = {} THEN 0 ELSE f[Pick(s)] + g[s \ {Pick(s)}]]

LEMMA AddsExists ==
  ASSUME NEW S, IsFiniteSet(S), NEW f
  PROVE  \E g : Adds(f, g, S)
<1> DEFINE n == Cardinality(S)
           rec(g, s) == IF s = {} THEN 0 ELSE f[Pick(s)] + g[s \ {Pick(s)}]
           good(g, k) == \A s \in SUBSET S : Cardinality(s) <= k => g[s] = rec(g, s)
           P == {T \in SUBSET (1..n) : \E g : good(g, Cardinality(T))}
<1>1. n \in Nat /\ \A s \in SUBSET S : IsFiniteSet(s) /\ Cardinality(s) \in Nat /\ Cardinality(s) <= n
  BY FS_CardinalityType, FS_Subset
<1>2. IsFiniteSet(1..n) /\ Cardinality(1..n) = n
  BY <1>1, FS_Interval
<1>3. {} \in P
  <2>1. good([s \in SUBSET S |-> 0], 0)
    BY <1>1, FS_EmptySet
  <2> QED BY <2>1, FS_EmptySet
<1>4. ASSUME NEW T \in SUBSET (1..n), NEW x \in (1..n) \ T, T \in P
      PROVE  T \cup {x} \in P
  <2> DEFINE k == Cardinality(T)
  <2>1. k \in Nat /\ Cardinality(T \cup {x}) = k + 1
    BY <1>2, <1>4, FS_Subset, FS_AddElement, FS_CardinalityType
  <2>2. PICK g : good(g, k)
    BY <1>4
  <2> DEFINE h == [s \in SUBSET S |-> rec(g, s)]
  <2>3. ASSUME NEW s \in SUBSET S, Cardinality(s) <= k + 1, s # {}
        PROVE  h[s] = f[Pick(s)] + h[s \ {Pick(s)}]
    <3> DEFINE u == s \ {Pick(s)}
    <3>1. Pick(s) \in s /\ u \in SUBSET S
      BY <2>3 DEF Pick
    <3>2. Cardinality(u) = Cardinality(s) - 1
      BY <1>1, <3>1, FS_RemoveElement
    <3>3. Cardinality(u) <= k
      BY <1>1, <2>1, <2>3, <3>2
    <3>4. g[u] = rec(g, u)
      BY <2>2, <3>1, <3>3
    <3>5. h[u] = g[u]
      BY <3>1, <3>4
    <3>6. h[s] = f[Pick(s)] + g[u]
      BY <2>3
    <3> QED BY <3>5, <3>6
  <2>4. h[{}] = 0
    OBVIOUS
  <2> HIDE DEF h
  <2>5. good(h, k + 1)
    BY <2>3, <2>4
  <2> QED BY <2>1, <2>5
<1> HIDE DEF P
<1>5. 1..n \in P
  BY <1>2, <1>3, <1>4, SetInduction
<1>6. PICK g : good(g, n)
  BY <1>2, <1>5 DEF P
<1> DEFINE h == [s \in SUBSET S |-> g[s]]
<1>7. ASSUME NEW s \in SUBSET S
      PROVE  h[s] = rec(h, s)
  <2>1. g[s] = rec(g, s)
    BY <1>1, <1>6
  <2> QED BY <2>1
<1>8. h = [s \in SUBSET S |-> rec(h, s)]
  <2> HIDE DEF rec
  <2> SUFFICES \A s \in SUBSET S : h[s] = rec(h, s)
    OBVIOUS
  <2> QED BY <1>7
<1> QED BY <1>8 DEF Adds

LEMMA SumAdds ==
  ASSUME NEW S, IsFiniteSet(S), NEW f
  PROVE  \E g : Adds(f, g, S) /\ SumFunctionOnSet(f, S) = g[S]
<1> DEFINE g == CHOOSE g : Adds(f, g, S)
<1>1. Adds(f, g, S)
  BY AddsExists
<1>2. SumFunctionOnSet(f, S) = g[S]
  BY DEF SumFunctionOnSet, FoldFunctionOnSet, MapThenFoldSet, Adds, Pick
<1> QED BY <1>1, <1>2

LEMMA AddsOnce ==
  ASSUME NEW S, IsFiniteSet(S), NEW f, NEW T \in SUBSET S, NEW g, Adds(f, g, S), NEW h, Adds(f, h, T)
  PROVE  g[T] = h[T]
<1> DEFINE P == {U \in SUBSET T : g[U] = h[U]}
<1>1. IsFiniteSet(T)
  BY FS_Subset
<1>2. ASSUME NEW U \in SUBSET T, \A V \in SUBSET U : V # U => V \in P
      PROVE  U \in P
  <2>1. CASE U = {}
    <3>1. g[U] = 0 /\ h[U] = 0
      BY <2>1 DEF Adds
    <3> QED BY <3>1
  <2>2. CASE U # {}
    <3>1. Pick(U) \in U
      BY <2>2 DEF Pick
    <3>2. g[U \ {Pick(U)}] = h[U \ {Pick(U)}]
      BY <1>2, <3>1
    <3>3. U \in SUBSET S
      OBVIOUS
    <3>4. g[U] = f[Pick(U)] + g[U \ {Pick(U)}]
      BY <2>2, <3>3 DEF Adds
    <3>5. h[U] = f[Pick(U)] + h[U \ {Pick(U)}]
      BY <2>2 DEF Adds
    <3> QED BY <3>2, <3>4, <3>5
  <2> QED BY <2>1, <2>2
<1> HIDE DEF P
<1>3. SUBSET T \subseteq P
  BY <1>1, <1>2, SubsetInduction
<1> QED BY <1>3 DEF P

LEMMA SumEmpty ==
  ASSUME NEW f
  PROVE  SumFunctionOnSet(f, {}) = 0
<1>1. PICK g : Adds(f, g, {}) /\ SumFunctionOnSet(f, {}) = g[{}]
  BY SumAdds, FS_EmptySet
<1> QED BY <1>1 DEF Adds

LEMMA SumPick ==
  ASSUME NEW S, IsFiniteSet(S), S # {}, NEW f
  PROVE  SumFunctionOnSet(f, S) = f[Pick(S)] + SumFunctionOnSet(f, S \ {Pick(S)})
<1>1. PICK g : Adds(f, g, S) /\ SumFunctionOnSet(f, S) = g[S]
  BY SumAdds
<1> DEFINE T == S \ {Pick(S)}
<1>2. IsFiniteSet(T) /\ T \in SUBSET S
  BY FS_Subset
<1>3. PICK h : Adds(f, h, T) /\ SumFunctionOnSet(f, T) = h[T]
  BY <1>2, SumAdds
<1>4. g[T] = h[T]
  BY <1>1, <1>2, <1>3, AddsOnce
<1>5. g[S] = f[Pick(S)] + g[T]
  BY <1>1 DEF Adds
<1> QED BY <1>1, <1>3, <1>4, <1>5

LEMMA SumInt ==
  ASSUME NEW S, IsFiniteSet(S), NEW f, \A x \in S : f[x] \in Int
  PROVE  SumFunctionOnSet(f, S) \in Int
<1> DEFINE P == {U \in SUBSET S : SumFunctionOnSet(f, U) \in Int}
<1>2. ASSUME NEW U \in SUBSET S, \A V \in SUBSET U : V # U => V \in P
      PROVE  U \in P
  <2>1. CASE U = {}
    BY <2>1, SumEmpty
  <2>2. CASE U # {}
    <3>1. Pick(U) \in U
      BY <2>2 DEF Pick
    <3>2. SumFunctionOnSet(f, U \ {Pick(U)}) \in Int
      BY <1>2, <3>1
    <3>3. IsFiniteSet(U)
      BY FS_Subset
    <3>4. SumFunctionOnSet(f, U) = f[Pick(U)] + SumFunctionOnSet(f, U \ {Pick(U)})
      BY <2>2, <3>3, SumPick
    <3> QED BY <3>1, <3>2, <3>4
  <2> QED BY <2>1, <2>2
<1> HIDE DEF P
<1>3. SUBSET S \subseteq P
  BY <1>2, SubsetInduction
<1> QED BY <1>3 DEF P

LEMMA SumAny ==
  ASSUME NEW S, IsFiniteSet(S), NEW f, \A x \in S : f[x] \in Int, NEW x \in S
  PROVE  SumFunctionOnSet(f, S) = f[x] + SumFunctionOnSet(f, S \ {x})
<1> DEFINE P == {U \in SUBSET S : \A y \in U : SumFunctionOnSet(f, U) = f[y] + SumFunctionOnSet(f, U \ {y})}
<1>1. \A U \in SUBSET S : IsFiniteSet(U) /\ SumFunctionOnSet(f, U) \in Int
  BY FS_Subset, SumInt
<1>2. ASSUME NEW U \in SUBSET S, \A V \in SUBSET U : V # U => V \in P
      PROVE  U \in P
  <2> SUFFICES ASSUME NEW y \in U PROVE SumFunctionOnSet(f, U) = f[y] + SumFunctionOnSet(f, U \ {y})
    OBVIOUS
  <2> DEFINE p == Pick(U)
             V == U \ {p}
             W == U \ {y}
  <2>1. p \in U
    BY DEF Pick
  <2>2. SumFunctionOnSet(f, U) = f[p] + SumFunctionOnSet(f, V)
    BY <1>1, SumPick
  <2>3. CASE y = p
    BY <2>2, <2>3
  <2>4. CASE y # p
    <3>1. V \in P /\ W \in P /\ y \in V /\ p \in W
      BY <1>2, <2>1, <2>4
    <3>2. SumFunctionOnSet(f, V) = f[y] + SumFunctionOnSet(f, V \ {y}) /\ SumFunctionOnSet(f, W) = f[p] + SumFunctionOnSet(f, W \ {p})
      BY <3>1
    <3>3. V \ {y} = W \ {p}
      OBVIOUS
    <3>4. f[p] \in Int /\ f[y] \in Int /\ SumFunctionOnSet(f, W \ {p}) \in Int
      BY <1>1, <2>1
    <3>5. SumFunctionOnSet(f, U) = f[p] + (f[y] + SumFunctionOnSet(f, W \ {p}))
      BY <2>2, <3>2, <3>3
    <3>6. SumFunctionOnSet(f, W) = f[p] + SumFunctionOnSet(f, W \ {p})
      BY <3>2
    <3> HIDE DEF V, W, p
    <3>7. SumFunctionOnSet(f, U) = f[y] + SumFunctionOnSet(f, W)
      BY <3>4, <3>5, <3>6
    <3> QED BY <3>7 DEF W
  <2> QED BY <2>3, <2>4
<1> HIDE DEF P
<1>3. SUBSET S \subseteq P
  BY <1>2, SubsetInduction
<1> QED BY <1>3 DEF P

LEMMA SumSame ==
  ASSUME NEW S, IsFiniteSet(S), NEW f, NEW g, \A x \in S : f[x] \in Int /\ f[x] = g[x]
  PROVE  SumFunctionOnSet(f, S) = SumFunctionOnSet(g, S)
<1> DEFINE P == {U \in SUBSET S : SumFunctionOnSet(f, U) = SumFunctionOnSet(g, U)}
<1>1. {} \in P
  BY SumEmpty
<1>2. ASSUME NEW T \in SUBSET S, NEW x \in S \ T, T \in P
      PROVE  T \cup {x} \in P
  <2>1. IsFiniteSet(T \cup {x}) /\ (T \cup {x}) \ {x} = T
    BY FS_Subset
  <2>2. \A h : (\A y \in T \cup {x} : h[y] \in Int)
           => SumFunctionOnSet(h, T \cup {x}) = h[x] + SumFunctionOnSet(h, (T \cup {x}) \ {x})
    BY <2>1, SumAny
  <2>3. SumFunctionOnSet(f, T \cup {x}) = f[x] + SumFunctionOnSet(f, T)
    BY <2>1, <2>2
  <2>4. SumFunctionOnSet(g, T \cup {x}) = g[x] + SumFunctionOnSet(g, T)
    BY <2>1, <2>2
  <2> QED BY <1>2, <2>3, <2>4
<1> HIDE DEF P
<1>3. S \in P
  BY <1>1, <1>2, SetInduction
<1> QED BY <1>3 DEF P

\* One element more.
LEMMA SumAdd ==
  ASSUME NEW S, IsFiniteSet(S), NEW x, x \notin S, NEW f, f[x] \in Int, \A y \in S : f[y] \in Int
  PROVE  /\ SumFunctionOnSet(f, S) \in Int
         /\ SumFunctionOnSet(f, S \cup {x}) = f[x] + SumFunctionOnSet(f, S)
<1>1. IsFiniteSet(S \cup {x}) /\ (S \cup {x}) \ {x} = S
  BY FS_AddElement
<1>2. SumFunctionOnSet(f, S \cup {x}) = f[x] + SumFunctionOnSet(f, (S \cup {x}) \ {x})
  BY <1>1, SumAny
<1> QED BY <1>1, <1>2, SumInt

LEMMA SumOne ==
  ASSUME NEW f, NEW x, f[x] \in Int
  PROVE  SumFunctionOnSet(f, {x}) = f[x]
<1>1. IsFiniteSet({}) /\ {} \cup {x} = {x}
  BY FS_EmptySet
<1>2. SumFunctionOnSet(f, {} \cup {x}) = f[x] + SumFunctionOnSet(f, {})
  BY <1>1, SumAdd
<1> QED BY <1>1, <1>2, SumEmpty

LEMMA SumNat ==
  ASSUME NEW S, IsFiniteSet(S), NEW f, \A x \in S : f[x] \in Nat
  PROVE  SumFunctionOnSet(f, S) \in Nat
<1> DEFINE P == {U \in SUBSET S : SumFunctionOnSet(f, U) \in Nat}
<1>1. {} \in P
  BY SumEmpty
<1>2. ASSUME NEW T \in SUBSET S, NEW x \in S \ T, T \in P
      PROVE  T \cup {x} \in P
  <2>1. IsFiniteSet(T) /\ x \notin T /\ f[x] \in Int /\ \A y \in T : f[y] \in Int
    BY FS_Subset
  <2>2. SumFunctionOnSet(f, T \cup {x}) = f[x] + SumFunctionOnSet(f, T)
    BY <2>1, SumAdd
  <2> QED BY <1>2, <2>2
<1> HIDE DEF P
<1>3. S \in P
  BY <1>1, <1>2, SetInduction
<1> QED BY <1>3 DEF P

LEMMA SumZero ==
  ASSUME NEW S, IsFiniteSet(S), NEW f, \A x \in S : f[x] = 0
  PROVE  SumFunctionOnSet(f, S) = 0
<1> DEFINE P == {U \in SUBSET S : SumFunctionOnSet(f, U) = 0}
<1>1. {} \in P
  BY SumEmpty
<1>2. ASSUME NEW T \in SUBSET S, NEW x \in S \ T, T \in P
      PROVE  T \cup {x} \in P
  <2>1. IsFiniteSet(T) /\ x \notin T /\ f[x] \in Int /\ \A y \in T : f[y] \in Int
    BY FS_Subset
  <2>2. SumFunctionOnSet(f, T \cup {x}) = f[x] + SumFunctionOnSet(f, T)
    BY <2>1, SumAdd
  <2> QED BY <1>2, <2>2
<1> HIDE DEF P
<1>3. S \in P
  BY <1>1, <1>2, SetInduction
<1> QED BY <1>3 DEF P

\* A part and the rest.
LEMMA SumUnion ==
  ASSUME NEW S, IsFiniteSet(S), NEW T, IsFiniteSet(T), S \cap T = {},
         NEW f, \A x \in S \cup T : f[x] \in Int
  PROVE  /\ SumFunctionOnSet(f, S) \in Int /\ SumFunctionOnSet(f, T) \in Int
         /\ SumFunctionOnSet(f, S \cup T) = SumFunctionOnSet(f, S) + SumFunctionOnSet(f, T)
<1> DEFINE P == {U \in SUBSET S : SumFunctionOnSet(f, U \cup T) = SumFunctionOnSet(f, U) + SumFunctionOnSet(f, T)}
<1>0. \A U \in SUBSET S : IsFiniteSet(U) /\ SumFunctionOnSet(f, U) \in Int /\ SumFunctionOnSet(f, T) \in Int
  BY FS_Subset, SumInt
<1>1. {} \in P
  <2>1. SumFunctionOnSet(f, {}) = 0 /\ {} \cup T = T
    BY SumEmpty
  <2> QED BY <1>0, <2>1
<1>2. ASSUME NEW U \in SUBSET S, NEW x \in S \ U, U \in P
      PROVE  U \cup {x} \in P
  <2>1. IsFiniteSet(U) /\ IsFiniteSet(U \cup T)
    BY FS_Subset, FS_Union
  <2>2. SumFunctionOnSet(f, U \cup {x}) = f[x] + SumFunctionOnSet(f, U)
    BY <2>1, SumAdd
  <2>3. SumFunctionOnSet(f, (U \cup T) \cup {x}) = f[x] + SumFunctionOnSet(f, U \cup T)
    <3>1. x \notin U \cup T /\ f[x] \in Int /\ \A y \in U \cup T : f[y] \in Int
      OBVIOUS
    <3> QED BY <2>1, <3>1, SumAdd
  <2>4. (U \cup T) \cup {x} = (U \cup {x}) \cup T
    OBVIOUS
  <2>5. SumFunctionOnSet(f, (U \cup {x}) \cup T) = f[x] + (SumFunctionOnSet(f, U) + SumFunctionOnSet(f, T))
    BY <1>2, <2>3, <2>4
  <2>6. f[x] \in Int
    OBVIOUS
  <2>7. SumFunctionOnSet(f, (U \cup {x}) \cup T) = SumFunctionOnSet(f, U \cup {x}) + SumFunctionOnSet(f, T)
    BY <1>0, <2>2, <2>5, <2>6
  <2> QED BY <2>7
<1> HIDE DEF P
<1>3. S \in P
  BY <1>1, <1>2, SetInduction
<1> QED BY <1>0, <1>3 DEF P

\* What is zero does not count.
LEMMA SumSupport ==
  ASSUME NEW S, IsFiniteSet(S), NEW T \in SUBSET S, NEW f, \A x \in S : f[x] \in Int,
         \A x \in S \ T : f[x] = 0
  PROVE  SumFunctionOnSet(f, S) = SumFunctionOnSet(f, T)
<1> DEFINE R == S \ T
<1>1. IsFiniteSet(T) /\ IsFiniteSet(R) /\ T \cap R = {} /\ T \cup R = S
  BY FS_Subset
<1>2. SumFunctionOnSet(f, R) = 0
  BY <1>1, SumZero
<1>3. SumFunctionOnSet(f, T) \in Int /\ SumFunctionOnSet(f, T \cup R) = SumFunctionOnSet(f, T) + SumFunctionOnSet(f, R)
  <2>1. \A x \in T \cup R : f[x] \in Int
    OBVIOUS
  <2> QED BY <1>1, <2>1, SumUnion
<1>4. SumFunctionOnSet(f, S) = SumFunctionOnSet(f, T) + 0
  BY <1>1, <1>2, <1>3
<1> QED BY <1>3, <1>4

\* Summed by parts, and over the parts.
LEMMA SumOfParts ==
  ASSUME NEW S, IsFiniteSet(S), NEW f, \A x \in S : f[x] \in Int,
         NEW K, IsFiniteSet(K), NEW part,
         \A k \in K : part[k] \in SUBSET S,
         \A x \in S : \E k \in K : x \in part[k],
         \A j, k \in K : \A x \in S : x \in part[j] /\ x \in part[k] => j = k,
         NEW by, \A k \in K : by[k] = SumFunctionOnSet(f, part[k])
  PROVE  SumFunctionOnSet(f, S) = SumFunctionOnSet(by, K)
<1> DEFINE Of(U) == {x \in S : \E k \in U : x \in part[k]}
           P == {U \in SUBSET K : SumFunctionOnSet(f, Of(U)) = SumFunctionOnSet(by, U)}
<1>0. \A k \in K : by[k] \in Int
  BY FS_Subset, SumInt
<1>1. {} \in P
  <2>1. Of({}) = {}
    OBVIOUS
  <2> QED BY <2>1, SumEmpty
<1>2. ASSUME NEW U \in SUBSET K, NEW k \in K \ U, U \in P
      PROVE  U \cup {k} \in P
  <2> DEFINE A == Of(U)
             B == part[k]
  <2>1. IsFiniteSet(A) /\ IsFiniteSet(B) /\ A \cap B = {} /\ \A x \in A \cup B : f[x] \in Int
    BY FS_Subset
  <2>2. Of(U \cup {k}) = A \cup B
    OBVIOUS
  <2>3. SumFunctionOnSet(f, A) \in Int /\ SumFunctionOnSet(f, B) \in Int
        /\ SumFunctionOnSet(f, A \cup B) = SumFunctionOnSet(f, A) + SumFunctionOnSet(f, B)
    <3> HIDE DEF A, B
    <3> QED BY ONLY <2>1, SumUnion
  <2>4. SumFunctionOnSet(by, U \cup {k}) = by[k] + SumFunctionOnSet(by, U)
    <3>1. IsFiniteSet(U) /\ by[k] \in Int /\ \A y \in U : by[y] \in Int
      BY <1>0, FS_Subset
    <3> QED BY <3>1, SumAdd
  <2>5. by[k] = SumFunctionOnSet(f, B)
    OBVIOUS
  <2>6. SumFunctionOnSet(by, U) = SumFunctionOnSet(f, A)
    BY <1>2
  <2> HIDE DEF A, B, Of
  <2>7. SumFunctionOnSet(by, U \cup {k}) = SumFunctionOnSet(f, B) + SumFunctionOnSet(f, A)
    BY <2>4, <2>5, <2>6
  <2>8. SumFunctionOnSet(f, B) + SumFunctionOnSet(f, A) = SumFunctionOnSet(f, A \cup B)
    BY <2>3
  <2>9. SumFunctionOnSet(f, Of(U \cup {k})) = SumFunctionOnSet(f, A \cup B)
    BY <2>2
  <2>10. SumFunctionOnSet(f, Of(U \cup {k})) = SumFunctionOnSet(by, U \cup {k})
    BY <2>7, <2>8, <2>9
  <2> QED BY <2>10 DEF Of
<1> HIDE DEF P
<1>3. K \in P
  BY <1>1, <1>2, SetInduction
<1>4. Of(K) = S
  OBVIOUS
<1> QED BY <1>3, <1>4 DEF P

\* The same terms under other names.
LEMMA SumMove ==
  ASSUME NEW S, IsFiniteSet(S), NEW T, IsFiniteSet(T), NEW h, h \in [S -> T],
         \A y \in T : \E x \in S : h[x] = y,
         \A x, y \in S : h[x] = h[y] => x = y,
         NEW f, \A y \in T : f[y] \in Int, NEW g, \A x \in S : g[x] = f[h[x]]
  PROVE  SumFunctionOnSet(f, T) = SumFunctionOnSet(g, S)
<1> DEFINE part == [x \in S |-> {h[x]}]
<1>1. /\ \A x \in S : part[x] \in SUBSET T
      /\ \A y \in T : \E x \in S : y \in part[x]
      /\ \A w, x \in S : \A y \in T : y \in part[w] /\ y \in part[x] => w = x
  OBVIOUS
<1>2. ASSUME NEW x \in S PROVE g[x] = SumFunctionOnSet(f, part[x])
  <2>1. part[x] = {h[x]} /\ f[h[x]] \in Int /\ g[x] = f[h[x]]
    OBVIOUS
  <2>2. SumFunctionOnSet(f, {h[x]}) = f[h[x]]
    BY <2>1, SumOne
  <2> QED BY <2>1, <2>2
<1> HIDE DEF part
<1> QED BY <1>1, <1>2, SumOfParts, SMTT(60)

LEMMA SumPlus ==
  ASSUME NEW S, IsFiniteSet(S), NEW f, NEW g, \A x \in S : f[x] \in Int /\ g[x] \in Int,
         NEW h, \A x \in S : h[x] = f[x] + g[x]
  PROVE  SumFunctionOnSet(h, S) = SumFunctionOnSet(f, S) + SumFunctionOnSet(g, S)
<1> DEFINE P == {U \in SUBSET S : SumFunctionOnSet(h, U) = SumFunctionOnSet(f, U) + SumFunctionOnSet(g, U)}
<1>1. {} \in P
  BY SumEmpty
<1>2. ASSUME NEW T \in SUBSET S, NEW x \in S \ T, T \in P
      PROVE  T \cup {x} \in P
  <2>1. IsFiniteSet(T) /\ \A y \in T \cup {x} : f[y] \in Int /\ g[y] \in Int /\ h[y] \in Int
    BY FS_Subset
  <2>2. h[x] = f[x] + g[x]
    OBVIOUS
  <2>3. SumFunctionOnSet(h, T \cup {x}) = h[x] + SumFunctionOnSet(h, T)
    BY <2>1, SumAdd
  <2>4. SumFunctionOnSet(f, T) \in Int /\ SumFunctionOnSet(f, T \cup {x}) = f[x] + SumFunctionOnSet(f, T)
    BY <2>1, SumAdd
  <2>5. SumFunctionOnSet(g, T) \in Int /\ SumFunctionOnSet(g, T \cup {x}) = g[x] + SumFunctionOnSet(g, T)
    BY <2>1, SumAdd
  <2>6. f[x] \in Int /\ g[x] \in Int
    BY <2>1
  <2>7. SumFunctionOnSet(h, T) = SumFunctionOnSet(f, T) + SumFunctionOnSet(g, T)
    BY <1>2
  <2>8. SumFunctionOnSet(h, T \cup {x}) = SumFunctionOnSet(f, T \cup {x}) + SumFunctionOnSet(g, T \cup {x})
    BY <2>2, <2>3, <2>4, <2>5, <2>6, <2>7
  <2> QED BY <2>8
<1> HIDE DEF P
<1>3. S \in P
  BY <1>1, <1>2, SetInduction
<1> QED BY <1>3 DEF P

LEMMA SumLeq ==
  ASSUME NEW S, IsFiniteSet(S), NEW f, NEW g, \A x \in S : f[x] \in Int /\ g[x] \in Int /\ f[x] <= g[x]
  PROVE  SumFunctionOnSet(f, S) <= SumFunctionOnSet(g, S)
<1> DEFINE P == {U \in SUBSET S : SumFunctionOnSet(f, U) <= SumFunctionOnSet(g, U)}
<1>1. {} \in P
  BY SumEmpty
<1>2. ASSUME NEW T \in SUBSET S, NEW x \in S \ T, T \in P
      PROVE  T \cup {x} \in P
  <2>1. IsFiniteSet(T) /\ \A y \in T \cup {x} : f[y] \in Int /\ g[y] \in Int
    BY FS_Subset
  <2>4. SumFunctionOnSet(f, T) \in Int /\ SumFunctionOnSet(f, T \cup {x}) = f[x] + SumFunctionOnSet(f, T)
    BY <2>1, SumAdd
  <2>5. SumFunctionOnSet(g, T) \in Int /\ SumFunctionOnSet(g, T \cup {x}) = g[x] + SumFunctionOnSet(g, T)
    BY <2>1, SumAdd
  <2>6. f[x] \in Int /\ g[x] \in Int /\ f[x] <= g[x] /\ SumFunctionOnSet(f, T) <= SumFunctionOnSet(g, T)
    BY <1>2, <2>1
  <2>7. SumFunctionOnSet(f, T \cup {x}) <= SumFunctionOnSet(g, T \cup {x})
    BY <2>4, <2>5, <2>6
  <2> QED BY <2>7
<1> HIDE DEF P
<1>3. S \in P
  BY <1>1, <1>2, SetInduction
<1> QED BY <1>3 DEF P

LEMMA SumConst ==
  ASSUME NEW S, IsFiniteSet(S), NEW c \in Int, NEW f, \A x \in S : f[x] = c
  PROVE  SumFunctionOnSet(f, S) = c * Cardinality(S)
<1> DEFINE P == {U \in SUBSET S : SumFunctionOnSet(f, U) = c * Cardinality(U)}
<1>1. {} \in P
  BY SumEmpty, FS_EmptySet
<1>2. ASSUME NEW T \in SUBSET S, NEW x \in S \ T, T \in P
      PROVE  T \cup {x} \in P
  <2>1. IsFiniteSet(T) /\ f[x] = c /\ \A y \in T \cup {x} : f[y] \in Int
    BY FS_Subset
  <2>2. SumFunctionOnSet(f, T \cup {x}) = f[x] + SumFunctionOnSet(f, T)
    BY <2>1, SumAdd
  <2>3. Cardinality(T \cup {x}) = Cardinality(T) + 1 /\ Cardinality(T) \in Nat
    BY <2>1, FS_AddElement, FS_CardinalityType
  <2>4. SumFunctionOnSet(f, T) = c * Cardinality(T)
    BY <1>2
  <2>5. \A n \in Nat : c + c * n = c * (n + 1)
    OBVIOUS
  <2>6. SumFunctionOnSet(f, T \cup {x}) = c * Cardinality(T \cup {x})
    BY <2>1, <2>2, <2>3, <2>4, <2>5
  <2> QED BY <2>6
<1> HIDE DEF P
<1>3. S \in P
  BY <1>1, <1>2, SetInduction
<1> QED BY <1>3 DEF P

\* A set is counted by adding ones, also by key.
LEMMA SumOnes ==
  ASSUME NEW S, IsFiniteSet(S), NEW f, \A x \in S : f[x] = 1
  PROVE  SumFunctionOnSet(f, S) = Cardinality(S)
<1>1. SumFunctionOnSet(f, S) = 1 * Cardinality(S) /\ Cardinality(S) \in Nat
  BY SumConst, FS_CardinalityType
<1> QED BY <1>1

LEMMA CountOfParts ==
  ASSUME NEW S, IsFiniteSet(S), NEW K, IsFiniteSet(K), NEW part,
         \A k \in K : part[k] \in SUBSET S,
         \A x \in S : \E k \in K : x \in part[k],
         \A j, k \in K : \A x \in S : x \in part[j] /\ x \in part[k] => j = k,
         NEW by, \A k \in K : by[k] = Cardinality(part[k])
  PROVE  Cardinality(S) = SumFunctionOnSet(by, K)
<1> DEFINE one == [x \in S |-> 1]
<1>1. \A T \in SUBSET S : SumFunctionOnSet(one, T) = Cardinality(T)
  <2> TAKE T \in SUBSET S
  <2>1. IsFiniteSet(T) /\ \A x \in T : one[x] = 1
    BY FS_Subset
  <2> HIDE DEF one
  <2> QED BY <2>1, SumOnes
<1>2. \A x \in S : one[x] \in Int
  OBVIOUS
<1> HIDE DEF one
<1>3. \A k \in K : by[k] = SumFunctionOnSet(one, part[k])
  BY <1>1
<1>4. SumFunctionOnSet(one, S) = SumFunctionOnSet(by, K)
  BY <1>2, <1>3, SumOfParts
<1> QED BY <1>1, <1>4

-----------------------------------------------------------------------------
(* Listings.                                                                 *)

\* Of a finite set, one element precedes none.
LEMMA LastExists ==
  ASSUME NEW S, IsFiniteSet(S), S # {}, NEW R, \A x \in S : <<x, x>> \notin R,
         \A x, y, z \in S : <<x, y>> \in R /\ <<y, z>> \in R => <<x, z>> \in R
  PROVE  \E m \in S : \A y \in S : <<m, y>> \notin R
<1> DEFINE P == {T \in SUBSET S : T # {} => \E m \in T : \A y \in T : <<m, y>> \notin R}
<1>1. {} \in P
  OBVIOUS
<1>2. ASSUME NEW T \in SUBSET S, NEW x \in S \ T, T \in P
      PROVE  T \cup {x} \in P
  <2>1. CASE T = {}
    BY <2>1
  <2>2. CASE T # {}
    <3>1. PICK m \in T : \A y \in T : <<m, y>> \notin R
      BY <1>2, <2>2
    <3>2. CASE <<m, x>> \in R
      <4>1. \A y \in T \cup {x} : <<x, y>> \notin R
        BY <3>1, <3>2
      <4> QED BY <4>1
    <3>3. CASE <<m, x>> \notin R
      BY <3>1, <3>3
    <3> QED BY <3>2, <3>3
  <2> QED BY <2>1, <2>2
<1> HIDE DEF P
<1>3. S \in P
  BY <1>1, <1>2, SetInduction
<1> QED BY <1>3 DEF P

LEMMA ListExists ==
  ASSUME NEW S, IsFiniteSet(S), NEW R, \A x \in S : <<x, x>> \notin R,
         \A x, y, z \in S : <<x, y>> \in R /\ <<y, z>> \in R => <<x, z>> \in R
  PROVE  \E s \in [1..Cardinality(S) -> S] :
           \A i, j \in 1..Cardinality(S) : i < j => s[i] # s[j] /\ <<s[j], s[i]>> \notin R
<1> DEFINE listed(s, T) == \A i, j \in 1..Cardinality(T) : i < j => s[i] # s[j] /\ <<s[j], s[i]>> \notin R
           P == {T \in SUBSET S : \E s \in [1..Cardinality(T) -> T] : listed(s, T)}
<1>1. ASSUME NEW T \in SUBSET S, \A U \in SUBSET T : U # T => U \in P
      PROVE  T \in P
  <2>1. CASE T = {}
    <3>1. 1..Cardinality(T) = {}
      BY <2>1, FS_EmptySet
    <3>2. [i \in {} |-> i] \in [{} -> {}]
      OBVIOUS
    <3> QED BY <2>1, <3>1, <3>2
  <2>2. CASE T # {}
    <3> DEFINE n == Cardinality(T)
    <3>1. IsFiniteSet(T)
      BY FS_Subset
    <3>2. PICK m \in T : \A y \in T : <<m, y>> \notin R
      BY <2>2, <3>1, LastExists
    <3> DEFINE U == T \ {m}
    <3>3. IsFiniteSet(U) /\ Cardinality(U) = n - 1 /\ n \in Nat /\ n >= 1
      <4>1. n \in Nat /\ n # 0
        BY <2>2, <3>1, FS_CardinalityType, FS_EmptySet
      <4>2. IsFiniteSet(U) /\ Cardinality(U) = n - 1
        BY <3>1, FS_RemoveElement
      <4> QED BY <4>1, <4>2
    <3>4. PICK s \in [1..Cardinality(U) -> U] : listed(s, U)
      BY <1>1
    <3> DEFINE t == [i \in 1..n |-> IF i = n THEN m ELSE s[i]]
    <3>5. \A i \in 1..n : i # n => i \in 1..Cardinality(U) /\ s[i] \in U
      <4> TAKE i \in 1..n
      <4> HIDE DEF U, n
      <4> QED BY <3>3, <3>4
    <3>6. t \in [1..n -> T]
      BY <3>5
    <3>7. ASSUME NEW i \in 1..n, NEW j \in 1..n, i < j
          PROVE  t[i] # t[j] /\ <<t[j], t[i]>> \notin R
      <4>1. i # n /\ t[i] = s[i] /\ s[i] \in U /\ i \in 1..Cardinality(U)
        BY <3>3, <3>5, <3>7
      <4>2. CASE j = n
        BY <3>2, <4>1, <4>2
      <4>3. CASE j # n
        <5>1. t[j] = s[j] /\ j \in 1..Cardinality(U)
          BY <3>5, <4>3
        <5> QED BY <3>4, <3>7, <4>1, <5>1
      <4> QED BY <4>2, <4>3
    <3> HIDE DEF t
    <3> QED BY <3>6, <3>7
  <2> QED BY <2>1, <2>2
<1> HIDE DEF P
<1>2. SUBSET S \subseteq P
  BY <1>1, SubsetInduction
<1> QED BY <1>2 DEF P

\* A listing without repetitions misses nothing.
LEMMA ListedOnto ==
  ASSUME NEW S, IsFiniteSet(S), NEW s, s \in [1..Cardinality(S) -> S],
         \A i, j \in 1..Cardinality(S) : i < j => s[i] # s[j]
  PROVE  /\ \A x \in S : \E i \in 1..Cardinality(S) : s[i] = x
         /\ \A i, j \in 1..Cardinality(S) : s[i] = s[j] => i = j
<1> DEFINE n == Cardinality(S)
<1>1. n \in Nat /\ IsFiniteSet(1..n) /\ Cardinality(1..n) = n
  <2>1. n \in Nat
    BY FS_CardinalityType
  <2> HIDE DEF n
  <2> QED BY <2>1, FS_Interval
<1>2. \A i, j \in 1..n : s[i] = s[j] => i = j
  <2> TAKE i \in 1..n, j \in 1..n
  <2>1. i < j \/ j < i \/ i = j
    BY <1>1
  <2> QED BY <2>1
<1>3. ASSUME NEW x \in S, \A i \in 1..n : s[i] # x PROVE FALSE
  <2>1. IsFiniteSet(S \ {x}) /\ Cardinality(S \ {x}) = n - 1
    BY FS_RemoveElement
  <2>2. s \in [1..n -> S \ {x}]
    BY <1>3
  <2>3. Cardinality(S \ {x}) < Cardinality(1..n)
    BY <1>1, <2>1
  <2> DEFINE D == 1..n
             T == S \ {x}
  <2>4. IsFiniteSet(D) /\ IsFiniteSet(T) /\ Cardinality(T) < Cardinality(D) /\ s \in [D -> T]
    BY <1>1, <2>1, <2>2, <2>3
  <2>5. \E i, j \in D : i # j /\ s[i] = s[j]
    <3> HIDE DEF D, T
    <3> QED BY <2>4, FS_PigeonHole
  <2> QED BY <1>2, <2>5
<1> QED BY <1>2, <1>3

\* every element of S once
Once(s, S) ==
  /\ s \in [1..Cardinality(S) -> S]
  /\ \A i, j \in 1..Cardinality(S) : i < j => s[i] # s[j]
\* the numbers of f, in the order of s
Along(g, f, s, S) == \A i \in 1..Cardinality(S) : g[i] = f[s[i]]
Naturals(f, S) == \A x \in S : f[x] \in Nat
Zero(f, S) == \A x \in S : f[x] = 0

\* What is summed over a listing is summed over the set.
LEMMA SumOnce ==
  ASSUME NEW S, IsFiniteSet(S), NEW s, Once(s, S), NEW f, Naturals(f, S), NEW g, Along(g, f, s, S)
  PROVE  SumFunctionOnSet(g, 1..Cardinality(S)) = SumFunctionOnSet(f, S)
<1> DEFINE D == 1..Cardinality(S)
<1>1. IsFiniteSet(D)
  BY FS_CardinalityType, FS_Interval
<1>2. /\ \A x \in S : \E i \in D : s[i] = x
      /\ \A i, j \in D : s[i] = s[j] => i = j
  BY ListedOnto DEF Once
<1>3. s \in [D -> S] /\ \A i \in D : g[i] = f[s[i]]
  BY DEF Once, Along
<1>4. \A y \in S : f[y] \in Int
  BY DEF Naturals
<1> HIDE DEF D
<1>5. IsFiniteSet(S)
  OBVIOUS
<1>6. SumFunctionOnSet(g, D) = SumFunctionOnSet(f, S)
  BY ONLY <1>1, <1>2, <1>3, <1>4, <1>5, SumMove
<1> QED BY <1>6 DEF D

\* What is summed over a listing of the elements that count is summed over all.
LEMMA SumSome ==
  ASSUME NEW S, IsFiniteSet(S), NEW T \in SUBSET S, NEW s, Once(s, T), NEW f, Naturals(f, S), Zero(f, S \ T),
         NEW g, Along(g, f, s, T)
  PROVE  SumFunctionOnSet(g, 1..Cardinality(T)) = SumFunctionOnSet(f, S)
<1>1. IsFiniteSet(T) /\ Naturals(f, T)
  BY FS_Subset DEF Naturals
<1>2. SumFunctionOnSet(g, 1..Cardinality(T)) = SumFunctionOnSet(f, T)
  BY <1>1, SumOnce
<1>3. (\A x \in S : f[x] \in Int) /\ \A x \in S \ T : f[x] = 0
  BY DEF Naturals, Zero
<1> QED BY <1>2, <1>3, SumSupport

LEMMA SumFunctionIs == \A f : SumFunction(f) = SumFunctionOnSet(f, DOMAIN f)
  BY Zenon DEF SumFunction

LEMMA SumTimes ==
  ASSUME NEW S, IsFiniteSet(S), NEW c \in Int, NEW f, \A x \in S : f[x] \in Int,
         NEW g, \A x \in S : g[x] = c * f[x]
  PROVE  SumFunctionOnSet(g, S) = c * SumFunctionOnSet(f, S)
<1> DEFINE P == {U \in SUBSET S : SumFunctionOnSet(g, U) = c * SumFunctionOnSet(f, U)}
<1>1. {} \in P
  BY SumEmpty
<1>2. ASSUME NEW T \in SUBSET S, NEW x \in S \ T, T \in P
      PROVE  T \cup {x} \in P
  <2>1. IsFiniteSet(T) /\ g[x] = c * f[x] /\ \A y \in T \cup {x} : f[y] \in Int
    BY FS_Subset
  <2>2. \A y \in T \cup {x} : g[y] \in Int
    <3> SUFFICES ASSUME NEW y \in T \cup {x} PROVE c * f[y] \in Int
      OBVIOUS
    <3>1. f[y] \in Int
      BY <2>1
    <3> QED BY <3>1
  <2>3. SumFunctionOnSet(f, T) \in Int /\ SumFunctionOnSet(f, T \cup {x}) = f[x] + SumFunctionOnSet(f, T)
    BY <2>1, SumAdd
  <2>4. SumFunctionOnSet(g, T) \in Int /\ SumFunctionOnSet(g, T \cup {x}) = g[x] + SumFunctionOnSet(g, T)
    BY <2>1, <2>2, SumAdd
  <2>5. SumFunctionOnSet(g, T) = c * SumFunctionOnSet(f, T)
    BY <1>2
  <2>6. \A a, b \in Int : c * a + c * b = c * (a + b)
    OBVIOUS
  <2>7. f[x] \in Int
    BY <2>1
  <2>8. SumFunctionOnSet(g, T \cup {x}) = c * SumFunctionOnSet(f, T \cup {x})
    BY <2>1, <2>3, <2>4, <2>5, <2>6, <2>7
  <2> QED BY <2>8
<1> HIDE DEF P
<1>3. S \in P
  BY <1>1, <1>2, SetInduction
<1> QED BY <1>3 DEF P

-----------------------------------------------------------------------------
(* Sums along a list.                                                      *)

LEMMA UpTo == \A n \in Nat : IsFiniteSet(1..n) /\ Cardinality(1..n) = n
<1> SUFFICES ASSUME NEW n \in Nat PROVE IsFiniteSet(1..n) /\ Cardinality(1..n) = n
  OBVIOUS
<1> QED BY FS_Interval

\* the first, and the others
LEMMA SumCut ==
  ASSUME NEW n \in Nat, NEW m \in 0..n, NEW f, \A i \in 1..n : f[i] \in Int
  PROVE  /\ SumFunctionOnSet(f, 1..m) \in Int /\ SumFunctionOnSet(f, (m+1)..n) \in Int
         /\ SumFunctionOnSet(f, 1..n) = SumFunctionOnSet(f, 1..m) + SumFunctionOnSet(f, (m+1)..n)
<1> DEFINE A == 1..m
           B == (m+1)..n
<1>1. A \cap B = {} /\ A \cup B = 1..n /\ A \in SUBSET (1..n) /\ B \in SUBSET (1..n)
  OBVIOUS
<1>2. IsFiniteSet(1..n)
  BY UpTo
<1>3. IsFiniteSet(A) /\ IsFiniteSet(B) /\ \A i \in A \cup B : f[i] \in Int
  BY <1>1, <1>2, FS_Subset
<1> HIDE DEF A, B
<1>4. /\ SumFunctionOnSet(f, A) \in Int /\ SumFunctionOnSet(f, B) \in Int
      /\ SumFunctionOnSet(f, A \cup B) = SumFunctionOnSet(f, A) + SumFunctionOnSet(f, B)
  BY <1>1, <1>3, SumUnion
<1> QED BY <1>1, <1>4 DEF A, B

\* the same, counted from 1
LEMMA SumShift ==
  ASSUME NEW n \in Nat, NEW m \in 0..n, NEW f, \A i \in 1..n : f[i] \in Int,
         NEW g, \A i \in 1..(n-m) : g[i] = f[m+i]
  PROVE  SumFunctionOnSet(f, (m+1)..n) = SumFunctionOnSet(g, 1..(n-m))
<1> DEFINE A == 1..(n-m)
           B == (m+1)..n
           h == [i \in A |-> m+i]
<1>1. IsFiniteSet(A) /\ IsFiniteSet(B)
  <2>1. n-m \in Nat /\ m+1 \in Int /\ n \in Int
    OBVIOUS
  <2> QED BY <2>1, UpTo, FS_Interval
<1>2. h \in [A -> B] /\ (\A y \in B : \E x \in A : h[x] = y) /\ (\A x, y \in A : h[x] = h[y] => x = y)
  <2>1. \A y \in B : y - m \in A /\ h[y-m] = y
    OBVIOUS
  <2> QED BY <2>1
<1>3. (\A y \in B : f[y] \in Int) /\ \A x \in A : g[x] = f[h[x]]
  OBVIOUS
<1> HIDE DEF A, B, h
<1>4. SumFunctionOnSet(f, B) = SumFunctionOnSet(g, A)
  BY ONLY <1>1, <1>2, <1>3, SumMove
<1> QED BY <1>4 DEF A, B

\* one more
LEMMA SumNext ==
  ASSUME NEW n \in Nat, NEW f, \A i \in 1..(n+1) : f[i] \in Int
  PROVE  /\ SumFunctionOnSet(f, 1..n) \in Int
         /\ SumFunctionOnSet(f, 1..(n+1)) = SumFunctionOnSet(f, 1..n) + f[n+1]
<1>1. IsFiniteSet(1..n) /\ n+1 \notin 1..n /\ (1..n) \cup {n+1} = 1..(n+1)
  BY UpTo
<1>2. SumFunctionOnSet(f, 1..n) \in Int
      /\ SumFunctionOnSet(f, (1..n) \cup {n+1}) = f[n+1] + SumFunctionOnSet(f, 1..n)
  <2>1. f[n+1] \in Int /\ \A y \in 1..n : f[y] \in Int
    OBVIOUS
  <2> QED BY <1>1, <2>1, SumAdd
<1>3. f[n+1] \in Int
  OBVIOUS
<1>4. SumFunctionOnSet(f, (1..n) \cup {n+1}) = SumFunctionOnSet(f, 1..(n+1))
  BY <1>1
<1> QED BY <1>2, <1>3, <1>4

LEMMA SumFirst ==
  ASSUME NEW n \in Nat, n >= 1, NEW f, \A i \in 1..n : f[i] \in Int
  PROVE  SumFunctionOnSet(f, 1..n) = f[1] + SumFunctionOnSet(f, 2..n)
<1> DEFINE A == 1..1
           B == (1+1)..n
<1>1. SumFunctionOnSet(f, 1..n) = SumFunctionOnSet(f, A) + SumFunctionOnSet(f, B)
  <2>1. 1 \in 0..n
    OBVIOUS
  <2> QED BY <2>1, SumCut
<1>2. A = {1} /\ B = 2..n /\ f[1] \in Int
  OBVIOUS
<1> HIDE DEF A, B
<1>3. SumFunctionOnSet(f, {1}) = f[1]
  BY <1>2, SumOne
<1> QED BY <1>1, <1>2, <1>3

-----------------------------------------------------------------------------
(* Rows.  Where nothing was weighed there is no sum.                       *)

Weighed(S) ==
  IsFiniteSet(S) /\ \A r \in S : r.sum \in Nat /\ r.weight \in Nat /\ (r.weight = 0 => r.sum = 0)

LEMMA WeighedPart ==
  ASSUME NEW S, Weighed(S), NEW T \in SUBSET S
  PROVE  Weighed(T)
  BY FS_Subset DEF Weighed

LEMMA CombineIs ==
  ASSUME NEW S, IsFiniteSet(S),
         NEW f, \A r \in S : f[r] = r.sum, \A r \in S : r.sum \in Int,
         NEW g, \A r \in S : g[r] = r.weight, \A r \in S : r.weight \in Int
  PROVE  Combine(S) = [sum |-> SumFunctionOnSet(f, S), weight |-> SumFunctionOnSet(g, S)]
<1> DEFINE F == [r \in S |-> r.sum]
           G == [r \in S |-> r.weight]
<1>1. DOMAIN F = S /\ DOMAIN G = S /\ \A r \in S : F[r] = f[r] /\ G[r] = g[r] /\ F[r] \in Int /\ G[r] \in Int
  OBVIOUS
<1>2. Combine(S) = [sum |-> SumFunction(F), weight |-> SumFunction(G)]
  BY DEF Combine
<1> HIDE DEF F, G
<1>3. SumFunction(F) = SumFunctionOnSet(F, S) /\ SumFunction(G) = SumFunctionOnSet(G, S)
  BY <1>1, SumFunctionIs
<1>4. SumFunctionOnSet(F, S) = SumFunctionOnSet(f, S) /\ SumFunctionOnSet(G, S) = SumFunctionOnSet(g, S)
  BY <1>1, SumSame
<1> QED BY <1>2, <1>3, <1>4

\* The whole is weighed like its parts, and weighs nothing only if they do.
LEMMA CombineOf ==
  ASSUME NEW S, Weighed(S)
  PROVE  /\ Combine(S).sum \in Nat /\ Combine(S).weight \in Nat
         /\ Combine(S).weight = 0 => Combine(S).sum = 0
         /\ Combine(S) = [sum |-> Combine(S).sum, weight |-> Combine(S).weight]
         /\ Combine(S).weight = 0 <=> \A r \in S : r.weight = 0
<1> DEFINE F == [r \in S |-> r.sum]
           G == [r \in S |-> r.weight]
<1>0. IsFiniteSet(S) /\ \A r \in S : F[r] \in Nat /\ G[r] \in Nat /\ (G[r] = 0 => F[r] = 0)
  BY DEF Weighed
<1>1. (\A r \in S : F[r] = r.sum /\ G[r] = r.weight)
  OBVIOUS
<1>2. \A r \in S : r.sum \in Int /\ r.weight \in Int
  BY DEF Weighed
<1> HIDE DEF F, G
<1>3. Combine(S) = [sum |-> SumFunctionOnSet(F, S), weight |-> SumFunctionOnSet(G, S)]
  BY <1>0, <1>1, <1>2, CombineIs
<1>4. SumFunctionOnSet(F, S) \in Nat /\ SumFunctionOnSet(G, S) \in Nat
  BY <1>0, SumNat
<1>5. ASSUME SumFunctionOnSet(G, S) = 0, NEW r \in S PROVE G[r] = 0
  <2>1. SumFunctionOnSet(G, S) = G[r] + SumFunctionOnSet(G, S \ {r})
    BY <1>0, SumAny
  <2>2. SumFunctionOnSet(G, S \ {r}) \in Nat
    <3>1. IsFiniteSet(S \ {r}) /\ \A x \in S \ {r} : G[x] \in Nat
      BY <1>0, FS_Subset
    <3> QED BY <3>1, SumNat
  <2> QED BY <1>0, <1>5, <2>1, <2>2
<1>6. (\A r \in S : G[r] = 0) => SumFunctionOnSet(G, S) = 0 /\ SumFunctionOnSet(F, S) = 0
  <2>1. SUFFICES ASSUME \A r \in S : G[r] = 0 PROVE SumFunctionOnSet(G, S) = 0 /\ SumFunctionOnSet(F, S) = 0
    OBVIOUS
  <2>2. \A r \in S : F[r] = 0
    BY <1>0, <2>1
  <2> QED BY <1>0, <2>1, <2>2, SumZero
<1>7. SumFunctionOnSet(G, S) = 0 <=> \A r \in S : r.weight = 0
  BY <1>1, <1>5, <1>6
<1> QED BY <1>1, <1>3, <1>4, <1>5, <1>6, <1>7

LEMMA SumIs ==
  ASSUME NEW s, NEW K, DOMAIN s = K, IsFiniteSet(K), \A k \in K : s[k].sum \in Int /\ s[k].weight \in Int,
         NEW f, \A k \in K : f[k] = s[k].sum, NEW g, \A k \in K : g[k] = s[k].weight
  PROVE  Sum(s) = [sum |-> SumFunctionOnSet(f, K), weight |-> SumFunctionOnSet(g, K)]
<1> DEFINE F == [k \in K |-> s[k].sum]
           G == [k \in K |-> s[k].weight]
<1>1. DOMAIN F = K /\ DOMAIN G = K /\ \A k \in K : F[k] = f[k] /\ G[k] = g[k] /\ F[k] \in Int /\ G[k] \in Int
  OBVIOUS
<1>2. Sum(s) = [sum |-> SumFunction(F), weight |-> SumFunction(G)]
  BY DEF Sum
<1> HIDE DEF F, G
<1>3. SumFunction(F) = SumFunctionOnSet(F, K) /\ SumFunction(G) = SumFunctionOnSet(G, K)
  BY <1>1, SumFunctionIs
<1>4. SumFunctionOnSet(F, K) = SumFunctionOnSet(f, K) /\ SumFunctionOnSet(G, K) = SumFunctionOnSet(g, K)
  BY <1>1, SumSame
<1> QED BY <1>2, <1>3, <1>4

\* Whatever way the rows of some weight are divided, the parts add up to them.
LEMMA SumParts ==
  ASSUME NEW S, Weighed(S), NEW K, IsFiniteSet(K), NEW part,
         \A k \in K : part[k] \in SUBSET S,
         \A x \in S : x.weight > 0 => \E k \in K : x \in part[k],
         \A j, k \in K : \A x \in S : x \in part[j] /\ x \in part[k] => j = k,
         NEW s, DOMAIN s = K,
         \A k \in K : s[k].sum = Combine(part[k]).sum /\ s[k].weight = Combine(part[k]).weight
  PROVE  Sum(s) = Combine(S)
<1> DEFINE F == [r \in S |-> r.sum]
           G == [r \in S |-> r.weight]
           f == [k \in K |-> s[k].sum]
           g == [k \in K |-> s[k].weight]
           T == {r \in S : \E k \in K : r \in part[k]}
<1>0. IsFiniteSet(S) /\ (\A r \in S : F[r] \in Int /\ G[r] \in Int)
      /\ (\A r \in S : F[r] = r.sum /\ G[r] = r.weight) /\ (\A r \in S : r.sum \in Int /\ r.weight \in Int)
  BY DEF Weighed
<1>1. \A r \in S \ T : F[r] = 0 /\ G[r] = 0
  BY DEF Weighed
<1>2. T \in SUBSET S /\ \A k \in K : f[k] = s[k].sum /\ g[k] = s[k].weight
  OBVIOUS
<1>3. (\A k \in K : part[k] \in SUBSET T) /\ (\A x \in T : \E k \in K : x \in part[k])
      /\ (\A j, k \in K : \A x \in T : x \in part[j] /\ x \in part[k] => j = k)
  OBVIOUS
<1> HIDE DEF F, G, T, f, g
<1>4. \A k \in K : /\ Combine(part[k]).sum = SumFunctionOnSet(F, part[k])
                   /\ Combine(part[k]).weight = SumFunctionOnSet(G, part[k])
                   /\ Combine(part[k]).sum \in Int /\ Combine(part[k]).weight \in Int
  <2> SUFFICES ASSUME NEW U \in SUBSET S
               PROVE  /\ Combine(U).sum = SumFunctionOnSet(F, U) /\ Combine(U).weight = SumFunctionOnSet(G, U)
                      /\ Combine(U).sum \in Int /\ Combine(U).weight \in Int
    BY Zenon
  <2>1. Weighed(U)
    BY WeighedPart
  <2>2. IsFiniteSet(U) /\ (\A r \in U : F[r] = r.sum /\ G[r] = r.weight) /\ (\A r \in U : r.sum \in Int /\ r.weight \in Int)
    BY <1>0, <2>1 DEF Weighed
  <2>3. Combine(U) = [sum |-> SumFunctionOnSet(F, U), weight |-> SumFunctionOnSet(G, U)]
    BY <2>2, CombineIs
  <2>4. Combine(U).sum \in Nat /\ Combine(U).weight \in Nat
    BY <2>1, CombineOf
  <2> QED BY <2>3, <2>4
<1>5. Combine(S) = [sum |-> SumFunctionOnSet(F, S), weight |-> SumFunctionOnSet(G, S)]
  BY <1>0, CombineIs
<1>6. SumFunctionOnSet(F, S) = SumFunctionOnSet(F, T) /\ SumFunctionOnSet(G, S) = SumFunctionOnSet(G, T)
  BY <1>0, <1>1, <1>2, SumSupport
<1>7. IsFiniteSet(T) /\ \A r \in T : F[r] \in Int /\ G[r] \in Int
  BY <1>0, <1>2, FS_Subset
<1>8. (\A k \in K : f[k] = SumFunctionOnSet(F, part[k])) /\ (\A k \in K : g[k] = SumFunctionOnSet(G, part[k]))
  BY <1>2, <1>4, Zenon
<1>9. SumFunctionOnSet(F, T) = SumFunctionOnSet(f, K)
  BY <1>3, <1>7, <1>8, SumOfParts, SMTT(60)
<1>10. SumFunctionOnSet(G, T) = SumFunctionOnSet(g, K)
  BY <1>3, <1>7, <1>8, SumOfParts, SMTT(60)
<1>11. Sum(s) = [sum |-> SumFunctionOnSet(f, K), weight |-> SumFunctionOnSet(g, K)]
  <2>1. \A k \in K : s[k].sum \in Int /\ s[k].weight \in Int
    BY <1>4, Zenon
  <2> QED BY <1>2, <2>1, SumIs
<1> QED BY <1>5, <1>6, <1>9, <1>10, <1>11

-----------------------------------------------------------------------------
(* Groups of rows, and lists of them.                                      *)

\* rows by the value of a dimension
Named(rows, d, k) == {r \in rows : r.dims[d] = k}
IsGroup(g, rows, d) ==
  /\ g.rows = Named(rows, d, g.name) /\ \E r \in rows : r.dims[d] = g.name
  /\ g.sum = Combine(g.rows).sum /\ g.weight = Combine(g.rows).weight
\* a name for every row
Subjective(rows, d) == \A r \in rows : r.dims[d] \in Nat /\ r.dims[d] # Other

LEMMA ImageFinite ==
  ASSUME NEW S, IsFiniteSet(S), NEW T, NEW f, \A x \in S : f[x] \in T, \A y \in T : \E x \in S : f[x] = y
  PROVE  IsFiniteSet(T)
<1> DEFINE g == [x \in S |-> f[x]]
<1>1. g \in Surjection(S, T)
  BY DEF Surjection
<1> QED BY <1>1, FS_Surjection

LEMMA GroupIs ==
  ASSUME NEW rows, Weighed(rows), NEW d, NEW g, IsGroup(g, rows, d)
  PROVE  g.rows \in SUBSET rows /\ Weighed(g.rows) /\ g.sum \in Nat /\ g.weight \in Nat
         /\ (g.weight = 0 => g.sum = 0)
<1>1. g.rows \in SUBSET rows
  BY DEF IsGroup, Named
<1>2. Weighed(g.rows)
  BY <1>1, WeighedPart
<1> QED BY <1>1, <1>2, CombineOf DEF IsGroup

Grouped(groups, rows, d) ==
  /\ IsFiniteSet(groups)
  /\ \A g \in groups : IsGroup(g, rows, d)
  /\ \A g, h \in groups : g.name = h.name => g = h
  /\ \A r \in rows : r.weight > 0 => \E g \in groups : g.name = r.dims[d]

LEMMA GroupsOf ==
  ASSUME NEW rows, Weighed(rows), NEW d
  PROVE  Grouped(GroupsBy(rows, LAMBDA r : r.dims[d]), rows, d)
<1> DEFINE groups == GroupsBy(rows, LAMBDA r : r.dims[d])
           names == {r.dims[d] : r \in rows}
           Of(k) == [name |-> k, rows |-> {r \in rows : r.dims[d] = k}, sum |-> Combine({r \in rows : r.dims[d] = k}).sum,
                     weight |-> Combine({r \in rows : r.dims[d] = k}).weight]
<1>1. groups = {Of(k) : k \in names}
  BY DEF GroupsBy
<1>2. IsFiniteSet(names)
  <2> DEFINE f == [r \in rows |-> r.dims[d]]
  <2>1. (\A r \in rows : f[r] \in names) /\ \A k \in names : \E r \in rows : f[r] = k
    OBVIOUS
  <2>2. IsFiniteSet(rows)
    BY DEF Weighed
  <2> HIDE DEF f, names
  <2> QED BY <2>1, <2>2, ImageFinite
<1>3. \A k \in names : Of(k).name = k /\ IsGroup(Of(k), rows, d)
  <2> SUFFICES ASSUME NEW k \in names PROVE Of(k).name = k /\ IsGroup(Of(k), rows, d)
    OBVIOUS
  <2> DEFINE U == {r \in rows : r.dims[d] = k}
  <2>1. Of(k) = [name |-> k, rows |-> U, sum |-> Combine(U).sum, weight |-> Combine(U).weight]
    OBVIOUS
  <2>2. U = Named(rows, d, k) /\ \E r \in rows : r.dims[d] = k
    BY DEF Named
  <2> HIDE DEF U, Of
  <2> QED BY <2>1, <2>2 DEF IsGroup
<1> HIDE DEF groups, names, Of
<1>4. IsFiniteSet({Of(k) : k \in names})
  <2> DEFINE f == [k \in names |-> Of(k)]
             T == {Of(k) : k \in names}
  <2>1. (\A k \in names : f[k] \in T) /\ \A g \in T : \E k \in names : f[k] = g
    OBVIOUS
  <2> HIDE DEF f, T
  <2>2. IsFiniteSet(T)
    BY <1>2, <2>1, ImageFinite
  <2> QED BY <2>2 DEF T
<1>5. \A g \in groups : IsGroup(g, rows, d) /\ g = Of(g.name)
  BY <1>1, <1>3
<1>6. \A r \in rows : \E g \in groups : g.name = r.dims[d]
  <2> SUFFICES ASSUME NEW r \in rows PROVE \E g \in groups : g.name = r.dims[d]
    OBVIOUS
  <2>1. r.dims[d] \in names
    BY DEF names
  <2>2. Of(r.dims[d]) \in groups /\ Of(r.dims[d]).name = r.dims[d]
    BY <1>1, <1>3, <2>1
  <2> QED BY <2>2
<1>7. IsFiniteSet(groups)
  BY <1>1, <1>4
<1>8. \A g, h \in groups : g.name = h.name => g = h
  <2> SUFFICES ASSUME NEW g \in groups, NEW h \in groups, g.name = h.name PROVE g = h
    OBVIOUS
  <2>1. g = Of(g.name) /\ h = Of(h.name)
    BY <1>5
  <2>2. Of(g.name) = Of(h.name)
    OBVIOUS
  <2> QED BY <2>1, <2>2
<1>9. Grouped(groups, rows, d)
  BY <1>5, <1>6, <1>7, <1>8 DEF Grouped
<1> QED BY <1>9 DEF groups

\* Every row of some weight is in one of the groups listed.
Lists(s, rows, d) ==
  /\ Len(s) \in Nat /\ DOMAIN s = 1..Len(s) /\ s \in Seq(ToSet(s))
  /\ \A i \in 1..Len(s) : IsGroup(s[i], rows, d) /\ s[i].weight > 0
  /\ \A i, j \in 1..Len(s) : s[i].name = s[j].name => i = j
  /\ \A r \in rows : r.weight > 0 => \E i \in 1..Len(s) : s[i].name = r.dims[d]

\* A listing of the groups of some weight.
LEMMA ListsListing ==
  ASSUME NEW rows, Weighed(rows), NEW d, NEW groups, Grouped(groups, rows, d),
         NEW S, \A g : g \in S <=> g \in groups /\ g.weight > 0, NEW s,
         s \in [1..Cardinality(S) -> S],
         \A i, j \in 1..Cardinality(S) : i < j => s[i] # s[j]
  PROVE  Lists(s, rows, d) /\ ToSet(s) = S
<1> DEFINE n == Cardinality(S)
<1>1. /\ IsFiniteSet(groups)
      /\ \A g \in groups : IsGroup(g, rows, d)
      /\ \A g, h \in groups : g.name = h.name => g = h
      /\ \A r \in rows : r.weight > 0 => \E g \in groups : g.name = r.dims[d]
  BY DEF Grouped
<1>2. \A g : g \in S <=> g \in groups /\ g.weight > 0
  OBVIOUS
<1>3. S \in SUBSET groups /\ IsFiniteSet(S) /\ n \in Nat
  <2>1. S \in SUBSET groups
    BY <1>2
  <2> QED BY <1>1, <2>1, FS_Subset, FS_CardinalityType
<1>4. (\A x \in S : \E i \in 1..n : s[i] = x) /\ (\A i, j \in 1..n : s[i] = s[j] => i = j)
  BY <1>3, ListedOnto
<1> HIDE DEF n
<1>5. s \in [1..n -> S]
  BY DEF n
<1>6. Len(s) = n /\ DOMAIN s = 1..n /\ s \in Seq(S)
  BY <1>3, <1>5, SeqDef
<1>7. ToSet(s) = S
  <2>1. ToSet(s) = {s[i] : i \in 1..n}
    BY <1>6 DEF ToSet
  <2> QED BY ONLY <1>4, <1>5, <2>1
<1>8. \A i \in 1..n : IsGroup(s[i], rows, d) /\ s[i].weight > 0
  BY <1>1, <1>2, <1>5
<1>9. ASSUME NEW i \in 1..n, NEW j \in 1..n, s[i].name = s[j].name PROVE i = j
  <2>1. s[i] \in groups /\ s[j] \in groups
    BY <1>3, <1>5
  <2>2. s[i] = s[j]
    BY <1>1, <1>9, <2>1
  <2> QED BY <1>4, <2>2
<1>10. ASSUME NEW r \in rows, r.weight > 0 PROVE \E i \in 1..n : s[i].name = r.dims[d]
  <2>1. PICK g \in groups : g.name = r.dims[d]
    BY <1>1, <1>10
  <2>2. g.weight > 0
    <3>1. IsGroup(g, rows, d)
      BY <1>1
    <3>2. Weighed(g.rows) /\ g.weight \in Nat
      BY <3>1, GroupIs
    <3>4. r \in g.rows
      BY <2>1, <3>1 DEF IsGroup, Named
    <3>3. Combine(g.rows).weight # 0
      BY <1>10, <3>2, <3>4, CombineOf
    <3> QED BY <3>1, <3>2, <3>3 DEF IsGroup
  <2>3. g \in S
    BY <1>2, <2>2
  <2> QED BY <1>4, <2>1, <2>3
<1> QED BY <1>3, <1>6, <1>7, <1>8, <1>9, <1>10 DEF Lists

LEMMA RankedLists ==
  ASSUME NEW rows, Weighed(rows), NEW d, Subjective(rows, d)
  PROVE  Lists(Ranked(rows, d), rows, d)
<1> DEFINE groups == GroupsBy(rows, LAMBDA r : r.dims[d])
           S == {g \in groups : g.weight > 0}
           Before(g, h) == \/ g.weight > h.weight
                           \/ g.weight = h.weight /\ g.sum > h.sum
                           \/ g.weight = h.weight /\ g.sum = h.sum /\ g.name < h.name
           R == {p \in S \X S : Before(p[1], p[2])}
           n == Cardinality(S)
           Good(t) == \A i, j \in 1..n : i < j => t[i] # t[j] /\ ~Before(t[j], t[i])
           s == Ranked(rows, d)
<1>1. Grouped(groups, rows, d)
  BY GroupsOf
<1>2. s = CHOOSE t \in [1..n -> S] : Good(t)
  BY DEF Ranked, RankBy, ListedBy
<1> HIDE DEF groups, s
<1>3. IsFiniteSet(S) /\ S \in SUBSET groups
  <2>1. IsFiniteSet(groups) /\ S \in SUBSET groups
    BY <1>1 DEF Grouped
  <2> HIDE DEF S
  <2> QED BY <2>1, FS_Subset
<1>4. \A g \in S : g.sum \in Nat /\ g.weight \in Nat /\ g.name \in Nat
  <2> SUFFICES ASSUME NEW g \in S PROVE g.sum \in Nat /\ g.weight \in Nat /\ g.name \in Nat
    OBVIOUS
  <2>1. IsGroup(g, rows, d)
    BY <1>1 DEF Grouped
  <2> QED BY <2>1, GroupIs DEF IsGroup, Subjective
<1>5. \A x, y \in S : <<x, y>> \in R <=> Before(x, y)
  OBVIOUS
<1>6. (\A x \in S : ~Before(x, x)) /\ \A x, y, z \in S : Before(x, y) /\ Before(y, z) => Before(x, z)
  BY <1>4
<1>7. \A g : g \in S <=> g \in groups /\ g.weight > 0
  OBVIOUS
<1> HIDE DEF S, R, Before
<1>8. (\A x \in S : <<x, x>> \notin R) /\ \A x, y, z \in S : <<x, y>> \in R /\ <<y, z>> \in R => <<x, z>> \in R
  BY <1>5, <1>6, Zenon
<1>9. \E t \in [1..n -> S] : \A i, j \in 1..n : i < j => t[i] # t[j] /\ <<t[j], t[i]>> \notin R
  BY <1>3, <1>8, ListExists
<1>10. \E t \in [1..n -> S] : Good(t)
  BY <1>5, <1>9
<1>11. s \in [1..n -> S] /\ Good(s)
  <2> HIDE DEF Good
  <2> QED BY <1>2, <1>10
<1>12. \A i, j \in 1..n : i < j => s[i] # s[j]
  BY <1>11
<1>13. Lists(s, rows, d)
  BY <1>1, <1>7, <1>11, <1>12, ListsListing
<1> QED BY <1>13 DEF s

\* Averages are compared like their quotients.
LEMMA Quotients ==
  ASSUME NEW p \in Nat, NEW q \in Nat, NEW r \in Nat, NEW a \in Nat, a > 0, NEW b \in Nat, b > 0, NEW c \in Nat, c > 0,
         p * b >= q * a, q * c >= r * b
  PROVE  /\ p * c >= r * a
         /\ p * b > q * a \/ q * c > r * b => p * c > r * a
<1>1. \A x, y, z \in Nat : z > 0 /\ x >= y => x * z >= y * z
  OBVIOUS
<1>2. \A x, y, z \in Nat : z > 0 /\ x > y => x * z > y * z
  OBVIOUS
<1>3. p * b \in Nat /\ q * a \in Nat /\ q * c \in Nat /\ r * b \in Nat /\ p * c \in Nat /\ r * a \in Nat
  OBVIOUS
<1>4. (p * b) * c >= (q * a) * c /\ (q * c) * a >= (r * b) * a
  BY <1>1, <1>3
<1>5. /\ p * b > q * a => (p * b) * c > (q * a) * c
      /\ q * c > r * b => (q * c) * a > (r * b) * a
  BY <1>2, <1>3
<1>6. \A x, y, z \in Nat : (x * y) * z = (x * z) * y
  OBVIOUS
<1>7. (p * b) * c = (p * c) * b /\ (q * a) * c = (q * c) * a /\ (r * b) * a = (r * a) * b
  BY <1>6
<1>8. \A x, y \in Nat : y * b \in Nat /\ x * b \in Nat
  OBVIOUS
<1>9. (p * c) * b >= (r * a) * b /\ (p * b > q * a \/ q * c > r * b => (p * c) * b > (r * a) * b)
  <2>1. \A x, y, z, u \in Nat : x >= y /\ z >= u /\ y = z => x >= u /\ (x > y \/ z > u => x > u)
    OBVIOUS
  <2>2. (p * b) * c \in Nat /\ (q * a) * c \in Nat /\ (q * c) * a \in Nat /\ (r * b) * a \in Nat
    BY <1>3
  <2>3. (p * b) * c >= (r * b) * a /\ ((p * b) * c > (q * a) * c \/ (q * c) * a > (r * b) * a => (p * b) * c > (r * b) * a)
    BY <2>1, <2>2, <1>4, <1>7
  <2> QED BY <2>3, <1>5, <1>7
<1>10. \A x, y, z \in Nat : z > 0 /\ x * z >= y * z => x >= y
  <2> SUFFICES ASSUME NEW x \in Nat, NEW y \in Nat, NEW z \in Nat, z > 0, x < y PROVE x * z < y * z
    BY <1>2, <1>3
  <2> QED BY <1>2
<1>11. \A x, y, z \in Nat : z > 0 /\ x * z > y * z => x > y
  <2> SUFFICES ASSUME NEW x \in Nat, NEW y \in Nat, NEW z \in Nat, z > 0, x <= y PROVE x * z <= y * z
    OBVIOUS
  <2> QED BY <1>1
<1> QED BY <1>3, <1>9, <1>10, <1>11

\* the order of values, of groups of some weight
LEMMA AboveOrders ==
  ASSUME NEW S, \A g \in S : g.sum \in Nat /\ g.weight \in Nat /\ g.weight > 0, NEW counts \in BOOLEAN
  PROVE  /\ \A x, y \in S : Above(x, y, counts) => ~Above(y, x, counts)
         /\ \A x, y, z \in S : ~Above(y, x, counts) /\ ~Above(z, y, counts) =>
              /\ ~Above(z, x, counts)
              /\ Above(x, y, counts) \/ Above(y, z, counts) => Above(x, z, counts)
<1>1. CASE counts
  BY <1>1 DEF Above
<1>2. CASE ~counts
  <2>1. \A x, y \in S : x.sum * y.weight \in Nat /\ (Above(x, y, counts) <=> x.sum * y.weight > y.sum * x.weight)
    BY <1>2 DEF Above
  <2>2. \A x, y \in S : ~Above(y, x, counts) <=> x.sum * y.weight >= y.sum * x.weight
    BY <2>1
  <2>3. ASSUME NEW x \in S, NEW y \in S, NEW z \in S, ~Above(y, x, counts), ~Above(z, y, counts)
        PROVE  /\ ~Above(z, x, counts)
               /\ Above(x, y, counts) \/ Above(y, z, counts) => Above(x, z, counts)
    <3>1. x.sum * y.weight >= y.sum * x.weight /\ y.sum * z.weight >= z.sum * y.weight
      BY <2>2, <2>3
    <3>2. /\ x.sum * z.weight >= z.sum * x.weight
          /\ x.sum * y.weight > y.sum * x.weight \/ y.sum * z.weight > z.sum * y.weight
               => x.sum * z.weight > z.sum * x.weight
      BY <3>1, Quotients
    <3> QED BY <2>1, <2>2, <3>2
  <2>4. \A x, y \in S : Above(x, y, counts) => ~Above(y, x, counts)
    BY <2>1
  <2> QED BY <2>3, <2>4
<1> QED BY <1>1, <1>2

LEMMA ByValueLists ==
  ASSUME NEW rows, Weighed(rows), NEW d, Subjective(rows, d), NEW ranked, Lists(ranked, rows, d), NEW counts \in BOOLEAN
  PROVE  Lists(ByValue(ranked, counts), rows, d)
<1> DEFINE S == ToSet(ranked)
           Over(g, h) == Above(g, h, counts)
           Before(g, h) == \/ Above(g, h, counts)
                           \/ ~Above(h, g, counts) /\ g.weight > h.weight
                           \/ ~Above(h, g, counts) /\ g.weight = h.weight /\ g.name < h.name
           R == {p \in S \X S : Before(p[1], p[2])}
           n == Cardinality(S)
           Good(t) == \A i, j \in 1..n : i < j => t[i] # t[j] /\ ~Before(t[j], t[i])
           s == ByValue(ranked, counts)
<1>1. s = CHOOSE t \in [1..n -> S] : Good(t)
  BY DEF ByValue, ListedBy
<1> HIDE DEF s
<1>2. \A g \in S : \E i \in 1..Len(ranked) : g = ranked[i]
  BY DEF Lists, ToSet
<1>3. \A i \in 1..Len(ranked) : ranked[i] \in S
  BY DEF Lists, ToSet
<1> HIDE DEF S
<1>4. Grouped(S, rows, d) /\ \A g \in S : g.weight > 0
  <2>1. IsFiniteSet(S)
    <3>1. IsFiniteSet(1..Len(ranked))
      BY UpTo DEF Lists
    <3> QED BY <1>2, <1>3, <3>1, ImageFinite
  <2>2. \A g \in S : IsGroup(g, rows, d) /\ g.weight > 0
    BY <1>2 DEF Lists
  <2>3. \A g, h \in S : g.name = h.name => g = h
    BY <1>2 DEF Lists
  <2>4. \A r \in rows : r.weight > 0 => \E g \in S : g.name = r.dims[d]
    BY <1>3 DEF Lists
  <2> QED BY <2>1, <2>2, <2>3, <2>4 DEF Grouped
<1>5. \A g \in S : g.sum \in Nat /\ g.weight \in Nat /\ g.name \in Nat
  <2> SUFFICES ASSUME NEW g \in S PROVE g.sum \in Nat /\ g.weight \in Nat /\ g.name \in Nat
    OBVIOUS
  <2>1. IsGroup(g, rows, d)
    BY <1>4 DEF Grouped
  <2> QED BY <2>1, GroupIs DEF IsGroup, Subjective
<1>6. /\ \A x, y \in S : Over(x, y) => ~Over(y, x)
      /\ \A x, y, z \in S : ~Over(y, x) /\ ~Over(z, y) =>
              /\ ~Over(z, x)
              /\ Over(x, y) \/ Over(y, z) => Over(x, z)
  BY <1>4, <1>5, AboveOrders
<1>7. \A x, y : Before(x, y) <=> \/ Over(x, y)
                                 \/ ~Over(y, x) /\ x.weight > y.weight
                                 \/ ~Over(y, x) /\ x.weight = y.weight /\ x.name < y.name
  OBVIOUS
<1>8. \A x, y \in S : <<x, y>> \in R <=> Before(x, y)
  OBVIOUS
<1> HIDE DEF R, Before, Over
<1>9. \A x \in S : ~Before(x, x)
  BY <1>5, <1>6, <1>7
<1>10. ASSUME NEW x \in S, NEW y \in S, NEW z \in S, Before(x, y), Before(y, z) PROVE Before(x, z)
  <2>1. ~Over(y, x) /\ ~Over(z, y)
    BY <1>6, <1>7, <1>10
  <2>2. ~Over(z, x) /\ (Over(x, y) \/ Over(y, z) => Over(x, z))
    BY <1>6, <2>1
  <2>3. CASE Over(x, y) \/ Over(y, z)
    BY <1>7, <2>2, <2>3
  <2>4. CASE ~Over(x, y) /\ ~Over(y, z)
    <3>1. x.weight > y.weight \/ (x.weight = y.weight /\ x.name < y.name)
      BY <1>7, <1>10, <2>4
    <3>2. y.weight > z.weight \/ (y.weight = z.weight /\ y.name < z.name)
      BY <1>7, <1>10, <2>4
    <3>3. x.weight > z.weight \/ (x.weight = z.weight /\ x.name < z.name)
      BY <1>5, <3>1, <3>2
    <3> QED BY <1>7, <2>2, <3>3
  <2> QED BY <2>3, <2>4
<1>11. (\A x \in S : <<x, x>> \notin R) /\ \A x, y, z \in S : <<x, y>> \in R /\ <<y, z>> \in R => <<x, z>> \in R
  BY <1>8, <1>9, <1>10, Zenon
<1>12. IsFiniteSet(S)
  BY <1>4 DEF Grouped
<1>13. \E t \in [1..n -> S] : \A i, j \in 1..n : i < j => t[i] # t[j] /\ <<t[j], t[i]>> \notin R
  BY <1>11, <1>12, ListExists
<1>14. \E t \in [1..n -> S] : Good(t)
  BY <1>8, <1>13
<1>15. s \in [1..n -> S] /\ Good(s)
  <2> HIDE DEF Good
  <2> QED BY <1>1, <1>14
<1>16. \A i, j \in 1..n : i < j => s[i] # s[j]
  BY <1>15
<1>17. \A g : g \in S <=> g \in S /\ g.weight > 0
  BY <1>4
<1>18. Lists(s, rows, d)
  BY <1>4, <1>15, <1>16, <1>17, ListsListing
<1> QED BY <1>18 DEF s

LEMMA ListRows ==
  ASSUME NEW rows, NEW d, NEW s, Lists(s, rows, d), NEW i \in 1..Len(s)
  PROVE  s[i].rows \in SUBSET rows /\ \A r \in rows : r \in s[i].rows <=> s[i].name = r.dims[d]
<1>1. s[i].rows = Named(rows, d, s[i].name)
  BY DEF Lists, IsGroup
<1> QED BY <1>1 DEF Named

\* the rows of a list are divided by its groups
LEMMA ListParts ==
  ASSUME NEW rows, NEW d, NEW s, Lists(s, rows, d), NEW part, \A i \in 1..Len(s) : part[i] = s[i].rows
  PROVE  /\ \A i \in 1..Len(s) : part[i] \in SUBSET rows
         /\ \A x \in rows : x.weight > 0 => \E i \in 1..Len(s) : x \in part[i]
         /\ \A i, j \in 1..Len(s) : \A x \in rows : x \in part[i] /\ x \in part[j] => i = j
<1>1. \A i \in 1..Len(s) : part[i] \in SUBSET rows /\ \A r \in rows : r \in part[i] <=> s[i].name = r.dims[d]
  BY ListRows
<1>2. /\ \A i, j \in 1..Len(s) : s[i].name = s[j].name => i = j
      /\ \A r \in rows : r.weight > 0 => \E i \in 1..Len(s) : s[i].name = r.dims[d]
  BY DEF Lists
<1> QED BY <1>1, <1>2

LEMMA SumLists ==
  ASSUME NEW rows, Weighed(rows), NEW d, NEW s, Lists(s, rows, d)
  PROVE  Sum(s) = Combine(rows)
<1> DEFINE part == [i \in 1..Len(s) |-> s[i].rows]
<1>1. \A i \in 1..Len(s) : part[i] = s[i].rows
  OBVIOUS
<1> HIDE DEF part
<1>2. /\ \A i \in 1..Len(s) : part[i] \in SUBSET rows
      /\ \A x \in rows : x.weight > 0 => \E i \in 1..Len(s) : x \in part[i]
      /\ \A i, j \in 1..Len(s) : \A x \in rows : x \in part[i] /\ x \in part[j] => i = j
  BY <1>1, ListParts
<1>3. DOMAIN s = 1..Len(s) /\ IsFiniteSet(1..Len(s))
  BY UpTo DEF Lists
<1>4. \A i \in 1..Len(s) : s[i].sum = Combine(part[i]).sum /\ s[i].weight = Combine(part[i]).weight
  BY <1>1 DEF Lists, IsGroup
<1> QED BY <1>2, <1>3, <1>4, SumParts, SMTT(60)

LEMMA HeadOfIs ==
  ASSUME NEW X, NEW s \in Seq(X), NEW n \in Nat
  PROVE  LET m == IF Len(s) < n THEN Len(s) ELSE n IN
         /\ HeadOf(s, n) \in Seq(X) /\ Len(HeadOf(s, n)) = m /\ DOMAIN HeadOf(s, n) = 1..m
         /\ \A i \in 1..m : HeadOf(s, n)[i] = s[i]
<1> DEFINE m == IF Len(s) < n THEN Len(s) ELSE n
<1>1. Len(s) \in Nat /\ s \in [1..Len(s) -> X]
  BY LenProperties
<1>2. m \in Nat /\ m <= Len(s)
  BY <1>1
<1>3. HeadOf(s, n) = SubSeq(s, 1, m)
  BY DEF HeadOf
<1> HIDE DEF m
<1>4. \A i \in 1..m : s[i] \in X
  BY <1>1, <1>2
<1>5. /\ SubSeq(s, 1, m) \in Seq(X)
      /\ Len(SubSeq(s, 1, m)) = IF 1 <= m THEN m - 1 + 1 ELSE 0
      /\ \A i \in 1..(m - 1 + 1) : SubSeq(s, 1, m)[i] = s[1 + i - 1]
  <2>1. 1 \in Int /\ m \in Int
    BY <1>2
  <2> QED BY <1>4, <2>1, SubSeqProperties
<1>6. Len(SubSeq(s, 1, m)) = m
  BY <1>2, <1>5
<1>7. DOMAIN SubSeq(s, 1, m) = 1..m
  BY <1>5, <1>6, LenProperties
<1>8. \A i \in 1..m : SubSeq(s, 1, m)[i] = s[i]
  <2> SUFFICES ASSUME NEW i \in 1..m PROVE SubSeq(s, 1, m)[i] = s[i]
    OBVIOUS
  <2>1. i \in 1..(m - 1 + 1) /\ 1 + i - 1 = i
    BY <1>2
  <2>2. SubSeq(s, 1, m)[i] = s[1 + i - 1]
    BY <1>5, <2>1
  <2> QED BY <2>1, <2>2
<1> QED BY <1>3, <1>5, <1>6, <1>7, <1>8 DEF m

LEMMA TailOfIs ==
  ASSUME NEW X, NEW s \in Seq(X), NEW n \in 0..Len(s)
  PROVE  /\ TailOf(s, n) \in Seq(X) /\ Len(TailOf(s, n)) = Len(s) - n
         /\ DOMAIN TailOf(s, n) = 1..(Len(s) - n)
         /\ \A i \in 1..(Len(s) - n) : TailOf(s, n)[i] = s[n + i]
<1> DEFINE l == Len(s)
           t == SubSeq(s, n + 1, l)
<1>1. l \in Nat /\ s \in [1..l -> X] /\ n \in Nat /\ n <= l
  BY LenProperties
<1>3. TailOf(s, n) = t
  BY DEF TailOf
<1> HIDE DEF l
<1>4. \A i \in (n+1)..l : s[i] \in X
  BY <1>1
<1>5. /\ t \in Seq(X)
      /\ Len(t) = IF n + 1 <= l THEN l - (n + 1) + 1 ELSE 0
      /\ \A i \in 1..(l - (n + 1) + 1) : t[i] = s[(n + 1) + i - 1]
  <2>1. n + 1 \in Int /\ l \in Int
    BY <1>1
  <2> QED BY <1>4, <2>1, SubSeqProperties
<1> HIDE DEF t
<1>6. Len(t) = l - n
  BY <1>1, <1>5
<1>7. DOMAIN t = 1..(l - n)
  BY <1>5, <1>6, LenProperties
<1>8. \A i \in 1..(l - n) : t[i] = s[n + i]
  <2> SUFFICES ASSUME NEW i \in 1..(l - n) PROVE t[i] = s[n + i]
    OBVIOUS
  <2>1. i \in 1..(l - (n + 1) + 1) /\ (n + 1) + i - 1 = n + i
    BY <1>1
  <2>2. t[i] = s[(n + 1) + i - 1]
    BY <1>5, <2>1
  <2> QED BY <2>1, <2>2
<1> QED BY <1>3, <1>5, <1>6, <1>7, <1>8 DEF l

\* the groups of a list's tail together
LEMMA RestRows ==
  ASSUME NEW rows, NEW d, NEW s, Lists(s, rows, d), NEW n \in Nat, n <= Len(s)
  PROVE  LET rest == RowsOf(TailOf(s, n)) IN
         /\ rest \in SUBSET rows
         /\ \A r \in rows : r \in rest <=> \E i \in (n+1)..Len(s) : r.dims[d] = s[i].name
<1> DEFINE rest == RowsOf(TailOf(s, n))
           t == TailOf(s, n)
           l == Len(s)
<1>1. l \in Nat /\ s \in Seq(ToSet(s)) /\ n \in 0..l
  BY DEF Lists
<1>2. DOMAIN t = 1..(l - n) /\ \A i \in 1..(l - n) : t[i] = s[n + i]
  BY <1>1, TailOfIs
<1>3. \A r : r \in rest <=> \E i \in 1..(l - n) : r \in t[i].rows
  BY <1>2 DEF RowsOf, ToSet
<1> HIDE DEF t, rest
<1>4. \A i \in 1..l : s[i].rows \in SUBSET rows /\ \A r \in rows : r \in s[i].rows <=> s[i].name = r.dims[d]
  BY ListRows
<1> HIDE DEF l
<1>5. \A i \in 1..(l - n) : n + i \in (n+1)..l /\ n + i \in 1..l
  BY <1>1
<1>6. \A i \in (n+1)..l : i - n \in 1..(l - n) /\ n + (i - n) = i /\ i \in 1..l
  BY <1>1
<1>7. rest \in SUBSET rows
  BY <1>2, <1>3, <1>4, <1>5
<1>8. ASSUME NEW r \in rows PROVE r \in rest <=> \E i \in (n+1)..l : r.dims[d] = s[i].name
  <2>1. ASSUME r \in rest PROVE \E i \in (n+1)..l : r.dims[d] = s[i].name
    <3>1. PICK i \in 1..(l - n) : r \in t[i].rows
      BY <1>3, <2>1
    <3>2. r \in s[n + i].rows
      BY <1>2, <3>1
    <3>3. n + i \in 1..l /\ n + i \in (n+1)..l
      BY <1>5
    <3>4. s[n + i].name = r.dims[d]
      BY <1>4, <3>2, <3>3
    <3> QED BY <3>3, <3>4
  <2>2. ASSUME NEW i \in (n+1)..l, r.dims[d] = s[i].name PROVE r \in rest
    <3>1. i - n \in 1..(l - n) /\ n + (i - n) = i /\ i \in 1..l
      BY <1>6
    <3>2. r \in s[i].rows
      BY <1>4, <2>2, <3>1
    <3>3. t[i - n] = s[i]
      BY <1>2, <3>1
    <3> QED BY <1>3, <3>1, <3>2, <3>3
  <2> QED BY <2>1, <2>2
<1> QED BY <1>7, <1>8 DEF l, rest

\* the first groups, and the others as one
LEMMA HeadAndRest ==
  ASSUME NEW rows, NEW d, NEW s, Lists(s, rows, d), NEW n \in Nat, n < Len(s),
         NEW part, \A i \in 1..n : part[i] = s[i].rows, part[n+1] = RowsOf(TailOf(s, n))
  PROVE  /\ \A i \in 1..(n+1) : part[i] \in SUBSET rows
         /\ \A x \in rows : x.weight > 0 => \E i \in 1..(n+1) : x \in part[i]
         /\ \A i, j \in 1..(n+1) : \A x \in rows : x \in part[i] /\ x \in part[j] => i = j
<1> DEFINE l == Len(s)
<1>0. l \in Nat /\ n < l
  BY DEF Lists
<1>1. \A i \in 1..l : s[i].rows \in SUBSET rows /\ \A r \in rows : r \in s[i].rows <=> s[i].name = r.dims[d]
  BY ListRows
<1>2. /\ part[n+1] \in SUBSET rows
      /\ \A r \in rows : r \in part[n+1] <=> \E i \in (n+1)..l : r.dims[d] = s[i].name
  BY <1>0, RestRows
<1>3. /\ \A i, j \in 1..l : s[i].name = s[j].name => i = j
      /\ \A r \in rows : r.weight > 0 => \E i \in 1..l : s[i].name = r.dims[d]
  BY DEF Lists
<1> HIDE DEF l
<1>4. \A i \in 1..n : i \in 1..l /\ i \notin (n+1)..l
  BY <1>0
<1>5. \A i \in (n+1)..l : i \in 1..l
  BY <1>0
<1>6. \A i \in 1..(n+1) : i \in 1..n \/ i = n+1
  OBVIOUS
<1>7. \A i \in 1..l : i \in 1..n \/ i \in (n+1)..l
  BY <1>0
<1>8. (\A i \in 1..n : i \in 1..(n+1)) /\ n+1 \in 1..(n+1)
  OBVIOUS
<1>9. \A i \in 1..(n+1) : part[i] \in SUBSET rows
  BY <1>1, <1>2, <1>4, <1>6
<1>10. ASSUME NEW x \in rows, x.weight > 0 PROVE \E i \in 1..(n+1) : x \in part[i]
  <2>1. PICK i \in 1..l : s[i].name = x.dims[d]
    BY <1>3, <1>10
  <2>2. CASE i \in 1..n
    BY <1>1, <1>8, <2>1, <2>2
  <2>3. CASE i \in (n+1)..l
    BY <1>2, <1>8, <2>1, <2>3
  <2> QED BY <1>7, <2>2, <2>3
<1>11. ASSUME NEW i \in 1..(n+1), NEW j \in 1..(n+1), NEW x \in rows, x \in part[i], x \in part[j] PROVE i = j
  <2>1. \A k \in 1..n : x \in part[k] => s[k].name = x.dims[d] /\ k \in 1..l
    BY <1>1, <1>4
  <2>2. CASE i \in 1..n /\ j \in 1..n
    BY <1>3, <1>11, <2>1, <2>2
  <2>3. ASSUME NEW k \in 1..n, x \in part[k], x \in part[n+1] PROVE FALSE
    BY <1>2, <1>3, <1>4, <1>5, <2>1, <2>3
  <2> QED BY <1>6, <1>11, <2>2, <2>3
<1> QED BY <1>9, <1>10, <1>11

\* parts of which no two share a row and every row of some weight is in one
Divides(part, K, rows) ==
  /\ IsFiniteSet(K)
  /\ \A k \in K : part[k] \in SUBSET rows
  /\ \A x \in rows : x.weight > 0 => \E k \in K : x \in part[k]
  /\ \A j, k \in K : \A x \in rows : x \in part[j] /\ x \in part[k] => j = k

LEMMA SumDivided ==
  ASSUME NEW rows, Weighed(rows), NEW K, NEW part, Divides(part, K, rows),
         NEW s, DOMAIN s = K,
         \A k \in K : s[k].sum = Combine(part[k]).sum /\ s[k].weight = Combine(part[k]).weight
  PROVE  Sum(s) = Combine(rows)
<1>1. /\ IsFiniteSet(K)
      /\ \A k \in K : part[k] \in SUBSET rows
      /\ \A x \in rows : x.weight > 0 => \E k \in K : x \in part[k]
      /\ \A j, k \in K : \A x \in rows : x \in part[j] /\ x \in part[k] => j = k
  BY DEF Divides
<1> QED BY <1>1, SumParts

LEMMA DividesSome ==
  ASSUME NEW rows, NEW K, NEW part, Divides(part, K, rows), NEW T \in SUBSET rows,
         NEW some, \A k \in K : some[k] = part[k] \cap T
  PROVE  Divides(some, K, T)
<1>1. \A k \in K : some[k] \in SUBSET T /\ \A x \in T : x \in some[k] <=> x \in part[k]
  OBVIOUS
<1> QED BY <1>1 DEF Divides

-----------------------------------------------------------------------------
(* The buckets, and the series over them.                                  *)

InTime(rows, ts, b) ==
  /\ IsFiniteSet(DOMAIN ts) /\ \A i, j \in DOMAIN ts : ts[i] = ts[j] => i = j
  /\ \A r \in rows : r.weight > 0 => \E i \in DOMAIN ts : BucketStart(r.t, b) = ts[i]

LEMMA SumBuckets ==
  ASSUME NEW rows, Weighed(rows), NEW ts, NEW b, InTime(rows, ts, b)
  PROVE  Sum(PerBucket(rows, ts, b)) = Combine(rows)
<1> DEFINE part == [i \in DOMAIN ts |-> {r \in rows : BucketStart(r.t, b) = ts[i]}]
           s == PerBucket(rows, ts, b)
<1>1. DOMAIN s = DOMAIN ts /\ \A i \in DOMAIN ts : s[i] = Combine(part[i])
  BY DEF PerBucket
<1>2. \A i \in DOMAIN ts : part[i] \in SUBSET rows /\ \A r \in rows : r \in part[i] <=> BucketStart(r.t, b) = ts[i]
  OBVIOUS
<1> HIDE DEF part, s
<1>3. Divides(part, DOMAIN ts, rows)
  BY <1>2 DEF Divides, InTime
<1>4. Sum(s) = Combine(rows)
  BY <1>1, <1>3, SumDivided
<1> QED BY <1>4 DEF s

LEMMA SeriesParts ==
  ASSUME TopSeries \in Nat, NEW rows, NEW d, NEW ranked, Lists(ranked, rows, d), NEW ts, NEW b
  PROVE  LET series == SeriesOf(ranked, ts, b) IN
         \E n \in Nat : \E part :
           /\ Divides(part, 1..n, rows) /\ DOMAIN series = 1..n
           /\ \A k \in 1..n : series[k].values = PerBucket(part[k], ts, b)
<1> DEFINE head == HeadOf(ranked, TopSeries)
           tail == TailOf(ranked, TopSeries)
           list == [i \in DOMAIN head |-> [name |-> ranked[i].name, rows |-> ranked[i].rows]]
           all == IF tail = <<>> THEN list ELSE Append(list, [name |-> Other, rows |-> RowsOf(tail)])
           l == Len(ranked)
           series == SeriesOf(ranked, ts, b)
<1>1. l \in Nat /\ ranked \in Seq(ToSet(ranked)) /\ DOMAIN ranked = 1..l
  BY DEF Lists
<1>2. series = [i \in DOMAIN all |-> [name |-> all[i].name, values |-> PerBucket(all[i].rows, ts, b)]]
  BY DEF SeriesOf
<1>0. l \in Nat /\ TopSeries \in Nat
  BY <1>1
<1> HIDE DEF series, l
<1>3. SUFFICES \E n \in Nat : \E part : Divides(part, 1..n, rows) /\ DOMAIN all = 1..n /\ \A k \in 1..n : all[k].rows = part[k]
  <2> HIDE DEF all
  <2> SUFFICES ASSUME NEW n \in Nat, NEW part, Divides(part, 1..n, rows), DOMAIN all = 1..n, \A k \in 1..n : all[k].rows = part[k]
               PROVE  \E m \in Nat : \E p : /\ Divides(p, 1..m, rows) /\ DOMAIN series = 1..m
                                            /\ \A k \in 1..m : series[k].values = PerBucket(p[k], ts, b)
    BY DEF series
  <2>1. DOMAIN series = 1..n /\ \A k \in 1..n : series[k].values = PerBucket(all[k].rows, ts, b)
    BY <1>2
  <2>2. \A k \in 1..n : series[k].values = PerBucket(part[k], ts, b)
    BY <2>1
  <2> QED BY <2>1, <2>2
<1>4. CASE l <= TopSeries
  <2>1. DOMAIN head = 1..l
    <3>1. DOMAIN head = 1..(IF l < TopSeries THEN l ELSE TopSeries)
      BY <1>1, HeadOfIs DEF l
    <3>2. (IF l < TopSeries THEN l ELSE TopSeries) = l
      BY ONLY <1>0, <1>4
    <3> QED BY <3>1, <3>2
  <2>2. tail = <<>>
    <3>1. TopSeries + 1 \in Int /\ l \in Int /\ l < TopSeries + 1
      BY <1>0, <1>4
    <3> QED BY <3>1, SubSeqEmpty DEF TailOf, l
  <2>3. DOMAIN all = 1..l /\ \A k \in 1..l : all[k].rows = ranked[k].rows
    BY <2>1, <2>2
  <2> DEFINE part == [k \in 1..l |-> ranked[k].rows]
  <2>4. \A k \in 1..l : part[k] = ranked[k].rows
    OBVIOUS
  <2> HIDE DEF part, all
  <2>5. Divides(part, 1..l, rows)
    BY <1>0, <2>4, ListParts, UpTo DEF Divides, l
  <2> QED BY <1>0, <2>3, <2>4, <2>5
<1>5. CASE l > TopSeries
  <2> DEFINE n == TopSeries
  <2>1. DOMAIN head = 1..n
    <3>1. DOMAIN head = 1..(IF l < TopSeries THEN l ELSE TopSeries)
      BY <1>1, HeadOfIs DEF l
    <3>2. (IF l < TopSeries THEN l ELSE TopSeries) = TopSeries
      BY ONLY <1>0, <1>5
    <3> QED BY <3>1, <3>2
  <2>2. tail # <<>>
    <3>1. Len(tail) = l - TopSeries
      <4>1. TopSeries \in 0..l
        BY ONLY <1>0, <1>5
      <4> QED BY <1>1, <4>1, TailOfIs DEF l
    <3>2. Len(<<>>) = 0
      OBVIOUS
    <3> HIDE DEF tail
    <3> QED BY <1>0, <1>5, <3>1, <3>2
  <2> DEFINE rest == RowsOf(tail)
             e == [name |-> Other, rows |-> rest]
             X == {list[i] : i \in 1..n} \cup {e}
  <2>3. list \in Seq(X) /\ Len(list) = n /\ e \in X
    <3>1. list \in [1..n -> X]
      BY <2>1
    <3> HIDE DEF list, X
    <3> QED BY <3>1, SeqDef DEF X
  <2>4. all = Append(list, e)
    BY <2>2
  <2>5. \A k \in 1..n : list[k].rows = ranked[k].rows
    BY <2>1
  <2>6. e.rows = rest
    OBVIOUS
  <2> HIDE DEF list, X, e, all, rest
  <2>7. Len(all) = n + 1 /\ DOMAIN all = 1..(n+1) /\ all[n+1] = e /\ \A k \in 1..n : all[k] = list[k]
    BY <2>3, <2>4, AppendProperties
  <2> DEFINE part == [k \in 1..(n+1) |-> IF k = n+1 THEN rest ELSE ranked[k].rows]
  <2>8. part[n+1] = rest /\ \A k \in 1..n : part[k] = ranked[k].rows
    OBVIOUS
  <2> HIDE DEF part
  <2>9. Divides(part, 1..(n+1), rows)
    <3>1. n \in Nat /\ n < Len(ranked) /\ IsFiniteSet(1..(n+1))
      BY <1>0, <1>5, UpTo DEF l
    <3> QED BY <2>8, <3>1, HeadAndRest DEF Divides, rest
  <2>10. \A k \in 1..(n+1) : all[k].rows = part[k]
    <3>1. \A k \in 1..(n+1) : k \in 1..n \/ k = n+1
      OBVIOUS
    <3> QED BY <2>5, <2>6, <2>7, <2>8, <3>1
  <2> QED BY <1>0, <2>7, <2>9, <2>10
<1> QED
  <2>1. l <= TopSeries \/ l > TopSeries
    BY ONLY <1>0
  <2> QED BY <1>4, <1>5, <2>1, Zenon

SeriesAdd(series, rows, ts, b) ==
  /\ \E n \in Nat : DOMAIN series = 1..n
  /\ \A i \in DOMAIN ts : Sum([k \in DOMAIN series |-> series[k].values[i]]) = PerBucket(rows, ts, b)[i]
  /\ Sum([k \in DOMAIN series |-> Sum(series[k].values)]) = Combine(rows)

LEMMA SumSeries ==
  ASSUME TopSeries \in Nat, NEW rows, Weighed(rows), NEW d, NEW ranked, Lists(ranked, rows, d),
         NEW ts, NEW b, InTime(rows, ts, b)
  PROVE  SeriesAdd(SeriesOf(ranked, ts, b), rows, ts, b)
<1> DEFINE series == SeriesOf(ranked, ts, b)
<1>0. PICK n \in Nat : \E part :
           /\ Divides(part, 1..n, rows) /\ DOMAIN series = 1..n
           /\ \A k \in 1..n : series[k].values = PerBucket(part[k], ts, b)
  BY SeriesParts
<1>1. PICK part :
           /\ Divides(part, 1..n, rows) /\ DOMAIN series = 1..n
           /\ \A k \in 1..n : series[k].values = PerBucket(part[k], ts, b)
  BY <1>0
<1> HIDE DEF series
<1>2. ASSUME NEW i \in DOMAIN ts
      PROVE  Sum([k \in DOMAIN series |-> series[k].values[i]]) = PerBucket(rows, ts, b)[i]
  <2> DEFINE T == {r \in rows : BucketStart(r.t, b) = ts[i]}
             U(k) == {r \in part[k] : BucketStart(r.t, b) = ts[i]}
             some == [k \in 1..n |-> U(k)]
             s == [k \in DOMAIN series |-> series[k].values[i]]
  <2>1. \A k \in 1..n : part[k] \in SUBSET rows
    BY <1>1 DEF Divides
  <2>2. \A k \in 1..n : some[k] = part[k] \cap T
    BY <2>1
  <2>3. \A k \in 1..n : series[k].values[i] = Combine(U(k))
    BY <1>1, <1>2 DEF PerBucket
  <2>4. DOMAIN s = 1..n /\ \A k \in 1..n : s[k] = Combine(some[k])
    BY <1>1, <2>3
  <2>5. PerBucket(rows, ts, b)[i] = Combine(T) /\ T \in SUBSET rows
    BY <1>2 DEF PerBucket
  <2> HIDE DEF T, U, some, s
  <2>6. Divides(some, 1..n, T) /\ Weighed(T)
    BY <1>1, <2>2, <2>5, DividesSome, WeighedPart
  <2>7. Sum(s) = Combine(T)
    BY <2>4, <2>6, SumDivided
  <2> QED BY <2>5, <2>7 DEF s
<1>3. Sum([k \in DOMAIN series |-> Sum(series[k].values)]) = Combine(rows)
  <2> DEFINE s == [k \in DOMAIN series |-> Sum(series[k].values)]
  <2>1. DOMAIN s = 1..n /\ \A k \in 1..n : s[k] = Sum(PerBucket(part[k], ts, b))
    BY <1>1
  <2>2. ASSUME NEW k \in 1..n PROVE Sum(PerBucket(part[k], ts, b)) = Combine(part[k])
    <3>1. part[k] \in SUBSET rows
      BY <1>1 DEF Divides
    <3>2. Weighed(part[k]) /\ InTime(part[k], ts, b)
      BY <3>1, WeighedPart DEF InTime
    <3> QED BY <3>2, SumBuckets
  <2> HIDE DEF s
  <2>3. \A k \in 1..n : s[k] = Combine(part[k])
    BY <2>1, <2>2
  <2>4. Sum(s) = Combine(rows)
    BY <1>1, <2>1, <2>3, SumDivided
  <2> QED BY <2>4 DEF s
<1>4. SeriesAdd(series, rows, ts, b)
  BY Zenon, <1>1, <1>2, <1>3 DEF SeriesAdd
<1> QED BY <1>4 DEF series

-----------------------------------------------------------------------------
(* The matrix: rows divided in two ways at once.                           *)

KeptAs(names, x) == IF x \in ToSet(names) THEN x ELSE Other
ByName(rows, d, names) == [i \in DOMAIN names |-> {r \in rows : KeptAs(names, r.dims[d]) = names[i]}]

KeepsAll(names, n, rows, d) ==
  /\ DOMAIN names = 1..n
  /\ \A i, j \in 1..n : names[i] = names[j] => i = j
  /\ \A r \in rows : r.weight > 0 => \E i \in 1..n : KeptAs(names, r.dims[d]) = names[i]

LEMMA KeptNames ==
  ASSUME NEW rows, NEW d, Subjective(rows, d), NEW ranked, Lists(ranked, rows, d), NEW limit \in Nat, limit >= 1
  PROVE  LET names == KeepNames(ranked, limit) IN
         \E n \in Nat : KeepsAll(names, n, rows, d) /\ (n = 0 <=> Len(ranked) = 0)
<1> DEFINE names == KeepNames(ranked, limit)
           l == Len(ranked)
<1>1. l \in Nat /\ ranked \in Seq(ToSet(ranked)) /\ DOMAIN ranked = 1..l
  BY DEF Lists
<1>2. /\ \A i \in 1..l : ranked[i].name \in Nat /\ ranked[i].name # Other
      /\ \A i, j \in 1..l : ranked[i].name = ranked[j].name => i = j
      /\ \A r \in rows : r.weight > 0 => \E i \in 1..l : ranked[i].name = r.dims[d]
  <2>1. \A i \in 1..l : \E r \in rows : ranked[i].name = r.dims[d]
    BY DEF Lists, IsGroup
  <2>2. \A i \in 1..l : ranked[i].name \in Nat /\ ranked[i].name # Other
    BY <2>1 DEF Subjective
  <2> QED BY <2>2 DEF Lists
<1>3. l \in Nat
  BY <1>1
<1>4. CASE l <= limit
  <2>1. names = [i \in DOMAIN ranked |-> ranked[i].name]
    <3>1. ~(Len(ranked) > limit)
      BY <1>3, <1>4
    <3> QED BY <3>1 DEF KeepNames
  <2> HIDE DEF names, l
  <2>2. DOMAIN names = 1..l /\ \A i \in 1..l : names[i] = ranked[i].name
    BY <1>1, <2>1
  <2>3. ASSUME NEW r \in rows, r.weight > 0 PROVE \E i \in 1..l : KeptAs(names, r.dims[d]) = names[i]
    <3>1. PICK i \in 1..l : ranked[i].name = r.dims[d]
      BY <1>2, <2>3
    <3>2. r.dims[d] \in ToSet(names) /\ r.dims[d] = names[i]
      BY <2>2, <3>1 DEF ToSet
    <3> QED BY <3>2 DEF KeptAs
  <2>4. KeepsAll(names, l, rows, d)
    BY <1>2, <2>2, <2>3 DEF KeepsAll
  <2> QED BY <1>3, <2>4, Zenon DEF names, l
<1>5. CASE l > limit
  <2> DEFINE n == limit - 1
             head == HeadOf(ranked, n)
             list == [i \in DOMAIN head |-> head[i].name]
  <2>1. names = Append(list, Other)
    <3>1. Len(ranked) > limit
      BY <1>5
    <3> QED BY <3>1 DEF KeepNames
  <2>2. n \in Nat /\ n < l /\ n + 1 \in Nat /\ n + 1 # 0 /\ l # 0
    BY <1>3, <1>5
  <2> HIDE DEF names, n
  <2>3. DOMAIN head = 1..n /\ \A i \in 1..n : head[i] = ranked[i]
    <3>1. (IF Len(ranked) < n THEN Len(ranked) ELSE n) = n
      BY <1>3, <2>2
    <3>2. ranked \in Seq(ToSet(ranked))
      BY <1>1
    <3> HIDE DEF l
    <3> QED BY <2>2, <3>1, <3>2, HeadOfIs
  <2> HIDE DEF head, l
  <2>4. list \in Seq(Nat) /\ Len(list) = n /\ \A i \in 1..n : list[i] = ranked[i].name
    <3>1. \A i \in 1..n : i \in 1..l
      BY <1>3, <2>2
    <3>2. list \in [1..n -> Nat] /\ \A i \in 1..n : list[i] = ranked[i].name
      BY <1>2, <2>3, <3>1
    <3> HIDE DEF list
    <3> QED BY <2>2, <3>2, SeqDef
  <2> HIDE DEF list
  <2>5. DOMAIN names = 1..(n+1) /\ names[n+1] = Other /\ \A i \in 1..n : names[i] = ranked[i].name
    <3>1. Other \in Nat
      BY DEF Other
    <3>2. Len(names) = n + 1 /\ names \in Seq(Nat) /\ names[n+1] = Other /\ \A i \in 1..n : names[i] = list[i]
      BY <2>1, <2>4, <3>1, AppendProperties
    <3> QED BY <2>4, <3>2, LenProperties
  <2>6. \A i \in 1..(n+1) : i \in 1..n \/ i = n+1
    BY <2>2
  <2>7. n+1 \in 1..(n+1) /\ \A i \in 1..n : i \in 1..l /\ i \in 1..(n+1)
    BY <1>3, <2>2
  <2>8. \A i, j \in 1..(n+1) : names[i] = names[j] => i = j
    BY <1>2, <2>5, <2>6, <2>7
  <2>9. ASSUME NEW r \in rows PROVE \E i \in 1..(n+1) : KeptAs(names, r.dims[d]) = names[i]
    <3>1. CASE r.dims[d] \in ToSet(names)
      BY <2>5, <3>1 DEF KeptAs, ToSet
    <3>2. CASE r.dims[d] \notin ToSet(names)
      BY <2>5, <2>7, <3>2 DEF KeptAs
    <3> QED BY <3>1, <3>2
  <2>10. KeepsAll(names, n + 1, rows, d)
    BY <2>5, <2>8, <2>9 DEF KeepsAll
  <2> QED BY <2>2, <2>10, Zenon DEF names, l
<1>6. l <= limit \/ l > limit
  BY <1>3
<1> QED BY <1>4, <1>5, <1>6, Zenon DEF names, l

LEMMA KeptDivides ==
  ASSUME NEW rows, NEW d, Subjective(rows, d), NEW ranked, Lists(ranked, rows, d), NEW limit \in Nat, limit >= 1
  PROVE  LET names == KeepNames(ranked, limit) IN
         \E n \in Nat :
           /\ DOMAIN names = 1..n /\ (n = 0 <=> Len(ranked) = 0)
           /\ Divides(ByName(rows, d, names), 1..n, rows)
<1> DEFINE names == KeepNames(ranked, limit)
           part == ByName(rows, d, names)
<1>0. PICK n \in Nat : KeepsAll(names, n, rows, d) /\ (n = 0 <=> Len(ranked) = 0)
  BY KeptNames, Zenon
<1>1. /\ DOMAIN names = 1..n /\ (n = 0 <=> Len(ranked) = 0)
      /\ \A i, j \in 1..n : names[i] = names[j] => i = j
      /\ \A r \in rows : r.weight > 0 => \E i \in 1..n : KeptAs(names, r.dims[d]) = names[i]
  BY <1>0 DEF KeepsAll
<1> HIDE DEF names
<1>2. \A i \in 1..n : part[i] \in SUBSET rows /\ \A r \in rows : r \in part[i] <=> KeptAs(names, r.dims[d]) = names[i]
  BY <1>1 DEF ByName
<1> HIDE DEF part
<1>3. IsFiniteSet(1..n)
  BY UpTo
<1>4. Divides(part, 1..n, rows)
  BY <1>1, <1>2, <1>3 DEF Divides
<1> QED BY <1>1, <1>4 DEF names, part

\* Row by row or column by column, the cells add up to the whole.
LEMMA CrossSum ==
  ASSUME NEW rows, Weighed(rows), NEW T \in SUBSET rows, NEW K, NEW part, Divides(part, K, rows),
         NEW s, DOMAIN s = K, \A k \in K : s[k] = Combine(part[k] \cap T)
  PROVE  Sum(s) = Combine(T)
<1> DEFINE some == [k \in K |-> part[k] \cap T]
<1>1. \A k \in K : some[k] = part[k] \cap T
  OBVIOUS
<1> HIDE DEF some
<1>2. Divides(some, K, T) /\ Weighed(T)
  BY <1>1, DividesSome, WeighedPart
<1>3. \A k \in K : s[k] = Combine(some[k])
  BY <1>1
<1> QED BY <1>2, <1>3, SumDivided

IsMatrix(m, rows, a, b, ri, cj) ==
  /\ DOMAIN m.rows = 1..a /\ DOMAIN m.cols = 1..b
  /\ a = 0 <=> Len(Ranked(rows, 1)) = 0
  /\ b = 0 <=> Len(Ranked(rows, 2)) = 0
  /\ DOMAIN m.cells = 1..a /\ \A i \in 1..a : m.cells[i] = [j \in 1..b |-> Combine(ri[i] \cap cj[j])]
  /\ Divides(ri, 1..a, rows) /\ Divides(cj, 1..b, rows)

LEMMA MatrixParts ==
  ASSUME NEW rows, Weighed(rows), Subjective(rows, 1), Subjective(rows, 2), NEW limits,
         limits[1] \in Nat, limits[1] >= 1, limits[2] \in Nat, limits[2] >= 1
  PROVE  LET m == MatrixOf(rows, limits) IN
         \E a, b \in Nat : \E ri, cj : IsMatrix(m, rows, a, b, ri, cj)
<1> DEFINE R == KeepNames(Ranked(rows, 1), limits[1])
           C == KeepNames(Ranked(rows, 2), limits[2])
           m == MatrixOf(rows, limits)
           ri == ByName(rows, 1, R)
           cj == ByName(rows, 2, C)
<1>1. Lists(Ranked(rows, 1), rows, 1) /\ Lists(Ranked(rows, 2), rows, 2)
  BY RankedLists
<1>2. PICK a \in Nat : DOMAIN R = 1..a /\ (a = 0 <=> Len(Ranked(rows, 1)) = 0) /\ Divides(ri, 1..a, rows)
  BY <1>1, KeptDivides
<1>3. PICK b \in Nat : DOMAIN C = 1..b /\ (b = 0 <=> Len(Ranked(rows, 2)) = 0) /\ Divides(cj, 1..b, rows)
  BY <1>1, KeptDivides
<1>4. m = [rows |-> R, cols |-> C,
           cells |-> [i \in DOMAIN R |-> [j \in DOMAIN C |->
             Combine({r \in rows : KeptAs(R, r.dims[1]) = R[i] /\ KeptAs(C, r.dims[2]) = C[j]})]]]
  BY DEF MatrixOf, KeptAs
<1> HIDE DEF R, C, m
<1>5. \A i \in 1..a : \A j \in 1..b :
        {r \in rows : KeptAs(R, r.dims[1]) = R[i] /\ KeptAs(C, r.dims[2]) = C[j]} = ri[i] \cap cj[j]
  BY <1>2, <1>3 DEF ByName
<1> HIDE DEF ri, cj
<1>6. \A i \in 1..a : \A j \in 1..b :
        Combine({r \in rows : KeptAs(R, r.dims[1]) = R[i] /\ KeptAs(C, r.dims[2]) = C[j]}) = Combine(ri[i] \cap cj[j])
  BY <1>5, Zenon
<1>7. DOMAIN m.rows = 1..a /\ DOMAIN m.cols = 1..b
  BY <1>2, <1>3, <1>4
<1>8. DOMAIN m.cells = 1..a /\ \A i \in 1..a : m.cells[i] = [j \in 1..b |-> Combine(ri[i] \cap cj[j])]
  <2> DEFINE cell(i, j) == Combine({r \in rows : KeptAs(R, r.dims[1]) = R[i] /\ KeptAs(C, r.dims[2]) = C[j]})
  <2>1. m.cells = [i \in 1..a |-> [j \in 1..b |-> cell(i, j)]]
    BY <1>2, <1>3, <1>4
  <2>2. \A i \in 1..a : \A j \in 1..b : cell(i, j) = Combine(ri[i] \cap cj[j])
    BY <1>6
  <2> HIDE DEF cell
  <2> QED BY <2>1, <2>2
<1>9. IsMatrix(m, rows, a, b, ri, cj)
  BY <1>2, <1>3, <1>7, <1>8 DEF IsMatrix
<1> QED BY <1>9, Zenon DEF m

LEMMA SumMatrix ==
  ASSUME NEW rows, Weighed(rows), Subjective(rows, 1), Subjective(rows, 2), NEW limits,
         limits[1] \in Nat, limits[1] >= 1, limits[2] \in Nat, limits[2] >= 1
  PROVE  SumCells(MatrixOf(rows, limits)) = Combine(rows)
<1> DEFINE m == MatrixOf(rows, limits)
<1>a. PICK a \in Nat : \E b \in Nat : \E ri, cj : IsMatrix(m, rows, a, b, ri, cj)
  BY MatrixParts, Zenon
<1>b. PICK b \in Nat : \E ri, cj : IsMatrix(m, rows, a, b, ri, cj)
  BY <1>a
<1>0. PICK ri, cj : IsMatrix(m, rows, a, b, ri, cj)
  BY <1>b
<1>1. /\ DOMAIN m.cells = 1..a /\ \A i \in 1..a : m.cells[i] = [j \in 1..b |-> Combine(ri[i] \cap cj[j])]
      /\ Divides(ri, 1..a, rows) /\ Divides(cj, 1..b, rows)
  BY <1>0 DEF IsMatrix
<1> HIDE DEF m
<1> DEFINE s == [i \in DOMAIN m.cells |-> Sum(m.cells[i])]
<1>2. ASSUME NEW i \in 1..a PROVE Sum(m.cells[i]) = Combine(ri[i])
  <2> DEFINE c == m.cells[i]
             T == ri[i]
  <2>1. T \in SUBSET rows
    BY <1>1 DEF Divides
  <2>2. DOMAIN c = 1..b /\ \A j \in 1..b : c[j] = Combine(cj[j] \cap T)
    <3>1. c = [j \in 1..b |-> Combine(T \cap cj[j])]
      BY <1>1
    <3>2. \A j \in 1..b : T \cap cj[j] = cj[j] \cap T
      OBVIOUS
    <3> HIDE DEF c, T
    <3> QED BY <3>1, <3>2
  <2> HIDE DEF c, T
  <2>3. Divides(cj, 1..b, rows)
    BY <1>1
  <2>4. DOMAIN c = 1..b
    BY <2>2
  <2>5. \A j \in 1..b : c[j] = Combine(cj[j] \cap T)
    BY <2>2
  <2>6. Sum(c) = Combine(T)
    BY ONLY Weighed(rows), <2>1, <2>3, <2>4, <2>5, CrossSum, SMTT(60)
  <2> QED BY <2>6 DEF c, T
<1>3. DOMAIN s = 1..a /\ \A i \in 1..a : s[i] = Combine(ri[i])
  BY <1>1, <1>2
<1> HIDE DEF s
<1>4. Sum(s) = Combine(rows)
  BY <1>1, <1>3, SumDivided
<1> QED BY <1>4 DEF s, m, SumCells

-----------------------------------------------------------------------------
(* The hierarchy.                                                          *)

\* a level with given children below its nodes
LevelOf(ranked, limit, kids) ==
  LET head == IF Len(ranked) > limit THEN HeadOf(ranked, limit - 1) ELSE ranked
      nodes == [i \in DOMAIN head |-> [name |-> head[i].name, value |-> head[i].weight, children |-> kids[i]]]
      rest == Combine(RowsOf(TailOf(ranked, limit - 1)))
  IN IF Len(ranked) > limit THEN Append(nodes, [name |-> Other, value |-> rest.weight, children |-> <<>>]) ELSE nodes

\* the nodes of a level share a weight
IsNodes(nodes, w) ==
  /\ nodes \in Seq(ToSet(nodes))
  /\ \A i \in 1..Len(nodes) : nodes[i].value \in Nat
  /\ \A i, j \in 1..Len(nodes) : nodes[i].name = nodes[j].name => i = j
  /\ SumNodes(nodes) = w

LEMMA NodesSum ==
  ASSUME NEW rows, Weighed(rows), NEW n \in Nat, NEW part, Divides(part, 1..n, rows), NEW nodes, DOMAIN nodes = 1..n,
         \A i \in 1..n : nodes[i].value = Combine(part[i]).weight
  PROVE  /\ \A i \in 1..n : nodes[i].value \in Nat
         /\ SumNodes(nodes) = Combine(rows).weight
<1> DEFINE s == [i \in 1..n |-> Combine(part[i])]
           f == [i \in DOMAIN s |-> s[i].weight]
           g == [i \in DOMAIN nodes |-> nodes[i].value]
<1>1. DOMAIN s = 1..n /\ \A i \in 1..n : s[i] = Combine(part[i])
  OBVIOUS
<1>2. f = g
  OBVIOUS
<1>3. Sum(s).weight = SumFunction(f) /\ SumNodes(nodes) = SumFunction(g)
  BY DEF Sum, SumNodes
<1> HIDE DEF s, f, g
<1>4. Sum(s) = Combine(rows)
  BY <1>1, SumDivided
<1>5. ASSUME NEW i \in 1..n PROVE nodes[i].value \in Nat
  <2>1. part[i] \in SUBSET rows
    BY DEF Divides
  <2>2. Combine(part[i]).weight \in Nat
    BY <2>1, WeighedPart, CombineOf
  <2> QED BY <2>2
<1>6. SumFunction(f) = SumFunction(g)
  BY <1>2
<1> QED BY <1>3, <1>4, <1>5, <1>6

LEMMA LevelNodes ==
  ASSUME NEW rows, Weighed(rows), NEW d, Subjective(rows, d), NEW ranked, Lists(ranked, rows, d),
         NEW limit \in Nat, limit >= 1, NEW kids, NEW nodes, nodes = LevelOf(ranked, limit, kids)
  PROVE  /\ IsNodes(nodes, Combine(rows).weight)
         /\ Len(nodes) = 0 <=> Len(ranked) = 0
         /\ \A i \in 1..Len(nodes) :
              /\ nodes[i].name = Other => nodes[i].children = <<>>
              /\ nodes[i].name # Other =>
                   /\ i \in 1..Len(ranked) /\ nodes[i].children = kids[i]
                   /\ nodes[i].value = Combine(ranked[i].rows).weight
<1> DEFINE l == Len(ranked)
<1>1. l \in Nat /\ ranked \in Seq(ToSet(ranked)) /\ DOMAIN ranked = 1..l
  BY DEF Lists
<1>2. /\ \A i \in 1..l : ranked[i].name \in Nat /\ ranked[i].name # Other
      /\ \A i, j \in 1..l : ranked[i].name = ranked[j].name => i = j
      /\ \A i \in 1..l : ranked[i].weight = Combine(ranked[i].rows).weight
  <2>1. \A i \in 1..l : \E r \in rows : ranked[i].name = r.dims[d]
    BY DEF Lists, IsGroup
  <2>2. \A i \in 1..l : ranked[i].name \in Nat /\ ranked[i].name # Other
    BY <2>1 DEF Subjective
  <2> QED BY <2>2 DEF Lists, IsGroup
<1>3. l \in Nat
  BY <1>1
<1>4. CASE l <= limit
  <2> DEFINE list == [i \in DOMAIN ranked |-> [name |-> ranked[i].name, value |-> ranked[i].weight, children |-> kids[i]]]
             part == [i \in 1..l |-> ranked[i].rows]
             X == {list[i] : i \in 1..l}
  <2>1. nodes = list
    <3>1. ~(Len(ranked) > limit)
      BY <1>3, <1>4
    <3> QED BY <3>1 DEF LevelOf
  <2>2. \A i \in 1..l : part[i] = ranked[i].rows
    OBVIOUS
  <2> HIDE DEF l, part
  <2>3. list \in [1..l -> X]
    BY <1>1
  <2>4. \A i \in 1..l : list[i].name = ranked[i].name /\ list[i].value = ranked[i].weight /\ list[i].children = kids[i]
    BY <1>1
  <2> HIDE DEF list
  <2>5. nodes \in Seq(X) /\ Len(nodes) = l /\ DOMAIN nodes = 1..l
    <3> HIDE DEF X
    <3> QED BY <1>3, <2>1, <2>3, SeqDef
  <2>6. X = ToSet(nodes)
    BY <2>1, <2>5 DEF ToSet
  <2>7. Divides(part, 1..l, rows)
    BY <1>3, <2>2, ListParts, UpTo DEF Divides, l
  <2>8. \A i \in 1..l : nodes[i].value = Combine(part[i]).weight
    BY <1>2, <2>1, <2>2, <2>4
  <2>9. (\A i \in 1..l : nodes[i].value \in Nat) /\ SumNodes(nodes) = Combine(rows).weight
    BY <1>3, <2>5, <2>7, <2>8, NodesSum
  <2>10. nodes \in Seq(ToSet(nodes))
    BY <2>5, <2>6
  <2>11. IsNodes(nodes, Combine(rows).weight)
    BY <1>2, <2>1, <2>4, <2>5, <2>9, <2>10 DEF IsNodes
  <2>12. \A i \in 1..l : nodes[i].name # Other /\ nodes[i].children = kids[i] /\ nodes[i].value = Combine(ranked[i].rows).weight
    BY <1>2, <2>1, <2>4
  <2> QED BY <2>5, <2>11, <2>12 DEF l
<1>5. CASE l > limit
  <2> DEFINE n == limit - 1
             head == HeadOf(ranked, n)
             rest == RowsOf(TailOf(ranked, n))
             list == [i \in DOMAIN head |-> [name |-> head[i].name, value |-> head[i].weight, children |-> kids[i]]]
             e == [name |-> Other, value |-> Combine(rest).weight, children |-> <<>>]
             X == {list[i] : i \in 1..n} \cup {e}
             part == [i \in 1..(n+1) |-> IF i = n+1 THEN rest ELSE ranked[i].rows]
  <2>1. nodes = Append(list, e)
    <3>1. Len(ranked) > limit
      BY <1>5
    <3> QED BY <3>1 DEF LevelOf
  <2>2. part[n+1] = rest /\ \A i \in 1..n : part[i] = ranked[i].rows
    OBVIOUS
  <2>3. n \in Nat /\ n < l /\ n + 1 \in Nat /\ n + 1 # 0 /\ l # 0
    BY <1>3, <1>5
  <2>4. \A i \in 1..n : i \in 1..l
    BY <1>3, <2>3
  <2>5. e.name = Other /\ e.children = <<>> /\ e.value = Combine(rest).weight
    OBVIOUS
  <2> HIDE DEF n, part
  <2>6. DOMAIN head = 1..n /\ \A i \in 1..n : head[i] = ranked[i]
    <3>1. (IF Len(ranked) < n THEN Len(ranked) ELSE n) = n
      BY <1>3, <2>3
    <3>2. ranked \in Seq(ToSet(ranked))
      BY <1>1
    <3> HIDE DEF l
    <3> QED BY <2>3, <3>1, <3>2, HeadOfIs
  <2> HIDE DEF head, l, rest, e
  <2>7. list \in [1..n -> X]
    BY <2>6
  <2>8. \A i \in 1..n : list[i].name = ranked[i].name /\ list[i].value = ranked[i].weight /\ list[i].children = kids[i]
    BY <2>6
  <2>9. X = ToSet(nodes) /\ nodes \in Seq(X) /\ Len(nodes) = n+1 /\ DOMAIN nodes = 1..(n+1) /\ nodes[n+1] = e
        /\ \A i \in 1..n : nodes[i] = list[i]
    <3>1. list \in Seq(X) /\ Len(list) = n /\ e \in X
      <4>1. e \in X
        OBVIOUS
      <4> HIDE DEF list, X
      <4> QED BY <2>3, <2>7, <4>1, SeqDef
    <3> HIDE DEF list
    <3>2. nodes \in Seq(X) /\ Len(nodes) = n+1 /\ nodes[n+1] = e /\ \A i \in 1..n : nodes[i] = list[i]
      <4> HIDE DEF X
      <4> QED BY <2>1, <3>1, AppendProperties
    <3>3. DOMAIN nodes = 1..(n+1)
      <4> HIDE DEF X
      <4> QED BY <3>2, LenProperties
    <3>4. ToSet(nodes) = {nodes[i] : i \in 1..(n+1)}
      BY <3>3 DEF ToSet
    <3>5. \A i : i \in 1..(n+1) <=> i \in 1..n \/ i = n+1
      BY <2>3
    <3>6. X = {nodes[i] : i \in 1..(n+1)}
      BY <3>2, <3>5
    <3> QED BY <3>2, <3>3, <3>4, <3>6
  <2> HIDE DEF list, X
  <2>10. \A i \in 1..(n+1) : i \in 1..n \/ i = n+1
    BY <2>3
  <2>11. Divides(part, 1..(n+1), rows)
    <3>1. n \in Nat /\ n < Len(ranked) /\ IsFiniteSet(1..(n+1))
      BY <2>3, UpTo DEF l
    <3> QED BY <2>2, <3>1, HeadAndRest DEF Divides, rest
  <2>12. \A i \in 1..(n+1) : nodes[i].value = Combine(part[i]).weight
    BY <1>2, <2>2, <2>4, <2>5, <2>8, <2>9, <2>10
  <2>13. (\A i \in 1..(n+1) : nodes[i].value \in Nat) /\ SumNodes(nodes) = Combine(rows).weight
    BY <2>3, <2>9, <2>11, <2>12, NodesSum
  <2>14. \A i \in 1..n : nodes[i].name = ranked[i].name /\ nodes[i].name # Other /\ nodes[i].children = kids[i]
                         /\ nodes[i].value = Combine(ranked[i].rows).weight
    BY <1>2, <2>4, <2>8, <2>9
  <2>15. nodes[n+1].name = Other /\ nodes[n+1].children = <<>>
    BY <2>5, <2>9
  <2>16. \A i, j \in 1..(n+1) : nodes[i].name = nodes[j].name => i = j
    BY <1>2, <2>4, <2>10, <2>14, <2>15
  <2>17. IsNodes(nodes, Combine(rows).weight)
    BY <2>9, <2>13, <2>16 DEF IsNodes
  <2>18. Len(nodes) = 0 <=> Len(ranked) = 0
    BY <2>3, <2>9 DEF l
  <2>19. \A i \in 1..Len(nodes) :
              /\ nodes[i].name = Other => nodes[i].children = <<>>
              /\ nodes[i].name # Other =>
                   /\ i \in 1..Len(ranked) /\ nodes[i].children = kids[i]
                   /\ nodes[i].value = Combine(ranked[i].rows).weight
    BY <2>4, <2>9, <2>10, <2>14, <2>15 DEF l
  <2> QED BY <2>17, <2>18, <2>19
<1>6. l <= limit \/ l > limit
  BY <1>3
<1> QED BY <1>4, <1>5, <1>6, Zenon

LEMMA LevelHead ==
  ASSUME NEW rows, NEW d, NEW ranked, Lists(ranked, rows, d), NEW limit \in Nat, limit >= 1
  PROVE  LET head == IF Len(ranked) > limit THEN HeadOf(ranked, limit - 1) ELSE ranked IN
         \A i \in DOMAIN head : i \in 1..Len(ranked) /\ head[i] = ranked[i]
<1> DEFINE l == Len(ranked)
           n == limit - 1
<1>1. l \in Nat /\ ranked \in Seq(ToSet(ranked)) /\ DOMAIN ranked = 1..l
  BY DEF Lists
<1>2. ASSUME l > limit PROVE \A i \in DOMAIN HeadOf(ranked, n) : i \in 1..l /\ HeadOf(ranked, n)[i] = ranked[i]
  <2>0. l \in Nat
    BY <1>1
  <2>1. n \in Nat /\ (IF l < n THEN l ELSE n) = n /\ n <= l
    BY <1>2, <2>0
  <2> HIDE DEF n
  <2>2. DOMAIN HeadOf(ranked, n) = 1..n /\ \A i \in 1..n : HeadOf(ranked, n)[i] = ranked[i]
    BY <1>1, <2>1, HeadOfIs
  <2> HIDE DEF l
  <2> QED BY <2>0, <2>1, <2>2
<1> QED BY <1>1, <1>2

Level3(rows) == Level(rows, 3, LAMBDA leaf : <<>>)
Level2(rows) == Level(rows, 2, LAMBDA s : Level3(s))

LEMMA Level3Nodes ==
  ASSUME NEW rows, Weighed(rows), Subjective(rows, 3), TreeLimits[3] \in Nat, TreeLimits[3] >= 1
  PROVE  LET nodes == Level3(rows) IN
         /\ IsNodes(nodes, Combine(rows).weight)
         /\ \A i \in 1..Len(nodes) : nodes[i].children = <<>>
<1> DEFINE ranked == Ranked(rows, 3)
           limit == TreeLimits[3]
           head == IF Len(ranked) > limit THEN HeadOf(ranked, limit - 1) ELSE ranked
           kids == [i \in 1..Len(ranked) |-> <<>>]
           A == [i \in DOMAIN head |-> [name |-> head[i].name, value |-> head[i].weight, children |-> <<>>]]
           B == [i \in DOMAIN head |-> [name |-> head[i].name, value |-> head[i].weight, children |-> kids[i]]]
           e == [name |-> Other, value |-> Combine(RowsOf(TailOf(ranked, limit - 1))).weight, children |-> <<>>]
           nodes == Level3(rows)
<1>1. nodes = IF Len(ranked) > limit THEN Append(A, e) ELSE A
  BY DEF Level3, Level
<1>2. LevelOf(ranked, limit, kids) = IF Len(ranked) > limit THEN Append(B, e) ELSE B
  BY DEF LevelOf
<1>3. Lists(ranked, rows, 3) /\ limit \in Nat /\ limit >= 1
  BY RankedLists
<1> HIDE DEF ranked, limit, nodes
<1>4. \A i \in DOMAIN head : i \in 1..Len(ranked) /\ head[i] = ranked[i]
  BY <1>3, LevelHead
<1>5. \A i \in 1..Len(ranked) : kids[i] = <<>>
  OBVIOUS
<1> HIDE DEF head, kids
<1>6. A = B
  BY <1>4, <1>5
<1> HIDE DEF A, B, e
<1>7. nodes = LevelOf(ranked, limit, kids)
  BY <1>1, <1>2, <1>6
<1>8. /\ IsNodes(nodes, Combine(rows).weight)
      /\ \A i \in 1..Len(nodes) :
              /\ nodes[i].name = Other => nodes[i].children = <<>>
              /\ nodes[i].name # Other => i \in 1..Len(ranked) /\ nodes[i].children = kids[i]
  BY <1>3, <1>7, LevelNodes
<1> QED BY <1>5, <1>8 DEF nodes

LEMMA Level2Nodes ==
  ASSUME NEW rows, Weighed(rows), Subjective(rows, 2), Subjective(rows, 3),
         TreeLimits[2] \in Nat, TreeLimits[2] >= 1, TreeLimits[3] \in Nat, TreeLimits[3] >= 1
  PROVE  LET nodes == Level2(rows) IN
         /\ IsNodes(nodes, Combine(rows).weight)
         /\ \A i \in 1..Len(nodes) :
              /\ nodes[i].name = Other => nodes[i].children = <<>>
              /\ nodes[i].name # Other => IsNodes(nodes[i].children, nodes[i].value)
              /\ \A j \in 1..Len(nodes[i].children) : nodes[i].children[j].children = <<>>
<1> DEFINE ranked == Ranked(rows, 2)
           limit == TreeLimits[2]
           head == IF Len(ranked) > limit THEN HeadOf(ranked, limit - 1) ELSE ranked
           kids == [i \in 1..Len(ranked) |-> Level3(ranked[i].rows)]
           A == [i \in DOMAIN head |-> [name |-> head[i].name, value |-> head[i].weight, children |-> Level3(head[i].rows)]]
           B == [i \in DOMAIN head |-> [name |-> head[i].name, value |-> head[i].weight, children |-> kids[i]]]
           e == [name |-> Other, value |-> Combine(RowsOf(TailOf(ranked, limit - 1))).weight, children |-> <<>>]
           nodes == Level2(rows)
<1>1. nodes = IF Len(ranked) > limit THEN Append(A, e) ELSE A
  BY DEF Level2, Level
<1>2. LevelOf(ranked, limit, kids) = IF Len(ranked) > limit THEN Append(B, e) ELSE B
  BY DEF LevelOf
<1>3. Lists(ranked, rows, 2) /\ limit \in Nat /\ limit >= 1
  BY RankedLists
<1> HIDE DEF ranked, limit, nodes
<1>4. \A i \in DOMAIN head : i \in 1..Len(ranked) /\ head[i] = ranked[i]
  BY <1>3, LevelHead
<1>5. \A i \in 1..Len(ranked) : kids[i] = Level3(ranked[i].rows)
  OBVIOUS
<1> HIDE DEF head, kids
<1>6. A = B
  BY <1>4, <1>5
<1> HIDE DEF A, B, e
<1>7. nodes = LevelOf(ranked, limit, kids)
  BY <1>1, <1>2, <1>6
<1>8. /\ IsNodes(nodes, Combine(rows).weight)
      /\ \A i \in 1..Len(nodes) :
              /\ nodes[i].name = Other => nodes[i].children = <<>>
              /\ nodes[i].name # Other =>
                   /\ i \in 1..Len(ranked) /\ nodes[i].children = kids[i]
                   /\ nodes[i].value = Combine(ranked[i].rows).weight
  BY <1>3, <1>7, LevelNodes
<1>9. ASSUME NEW i \in 1..Len(nodes), nodes[i].name # Other
      PROVE  /\ IsNodes(nodes[i].children, nodes[i].value)
             /\ \A j \in 1..Len(nodes[i].children) : nodes[i].children[j].children = <<>>
  <2> DEFINE g == ranked[i].rows
  <2>1. i \in 1..Len(ranked) /\ nodes[i].children = Level3(g) /\ nodes[i].value = Combine(g).weight
    BY <1>5, <1>8, <1>9
  <2>2. g \in SUBSET rows
    BY <1>3, <2>1, ListRows
  <2> HIDE DEF g
  <2>3. Weighed(g) /\ Subjective(g, 3)
    BY <2>2, WeighedPart DEF Subjective
  <2> QED BY <2>1, <2>3, Level3Nodes
<1>10. Len(<<>>) = 0
  OBVIOUS
<1>11. \A i \in 1..Len(nodes) : nodes[i].name = Other => \A j \in 1..Len(nodes[i].children) : FALSE
  BY <1>8, <1>10
<1> QED BY <1>8, <1>9, <1>11 DEF nodes

\* Every node of three levels weighs what the nodes below it do, if there are any.
Tree(nodes, w) ==
  /\ IsNodes(nodes, w)
  /\ \A i \in 1..Len(nodes) :
       LET kids == nodes[i].children IN
       /\ nodes[i].name = Other => kids = <<>>
       /\ nodes[i].name # Other => IsNodes(kids, nodes[i].value)
       /\ \A j \in 1..Len(kids) :
            LET grandkids == kids[j].children IN
            /\ kids[j].name = Other => grandkids = <<>>
            /\ kids[j].name # Other => IsNodes(grandkids, kids[j].value)
            /\ \A k \in 1..Len(grandkids) : grandkids[k].children = <<>>

LEMMA HierarchyTree ==
  ASSUME NEW rows, Weighed(rows), \A d \in Dims : Subjective(rows, d) /\ TreeLimits[d] \in Nat /\ TreeLimits[d] >= 1
  PROVE  /\ Tree(Hierarchy(rows), Combine(rows).weight)
         /\ Len(Hierarchy(rows)) = 0 <=> Len(Ranked(rows, 1)) = 0
<1> DEFINE ranked == Ranked(rows, 1)
           limit == TreeLimits[1]
           head == IF Len(ranked) > limit THEN HeadOf(ranked, limit - 1) ELSE ranked
           kids == [i \in 1..Len(ranked) |-> Level2(ranked[i].rows)]
           A == [i \in DOMAIN head |-> [name |-> head[i].name, value |-> head[i].weight, children |-> Level2(head[i].rows)]]
           B == [i \in DOMAIN head |-> [name |-> head[i].name, value |-> head[i].weight, children |-> kids[i]]]
           e == [name |-> Other, value |-> Combine(RowsOf(TailOf(ranked, limit - 1))).weight, children |-> <<>>]
           nodes == Hierarchy(rows)
<1>0. /\ Subjective(rows, 1) /\ TreeLimits[1] \in Nat /\ TreeLimits[1] >= 1
      /\ Subjective(rows, 2) /\ TreeLimits[2] \in Nat /\ TreeLimits[2] >= 1
      /\ Subjective(rows, 3) /\ TreeLimits[3] \in Nat /\ TreeLimits[3] >= 1
  <2>1. 1 \in Dims /\ 2 \in Dims /\ 3 \in Dims
    BY DEF Dims
  <2> QED BY <2>1
<1>1. nodes = IF Len(ranked) > limit THEN Append(A, e) ELSE A
  BY DEF Hierarchy, Level2, Level3, Level
<1>2. LevelOf(ranked, limit, kids) = IF Len(ranked) > limit THEN Append(B, e) ELSE B
  BY DEF LevelOf
<1>3. Lists(ranked, rows, 1) /\ limit \in Nat /\ limit >= 1
  BY <1>0, RankedLists
<1> HIDE DEF ranked, limit, nodes
<1>4. \A i \in DOMAIN head : i \in 1..Len(ranked) /\ head[i] = ranked[i]
  BY <1>3, LevelHead
<1>5. \A i \in 1..Len(ranked) : kids[i] = Level2(ranked[i].rows)
  OBVIOUS
<1> HIDE DEF head, kids
<1>6. A = B
  BY <1>4, <1>5
<1> HIDE DEF A, B, e
<1>7. nodes = LevelOf(ranked, limit, kids)
  BY <1>1, <1>2, <1>6
<1>8. /\ IsNodes(nodes, Combine(rows).weight)
      /\ Len(nodes) = 0 <=> Len(ranked) = 0
      /\ \A i \in 1..Len(nodes) :
              /\ nodes[i].name = Other => nodes[i].children = <<>>
              /\ nodes[i].name # Other =>
                   /\ i \in 1..Len(ranked) /\ nodes[i].children = kids[i]
                   /\ nodes[i].value = Combine(ranked[i].rows).weight
  BY <1>0, <1>3, <1>7, LevelNodes
<1>9. ASSUME NEW i \in 1..Len(nodes), nodes[i].name # Other
      PROVE  LET below == nodes[i].children IN
             /\ IsNodes(below, nodes[i].value)
             /\ \A j \in 1..Len(below) :
                  /\ below[j].name = Other => below[j].children = <<>>
                  /\ below[j].name # Other => IsNodes(below[j].children, below[j].value)
                  /\ \A k \in 1..Len(below[j].children) : below[j].children[k].children = <<>>
  <2> DEFINE g == ranked[i].rows
  <2>1. i \in 1..Len(ranked) /\ nodes[i].children = Level2(g) /\ nodes[i].value = Combine(g).weight
    BY <1>5, <1>8, <1>9
  <2>2. g \in SUBSET rows
    BY <1>3, <2>1, ListRows
  <2> HIDE DEF g
  <2>3. Weighed(g) /\ Subjective(g, 2) /\ Subjective(g, 3)
    BY <1>0, <2>2, WeighedPart DEF Subjective
  <2> DEFINE below == Level2(g)
  <2>4. /\ IsNodes(below, Combine(g).weight)
        /\ \A j \in 1..Len(below) :
              /\ below[j].name = Other => below[j].children = <<>>
              /\ below[j].name # Other => IsNodes(below[j].children, below[j].value)
              /\ \A k \in 1..Len(below[j].children) : below[j].children[k].children = <<>>
    BY <1>0, <2>3, Level2Nodes
  <2>5. nodes[i].children = below
    BY <2>1
  <2> HIDE DEF below
  <2> QED BY ONLY <2>1, <2>4, <2>5
<1>10. Len(<<>>) = 0
  OBVIOUS
<1>11. \A i \in 1..Len(nodes) : nodes[i].name = Other => \A j \in 1..Len(nodes[i].children) : FALSE
  BY <1>8, <1>10
<1>12. Tree(nodes, Combine(rows).weight)
  BY <1>8, <1>9, <1>11 DEF Tree
<1> QED BY <1>8, <1>12 DEF nodes, ranked

-----------------------------------------------------------------------------
(* Charts of categories.                                                   *)

\* a list of parts, of which some weigh something
Parts(s) == s \in Seq(ToSet(s)) /\ \A i \in 1..Len(s) : s[i].sum \in Nat /\ s[i].weight \in Nat

LEMMA SumFields ==
  ASSUME NEW s, NEW K, DOMAIN s = K, IsFiniteSet(K), \A k \in K : s[k].sum \in Int /\ s[k].weight \in Int
  PROVE  /\ \A f : (\A k \in K : f[k] = s[k].sum) => Sum(s).sum = SumFunctionOnSet(f, K)
         /\ \A g : (\A k \in K : g[k] = s[k].weight) => Sum(s).weight = SumFunctionOnSet(g, K)
         /\ Sum(s) = [sum |-> Sum(s).sum, weight |-> Sum(s).weight]
<1> DEFINE F == [k \in K |-> s[k].sum]
           G == [k \in K |-> s[k].weight]
<1>1. DOMAIN F = K /\ DOMAIN G = K /\ \A k \in K : F[k] = s[k].sum /\ G[k] = s[k].weight
  OBVIOUS
<1>2. Sum(s) = [sum |-> SumFunction(F), weight |-> SumFunction(G)]
  BY DEF Sum
<1> HIDE DEF F, G
<1>3. SumFunction(F) = SumFunctionOnSet(F, K) /\ SumFunction(G) = SumFunctionOnSet(G, K)
  BY <1>1, SumFunctionIs
<1>4. ASSUME NEW f, \A k \in K : f[k] = s[k].sum PROVE SumFunctionOnSet(F, K) = SumFunctionOnSet(f, K)
  BY <1>1, <1>4, SumSame
<1>5. ASSUME NEW g, \A k \in K : g[k] = s[k].weight PROVE SumFunctionOnSet(G, K) = SumFunctionOnSet(g, K)
  BY <1>1, <1>5, SumSame
<1>6. Sum(s).sum = SumFunctionOnSet(F, K) /\ Sum(s).weight = SumFunctionOnSet(G, K)
      /\ Sum(s) = [sum |-> Sum(s).sum, weight |-> Sum(s).weight]
  BY <1>2, <1>3
<1> QED BY <1>4, <1>5, <1>6

\* the head, and the tail counted from 1
LEMMA TailAdds ==
  ASSUME NEW l \in Nat, NEW n \in 0..l, NEW f, \A i \in 1..l : f[i] \in Int,
         NEW h, \A i \in 1..(l-n) : h[i] = f[n+i]
  PROVE  SumFunctionOnSet(f, 1..l) = SumFunctionOnSet(f, 1..n) + SumFunctionOnSet(h, 1..(l-n))
<1>1. SumFunctionOnSet(f, 1..l) = SumFunctionOnSet(f, 1..n) + SumFunctionOnSet(f, (n+1)..l)
  BY SumCut
<1>2. SumFunctionOnSet(f, (n+1)..l) = SumFunctionOnSet(h, 1..(l-n))
  BY SumShift
<1> QED BY <1>1, <1>2

LEMMA SumPartsOf ==
  ASSUME NEW s, Parts(s)
  PROVE  /\ Sum(s).sum = SumFunctionOnSet([i \in 1..Len(s) |-> s[i].sum], 1..Len(s))
         /\ Sum(s).weight = SumFunctionOnSet([i \in 1..Len(s) |-> s[i].weight], 1..Len(s))
         /\ Sum(s) = [sum |-> Sum(s).sum, weight |-> Sum(s).weight]
         /\ Sum(s).sum \in Nat /\ Sum(s).weight \in Nat
         /\ Len(s) \in Nat /\ DOMAIN s = 1..Len(s) /\ IsFiniteSet(1..Len(s))
<1> DEFINE l == Len(s)
           F == [i \in 1..l |-> s[i].sum]
           G == [i \in 1..l |-> s[i].weight]
<1>1. l \in Nat /\ DOMAIN s = 1..l
  BY LenProperties DEF Parts
<1>2. \A i \in 1..l : F[i] = s[i].sum /\ G[i] = s[i].weight /\ s[i].sum \in Nat /\ s[i].weight \in Nat
  BY DEF Parts
<1>3. IsFiniteSet(1..l)
  BY <1>1, UpTo
<1> HIDE DEF F, G, l
<1>4. /\ Sum(s).sum = SumFunctionOnSet(F, 1..l) /\ Sum(s).weight = SumFunctionOnSet(G, 1..l)
      /\ Sum(s) = [sum |-> Sum(s).sum, weight |-> Sum(s).weight]
  BY <1>1, <1>2, <1>3, SumFields
<1>5. SumFunctionOnSet(F, 1..l) \in Nat /\ SumFunctionOnSet(G, 1..l) \in Nat
  BY <1>2, <1>3, SumNat
<1> QED BY <1>1, <1>3, <1>4, <1>5 DEF F, G, l

LEMMA TopAdds ==
  ASSUME NEW list, Parts(list), NEW n \in Nat
  PROVE  Sum(TopCategories(list, n)) = Sum(list)
<1> DEFINE l == Len(list)
           head == [i \in DOMAIN HeadOf(list, n) |-> Part(list[i])]
           tail == TailOf(list, n)
           F == [i \in 1..l |-> list[i].sum]
           G == [i \in 1..l |-> list[i].weight]
           s == TopCategories(list, n)
<1>1. /\ Sum(list).sum = SumFunctionOnSet(F, 1..l) /\ Sum(list).weight = SumFunctionOnSet(G, 1..l)
      /\ Sum(list) = [sum |-> Sum(list).sum, weight |-> Sum(list).weight]
      /\ l \in Nat /\ DOMAIN list = 1..l /\ IsFiniteSet(1..l)
  BY SumPartsOf
<1>0. l \in Nat
  BY <1>1
<1>2. /\ \A i \in 1..l : F[i] = list[i].sum /\ G[i] = list[i].weight /\ list[i].sum \in Nat /\ list[i].weight \in Nat
      /\ list \in Seq(ToSet(list))
  BY DEF Parts
<1>3. s = IF l > n THEN Append(head, Merged(tail)) ELSE head
  BY DEF TopCategories
<1>4. \A g : Part(g) = [name |-> g.name, sum |-> g.sum, weight |-> g.weight]
  BY DEF Part
<1> HIDE DEF s, F, G
<1>5. CASE l <= n
  <2>1. DOMAIN HeadOf(list, n) = 1..l
    <3>1. (IF l < n THEN l ELSE n) = l
      BY <1>0, <1>5
    <3> QED BY <1>2, <3>1, HeadOfIs
  <2>2. s = head
    BY <1>0, <1>3, <1>5
  <2>3. DOMAIN s = 1..l /\ \A i \in 1..l : s[i].sum = list[i].sum /\ s[i].weight = list[i].weight
    BY <1>4, <2>1, <2>2
  <2> HIDE DEF l, head
  <2>4. \A i \in 1..l : F[i] = s[i].sum /\ G[i] = s[i].weight /\ s[i].sum \in Int /\ s[i].weight \in Int
    BY <1>2, <2>3
  <2>5. /\ Sum(s).sum = SumFunctionOnSet(F, 1..l) /\ Sum(s).weight = SumFunctionOnSet(G, 1..l)
      /\ Sum(s) = [sum |-> Sum(s).sum, weight |-> Sum(s).weight]
    BY <1>1, <2>3, <2>4, SumFields
  <2> QED BY <1>1, <2>5 DEF s
<1>6. CASE l > n
  <2> DEFINE m == n + 1
             k == l - n
  <2>0. m = n + 1 /\ k = l - n /\ m \in Nat /\ k \in Nat
    BY <1>0, <1>6
  <2> DEFINE e == Merged(tail)
             X == {head[i] : i \in 1..n} \cup {e}
             FS == [i \in 1..k |-> tail[i].sum]
             GS == [i \in 1..k |-> tail[i].weight]
  <2>1. DOMAIN HeadOf(list, n) = 1..n /\ n \in 0..l
    <3>1. (IF l < n THEN l ELSE n) = n /\ n \in 0..l
      BY <1>0, <1>6
    <3> QED BY <1>2, <3>1, HeadOfIs
  <2>2. /\ tail \in Seq(ToSet(list)) /\ Len(tail) = k /\ DOMAIN tail = 1..k
        /\ \A i \in 1..k : tail[i] = list[n + i]
    BY <1>2, <2>1, TailOfIs
  <2>3. e = [name |-> Other, sum |-> Sum(tail).sum, weight |-> Sum(tail).weight]
    BY DEF Merged
  <2>4. DOMAIN head = 1..n /\ \A i \in 1..n : head[i].sum = list[i].sum /\ head[i].weight = list[i].weight
    BY <1>4, <2>1
  <2>5. s = Append(head, e)
    BY <1>3, <1>6
  <2>6. head \in [1..n -> X] /\ e \in X
    BY <2>1, <2>4
  <2>7. \A i \in 1..k : FS[i] = tail[i].sum /\ GS[i] = tail[i].weight
    OBVIOUS
  <2> HIDE DEF head, tail, e, X, l, FS, GS, m, k
  <2>8. head \in Seq(X) /\ Len(head) = n
    BY <2>6, SeqDef
  <2>9. Len(s) = m /\ DOMAIN s = 1..m /\ s[m] = e /\ \A i \in 1..n : s[i] = head[i]
    BY <2>0, <2>5, <2>6, <2>8, AppendProperties
  <2>10. \A i \in 1..k : n + i \in 1..l
    BY <1>0, <2>0, <2>1
  <2>11. \A i \in 1..k : FS[i] = F[n+i] /\ GS[i] = G[n+i] /\ FS[i] \in Nat /\ GS[i] \in Nat
    BY <1>2, <2>2, <2>7, <2>10, SMTT(60)
  <2>13. IsFiniteSet(1..k)
    BY <2>0, UpTo
  <2>14. /\ Sum(tail).sum = SumFunctionOnSet(FS, 1..k) /\ Sum(tail).weight = SumFunctionOnSet(GS, 1..k)
      /\ Sum(tail) = [sum |-> Sum(tail).sum, weight |-> Sum(tail).weight]
    <3>1. DOMAIN tail = 1..k /\ \A i \in 1..k : tail[i].sum \in Int /\ tail[i].weight \in Int
      BY <2>2, <2>7, <2>11
    <3> QED BY <2>7, <2>13, <3>1, SumFields, ZenonT(60)
  <2>15. e.sum = SumFunctionOnSet(FS, 1..k) /\ e.weight = SumFunctionOnSet(GS, 1..k)
    BY <2>3, <2>14
  <2> DEFINE A == [i \in 1..m |-> s[i].sum]
             B == [i \in 1..m |-> s[i].weight]
  <2>16. /\ \A i \in 1..m : A[i] = s[i].sum /\ B[i] = s[i].weight
         /\ m \in 1..m /\ \A i \in 1..n : i \in 1..m /\ i \in 1..l
    BY <1>0, <2>0, <2>1
  <2> HIDE DEF A, B
  <2>17. /\ \A i \in 1..n : A[i] = F[i] /\ B[i] = G[i]
         /\ A[m] = SumFunctionOnSet(FS, 1..k) /\ B[m] = SumFunctionOnSet(GS, 1..k)
    BY <1>2, <2>4, <2>9, <2>15, <2>16, SMTT(60)
  <2>18. \A i \in 1..l : F[i] \in Int /\ G[i] \in Int
    BY <1>2
  <2>19. SumFunctionOnSet(F, 1..l) = SumFunctionOnSet(F, 1..n) + SumFunctionOnSet(FS, 1..k)
    <3>1. l \in Nat /\ n \in 0..l /\ (\A i \in 1..l : F[i] \in Int) /\ \A i \in 1..(l-n) : FS[i] = F[n+i]
      BY <1>0, <2>1, <2>11, <2>18 DEF k
    <3>2. SumFunctionOnSet(F, 1..l) = SumFunctionOnSet(F, 1..n) + SumFunctionOnSet(FS, 1..(l-n))
      BY ONLY <3>1, TailAdds
    <3> QED BY <3>2 DEF k
  <2>20. SumFunctionOnSet(G, 1..l) = SumFunctionOnSet(G, 1..n) + SumFunctionOnSet(GS, 1..k)
    <3>1. l \in Nat /\ n \in 0..l /\ (\A i \in 1..l : G[i] \in Int) /\ \A i \in 1..(l-n) : GS[i] = G[n+i]
      BY <1>0, <2>1, <2>11, <2>18 DEF k
    <3>2. SumFunctionOnSet(G, 1..l) = SumFunctionOnSet(G, 1..n) + SumFunctionOnSet(GS, 1..(l-n))
      BY ONLY <3>1, TailAdds
    <3> QED BY <3>2 DEF k
  <2>21. \A i \in 1..m : s[i].sum \in Int /\ s[i].weight \in Int
    <3>1. SumFunctionOnSet(FS, 1..k) \in Nat /\ SumFunctionOnSet(GS, 1..k) \in Nat
      BY <2>11, <2>13, SumNat
    <3>2. \A i \in 1..m : i \in 1..n \/ i = m
      BY <2>0
    <3>3. \A i \in 1..m : A[i] \in Int /\ B[i] \in Int
      BY <2>16, <2>17, <2>18, <3>1, <3>2
    <3> QED BY <2>16, <3>3
  <2>24. /\ SumFunctionOnSet(A, 1..m) = SumFunctionOnSet(A, 1..n) + A[m]
         /\ SumFunctionOnSet(B, 1..m) = SumFunctionOnSet(B, 1..n) + B[m]
    <3>1. n \in Nat /\ (\A i \in 1..(n+1) : A[i] \in Int) /\ \A i \in 1..(n+1) : B[i] \in Int
      BY <2>0, <2>16, <2>21
    <3>2. /\ SumFunctionOnSet(A, 1..(n+1)) = SumFunctionOnSet(A, 1..n) + A[n+1]
          /\ SumFunctionOnSet(B, 1..(n+1)) = SumFunctionOnSet(B, 1..n) + B[n+1]
      BY ONLY <3>1, SumNext
    <3> QED BY ONLY <2>0, <3>2
  <2>25. /\ SumFunctionOnSet(A, 1..n) = SumFunctionOnSet(F, 1..n)
         /\ SumFunctionOnSet(B, 1..n) = SumFunctionOnSet(G, 1..n)
    <3>1. IsFiniteSet(1..n)
      BY UpTo
    <3>2. \A i \in 1..n : A[i] = F[i] /\ B[i] = G[i] /\ A[i] \in Int /\ B[i] \in Int
      BY <2>16, <2>17, <2>18
    <3> QED BY ONLY <3>1, <3>2, SumSame
  <2>22. IsFiniteSet(1..m)
    BY <2>0, UpTo
  <2>23. /\ Sum(s).sum = SumFunctionOnSet(A, 1..m) /\ Sum(s).weight = SumFunctionOnSet(B, 1..m)
      /\ Sum(s) = [sum |-> Sum(s).sum, weight |-> Sum(s).weight]
    <3>1. DOMAIN s = 1..m /\ (\A i \in 1..m : A[i] = s[i].sum) /\ (\A i \in 1..m : B[i] = s[i].weight)
      BY <2>9, <2>16
    <3> QED BY <2>21, <2>22, <3>1, SumFields, ZenonT(60)
  <2> QED BY <1>1, <2>17, <2>19, <2>20, <2>23, <2>24, <2>25 DEF s, l
<1>7. l <= n \/ l > n
  BY <1>0
<1> QED BY <1>5, <1>6, <1>7, Zenon

\* sorted by weight, the list is the same
LEMMA ByWeightIs ==
  ASSUME NEW list, Parts(list)
  PROVE  Parts(ByWeight(list)) /\ Sum(ByWeight(list)) = Sum(list) /\ Len(ByWeight(list)) = Len(list)
<1> DEFINE l == Len(list)
           D == DOMAIN list
           Before(i, j) == \/ list[i].weight > list[j].weight
                           \/ list[i].weight = list[j].weight /\ i < j
           R == {p \in D \X D : Before(p[1], p[2])}
           n == Cardinality(D)
           Good(t) == \A i, j \in 1..n : i < j => t[i] # t[j] /\ ~Before(t[j], t[i])
           order == CHOOSE t \in [1..n -> D] : Good(t)
           s == ByWeight(list)
<1>1. s = [k \in D |-> list[order[k]]]
  BY DEF ByWeight, ListedBy
<1>2. /\ Sum(list).sum = SumFunctionOnSet([i \in 1..l |-> list[i].sum], 1..l)
      /\ Sum(list).weight = SumFunctionOnSet([i \in 1..l |-> list[i].weight], 1..l)
      /\ Sum(list) = [sum |-> Sum(list).sum, weight |-> Sum(list).weight]
      /\ l \in Nat /\ D = 1..l /\ IsFiniteSet(1..l)
  BY SumPartsOf
<1>3. n = l
  BY <1>2, UpTo
<1>4. \A i \in 1..l : list[i].sum \in Nat /\ list[i].weight \in Nat
  BY DEF Parts
<1>5. \A p : p \in R <=> p \in D \X D /\ Before(p[1], p[2])
  OBVIOUS
<1>5a. \A x, y : Before(x, y) <=> \/ list[x].weight > list[y].weight
                                  \/ list[x].weight = list[y].weight /\ x < y
  OBVIOUS
<1> HIDE DEF R, Before
<1>6. \A x, y \in D : <<x, y>> \in R <=> Before(x, y)
  BY <1>5
<1>7. \A x \in D : <<x, x>> \notin R
  BY <1>2, <1>4, <1>5a, <1>6
<1>8. \A x, y, z \in D : <<x, y>> \in R /\ <<y, z>> \in R => <<x, z>> \in R
  <2> SUFFICES ASSUME NEW x \in D, NEW y \in D, NEW z \in D, Before(x, y), Before(y, z) PROVE Before(x, z)
    BY <1>6
  <2>1. x \in Int /\ y \in Int /\ z \in Int /\ list[x].weight \in Nat /\ list[y].weight \in Nat /\ list[z].weight \in Nat
    BY <1>2, <1>4
  <2> QED BY <1>5a, <2>1
<1>9. IsFiniteSet(D)
  BY <1>2
<1>10. \E t \in [1..n -> D] : \A i, j \in 1..n : i < j => t[i] # t[j] /\ <<t[j], t[i]>> \notin R
  <2> HIDE DEF D
  <2> QED BY <1>7, <1>8, <1>9, ListExists
<1>11. \E t \in [1..n -> D] : Good(t)
  BY <1>6, <1>10
<1>12. order \in [1..n -> D] /\ Good(order)
  BY <1>11
<1>13. order \in [1..n -> D] /\ \A i, j \in 1..n : i < j => order[i] # order[j]
  BY <1>12
<1> HIDE DEF order, n, Good
<1> DEFINE F == [i \in 1..l |-> list[i].sum]
           G == [i \in 1..l |-> list[i].weight]
           A == [i \in 1..l |-> s[i].sum]
           B == [i \in 1..l |-> s[i].weight]
<1>14. /\ \A i \in 1..l : F[i] = list[i].sum /\ G[i] = list[i].weight /\ A[i] = s[i].sum /\ B[i] = s[i].weight
       /\ DOMAIN s = 1..l /\ \A i \in 1..l : order[i] \in 1..l /\ s[i] = list[order[i]]
  BY <1>1, <1>2, <1>3, <1>13
<1>15. /\ Sum(list).sum = SumFunctionOnSet(F, 1..l) /\ Sum(list).weight = SumFunctionOnSet(G, 1..l)
       /\ Sum(list) = [sum |-> Sum(list).sum, weight |-> Sum(list).weight]
  BY <1>2
<1>16. s \in Seq(ToSet(s)) /\ Len(s) = l
  <2>1. s \in [1..l -> ToSet(s)]
    <3>1. s = [i \in 1..l |-> list[order[i]]]
      BY <1>1, <1>2
    <3> QED BY <1>14, <3>1 DEF ToSet
  <2>2. l \in Nat
    BY <1>2
  <2> HIDE DEF l, s
  <2>3. s \in Seq(ToSet(s))
    BY <2>1, <2>2, SeqDef
  <2>4. Len(s) = l
    BY <1>14, <2>2, <2>3, LenProperties
  <2> QED BY <2>3, <2>4
<1> HIDE DEF F, G, A, B, s, l
<1>17. \A i \in 1..l : s[i].sum \in Nat /\ s[i].weight \in Nat
  BY <1>4, <1>14
<1>18. Parts(s)
  BY <1>16, <1>17 DEF Parts
<1>19. /\ Sum(s).sum = SumFunctionOnSet(A, 1..l) /\ Sum(s).weight = SumFunctionOnSet(B, 1..l)
      /\ Sum(s) = [sum |-> Sum(s).sum, weight |-> Sum(s).weight]
  <2>1. \A i \in 1..l : s[i].sum \in Int /\ s[i].weight \in Int
    BY <1>17
  <2>2. DOMAIN s = 1..l /\ IsFiniteSet(1..l) /\ (\A i \in 1..l : A[i] = s[i].sum) /\ (\A i \in 1..l : B[i] = s[i].weight)
    BY <1>2, <1>14
  <2> QED BY <2>1, <2>2, SumFields, ZenonT(60)
<1>20. SumFunctionOnSet(A, 1..n) = SumFunctionOnSet(F, D) /\ SumFunctionOnSet(B, 1..n) = SumFunctionOnSet(G, D)
  <2>1. \A i \in 1..n : A[i] = F[order[i]] /\ B[i] = G[order[i]]
    BY <1>3, <1>14
  <2>2. \A x \in D : F[x] \in Int /\ G[x] \in Int
    BY <1>2, <1>4, <1>14
  <2> HIDE DEF D
  <2>3. /\ \A i \in 1..n : A[i] = F[order[i]]
        /\ \A i \in 1..n : B[i] = G[order[i]]
        /\ \A x \in D : F[x] \in Int
        /\ \A x \in D : G[x] \in Int
    BY <2>1, <2>2
  <2>6. /\ \A y \in D : \E x \in 1..n : order[x] = y
        /\ \A x, y \in 1..n : order[x] = order[y] => x = y
    BY ONLY <1>9, <1>13, ListedOnto DEF n
  <2> DEFINE E == 1..n
  <2>7. IsFiniteSet(E) /\ IsFiniteSet(D) /\ order \in [E -> D]
    BY <1>2, <1>3, <1>9, <1>13
  <2>8. (\A y \in D : \E x \in E : order[x] = y) /\ (\A x, y \in E : order[x] = order[y] => x = y)
    BY <2>6
  <2>9. /\ (\A y \in D : F[y] \in Int) /\ (\A x \in E : A[x] = F[order[x]])
        /\ (\A y \in D : G[y] \in Int) /\ (\A x \in E : B[x] = G[order[x]])
    BY <2>3
  <2> HIDE DEF n, E
  <2>10. SumFunctionOnSet(A, E) = SumFunctionOnSet(F, D) /\ SumFunctionOnSet(B, E) = SumFunctionOnSet(G, D)
    BY ONLY <2>7, <2>8, <2>9, SumMove
  <2> QED BY <2>10 DEF E
<1>21. SumFunctionOnSet(A, 1..l) = SumFunctionOnSet(F, 1..l) /\ SumFunctionOnSet(B, 1..l) = SumFunctionOnSet(G, 1..l)
  BY <1>2, <1>3, <1>20
<1> QED BY <1>15, <1>16, <1>18, <1>19, <1>21 DEF s, l

-----------------------------------------------------------------------------
(* Charts of a matrix.                                                     *)

\* what is nothing need not be shown
LEMMA SumShown ==
  ASSUME NEW s, NEW K, IsFiniteSet(K), DOMAIN s = K, \A k \in K : s[k].sum \in Int /\ s[k].weight \in Int,
         NEW T \in SUBSET K, \A k \in K \ T : s[k].sum = 0 /\ s[k].weight = 0,
         NEW t, DOMAIN t = T, \A k \in T : t[k] = s[k]
  PROVE  Sum(t) = Sum(s)
<1> DEFINE F == [k \in K |-> s[k].sum]
           G == [k \in K |-> s[k].weight]
<1>1. /\ \A k \in K : F[k] = s[k].sum
      /\ \A k \in K : G[k] = s[k].weight
      /\ \A k \in K : F[k] \in Int
      /\ \A k \in K : G[k] \in Int
      /\ \A k \in K \ T : F[k] = 0
      /\ \A k \in K \ T : G[k] = 0
  OBVIOUS
<1>2. /\ \A k \in T : F[k] = t[k].sum
      /\ \A k \in T : G[k] = t[k].weight
      /\ \A k \in T : t[k].sum \in Int /\ t[k].weight \in Int
      /\ IsFiniteSet(T)
  BY FS_Subset
<1> HIDE DEF F, G
<1>3. /\ Sum(s).sum = SumFunctionOnSet(F, K) /\ Sum(s).weight = SumFunctionOnSet(G, K)
      /\ Sum(s) = [sum |-> Sum(s).sum, weight |-> Sum(s).weight]
  BY <1>1, SumFields
<1>4. /\ Sum(t).sum = SumFunctionOnSet(F, T) /\ Sum(t).weight = SumFunctionOnSet(G, T)
      /\ Sum(t) = [sum |-> Sum(t).sum, weight |-> Sum(t).weight]
  BY <1>2, SumFields
<1>5. SumFunctionOnSet(F, K) = SumFunctionOnSet(F, T) /\ SumFunctionOnSet(G, K) = SumFunctionOnSet(G, T)
  BY <1>1, SumSupport
<1> QED BY <1>3, <1>4, <1>5

\* the cells of a matrix, and its rows
AreCells(m, a, b, ri, cj) ==
  /\ DOMAIN m.rows = 1..a /\ DOMAIN m.cols = 1..b /\ DOMAIN m.cells = 1..a
  /\ IsFiniteSet(1..a) /\ IsFiniteSet(1..b)
  /\ \A i \in 1..a : /\ DOMAIN m.cells[i] = 1..b
                     /\ Sum(m.cells[i]) = Combine(ri[i])
                     /\ \A j \in 1..b : /\ m.cells[i][j] = Combine(ri[i] \cap cj[j])
                                        /\ m.cells[i][j].sum \in Nat /\ m.cells[i][j].weight \in Nat
                                        /\ m.cells[i][j].weight = 0 => m.cells[i][j].sum = 0

LEMMA CellsOf ==
  ASSUME NEW rows, Weighed(rows), NEW m, NEW a \in Nat, NEW b \in Nat, NEW ri, NEW cj, IsMatrix(m, rows, a, b, ri, cj)
  PROVE  AreCells(m, a, b, ri, cj)
<1>1. /\ DOMAIN m.rows = 1..a /\ DOMAIN m.cols = 1..b /\ DOMAIN m.cells = 1..a
      /\ \A i \in 1..a : m.cells[i] = [j \in 1..b |-> Combine(ri[i] \cap cj[j])]
      /\ Divides(ri, 1..a, rows) /\ Divides(cj, 1..b, rows)
  BY DEF IsMatrix
<1>2. IsFiniteSet(1..a) /\ IsFiniteSet(1..b)
  BY UpTo
<1>3. ASSUME NEW i \in 1..a
      PROVE  /\ DOMAIN m.cells[i] = 1..b
             /\ Sum(m.cells[i]) = Combine(ri[i])
             /\ \A j \in 1..b : /\ m.cells[i][j] = Combine(ri[i] \cap cj[j])
                                /\ m.cells[i][j].sum \in Nat /\ m.cells[i][j].weight \in Nat
                                /\ m.cells[i][j].weight = 0 => m.cells[i][j].sum = 0
  <2> DEFINE s == m.cells[i]
             T == ri[i]
  <2>1. T \in SUBSET rows
    BY <1>1 DEF Divides
  <2>2. DOMAIN s = 1..b /\ \A j \in 1..b : s[j] = Combine(cj[j] \cap T)
    <3>1. s = [j \in 1..b |-> Combine(T \cap cj[j])]
      BY <1>1
    <3>2. \A j \in 1..b : Combine(T \cap cj[j]) = Combine(cj[j] \cap T)
      <4>1. \A j \in 1..b : T \cap cj[j] = cj[j] \cap T
        OBVIOUS
      <4> QED BY <4>1
    <3> HIDE DEF s, T
    <3> QED BY <3>1, <3>2
  <2>3. Divides(cj, 1..b, rows)
    BY <1>1
  <2>4. \A j \in 1..b : s[j] = Combine(T \cap cj[j])
    BY <1>1
  <2>5. \A j \in 1..b : (T \cap cj[j]) \in SUBSET rows
    BY <2>1
  <2> HIDE DEF s, T
  <2>6. Sum(s) = Combine(T)
    BY ONLY Weighed(rows), <2>1, <2>2, <2>3, CrossSum
  <2>7. ASSUME NEW j \in 1..b
        PROVE  s[j].sum \in Nat /\ s[j].weight \in Nat /\ (s[j].weight = 0 => s[j].sum = 0)
    <3> DEFINE U == T \cap cj[j]
    <3>1. s[j] = Combine(U) /\ U \in SUBSET rows
      BY <2>4, <2>5
    <3> HIDE DEF U
    <3>2. Weighed(U)
      BY <3>1, WeighedPart
    <3> QED BY <3>1, <3>2, CombineOf
  <2> QED BY <2>2, <2>4, <2>6, <2>7 DEF s, T
<1> QED BY <1>1, <1>2, <1>3 DEF AreCells

IsColumn(s, m, a, j) == DOMAIN s = 1..a /\ \A i \in 1..a : s[i] = m.cells[i][j]

LEMMA ColumnsOf ==
  ASSUME NEW rows, Weighed(rows), NEW m, NEW a \in Nat, NEW b \in Nat, NEW ri, NEW cj, IsMatrix(m, rows, a, b, ri, cj),
         NEW j \in 1..b, NEW s, IsColumn(s, m, a, j)
  PROVE  Sum(s) = Combine(cj[j])
<1>1. Divides(ri, 1..a, rows) /\ Divides(cj, 1..b, rows)
  BY DEF IsMatrix
<1>0. DOMAIN s = 1..a /\ \A i \in 1..a : s[i] = m.cells[i][j]
  BY DEF IsColumn
<1> DEFINE T == cj[j]
<1>2. T \in SUBSET rows
  BY <1>1 DEF Divides
<1>3. \A i \in 1..a : s[i] = Combine(ri[i] \cap T)
  <2>1. \A i \in 1..a : \A k \in 1..b : m.cells[i][k] = Combine(ri[i] \cap cj[k])
    <3>1. AreCells(m, a, b, ri, cj)
      BY CellsOf
    <3> QED BY <3>1 DEF AreCells
  <2> QED BY <1>0, <2>1
<1> HIDE DEF T
<1>4. Sum(s) = Combine(T)
  BY ONLY Weighed(rows), <1>0, <1>1, <1>2, <1>3, CrossSum
<1> QED BY <1>4 DEF T

\* what the heatmap shows, against all its cells
HeatAdds(in) ==
  SumCells([cells |-> [i \in DOMAIN in.heat.rows |-> [j \in {c[1] : c \in Heatmap(in)[i]} |-> in.heat.cells[i][j]]]])
    = SumCells(in.heat)

LEMMA HeatShown ==
  ASSUME NEW rows, Weighed(rows), NEW in, in.counts \in BOOLEAN,
         NEW a \in Nat, NEW b \in Nat, NEW ri, NEW cj, IsMatrix(in.heat, rows, a, b, ri, cj)
  PROVE  HeatAdds(in)
<1> USE DEF HeatAdds
<1> DEFINE m == in.heat
           T(i) == {k \in 1..b : in.counts \/ m.cells[i][k].weight > 0}
           S(i) == {c[1] : c \in Heatmap(in)[i]}
           t(i) == [j \in S(i) |-> m.cells[i][j]]
           n == [cells |-> [i \in DOMAIN m.rows |-> t(i)]]
<1>1. /\ DOMAIN m.rows = 1..a /\ DOMAIN m.cols = 1..b /\ DOMAIN m.cells = 1..a
      /\ IsFiniteSet(1..a) /\ IsFiniteSet(1..b)
      /\ \A i \in 1..a : /\ DOMAIN m.cells[i] = 1..b
                         /\ \A j \in 1..b : /\ m.cells[i][j].sum \in Nat /\ m.cells[i][j].weight \in Nat
                                            /\ m.cells[i][j].weight = 0 => m.cells[i][j].sum = 0
  <2>1. AreCells(m, a, b, ri, cj)
    BY CellsOf
  <2> HIDE DEF m
  <2> QED BY <2>1 DEF AreCells
<1>2. ASSUME NEW i \in 1..a PROVE S(i) = T(i)
  <2>1. Heatmap(in)[i] = {<<j, m.cells[i][j]>> : j \in {k \in DOMAIN m.cols : in.counts \/ m.cells[i][k].weight > 0}}
    BY <1>1 DEF Heatmap
  <2>2. Heatmap(in)[i] = {<<j, m.cells[i][j]>> : j \in T(i)}
    BY <1>1, <2>1
  <2>3. \A x : x \in S(i) <=> \E c \in Heatmap(in)[i] : x = c[1]
    OBVIOUS
  <2>5. \A c : c \in Heatmap(in)[i] <=> \E j \in T(i) : c = <<j, m.cells[i][j]>>
    BY <2>2
  <2> HIDE DEF T, S, m
  <2>4. \A x : x \in S(i) <=> x \in T(i)
    <3>1. ASSUME NEW x \in S(i) PROVE x \in T(i)
      <4>1. PICK c \in Heatmap(in)[i] : x = c[1]
        BY <2>3
      <4>2. PICK j \in T(i) : c = <<j, m.cells[i][j]>>
        BY <2>5
      <4> QED BY <4>1, <4>2
    <3>2. ASSUME NEW x \in T(i) PROVE x \in S(i)
      <4>1. <<x, m.cells[i][x]>> \in Heatmap(in)[i]
        BY <2>5
      <4> QED BY <2>3, <4>1
    <3> QED BY <3>1, <3>2
  <2> QED BY <2>4
<1>3. ASSUME NEW i \in 1..a PROVE Sum(t(i)) = Sum(m.cells[i])
  <2> DEFINE s == m.cells[i]
             u == t(i)
             V == T(i)
             K == 1..b
  <2>1. DOMAIN u = V /\ (\A k \in V : u[k] = s[k]) /\ V \in SUBSET K
    BY <1>2
  <2>2. IsFiniteSet(K) /\ DOMAIN s = K /\ \A k \in K : s[k].sum \in Int /\ s[k].weight \in Int
    BY <1>1
  <2>3. \A k \in K \ V : s[k].sum = 0 /\ s[k].weight = 0
    BY <1>1
  <2> HIDE DEF s, u, V, K
  <2>4. Sum(u) = Sum(s)
    BY ONLY <2>1, <2>2, <2>3, SumShown
  <2> QED BY <2>4 DEF s, u
<1>4. n.cells = [i \in DOMAIN m.rows |-> t(i)]
  OBVIOUS
<1> HIDE DEF t, n
<1>5. [i \in DOMAIN n.cells |-> Sum(n.cells[i])] = [i \in DOMAIN m.cells |-> Sum(m.cells[i])]
  BY <1>1, <1>3, <1>4
<1>6. SumCells(n) = Sum([i \in DOMAIN n.cells |-> Sum(n.cells[i])]) /\ SumCells(m) = Sum([i \in DOMAIN m.cells |-> Sum(m.cells[i])])
  BY DEF SumCells
<1>7. SumCells(n) = SumCells(m)
  BY <1>5, <1>6
<1> QED BY <1>7 DEF n, t

\* a share per column, and the whole of the row
LEMMA StackedShares ==
  ASSUME NEW rows, Weighed(rows), NEW in,
         NEW a \in Nat, NEW b \in Nat, NEW ri, NEW cj, IsMatrix(in.matrix, rows, a, b, ri, cj), a # 0 => b # 0,
         NEW i \in DOMAIN in.matrix.rows
  PROVE  LET shares == Stacked100(in)[i] IN SumFunction([j \in DOMAIN shares |-> shares[j][1]]) = shares[1][2]
<1> DEFINE m == in.matrix
           s == m.cells[i]
           shares == Stacked100(in)[i]
           f == [j \in DOMAIN shares |-> shares[j][1]]
<1>1. /\ DOMAIN m.rows = 1..a /\ DOMAIN m.cols = 1..b
      /\ i \in 1..a /\ DOMAIN s = 1..b /\ \A j \in 1..b : s[j].sum \in Int /\ s[j].weight \in Int
  <2>1. AreCells(m, a, b, ri, cj)
    BY CellsOf
  <2>2. i \in DOMAIN m.rows
    OBVIOUS
  <2> HIDE DEF m
  <2>3. DOMAIN m.rows = 1..a /\ DOMAIN m.cols = 1..b /\ i \in 1..a
    BY <2>1, <2>2 DEF AreCells
  <2>4. DOMAIN m.cells[i] = 1..b /\ \A j \in 1..b : m.cells[i][j].sum \in Nat /\ m.cells[i][j].weight \in Nat
    BY <2>1, <2>3 DEF AreCells
  <2> QED BY <2>3, <2>4
<1>2. shares = [j \in 1..b |-> <<s[j].weight, Sum(s).weight>>]
  BY <1>1 DEF Stacked100
<1>3. 1 \in 1..b /\ IsFiniteSet(1..b)
  BY <1>1, UpTo
<1> HIDE DEF s, shares
<1>4. DOMAIN f = 1..b /\ \A j \in 1..b : f[j] = s[j].weight
  BY <1>2
<1>5. shares[1][2] = Sum(s).weight
  BY <1>2, <1>3
<1> HIDE DEF f
<1>6. SumFunction(f) = SumFunctionOnSet(f, 1..b)
  BY <1>4, SumFunctionIs
<1>7. Sum(s).weight = SumFunctionOnSet(f, 1..b)
  BY <1>1, <1>3, <1>4, SumFields, ZenonT(60)
<1> QED BY <1>5, <1>6, <1>7 DEF f, shares

-----------------------------------------------------------------------------
(* Spans, levels and runs.                                                 *)

LEMMA LenIs ==
  ASSUME NEW n \in Nat, NEW s, NEW X, s \in [1..n -> X]
  PROVE  s \in Seq(X) /\ Len(s) = n
<1>1. s \in Seq(X)
  BY SeqDef
<1> QED BY <1>1, LenProperties

LEMMA PrefixSum ==
  ASSUME NEW X, NEW s \in Seq(X), NEW n \in 0..Len(s)
  PROVE  /\ SubSeq(s, 1, n) \in Seq(X) /\ Len(SubSeq(s, 1, n)) = n /\ DOMAIN SubSeq(s, 1, n) = 1..n
         /\ \A i \in 1..n : SubSeq(s, 1, n)[i] = s[i]
<1> DEFINE l == Len(s)
<1>1. l \in Nat
  BY LenProperties
<1>2. (IF l < n THEN l ELSE n) = n /\ n \in Nat
  BY <1>1
<1>3. HeadOf(s, n) = SubSeq(s, 1, n)
  BY <1>2 DEF HeadOf
<1> HIDE DEF l
<1>4. LET m == IF Len(s) < n THEN Len(s) ELSE n IN
         /\ HeadOf(s, n) \in Seq(X) /\ Len(HeadOf(s, n)) = m /\ DOMAIN HeadOf(s, n) = 1..m
         /\ \A i \in 1..m : HeadOf(s, n)[i] = s[i]
  BY <1>2, HeadOfIs
<1>5. (IF Len(s) < n THEN Len(s) ELSE n) = n
  BY <1>2 DEF l
<1> QED BY <1>3, <1>4, <1>5

\* spans of given widths, one after the other
LEMMA Adjacents ==
  ASSUME NEW n \in Nat, NEW w, \A i \in 1..n : w[i] \in Int,
         NEW spans, DOMAIN spans = 1..n, Len(spans) = n,
         \A i \in 1..n : spans[i][1] = SumFunctionOnSet(w, 1..(i-1)) /\ spans[i][2] = spans[i][1] + w[i],
         n = 0 => spans = <<>>
  PROVE  Adjacent(spans, 0, SumFunctionOnSet(w, 1..n))
<1>1. ASSUME NEW i \in 1..n PROVE SumFunctionOnSet(w, 1..i) = spans[i][2]
  <2>1. i - 1 \in Nat /\ (\A k \in 1..((i-1)+1) : w[k] \in Int) /\ (i-1)+1 = i
    OBVIOUS
  <2>2. SumFunctionOnSet(w, 1..((i-1)+1)) = SumFunctionOnSet(w, 1..(i-1)) + w[(i-1)+1]
    BY ONLY <2>1, SumNext
  <2>3. SumFunctionOnSet(w, 1..i) = SumFunctionOnSet(w, 1..(i-1)) + w[i]
    BY <2>1, <2>2
  <2> QED BY <2>3
<1>2. ASSUME NEW i \in 1..n PROVE spans[i][1] = IF i = 1 THEN 0 ELSE spans[i-1][2]
  <2>1. CASE i = 1
    <3>1. 1..(i-1) = {}
      BY <2>1
    <3>2. SumFunctionOnSet(w, 1..(i-1)) = 0
      BY <3>1, SumEmpty
    <3> QED BY <2>1, <3>2
  <2>2. CASE i # 1
    <3>1. i - 1 \in 1..n
      BY <2>2
    <3>2. SumFunctionOnSet(w, 1..(i-1)) = spans[i-1][2]
      BY <1>1, <3>1
    <3> QED BY <2>2, <3>2
  <2> QED BY <2>1, <2>2
<1>3. ASSUME spans # <<>> PROVE Last(spans)[2] = SumFunctionOnSet(w, 1..n)
  <2>1. n \in 1..n
    BY <1>3
  <2> QED BY <1>1, <2>1 DEF Last
<1> QED BY <1>2, <1>3 DEF Adjacent

LEMMA MarimekkoSpans ==
  ASSUME NEW rows, Weighed(rows), NEW in,
         NEW a \in Nat, NEW b \in Nat, NEW ri, NEW cj, IsMatrix(in.matrix, rows, a, b, ri, cj)
  PROVE  LET spans == Marimekko(in) IN
         /\ Adjacent([j \in DOMAIN spans |-> spans[j].x], 0, Combine(rows).weight)
         /\ \A j \in DOMAIN spans : Adjacent(spans[j].y, 0, spans[j].x[2] - spans[j].x[1])
<1> DEFINE m == in.matrix
           cells == MatrixSeries(in)
           width == [j \in DOMAIN cells |-> Sum(cells[j]).weight]
           below(s, i) == Sum(SubSeq(s, 1, i - 1)).weight
           left == [j \in DOMAIN width |-> SumFunction(SubSeq(width, 1, j - 1))]
           y(j) == [i \in DOMAIN cells[j] |-> <<below(cells[j], i), below(cells[j], i) + cells[j][i].weight>>]
           spans == Marimekko(in)
<1>1. spans = [j \in DOMAIN cells |-> [x |-> <<left[j], left[j] + width[j]>>, y |-> y(j)]]
  BY DEF Marimekko
<1>2. cells = [j \in DOMAIN m.cols |-> [i \in DOMAIN m.rows |-> m.cells[i][j]]]
  BY DEF MatrixSeries
<1>3. AreCells(m, a, b, ri, cj)
  BY CellsOf
<1> HIDE DEF spans, cells
<1>4. /\ DOMAIN cells = 1..b
      /\ \A j \in 1..b : /\ DOMAIN cells[j] = 1..a /\ cells[j] \in [1..a -> {cells[j][i] : i \in 1..a}]
                         /\ \A i \in 1..a : cells[j][i] = m.cells[i][j]
  BY <1>2, <1>3 DEF AreCells
<1>5. \A j \in 1..b : \A i \in 1..a : cells[j][i].sum \in Nat /\ cells[j][i].weight \in Nat
  BY <1>3, <1>4 DEF AreCells
<1>6. \A j \in 1..b : Sum(cells[j]) = Combine(cj[j])
  <2> SUFFICES ASSUME NEW j \in 1..b PROVE Sum(cells[j]) = Combine(cj[j])
    OBVIOUS
  <2> DEFINE s == cells[j]
  <2>1. DOMAIN s = 1..a /\ \A i \in 1..a : s[i] = m.cells[i][j]
    BY <1>4
  <2>2. IsMatrix(m, rows, a, b, ri, cj) /\ Weighed(rows) /\ a \in Nat /\ b \in Nat /\ j \in 1..b
    OBVIOUS
  <2> HIDE DEF s, m
  <2>3. IsColumn(s, m, a, j)
    BY <2>1 DEF IsColumn
  <2>4. Sum(s) = Combine(cj[j])
    BY ONLY <2>2, <2>3, ColumnsOf
  <2> QED BY <2>4 DEF s
<1>7. Divides(cj, 1..b, rows)
  BY DEF IsMatrix
<1>8. \A j \in 1..b : Sum(cells[j]).sum \in Nat /\ Sum(cells[j]).weight \in Nat
  <2>1. \A j \in 1..b : cj[j] \in SUBSET rows
    BY <1>7 DEF Divides
  <2> QED BY <1>6, <2>1, WeighedPart, CombineOf
<1>9. DOMAIN width = 1..b /\ width \in [1..b -> Nat] /\ \A j \in 1..b : width[j] = Sum(cells[j]).weight
  BY <1>4, <1>8
<1> HIDE DEF width
<1>10. SumFunctionOnSet(width, 1..b) = Combine(rows).weight
  <2> DEFINE s == [j \in 1..b |-> Combine(cj[j])]
  <2>1. DOMAIN s = 1..b /\ \A j \in 1..b : s[j] = Combine(cj[j])
    OBVIOUS
  <2> HIDE DEF s
  <2>2. Sum(s) = Combine(rows)
    BY <1>7, <2>1, SumDivided
  <2>3. (\A j \in 1..b : s[j].sum \in Int /\ s[j].weight \in Int) /\ \A j \in 1..b : width[j] = s[j].weight
    BY <1>6, <1>8, <1>9, <2>1
  <2>4. IsFiniteSet(1..b)
    BY UpTo
  <2>5. Sum(s).weight = SumFunctionOnSet(width, 1..b)
    BY <2>1, <2>3, <2>4, SumFields
  <2> QED BY <2>2, <2>5
<1>11. ASSUME NEW j \in 1..b PROVE left[j] = SumFunctionOnSet(width, 1..(j-1))
  <2> DEFINE p == SubSeq(width, 1, j - 1)
  <2>1. width \in Seq(Nat) /\ Len(width) = b
    BY <1>9, LenIs
  <2>2. j - 1 \in 0..Len(width)
    BY <2>1
  <2>3. DOMAIN p = 1..(j-1) /\ \A i \in 1..(j-1) : p[i] = width[i]
    BY <2>1, <2>2, PrefixSum
  <2>4. left[j] = SumFunction(p)
    BY <1>9
  <2> HIDE DEF p
  <2>5. SumFunction(p) = SumFunctionOnSet(p, 1..(j-1))
    BY <2>3, SumFunctionIs
  <2>6. IsFiniteSet(1..(j-1))
    BY UpTo
  <2>7. \A i \in 1..(j-1) : p[i] \in Int /\ p[i] = width[i]
    BY <1>9, <2>3
  <2>8. SumFunctionOnSet(p, 1..(j-1)) = SumFunctionOnSet(width, 1..(j-1))
    BY ONLY <2>6, <2>7, SumSame
  <2> QED BY <2>4, <2>5, <2>8
<1>12. DOMAIN left = 1..b
  BY <1>9
<1> HIDE DEF left
<1>13. Adjacent([j \in DOMAIN spans |-> spans[j].x], 0, Combine(rows).weight)
  <2> DEFINE xs == [j \in DOMAIN spans |-> spans[j].x]
  <2>1. xs \in [1..b -> {xs[j] : j \in 1..b}] /\ \A j \in 1..b : xs[j] = <<left[j], left[j] + width[j]>>
    BY <1>1, <1>4
  <2> HIDE DEF xs
  <2>2. DOMAIN xs = 1..b /\ Len(xs) = b /\ xs \in Seq({xs[j] : j \in 1..b})
    BY <2>1, LenIs
  <2>3. \A j \in 1..b : xs[j][1] = SumFunctionOnSet(width, 1..(j-1)) /\ xs[j][2] = xs[j][1] + width[j]
    BY <1>11, <2>1, SMTT(60)
  <2>4. b = 0 => xs = <<>>
    BY <2>2
  <2>5. \A j \in 1..b : width[j] \in Int
    BY <1>9
  <2>6. Adjacent(xs, 0, SumFunctionOnSet(width, 1..b))
    BY <2>2, <2>3, <2>4, <2>5, Adjacents
  <2> QED BY <1>10, <2>6 DEF xs
<1>14. ASSUME NEW j \in 1..b PROVE Adjacent(spans[j].y, 0, spans[j].x[2] - spans[j].x[1])
  <2> DEFINE s == cells[j]
             ys == y(j)
             X == {s[i] : i \in 1..a}
             w == [i \in 1..a |-> s[i].weight]
  <2>1. spans[j].y = ys /\ spans[j].x = <<left[j], left[j] + width[j]>>
    BY <1>1, <1>4
  <2>2. spans[j].x[2] - spans[j].x[1] = width[j]
    <3>1. left[j] \in Int /\ width[j] \in Int
      <4>1. (\A i \in 1..(j-1) : width[i] \in Int) /\ width[j] \in Int
        BY <1>9
      <4>2. IsFiniteSet(1..(j-1))
        BY UpTo
      <4>3. SumFunctionOnSet(width, 1..(j-1)) \in Int
        BY ONLY <4>1, <4>2, SumInt
      <4> QED BY <1>11, <4>1, <4>3
    <3> QED BY <2>1, <3>1
  <2>3. /\ s \in [1..a -> X] /\ DOMAIN s = 1..a /\ (\A i \in 1..a : s[i].sum \in Int /\ s[i].weight \in Int)
        /\ \A i \in 1..a : s[i].sum \in Nat /\ s[i].weight \in Nat
    <3>1. s \in [1..a -> X] /\ DOMAIN s = 1..a
      BY <1>4
    <3>2. \A i \in 1..a : s[i].sum \in Nat /\ s[i].weight \in Nat
      BY <1>5
    <3> HIDE DEF s, X
    <3> QED BY <3>1, <3>2
  <2>4. \A i \in 1..a : w[i] = s[i].weight
    OBVIOUS
  <2>5. ys = [i \in 1..a |-> <<below(s, i), below(s, i) + s[i].weight>>]
    BY <2>3
  <2>6. width[j] = Sum(s).weight
    BY <1>9
  <2> HIDE DEF s, X, w, ys
  <2>7. s \in Seq(X) /\ Len(s) = a
    BY <2>3, LenIs
  <2>8. ASSUME NEW i \in 1..a PROVE below(s, i) = SumFunctionOnSet(w, 1..(i-1))
    <3> DEFINE p == SubSeq(s, 1, i - 1)
    <3>1. i - 1 \in 0..Len(s)
      BY <2>7
    <3>2. DOMAIN p = 1..(i-1) /\ \A k \in 1..(i-1) : p[k] = s[k]
      BY <2>7, <3>1, PrefixSum
    <3>3. below(s, i) = Sum(p).weight
      OBVIOUS
    <3> HIDE DEF p
    <3>4. IsFiniteSet(1..(i-1))
      BY UpTo
    <3>5. (\A k \in 1..(i-1) : p[k].sum \in Int /\ p[k].weight \in Int) /\ \A k \in 1..(i-1) : w[k] = p[k].weight
      BY <2>3, <2>4, <3>2
    <3>6. Sum(p).weight = SumFunctionOnSet(w, 1..(i-1))
      BY ONLY <3>2, <3>4, <3>5, SumFields
    <3> QED BY <3>3, <3>6
  <2> HIDE DEF below
  <2>9. DOMAIN ys = 1..a /\ ys \in [1..a -> {ys[i] : i \in 1..a}]
    BY <2>5
  <2>10. Len(ys) = a /\ ys \in Seq({ys[i] : i \in 1..a})
    BY <2>9, LenIs
  <2>11. a = 0 => ys = <<>>
    BY <2>10
  <2>12. \A i \in 1..a : ys[i][1] = SumFunctionOnSet(w, 1..(i-1)) /\ ys[i][2] = ys[i][1] + w[i]
    BY <2>4, <2>5, <2>8
  <2>13. \A i \in 1..a : w[i] \in Int
    BY <2>3, <2>4
  <2>14. Adjacent(ys, 0, SumFunctionOnSet(w, 1..a))
    BY <2>9, <2>10, <2>11, <2>12, <2>13, Adjacents
  <2>15. Sum(s).weight = SumFunctionOnSet(w, 1..a)
    <3>1. IsFiniteSet(1..a)
      BY UpTo
    <3> QED BY <2>3, <2>4, <3>1, SumFields
  <2>16. SumFunctionOnSet(w, 1..a) = spans[j].x[2] - spans[j].x[1]
    BY <2>2, <2>6, <2>15
  <2> QED BY <2>1, <2>14, <2>16
<1>15. DOMAIN spans = 1..b
  BY <1>1, <1>4
<1> QED BY <1>13, <1>14, <1>15 DEF spans

LEMMA WaterfallEnds ==
  ASSUME NEW n \in Nat, n >= 1, NEW levels, levels \in [1..n -> Int]
  PROVE  LET w == Waterfall(levels) IN w.last = w.first + SumFunction(w.up) - SumFunction(w.down)
<1> DEFINE up == [i \in 2..n |-> IF levels[i] > levels[i - 1] THEN levels[i] - levels[i - 1] ELSE 0]
           down == [i \in 2..n |-> IF levels[i] < levels[i - 1] THEN levels[i - 1] - levels[i] ELSE 0]
           prev == [i \in 1..n |-> IF i = 1 THEN 0 ELSE levels[i - 1]]
           both == [i \in 2..n |-> up[i] + prev[i]]
           w == Waterfall(levels)
           A == 2..n
<1>1. Len(levels) = n
  BY LenIs
<1>2. w.first = levels[1] /\ w.up = up /\ w.down = down /\ w.last = levels[n]
  BY <1>1 DEF Waterfall
<1>3. /\ \A i \in 1..n : levels[i] \in Int
      /\ \A i \in 1..n : prev[i] \in Int
  OBVIOUS
<1>4. \A i \in A : /\ up[i] \in Int /\ down[i] \in Int /\ prev[i] \in Int /\ levels[i] \in Int
                   /\ both[i] = up[i] + prev[i]
                   /\ both[i] = down[i] + levels[i]
  <2> SUFFICES ASSUME NEW i \in A
               PROVE  /\ up[i] \in Int /\ down[i] \in Int /\ prev[i] \in Int /\ levels[i] \in Int
                      /\ up[i] + prev[i] = down[i] + levels[i]
    OBVIOUS
  <2>1. i \in 1..n /\ i - 1 \in 1..n /\ i # 1
    OBVIOUS
  <2>2. levels[i] \in Int /\ levels[i-1] \in Int /\ prev[i] = levels[i-1]
    BY <2>1
  <2>3. /\ up[i] = IF levels[i] > levels[i - 1] THEN levels[i] - levels[i - 1] ELSE 0
        /\ down[i] = IF levels[i] < levels[i - 1] THEN levels[i - 1] - levels[i] ELSE 0
    OBVIOUS
  <2> HIDE DEF up, down, prev
  <2> QED BY <2>2, <2>3, SMTT(60)
<1>5. SumFunction(up) = SumFunctionOnSet(up, A) /\ SumFunction(down) = SumFunctionOnSet(down, A)
  BY SumFunctionIs
<1>6. \A i \in 1..(n-1) : levels[i] = prev[1+i]
  OBVIOUS
<1>7. IsFiniteSet(A)
  <2>1. A \in SUBSET (1..n) /\ IsFiniteSet(1..n)
    BY UpTo
  <2> QED BY <2>1, FS_Subset
<1>8. A = (1+1)..n
  OBVIOUS
<1> HIDE DEF up, down, prev, both, w, A
<1>9. /\ SumFunctionOnSet(both, A) = SumFunctionOnSet(up, A) + SumFunctionOnSet(prev, A)
      /\ SumFunctionOnSet(both, A) = SumFunctionOnSet(down, A) + SumFunctionOnSet(levels, A)
  <2>1. /\ \A i \in A : up[i] \in Int /\ prev[i] \in Int
        /\ \A i \in A : down[i] \in Int /\ levels[i] \in Int
        /\ \A i \in A : both[i] = up[i] + prev[i]
        /\ \A i \in A : both[i] = down[i] + levels[i]
    BY <1>4
  <2> QED BY ONLY <1>7, <2>1, SumPlus
<1>10. SumFunctionOnSet(levels, 1..n) = levels[1] + SumFunctionOnSet(levels, A)
  <2>1. SumFunctionOnSet(levels, 1..n) = levels[1] + SumFunctionOnSet(levels, 2..n)
    BY <1>3, SumFirst
  <2> QED BY <2>1 DEF A
<1>11. SumFunctionOnSet(prev, A) = SumFunctionOnSet(levels, 1..(n-1))
  <2>1. n \in Nat /\ 1 \in 0..n /\ \A i \in 1..n : prev[i] \in Int
    BY <1>3
  <2>2. SumFunctionOnSet(prev, (1+1)..n) = SumFunctionOnSet(levels, 1..(n-1))
    BY ONLY <1>6, <2>1, SumShift
  <2> QED BY <1>8, <2>2
<1>12. SumFunctionOnSet(levels, 1..n) = SumFunctionOnSet(levels, 1..(n-1)) + levels[n]
  <2>1. n - 1 \in Nat /\ (n-1)+1 = n /\ (\A i \in 1..((n-1)+1) : levels[i] \in Int)
    BY <1>3
  <2>2. SumFunctionOnSet(levels, 1..((n-1)+1)) = SumFunctionOnSet(levels, 1..(n-1)) + levels[(n-1)+1]
    BY ONLY <2>1, SumNext
  <2> QED BY <2>1, <2>2
<1>13. /\ SumFunctionOnSet(up, A) \in Int /\ SumFunctionOnSet(down, A) \in Int
       /\ SumFunctionOnSet(levels, A) \in Int /\ SumFunctionOnSet(prev, A) \in Int
  <2>1. /\ \A i \in A : up[i] \in Int
        /\ \A i \in A : down[i] \in Int
        /\ \A i \in A : levels[i] \in Int
        /\ \A i \in A : prev[i] \in Int
    BY <1>4
  <2> QED BY ONLY <1>7, <2>1, SumInt
<1>14. levels[1] \in Int /\ levels[n] \in Int
  BY <1>3
<1>15. levels[n] = levels[1] + SumFunctionOnSet(up, A) - SumFunctionOnSet(down, A)
  BY <1>9, <1>10, <1>11, <1>12, <1>13, <1>14, SMTT(60)
<1> QED BY <1>2, <1>5, <1>15 DEF w

LEMMA HeadParts ==
  ASSUME NEW list, Parts(list), NEW n \in Nat
  PROVE  Parts(HeadOf(list, n)) /\ \A i \in 1..Len(HeadOf(list, n)) : i \in 1..Len(list) /\ HeadOf(list, n)[i] = list[i]
<1> DEFINE m == IF Len(list) < n THEN Len(list) ELSE n
           h == HeadOf(list, n)
<1>1. list \in Seq(ToSet(list)) /\ \A i \in 1..Len(list) : list[i].sum \in Nat /\ list[i].weight \in Nat
  BY DEF Parts
<1>2. h \in Seq(ToSet(list)) /\ Len(h) = m /\ DOMAIN h = 1..m /\ \A i \in 1..m : h[i] = list[i]
  BY <1>1, HeadOfIs
<1>3. Len(list) \in Nat
  BY <1>1, LenProperties
<1>4. m \in Nat /\ m <= Len(list)
  BY <1>3
<1> HIDE DEF m, h
<1>5. \A i \in 1..m : i \in 1..Len(list)
  BY <1>3, <1>4
<1>6. h \in Seq(ToSet(h))
  <2>1. h \in [1..m -> ToSet(h)]
    <3>1. h = [i \in 1..m |-> h[i]]
      BY <1>2, LenProperties
    <3> QED BY <1>2, <3>1 DEF ToSet
  <2> QED BY <1>4, <2>1, LenIs
<1>7. Parts(h)
  BY <1>1, <1>2, <1>5, <1>6 DEF Parts
<1> QED BY <1>2, <1>5, <1>7 DEF h

LEMMA ParetoRises ==
  ASSUME NEW in, Parts(in.categories), TopPareto \in Nat, NEW i \in DOMAIN Pareto(in)
  PROVE  Pareto(in)[i][1] <= Pareto(in)[i][2]
<1> DEFINE list == ByWeight(in.categories)
           top == HeadOf(list, TopPareto)
           n == Len(top)
           w == [k \in 1..n |-> top[k].weight]
           p == SubSeq(top, 1, i)
<1>1. Parts(list)
  BY ByWeightIs
<1> HIDE DEF list
<1>2. Parts(top)
  BY <1>1, HeadParts
<1>3. Pareto(in) = [k \in DOMAIN top |-> <<Sum(SubSeq(top, 1, k)).weight, Sum(top).weight>>]
  BY DEF Pareto, list
<1> HIDE DEF top
<1>4. /\ top \in Seq(ToSet(top)) /\ \A k \in 1..n : top[k].sum \in Nat /\ top[k].weight \in Nat
      /\ \A k \in 1..n : w[k] = top[k].weight
  BY <1>2 DEF Parts
<1>5. n \in Nat /\ DOMAIN top = 1..n /\ Sum(top).weight = SumFunctionOnSet(w, 1..n)
  BY <1>2, SumPartsOf
<1>6. i \in 1..n /\ Pareto(in)[i][1] = Sum(p).weight /\ Pareto(in)[i][2] = Sum(top).weight
  BY <1>3, <1>5
<1>7. i \in 0..n /\ i \in Nat
  BY <1>5, <1>6
<1>8. DOMAIN p = 1..i /\ \A k \in 1..i : p[k] = top[k]
  BY <1>4, <1>7, PrefixSum
<1> HIDE DEF n, w, p
<1>9. Sum(p).weight = SumFunctionOnSet(w, 1..i)
  <2>1. \A k \in 1..i : k \in 1..n
    BY <1>5, <1>6
  <2>2. (\A k \in 1..i : p[k].sum \in Int /\ p[k].weight \in Int) /\ \A k \in 1..i : w[k] = p[k].weight
    BY <1>4, <1>8, <2>1
  <2>3. IsFiniteSet(1..i)
    BY <1>7, UpTo
  <2> QED BY ONLY <1>8, <2>2, <2>3, SumFields
<1>10. /\ SumFunctionOnSet(w, 1..n) = SumFunctionOnSet(w, 1..i) + SumFunctionOnSet(w, (i+1)..n)
       /\ SumFunctionOnSet(w, 1..i) \in Int
  <2>1. n \in Nat /\ i \in 0..n /\ \A k \in 1..n : w[k] \in Int
    BY <1>4, <1>5, <1>7
  <2> QED BY ONLY <2>1, SumCut
<1>11. SumFunctionOnSet(w, (i+1)..n) \in Nat
  <2>1. (i+1)..n \in SUBSET (1..n) /\ IsFiniteSet(1..n)
    BY <1>5, <1>6, UpTo
  <2>2. IsFiniteSet((i+1)..n)
    BY <2>1, FS_Subset
  <2>3. \A k \in (i+1)..n : w[k] \in Nat
    BY <1>4, <2>1
  <2> QED BY ONLY <2>2, <2>3, SumNat
<1>12. SumFunctionOnSet(w, 1..i) <= SumFunctionOnSet(w, 1..n)
  BY ONLY <1>10, <1>11
<1> QED BY <1>5, <1>6, <1>9, <1>12

\* The week, hour by hour, whether or not the empty hours are shown.
LEMMA GridSum ==
  ASSUME NEW in, Weighed(in.hourly), \A r \in in.hourly : r.t \in Int
  PROVE  /\ Sum([d \in 0..6 |-> Sum(WeekdayHourGrid(in)[d])]) = Combine(in.hourly)
         /\ Sum([d \in 0..6 |-> Sum(HourTable(in)[d])]) = Combine(in.hourly)
<1> DEFINE rows == in.hourly
           grid == WeekdayHourGrid(in)
           table == HourTable(in)
           D == 0..6
           H == 0..23
           day == [d \in D |-> {r \in rows : Weekday(r.t) = d}]
           hour == [h \in H |-> {r \in rows : r.t % 24 = h}]
<1>1. IsFiniteSet(D) /\ IsFiniteSet(H)
  <2>1. \A a, b \in Int : IsFiniteSet(a..b)
    BY FS_Interval
  <2>2. 0 \in Int /\ 6 \in Int /\ 23 \in Int
    OBVIOUS
  <2> QED BY <2>1, <2>2, Zenon
<1>2. \A r \in rows : Weekday(r.t) \in D /\ r.t % 24 \in H
  <2> SUFFICES ASSUME NEW t \in Int PROVE Weekday(t) \in D /\ t % 24 \in H
    OBVIOUS
  <2>1. t \div 24 \in Int
    OBVIOUS
  <2>2. ((t \div 24) + 3) % 7 \in 0..6
    BY <2>1
  <2> QED BY <2>2 DEF Weekday
<1>3. /\ DOMAIN grid = D
      /\ \A d \in D : DOMAIN grid[d] = H /\ \A h \in H : grid[d][h] = Combine({r \in rows : Weekday(r.t) = d /\ r.t % 24 = h})
  BY DEF WeekdayHourGrid
<1>4. \A d \in D : \A h \in H : {r \in rows : Weekday(r.t) = d /\ r.t % 24 = h} = hour[h] \cap day[d]
  OBVIOUS
<1>5. \A d \in D : \A h \in H : grid[d][h] = Combine(hour[h] \cap day[d])
  <2> SUFFICES ASSUME NEW d \in D, NEW h \in H PROVE grid[d][h] = Combine(hour[h] \cap day[d])
    OBVIOUS
  <2> DEFINE U == {r \in rows : Weekday(r.t) = d /\ r.t % 24 = h}
             V == hour[h] \cap day[d]
  <2>1. grid[d][h] = Combine(U)
    BY <1>3
  <2>2. U = V
    BY <1>4
  <2> HIDE DEF U, V, grid
  <2>3. grid[d][h] = Combine(V)
    BY <2>1, <2>2
  <2> QED BY <2>3 DEF V
<1>6. /\ \A d \in D : day[d] \in SUBSET rows /\ \A r \in rows : r \in day[d] <=> Weekday(r.t) = d
      /\ \A h \in H : hour[h] \in SUBSET rows /\ \A r \in rows : r \in hour[h] <=> r.t % 24 = h
  OBVIOUS
<1>7. /\ DOMAIN table = D
      /\ \A d \in D : /\ DOMAIN table[d] = {k \in H : grid[d][k].weight > 0}
                      /\ \A h \in DOMAIN table[d] : table[d][h] = grid[d][h]
  BY DEF HourTable
<1>0. Weighed(rows)
  OBVIOUS
<1> HIDE DEF grid, table, D, H, day, hour, rows
<1>8. Divides(day, D, rows) /\ Divides(hour, H, rows)
  BY <1>1, <1>2, <1>6 DEF Divides
<1>9. ASSUME NEW d \in D
      PROVE  Sum(grid[d]) = Combine(day[d]) /\ Sum(table[d]) = Combine(day[d])
  <2> DEFINE s == grid[d]
             t == table[d]
             T == day[d]
  <2>1. DOMAIN s = H /\ \A h \in H : s[h] = Combine(hour[h] \cap T)
    BY <1>3, <1>5
  <2>2. DOMAIN t = {k \in H : s[k].weight > 0} /\ \A h \in DOMAIN t : t[h] = s[h]
    BY <1>7
  <2>3. T \in SUBSET rows
    BY <1>6
  <2> HIDE DEF s, t, T
  <2>4. Sum(s) = Combine(T)
    BY ONLY <1>0, <1>8, <2>1, <2>3, CrossSum
  <2>5. \A h \in H : s[h].sum \in Nat /\ s[h].weight \in Nat /\ (s[h].weight = 0 => s[h].sum = 0)
    <3> SUFFICES ASSUME NEW h \in H PROVE s[h].sum \in Nat /\ s[h].weight \in Nat /\ (s[h].weight = 0 => s[h].sum = 0)
      OBVIOUS
    <3> DEFINE U == hour[h] \cap T
    <3>1. s[h] = Combine(U) /\ U \in SUBSET rows
      BY <2>1, <2>3
    <3> HIDE DEF U
    <3>2. Weighed(U)
      BY <1>0, <3>1, WeighedPart
    <3> QED BY <3>1, <3>2, CombineOf
  <2> DEFINE V == DOMAIN t
  <2>6. V \in SUBSET H /\ (\A k \in H \ V : s[k].sum = 0 /\ s[k].weight = 0) /\ \A k \in V : t[k] = s[k]
    BY <2>2, <2>5
  <2>7. IsFiniteSet(H) /\ DOMAIN s = H /\ DOMAIN t = V /\ \A h \in H : s[h].sum \in Int /\ s[h].weight \in Int
    BY <1>1, <2>1, <2>5
  <2> HIDE DEF V
  <2>8. Sum(t) = Sum(s)
    BY ONLY <2>6, <2>7, SumShown
  <2> QED BY <2>4, <2>8 DEF s, t, T
<1>10. ASSUME NEW s, DOMAIN s = D, \A d \in D : s[d] = Combine(day[d])
       PROVE  Sum(s) = Combine(rows)
  BY <1>0, <1>8, <1>10, SumDivided
<1> DEFINE gs == [d \in D |-> Sum(grid[d])]
           tb == [d \in D |-> Sum(table[d])]
<1>11. /\ DOMAIN gs = D /\ \A d \in D : gs[d] = Combine(day[d])
       /\ DOMAIN tb = D /\ \A d \in D : tb[d] = Combine(day[d])
  BY <1>9
<1>12. Sum(gs) = Combine(rows) /\ Sum(tb) = Combine(rows)
  <2> HIDE DEF gs, tb
  <2> QED BY <1>10, <1>11
<1> QED BY <1>12 DEF rows, grid, table, D

-----------------------------------------------------------------------------
(* The value against the previous period.                                  *)

Amount(g) == g.sum \in Nat /\ g.weight \in Nat /\ (g.weight = 0 => g.sum = 0)

LEMMA ExceedsOrders ==
  ASSUME NEW in, in.counts \in BOOLEAN, NEW g, Amount(g), NEW h, Amount(h)
  PROVE  /\ Exceeds(in, g, h) => ~Exceeds(in, h, g)
         /\ ~Exceeds(in, g, g)
<1>1. g.sum \in Nat /\ g.weight \in Nat /\ h.sum \in Nat /\ h.weight \in Nat
      /\ (g.weight = 0 => g.sum = 0) /\ (h.weight = 0 => h.sum = 0)
  BY DEF Amount
<1>2. /\ g.sum * h.weight \in Nat /\ h.sum * g.weight \in Nat
      /\ g.weight = 0 => h.weight * g.sum = 0
  BY <1>1
<1> QED BY <1>1, <1>2 DEF Exceeds

LEMMA TonesAgree ==
  ASSUME NEW in, in.counts \in BOOLEAN, in.compared \in BOOLEAN, Amount(in.value), Amount(in.previous),
         NEW p \in {"lowerBetter", "higherBetter", "neutral"}
  PROVE  /\ Progress(in, p) = (Tone(Delta(in), p) = "bad")
         /\ Gauge(in, p) = Progress(in, p) /\ TargetActual(in, p) = Progress(in, p)
<1> DEFINE up == Exceeds(in, in.value, in.previous)
           down == Exceeds(in, in.previous, in.value)
<1>1. up => ~down
  BY ExceedsOrders
<1>2. ~Exceeds(in, in.value, in.value)
  BY ExceedsOrders
<1> DEFINE bad == in.compared /\ ((p = "lowerBetter" /\ up) \/ (p = "higherBetter" /\ down))
<1>3. Tone(Delta(in), p) = "bad" <=> bad
  <2>1. Delta(in) = IF ~in.compared THEN "none" ELSE IF up THEN "up" ELSE IF down THEN "down" ELSE "flat"
    BY DEF Delta
  <2> DEFINE dir == Delta(in)
  <2> HIDE DEF dir, up, down
  <2>2. Tone(dir, p) = "bad" <=> ((p = "lowerBetter" /\ dir = "up") \/ (p = "higherBetter" /\ dir = "down"))
    <3>1. dir \in {"none", "up", "down", "flat"}
      BY <2>1 DEF dir
    <3> QED BY <3>1 DEF Tone
  <2>3. (dir = "up" <=> in.compared /\ up) /\ (dir = "down" <=> in.compared /\ down)
    BY <1>1, <2>1 DEF dir
  <2> QED BY <2>2, <2>3 DEF dir
<1>4. Bad(in, p) <=> bad
  <2>1. CASE ~in.compared
    <3>1. Reached(in, p)
      BY <1>2, <2>1 DEF Reached
    <3> QED BY <2>1, <3>1 DEF Bad
  <2>2. CASE in.compared /\ p = "lowerBetter"
    <3>1. Reached(in, p) <=> ~up
      BY <2>2 DEF Reached
    <3> QED BY <2>2, <3>1 DEF Bad
  <2>3. CASE in.compared /\ p = "higherBetter"
    <3>1. Reached(in, p) <=> ~down
      BY <2>3 DEF Reached
    <3> QED BY <2>3, <3>1 DEF Bad
  <2>4. CASE p = "neutral"
    BY <2>4 DEF Bad
  <2> QED BY <2>1, <2>2, <2>3, <2>4
<1>6. /\ Progress(in, p) = (Tone(Delta(in), p) = "bad")
      /\ Gauge(in, p) = Progress(in, p)
  <2> HIDE DEF up, down, bad
  <2>1. (Progress(in, p) <=> bad) /\ (Gauge(in, p) <=> bad)
    BY <1>4 DEF Progress, Gauge, bad
  <2>2. Progress(in, p) \in BOOLEAN /\ Gauge(in, p) \in BOOLEAN
    <3>1. Bad(in, p) \in BOOLEAN
      BY Zenon DEF Bad
    <3> QED BY <3>1 DEF Progress, Gauge
  <2> QED BY <1>3, <2>1, <2>2
<1>7. TargetActual(in, p) = Progress(in, p)
  <2>1. TargetActual(in, p) <=> bad
    BY DEF TargetActual
  <2>2. TargetActual(in, p) \in BOOLEAN /\ Progress(in, p) \in BOOLEAN
    <3>1. Bad(in, p) \in BOOLEAN /\ TargetActual(in, p) \in BOOLEAN
      BY Zenon DEF Bad, TargetActual
    <3> QED BY <3>1 DEF Progress
  <2>3. Progress(in, p) <=> bad
    <3> HIDE DEF up, down
    <3> QED BY <1>4 DEF Progress
  <2> HIDE DEF bad
  <2> QED BY <2>1, <2>2, <2>3
<1> QED BY <1>6, <1>7

\* finitely many finite parts
LEMMA FiniteParts ==
  ASSUME NEW S, NEW K, IsFiniteSet(K), NEW part,
         \A k \in K : part[k] \in SUBSET S, \A k \in K : IsFiniteSet(part[k]),
         \A x \in S : \E k \in K : x \in part[k]
  PROVE  IsFiniteSet(S)
<1> DEFINE all == {part[k] : k \in K}
<1>1. IsFiniteSet(all)
  <2>1. \A x \in K : part[x] \in all
    OBVIOUS
  <2>2. \A y \in all : \E x \in K : part[x] = y
    OBVIOUS
  <2> HIDE DEF all
  <2> QED BY <2>1, <2>2, ImageFinite
<1>2. \A T \in all : IsFiniteSet(T)
  OBVIOUS
<1>3. UNION all = S
  <2>1. \A x \in UNION all : x \in S
    OBVIOUS
  <2>2. \A x \in S : x \in UNION all
    OBVIOUS
  <2> QED BY <2>1, <2>2
<1> HIDE DEF all
<1>4. IsFiniteSet(UNION all)
  BY <1>1, <1>2, FS_UNION
<1> QED BY <1>3, <1>4

\* The node at a place, by the positions that lead to it.
LEMMA PlaceKinds ==
  ASSUME NEW nodes, NEW p
  PROVE  p \in Places(nodes) <=>
           \/ \E i \in DOMAIN nodes : p = <<i>>
           \/ \E i \in DOMAIN nodes : \E j \in DOMAIN nodes[i].children : p = <<i, j>>
           \/ \E i \in DOMAIN nodes : \E j \in DOMAIN nodes[i].children :
                \E k \in DOMAIN nodes[i].children[j].children : p = <<i, j, k>>
<1>1. ASSUME p \in Places(nodes)
      PROVE  \/ \E i \in DOMAIN nodes : p = <<i>>
             \/ \E i \in DOMAIN nodes : \E j \in DOMAIN nodes[i].children : p = <<i, j>>
             \/ \E i \in DOMAIN nodes : \E j \in DOMAIN nodes[i].children :
                  \E k \in DOMAIN nodes[i].children[j].children : p = <<i, j, k>>
  <2>1. PICK i \in DOMAIN nodes :
          p \in {<<i>>} \cup UNION {{<<i, j>>} \cup {<<i, j, k>> : k \in DOMAIN nodes[i].children[j].children} :
                                      j \in DOMAIN nodes[i].children}
    BY <1>1 DEF Places
  <2>2. CASE p = <<i>>
    BY <2>2
  <2>3. CASE p # <<i>>
    <3>1. PICK j \in DOMAIN nodes[i].children :
            p \in {<<i, j>>} \cup {<<i, j, k>> : k \in DOMAIN nodes[i].children[j].children}
      BY <2>1, <2>3
    <3>2. p = <<i, j>> \/ \E k \in DOMAIN nodes[i].children[j].children : p = <<i, j, k>>
      BY <3>1
    <3> QED BY <3>2
  <2> QED BY <2>2, <2>3
<1>2. ASSUME NEW i \in DOMAIN nodes
      PROVE  {<<i>>} \cup UNION {{<<i, j>>} \cup {<<i, j, k>> : k \in DOMAIN nodes[i].children[j].children} :
                                      j \in DOMAIN nodes[i].children} \subseteq Places(nodes)
  BY DEF Places
<1>3. \A i \in DOMAIN nodes : <<i>> \in Places(nodes)
  BY <1>2
<1>4. ASSUME NEW i \in DOMAIN nodes, NEW j \in DOMAIN nodes[i].children
      PROVE  {<<i, j>>} \cup {<<i, j, k>> : k \in DOMAIN nodes[i].children[j].children} \subseteq Places(nodes)
  BY <1>2
<1>5. \A i \in DOMAIN nodes : \A j \in DOMAIN nodes[i].children : <<i, j>> \in Places(nodes)
  BY <1>4
<1>6. \A i \in DOMAIN nodes : \A j \in DOMAIN nodes[i].children :
        \A k \in DOMAIN nodes[i].children[j].children : <<i, j, k>> \in Places(nodes)
  BY <1>4
<1> QED BY <1>1, <1>3, <1>5, <1>6

LEMMA NodeAtIs ==
  /\ \A nodes, i : NodeAt(nodes, <<i>>) = nodes[i]
  /\ \A nodes, i, j : NodeAt(nodes, <<i, j>>) = nodes[i].children[j]
  /\ \A nodes, i, j, k : NodeAt(nodes, <<i, j, k>>) = nodes[i].children[j].children[k]
<1>1. ASSUME NEW nodes, NEW i PROVE NodeAt(nodes, <<i>>) = nodes[i]
  BY DEF NodeAt
<1>2. ASSUME NEW nodes, NEW i, NEW j PROVE NodeAt(nodes, <<i, j>>) = nodes[i].children[j]
  BY DEF NodeAt
<1>3. ASSUME NEW nodes, NEW i, NEW j, NEW k PROVE NodeAt(nodes, <<i, j, k>>) = nodes[i].children[j].children[k]
  BY DEF NodeAt
<1> QED BY <1>1, <1>2, <1>3

\* the sum of the values of a level's nodes
LEMMA NodesAdd ==
  ASSUME NEW nodes, NEW w, IsNodes(nodes, w), NEW by, \A i \in 1..Len(nodes) : by[i] = nodes[i].value
  PROVE  /\ Len(nodes) \in Nat /\ DOMAIN nodes = 1..Len(nodes) /\ IsFiniteSet(1..Len(nodes))
         /\ SumFunctionOnSet(by, 1..Len(nodes)) = w
<1> DEFINE n == Len(nodes)
           E == 1..n
           f == [i \in DOMAIN nodes |-> nodes[i].value]
<1>1. n \in Nat /\ DOMAIN nodes = 1..n
  BY DEF IsNodes
<1>2. IsFiniteSet(E)
  BY <1>1, UpTo
<1>3. DOMAIN f = E /\ \A i \in E : f[i] = nodes[i].value /\ f[i] \in Int
  BY <1>1 DEF IsNodes
<1>4. SumFunctionOnSet(f, E) = w
  <2>1. SumFunction(f) = w
    BY DEF IsNodes, SumNodes
  <2>2. SumFunction(f) = SumFunctionOnSet(f, DOMAIN f)
    BY SumFunctionIs
  <2> HIDE DEF f, E
  <2> QED BY <2>1, <2>2, <1>3
<1>5. \A i \in E : f[i] \in Int /\ f[i] = by[i]
  BY <1>3
<1>6. SumFunctionOnSet(by, E) = w
  <2> HIDE DEF f, E
  <2> QED BY <1>2, <1>4, <1>5, SumSame
<1> QED BY <1>1, <1>2, <1>6

\* a part for each node, of the sum that the node is worth
Shared(nodes, S, f, part) ==
  /\ \A k \in 1..Len(nodes) : part[k] \in SUBSET S
  /\ \A k \in 1..Len(nodes) : IsFiniteSet(part[k])
  /\ \A k \in 1..Len(nodes) : SumFunctionOnSet(f, part[k]) = nodes[k].value
  /\ \A x \in S : \E k \in 1..Len(nodes) : x \in part[k]
  /\ \A k, l \in 1..Len(nodes) : \A x \in S : x \in part[k] /\ x \in part[l] => k = l
  /\ \A x \in S : f[x] \in Int

\* what the parts of a level's nodes add up to
LEMMA LeavesBelow ==
  ASSUME NEW nodes, NEW w, IsNodes(nodes, w), NEW S, NEW f, NEW part, Shared(nodes, S, f, part)
  PROVE  IsFiniteSet(S) /\ SumFunctionOnSet(f, S) = w
<1> USE DEF Shared
<1> DEFINE E == 1..Len(nodes)
           by == [i \in E |-> nodes[i].value]
<1>1. IsFiniteSet(E) /\ SumFunctionOnSet(by, E) = w
  <2>1. \A i \in 1..Len(nodes) : by[i] = nodes[i].value
    OBVIOUS
  <2> HIDE DEF by
  <2> QED BY <2>1, NodesAdd
<1>0. IsFiniteSet(E)
  BY <1>1
<1>2. \A i \in E : by[i] = SumFunctionOnSet(f, part[i])
  OBVIOUS
<1>3. IsFiniteSet(S) /\ SumFunctionOnSet(f, S) = SumFunctionOnSet(by, E)
  <2>1. /\ \A k \in E : part[k] \in SUBSET S
        /\ \A k \in E : IsFiniteSet(part[k])
        /\ \A x \in S : \E k \in E : x \in part[k]
        /\ \A j, k \in E : \A x \in S : x \in part[j] /\ x \in part[k] => j = k
    OBVIOUS
  <2> HIDE DEF E, by
  <2>2. \A x \in S : f[x] \in Int
    OBVIOUS
  <2>3. IsFiniteSet(S)
    BY ONLY <1>0, <2>1, FiniteParts
  <2>4. SumFunctionOnSet(f, S) = SumFunctionOnSet(by, E)
    BY ONLY <1>0, <1>2, <2>1, <2>2, <2>3, SumOfParts
  <2> QED BY <2>3, <2>4
<1> QED BY <1>1, <1>3

LEMMA TupleFacts ==
  /\ \A i, j, x, y, z, w : <<i>> # <<x, y>> /\ <<i>> # <<x, y, z>> /\ <<i, j>> # <<x, y, z>>
  /\ \A i, x : <<i>> = <<x>> => i = x
  /\ \A i, j, x, y : <<i, j>> = <<x, y>> => i = x /\ j = y
  /\ \A i, j, k, x, y, z : <<i, j, k>> = <<x, y, z>> => i = x /\ j = y /\ k = z
<1>1. ASSUME NEW i, NEW j, NEW x, NEW y, NEW z PROVE <<i>> # <<x, y>> /\ <<i>> # <<x, y, z>> /\ <<i, j>> # <<x, y, z>>
  <2>1. Len(<<i>>) = 1 /\ Len(<<i, j>>) = 2 /\ Len(<<x, y>>) = 2 /\ Len(<<x, y, z>>) = 3
    OBVIOUS
  <2> QED BY <2>1
<1>2. ASSUME NEW i, NEW x, <<i>> = <<x>> PROVE i = x
  <2>1. <<i>>[1] = i /\ <<x>>[1] = x
    OBVIOUS
  <2> QED BY <1>2, <2>1
<1>3. ASSUME NEW i, NEW j, NEW x, NEW y, <<i, j>> = <<x, y>> PROVE i = x /\ j = y
  <2>1. <<i, j>>[1] = i /\ <<x, y>>[1] = x /\ <<i, j>>[2] = j /\ <<x, y>>[2] = y
    OBVIOUS
  <2> QED BY <1>3, <2>1
<1>4. ASSUME NEW i, NEW j, NEW k, NEW x, NEW y, NEW z, <<i, j, k>> = <<x, y, z>> PROVE i = x /\ j = y /\ k = z
  <2>1. /\ <<i, j, k>>[1] = i /\ <<x, y, z>>[1] = x /\ <<i, j, k>>[2] = j /\ <<x, y, z>>[2] = y
        /\ <<i, j, k>>[3] = k /\ <<x, y, z>>[3] = z
    OBVIOUS
  <2> QED BY <1>4, <2>1
<1> QED BY <1>1, <1>2, <1>3, <1>4

\* nodes of three levels have no more below them
LeafPlaces(nodes) == {q \in Places(nodes) : NodeAt(nodes, q).children = <<>>}
LeavesAt(nodes, i, j) ==
  {q \in LeafPlaces(nodes) : q = <<i, j>> \/ \E k \in DOMAIN nodes[i].children[j].children : q = <<i, j, k>>}
LeavesOf(nodes, i) ==
  {q \in LeafPlaces(nodes) : q = <<i>> \/ \E j \in DOMAIN nodes[i].children : q \in LeavesAt(nodes, i, j)}

\* a node of the second level
LeafKid(kid) ==
  /\ kid.value \in Nat
  /\ kid.children # <<>> => IsNodes(kid.children, kid.value)
  /\ DOMAIN kid.children = 1..Len(kid.children)
  /\ \A k \in 1..Len(kid.children) : kid.children[k].value \in Nat /\ kid.children[k].children = <<>>

LEMMA LeafKinds ==
  ASSUME NEW nodes, NEW w, Tree(nodes, w)
  PROVE  /\ DOMAIN nodes = 1..Len(nodes) /\ Len(nodes) \in Nat
         /\ \A i \in 1..Len(nodes) :
              /\ nodes[i].value \in Nat
              /\ nodes[i].children # <<>> => IsNodes(nodes[i].children, nodes[i].value)
              /\ DOMAIN nodes[i].children = 1..Len(nodes[i].children)
         /\ \A i \in 1..Len(nodes) : \A j \in 1..Len(nodes[i].children) : LeafKid(nodes[i].children[j])
<1>1. DOMAIN nodes = 1..Len(nodes) /\ Len(nodes) \in Nat /\ \A i \in 1..Len(nodes) : nodes[i].value \in Nat
  BY DEF Tree, IsNodes
<1>2. \A s, v : IsNodes(s, v) => DOMAIN s = 1..Len(s) /\ \A k \in 1..Len(s) : s[k].value \in Nat
  BY DEF IsNodes
<1>3. DOMAIN <<>> = 1..Len(<<>>) /\ ~(\E k \in 1..Len(<<>>) : TRUE)
  OBVIOUS
<1>4. ASSUME NEW i \in 1..Len(nodes)
      PROVE  /\ nodes[i].children # <<>> => IsNodes(nodes[i].children, nodes[i].value)
             /\ DOMAIN nodes[i].children = 1..Len(nodes[i].children)
             /\ \A j \in 1..Len(nodes[i].children) : nodes[i].children[j].value \in Nat
  <2>1. nodes[i].children # <<>> => IsNodes(nodes[i].children, nodes[i].value)
    BY Zenon DEF Tree
  <2>2. CASE nodes[i].children = <<>>
    BY <2>1, <2>2, <1>3
  <2>3. CASE nodes[i].children # <<>>
    BY <2>1, <2>3, <1>2
  <2> QED BY <2>1, <2>2, <2>3
<1>5. ASSUME NEW i \in 1..Len(nodes), NEW j \in 1..Len(nodes[i].children)
      PROVE  LeafKid(nodes[i].children[j])
  <2> DEFINE kid == nodes[i].children[j]
  <2>1. kid.children # <<>> => IsNodes(kid.children, kid.value)
    BY Zenon DEF Tree
  <2>2. \A k \in 1..Len(kid.children) : kid.children[k].children = <<>>
    BY Zenon DEF Tree
  <2>3. kid.value \in Nat
    BY <1>4
  <2> HIDE DEF kid
  <2>4. /\ DOMAIN kid.children = 1..Len(kid.children)
        /\ \A k \in 1..Len(kid.children) : kid.children[k].value \in Nat
    <3>1. CASE kid.children = <<>>
      BY <3>1, <1>3
    <3>2. CASE kid.children # <<>>
      BY <2>1, <3>2, <1>2
    <3> QED BY <3>1, <3>2
  <2>5. LeafKid(kid)
    BY <2>1, <2>2, <2>3, <2>4 DEF LeafKid
  <2> QED BY <2>5 DEF kid
<1> QED BY <1>1, <1>4, <1>5

LEMMA LeavesAdd ==
  ASSUME NEW nodes, NEW w, Tree(nodes, w)
  PROVE  /\ SumFunction(Leaves(nodes)) = w
         /\ DOMAIN Leaves(nodes) = LeafPlaces(nodes) /\ IsFiniteSet(LeafPlaces(nodes))
         /\ \A q \in LeafPlaces(nodes) : Leaves(nodes)[q] = NodeAt(nodes, q).value /\ Leaves(nodes)[q] \in Nat
<1> DEFINE L == LeafPlaces(nodes)
           f == Leaves(nodes)
           n == Len(nodes)
           Kids(i) == nodes[i].children
           Grand(i, j) == nodes[i].children[j].children
<1>1. DOMAIN f = L /\ \A q \in L : f[q] = NodeAt(nodes, q).value /\ q \in Places(nodes) /\ NodeAt(nodes, q).children = <<>>
  BY DEF Leaves, LeafPlaces
<1>2. n \in Nat /\ DOMAIN nodes = 1..n
  BY LeafKinds
<1>3. \A i \in 1..n : /\ nodes[i].value \in Nat /\ DOMAIN Kids(i) = 1..Len(Kids(i))
                      /\ Kids(i) # <<>> => IsNodes(Kids(i), nodes[i].value)
  BY LeafKinds
<1>4. ASSUME NEW i \in 1..n, NEW j \in 1..Len(Kids(i))
      PROVE  /\ Kids(i)[j].value \in Nat /\ DOMAIN Grand(i, j) = 1..Len(Grand(i, j))
             /\ Grand(i, j) # <<>> => IsNodes(Grand(i, j), Kids(i)[j].value)
             /\ \A k \in 1..Len(Grand(i, j)) : Grand(i, j)[k].value \in Nat /\ Grand(i, j)[k].children = <<>>
  <2>1. LeafKid(nodes[i].children[j])
    BY LeafKinds
  <2> QED BY <2>1 DEF LeafKid
<1>5. \A q : q \in Places(nodes) <=>
           \/ \E i \in 1..n : q = <<i>>
           \/ \E i \in 1..n : \E j \in 1..Len(Kids(i)) : q = <<i, j>>
           \/ \E i \in 1..n : \E j \in 1..Len(Kids(i)) : \E k \in 1..Len(Grand(i, j)) : q = <<i, j, k>>
  <2>1. ASSUME NEW q
        PROVE  q \in Places(nodes) <=>
                 \/ \E i \in 1..n : q = <<i>>
                 \/ \E i \in 1..n : \E j \in DOMAIN Kids(i) : q = <<i, j>>
                 \/ \E i \in 1..n : \E j \in DOMAIN Kids(i) : \E k \in DOMAIN Grand(i, j) : q = <<i, j, k>>
    BY <1>2, PlaceKinds
  <2>2. \A i \in 1..n : DOMAIN Kids(i) = 1..Len(Kids(i))
    BY <1>3
  <2>3. \A i \in 1..n : \A j \in 1..Len(Kids(i)) : DOMAIN Grand(i, j) = 1..Len(Grand(i, j))
    BY <1>4
  <2> HIDE DEF Kids, Grand, n
  <2>4. \A q : (\E i \in 1..n : \E j \in DOMAIN Kids(i) : q = <<i, j>>)
                 <=> \E i \in 1..n : \E j \in 1..Len(Kids(i)) : q = <<i, j>>
    BY <2>2
  <2>5. \A q : (\E i \in 1..n : \E j \in DOMAIN Kids(i) : \E k \in DOMAIN Grand(i, j) : q = <<i, j, k>>)
                 <=> \E i \in 1..n : \E j \in 1..Len(Kids(i)) : \E k \in 1..Len(Grand(i, j)) : q = <<i, j, k>>
    BY <2>2, <2>3
  <2>6. \A q : (\E i \in DOMAIN nodes : q = <<i>>) <=> \E i \in 1..n : q = <<i>>
    BY <1>2
  <2>7. ASSUME NEW q
        PROVE  q \in Places(nodes) <=>
                 \/ \E i \in 1..n : q = <<i>>
                 \/ \E i \in 1..n : \E j \in 1..Len(Kids(i)) : q = <<i, j>>
                 \/ \E i \in 1..n : \E j \in 1..Len(Kids(i)) : \E k \in 1..Len(Grand(i, j)) : q = <<i, j, k>>
    <3>1. (\E i \in 1..n : \E j \in DOMAIN Kids(i) : q = <<i, j>>)
             <=> \E i \in 1..n : \E j \in 1..Len(Kids(i)) : q = <<i, j>>
      BY <2>4
    <3>2. (\E i \in 1..n : \E j \in DOMAIN Kids(i) : \E k \in DOMAIN Grand(i, j) : q = <<i, j, k>>)
             <=> \E i \in 1..n : \E j \in 1..Len(Kids(i)) : \E k \in 1..Len(Grand(i, j)) : q = <<i, j, k>>
      BY <2>5
    <3> QED BY ZenonT(60), <2>1, <3>1, <3>2
  <2> QED BY <2>7
<1>6. \A i : NodeAt(nodes, <<i>>) = nodes[i]
  BY NodeAtIs
<1>7. \A i, j : NodeAt(nodes, <<i, j>>) = Kids(i)[j]
  <2>1. \A s, i, j : NodeAt(s, <<i, j>>) = s[i].children[j]
    BY NodeAtIs
  <2> QED BY Zenon, <2>1
<1>8. \A i, j, k : NodeAt(nodes, <<i, j, k>>) = Grand(i, j)[k]
  <2>1. ASSUME NEW i, NEW j, NEW k PROVE NodeAt(nodes, <<i, j, k>>) = nodes[i].children[j].children[k]
    BY NodeAtIs
  <2> QED BY <2>1
<1>9. \A q \in L : f[q] \in Nat
  <2>1. \A q \in L : q \in Places(nodes) /\ f[q] = NodeAt(nodes, q).value
    BY <1>1
  <2>2. ASSUME NEW q \in Places(nodes) PROVE NodeAt(nodes, q).value \in Nat
    <3> HIDE DEF Kids, Grand, n
    <3>1. CASE \E i \in 1..n : q = <<i>>
      BY <3>1, <1>3, <1>6
    <3>2. CASE \E i \in 1..n : \E j \in 1..Len(Kids(i)) : q = <<i, j>>
      BY <3>2, <1>4, <1>7
    <3>3. CASE \E i \in 1..n : \E j \in 1..Len(Kids(i)) : \E k \in 1..Len(Grand(i, j)) : q = <<i, j, k>>
      <4>1. PICK i \in 1..n : \E j \in 1..Len(Kids(i)) : \E k \in 1..Len(Grand(i, j)) : q = <<i, j, k>>
        BY <3>3
      <4>2. PICK j \in 1..Len(Kids(i)) : \E k \in 1..Len(Grand(i, j)) : q = <<i, j, k>>
        BY <4>1
      <4>3. PICK k \in 1..Len(Grand(i, j)) : q = <<i, j, k>>
        BY <4>2
      <4>4. Grand(i, j)[k].value \in Nat
        BY <1>4
      <4> QED BY <4>3, <4>4, <1>8
    <3> QED BY <3>1, <3>2, <3>3, <1>5
  <2> QED BY <2>1, <2>2
<1>10. \A q \in L : f[q] \in Int
  BY <1>9
<1>11. ASSUME NEW i \in 1..n, NEW j \in 1..Len(Kids(i))
       PROVE  IsFiniteSet(LeavesAt(nodes, i, j)) /\ SumFunctionOnSet(f, LeavesAt(nodes, i, j)) = Kids(i)[j].value
  <2> DEFINE S == LeavesAt(nodes, i, j)
  <2>1. \A q : q \in S <=> q \in L /\ (q = <<i, j>> \/ \E k \in 1..Len(Grand(i, j)) : q = <<i, j, k>>)
    BY <1>4 DEF LeavesAt
  <2>2. CASE Grand(i, j) = <<>>
    <3>1. <<i, j>> \in L
      BY <2>2, <1>5, <1>7 DEF LeafPlaces
    <3>2. S = {<<i, j>>}
      <4>1. \A k \in 1..Len(Grand(i, j)) : FALSE
        BY <2>2
      <4> HIDE DEF L, Grand, Kids
      <4> QED BY <2>1, <3>1, <4>1
    <3>3. f[<<i, j>>] = Kids(i)[j].value
      BY <3>1, <1>1, <1>7
    <3>4. f[<<i, j>>] \in Int
      BY <3>1, <1>10
    <3> HIDE DEF f, S, L
    <3>5. SumFunctionOnSet(f, {<<i, j>>}) = f[<<i, j>>]
      BY <3>4, SumOne
    <3>6. IsFiniteSet({<<i, j>>})
      BY FS_Singleton
    <3> QED BY Zenon, <3>2, <3>3, <3>5, <3>6 DEF S
  <2>3. CASE Grand(i, j) # <<>>
    <3> DEFINE m == Len(Grand(i, j))
               part == [k \in 1..m |-> {<<i, j, k>>}]
    <3>1. IsNodes(Grand(i, j), Kids(i)[j].value)
      BY <2>3, <1>4
    <3>2. <<i, j>> \notin L
      BY <2>3, <1>1, <1>7
    <3>3. \A k \in 1..m : <<i, j, k>> \in L
      <4>1. ASSUME NEW k \in 1..m PROVE <<i, j, k>> \in L
        <5>1. NodeAt(nodes, <<i, j, k>>) = Grand(i, j)[k] /\ Grand(i, j)[k].children = <<>>
          <6>1. NodeAt(nodes, <<i, j, k>>) = Grand(i, j)[k]
            BY <1>8
          <6>2. Grand(i, j)[k].children = <<>>
            BY <1>4
          <6> QED BY <6>1, <6>2
        <5>2. <<i, j, k>> \in Places(nodes)
          BY <1>5
        <5> QED BY <5>1, <5>2 DEF LeafPlaces
      <4> QED BY <4>1
    <3>4. \A q : q \in S <=> \E k \in 1..m : q = <<i, j, k>>
      <4> HIDE DEF L, Grand, Kids, S
      <4> QED BY <2>1, <3>2, <3>3
    <3>5. (\A k \in 1..m : part[k] \in SUBSET S) /\ \A k \in 1..m : IsFiniteSet(part[k])
      <4>1. ASSUME NEW k \in 1..m PROVE {<<i, j, k>>} \in SUBSET S /\ IsFiniteSet({<<i, j, k>>})
        BY <3>4, FS_Singleton
      <4> QED BY <4>1
    <3>6. \A k \in 1..m : SumFunctionOnSet(f, part[k]) = Grand(i, j)[k].value
      <4>1. ASSUME NEW k \in 1..m PROVE SumFunctionOnSet(f, {<<i, j, k>>}) = Grand(i, j)[k].value
        <5>1. f[<<i, j, k>>] = Grand(i, j)[k].value
          BY <3>3, <1>1, <1>8
        <5>2. f[<<i, j, k>>] \in Int
          BY <3>3, <1>10
        <5> HIDE DEF f
        <5> QED BY <5>1, <5>2, SumOne
      <4> QED BY <4>1
    <3>7. \A x \in S : \E k \in 1..m : x \in part[k]
      BY <3>4
    <3>8. \A k, l \in 1..m : \A x \in S : x \in part[k] /\ x \in part[l] => k = l
      <4>1. \A k \in 1..m : part[k] = {<<i, j, k>>}
        OBVIOUS
      <4> HIDE DEF part, m
      <4> QED BY <4>1, TupleFacts
    <3>9. \A x \in S : f[x] \in Int
      BY <1>10, <2>1
    <3> HIDE DEF f, S, L, part, Grand, Kids
    <3> DEFINE kin == Grand(i, j)
               v == Kids(i)[j].value
    <3>10. IsNodes(kin, v) /\ Shared(kin, S, f, part)
      BY ONLY <3>1, <3>5, <3>6, <3>7, <3>8, <3>9 DEF m, Shared
    <3> HIDE DEF kin, v
    <3>11. IsFiniteSet(S) /\ SumFunctionOnSet(f, S) = v
      BY ONLY <3>10, LeavesBelow
    <3> QED BY <3>11 DEF S, v
  <2> QED BY <2>2, <2>3
<1>12. ASSUME NEW i \in 1..n
       PROVE  IsFiniteSet(LeavesOf(nodes, i)) /\ SumFunctionOnSet(f, LeavesOf(nodes, i)) = nodes[i].value
  <2> DEFINE S == LeavesOf(nodes, i)
  <2>1. \A q : q \in S <=> q \in L /\ (q = <<i>> \/ \E j \in 1..Len(Kids(i)) : q \in LeavesAt(nodes, i, j))
    BY <1>3 DEF LeavesOf
  <2>2. CASE Kids(i) = <<>>
    <3>1. <<i>> \in L
      BY <2>2, <1>5, <1>6 DEF LeafPlaces
    <3>2. S = {<<i>>}
      <4>1. \A k \in 1..Len(Kids(i)) : FALSE
        BY <2>2
      <4> HIDE DEF L, Grand, Kids
      <4> QED BY <2>1, <3>1, <4>1
    <3>3. f[<<i>>] = nodes[i].value
      BY <3>1, <1>1, <1>6
    <3>4. f[<<i>>] \in Int
      BY <3>1, <1>10
    <3> HIDE DEF f, S, L
    <3>5. SumFunctionOnSet(f, {<<i>>}) = f[<<i>>]
      BY <3>4, SumOne
    <3>6. IsFiniteSet({<<i>>})
      BY FS_Singleton
    <3> QED BY Zenon, <3>2, <3>3, <3>5, <3>6 DEF S
  <2>3. CASE Kids(i) # <<>>
    <3> DEFINE m == Len(Kids(i))
               part == [j \in 1..m |-> LeavesAt(nodes, i, j)]
    <3>1. IsNodes(Kids(i), nodes[i].value)
      BY <2>3, <1>3
    <3>2. <<i>> \notin L
      BY <2>3, <1>1, <1>6
    <3>3. \A j \in 1..m : LeavesAt(nodes, i, j) \subseteq L
      BY DEF LeavesAt
    <3>4. \A q : q \in S <=> \E j \in 1..m : q \in LeavesAt(nodes, i, j)
      <4> HIDE DEF L, Kids, S
      <4> QED BY <2>1, <3>2, <3>3
    <3>5. (\A j \in 1..m : part[j] \in SUBSET S) /\ \A j \in 1..m : IsFiniteSet(part[j])
      <4>1. ASSUME NEW j \in 1..m PROVE LeavesAt(nodes, i, j) \in SUBSET S /\ IsFiniteSet(LeavesAt(nodes, i, j))
        BY <3>4, <1>11
      <4> QED BY <4>1
    <3>6. \A j \in 1..m : SumFunctionOnSet(f, part[j]) = Kids(i)[j].value
      <4>1. ASSUME NEW j \in 1..m PROVE SumFunctionOnSet(f, LeavesAt(nodes, i, j)) = Kids(i)[j].value
        BY <1>11
      <4> QED BY <4>1
    <3>7. \A x \in S : \E j \in 1..m : x \in part[j]
      BY <3>4
    <3>8. \A j, l \in 1..m : \A x \in S : x \in part[j] /\ x \in part[l] => j = l
      <4>1. \A j \in 1..m : part[j] = LeavesAt(nodes, i, j)
        OBVIOUS
      <4>2. ASSUME NEW j \in 1..m, NEW l \in 1..m, NEW x, x \in LeavesAt(nodes, i, j), x \in LeavesAt(nodes, i, l)
            PROVE  j = l
        <5>1. x = <<i, j>> \/ \E k : x = <<i, j, k>>
          BY <4>2 DEF LeavesAt
        <5>2. x = <<i, l>> \/ \E k : x = <<i, l, k>>
          BY <4>2 DEF LeavesAt
        <5> QED BY <5>1, <5>2, TupleFacts
      <4> HIDE DEF part, m
      <4> QED BY <4>1, <4>2
    <3>9. \A x \in S : f[x] \in Int
      BY <1>10, <2>1
    <3> HIDE DEF f, S, L, part, Grand, Kids
    <3> DEFINE kin == Kids(i)
               v == nodes[i].value
    <3>10. IsNodes(kin, v) /\ Shared(kin, S, f, part)
      BY ONLY <3>1, <3>5, <3>6, <3>7, <3>8, <3>9 DEF m, Shared
    <3> HIDE DEF kin, v
    <3>11. IsFiniteSet(S) /\ SumFunctionOnSet(f, S) = v
      BY ONLY <3>10, LeavesBelow
    <3> QED BY <3>11 DEF S, v
  <2> QED BY <2>2, <2>3
<1>13. IsFiniteSet(L) /\ SumFunctionOnSet(f, L) = w
  <2> DEFINE part == [i \in 1..n |-> LeavesOf(nodes, i)]
  <2>1. IsNodes(nodes, w)
    BY DEF Tree
  <2>2. (\A i \in 1..n : part[i] \in SUBSET L) /\ \A i \in 1..n : IsFiniteSet(part[i])
    <3>1. \A i \in 1..n : LeavesOf(nodes, i) \subseteq L
      BY DEF LeavesOf
    <3> QED BY <3>1, <1>12
  <2>3. \A i \in 1..n : SumFunctionOnSet(f, part[i]) = nodes[i].value
    BY <1>12
  <2>4. \A x \in L : \E i \in 1..n : x \in part[i]
    <3>1. ASSUME NEW x \in L PROVE \E i \in 1..n : x \in LeavesOf(nodes, i)
      <4>0. x \in Places(nodes)
        BY <1>1
      <4>1. CASE \E i \in 1..n : x = <<i>>
        BY <4>1 DEF LeavesOf
      <4>2. CASE \E i \in 1..n : \E j \in 1..Len(Kids(i)) : x = <<i, j>>
        <5>1. PICK i \in 1..n : \E j \in 1..Len(Kids(i)) : x = <<i, j>>
          BY <4>2
        <5>2. PICK j \in 1..Len(Kids(i)) : x = <<i, j>>
          BY <5>1
        <5>3. x \in LeavesAt(nodes, i, j)
          BY <5>2 DEF LeavesAt
        <5> QED BY <5>3, <1>3 DEF LeavesOf
      <4>3. CASE \E i \in 1..n : \E j \in 1..Len(Kids(i)) : \E k \in 1..Len(Grand(i, j)) : x = <<i, j, k>>
        <5>1. PICK i \in 1..n : \E j \in 1..Len(Kids(i)) : \E k \in 1..Len(Grand(i, j)) : x = <<i, j, k>>
          BY <4>3
        <5>2. PICK j \in 1..Len(Kids(i)) : \E k \in 1..Len(Grand(i, j)) : x = <<i, j, k>>
          BY <5>1
        <5>3. x \in LeavesAt(nodes, i, j)
          BY <5>2, <1>4 DEF LeavesAt
        <5> QED BY <5>3, <1>3 DEF LeavesOf
      <4> HIDE DEF n, Kids, Grand
      <4> QED BY <4>0, <4>1, <4>2, <4>3, <1>5
    <3> QED BY <3>1
  <2>5. \A i, l \in 1..n : \A x \in L : x \in part[i] /\ x \in part[l] => i = l
    <3>1. \A i \in 1..n : part[i] = LeavesOf(nodes, i)
      OBVIOUS
    <3>2. ASSUME NEW i \in 1..n, NEW l \in 1..n, NEW x, x \in LeavesOf(nodes, i), x \in LeavesOf(nodes, l)
          PROVE  i = l
      <4>1. \A h : x \in LeavesOf(nodes, h) => x = <<h>> \/ (\E j : x = <<h, j>>) \/ (\E j : \E k : x = <<h, j, k>>)
        BY DEF LeavesAt, LeavesOf
      <4>2. x = <<i>> \/ (\E j : x = <<i, j>>) \/ (\E j : \E k : x = <<i, j, k>>)
        BY <4>1, <3>2
      <4>3. x = <<l>> \/ (\E j : x = <<l, j>>) \/ (\E j : \E k : x = <<l, j, k>>)
        BY <4>1, <3>2
      <4> QED BY <4>2, <4>3, TupleFacts
    <3> HIDE DEF part
    <3> QED BY <3>1, <3>2
  <2> HIDE DEF f, L, part
  <2>6. Shared(nodes, L, f, part)
    BY ONLY <2>2, <2>3, <2>4, <2>5, <1>10 DEF n, Shared
  <2> QED BY ONLY <2>1, <2>6, LeavesBelow
<1>14. SumFunction(f) = w
  <2>1. SumFunction(f) = SumFunctionOnSet(f, DOMAIN f)
    BY SumFunctionIs
  <2> HIDE DEF f, L
  <2> QED BY <2>1, <1>1, <1>13
<1> QED BY <1>1, <1>9, <1>13, <1>14

LEMMA SubTuples ==
  /\ \A x : SubSeq(<<x>>, 1, 1) = <<x>>
  /\ \A x, y : SubSeq(<<x, y>>, 1, 1) = <<x>> /\ SubSeq(<<x, y>>, 1, 2) = <<x, y>>
  /\ \A x, y, z : /\ SubSeq(<<x, y, z>>, 1, 1) = <<x>> /\ SubSeq(<<x, y, z>>, 1, 2) = <<x, y>>
                  /\ SubSeq(<<x, y, z>>, 1, 3) = <<x, y, z>>
<1>1. ASSUME NEW s, NEW n \in 1..3, s \in [1..n -> {s[i] : i \in 1..n}], NEW m \in 1..n
      PROVE  SubSeq(s, 1, m) = [i \in 1..m |-> s[i]]
  <2> DEFINE X == {s[i] : i \in 1..n}
  <2>1. s \in Seq(X) /\ Len(s) = n
    BY <1>1, LenIs
  <2>2. /\ SubSeq(s, 1, m) \in Seq(X) /\ DOMAIN SubSeq(s, 1, m) = 1..m
        /\ \A i \in 1..m : SubSeq(s, 1, m)[i] = s[i]
    <3> HIDE DEF X
    <3>1. m \in 0..Len(s)
      BY <2>1
    <3> QED BY <2>1, <3>1, PrefixSum
  <2> QED BY <2>2
<1>2. ASSUME NEW x PROVE SubSeq(<<x>>, 1, 1) = <<x>>
  <2>1. <<x>> = [i \in 1..1 |-> <<x>>[i]]
    OBVIOUS
  <2>2. <<x>> \in [1..1 -> {<<x>>[i] : i \in 1..1}] /\ 1 \in 1..3 /\ 1 \in 1..1
    BY <2>1
  <2>3. SubSeq(<<x>>, 1, 1) = [i \in 1..1 |-> <<x>>[i]]
    BY <1>1, <2>2
  <2> QED BY <2>1, <2>3
<1>3. ASSUME NEW x, NEW y PROVE SubSeq(<<x, y>>, 1, 1) = <<x>> /\ SubSeq(<<x, y>>, 1, 2) = <<x, y>>
  <2> DEFINE s == <<x, y>>
  <2>1. s = [i \in 1..2 |-> s[i]]
    OBVIOUS
  <2>2. s \in [1..2 -> {s[i] : i \in 1..2}] /\ 2 \in 1..3 /\ 1 \in 1..2 /\ 2 \in 1..2
    BY <2>1
  <2>3. SubSeq(s, 1, 1) = [i \in 1..1 |-> s[i]] /\ SubSeq(s, 1, 2) = [i \in 1..2 |-> s[i]]
    <3> HIDE DEF s
    <3> QED BY <1>1, <2>2
  <2>4. [i \in 1..1 |-> s[i]] = <<x>>
    OBVIOUS
  <2> HIDE DEF s
  <2>5. SubSeq(s, 1, 1) = <<x>> /\ SubSeq(s, 1, 2) = s
    BY Zenon, <2>1, <2>3, <2>4
  <2> QED BY <2>5 DEF s
<1>4. ASSUME NEW x, NEW y, NEW z
      PROVE  /\ SubSeq(<<x, y, z>>, 1, 1) = <<x>> /\ SubSeq(<<x, y, z>>, 1, 2) = <<x, y>>
             /\ SubSeq(<<x, y, z>>, 1, 3) = <<x, y, z>>
  <2> DEFINE s == <<x, y, z>>
  <2>1. s = [i \in 1..3 |-> s[i]]
    OBVIOUS
  <2>2. s \in [1..3 -> {s[i] : i \in 1..3}] /\ 3 \in 1..3 /\ 1 \in 1..3 /\ 2 \in 1..3
    BY <2>1
  <2>3. /\ SubSeq(s, 1, 1) = [i \in 1..1 |-> s[i]] /\ SubSeq(s, 1, 2) = [i \in 1..2 |-> s[i]]
        /\ SubSeq(s, 1, 3) = [i \in 1..3 |-> s[i]]
    <3> HIDE DEF s
    <3> QED BY <1>1, <2>2
  <2>4. [i \in 1..1 |-> s[i]] = <<x>>
    OBVIOUS
  <2>5. [i \in 1..2 |-> s[i]] = <<x, y>>
    OBVIOUS
  <2> HIDE DEF s
  <2>6. SubSeq(s, 1, 1) = <<x>> /\ SubSeq(s, 1, 2) = <<x, y>> /\ SubSeq(s, 1, 3) = s
    BY Zenon, <2>1, <2>3, <2>4, <2>5
  <2> QED BY <2>6 DEF s
<1> QED BY <1>2, <1>3, <1>4

\* of one, two or three names
LEMMA PrefixFacts ==
  /\ \A a, x : ~IsStrictPrefix(<<a>>, <<x>>)
  /\ \A a, x, y : /\ IsStrictPrefix(<<a>>, <<x, y>>) <=> a = x
                  /\ ~IsStrictPrefix(<<x, y>>, <<a>>)
  /\ \A a, b, x, y : ~IsStrictPrefix(<<a, b>>, <<x, y>>)
  /\ \A a, x, y, z : /\ IsStrictPrefix(<<a>>, <<x, y, z>>) <=> a = x
                     /\ ~IsStrictPrefix(<<x, y, z>>, <<a>>)
  /\ \A a, b, x, y, z : /\ IsStrictPrefix(<<a, b>>, <<x, y, z>>) <=> a = x /\ b = y
                        /\ ~IsStrictPrefix(<<x, y, z>>, <<a, b>>)
  /\ \A a, b, c, x, y, z : ~IsStrictPrefix(<<a, b, c>>, <<x, y, z>>)
<1> USE DEF IsStrictPrefix, IsPrefix
<1>1. \A s : Len(<<s>>) = 1
  OBVIOUS
<1>2. \A s, t : Len(<<s, t>>) = 2
  OBVIOUS
<1>3. \A s, t, u : Len(<<s, t, u>>) = 3
  OBVIOUS
<1>4. ASSUME NEW a, NEW x PROVE ~IsStrictPrefix(<<a>>, <<x>>)
  BY <1>1, SubTuples
<1>5. ASSUME NEW a, NEW x, NEW y
      PROVE  (IsStrictPrefix(<<a>>, <<x, y>>) <=> a = x) /\ ~IsStrictPrefix(<<x, y>>, <<a>>)
  BY <1>1, <1>2, SubTuples, TupleFacts
<1>6. ASSUME NEW a, NEW b, NEW x, NEW y PROVE ~IsStrictPrefix(<<a, b>>, <<x, y>>)
  BY <1>2, SubTuples
<1>7. ASSUME NEW a, NEW x, NEW y, NEW z
      PROVE  (IsStrictPrefix(<<a>>, <<x, y, z>>) <=> a = x) /\ ~IsStrictPrefix(<<x, y, z>>, <<a>>)
  BY <1>1, <1>3, SubTuples, TupleFacts
<1>8. ASSUME NEW a, NEW b, NEW x, NEW y, NEW z
      PROVE  (IsStrictPrefix(<<a, b>>, <<x, y, z>>) <=> (a = x /\ b = y)) /\ ~IsStrictPrefix(<<x, y, z>>, <<a, b>>)
  BY <1>2, <1>3, SubTuples, TupleFacts
<1>9. ASSUME NEW a, NEW b, NEW c, NEW x, NEW y, NEW z PROVE ~IsStrictPrefix(<<a, b, c>>, <<x, y, z>>)
  BY <1>3, SubTuples
<1> QED BY Zenon, <1>4, <1>5, <1>6, <1>7, <1>8, <1>9

\* A node's path: the names that lead to it.
LEMMA PathIs ==
  ASSUME NEW nodes
  PROVE  /\ DOMAIN Flatten(nodes) = Places(nodes)
         /\ \A p \in Places(nodes) : Flatten(nodes)[p].value = NodeAt(nodes, p).value
         /\ \A i : <<i>> \in Places(nodes) => Flatten(nodes)[<<i>>].path = <<nodes[i].name>>
         /\ \A i, j : <<i, j>> \in Places(nodes) =>
              Flatten(nodes)[<<i, j>>].path = <<nodes[i].name, nodes[i].children[j].name>>
         /\ \A i, j, k : <<i, j, k>> \in Places(nodes) =>
              Flatten(nodes)[<<i, j, k>>].path
                = <<nodes[i].name, nodes[i].children[j].name, nodes[i].children[j].children[k].name>>
<1> DEFINE rows == Flatten(nodes)
           Path(p) == [d \in DOMAIN p |-> NodeAt(nodes, SubSeq(p, 1, d)).name]
<1>1. DOMAIN rows = Places(nodes) /\ \A p \in Places(nodes) : rows[p].value = NodeAt(nodes, p).value /\ rows[p].path = Path(p)
  BY DEF Flatten
<1>2. ASSUME NEW i PROVE Path(<<i>>) = <<nodes[i].name>>
  <2>1. DOMAIN <<i>> = 1..1 /\ DOMAIN <<nodes[i].name>> = 1..1
    OBVIOUS
  <2>2. NodeAt(nodes, SubSeq(<<i>>, 1, 1)) = nodes[i]
    <3>1. SubSeq(<<i>>, 1, 1) = <<i>>
      BY SubTuples
    <3> QED BY <3>1, NodeAtIs
  <2>3. DOMAIN Path(<<i>>) = 1..1
    BY <2>1
  <2>4. Path(<<i>>)[1] = nodes[i].name
    BY <2>1, <2>2
  <2>5. Path(<<i>>) = [d \in 1..1 |-> Path(<<i>>)[d]]
    BY <2>1
  <2> HIDE DEF Path
  <2> QED BY <2>4, <2>5
<1>3. ASSUME NEW i, NEW j PROVE Path(<<i, j>>) = <<nodes[i].name, nodes[i].children[j].name>>
  <2>1. DOMAIN <<i, j>> = 1..2
    OBVIOUS
  <2>2. SubSeq(<<i, j>>, 1, 1) = <<i>> /\ SubSeq(<<i, j>>, 1, 2) = <<i, j>>
    BY SubTuples
  <2>3. NodeAt(nodes, SubSeq(<<i, j>>, 1, 1)) = nodes[i]
    <3>1. NodeAt(nodes, <<i>>) = nodes[i]
      BY NodeAtIs
    <3> QED BY Zenon, <3>1, <2>2
  <2>4. NodeAt(nodes, SubSeq(<<i, j>>, 1, 2)) = nodes[i].children[j]
    <3>1. NodeAt(nodes, <<i, j>>) = nodes[i].children[j]
      BY NodeAtIs
    <3> QED BY Zenon, <3>1, <2>2
  <2>5. Path(<<i, j>>)[1] = nodes[i].name
    BY <2>1, <2>3
  <2>6. Path(<<i, j>>)[2] = nodes[i].children[j].name
    BY <2>1, <2>4
  <2>7. Path(<<i, j>>) = [d \in 1..2 |-> Path(<<i, j>>)[d]]
    BY <2>1
  <2> HIDE DEF Path
  <2> QED BY <2>5, <2>6, <2>7
<1>4. ASSUME NEW i, NEW j, NEW k
      PROVE  Path(<<i, j, k>>) = <<nodes[i].name, nodes[i].children[j].name, nodes[i].children[j].children[k].name>>
  <2>1. DOMAIN <<i, j, k>> = 1..3
    OBVIOUS
  <2>2. SubSeq(<<i, j, k>>, 1, 1) = <<i>> /\ SubSeq(<<i, j, k>>, 1, 2) = <<i, j>> /\ SubSeq(<<i, j, k>>, 1, 3) = <<i, j, k>>
    BY SubTuples
  <2>3. NodeAt(nodes, SubSeq(<<i, j, k>>, 1, 1)) = nodes[i]
    <3>1. NodeAt(nodes, <<i>>) = nodes[i]
      BY NodeAtIs
    <3> QED BY Zenon, <3>1, <2>2
  <2>4. NodeAt(nodes, SubSeq(<<i, j, k>>, 1, 2)) = nodes[i].children[j]
    <3>1. NodeAt(nodes, <<i, j>>) = nodes[i].children[j]
      BY NodeAtIs
    <3> QED BY Zenon, <3>1, <2>2
  <2>5. NodeAt(nodes, SubSeq(<<i, j, k>>, 1, 3)) = nodes[i].children[j].children[k]
    <3>1. NodeAt(nodes, <<i, j, k>>) = nodes[i].children[j].children[k]
      BY NodeAtIs
    <3> QED BY Zenon, <3>1, <2>2
  <2>6. Path(<<i, j, k>>)[1] = nodes[i].name
    BY <2>1, <2>3
  <2>7. Path(<<i, j, k>>)[2] = nodes[i].children[j].name
    BY <2>1, <2>4
  <2>8. Path(<<i, j, k>>)[3] = nodes[i].children[j].children[k].name
    BY <2>1, <2>5
  <2>9. Path(<<i, j, k>>) = [d \in 1..3 |-> Path(<<i, j, k>>)[d]]
    BY <2>1
  <2> HIDE DEF Path
  <2> QED BY <2>6, <2>7, <2>8, <2>9
<1>5. \A p \in Places(nodes) : rows[p].path = Path(p)
  BY <1>1
<1> HIDE DEF rows, Path
<1>6. ASSUME NEW i, <<i>> \in Places(nodes) PROVE rows[<<i>>].path = <<nodes[i].name>>
  BY <1>2, <1>5, <1>6
<1>7. ASSUME NEW i, NEW j, <<i, j>> \in Places(nodes)
      PROVE  rows[<<i, j>>].path = <<nodes[i].name, nodes[i].children[j].name>>
  BY <1>3, <1>5, <1>7
<1>8. ASSUME NEW i, NEW j, NEW k, <<i, j, k>> \in Places(nodes)
      PROVE  rows[<<i, j, k>>].path = <<nodes[i].name, nodes[i].children[j].name, nodes[i].children[j].children[k].name>>
  BY <1>4, <1>5, <1>8
<1>9. DOMAIN rows = Places(nodes) /\ \A p \in Places(nodes) : rows[p].value = NodeAt(nodes, p).value
  BY <1>1
<1> QED BY Zenon, <1>6, <1>7, <1>8, <1>9 DEF rows

\* The table of the hierarchy: no two rows have one path, and those that no
\* other continues are the leaves.
LEMMA FlattenTold ==
  ASSUME NEW nodes, NEW w, Tree(nodes, w)
  PROVE  LET rows == Flatten(nodes)
             last == {p \in DOMAIN rows : \A q \in DOMAIN rows : ~IsStrictPrefix(rows[p].path, rows[q].path)}
         IN /\ \A p, q \in DOMAIN rows : rows[p].path = rows[q].path => p = q
            /\ SumFunction([p \in last |-> rows[p].value]) = w
<1> DEFINE rows == Flatten(nodes)
           P == Places(nodes)
           n == Len(nodes)
           Kids(i) == nodes[i].children
           Grand(i, j) == nodes[i].children[j].children
           A(i) == nodes[i].name
           B(i, j) == nodes[i].children[j].name
           C(i, j, k) == nodes[i].children[j].children[k].name
           last == {p \in DOMAIN rows : \A q \in DOMAIN rows : ~IsStrictPrefix(rows[p].path, rows[q].path)}
<1>1. DOMAIN rows = P /\ \A p \in P : rows[p].value = NodeAt(nodes, p).value
  BY PathIs
<1>2. \A i : <<i>> \in P => rows[<<i>>].path = <<A(i)>>
  BY PathIs
<1>3. \A i, j : <<i, j>> \in P => rows[<<i, j>>].path = <<A(i), B(i, j)>>
  BY PathIs
<1>4. ASSUME NEW i, NEW j, NEW k, <<i, j, k>> \in P
      PROVE  rows[<<i, j, k>>].path = <<A(i), B(i, j), C(i, j, k)>>
  BY <1>4, PathIs
<1>5. ASSUME NEW p \in P
      PROVE  \/ \E i \in 1..n : p = <<i>>
             \/ \E i \in 1..n : \E j \in 1..Len(Kids(i)) : p = <<i, j>>
             \/ \E i \in 1..n : \E j \in 1..Len(Kids(i)) : \E k \in 1..Len(Grand(i, j)) : p = <<i, j, k>>
  <2>0. DOMAIN nodes = 1..n /\ \A i \in 1..n : DOMAIN Kids(i) = 1..Len(Kids(i))
    BY LeafKinds
  <2>1. ASSUME NEW i \in 1..n, NEW j \in 1..Len(Kids(i)) PROVE DOMAIN Grand(i, j) = 1..Len(Grand(i, j))
    BY LeafKinds DEF LeafKid
  <2>2. \/ \E i \in 1..n : p = <<i>>
        \/ \E i \in 1..n : \E j \in DOMAIN Kids(i) : p = <<i, j>>
        \/ \E i \in 1..n : \E j \in DOMAIN Kids(i) : \E k \in DOMAIN Grand(i, j) : p = <<i, j, k>>
    BY <2>0, PlaceKinds
  <2> HIDE DEF n, Kids, Grand
  <2> QED BY <2>0, <2>1, <2>2
<1>6. /\ \A i \in 1..n : <<i>> \in P
      /\ \A i \in 1..n : \A j \in 1..Len(Kids(i)) : <<i, j>> \in P
      /\ \A i \in 1..n : \A j \in 1..Len(Kids(i)) : \A k \in 1..Len(Grand(i, j)) : <<i, j, k>> \in P
  <2>0. DOMAIN nodes = 1..n /\ \A i \in 1..n : DOMAIN Kids(i) = 1..Len(Kids(i))
    BY LeafKinds
  <2>1. ASSUME NEW i \in 1..n, NEW j \in 1..Len(Kids(i)) PROVE DOMAIN Grand(i, j) = 1..Len(Grand(i, j))
    BY LeafKinds DEF LeafKid
  <2>2. ASSUME NEW i \in DOMAIN nodes PROVE <<i>> \in P
    BY PlaceKinds
  <2>3. ASSUME NEW i \in DOMAIN nodes, NEW j \in DOMAIN Kids(i) PROVE <<i, j>> \in P
    BY PlaceKinds
  <2>4. ASSUME NEW i \in DOMAIN nodes, NEW j \in DOMAIN Kids(i), NEW k \in DOMAIN Grand(i, j) PROVE <<i, j, k>> \in P
    BY PlaceKinds
  <2> HIDE DEF n, Kids, Grand, P
  <2> QED BY <2>0, <2>1, <2>2, <2>3, <2>4
<1>7. \A i, j \in 1..n : A(i) = A(j) => i = j
  BY DEF Tree, IsNodes
<1>8. ASSUME NEW i \in 1..n, NEW j \in 1..Len(Kids(i)), NEW k \in 1..Len(Kids(i)), B(i, j) = B(i, k) PROVE j = k
  <2>1. Kids(i) # <<>>
    <3> HIDE DEF Kids
    <3> QED OBVIOUS
  <2>2. IsNodes(Kids(i), nodes[i].value)
    BY <2>1, LeafKinds
  <2> QED BY <1>8, <2>2 DEF IsNodes
<1>9. ASSUME NEW i \in 1..n, NEW j \in 1..Len(Kids(i)), NEW k \in 1..Len(Grand(i, j)), NEW l \in 1..Len(Grand(i, j)),
             C(i, j, k) = C(i, j, l) PROVE k = l
  <2>1. Grand(i, j) # <<>>
    <3> HIDE DEF Grand
    <3> QED OBVIOUS
  <2>2. IsNodes(Grand(i, j), Kids(i)[j].value)
    BY <2>1, LeafKinds DEF LeafKid
  <2> QED BY <1>9, <2>2 DEF IsNodes
<1>10. ASSUME NEW i \in 1..n, Kids(i) # <<>> PROVE 1 \in 1..Len(Kids(i))
  <2>1. IsNodes(Kids(i), nodes[i].value)
    BY <1>10, LeafKinds
  <2>2. Kids(i) \in Seq(ToSet(Kids(i)))
    BY <2>1 DEF IsNodes
  <2> HIDE DEF Kids
  <2> QED BY <1>10, <2>2
<1>11. ASSUME NEW i \in 1..n, NEW j \in 1..Len(Kids(i)), Grand(i, j) # <<>> PROVE 1 \in 1..Len(Grand(i, j))
  <2>1. IsNodes(Grand(i, j), Kids(i)[j].value)
    BY <1>11, LeafKinds DEF LeafKid
  <2>2. Grand(i, j) \in Seq(ToSet(Grand(i, j)))
    BY <2>1 DEF IsNodes
  <2> HIDE DEF Grand
  <2> QED BY <1>11, <2>2
<1>12. ASSUME NEW i \in 1..n, NEW j \in 1..Len(Kids(i)), NEW k \in 1..Len(Grand(i, j))
       PROVE  Grand(i, j)[k].children = <<>>
  <2>1. LeafKid(nodes[i].children[j])
    BY LeafKinds
  <2> QED BY <2>1 DEF LeafKid
<1>13. \A i : NodeAt(nodes, <<i>>) = nodes[i]
  BY NodeAtIs
<1>14. ASSUME NEW i, NEW j PROVE NodeAt(nodes, <<i, j>>) = Kids(i)[j]
  BY NodeAtIs
<1>15. ASSUME NEW i, NEW j, NEW k PROVE NodeAt(nodes, <<i, j, k>>) = Grand(i, j)[k]
  BY NodeAtIs
<1>16. ASSUME NEW i PROVE nodes[i].children = Kids(i)
  OBVIOUS
<1>17. ASSUME NEW i, NEW j PROVE Kids(i)[j].children = Grand(i, j)
  OBVIOUS
<1> HIDE DEF rows, P, n, Kids, Grand, A, B, C
\* no two rows have one path
<1>18. ASSUME NEW p \in P, NEW q \in P, rows[p].path = rows[q].path PROVE p = q
  <2>1. CASE \E i \in 1..n : p = <<i>>
    <3>1. PICK i \in 1..n : p = <<i>>
      BY <2>1
    <3>2. rows[p].path = <<A(i)>>
      BY <3>1, <1>2
    <3>3. CASE \E x \in 1..n : q = <<x>>
      <4>1. PICK x \in 1..n : q = <<x>>
        BY <3>3
      <4>2. rows[q].path = <<A(x)>>
        BY <4>1, <1>2
      <4>3. A(i) = A(x)
        BY <1>18, <3>2, <4>2, TupleFacts
      <4> QED BY <4>1, <4>3, <3>1, <1>7
    <3>4. CASE \E x \in 1..n : \E y \in 1..Len(Kids(x)) : q = <<x, y>>
      <4>1. PICK x, y : q = <<x, y>>
        BY <3>4
      <4>2. rows[q].path = <<A(x), B(x, y)>>
        BY <4>1, <1>3
      <4> QED BY <1>18, <3>2, <4>2, TupleFacts, ZenonT(60)
    <3>5. CASE \E x \in 1..n : \E y \in 1..Len(Kids(x)) : \E z \in 1..Len(Grand(x, y)) : q = <<x, y, z>>
      <4>1. PICK x, y, z : q = <<x, y, z>>
        BY <3>5
      <4>2. rows[q].path = <<A(x), B(x, y), C(x, y, z)>>
        BY <4>1, <1>4
      <4>8. <<A(i)>> = <<A(x), B(x, y), C(x, y, z)>>
        BY <1>18, <3>2, <4>2
      <4>9. <<A(i)>> # <<A(x), B(x, y), C(x, y, z)>>
        BY TupleFacts
      <4> QED BY <4>8, <4>9
    <3> QED BY <3>3, <3>4, <3>5, <1>5
  <2>2. CASE \E i \in 1..n : \E j \in 1..Len(Kids(i)) : p = <<i, j>>
    <3>0. PICK i \in 1..n : \E j \in 1..Len(Kids(i)) : p = <<i, j>>
      BY <2>2
    <3>1. PICK j \in 1..Len(Kids(i)) : p = <<i, j>>
      BY <3>0
    <3>2. rows[p].path = <<A(i), B(i, j)>>
      BY <3>1, <1>3
    <3>3. CASE \E x \in 1..n : q = <<x>>
      <4>1. PICK x \in 1..n : q = <<x>>
        BY <3>3
      <4>2. rows[q].path = <<A(x)>>
        BY <4>1, <1>2
      <4> QED BY <1>18, <3>2, <4>2, TupleFacts
    <3>4. CASE \E x \in 1..n : \E y \in 1..Len(Kids(x)) : q = <<x, y>>
      <4>0. PICK x \in 1..n : \E y \in 1..Len(Kids(x)) : q = <<x, y>>
        BY <3>4
      <4>1. PICK y \in 1..Len(Kids(x)) : q = <<x, y>>
        BY <4>0
      <4>2. rows[q].path = <<A(x), B(x, y)>>
        BY <4>1, <1>3
      <4>3. A(i) = A(x) /\ B(i, j) = B(x, y)
        <5>1. <<A(i), B(i, j)>> = <<A(x), B(x, y)>>
          BY <1>18, <3>2, <4>2
        <5> QED BY ONLY <5>1, TupleFacts
      <4>4. x = i
        BY <4>3, <1>7
      <4>5. j = y
        BY <4>3, <4>4, <1>8
      <4> QED BY <4>1, <4>4, <4>5, <3>1
    <3>5. CASE \E x \in 1..n : \E y \in 1..Len(Kids(x)) : \E z \in 1..Len(Grand(x, y)) : q = <<x, y, z>>
      <4>1. PICK x, y, z : q = <<x, y, z>>
        BY <3>5
      <4>2. rows[q].path = <<A(x), B(x, y), C(x, y, z)>>
        BY <4>1, <1>4
      <4>8. <<A(i), B(i, j)>> = <<A(x), B(x, y), C(x, y, z)>>
        BY <1>18, <3>2, <4>2
      <4>9. <<A(i), B(i, j)>> # <<A(x), B(x, y), C(x, y, z)>>
        BY TupleFacts
      <4> QED BY <4>8, <4>9
    <3> QED BY <3>3, <3>4, <3>5, <1>5
  <2>3. CASE \E i \in 1..n : \E j \in 1..Len(Kids(i)) : \E k \in 1..Len(Grand(i, j)) : p = <<i, j, k>>
    <3>0. PICK i \in 1..n : \E j \in 1..Len(Kids(i)) : \E k \in 1..Len(Grand(i, j)) : p = <<i, j, k>>
      BY <2>3
    <3>1. PICK j \in 1..Len(Kids(i)) : \E k \in 1..Len(Grand(i, j)) : p = <<i, j, k>>
      BY <3>0
    <3>2. PICK k \in 1..Len(Grand(i, j)) : p = <<i, j, k>>
      BY <3>1
    <3>3. rows[p].path = <<A(i), B(i, j), C(i, j, k)>>
      BY <3>2, <1>4
    <3>4. CASE \E x \in 1..n : q = <<x>>
      <4>1. PICK x \in 1..n : q = <<x>>
        BY <3>4
      <4>2. rows[q].path = <<A(x)>>
        BY <4>1, <1>2
      <4>8. <<A(x)>> = <<A(i), B(i, j), C(i, j, k)>>
        BY <1>18, <3>3, <4>2
      <4>9. <<A(x)>> # <<A(i), B(i, j), C(i, j, k)>>
        BY TupleFacts
      <4> QED BY <4>8, <4>9
    <3>5. CASE \E x \in 1..n : \E y \in 1..Len(Kids(x)) : q = <<x, y>>
      <4>1. PICK x, y : q = <<x, y>>
        BY <3>5
      <4>2. rows[q].path = <<A(x), B(x, y)>>
        BY <4>1, <1>3
      <4>8. <<A(x), B(x, y)>> = <<A(i), B(i, j), C(i, j, k)>>
        BY <1>18, <3>3, <4>2
      <4>9. <<A(x), B(x, y)>> # <<A(i), B(i, j), C(i, j, k)>>
        BY TupleFacts
      <4> QED BY <4>8, <4>9
    <3>6. CASE \E x \in 1..n : \E y \in 1..Len(Kids(x)) : \E z \in 1..Len(Grand(x, y)) : q = <<x, y, z>>
      <4>0. PICK x \in 1..n : \E y \in 1..Len(Kids(x)) : \E z \in 1..Len(Grand(x, y)) : q = <<x, y, z>>
        BY <3>6
      <4>1. PICK y \in 1..Len(Kids(x)) : \E z \in 1..Len(Grand(x, y)) : q = <<x, y, z>>
        BY <4>0
      <4>2. PICK z \in 1..Len(Grand(x, y)) : q = <<x, y, z>>
        BY <4>1
      <4>3. rows[q].path = <<A(x), B(x, y), C(x, y, z)>>
        BY <4>2, <1>4
      <4>4. A(i) = A(x) /\ B(i, j) = B(x, y) /\ C(i, j, k) = C(x, y, z)
        <5>1. <<A(i), B(i, j), C(i, j, k)>> = <<A(x), B(x, y), C(x, y, z)>>
          BY <1>18, <3>3, <4>3
        <5> QED BY ONLY <5>1, TupleFacts
      <4>5. x = i
        BY <4>4, <1>7
      <4>6. j = y
        BY <4>4, <4>5, <1>8
      <4>7. k = z
        BY <4>4, <4>5, <4>6, <1>9
      <4> QED BY <4>2, <4>5, <4>6, <4>7, <3>2
    <3> QED BY <3>4, <3>5, <3>6, <1>5
  <2> QED BY <2>1, <2>2, <2>3, <1>5
\* those that no other continues are the leaves
<1>19. ASSUME NEW p \in P
       PROVE  (\A q \in P : ~IsStrictPrefix(rows[p].path, rows[q].path)) <=> NodeAt(nodes, p).children = <<>>
  <2>1. CASE \E i \in 1..n : p = <<i>>
    <3>1. PICK i \in 1..n : p = <<i>>
      BY <2>1
    <3>2. rows[p].path = <<A(i)>>
      BY <3>1, <1>2
    <3>3. NodeAt(nodes, p).children = Kids(i)
      BY <3>1, <1>13, <1>16
    <3>4. ASSUME Kids(i) # <<>> PROVE \E q \in P : IsStrictPrefix(rows[p].path, rows[q].path)
      <4>1. <<i, 1>> \in P
        BY <3>4, <1>6, <1>10
      <4>2. rows[<<i, 1>>].path = <<A(i), B(i, 1)>>
        BY <4>1, <1>3
      <4>3. IsStrictPrefix(<<A(i)>>, <<A(i), B(i, 1)>>)
        BY PrefixFacts
      <4> QED BY <4>1, <4>2, <4>3, <3>2
    <3>5. ASSUME NEW q \in P, IsStrictPrefix(rows[p].path, rows[q].path) PROVE Kids(i) # <<>>
      <4>1. CASE \E x \in 1..n : q = <<x>>
        <5>1. PICK x \in 1..n : q = <<x>>
          BY <4>1
        <5>2. rows[q].path = <<A(x)>>
          BY <5>1, <1>2
        <5>3. ~IsStrictPrefix(<<A(i)>>, <<A(x)>>)
          BY PrefixFacts
        <5> QED BY <3>2, <3>5, <5>2, <5>3
      <4>2. CASE \E x \in 1..n : \E y \in 1..Len(Kids(x)) : q = <<x, y>>
        <5>0. PICK x \in 1..n : \E y \in 1..Len(Kids(x)) : q = <<x, y>>
          BY <4>2
        <5>1. PICK y \in 1..Len(Kids(x)) : q = <<x, y>>
          BY <5>0
        <5>2. rows[q].path = <<A(x), B(x, y)>>
          BY <5>1, <1>3
        <5>3. IsStrictPrefix(<<A(i)>>, <<A(x), B(x, y)>>)
          BY <3>2, <3>5, <5>2
        <5>4. x = i
          BY <5>3, <1>7, PrefixFacts
        <5>5. y \in 1..Len(Kids(i))
          BY <5>1, <5>4
        <5> QED BY <5>5
      <4>3. CASE \E x \in 1..n : \E y \in 1..Len(Kids(x)) : \E z \in 1..Len(Grand(x, y)) : q = <<x, y, z>>
        <5>0. PICK x \in 1..n : \E y \in 1..Len(Kids(x)) : \E z \in 1..Len(Grand(x, y)) : q = <<x, y, z>>
          BY <4>3
        <5>1. PICK y \in 1..Len(Kids(x)) : \E z \in 1..Len(Grand(x, y)) : q = <<x, y, z>>
          BY <5>0
        <5>2. PICK z \in 1..Len(Grand(x, y)) : q = <<x, y, z>>
          BY <5>1
        <5>3. rows[q].path = <<A(x), B(x, y), C(x, y, z)>>
          BY <5>2, <1>4
        <5>4. IsStrictPrefix(<<A(i)>>, <<A(x), B(x, y), C(x, y, z)>>)
          BY <3>2, <3>5, <5>3
        <5>5. x = i
          BY <5>4, <1>7, PrefixFacts
        <5>6. y \in 1..Len(Kids(i))
          BY <5>1, <5>5
        <5> QED BY <5>6
      <4> QED BY <4>1, <4>2, <4>3, <1>5
    <3> QED BY <3>3, <3>4, <3>5
  <2>2. CASE \E i \in 1..n : \E j \in 1..Len(Kids(i)) : p = <<i, j>>
    <3>0. PICK i \in 1..n : \E j \in 1..Len(Kids(i)) : p = <<i, j>>
      BY <2>2
    <3>1. PICK j \in 1..Len(Kids(i)) : p = <<i, j>>
      BY <3>0
    <3>2. rows[p].path = <<A(i), B(i, j)>>
      BY <3>1, <1>3
    <3>3. NodeAt(nodes, p).children = Grand(i, j)
      BY <3>1, <1>14, <1>17
    <3>4. ASSUME Grand(i, j) # <<>> PROVE \E q \in P : IsStrictPrefix(rows[p].path, rows[q].path)
      <4>1. <<i, j, 1>> \in P
        BY <3>4, <1>6, <1>11
      <4>2. rows[<<i, j, 1>>].path = <<A(i), B(i, j), C(i, j, 1)>>
        BY <4>1, <1>4
      <4>3. IsStrictPrefix(<<A(i), B(i, j)>>, <<A(i), B(i, j), C(i, j, 1)>>)
        BY PrefixFacts
      <4> QED BY <4>1, <4>2, <4>3, <3>2
    <3>5. ASSUME NEW q \in P, IsStrictPrefix(rows[p].path, rows[q].path) PROVE Grand(i, j) # <<>>
      <4>1. CASE \E x \in 1..n : q = <<x>>
        <5>1. PICK x \in 1..n : q = <<x>>
          BY <4>1
        <5>2. rows[q].path = <<A(x)>>
          BY <5>1, <1>2
        <5>3. ~IsStrictPrefix(<<A(i), B(i, j)>>, <<A(x)>>)
          BY PrefixFacts
        <5> QED BY <3>2, <3>5, <5>2, <5>3
      <4>2. CASE \E x \in 1..n : \E y \in 1..Len(Kids(x)) : q = <<x, y>>
        <5>1. PICK x, y : q = <<x, y>>
          BY <4>2
        <5>2. rows[q].path = <<A(x), B(x, y)>>
          BY <5>1, <1>3
        <5>3. ~IsStrictPrefix(<<A(i), B(i, j)>>, <<A(x), B(x, y)>>)
          BY PrefixFacts
        <5> QED BY <3>2, <3>5, <5>2, <5>3
      <4>3. CASE \E x \in 1..n : \E y \in 1..Len(Kids(x)) : \E z \in 1..Len(Grand(x, y)) : q = <<x, y, z>>
        <5>0. PICK x \in 1..n : \E y \in 1..Len(Kids(x)) : \E z \in 1..Len(Grand(x, y)) : q = <<x, y, z>>
          BY <4>3
        <5>1. PICK y \in 1..Len(Kids(x)) : \E z \in 1..Len(Grand(x, y)) : q = <<x, y, z>>
          BY <5>0
        <5>2. PICK z \in 1..Len(Grand(x, y)) : q = <<x, y, z>>
          BY <5>1
        <5>3. rows[q].path = <<A(x), B(x, y), C(x, y, z)>>
          BY <5>2, <1>4
        <5>4. IsStrictPrefix(<<A(i), B(i, j)>>, <<A(x), B(x, y), C(x, y, z)>>)
          BY <3>2, <3>5, <5>3
        <5>5. A(i) = A(x) /\ B(i, j) = B(x, y)
          BY <5>4, PrefixFacts
        <5>6. x = i
          BY <5>5, <1>7
        <5>7. y = j
          BY <5>5, <5>6, <1>8
        <5>8. z \in 1..Len(Grand(i, j))
          BY <5>2, <5>6, <5>7
        <5> QED BY <5>8
      <4> QED BY <4>1, <4>2, <4>3, <1>5
    <3> QED BY <3>3, <3>4, <3>5
  <2>3. CASE \E i \in 1..n : \E j \in 1..Len(Kids(i)) : \E k \in 1..Len(Grand(i, j)) : p = <<i, j, k>>
    <3>0. PICK i \in 1..n : \E j \in 1..Len(Kids(i)) : \E k \in 1..Len(Grand(i, j)) : p = <<i, j, k>>
      BY <2>3
    <3>1. PICK j \in 1..Len(Kids(i)) : \E k \in 1..Len(Grand(i, j)) : p = <<i, j, k>>
      BY <3>0
    <3>2. PICK k \in 1..Len(Grand(i, j)) : p = <<i, j, k>>
      BY <3>1
    <3>3. rows[p].path = <<A(i), B(i, j), C(i, j, k)>>
      BY <3>2, <1>4
    <3>4. NodeAt(nodes, p).children = <<>>
      BY <3>2, <1>12, <1>15
    <3>5. ASSUME NEW q \in P PROVE ~IsStrictPrefix(rows[p].path, rows[q].path)
      <4>1. CASE \E x \in 1..n : q = <<x>>
        <5>1. PICK x \in 1..n : q = <<x>>
          BY <4>1
        <5>2. rows[q].path = <<A(x)>>
          BY <5>1, <1>2
        <5>3. ~IsStrictPrefix(<<A(i), B(i, j), C(i, j, k)>>, <<A(x)>>)
          BY PrefixFacts
        <5> QED BY <3>3, <5>2, <5>3
      <4>2. CASE \E x \in 1..n : \E y \in 1..Len(Kids(x)) : q = <<x, y>>
        <5>1. PICK x, y : q = <<x, y>>
          BY <4>2
        <5>2. rows[q].path = <<A(x), B(x, y)>>
          BY <5>1, <1>3
        <5>3. ~IsStrictPrefix(<<A(i), B(i, j), C(i, j, k)>>, <<A(x), B(x, y)>>)
          BY PrefixFacts
        <5> QED BY <3>3, <5>2, <5>3
      <4>3. CASE \E x \in 1..n : \E y \in 1..Len(Kids(x)) : \E z \in 1..Len(Grand(x, y)) : q = <<x, y, z>>
        <5>1. PICK x, y, z : q = <<x, y, z>>
          BY <4>3
        <5>2. rows[q].path = <<A(x), B(x, y), C(x, y, z)>>
          BY <5>1, <1>4
        <5>3. ~IsStrictPrefix(<<A(i), B(i, j), C(i, j, k)>>, <<A(x), B(x, y), C(x, y, z)>>)
          BY PrefixFacts
        <5> QED BY <3>3, <5>2, <5>3
      <4> QED BY <4>1, <4>2, <4>3, <1>5
    <3> QED BY <3>4, <3>5
  <2> QED BY <2>1, <2>2, <2>3, <1>5
<1>20. last = LeafPlaces(nodes)
  <2>1. \A p : p \in LeafPlaces(nodes) <=> p \in P /\ NodeAt(nodes, p).children = <<>>
    BY DEF LeafPlaces, P
  <2>2. \A p : p \in last <=> p \in P /\ \A q \in P : ~IsStrictPrefix(rows[p].path, rows[q].path)
    BY <1>1
  <2> HIDE DEF last
  <2> QED BY <1>19, <2>1, <2>2
<1>21. SumFunction([p \in last |-> rows[p].value]) = w
  <2> DEFINE f == [p \in last |-> rows[p].value]
             L == LeafPlaces(nodes)
             g == Leaves(nodes)
  <2>1. DOMAIN f = L /\ \A p \in L : f[p] = rows[p].value
    BY <1>20
  <2>2. \A p \in L : p \in P
    BY DEF LeafPlaces, P
  <2>3. SumFunction(g) = w /\ DOMAIN g = L /\ IsFiniteSet(L) /\ \A q \in L : g[q] = NodeAt(nodes, q).value /\ g[q] \in Nat
    BY LeavesAdd
  <2>4. \A p \in L : g[p] \in Int /\ g[p] = f[p]
    BY <2>1, <2>2, <2>3, <1>1
  <2>5. SumFunction(f) = SumFunctionOnSet(f, DOMAIN f) /\ SumFunction(g) = SumFunctionOnSet(g, DOMAIN g)
    BY SumFunctionIs
  <2> HIDE DEF f, L, g
  <2>6. SumFunctionOnSet(g, L) = SumFunctionOnSet(f, L)
    BY <2>3, <2>4, SumSame
  <2>7. SumFunction(f) = w
    BY <2>1, <2>3, <2>5, <2>6
  <2> QED BY <2>7 DEF f
<1> QED BY <1>1, <1>18, <1>21 DEF rows

\* no observation: nothing to list, nothing to sum
Nothing(rows) == \A r \in rows : r.weight = 0

LEMMA NothingListed ==
  ASSUME NEW rows, Weighed(rows), NEW d, NEW s, Lists(s, rows, d)
  PROVE  Len(s) = 0 <=> Nothing(rows)
<1>1. ASSUME Len(s) = 0, NEW r \in rows PROVE r.weight = 0
  <2>1. r.weight \in Nat
    BY DEF Weighed
  <2>2. r.weight > 0 => \E i \in 1..Len(s) : s[i].name = r.dims[d]
    BY DEF Lists
  <2> QED BY <1>1, <2>1, <2>2
<1>2. ASSUME Nothing(rows), Len(s) # 0 PROVE FALSE
  <2>1. 1 \in 1..Len(s)
    BY <1>2 DEF Lists
  <2>2. s[1].weight > 0 /\ IsGroup(s[1], rows, d)
    BY <2>1 DEF Lists
  <2>3. s[1].rows \in SUBSET rows /\ s[1].weight = Combine(s[1].rows).weight
    BY <2>2 DEF IsGroup, Named
  <2>4. Weighed(s[1].rows)
    BY <2>3, WeighedPart
  <2>5. \A r \in s[1].rows : r.weight = 0
    BY <1>2, <2>3 DEF Nothing
  <2>6. Combine(s[1].rows).weight = 0
    BY <2>4, <2>5, CombineOf
  <2> QED BY <2>2, <2>3, <2>6
<1> QED BY <1>1, <1>2 DEF Nothing

LEMMA NothingSummed ==
  ASSUME NEW rows, Weighed(rows)
  PROVE  Nothing(rows) <=> Combine(rows).weight = 0
  BY CombineOf DEF Nothing

LEMMA EmptyIs == \A s, X : s \in Seq(X) => (s = <<>> <=> Len(s) = 0)
  OBVIOUS

LEMMA NoNames ==
  ASSUME NEW ranked, ranked \in Seq(ToSet(ranked)), NEW limit \in Nat, limit >= 1
  PROVE  KeepNames(ranked, limit) = <<>> <=> Len(ranked) = 0
<1> DEFINE head == IF Len(ranked) > limit THEN HeadOf(ranked, limit - 1) ELSE ranked
           names == [i \in DOMAIN head |-> head[i].name]
<1>1. KeepNames(ranked, limit) = IF Len(ranked) > limit THEN Append(names, Other) ELSE names
  BY DEF KeepNames
<1>2. CASE Len(ranked) > limit
  <2>1. limit - 1 \in Nat
    OBVIOUS
  <2>2. head = HeadOf(ranked, limit - 1)
    BY <1>2
  <2>3. DOMAIN head = 1..(IF Len(ranked) < limit - 1 THEN Len(ranked) ELSE limit - 1)
    BY <2>1, <2>2, HeadOfIs
  <2> DEFINE m == IF Len(ranked) < limit - 1 THEN Len(ranked) ELSE limit - 1
             X == {names[i] : i \in 1..m}
  <2>4. m \in Nat
    <3>1. Len(ranked) \in Nat
      OBVIOUS
    <3> QED BY <2>1, <3>1
  <2>5. names \in [1..m -> X]
    BY <2>3
  <2>6. names \in Seq(X)
    <3> HIDE DEF m, X, names
    <3> QED BY <2>4, <2>5, LenIs
  <2>7. Append(names, Other) # <<>>
    <3> HIDE DEF X, names
    <3>1. names \in Seq(X \cup {Other}) /\ Other \in X \cup {Other}
      BY <2>6
    <3>2. Len(Append(names, Other)) = Len(names) + 1 /\ Len(names) \in Nat /\ Len(<<>>) = 0
      BY <3>1
    <3> QED BY <3>2
  <2> HIDE DEF names
  <2> QED BY <1>1, <1>2, <2>7
<1>3. CASE ~(Len(ranked) > limit)
  <2>1. KeepNames(ranked, limit) = [i \in DOMAIN ranked |-> ranked[i].name]
    BY <1>1, <1>3
  <2>2. Len(ranked) \in Nat /\ DOMAIN ranked = 1..Len(ranked)
    OBVIOUS
  <2>3. CASE Len(ranked) = 0
    <3>1. DOMAIN ranked = {} /\ ranked = <<>>
      BY <2>2, <2>3
    <3>2. [i \in DOMAIN ranked |-> ranked[i].name] = <<>>
      BY <3>1
    <3> QED BY <2>1, <2>3, <3>2
  <2>4. CASE Len(ranked) # 0
    <3>1. 1 \in DOMAIN [i \in DOMAIN ranked |-> ranked[i].name]
      BY <2>2, <2>4
    <3>2. 1 \notin DOMAIN <<>>
      OBVIOUS
    <3> QED BY <2>1, <2>4, <3>1, <3>2
  <2> QED BY <2>3, <2>4
<1> QED BY <1>2, <1>3

LEMMA NoMatrix ==
  ASSUME NEW rows, Weighed(rows), Subjective(rows, 1), Subjective(rows, 2), NEW limits,
         limits[1] \in Nat, limits[1] >= 1, limits[2] \in Nat, limits[2] >= 1
  PROVE  LET m == MatrixOf(rows, limits) IN
         /\ m.rows = <<>> <=> Nothing(rows)
         /\ m.cols = <<>> <=> Nothing(rows)
<1>1. Lists(Ranked(rows, 1), rows, 1) /\ Lists(Ranked(rows, 2), rows, 2)
  BY RankedLists
<1>2. /\ Ranked(rows, 1) \in Seq(ToSet(Ranked(rows, 1)))
      /\ Ranked(rows, 2) \in Seq(ToSet(Ranked(rows, 2)))
  BY <1>1 DEF Lists
<1>3. KeepNames(Ranked(rows, 1), limits[1]) = <<>> <=> Nothing(rows)
  BY <1>1, <1>2, NoNames, NothingListed
<1>4. KeepNames(Ranked(rows, 2), limits[2]) = <<>> <=> Nothing(rows)
  BY <1>1, <1>2, NoNames, NothingListed
<1>5. /\ MatrixOf(rows, limits).rows = KeepNames(Ranked(rows, 1), limits[1])
      /\ MatrixOf(rows, limits).cols = KeepNames(Ranked(rows, 2), limits[2])
  BY DEF MatrixOf
<1> QED BY <1>3, <1>4, <1>5

LEMMA NoTree ==
  ASSUME NEW rows, Weighed(rows), \A d \in Dims : Subjective(rows, d) /\ TreeLimits[d] \in Nat /\ TreeLimits[d] >= 1
  PROVE  Hierarchy(rows) = <<>> <=> Nothing(rows)
<1>1. Hierarchy(rows) \in Seq(ToSet(Hierarchy(rows)))
  BY HierarchyTree DEF Tree, IsNodes
<1>2. Len(Hierarchy(rows)) = 0 <=> Len(Ranked(rows, 1)) = 0
  BY HierarchyTree
<1>3. Subjective(rows, 1)
  BY DEF Dims
<1>4. Lists(Ranked(rows, 1), rows, 1)
  BY <1>3, RankedLists
<1>5. Len(Ranked(rows, 1)) = 0 <=> Nothing(rows)
  BY <1>4, NothingListed
<1>6. Hierarchy(rows) = <<>> <=> Len(Hierarchy(rows)) = 0
  BY <1>1, EmptyIs
<1> QED BY <1>2, <1>5, <1>6

\* A row of the table of a chart over time: the total, then the series.
LEMMA TimeRows ==
  ASSUME TopSeries \in Nat, NEW rows, Weighed(rows), NEW d, NEW ranked, Lists(ranked, rows, d),
         NEW ts, NEW b, InTime(rows, ts, b), NEW in, in.ts = ts, in.total = PerBucket(rows, ts, b),
         in.series = SeriesOf(ranked, ts, b), NEW row \in ToSet(Table("time", in))
  PROVE  Sum(Tail(row)) = row[1]
<1> DEFINE part(i) == [s \in DOMAIN in.series |-> in.series[s].values[i]]
<1>1. Table("time", in) = [i \in DOMAIN ts |-> <<in.total[i]>> \o part(i)]
  BY DEF Table
<1>2. PICK i \in DOMAIN ts : row = <<in.total[i]>> \o part(i)
  BY <1>1 DEF ToSet
<1> DEFINE series == SeriesOf(ranked, ts, b)
<1>0. /\ \E n \in Nat : DOMAIN series = 1..n
      /\ \A k \in DOMAIN ts : Sum([s \in DOMAIN series |-> series[s].values[k]]) = PerBucket(rows, ts, b)[k]
  <2>1. SeriesAdd(series, rows, ts, b)
    BY SumSeries
  <2> HIDE DEF series
  <2> QED BY Zenon, <2>1 DEF SeriesAdd
<1> HIDE DEF series
<1>s. in.series = series
  BY DEF series
<1>3. PICK n \in Nat : DOMAIN in.series = 1..n
  BY <1>0, <1>s
<1>4. Sum(part(i)) = in.total[i]
  <2>1. Sum([s \in DOMAIN series |-> series[s].values[i]]) = PerBucket(rows, ts, b)[i]
    BY <1>0
  <2>2. part(i) = [s \in DOMAIN series |-> series[s].values[i]]
    BY <1>s
  <2> HIDE DEF part
  <2>3. in.total[i] = PerBucket(rows, ts, b)[i]
    OBVIOUS
  <2> QED BY <2>1, <2>2, <2>3
<1> DEFINE p == part(i)
           X == {p[s] : s \in 1..n} \cup {in.total[i]}
<1>5. p \in Seq(X) /\ Len(p) = n
  <2>1. p \in [1..n -> X]
    BY <1>3
  <2> HIDE DEF p, X
  <2> QED BY <2>1, LenIs
<1>6. Tail(<<in.total[i]>> \o p) = p /\ (<<in.total[i]>> \o p)[1] = in.total[i]
  <2> DEFINE a == in.total[i]
  <2>1. a \in X
    OBVIOUS
  <2> HIDE DEF p, X, a
  <2>2. <<a>> \in Seq(X) /\ Len(<<a>>) = 1 /\ <<a>>[1] = a
    BY <2>1
  <2>3. /\ <<a>> \o p \in Seq(X) /\ Len(<<a>> \o p) = n + 1
        /\ (<<a>> \o p)[1] = a /\ \A k \in 1..n : (<<a>> \o p)[k + 1] = p[k]
    BY <2>2, <1>5
  <2>4. Tail(<<a>> \o p) \in Seq(X) /\ Len(Tail(<<a>> \o p)) = n
    BY <2>3
  <2>5. \A k \in 1..n : Tail(<<a>> \o p)[k] = p[k]
    BY <2>3
  <2>6. Tail(<<a>> \o p) = p
    BY <2>4, <2>5, <1>5
  <2> QED BY <2>3, <2>6 DEF a
<1> QED BY <1>2, <1>4, <1>6

LEMMA PartLeq ==
  ASSUME NEW S, Weighed(S), NEW T \in SUBSET S
  PROVE  Combine(T).sum <= Combine(S).sum /\ Combine(T).weight <= Combine(S).weight
<1> DEFINE F == [r \in S |-> r.sum]
           G == [r \in S |-> r.weight]
<1>1. IsFiniteSet(S) /\ IsFiniteSet(T) /\ IsFiniteSet(S \ T)
  BY FS_Subset DEF Weighed
<1>2. \A r \in S : F[r] = r.sum /\ G[r] = r.weight /\ F[r] \in Nat /\ G[r] \in Nat
  BY DEF Weighed
<1> HIDE DEF F, G
<1>3. /\ \A r \in S : F[r] = r.sum
      /\ \A r \in S : r.sum \in Int
      /\ \A r \in S : G[r] = r.weight
      /\ \A r \in S : r.weight \in Int
  BY <1>2
<1>4. Combine(S) = [sum |-> SumFunctionOnSet(F, S), weight |-> SumFunctionOnSet(G, S)]
  BY <1>1, <1>3, CombineIs
<1>5. Combine(T) = [sum |-> SumFunctionOnSet(F, T), weight |-> SumFunctionOnSet(G, T)]
  <2>1. /\ \A r \in T : F[r] = r.sum
        /\ \A r \in T : r.sum \in Int
        /\ \A r \in T : G[r] = r.weight
        /\ \A r \in T : r.weight \in Int
    BY <1>3
  <2> QED BY <1>1, <2>1, CombineIs
<1>6. S = T \cup (S \ T) /\ T \cap (S \ T) = {}
  OBVIOUS
<1> DEFINE U == S \ T
<1>7. /\ SumFunctionOnSet(F, U) \in Nat /\ SumFunctionOnSet(G, U) \in Nat
      /\ SumFunctionOnSet(F, T) \in Nat /\ SumFunctionOnSet(G, T) \in Nat
  <2>1. \A x \in U : F[x] \in Nat /\ G[x] \in Nat
    BY <1>2
  <2>2. \A x \in T : F[x] \in Nat /\ G[x] \in Nat
    BY <1>2
  <2>3. IsFiniteSet(U)
    BY <1>1
  <2> HIDE DEF U
  <2> QED BY <1>1, <2>1, <2>2, <2>3, SumNat
<1>8. /\ SumFunctionOnSet(F, S) = SumFunctionOnSet(F, T) + SumFunctionOnSet(F, U)
      /\ SumFunctionOnSet(G, S) = SumFunctionOnSet(G, T) + SumFunctionOnSet(G, U)
  <2>1. IsFiniteSet(U) /\ T \cap U = {} /\ T \cup U = S
    BY <1>1, <1>6
  <2>2. \A x \in T \cup U : F[x] \in Int
    BY <1>2
  <2>3. \A x \in T \cup U : G[x] \in Int
    BY <1>2
  <2> HIDE DEF U
  <2>4. SumFunctionOnSet(F, T \cup U) = SumFunctionOnSet(F, T) + SumFunctionOnSet(F, U)
    BY <1>1, <2>1, <2>2, SumUnion
  <2>5. SumFunctionOnSet(G, T \cup U) = SumFunctionOnSet(G, T) + SumFunctionOnSet(G, U)
    BY <1>1, <2>1, <2>3, SumUnion
  <2> QED BY <2>1, <2>4, <2>5
<1>9. /\ Combine(S).sum = SumFunctionOnSet(F, S) /\ Combine(S).weight = SumFunctionOnSet(G, S)
      /\ Combine(T).sum = SumFunctionOnSet(F, T) /\ Combine(T).weight = SumFunctionOnSet(G, T)
  BY <1>4, <1>5
<1> HIDE DEF U
<1> QED BY <1>7, <1>8, <1>9

\* A quotient no greater than any of the parts' is no greater than the whole's,
\* nor one no less less.
LEMMA Average ==
  ASSUME NEW s, NEW K, IsFiniteSet(K), DOMAIN s = K, \A k \in K : s[k].sum \in Nat /\ s[k].weight \in Nat,
         NEW p \in Nat, NEW q \in Nat
  PROVE  /\ (\A k \in K : p * s[k].weight <= s[k].sum * q) => p * Sum(s).weight <= Sum(s).sum * q
         /\ (\A k \in K : s[k].sum * q <= p * s[k].weight) => Sum(s).sum * q <= p * Sum(s).weight
<1> DEFINE F == [k \in K |-> s[k].sum]
           G == [k \in K |-> s[k].weight]
           f == [k \in K |-> q * F[k]]
           g == [k \in K |-> p * G[k]]
<1>1. \A k \in K : F[k] = s[k].sum /\ G[k] = s[k].weight /\ F[k] \in Int /\ G[k] \in Int
  OBVIOUS
<1>2. Sum(s).sum = SumFunctionOnSet(F, K) /\ Sum(s).weight = SumFunctionOnSet(G, K)
  <2>1. \A k \in K : s[k].sum \in Int /\ s[k].weight \in Int
    OBVIOUS
  <2>2. \A k \in K : F[k] = s[k].sum
    OBVIOUS
  <2>3. \A k \in K : G[k] = s[k].weight
    OBVIOUS
  <2> HIDE DEF F, G
  <2> QED BY <2>1, <2>2, <2>3, SumFields
<1>3. \A k \in K : f[k] = q * F[k] /\ g[k] = p * G[k]
  OBVIOUS
<1> HIDE DEF F, G, f, g
<1>4. \A k \in K : f[k] \in Int /\ g[k] \in Int
  BY <1>1, <1>3
<1>5. SumFunctionOnSet(f, K) = q * SumFunctionOnSet(F, K)
  <2>1. q \in Int /\ (\A k \in K : F[k] \in Int) /\ \A k \in K : f[k] = q * F[k]
    BY <1>1, <1>3
  <2> QED BY <2>1, SumTimes
<1>6. SumFunctionOnSet(g, K) = p * SumFunctionOnSet(G, K)
  <2>1. p \in Int /\ (\A k \in K : G[k] \in Int) /\ \A k \in K : g[k] = p * G[k]
    BY <1>1, <1>3
  <2> QED BY <2>1, SumTimes
<1>7. SumFunctionOnSet(F, K) \in Int /\ SumFunctionOnSet(G, K) \in Int
  BY <1>1, SumInt
<1>8. ASSUME \A k \in K : p * s[k].weight <= s[k].sum * q
      PROVE  p * Sum(s).weight <= Sum(s).sum * q
  <2>1. ASSUME NEW k \in K PROVE g[k] <= f[k]
    <3>1. p * G[k] <= F[k] * q
      BY <1>1, <1>8
    <3> QED BY <3>1, <1>1, <1>3
  <2>2. SumFunctionOnSet(g, K) <= SumFunctionOnSet(f, K)
    BY <2>1, <1>4, SumLeq
  <2>3. p * SumFunctionOnSet(G, K) <= q * SumFunctionOnSet(F, K)
    BY <2>2, <1>5, <1>6
  <2> QED BY <2>3, <1>2, <1>7
<1>9. ASSUME \A k \in K : s[k].sum * q <= p * s[k].weight
      PROVE  Sum(s).sum * q <= p * Sum(s).weight
  <2>1. ASSUME NEW k \in K PROVE f[k] <= g[k]
    <3>1. F[k] * q <= p * G[k]
      BY <1>1, <1>9
    <3> QED BY <3>1, <1>1, <1>3
  <2>2. SumFunctionOnSet(f, K) <= SumFunctionOnSet(g, K)
    BY <2>1, <1>4, SumLeq
  <2>3. q * SumFunctionOnSet(F, K) <= p * SumFunctionOnSet(G, K)
    BY <2>2, <1>5, <1>6
  <2> QED BY <2>3, <1>2, <1>7
<1> QED BY <1>8, <1>9

\* Buckets of highest value, and of lowest.
Highest(total, counts) == Extremes(total, counts, LAMBDA g, h : Above(g, h, counts))
Lowest(total, counts) == Extremes(total, counts, LAMBDA g, h : Above(h, g, counts))

LEMMA HighestIs ==
  ASSUME NEW total, NEW counts \in BOOLEAN
  PROVE  /\ \A g : g \in Highest(total, counts) <=>
                 /\ g \in ToSet(total) /\ (counts \/ g.weight > 0)
                 /\ \A h \in ToSet(total) : (counts \/ h.weight > 0) => ~Above(h, g, counts)
         /\ \A g : g \in Lowest(total, counts) <=>
                 /\ g \in ToSet(total) /\ (counts \/ g.weight > 0)
                 /\ \A h \in ToSet(total) : (counts \/ h.weight > 0) => ~Above(g, h, counts)
  BY DEF Highest, Lowest, Extremes

\* what the buckets are, and that some have an observation if there are any
LEMMA BucketsAre ==
  ASSUME NEW rows, Weighed(rows), NEW ts, NEW b, InTime(rows, ts, b), NEW g \in ToSet(PerBucket(rows, ts, b))
  PROVE  /\ Amount(g) /\ g.sum <= Combine(rows).sum
<1>1. PICK i \in DOMAIN ts : g = Combine({r \in rows : BucketStart(r.t, b) = ts[i]})
  BY DEF PerBucket, ToSet
<1> DEFINE T == {r \in rows : BucketStart(r.t, b) = ts[i]}
<1>2. T \in SUBSET rows /\ g = Combine(T)
  BY <1>1
<1> HIDE DEF T
<1>3. Weighed(T)
  BY <1>2, WeighedPart
<1> QED BY <1>2, <1>3, CombineOf, PartLeq DEF Amount

\* No bucket counts more than all of them.
LEMMA HighestCount ==
  ASSUME NEW rows, Weighed(rows), NEW ts, NEW b, InTime(rows, ts, b),
         NEW in, in.counts = TRUE, NEW g \in Highest(PerBucket(rows, ts, b), TRUE)
  PROVE  ~Exceeds(in, g, Combine(rows))
<1>1. g \in ToSet(PerBucket(rows, ts, b))
  BY HighestIs
<1>2. Amount(g) /\ g.sum <= Combine(rows).sum
  BY <1>1, BucketsAre
<1>3. Combine(rows).sum \in Nat
  BY CombineOf
<1> QED BY <1>2, <1>3 DEF Exceeds, Amount

\* Where there are observations, an average lies between those of its buckets.
LEMMA ExtremeAverages ==
  ASSUME NEW rows, Weighed(rows), ~Nothing(rows), NEW ts, NEW b, InTime(rows, ts, b),
         NEW in, in.counts = FALSE, NEW total, total = PerBucket(rows, ts, b)
  PROVE  /\ Lowest(total, FALSE) # {} /\ \A g \in Lowest(total, FALSE) : ~Exceeds(in, g, Combine(rows))
         /\ Highest(total, FALSE) # {} /\ \A g \in Highest(total, FALSE) : ~Exceeds(in, Combine(rows), g)
<1> DEFINE whole == Combine(rows)
           S == {g \in ToSet(total) : g.weight > 0}
<1>1. DOMAIN total = DOMAIN ts /\ IsFiniteSet(DOMAIN ts)
  BY DEF PerBucket, InTime
<1>2. \A g \in ToSet(total) : Amount(g)
  BY BucketsAre
<1>3. \A k \in DOMAIN ts : total[k] \in ToSet(total)
  BY <1>1 DEF ToSet
<1>4. Sum(total) = whole /\ whole.sum \in Nat /\ whole.weight \in Nat /\ whole.weight > 0
  <2>1. Sum(total) = whole
    BY SumBuckets
  <2>2. whole.sum \in Nat /\ whole.weight \in Nat
    BY CombineOf
  <2>3. whole.weight # 0
    BY NothingSummed
  <2> HIDE DEF whole
  <2> QED BY <2>1, <2>2, <2>3
<1>5. IsFiniteSet(S)
  <2>1. \A x \in DOMAIN ts : total[x] \in ToSet(total)
    BY <1>3
  <2>2. \A y \in ToSet(total) : \E x \in DOMAIN ts : total[x] = y
    BY <1>1 DEF ToSet
  <2>3. IsFiniteSet(ToSet(total))
    BY <1>1, <2>1, <2>2, ImageFinite
  <2> QED BY <2>3, FS_Subset
<1>6. S # {}
  <2>1. ASSUME \A k \in DOMAIN ts : total[k].weight = 0 PROVE FALSE
    <3> DEFINE G == [k \in DOMAIN ts |-> total[k].weight]
    <3>1. \A k \in DOMAIN ts : total[k].sum \in Int /\ total[k].weight \in Int
      BY <1>2, <1>3 DEF Amount
    <3>2. \A k \in DOMAIN ts : G[k] = total[k].weight
      OBVIOUS
    <3>3. \A k \in DOMAIN ts : G[k] = 0
      BY <2>1
    <3> HIDE DEF G
    <3>4. Sum(total).weight = SumFunctionOnSet(G, DOMAIN ts)
      BY <1>1, <3>1, <3>2, SumFields
    <3>5. SumFunctionOnSet(G, DOMAIN ts) = 0
      BY <1>1, <3>3, SumZero
    <3> HIDE DEF whole
    <3> QED BY <1>4, <3>4, <3>5
  <2>2. PICK k \in DOMAIN ts : total[k].weight # 0
    BY <2>1
  <2>3. total[k] \in S
    BY <1>2, <1>3, <2>2 DEF Amount
  <2> QED BY <2>3
<1>7. \A g \in S : g.sum \in Nat /\ g.weight \in Nat /\ g.weight > 0
  BY <1>2 DEF Amount
<1>8. \A k \in DOMAIN ts : total[k].sum \in Nat /\ total[k].weight \in Nat /\ (total[k].weight = 0 => total[k].sum = 0)
  BY <1>2, <1>3 DEF Amount
<1>9. /\ \A g : g \in Lowest(total, FALSE) <=> g \in S /\ \A h \in S : ~Above(g, h, FALSE)
      /\ \A g : g \in Highest(total, FALSE) <=> g \in S /\ \A h \in S : ~Above(h, g, FALSE)
  BY HighestIs
<1> HIDE DEF S
<1>10. \E m \in S : \A y \in S : ~Above(m, y, FALSE)
  <2> DEFINE R == {e \in S \X S : Above(e[1], e[2], FALSE)}
  <2>1. \A x, y \in S : <<x, y>> \in R <=> Above(x, y, FALSE)
    OBVIOUS
  <2>2. \A x, y \in S : Above(x, y, FALSE) => ~Above(y, x, FALSE)
    BY <1>7, AboveOrders
  <2>3. \A x, y, z \in S : ~Above(y, x, FALSE) /\ ~Above(z, y, FALSE) =>
          (Above(x, y, FALSE) \/ Above(y, z, FALSE) => Above(x, z, FALSE))
    BY <1>7, AboveOrders
  <2> HIDE DEF R
  <2>4. \A x \in S : <<x, x>> \notin R
    BY <2>1, <2>2
  <2>5. \A x, y, z \in S : <<x, y>> \in R /\ <<y, z>> \in R => <<x, z>> \in R
    BY <2>1, <2>2, <2>3
  <2>6. \E m \in S : \A y \in S : <<m, y>> \notin R
    BY <1>5, <1>6, <2>4, <2>5, LastExists
  <2> QED BY <2>1, <2>6
<1>11. \E m \in S : \A y \in S : ~Above(y, m, FALSE)
  <2> DEFINE R == {e \in S \X S : Above(e[2], e[1], FALSE)}
  <2>1. \A x, y \in S : <<x, y>> \in R <=> Above(y, x, FALSE)
    OBVIOUS
  <2>2. \A x, y \in S : Above(x, y, FALSE) => ~Above(y, x, FALSE)
    BY <1>7, AboveOrders
  <2>3. \A x, y, z \in S : ~Above(y, x, FALSE) /\ ~Above(z, y, FALSE) =>
          (Above(x, y, FALSE) \/ Above(y, z, FALSE) => Above(x, z, FALSE))
    BY <1>7, AboveOrders
  <2> HIDE DEF R
  <2>4. \A x \in S : <<x, x>> \notin R
    BY <2>1, <2>2
  <2>5. \A x, y, z \in S : <<x, y>> \in R /\ <<y, z>> \in R => <<x, z>> \in R
    BY <2>1, <2>2, <2>3
  <2>6. \E m \in S : \A y \in S : <<m, y>> \notin R
    BY <1>5, <1>6, <2>4, <2>5, LastExists
  <2> QED BY <2>1, <2>6
<1>12. ASSUME NEW g \in Lowest(total, FALSE) PROVE ~Exceeds(in, g, whole)
  <2>1. g \in S /\ \A h \in S : ~Above(g, h, FALSE)
    BY <1>9
  <2>2. g.sum \in Nat /\ g.weight \in Nat /\ g.weight > 0
    BY <2>1, <1>7
  <2>3. ASSUME NEW k \in DOMAIN ts PROVE g.sum * total[k].weight <= total[k].sum * g.weight
    <3>1. CASE total[k].weight = 0
      <4>1. total[k].sum = 0
        BY <1>8, <3>1
      <4> QED BY <3>1, <4>1, <2>2
    <3>2. CASE total[k].weight # 0
      <4>1. total[k] \in S
        BY <1>3, <1>8, <3>2 DEF S
      <4>2. ~Above(g, total[k], FALSE)
        BY <2>1, <4>1
      <4>3. ~(g.sum * total[k].weight > total[k].sum * g.weight)
        BY <4>2 DEF Above
      <4>4. g.sum * total[k].weight \in Int /\ total[k].sum * g.weight \in Int
        BY <1>8, <2>2
      <4> QED BY <4>3, <4>4
    <3> QED BY <3>1, <3>2
  <2>4. g.sum * Sum(total).weight <= Sum(total).sum * g.weight
    <3>1. \A k \in DOMAIN ts : total[k].sum \in Nat /\ total[k].weight \in Nat
      BY <1>8
    <3>2. DOMAIN total = DOMAIN ts /\ IsFiniteSet(DOMAIN ts) /\ g.sum \in Nat /\ g.weight \in Nat
      BY <1>1, <2>2
    <3> QED BY ONLY <3>1, <3>2, <2>3, Average
  <2> HIDE DEF whole
  <2>5. g.sum * whole.weight <= whole.sum * g.weight
    BY <2>4, <1>4
  <2>6. Exceeds(in, g, whole) <=> g.sum * whole.weight > whole.sum * g.weight
    BY <1>4 DEF Exceeds
  <2>7. g.sum * whole.weight \in Int /\ whole.sum * g.weight \in Int
    BY <1>4, <2>2
  <2> QED BY <2>5, <2>6, <2>7
<1>13. ASSUME NEW g \in Highest(total, FALSE) PROVE ~Exceeds(in, whole, g)
  <2>1. g \in S /\ \A h \in S : ~Above(h, g, FALSE)
    BY <1>9
  <2>2. g.sum \in Nat /\ g.weight \in Nat /\ g.weight > 0
    BY <2>1, <1>7
  <2>3. ASSUME NEW k \in DOMAIN ts PROVE total[k].sum * g.weight <= g.sum * total[k].weight
    <3>1. CASE total[k].weight = 0
      <4>1. total[k].sum = 0
        BY <1>8, <3>1
      <4> QED BY <3>1, <4>1, <2>2
    <3>2. CASE total[k].weight # 0
      <4>1. total[k] \in S
        BY <1>3, <1>8, <3>2 DEF S
      <4>2. ~Above(total[k], g, FALSE)
        BY <2>1, <4>1
      <4>3. ~(total[k].sum * g.weight > g.sum * total[k].weight)
        BY <4>2 DEF Above
      <4>4. g.sum * total[k].weight \in Int /\ total[k].sum * g.weight \in Int
        BY <1>8, <2>2
      <4> QED BY <4>3, <4>4
    <3> QED BY <3>1, <3>2
  <2>4. Sum(total).sum * g.weight <= g.sum * Sum(total).weight
    <3>1. \A k \in DOMAIN ts : total[k].sum \in Nat /\ total[k].weight \in Nat
      BY <1>8
    <3>2. DOMAIN total = DOMAIN ts /\ IsFiniteSet(DOMAIN ts) /\ g.sum \in Nat /\ g.weight \in Nat
      BY <1>1, <2>2
    <3> QED BY ONLY <3>1, <3>2, <2>3, Average
  <2> HIDE DEF whole
  <2>5. whole.sum * g.weight <= g.sum * whole.weight
    BY <2>4, <1>4
  <2>6. Exceeds(in, whole, g) <=> whole.sum * g.weight > g.sum * whole.weight
    BY <2>2 DEF Exceeds
  <2>7. g.sum * whole.weight \in Int /\ whole.sum * g.weight \in Int
    BY <1>4, <2>2
  <2> QED BY <2>5, <2>6, <2>7
<1>14. Lowest(total, FALSE) # {} /\ Highest(total, FALSE) # {}
  BY <1>9, <1>10, <1>11
<1> QED BY <1>12, <1>13, <1>14

\* what a card says of a category, by what the previous period has of it
Told(in, cats) ==
  \A i \in 1..Len(cats) : \E says \in ToSet(Scorecard(in)) :
    /\ \/ says \in {"up", "new"}
       \/ \E g \in in.previousByCategory : g.name = cats[i].name /\ cats[i].sum <= g.sum
    /\ \/ says = "down"
       \/ \A g \in in.previousByCategory : g.name = cats[i].name => g.sum <= cats[i].sum

\* a category of the previous period, once
Before(prev) ==
  /\ \A g, h \in prev : g.name = h.name => g = h
  /\ \A g \in prev : g.sum \in Nat

LEMMA CardSays ==
  ASSUME NEW in, TopCards \in Nat, NEW cats, cats \in Seq(ToSet(cats)), in.categories = cats,
         Len(cats) <= TopCards, in.counts = TRUE,
         Before(in.previousByCategory),
         \A i \in 1..Len(cats) : cats[i].sum \in Nat
  PROVE  Told(in, cats)
<1> DEFINE prev == in.previousByCategory
           head == HeadOf(cats, TopCards)
           Was(i) == {g \in prev : g.name = cats[i].name}
           Up(i) == \E g \in Was(i) : Exceeds(in, cats[i], g)
           Down(i) == \E g \in Was(i) : Exceeds(in, g, cats[i])
           Says(i) == CASE Was(i) = {} -> "new" [] Up(i) -> "up" [] Down(i) -> "down" [] OTHER -> "flat"
<1>1. DOMAIN head = 1..Len(cats)
  <2>1. DOMAIN head = 1..(IF Len(cats) < TopCards THEN Len(cats) ELSE TopCards)
    BY HeadOfIs
  <2>2. Len(cats) \in Nat
    OBVIOUS
  <2>3. (IF Len(cats) < TopCards THEN Len(cats) ELSE TopCards) = Len(cats)
    BY <2>2
  <2> QED BY <2>1, <2>3
<1>2. Scorecard(in) = [i \in DOMAIN head |-> Says(i)]
  BY DEF Scorecard
<1>3. \A i \in 1..Len(cats) : Says(i) \in ToSet(Scorecard(in))
  <2> HIDE DEF Says, head
  <2> QED BY <1>1, <1>2 DEF ToSet
<1>4. \A g, h : Exceeds(in, g, h) <=> g.sum > h.sum
  BY DEF Exceeds
<1>5. ASSUME NEW i \in 1..Len(cats)
      PROVE  /\ Was(i) = {} => ~Up(i) /\ ~Down(i)
             /\ Up(i) => \A g \in Was(i) : g.sum < cats[i].sum
             /\ Down(i) => \A g \in Was(i) : g.sum > cats[i].sum
             /\ ~Up(i) => \A g \in Was(i) : cats[i].sum <= g.sum
             /\ ~Down(i) => \A g \in Was(i) : g.sum <= cats[i].sum
  <2>1. \A g, h \in Was(i) : g = h
    BY DEF Before
  <2>2. \A g \in Was(i) : g.sum \in Nat /\ cats[i].sum \in Nat
    BY DEF Before
  <2>3. Up(i) <=> \E g \in Was(i) : cats[i].sum > g.sum
    BY <1>4
  <2>4. Down(i) <=> \E g \in Was(i) : g.sum > cats[i].sum
    BY <1>4
  <2> HIDE DEF Was, Up, Down
  <2> QED BY <2>1, <2>2, <2>3, <2>4
<1>6. ASSUME NEW i \in 1..Len(cats)
      PROVE  /\ Was(i) = {} => Says(i) = "new"
             /\ Up(i) => Says(i) = "up"
             /\ Down(i) => Says(i) = "down"
  <2>1. /\ Was(i) = {} => ~Up(i) /\ ~Down(i)
        /\ Up(i) => ~Down(i)
    <3>1. Was(i) = {} => ~Up(i) /\ ~Down(i)
      BY <1>5
    <3>2. ASSUME Up(i), Down(i) PROVE FALSE
      <4>1. PICK g \in Was(i) : TRUE
        BY <3>1, <3>2
      <4>2. g.sum < cats[i].sum /\ g.sum > cats[i].sum /\ g.sum \in Nat /\ cats[i].sum \in Nat
        BY <1>5, <3>2 DEF Before
      <4> QED BY <4>2
    <3> QED BY <3>1, <3>2
  <2> HIDE DEF Was, Up, Down
  <2> QED BY <2>1
<1>7. ASSUME NEW i \in 1..Len(cats)
      PROVE  /\ \/ Says(i) \in {"up", "new"}
                \/ \E g \in prev : g.name = cats[i].name /\ cats[i].sum <= g.sum
             /\ \/ Says(i) = "down"
                \/ \A g \in prev : g.name = cats[i].name => g.sum <= cats[i].sum
  <2>1. Says(i) \in {"up", "new"} \/ \E g \in prev : g.name = cats[i].name /\ cats[i].sum <= g.sum
    <3>1. CASE Was(i) = {} \/ Up(i)
      <4>1. Says(i) = "new" \/ Says(i) = "up"
        BY <3>1, <1>6
      <4> HIDE DEF Says
      <4> QED BY <4>1
    <3>2. CASE Was(i) # {} /\ ~Up(i)
      <4>1. PICK g \in Was(i) : TRUE
        BY <3>2
      <4>2. cats[i].sum <= g.sum
        BY <3>2, <1>5
      <4>3. g \in prev /\ g.name = cats[i].name
        OBVIOUS
      <4> QED BY <4>2, <4>3
    <3> QED BY <3>1, <3>2
  <2>2. Says(i) = "down" \/ \A g \in prev : g.name = cats[i].name => g.sum <= cats[i].sum
    <3>1. CASE Down(i)
      BY <3>1, <1>6
    <3>2. CASE ~Down(i)
      <4>1. \A g \in Was(i) : g.sum <= cats[i].sum
        BY <3>2, <1>5
      <4>2. \A g \in prev : g.name = cats[i].name => g \in Was(i)
        OBVIOUS
      <4> QED BY <4>1, <4>2
    <3> QED BY <3>1, <3>2
  <2> QED BY <2>1, <2>2
<1> HIDE DEF Says
<1> QED BY <1>3, <1>7 DEF Told

\* parts of a list's rows, compared one by one
LEMMA SumsCompare ==
  ASSUME NEW s, NEW t, NEW K, IsFiniteSet(K), DOMAIN s = K, DOMAIN t = K,
         \A k \in K : s[k].sum \in Int /\ s[k].weight \in Int,
         \A k \in K : t[k].sum \in Int /\ t[k].weight \in Int,
         \A k \in K : s[k].sum <= t[k].sum
  PROVE  Sum(s).sum <= Sum(t).sum
<1> DEFINE F == [k \in K |-> s[k].sum]
           G == [k \in K |-> t[k].sum]
<1>1. (\A k \in K : F[k] = s[k].sum) /\ \A k \in K : G[k] = t[k].sum
  OBVIOUS
<1>2. \A k \in K : F[k] \in Int /\ G[k] \in Int /\ F[k] <= G[k]
  OBVIOUS
<1> HIDE DEF F, G
<1>3. Sum(s).sum = SumFunctionOnSet(F, K)
  BY <1>1, SumFields
<1>4. Sum(t).sum = SumFunctionOnSet(G, K)
  BY <1>1, SumFields
<1>5. SumFunctionOnSet(F, K) <= SumFunctionOnSet(G, K)
  BY <1>2, SumLeq
<1> QED BY <1>3, <1>4, <1>5

\* Counts by category, now and before: where the total rose, a category on the
\* scorecard rose or is new; where it fell, one fell or is gone.
LEMMA Scored ==
  ASSUME NEW cur, Weighed(cur), NEW bef, Weighed(bef), NEW cats, Lists(cats, cur, 1),
         TopCards \in Nat, Len(cats) <= TopCards,
         NEW in, in.counts = TRUE, in.categories = cats,
         in.previousByCategory = GroupsBy(bef, LAMBDA r : r.dims[1]),
         in.value = Combine(cur), in.previous = Combine(bef)
  PROVE  LET moved == ToSet(Scorecard(in))
             names == {c.name : c \in ToSet(cats)}
         IN /\ Delta(in) = "up" => moved \cap {"up", "new"} # {}
            /\ Delta(in) = "down" => "down" \in moved \/ \E g \in in.previousByCategory : g.name \notin names
<1> DEFINE prev == in.previousByCategory
           K == 1..Len(cats)
           moved == ToSet(Scorecard(in))
           names == {c.name : c \in ToSet(cats)}
           part == [i \in K |-> Named(bef, 1, cats[i].name)]
           s == [i \in K |-> Combine(part[i])]
           T == {r \in bef : \E i \in K : r \in part[i]}
<1>1. Grouped(prev, bef, 1)
  BY GroupsOf
<1>2. /\ Len(cats) \in Nat /\ DOMAIN cats = K /\ cats \in Seq(ToSet(cats))
      /\ \A i, j \in K : cats[i].name = cats[j].name => i = j
  BY DEF Lists
<1>3. IsFiniteSet(K)
  BY <1>2, UpTo
<1>4. ASSUME NEW i \in K PROVE cats[i].sum \in Nat /\ cats[i].weight \in Nat
  <2>1. IsGroup(cats[i], cur, 1)
    BY DEF Lists
  <2>2. cats[i].rows \in SUBSET cur /\ cats[i].sum = Combine(cats[i].rows).sum /\ cats[i].weight = Combine(cats[i].rows).weight
    BY <2>1 DEF IsGroup, Named
  <2>3. Weighed(cats[i].rows)
    BY <2>2, WeighedPart
  <2> QED BY <2>2, <2>3, CombineOf
<1>5. \A i \in K : part[i] \in SUBSET bef /\ part[i] = Named(bef, 1, cats[i].name) /\ s[i] = Combine(part[i])
  BY DEF Named
<1>6. \A i \in K : s[i].sum \in Nat /\ s[i].weight \in Nat /\ (s[i].weight = 0 => s[i].sum = 0)
  <2>1. ASSUME NEW i \in K
        PROVE  /\ Combine(part[i]).sum \in Nat /\ Combine(part[i]).weight \in Nat
               /\ (Combine(part[i]).weight = 0 => Combine(part[i]).sum = 0)
    <3>1. Weighed(part[i])
      BY <1>5, WeighedPart
    <3> HIDE DEF part
    <3> QED BY <3>1, CombineOf
  <2> QED BY <1>5, <2>1
<1>7. T \in SUBSET bef /\ Weighed(T)
  <2>1. T \in SUBSET bef
    OBVIOUS
  <2> HIDE DEF T
  <2> QED BY <2>1, WeighedPart
<1>8. Divides(part, K, T)
  <2>1. \A i \in K : part[i] \in SUBSET T
    BY <1>5
  <2>2. \A x \in T : \E i \in K : x \in part[i]
    OBVIOUS
  <2>3. \A i, j \in K : \A x \in T : x \in part[i] /\ x \in part[j] => i = j
    BY <1>2, <1>5 DEF Named
  <2> HIDE DEF part, T, K
  <2> QED BY <1>3, <2>1, <2>2, <2>3 DEF Divides
<1>9. DOMAIN s = K
  OBVIOUS
<1>10. \A g \in prev : /\ g.sum = Combine(Named(bef, 1, g.name)).sum
                       /\ \A i \in K : g.name = cats[i].name => g.sum = s[i].sum
  BY <1>1, <1>5 DEF Grouped, IsGroup
<1>11. \A g \in prev : g.sum \in Nat
  <2>1. ASSUME NEW g \in prev PROVE g.sum \in Nat
    <3>1. Named(bef, 1, g.name) \in SUBSET bef
      BY DEF Named
    <3>2. Weighed(Named(bef, 1, g.name))
      BY <3>1, WeighedPart
    <3> QED BY <3>2, <1>10, CombineOf
  <2> QED BY <2>1
<1>12. \A g, h \in prev : g.name = h.name => g = h
  BY <1>1 DEF Grouped
<1>13. \A i \in K : \E says \in moved :
         /\ \/ says \in {"up", "new"}
            \/ \E g \in prev : g.name = cats[i].name /\ cats[i].sum <= g.sum
         /\ \/ says = "down"
            \/ \A g \in prev : g.name = cats[i].name => g.sum <= cats[i].sum
  <2>1. \A i \in 1..Len(cats) : cats[i].sum \in Nat
    BY <1>4
  <2>2. Before(in.previousByCategory)
    BY <1>11, <1>12 DEF Before
  <2>3. cats \in Seq(ToSet(cats))
    BY <1>2
  <2>4. Told(in, cats)
    BY <2>1, <2>2, <2>3, CardSays
  <2> QED BY <2>4 DEF Told
<1>14. Sum(cats) = in.value
  BY SumLists
<1> HIDE DEF prev, moved, part, s, T
<1>15. Sum(s) = Combine(T)
  BY <1>5, <1>7, <1>8, <1>9, SumDivided
<1>16. Combine(T).sum <= in.previous.sum /\ in.previous.sum \in Nat /\ in.value.sum \in Nat
  BY <1>7, PartLeq, CombineOf
<1>17. (\A k \in K : s[k].sum \in Int /\ s[k].weight \in Int) /\ \A k \in K : cats[k].sum \in Int /\ cats[k].weight \in Int
  BY <1>4, <1>6
<1>18. Delta(in) = "up" => in.value.sum > in.previous.sum
  BY DEF Delta, Exceeds
<1>19. Delta(in) = "down" => in.previous.sum > in.value.sum
  BY DEF Delta, Exceeds
<1>20. ASSUME moved \cap {"up", "new"} = {} PROVE in.value.sum <= in.previous.sum
  <2>1. ASSUME NEW i \in K PROVE cats[i].sum <= s[i].sum
    <3>1. PICK g \in prev : g.name = cats[i].name /\ cats[i].sum <= g.sum
      BY <1>13, <1>20
    <3> QED BY <3>1, <1>10
  <2> HIDE DEF K
  <2>2. Sum(cats).sum <= Sum(s).sum
    BY <2>1, <1>2, <1>3, <1>9, <1>17, SumsCompare
  <2>3. Combine(T).sum \in Nat
    BY <1>7, CombineOf
  <2> QED BY <2>2, <2>3, <1>14, <1>15, <1>16
<1>21. ASSUME "down" \notin moved, \A g \in prev : g.name \in names PROVE in.previous.sum <= in.value.sum
  <2>1. ASSUME NEW i \in K PROVE s[i].sum <= cats[i].sum
    <3>1. \A g \in prev : g.name = cats[i].name => g.sum <= cats[i].sum
      BY <1>13, <1>21
    <3>2. CASE \E g \in prev : g.name = cats[i].name
      BY <3>1, <3>2, <1>10
    <3>3. CASE ~\E g \in prev : g.name = cats[i].name
      <4>1. \A r \in part[i] : r \in bef /\ r.dims[1] = cats[i].name
        BY <1>5 DEF Named
      <4>2. \A r \in bef : r.weight > 0 => \E g \in prev : g.name = r.dims[1]
        BY <1>1 DEF Grouped
      <4>3. \A r \in part[i] : r.weight = 0
        <5>1. \A r \in bef : r.weight \in Nat
          BY DEF Weighed
        <5> QED BY <3>3, <4>1, <4>2, <5>1
      <4>4. Weighed(part[i])
        BY <1>5, WeighedPart
      <4>5. Combine(part[i]).weight = 0
        BY <4>3, <4>4, CombineOf
      <4>6. s[i].sum = 0
        BY <4>5, <1>5, <1>6
      <4> QED BY <4>6, <1>4
    <3> QED BY <3>2, <3>3
  <2>2. Divides(part, K, bef)
    <3>1. \A i \in K : part[i] \in SUBSET bef
      BY <1>5
    <3>2. ASSUME NEW x \in bef, x.weight > 0 PROVE \E i \in K : x \in part[i]
      <4>1. PICK g \in prev : g.name = x.dims[1]
        BY <3>2, <1>1 DEF Grouped
      <4>2. PICK c \in ToSet(cats) : c.name = g.name
        BY <1>21
      <4>3. PICK i \in K : cats[i] = c
        BY <1>2 DEF ToSet
      <4> QED BY <4>1, <4>2, <4>3, <1>5 DEF Named
    <3>3. \A i, j \in K : \A x \in bef : x \in part[i] /\ x \in part[j] => i = j
      BY <1>2, <1>5 DEF Named
    <3> HIDE DEF K
    <3> QED BY <1>3, <3>1, <3>2, <3>3 DEF Divides
  <2> HIDE DEF K
  <2>3. Sum(s) = Combine(bef)
    BY <1>5, <1>9, <2>2, SumDivided
  <2>4. Sum(s).sum <= Sum(cats).sum
    BY <2>1, <1>2, <1>3, <1>9, <1>17, SumsCompare
  <2> QED BY <2>3, <2>4, <1>14
<1>22. Delta(in) = "up" => moved \cap {"up", "new"} # {}
  BY <1>16, <1>18, <1>20
<1>23. Delta(in) = "down" => "down" \in moved \/ \E g \in prev : g.name \notin names
  BY <1>16, <1>19, <1>21
<1> QED BY <1>22, <1>23 DEF moved, prev

Buckets == {"hour", "day", "week"}
Offset(b) == IF b = "week" THEN 3 * 24 ELSE 0

LEMMA StepIs == Step["hour"] = 1 /\ Step["day"] = 24 /\ Step["week"] = 168
  BY DEF Step

\* A bucket starts at or before what it holds, and ends after it.
LEMMA StartIs ==
  ASSUME NEW t \in Int, NEW b \in Buckets
  PROVE  \E q \in Int : /\ BucketStart(t, b) = q * Step[b] - Offset(b)
                        /\ q * Step[b] - Offset(b) <= t /\ t < (q + 1) * Step[b] - Offset(b)
<1>1. CASE b = "hour"
  <2>1. Step[b] = 1 /\ Offset(b) = 0
    BY <1>1, StepIs DEF Offset
  <2>2. BucketStart(t, b) = ((t + 0) \div 1) * 1 - 0
    BY <1>1, StepIs DEF BucketStart
  <2>3. t = t * 1 - 0 /\ t * 1 - 0 <= t /\ t < (t + 1) * 1 - 0 /\ ((t + 0) \div 1) * 1 - 0 = t * 1 - 0
    OBVIOUS
  <2> QED BY <2>1, <2>2, <2>3
<1>2. CASE b = "day"
  <2>1. Step[b] = 24 /\ Offset(b) = 0
    BY <1>2, StepIs DEF Offset
  <2>2. BucketStart(t, b) = ((t + 0) \div 24) * 24 - 0
    BY <1>2, StepIs DEF BucketStart
  <2> DEFINE q == (t + 0) \div 24
  <2>3. q \in Int /\ q * 24 - 0 <= t /\ t < (q + 1) * 24 - 0
    OBVIOUS
  <2> HIDE DEF q
  <2>4. BucketStart(t, b) = q * 24 - 0
    BY <2>2 DEF q
  <2> QED BY <2>1, <2>3, <2>4
<1>3. CASE b = "week"
  <2>1. Step[b] = 168 /\ Offset(b) = 72
    BY <1>3, StepIs DEF Offset
  <2>2. BucketStart(t, b) = ((t + 72) \div 168) * 168 - 72
    BY <1>3, StepIs DEF BucketStart
  <2> DEFINE q == (t + 72) \div 168
  <2>3. q \in Int /\ q * 168 - 72 <= t /\ t < (q + 1) * 168 - 72
    OBVIOUS
  <2>4. BucketStart(t, b) = q * 168 - 72
    BY <2>2
  <2> HIDE DEF q
  <2> QED BY <2>1, <2>3, <2>4
<1> QED BY <1>1, <1>2, <1>3 DEF Buckets

\* the start of a bucket
Starts(s, b) == \E q \in Int : s = q * Step[b] - Offset(b)

LEMMA StartsAre ==
  ASSUME NEW s, NEW b \in Buckets, Starts(s, b)
  PROVE  /\ s \in Int /\ Step[b] \in Int /\ Step[b] >= 1
         /\ \A n \in Int : Starts(s + n * Step[b], b) /\ Starts(s - n * Step[b], b)
         /\ \A t \in Int : s <= t /\ t < s + Step[b] => BucketStart(t, b) = s
<1>1. PICK q \in Int : s = q * Step[b] - Offset(b)
  BY DEF Starts
<1>2. /\ \/ Step[b] = 1 /\ Offset(b) = 0
         \/ Step[b] = 24 /\ Offset(b) = 0
         \/ Step[b] = 168 /\ Offset(b) = 72
  BY StepIs DEF Offset, Buckets
<1>3. s \in Int /\ Step[b] \in Int /\ Step[b] >= 1
  BY <1>1, <1>2
<1>4. ASSUME NEW n \in Int PROVE Starts(s + n * Step[b], b) /\ Starts(s - n * Step[b], b)
  <2>1. q + n \in Int /\ q - n \in Int
    OBVIOUS
  <2>2. s + n * Step[b] = (q + n) * Step[b] - Offset(b) /\ s - n * Step[b] = (q - n) * Step[b] - Offset(b)
    BY <1>1, <1>2
  <2> QED BY <2>1, <2>2 DEF Starts
<1>5. ASSUME NEW t \in Int, s <= t, t < s + Step[b] PROVE BucketStart(t, b) = s
  <2>1. PICK p \in Int : /\ BucketStart(t, b) = p * Step[b] - Offset(b)
                         /\ p * Step[b] - Offset(b) <= t /\ t < (p + 1) * Step[b] - Offset(b)
    BY StartIs
  <2>2. p = q
    BY <1>1, <1>2, <1>5, <2>1
  <2> QED BY <1>1, <2>1, <2>2
<1> QED BY <1>3, <1>4, <1>5

LEMMA BucketOf ==
  ASSUME NEW t \in Int, NEW b \in Buckets
  PROVE  /\ Starts(BucketStart(t, b), b) /\ BucketStart(t, b) \in Int
         /\ BucketStart(t, b) <= t /\ t < BucketStart(t, b) + Step[b]
         /\ BucketStart(BucketStart(t, b), b) = BucketStart(t, b)
<1>1. PICK q \in Int : /\ BucketStart(t, b) = q * Step[b] - Offset(b)
                       /\ q * Step[b] - Offset(b) <= t /\ t < (q + 1) * Step[b] - Offset(b)
  BY StartIs
<1>2. Starts(BucketStart(t, b), b)
  BY <1>1 DEF Starts
<1>3. /\ BucketStart(t, b) \in Int /\ Step[b] \in Int /\ Step[b] >= 1
  BY <1>2, StartsAre
<1>4. /\ \/ Step[b] = 1 /\ Offset(b) = 0
         \/ Step[b] = 24 /\ Offset(b) = 0
         \/ Step[b] = 168 /\ Offset(b) = 72
  BY StepIs DEF Offset, Buckets
<1>5. BucketStart(t, b) <= t /\ t < BucketStart(t, b) + Step[b]
  BY <1>1, <1>4
<1>6. BucketStart(BucketStart(t, b), b) = BucketStart(t, b)
  <2> DEFINE x == BucketStart(t, b)
  <2>1. Starts(x, b) /\ x \in Int /\ x <= x /\ x < x + Step[b]
    BY <1>2, <1>3
  <2> HIDE DEF x
  <2>2. BucketStart(x, b) = x
    BY <2>1, StartsAre
  <2> QED BY <2>2 DEF x
<1> QED BY <1>2, <1>3, <1>5, <1>6

\* What is recorded from a bucket's start on is in that bucket or a later one.
LEMMA FromStart ==
  ASSUME NEW b \in Buckets, NEW s, Starts(s, b), NEW t \in Int
  PROVE  BucketStart(t, b) >= s <=> t >= s
<1>1. PICK q \in Int : s = q * Step[b] - Offset(b)
  BY DEF Starts
<1>2. PICK p \in Int : /\ BucketStart(t, b) = p * Step[b] - Offset(b)
                       /\ p * Step[b] - Offset(b) <= t /\ t < (p + 1) * Step[b] - Offset(b)
  BY StartIs
<1>3. /\ \/ Step[b] = 1 /\ Offset(b) = 0
         \/ Step[b] = 24 /\ Offset(b) = 0
         \/ Step[b] = 168 /\ Offset(b) = 72
  BY StepIs DEF Offset, Buckets
<1> QED BY <1>1, <1>2, <1>3

\* Two bucket starts are whole steps apart.
LEMMA StartsApart ==
  ASSUME NEW b \in Buckets, NEW s, Starts(s, b), NEW t, Starts(t, b)
  PROVE  \E k \in Int : t = s + k * Step[b]
<1>1. PICK q \in Int : s = q * Step[b] - Offset(b)
  BY DEF Starts
<1>2. PICK p \in Int : t = p * Step[b] - Offset(b)
  BY DEF Starts
<1>3. /\ \/ Step[b] = 1 /\ Offset(b) = 0
         \/ Step[b] = 24 /\ Offset(b) = 0
         \/ Step[b] = 168 /\ Offset(b) = 72
  BY StepIs DEF Offset, Buckets
<1>4. p - q \in Int /\ t = s + (p - q) * Step[b]
  BY <1>1, <1>2, <1>3
<1> QED BY <1>4

\* The window of some days: whole buckets, the last of them now's.
LEMMA WindowIs ==
  ASSUME NEW days \in Nat, days >= 1, NEW now \in Int
  PROVE  LET w == WindowFor(days, now) IN
         /\ w.bucket \in Buckets /\ w.buckets \in Nat /\ w.buckets >= 1
         /\ Starts(w.periodStart, w.bucket) /\ Starts(w.previousStart, w.bucket)
         /\ w.periodStart = BucketStart(now, w.bucket) - (w.buckets - 1) * Step[w.bucket]
         /\ w.previousStart = w.periodStart - w.buckets * Step[w.bucket]
         /\ w.periodStart \in Int /\ w.previousStart \in Int /\ w.previousStart <= w.periodStart
<1> DEFINE w == WindowFor(days, now)
           b == CASE days <= 2 -> "hour" [] days \in 3..120 -> "day" [] OTHER -> "week"
           n == CASE b = "hour" -> days * 24 [] b = "day" -> days [] b = "week" -> days \div 7
           start == BucketStart(now, b) - (n - 1) * Step[b]
<1>1. w.bucket = b /\ w.buckets = n /\ w.periodStart = start /\ w.previousStart = start - n * Step[b]
  BY DEF WindowFor
<1>2. b \in Buckets /\ n \in Nat /\ n >= 1
  <2>1. CASE days <= 2
    <3>1. b = "hour"
      BY <2>1
    <3>2. n = days * 24
      BY <3>1
    <3> QED BY <3>1, <3>2 DEF Buckets
  <2>2. CASE days \in 3..120
    <3>1. b = "day"
      BY <2>2
    <3>2. n = days
      BY <3>1
    <3> QED BY <3>1, <3>2 DEF Buckets
  <2>3. CASE days > 120
    <3>1. b = "week"
      BY <2>3
    <3>2. n = days \div 7
      BY <3>1
    <3>3. days \div 7 \in Nat /\ days \div 7 >= 1
      BY <2>3
    <3> HIDE DEF n
    <3> QED BY <3>1, <3>2, <3>3 DEF Buckets
  <2> QED BY <2>1, <2>2, <2>3
<1> HIDE DEF b, n
<1>3. Starts(BucketStart(now, b), b) /\ Step[b] \in Int /\ Step[b] >= 1
  <2>1. Starts(BucketStart(now, b), b)
    BY <1>2, BucketOf
  <2> QED BY <1>2, <2>1, StartsAre
<1>4. Starts(start, b) /\ start \in Int
  <2>1. n - 1 \in Int
    BY <1>2
  <2>2. Starts(start, b)
    BY <1>2, <1>3, <2>1, StartsAre
  <2> HIDE DEF start
  <2> QED BY <1>2, <2>2, StartsAre
<1> HIDE DEF start
<1>5. Starts(start - n * Step[b], b) /\ start - n * Step[b] \in Int
  <2>1. n \in Int
    BY <1>2
  <2>2. Starts(start - n * Step[b], b)
    BY <1>2, <1>4, <2>1, StartsAre
  <2> QED BY <1>2, <1>3, <1>4, <2>2, StartsAre
<1>6. start - n * Step[b] <= start
  <2>1. n * Step[b] >= 0
    <3>1. \A x, y \in Int : x >= 0 /\ y >= 0 => x * y >= 0
      OBVIOUS
    <3> QED BY <1>2, <1>3, <3>1
  <2>2. n * Step[b] \in Int
    BY <1>2, <1>3
  <2> QED BY <1>4, <2>1, <2>2
<1>7. start = BucketStart(now, b) - (n - 1) * Step[b]
  BY DEF start
<1> HIDE DEF w
<1>8. /\ w.bucket \in Buckets /\ w.buckets \in Nat /\ w.buckets >= 1
      /\ Starts(w.periodStart, w.bucket) /\ Starts(w.previousStart, w.bucket)
      /\ w.periodStart = BucketStart(now, w.bucket) - (w.buckets - 1) * Step[w.bucket]
      /\ w.previousStart = w.periodStart - w.buckets * Step[w.bucket]
      /\ w.periodStart \in Int /\ w.previousStart \in Int /\ w.previousStart <= w.periodStart
  BY <1>1, <1>2, <1>4, <1>5, <1>6, <1>7
<1> QED BY <1>8 DEF w

\* The buckets of a window: as many as it has, and the starts between its own and now's.
\* n buckets, the last of them now's
StartsAt(start, n, now, b) == start = BucketStart(now, b) - (n - 1) * Step[b]

LEMMA RangeIs ==
  ASSUME NEW b \in Buckets, NEW n \in Nat, n >= 1, NEW now \in Int,
         NEW start, StartsAt(start, n, now, b)
  PROVE  LET ts == BucketRange(start, now, b) IN
         /\ DOMAIN ts = 1..n /\ Len(ts) = n /\ ts \in Seq(Int)
         /\ \A i \in 1..n : ts[i] = start + (i - 1) * Step[b]
         /\ Last(ts) = BucketStart(now, b)
<1> USE DEF StartsAt
<1> DEFINE ts == BucketRange(start, now, b)
           S == Step[b]
           B == BucketStart(now, b)
<1>1. S = 1 \/ S = 24 \/ S = 168
  BY StepIs DEF Buckets
<1>2. B \in Int /\ B <= now /\ now < B + S /\ Starts(B, b)
  BY BucketOf
<1>3. start \in Int /\ start = B - (n - 1) * S
  BY <1>1, <1>2
<1>4. Starts(start, b)
  <2>1. n - 1 \in Int
    OBVIOUS
  <2> HIDE DEF B
  <2> QED BY <1>2, <2>1, StartsAre DEF B
<1>5. BucketStart(start, b) = start
  <2>1. start <= start /\ start < start + S
    BY <1>1, <1>3
  <2> QED BY <1>3, <1>4, <2>1, StartsAre
<1>6. (now - start) \div S + 1 = n
  <2> HIDE DEF S, B
  <2>1. CASE S = 1
    <3>1. \A m \in Int : \A d \in 0..0 : (d + m * 1) \div 1 = m
      OBVIOUS
    <3>2. n - 1 \in Int /\ now - B \in 0..0
      BY <1>2, <1>3, <2>1
    <3>3. ((now - B) + (n - 1) * 1) \div 1 = n - 1
      BY ONLY <3>1, <3>2
    <3>4. now - start = (now - B) + (n - 1) * 1
      BY <1>2, <1>3, <2>1, SMTT(60)
    <3>5. (now - start) \div 1 = n - 1
      BY ONLY <3>3, <3>4
    <3> QED BY <2>1, <3>5
  <2>2. CASE S = 24
    <3>1. \A m \in Int : \A d \in 0..23 : (d + m * 24) \div 24 = m
      OBVIOUS
    <3>2. n - 1 \in Int /\ now - B \in 0..23
      BY <1>2, <1>3, <2>2
    <3>3. ((now - B) + (n - 1) * 24) \div 24 = n - 1
      BY ONLY <3>1, <3>2
    <3>4. now - start = (now - B) + (n - 1) * 24
      BY <1>2, <1>3, <2>2
    <3>5. (now - start) \div 24 = n - 1
      BY ONLY <3>3, <3>4
    <3> QED BY <2>2, <3>5
  <2>3. CASE S = 168
    <3>1. \A m \in Int : \A d \in 0..167 : (d + m * 168) \div 168 = m
      OBVIOUS
    <3>2. n - 1 \in Int /\ now - B \in 0..167
      BY <1>2, <1>3, <2>3
    <3>3. ((now - B) + (n - 1) * 168) \div 168 = n - 1
      BY ONLY <3>1, <3>2
    <3>4. now - start = (now - B) + (n - 1) * 168
      BY <1>2, <1>3, <2>3
    <3>5. (now - start) \div 168 = n - 1
      BY ONLY <3>3, <3>4
    <3> QED BY <2>3, <3>5
  <2> QED BY <1>1, <2>1, <2>2, <2>3
<1>7. ts = [i \in 1..((now - BucketStart(start, b)) \div S + 1) |-> BucketStart(start, b) + (i - 1) * S]
  BY DEF BucketRange
<1>8. ts = [i \in 1..n |-> start + (i - 1) * S]
  BY <1>5, <1>6, <1>7
<1> HIDE DEF ts, S, B
<1>9. ts \in [1..n -> Int]
  BY <1>1, <1>3, <1>8
<1>10. ts \in Seq(Int) /\ Len(ts) = n
  BY <1>9, LenIs
<1>11. Last(ts) = B
  <2>1. Last(ts) = ts[n]
    BY <1>10 DEF Last
  <2>2. ts[n] = start + (n - 1) * S
    BY <1>8
  <2> QED BY <2>1, <2>2, <1>1, <1>2, <1>3
<1>12. /\ DOMAIN ts = 1..n /\ Len(ts) = n /\ ts \in Seq(Int)
       /\ \A i \in 1..n : ts[i] = start + (i - 1) * S
       /\ Last(ts) = B
  BY <1>8, <1>10, <1>11
<1> QED BY <1>12 DEF ts, S, B

\* Every bucket start of the window is in its range.
LEMMA InRange ==
  ASSUME NEW b \in Buckets, NEW n \in Nat, n >= 1, NEW now \in Int,
         NEW start, start = BucketStart(now, b) - (n - 1) * Step[b],
         NEW t, Starts(t, b), t >= start, t <= BucketStart(now, b)
  PROVE  \E i \in 1..n : BucketRange(start, now, b)[i] = t
<1> DEFINE S == Step[b]
           B == BucketStart(now, b)
<1>1. S = 1 \/ S = 24 \/ S = 168
  BY StepIs DEF Buckets
<1>2. B \in Int /\ Starts(B, b)
  BY BucketOf
<1>3. start \in Int /\ start = B - (n - 1) * S
  BY <1>1, <1>2
<1>4. Starts(start, b)
  <2>1. n - 1 \in Int
    OBVIOUS
  <2> HIDE DEF B
  <2> QED BY <1>2, <2>1, StartsAre DEF B
<1>5. PICK k \in Int : t = start + k * S
  BY <1>4, StartsApart
<1>6. k >= 0 /\ k <= n - 1
  <2> HIDE DEF S
  <2>1. t >= start /\ t <= B
    OBVIOUS
  <2> HIDE DEF B
  <2> QED BY <1>1, <1>2, <1>3, <1>5, <2>1
<1>7. k + 1 \in 1..n
  BY <1>6
<1>8. BucketRange(start, now, b)[k + 1] = start + ((k + 1) - 1) * S
  <2>1. StartsAt(start, n, now, b)
    BY DEF StartsAt
  <2>2. b \in Buckets /\ n \in Nat /\ n >= 1 /\ now \in Int
    OBVIOUS
  <2>3. \A i \in 1..n : BucketRange(start, now, b)[i] = start + (i - 1) * Step[b]
    BY ONLY <2>1, <2>2, RangeIs
  <2> QED BY <1>7, <2>3
<1>9. (k + 1) - 1 = k
  OBVIOUS
<1> QED BY <1>5, <1>7, <1>8, <1>9

\* what the master holds when the clock says now
Recorded(records, now) ==
  /\ IsFiniteSet(records) /\ now \in Int
  /\ \A r \in records : /\ r.t \in Int /\ r.t <= now /\ r.dims \in [1..3 -> Nat \ {0}]
                        /\ r.value \in Nat /\ r.samples \in Nat

\* what a record adds to the sum, and to the weight, of its row
ReadFrom(records, from, now) == {r \in records : r.t >= from /\ r.t >= now - MaxHistory}
KeyOf(r, b, dims) == <<IF b = "none" THEN 0 ELSE BucketStart(r.t, b), [d \in dims |-> r.dims[d]]>>
WorthOf(r, counts) == IF counts THEN r.value ELSE r.value * r.samples
MassOf(r, counts) == IF counts THEN r.value ELSE r.samples
RowOf(k, read, b, dims, counts) ==
  [t |-> k[1], dims |-> k[2],
   weight |-> SumFunction([r \in {x \in read : KeyOf(x, b, dims) = k} |-> MassOf(r, counts)]),
   sum |-> SumFunction([r \in {x \in read : KeyOf(x, b, dims) = k} |-> WorthOf(r, counts)])]

LEMMA SliceIs ==
  ASSUME NEW records, NEW from, NEW now, NEW b, NEW dims, NEW counts
  PROVE  LET read == ReadFrom(records, from, now) IN
         Slice(records, from, now, b, dims, counts) = {RowOf(KeyOf(r, b, dims), read, b, dims, counts) : r \in read}
  BY DEF Slice, ReadFrom, KeyOf, RowOf, MassOf, WorthOf

\* the row of a key
IsRow(row, k, at, f, g) ==
  /\ row.t = k[1] /\ row.dims = k[2]
  /\ row.sum = SumFunctionOnSet(f, at) /\ row.weight = SumFunctionOnSet(g, at)
  /\ row.sum \in Nat /\ row.weight \in Nat /\ (row.weight = 0 => row.sum = 0)

\* A row adds up what was recorded under its key, and weighs it.
LEMMA RowIs ==
  ASSUME NEW read, IsFiniteSet(read), NEW counts \in BOOLEAN, \A r \in read : r.value \in Nat /\ r.samples \in Nat,
         NEW b, NEW dims, NEW k,
         NEW f, \A r \in read : f[r] = WorthOf(r, counts), NEW g, \A r \in read : g[r] = MassOf(r, counts)
  PROVE  IsRow(RowOf(k, read, b, dims, counts), k, {r \in read : KeyOf(r, b, dims) = k}, f, g)
<1> DEFINE row == RowOf(k, read, b, dims, counts)
           at == {r \in read : KeyOf(r, b, dims) = k}
           F == [r \in at |-> WorthOf(r, counts)]
           G == [r \in at |-> MassOf(r, counts)]
<1>1. row.t = k[1] /\ row.dims = k[2] /\ row.sum = SumFunction(F) /\ row.weight = SumFunction(G)
  BY DEF RowOf
<1>2. IsFiniteSet(at)
  BY FS_Subset
<1>3. \A r \in read : WorthOf(r, counts) \in Nat /\ MassOf(r, counts) \in Nat
  <2>1. \A x, y \in Nat : x * y \in Nat
    OBVIOUS
  <2> QED BY <2>1 DEF WorthOf, MassOf
<1>4. \A r \in at : F[r] \in Int /\ F[r] = f[r] /\ G[r] \in Int /\ G[r] = g[r]
  BY <1>3
<1>5. \A r \in at : f[r] \in Nat /\ g[r] \in Nat
  BY <1>3
<1>6. \A r \in at : g[r] = 0 => f[r] = 0
  <2>1. ASSUME NEW r \in at, g[r] = 0 PROVE f[r] = 0
    <3>1. CASE counts
      BY <2>1, <3>1 DEF WorthOf, MassOf
    <3>2. CASE ~counts
      <4>1. r.samples = 0 /\ r.value \in Nat
        BY <2>1, <3>2 DEF MassOf
      <4>2. f[r] = r.value * r.samples
        BY <3>2 DEF WorthOf
      <4> QED BY <4>1, <4>2
    <3> QED BY <3>1, <3>2
  <2> QED BY <2>1
<1>7. DOMAIN F = at /\ DOMAIN G = at
  OBVIOUS
<1>8. SumFunction(F) = SumFunctionOnSet(F, DOMAIN F) /\ SumFunction(G) = SumFunctionOnSet(G, DOMAIN G)
  BY SumFunctionIs
<1> HIDE DEF at, F, G, row
<1>9. SumFunctionOnSet(F, at) = SumFunctionOnSet(f, at)
  BY <1>2, <1>4, SumSame
<1>10. SumFunctionOnSet(G, at) = SumFunctionOnSet(g, at)
  BY <1>2, <1>4, SumSame
<1>11. SumFunctionOnSet(f, at) \in Nat /\ SumFunctionOnSet(g, at) \in Nat
  BY <1>2, <1>5, SumNat
<1>12. ASSUME SumFunctionOnSet(g, at) = 0 PROVE SumFunctionOnSet(f, at) = 0
  <2>1. \A x \in at : g[x] = 0
    <3>1. ASSUME NEW x \in at PROVE g[x] = 0
      <4>1. SumFunctionOnSet(g, at) = g[x] + SumFunctionOnSet(g, at \ {x})
        <5>1. \A y \in at : g[y] \in Int
          BY <1>5
        <5> QED BY <1>2, <5>1, SumAny
      <4>2. SumFunctionOnSet(g, at \ {x}) \in Nat
        <5>1. IsFiniteSet(at \ {x})
          BY <1>2, FS_Subset
        <5>2. \A y \in at \ {x} : g[y] \in Nat
          BY <1>5
        <5> QED BY <5>1, <5>2, SumNat
      <4>3. g[x] \in Nat
        BY <1>5
      <4> QED BY <1>12, <4>1, <4>2, <4>3
    <3> QED BY <3>1
  <2>2. \A x \in at : f[x] = 0
    BY <1>6, <2>1
  <2> QED BY <1>2, <2>2, SumZero
<1>13. IsRow(row, k, at, f, g)
  BY <1>1, <1>7, <1>8, <1>9, <1>10, <1>11, <1>12 DEF IsRow
<1> QED BY <1>13 DEF row, at

LEMMA SliceWeighed ==
  ASSUME NEW records, NEW from, NEW now, Recorded(records, now), NEW counts \in BOOLEAN, NEW b, NEW dims
  PROVE  LET rows == Slice(records, from, now, b, dims, counts)
             read == ReadFrom(records, from, now)
         IN /\ Weighed(rows) /\ IsFiniteSet(read) /\ read \subseteq records
            /\ \A row \in rows : \E r \in read : row.t = KeyOf(r, b, dims)[1] /\ row.dims = [d \in dims |-> r.dims[d]]
<1> DEFINE rows == Slice(records, from, now, b, dims, counts)
           read == ReadFrom(records, from, now)
           row(r) == RowOf(KeyOf(r, b, dims), read, b, dims, counts)
           f == [r \in read |-> WorthOf(r, counts)]
           g == [r \in read |-> MassOf(r, counts)]
<1>1. rows = {row(r) : r \in read}
  BY SliceIs
<1>2. IsFiniteSet(read) /\ read \subseteq records
  BY FS_Subset DEF ReadFrom, Recorded
<1>3. \A r \in read : r.value \in Nat /\ r.samples \in Nat
  BY <1>2 DEF Recorded
<1>4. ASSUME NEW r \in read
      PROVE  /\ row(r).t = KeyOf(r, b, dims)[1] /\ row(r).dims = KeyOf(r, b, dims)[2]
             /\ row(r).sum \in Nat /\ row(r).weight \in Nat /\ (row(r).weight = 0 => row(r).sum = 0)
  <2>1. (\A x \in read : f[x] = WorthOf(x, counts)) /\ \A x \in read : g[x] = MassOf(x, counts)
    OBVIOUS
  <2> HIDE DEF read, f, g
  <2>2. IsRow(row(r), KeyOf(r, b, dims), {x \in read : KeyOf(x, b, dims) = KeyOf(r, b, dims)}, f, g)
    BY <1>2, <1>3, <2>1, RowIs
  <2> QED BY <2>2 DEF IsRow
<1>5. IsFiniteSet(rows)
  <2> DEFINE h == [r \in read |-> row(r)]
  <2>1. \A x \in read : h[x] \in rows
    BY <1>1
  <2>2. \A y \in rows : \E x \in read : h[x] = y
    BY <1>1
  <2> HIDE DEF rows, read, h
  <2> QED BY <1>2, <2>1, <2>2, ImageFinite
<1>6. \A r : KeyOf(r, b, dims)[2] = [d \in dims |-> r.dims[d]]
  BY DEF KeyOf
<1> HIDE DEF rows, read, row
<1>7. Weighed(rows)
  BY <1>1, <1>4, <1>5 DEF Weighed
<1>8. \A x \in rows : \E r \in read : x.t = KeyOf(r, b, dims)[1] /\ x.dims = [d \in dims |-> r.dims[d]]
  <2>1. ASSUME NEW x \in rows
        PROVE  \E r \in read : x.t = KeyOf(r, b, dims)[1] /\ x.dims = [d \in dims |-> r.dims[d]]
    <3>1. PICK r \in read : x = row(r)
      BY <1>1
    <3>2. x.t = KeyOf(r, b, dims)[1] /\ x.dims = KeyOf(r, b, dims)[2]
      BY <1>4, <3>1
    <3>3. x.dims = [d \in dims |-> r.dims[d]]
      BY <1>6, <3>2
    <3> QED BY <3>2, <3>3
  <2> QED BY <2>1
<1> QED BY <1>2, <1>7, <1>8 DEF rows, read

\* A sum of values, and of weights.
Sums(f, g, S) == [sum |-> SumFunctionOnSet(f, S), weight |-> SumFunctionOnSet(g, S)]
\* the records under the rows of T
Under(U, T, b, dims) == \A r \in U : \E row \in T : <<row.t, row.dims>> = KeyOf(r, b, dims)

\* Rows add up what was recorded under their keys.
LEMMA SliceSum ==
  ASSUME NEW records, NEW from, NEW now, Recorded(records, now), NEW counts \in BOOLEAN, NEW b, NEW dims,
         NEW T, T \in SUBSET Slice(records, from, now, b, dims, counts),
         NEW U, U \in SUBSET ReadFrom(records, from, now), Under(U, T, b, dims),
         \A r \in ReadFrom(records, from, now) : (\E row \in T : <<row.t, row.dims>> = KeyOf(r, b, dims)) => r \in U,
         NEW f, \A r \in records : f[r] = WorthOf(r, counts), NEW g, \A r \in records : g[r] = MassOf(r, counts)
  PROVE  Combine(T) = Sums(f, g, U)
<1> DEFINE rows == Slice(records, from, now, b, dims, counts)
           read == ReadFrom(records, from, now)
           Key(r) == KeyOf(r, b, dims)
           row(k) == RowOf(k, read, b, dims, counts)
           part == [x \in T |-> {r \in read : Key(r) = <<x.t, x.dims>>}]
           F == [x \in T |-> x.sum]
           G == [x \in T |-> x.weight]
<1>1. rows = {row(Key(r)) : r \in read}
  BY SliceIs
<1>2. IsFiniteSet(read) /\ read \subseteq records /\ Weighed(rows)
  BY SliceWeighed
<1>3. \A r \in read : r.value \in Nat /\ r.samples \in Nat
  BY <1>2 DEF Recorded
<1>4. \A r : Key(r) = <<Key(r)[1], Key(r)[2]>>
  BY DEF KeyOf
<1>5. \A r \in read : f[r] \in Int /\ g[r] \in Int
  <2>1. \A x, y \in Nat : x * y \in Nat
    OBVIOUS
  <2>2. \A r \in read : f[r] = WorthOf(r, counts) /\ g[r] = MassOf(r, counts)
    BY <1>2
  <2> HIDE DEF read
  <2> QED BY <1>3, <2>1, <2>2 DEF WorthOf, MassOf
<1>6. ASSUME NEW x \in T
      PROVE  /\ \E r \in read : Key(r) = <<x.t, x.dims>>
             /\ x = row(<<x.t, x.dims>>)
             /\ x.sum = SumFunctionOnSet(f, part[x]) /\ x.weight = SumFunctionOnSet(g, part[x])
  <2>1. PICK r \in read : x = row(Key(r))
    BY <1>1
  <2>2. IsRow(row(Key(r)), Key(r), {y \in read : Key(y) = Key(r)}, f, g)
    <3>1. (\A y \in read : f[y] = WorthOf(y, counts)) /\ \A y \in read : g[y] = MassOf(y, counts)
      BY <1>2
    <3> HIDE DEF read
    <3> QED BY <1>2, <1>3, <3>1, RowIs
  <2>3. Key(r) = <<x.t, x.dims>>
    BY <1>4, <2>1, <2>2 DEF IsRow
  <2>4. part[x] = {y \in read : Key(y) = Key(r)}
    BY <2>3
  <2> HIDE DEF part, row, Key, read
  <2> QED BY <2>1, <2>2, <2>3, <2>4 DEF IsRow
<1>7. IsFiniteSet(T) /\ IsFiniteSet(U)
  BY <1>2, FS_Subset DEF Weighed
<1>8. \A x \in T : part[x] \in SUBSET U
  <2>1. ASSUME NEW x \in T, NEW r \in read, Key(r) = <<x.t, x.dims>> PROVE r \in U
    BY <2>1
  <2> QED BY <2>1
<1>9. \A r \in U : \E x \in T : r \in part[x]
  <2>1. ASSUME NEW r \in U PROVE \E x \in T : r \in read /\ Key(r) = <<x.t, x.dims>>
    BY DEF Under
  <2> HIDE DEF read, Key
  <2> QED BY <2>1
<1>10. \A x, y \in T : \A r \in U : r \in part[x] /\ r \in part[y] => x = y
  <2>1. ASSUME NEW x \in T, NEW y \in T, NEW r, Key(r) = <<x.t, x.dims>>, Key(r) = <<y.t, y.dims>> PROVE x = y
    <3>1. x = row(<<x.t, x.dims>>) /\ y = row(<<y.t, y.dims>>)
      BY <1>6
    <3>2. <<x.t, x.dims>> = <<y.t, y.dims>>
      BY <2>1
    <3> HIDE DEF row
    <3> QED BY Zenon, <3>1, <3>2
  <2> HIDE DEF Key
  <2> QED BY <2>1
<1>11. /\ \A x \in T : F[x] = x.sum
       /\ \A x \in T : x.sum \in Int
       /\ \A x \in T : G[x] = x.weight
       /\ \A x \in T : x.weight \in Int
  BY <1>2 DEF Weighed
<1>12. /\ \A x \in T : F[x] = SumFunctionOnSet(f, part[x])
       /\ \A x \in T : G[x] = SumFunctionOnSet(g, part[x])
  BY <1>6, <1>11
<1>13. /\ \A x \in U : f[x] \in Int
       /\ \A x \in U : g[x] \in Int
  BY <1>5
<1> HIDE DEF rows, read, Key, row, part, F, G
<1>14. Combine(T) = [sum |-> SumFunctionOnSet(F, T), weight |-> SumFunctionOnSet(G, T)]
  BY <1>7, <1>11, CombineIs
<1>15. SumFunctionOnSet(f, U) = SumFunctionOnSet(F, T)
  BY <1>7, <1>8, <1>9, <1>10, <1>12, <1>13, SumOfParts
<1>16. SumFunctionOnSet(g, U) = SumFunctionOnSet(G, T)
  BY <1>7, <1>8, <1>9, <1>10, <1>12, <1>13, SumOfParts, SMTT(60)
<1> QED BY <1>14, <1>15, <1>16 DEF Sums

LEMMA SliceAll ==
  ASSUME NEW records, NEW from, NEW now, Recorded(records, now), NEW counts \in BOOLEAN, NEW b, NEW dims,
         NEW f, \A r \in records : f[r] = WorthOf(r, counts), NEW g, \A r \in records : g[r] = MassOf(r, counts)
  PROVE  Combine(Slice(records, from, now, b, dims, counts)) = Sums(f, g, ReadFrom(records, from, now))
<1> DEFINE T == Slice(records, from, now, b, dims, counts)
           U == ReadFrom(records, from, now)
<1>1. Under(U, T, b, dims)
  <2>1. ASSUME NEW r \in U PROVE \E row \in T : <<row.t, row.dims>> = KeyOf(r, b, dims)
    <3> DEFINE row == RowOf(KeyOf(r, b, dims), U, b, dims, counts)
    <3>1. row \in T
      BY SliceIs
    <3>2. row.t = KeyOf(r, b, dims)[1] /\ row.dims = KeyOf(r, b, dims)[2]
      BY DEF RowOf
    <3>3. KeyOf(r, b, dims) = <<KeyOf(r, b, dims)[1], KeyOf(r, b, dims)[2]>>
      BY DEF KeyOf
    <3> HIDE DEF row, T
    <3> QED BY <3>1, <3>2, <3>3
  <2> HIDE DEF T, U
  <2> QED BY <2>1 DEF Under
<1>2. T \in SUBSET T /\ U \in SUBSET U /\ \A r \in U : (\E row \in T : <<row.t, row.dims>> = KeyOf(r, b, dims)) => r \in U
  OBVIOUS
<1> QED BY <1>1, <1>2, SliceSum

\* what the records are worth, and what they weigh
Measures(f, g, records, counts) ==
  (\A r \in records : f[r] = WorthOf(r, counts)) /\ \A r \in records : g[r] = MassOf(r, counts)
\* the rows, and the records, of some buckets
RowsAt(T, rows, X) == T = {row \in rows : row.t \in X}
ReadAt(U, read, b, X) == U = {r \in read : BucketStart(r.t, b) \in X}

LEMMA RowsWithin ==
  ASSUME NEW records, NEW from, NEW now, Recorded(records, now), NEW counts \in BOOLEAN, NEW b \in Buckets, NEW dims,
         NEW X, NEW T, RowsAt(T, Slice(records, from, now, b, dims, counts), X),
         NEW U, ReadAt(U, ReadFrom(records, from, now), b, X),
         NEW f, NEW g, Measures(f, g, records, counts)
  PROVE  Combine(T) = Sums(f, g, U)
<1> DEFINE rows == Slice(records, from, now, b, dims, counts)
           read == ReadFrom(records, from, now)
<1> USE DEF RowsAt, ReadAt
<1>1. \A r : KeyOf(r, b, dims) = <<BucketStart(r.t, b), KeyOf(r, b, dims)[2]>>
  BY DEF KeyOf, Buckets
<1>2. ASSUME NEW r \in U PROVE \E row \in T : <<row.t, row.dims>> = KeyOf(r, b, dims)
  <2> DEFINE row == RowOf(KeyOf(r, b, dims), read, b, dims, counts)
  <2>1. row \in rows
    BY SliceIs
  <2>2. row.t = KeyOf(r, b, dims)[1] /\ row.dims = KeyOf(r, b, dims)[2]
    BY DEF RowOf
  <2>3. row.t = BucketStart(r.t, b)
    BY <1>1, <2>2
  <2>4. KeyOf(r, b, dims) = <<KeyOf(r, b, dims)[1], KeyOf(r, b, dims)[2]>>
    BY DEF KeyOf
  <2> HIDE DEF row, rows, read
  <2>5. row \in T
    BY <2>1, <2>3 DEF rows
  <2> QED BY <2>2, <2>4, <2>5
<1>3. ASSUME NEW r \in read, NEW row \in T, <<row.t, row.dims>> = KeyOf(r, b, dims) PROVE r \in U
  <2>1. row.t = BucketStart(r.t, b)
    BY <1>1, <1>3
  <2> QED BY <2>1
<1>4. Under(U, T, b, dims)
  BY <1>2 DEF Under
<1>5. \A r \in read : (\E row \in T : <<row.t, row.dims>> = KeyOf(r, b, dims)) => r \in U
  BY <1>3
<1>6. T \in SUBSET rows /\ U \in SUBSET read
  OBVIOUS
<1> HIDE DEF rows, read
<1> QED BY <1>4, <1>5, <1>6, SliceSum DEF rows, read, Measures

IsSlice(rows, records, from, now, b, dims, counts) == rows = Slice(records, from, now, b, dims, counts)

\* the rows of either period add up its records
PeriodsAdd(rows, read, from, start, f, g) ==
  /\ Combine({r \in rows : r.t >= start}) = Sums(f, g, {r \in read : r.t >= start})
  /\ Combine({r \in rows : r.t >= from /\ r.t < start}) = Sums(f, g, {r \in read : r.t < start})

LEMMA PeriodSums ==
  ASSUME NEW records, NEW from, NEW now, Recorded(records, now), NEW counts \in BOOLEAN, NEW b \in Buckets, NEW dims,
         Starts(from, b), NEW start, Starts(start, b),
         NEW rows, IsSlice(rows, records, from, now, b, dims, counts),
         NEW f, NEW g, Measures(f, g, records, counts)
  PROVE  PeriodsAdd(rows, ReadFrom(records, from, now), from, start, f, g)
<1> USE DEF IsSlice, PeriodsAdd
<1> DEFINE read == ReadFrom(records, from, now)
           X == {t \in Int : t >= start}
           Y == {t \in Int : t >= from /\ t < start}
           A == {r \in rows : r.t \in X}
           B == {r \in rows : r.t \in Y}
           C == {r \in read : BucketStart(r.t, b) \in X}
           D == {r \in read : BucketStart(r.t, b) \in Y}
<1>1. from \in Int /\ start \in Int
  BY StartsAre
<1>2. \A r \in read : r.t \in Int /\ r.t >= from
  BY DEF ReadFrom, Recorded
<1>3. \A t \in Int : /\ BucketStart(t, b) \in Int
                     /\ BucketStart(t, b) >= start <=> t >= start
                     /\ BucketStart(t, b) >= from <=> t >= from
  BY BucketOf, FromStart
<1>4. \A row \in rows : row.t \in Int
  <2>1. ASSUME NEW row \in rows PROVE row.t \in Int
    <3> HIDE DEF read
    <3>1. PICK r \in read : row.t = KeyOf(r, b, dims)[1]
      <4>1. \A x \in Slice(records, from, now, b, dims, counts) :
              \E r \in ReadFrom(records, from, now) : x.t = KeyOf(r, b, dims)[1] /\ x.dims = [d \in dims |-> r.dims[d]]
        BY SliceWeighed
      <4> QED BY <4>1 DEF read
    <3>2. row.t = BucketStart(r.t, b)
      BY <3>1 DEF KeyOf, Buckets
    <3> QED BY <1>2, <1>3, <3>2
  <2> QED BY <2>1
<1>5. C = {r \in read : r.t >= start}
  <2> HIDE DEF read
  <2>1. \A r \in read : BucketStart(r.t, b) \in X <=> r.t >= start
    BY <1>2, <1>3
  <2> QED BY <2>1
<1>6. D = {r \in read : r.t < start}
  <2> HIDE DEF read
  <2>1. ASSUME NEW r \in read PROVE BucketStart(r.t, b) \in Y <=> r.t < start
    <3>1. /\ BucketStart(r.t, b) \in Int
          /\ BucketStart(r.t, b) >= start <=> r.t >= start
          /\ BucketStart(r.t, b) >= from <=> r.t >= from
      BY <1>2, <1>3
    <3>2. r.t \in Int /\ r.t >= from
      BY <1>2
    <3> QED BY <1>1, <3>1, <3>2
  <2> QED BY <2>1
<1>7. A = {r \in rows : r.t >= start} /\ B = {r \in rows : r.t >= from /\ r.t < start}
  BY <1>4
<1> HIDE DEF X, Y
<1>10. /\ RowsAt(A, Slice(records, from, now, b, dims, counts), X)
       /\ RowsAt(B, Slice(records, from, now, b, dims, counts), Y)
  BY DEF RowsAt
<1>11. /\ ReadAt(C, ReadFrom(records, from, now), b, X)
       /\ ReadAt(D, ReadFrom(records, from, now), b, Y)
  BY DEF ReadAt
<1> HIDE DEF A, B, C, D, read
<1>8. Combine(A) = Sums(f, g, C)
  BY <1>10, <1>11, RowsWithin
<1>9. Combine(B) = Sums(f, g, D)
  BY <1>10, <1>11, RowsWithin
<1> QED BY <1>5, <1>6, <1>7, <1>8, <1>9 DEF read

\* Reading from later on leaves out what was recorded before.
LEMMA ReadLater ==
  ASSUME NEW records, NEW now, Recorded(records, now), NEW from \in Int, NEW start \in Int, from <= start
  PROVE  ReadFrom(records, start, now) = {r \in ReadFrom(records, from, now) : r.t >= start}
  BY DEF ReadFrom, Recorded

-----------------------------------------------------------------------------
(* The rows of a chart: those of its window, and those of the one before.  *)

RowsRead(records, now, days, counts) ==
  LET w == WindowFor(days, now) IN Slice(records, w.previousStart, now, w.bucket, 1..2, counts)
RowsNow(records, now, days, counts) ==
  {r \in RowsRead(records, now, days, counts) : r.t >= WindowFor(days, now).periodStart}
RowsBefore(records, now, days, counts) ==
  {r \in RowsRead(records, now, days, counts) :
     r.t >= WindowFor(days, now).previousStart /\ r.t < WindowFor(days, now).periodStart}
TreeRows(records, now, days, counts) ==
  Slice(records, WindowFor(days, now).periodStart, now, "none", Dims, counts)
HourRows(records, now, days, counts) ==
  Slice(records, WindowFor(days, now).periodStart, now, "hour", {}, counts)
Spans(days, now) == BucketRange(WindowFor(days, now).periodStart, now, WindowFor(days, now).bucket)

\* values and weights of the records exist
LEMMA MeasuresExist ==
  ASSUME NEW records, NEW counts
  PROVE  \E f, g : Measures(f, g, records, counts)
<1> DEFINE f == [r \in records |-> WorthOf(r, counts)]
           g == [r \in records |-> MassOf(r, counts)]
<1>1. Measures(f, g, records, counts)
  BY DEF Measures
<1> QED BY <1>1

\* the rows of the window, however they are grouped, are of the same records
SameRead(records, now, days, counts, f, g) ==
  LET read == ReadFrom(records, WindowFor(days, now).periodStart, now) IN
  /\ Combine(RowsNow(records, now, days, counts)) = Sums(f, g, read)
  /\ Combine(TreeRows(records, now, days, counts)) = Sums(f, g, read)
  /\ Combine(HourRows(records, now, days, counts)) = Sums(f, g, read)
  /\ Combine(RowsBefore(records, now, days, counts))
       = Sums(f, g, {r \in ReadFrom(records, WindowFor(days, now).previousStart, now) :
                       r.t < WindowFor(days, now).periodStart})

LEMMA SameRecords ==
  ASSUME NEW records, NEW now, Recorded(records, now), NEW days \in Nat, days >= 1, NEW counts \in BOOLEAN,
         NEW f, NEW g, Measures(f, g, records, counts)
  PROVE  SameRead(records, now, days, counts, f, g)
<1> DEFINE w == WindowFor(days, now)
           b == w.bucket
           from == w.previousStart
           start == w.periodStart
           two == 1..2
           rows == Slice(records, from, now, b, two, counts)
<1>1. now \in Int
  BY DEF Recorded
<1>2. /\ b \in Buckets /\ Starts(start, b) /\ Starts(from, b)
      /\ start \in Int /\ from \in Int /\ from <= start
  BY <1>1, WindowIs
<1> HIDE DEF w, b, from, start, two
<1>3. IsSlice(rows, records, from, now, b, two, counts)
  BY DEF IsSlice
<1> HIDE DEF rows
<1>4. /\ Combine({r \in rows : r.t >= start}) = Sums(f, g, {r \in ReadFrom(records, from, now) : r.t >= start})
      /\ Combine({r \in rows : r.t >= from /\ r.t < start}) = Sums(f, g, {r \in ReadFrom(records, from, now) : r.t < start})
  <2>1. PeriodsAdd(rows, ReadFrom(records, from, now), from, start, f, g)
    BY <1>2, <1>3, PeriodSums
  <2> QED BY <2>1 DEF PeriodsAdd
<1>5. {r \in ReadFrom(records, from, now) : r.t >= start} = ReadFrom(records, start, now)
  BY <1>2, ReadLater
<1>6. \A r \in records : f[r] = WorthOf(r, counts)
  BY DEF Measures
<1>7. \A r \in records : g[r] = MassOf(r, counts)
  BY DEF Measures
<1>8. Combine(Slice(records, start, now, "none", Dims, counts)) = Sums(f, g, ReadFrom(records, start, now))
  BY <1>6, <1>7, SliceAll
<1>9. Combine(Slice(records, start, now, "hour", {}, counts)) = Sums(f, g, ReadFrom(records, start, now))
  BY <1>6, <1>7, SliceAll
<1> QED BY <1>4, <1>5, <1>8, <1>9 DEF SameRead, RowsRead, RowsNow, RowsBefore, TreeRows, HourRows, w, b, from, start, two, rows

\* Each row of the window is in one of its buckets.
LEMMA RowsInTime ==
  ASSUME NEW records, NEW now, Recorded(records, now), NEW days \in Nat, days >= 1, NEW counts \in BOOLEAN
  PROVE  InTime(RowsNow(records, now, days, counts), Spans(days, now), WindowFor(days, now).bucket)
<1> DEFINE w == WindowFor(days, now)
           b == w.bucket
           n == w.buckets
           start == w.periodStart
           ts == BucketRange(start, now, b)
           rows == Slice(records, w.previousStart, now, b, 1..2, counts)
           read == ReadFrom(records, w.previousStart, now)
<1>1. now \in Int
  BY DEF Recorded
<1>2. /\ b \in Buckets /\ n \in Nat /\ n >= 1 /\ Starts(start, b) /\ start \in Int
      /\ start = BucketStart(now, b) - (n - 1) * Step[b]
  BY <1>1, WindowIs
<1>3. Step[b] \in Int /\ Step[b] >= 1
  BY <1>2, StartsAre
<1>4. \A row \in rows : \E r \in read : row.t = KeyOf(r, b, 1..2)[1]
  <2>1. \A row \in rows : \E r \in read : row.t = KeyOf(r, b, 1..2)[1] /\ row.dims = [d \in 1..2 |-> r.dims[d]]
    <3> DEFINE from == w.previousStart
               two == 1..2
    <3> HIDE DEF w, b, from, two
    <3>1. \A x \in Slice(records, from, now, b, two, counts) :
            \E r \in ReadFrom(records, from, now) : x.t = KeyOf(r, b, two)[1] /\ x.dims = [d \in two |-> r.dims[d]]
      BY SliceWeighed
    <3> QED BY <3>1 DEF from, two
  <2> HIDE DEF rows, read, b
  <2> QED BY <2>1
<1>5. \A r \in read : r.t \in Int /\ r.t <= now
  BY DEF ReadFrom, Recorded
<1>6. \A r : KeyOf(r, b, 1..2)[1] = BucketStart(r.t, b)
  BY <1>2 DEF KeyOf, Buckets
<1>7. RowsNow(records, now, days, counts) = {r \in rows : r.t >= start}
  BY DEF RowsNow, RowsRead
<1> HIDE DEF w, b, n, start, rows, read
<1>0. StartsAt(start, n, now, b)
  BY <1>2 DEF StartsAt
<1>8. /\ DOMAIN ts = 1..n
      /\ \A i \in 1..n : ts[i] = start + (i - 1) * Step[b]
  BY <1>0, <1>1, <1>2, RangeIs
<1>9. ASSUME NEW i \in 1..n, NEW j \in 1..n, ts[i] = ts[j] PROVE i = j
  <2>1. start + (i - 1) * Step[b] = start + (j - 1) * Step[b]
    BY <1>8, <1>9
  <2>2. i \in Int /\ j \in Int
    BY <1>2
  <2>3. (i - 1) * Step[b] = (j - 1) * Step[b]
    <3>1. \A x, y, z \in Int : x + y = x + z => y = z
      OBVIOUS
    <3>2. (i - 1) * Step[b] \in Int /\ (j - 1) * Step[b] \in Int
      BY <1>3, <2>2
    <3> QED BY <1>2, <2>1, <3>1, <3>2
  <2>4. \A x, y \in Int : \A z \in Int : z >= 1 /\ x * z = y * z => x = y
    <3>1. ASSUME NEW x \in Int, NEW y \in Int, NEW z \in Int, z >= 1, x * z = y * z PROVE x = y
      <4>1. (x - y) * z = 0
        BY <3>1
      <4> QED BY <3>1, <4>1
    <3> QED BY <3>1
  <2>5. i - 1 = j - 1
    BY <1>3, <2>2, <2>3, <2>4
  <2> QED BY <2>2, <2>5
<1>10. ASSUME NEW row \in rows, row.t >= start PROVE \E i \in 1..n : BucketStart(row.t, b) = ts[i]
  <2>1. PICK r \in read : row.t = BucketStart(r.t, b)
    BY <1>4, <1>6
  <2>2. r.t \in Int /\ r.t <= now
    BY <1>5
  <2>3. /\ Starts(row.t, b) /\ BucketStart(row.t, b) = row.t /\ row.t \in Int
    BY <1>2, <2>1, <2>2, BucketOf
  <2>4. row.t <= BucketStart(now, b)
    <3>1. /\ row.t <= r.t /\ Starts(BucketStart(now, b), b) /\ BucketStart(now, b) \in Int
      BY <1>1, <1>2, <2>1, <2>2, BucketOf
    <3>2. row.t <= now
      BY <1>1, <2>2, <2>3, <3>1
    <3>3. BucketStart(now, b) >= row.t <=> now >= row.t
      BY <1>1, <1>2, <2>3, FromStart
    <3> QED BY <1>1, <2>3, <3>1, <3>2, <3>3
  <2>5. \E i \in 1..n : ts[i] = row.t
    BY <1>1, <1>2, <1>10, <2>3, <2>4, InRange
  <2> QED BY <2>3, <2>5
<1>11. IsFiniteSet(1..n)
  BY <1>2, UpTo
<1>12. InTime({r \in rows : r.t >= start}, ts, b)
  <2> HIDE DEF ts
  <2> QED BY <1>8, <1>9, <1>10, <1>11 DEF InTime
<1> QED BY <1>7, <1>12 DEF Spans, w, b, start, ts

LEMMA SliceNamed ==
  ASSUME NEW records, NEW from, NEW now, Recorded(records, now), NEW counts \in BOOLEAN, NEW b,
         NEW dims, dims \in SUBSET Dims, NEW d \in dims
  PROVE  Subjective(Slice(records, from, now, b, dims, counts), d)
<1> DEFINE rows == Slice(records, from, now, b, dims, counts)
           read == ReadFrom(records, from, now)
<1>1. \A x \in rows : \E r \in read : x.t = KeyOf(r, b, dims)[1] /\ x.dims = [e \in dims |-> r.dims[e]]
  BY SliceWeighed, SMTT(60)
<1>2. \A r \in read : \A e \in 1..3 : r.dims[e] \in Nat \ {0}
  BY DEF ReadFrom, Recorded
<1> HIDE DEF rows, read
<1>3. ASSUME NEW x \in rows PROVE x.dims[d] \in Nat /\ x.dims[d] # Other
  <2>1. PICK r \in read : x.dims = [e \in dims |-> r.dims[e]]
    BY <1>1
  <2>2. x.dims[d] = r.dims[d]
    BY <2>1
  <2>3. r.dims[d] \in Nat \ {0}
    BY <1>2 DEF Dims
  <2> QED BY <2>2, <2>3 DEF Other
<1> QED BY <1>3 DEF Subjective, rows

RowsSound(records, now, days, counts) ==
  /\ Weighed(RowsNow(records, now, days, counts)) /\ Weighed(RowsBefore(records, now, days, counts))
  /\ Weighed(TreeRows(records, now, days, counts)) /\ Weighed(HourRows(records, now, days, counts))
  /\ Subjective(RowsNow(records, now, days, counts), 1) /\ Subjective(RowsNow(records, now, days, counts), 2)
  /\ Subjective(RowsBefore(records, now, days, counts), 1)
  /\ \A d \in Dims : Subjective(TreeRows(records, now, days, counts), d)
  /\ \A r \in HourRows(records, now, days, counts) : r.t \in Int

LEMMA RowsAreSound ==
  ASSUME NEW records, NEW now, Recorded(records, now), NEW days \in Nat, days >= 1, NEW counts \in BOOLEAN
  PROVE  RowsSound(records, now, days, counts)
<1> DEFINE w == WindowFor(days, now)
           b == w.bucket
           from == w.previousStart
           start == w.periodStart
           two == 1..2
           none == {}
           rows == Slice(records, from, now, b, two, counts)
           tree == Slice(records, start, now, "none", Dims, counts)
           hours == Slice(records, start, now, "hour", none, counts)
<1>1. 1 \in two /\ 2 \in two /\ two \in SUBSET Dims /\ Dims \in SUBSET Dims
  BY DEF Dims
<1>2. /\ RowsRead(records, now, days, counts) = rows
      /\ TreeRows(records, now, days, counts) = tree
      /\ HourRows(records, now, days, counts) = hours
  BY DEF RowsRead, TreeRows, HourRows
<1> HIDE DEF w, b, from, start, two, none
<1>3. Weighed(rows) /\ Weighed(tree) /\ Weighed(hours)
  BY SliceWeighed
<1>4. Subjective(rows, 1) /\ Subjective(rows, 2) /\ \A d \in Dims : Subjective(tree, d)
  BY <1>1, SliceNamed
<1>5. \A x \in hours : x.t \in Int
  <2> DEFINE read == ReadFrom(records, start, now)
  <2>1. \A x \in hours : \E r \in read : x.t = KeyOf(r, "hour", none)[1] /\ x.dims = [e \in none |-> r.dims[e]]
    BY SliceWeighed
  <2>2. \A r \in read : r.t \in Int
    BY DEF ReadFrom, Recorded
  <2>3. \A r : KeyOf(r, "hour", none)[1] = BucketStart(r.t, "hour")
    BY DEF KeyOf
  <2> HIDE DEF read, hours
  <2>4. ASSUME NEW x \in hours PROVE x.t \in Int
    <3>1. PICK r \in read : x.t = KeyOf(r, "hour", none)[1]
      BY <2>1
    <3>2. r.t \in Int /\ "hour" \in Buckets
      BY <2>2 DEF Buckets
    <3>3. BucketStart(r.t, "hour") \in Int
      BY <3>2, BucketOf
    <3> QED BY <2>3, <3>1, <3>3
  <2> QED BY <2>4
<1> HIDE DEF rows, tree, hours
<1>6. \A T \in SUBSET rows : Weighed(T)
  BY <1>3, WeighedPart
<1>7. /\ RowsNow(records, now, days, counts) \in SUBSET rows
      /\ RowsBefore(records, now, days, counts) \in SUBSET rows
  BY <1>2 DEF RowsNow, RowsBefore
<1>8. \A T \in SUBSET rows : Subjective(T, 1) /\ Subjective(T, 2)
  BY <1>4 DEF Subjective
<1> QED BY <1>2, <1>3, <1>4, <1>5, <1>6, <1>7, <1>8 DEF RowsSound

\* the rows of a window under every grouping, as its input needs them
LEMMA RowsAgree ==
  ASSUME NEW records, NEW now, Recorded(records, now), NEW days \in Nat, days >= 1, NEW counts \in BOOLEAN
  PROVE  /\ Combine(TreeRows(records, now, days, counts)) = Combine(RowsNow(records, now, days, counts))
         /\ Combine(HourRows(records, now, days, counts)) = Combine(RowsNow(records, now, days, counts))
<1>1. PICK f, g : Measures(f, g, records, counts)
  BY MeasuresExist
<1>2. SameRead(records, now, days, counts, f, g)
  BY <1>1, SameRecords
<1> QED BY <1>2 DEF SameRead

-----------------------------------------------------------------------------
(* WindowsCompare.                                                         *)

LEMMA LeastIs ==
  ASSUME NEW S, IsFiniteSet(S), S # {}, S \in SUBSET Int
  PROVE  Min(S) \in S
<1> DEFINE R == {p \in Int \X Int : p[1] > p[2]}
<1>1. \A x, y \in S : <<x, y>> \in R <=> x > y
  OBVIOUS
<1>2. \A x \in S : <<x, x>> \notin R
  BY <1>1
<1>3. \A x, y, z \in S : <<x, y>> \in R /\ <<y, z>> \in R => <<x, z>> \in R
  BY <1>1
<1> HIDE DEF R
<1>4. PICK m \in S : \A y \in S : <<m, y>> \notin R
  BY <1>2, <1>3, LastExists
<1>5. ASSUME NEW y \in S PROVE m <= y
  <2>1. ~(m > y)
    BY <1>1, <1>4
  <2> QED BY <2>1
<1> QED BY <1>5 DEF Min

\* the window, its buckets and the sums of the one before it
Compares(w, now, records, ts, counts, previous, compared) ==
  /\ Len(ts) = w.buckets /\ Last(ts) = BucketStart(now, w.bucket)
  /\ BucketStart(w.previousStart, w.bucket) = w.previousStart
  /\ w.periodStart - w.previousStart = Last(ts) + Step[w.bucket] - w.periodStart
  /\ compared => \E r \in records : r.t <= w.previousStart
  /\ compared =>
       LET past == {r \in records : r.t >= w.previousStart /\ r.t < w.periodStart} IN
       counts => previous.sum = SumFunction([r \in past |-> r.value])

LEMMA ComparesWindows ==
  ASSUME NEW records, NEW now, Recorded(records, now), NEW days \in Nat, days >= 1, NEW counts \in BOOLEAN,
         NEW compared, compared => PreviousCovered({r.t : r \in records}, WindowFor(days, now), now)
  PROVE  Compares(WindowFor(days, now), now, records, Spans(days, now), counts,
                  Combine(RowsBefore(records, now, days, counts)), compared)
<1> DEFINE w == WindowFor(days, now)
           b == w.bucket
           n == w.buckets
           start == w.periodStart
           from == w.previousStart
           ts == BucketRange(start, now, b)
           since == {r.t : r \in records}
           S == Step[b]
           B == BucketStart(now, b)
<1>1. now \in Int
  BY DEF Recorded
<1>2. /\ b \in Buckets /\ n \in Nat /\ n >= 1 /\ Starts(start, b) /\ Starts(from, b)
      /\ start \in Int /\ from \in Int /\ from <= start
      /\ start = B - (n - 1) * S /\ from = start - n * S
  BY <1>1, WindowIs
<1>3. Spans(days, now) = ts
  BY DEF Spans
<1>4. StartsAt(start, n, now, b)
  BY <1>2 DEF StartsAt
<1>5. compared => since # {} /\ Min(since) <= from /\ from >= now - MaxHistory
  BY DEF PreviousCovered
<1> HIDE DEF w, b, n, start, from
<1>6. Len(ts) = n /\ Last(ts) = B
  BY <1>1, <1>2, <1>4, RangeIs
<1>7. S \in Int /\ B \in Int /\ S >= 1
  BY <1>1, <1>2, BucketOf, StartsAre
<1>8. BucketStart(from, b) = from
  <2>1. from <= from /\ from < from + S
    BY <1>2, <1>7
  <2> HIDE DEF S
  <2>2. \A t \in Int : from <= t /\ t < from + Step[b] => BucketStart(t, b) = from
    BY <1>2, StartsAre
  <2> QED BY <1>2, <2>1, <2>2 DEF S
<1>9. start - from = B + S - start
  <2> HIDE DEF B, S
  <2>1. n * S \in Int /\ (n - 1) * S = n * S - S
    BY <1>2, <1>7
  <2> QED BY <1>2, <1>7, <2>1
<1>10. ASSUME compared PROVE \E r \in records : r.t <= from
  <2>1. IsFiniteSet(since)
    <3> DEFINE h == [r \in records |-> r.t]
    <3>1. (\A r \in records : h[r] \in since) /\ \A t \in since : \E r \in records : h[r] = t
      OBVIOUS
    <3>2. IsFiniteSet(records)
      BY DEF Recorded
    <3> HIDE DEF h, since
    <3> QED BY <3>1, <3>2, ImageFinite
  <2>2. since \in SUBSET Int
    BY DEF Recorded
  <2>3. Min(since) \in since
    <3> HIDE DEF since
    <3> QED BY <1>5, <1>10, <2>1, <2>2, LeastIs
  <2> QED BY <1>5, <1>10, <2>3
<1>11. ASSUME compared, counts
       PROVE  Combine(RowsBefore(records, now, days, counts)).sum
                = SumFunction([r \in {x \in records : x.t >= from /\ x.t < start} |-> r.value])
  <2> DEFINE past == {x \in records : x.t >= from /\ x.t < start}
             F == [r \in past |-> r.value]
             U == {r \in ReadFrom(records, from, now) : r.t < start}
  <2>1. PICK f, g : Measures(f, g, records, counts)
    BY MeasuresExist
  <2>2. SameRead(records, now, days, counts, f, g)
    BY <2>1, SameRecords
  <2>3. Combine(RowsBefore(records, now, days, counts)).sum = SumFunctionOnSet(f, U)
    BY <2>2 DEF SameRead, Sums, w, from, start
  <2>4. U = past
    <3>1. from >= now - MaxHistory
      BY <1>5, <1>11
    <3>2. \A r \in records : r.t \in Int
      BY DEF Recorded
    <3>3. now - MaxHistory \in Int
      BY <1>1 DEF MaxHistory
    <3>4. \A r \in records : r.t >= from => r.t >= now - MaxHistory
      BY <1>2, <3>1, <3>2, <3>3
    <3> QED BY <3>4 DEF ReadFrom
  <2>5. IsFiniteSet(past)
    BY FS_Subset DEF Recorded
  <2>6. \A r \in past : F[r] \in Int /\ F[r] = f[r]
    BY <1>11, <2>1 DEF Measures, WorthOf, Recorded
  <2>7. SumFunction(F) = SumFunctionOnSet(F, DOMAIN F) /\ DOMAIN F = past
    BY SumFunctionIs
  <2> HIDE DEF past, F, U
  <2>8. SumFunctionOnSet(F, past) = SumFunctionOnSet(f, past)
    BY <2>5, <2>6, SumSame
  <2> QED BY <2>3, <2>4, <2>7, <2>8 DEF past, F
<1> HIDE DEF ts, S, B
<1>12. Compares(w, now, records, ts, counts, Combine(RowsBefore(records, now, days, counts)), compared)
  <2> DEFINE previous == Combine(RowsBefore(records, now, days, counts))
             past == {x \in records : x.t >= from /\ x.t < start}
  <2>1. compared => (counts => previous.sum = SumFunction([r \in past |-> r.value]))
    BY <1>11
  <2>2. Len(ts) = n /\ Last(ts) = BucketStart(now, b) /\ start - from = Last(ts) + Step[b] - start
    BY <1>6, <1>9 DEF S, B
  <2> HIDE DEF previous
  <2> QED BY Zenon, <1>8, <1>10, <2>1, <2>2 DEF Compares, n, b, start, from, previous
<1> QED BY <1>3, <1>12 DEF w

-----------------------------------------------------------------------------
(* A chart's input, field by field.                                        *)

\* what LoadGallery makes of the records
Drawn(records, now, days, counts) ==
  LET win == WindowFor(days, now)
      From(start, b, dims) == Slice(records, start, now, b, dims, counts)
  IN [win |-> win, now |-> now,
      input |-> BuildChartInput(From(win.previousStart, win.bucket, 1..2), From(win.periodStart, "none", Dims),
                                From(win.periodStart, "hour", {}), counts, win, now, {r.t : r \in records})]

\* the limits and the numbers of days, as the code has them
Known ==
  /\ Days \subseteq Nat \ {0}
  /\ TopSeries \in Nat /\ TopBars \in Nat /\ TopSlices \in Nat /\ TopPareto \in Nat /\ TopCards \in Nat
  /\ \A i \in 1..2 : /\ MatrixLimits[i] \in Nat /\ MatrixLimits[i] >= 1
                     /\ HeatLimits[i] \in Nat /\ HeatLimits[i] >= 1
  /\ \A d \in Dims : TreeLimits[d] \in Nat /\ TreeLimits[d] >= 1

\* an input made of rows, those before them, and the same rows in finer groups
MadeOf(in, cur, bef, tree, ts, b, counts) ==
  /\ in.counts = counts /\ in.ts = ts
  /\ in.empty = Nothing(cur)
  /\ in.categories = ByValue(Ranked(cur, 1), counts)
  /\ in.series = SeriesOf(Ranked(cur, 1), ts, b)
  /\ in.total = PerBucket(cur, ts, b)
  /\ in.matrix = MatrixOf(cur, MatrixLimits) /\ in.heat = MatrixOf(cur, HeatLimits)
  /\ in.hierarchy = Hierarchy(tree)
  /\ in.value = Combine(cur) /\ in.previous = Combine(bef)
  /\ in.previousByCategory = GroupsBy(bef, LAMBDA r : r.dims[1])
  /\ in.min = Lowest(PerBucket(cur, ts, b), counts) /\ in.max = Highest(PerBucket(cur, ts, b), counts)
  /\ in.compared \in BOOLEAN

\* what is known of those rows
Grounded(in, cur, bef, tree, ts, b, counts) ==
  /\ counts \in BOOLEAN
  /\ Weighed(cur) /\ Weighed(bef) /\ Weighed(tree) /\ Weighed(in.hourly)
  /\ Subjective(cur, 1) /\ Subjective(cur, 2) /\ Subjective(bef, 1) /\ \A d \in Dims : Subjective(tree, d)
  /\ \A r \in in.hourly : r.t \in Int
  /\ Combine(tree) = Combine(cur) /\ Combine(in.hourly) = Combine(cur)
  /\ InTime(cur, ts, b)
  /\ Len(ts) \in Nat /\ Len(ts) >= 1 /\ DOMAIN ts = 1..Len(ts)

Shown(in, cur, bef, tree, ts, b, counts) ==
  MadeOf(in, cur, bef, tree, ts, b, counts) /\ Grounded(in, cur, bef, tree, ts, b, counts)

DrawnAs(d, records, now, days, counts) ==
  LET in == d.input IN
  /\ d.win = WindowFor(days, now) /\ d.now = now
  /\ MadeOf(in, RowsNow(records, now, days, counts), RowsBefore(records, now, days, counts),
            TreeRows(records, now, days, counts), Spans(days, now), WindowFor(days, now).bucket, counts)
  /\ in.hourly = HourRows(records, now, days, counts)
  /\ in.compared => PreviousCovered({r.t : r \in records}, WindowFor(days, now), now)
  /\ in # <<>>

LEMMA DrawnFields ==
  ASSUME NEW records, NEW now, NEW days, NEW counts
  PROVE  DrawnAs(Drawn(records, now, days, counts), records, now, days, counts)
<1> DEFINE w == WindowFor(days, now)
           rows == RowsRead(records, now, days, counts)
           tree == TreeRows(records, now, days, counts)
           hours == HourRows(records, now, days, counts)
           cur == RowsNow(records, now, days, counts)
           bef == RowsBefore(records, now, days, counts)
           ts == Spans(days, now)
           since == {r.t : r \in records}
           in == BuildChartInput(rows, tree, hours, counts, w, now, since)
<1>1. Drawn(records, now, days, counts) = [win |-> w, now |-> now, input |-> in]
  BY DEF Drawn, RowsRead, TreeRows, HourRows
<1>2. /\ cur = {r \in rows : r.t >= w.periodStart}
      /\ bef = {r \in rows : r.t >= w.previousStart /\ r.t < w.periodStart}
      /\ ts = BucketRange(w.periodStart, now, w.bucket)
  BY DEF RowsNow, RowsBefore, Spans
<1> HIDE DEF w, rows, tree, hours, cur, bef, ts, since
<1> DEFINE byCat == Ranked(cur, 1)
           total == PerBucket(cur, ts, w.bucket)
<1>3. in = [counts |-> counts, ts |-> ts,
            empty |-> Nothing(cur),
            categories |-> ByValue(byCat, counts),
            series |-> SeriesOf(byCat, ts, w.bucket),
            total |-> total,
            matrix |-> MatrixOf(cur, MatrixLimits),
            heat |-> MatrixOf(cur, HeatLimits),
            hierarchy |-> Hierarchy(tree),
            hourly |-> hours,
            value |-> Combine(cur),
            previous |-> Combine(bef),
            previousByCategory |-> GroupsBy(bef, LAMBDA r : r.dims[1]),
            min |-> Lowest(total, counts),
            max |-> Highest(total, counts),
            compared |-> PreviousCovered(since, w, now) /\ (counts \/ bef # {})]
  BY <1>2 DEF BuildChartInput, Lowest, Highest, Nothing
<1> DEFINE series == SeriesOf(byCat, ts, w.bucket)
           cats == ByValue(byCat, counts)
           matrix == MatrixOf(cur, MatrixLimits)
           heat == MatrixOf(cur, HeatLimits)
           nodes == Hierarchy(tree)
           value == Combine(cur)
           previous == Combine(bef)
           groups == GroupsBy(bef, LAMBDA r : r.dims[1])
           low == Lowest(total, counts)
           high == Highest(total, counts)
           empty == Nothing(cur)
           compared == PreviousCovered(since, w, now) /\ (counts \/ bef # {})
<1>4. compared \in BOOLEAN /\ (compared => PreviousCovered(since, w, now))
  BY DEF PreviousCovered
<1> HIDE DEF in, series, cats, matrix, heat, nodes, value, previous, groups, low, high, empty, total, byCat, compared
<1>5. /\ in.counts = counts /\ in.ts = ts /\ in.empty = empty /\ in.categories = cats /\ in.series = series
      /\ in.total = total /\ in.matrix = matrix /\ in.heat = heat /\ in.hierarchy = nodes /\ in.hourly = hours
      /\ in.value = value /\ in.previous = previous /\ in.previousByCategory = groups
      /\ in.min = low /\ in.max = high /\ in.compared = compared
  BY <1>3 DEF series, cats, matrix, heat, nodes, value, previous, groups, low, high, empty, compared
<1>6. in # <<>>
  <2>1. "ts" \in DOMAIN in
    BY <1>3
  <2>2. DOMAIN <<>> = {}
    OBVIOUS
  <2> QED BY <2>1, <2>2
<1>7. MadeOf(in, cur, bef, tree, ts, w.bucket, counts)
  BY <1>4, <1>5 DEF MadeOf, series, cats, matrix, heat, nodes, value, previous, groups, low, high, empty, total, byCat
<1>8. in.compared => PreviousCovered(since, w, now)
  BY <1>4, <1>5
<1>9. /\ Drawn(records, now, days, counts).win = w /\ Drawn(records, now, days, counts).now = now
      /\ Drawn(records, now, days, counts).input = in
  BY <1>1
<1> QED BY <1>5, <1>6, <1>7, <1>8, <1>9 DEF DrawnAs, w, cur, bef, tree, ts, hours, since

LEMMA InputShown ==
  ASSUME NEW records, NEW now, Recorded(records, now), NEW days \in Nat, days >= 1, NEW counts \in BOOLEAN
  PROVE  Shown(Drawn(records, now, days, counts).input,
               RowsNow(records, now, days, counts), RowsBefore(records, now, days, counts),
               TreeRows(records, now, days, counts), Spans(days, now), WindowFor(days, now).bucket, counts)
<1> DEFINE w == WindowFor(days, now)
           b == w.bucket
           n == w.buckets
           start == w.periodStart
           cur == RowsNow(records, now, days, counts)
           bef == RowsBefore(records, now, days, counts)
           tree == TreeRows(records, now, days, counts)
           hours == HourRows(records, now, days, counts)
           ts == Spans(days, now)
           in == Drawn(records, now, days, counts).input
<1>1. MadeOf(in, cur, bef, tree, ts, b, counts) /\ in.hourly = hours
  <2>1. DrawnAs(Drawn(records, now, days, counts), records, now, days, counts)
    BY DrawnFields
  <2> QED BY <2>1 DEF DrawnAs
<1>2. RowsSound(records, now, days, counts)
  BY RowsAreSound
<1>3. Combine(tree) = Combine(cur) /\ Combine(hours) = Combine(cur)
  BY RowsAgree
<1>4. InTime(cur, ts, b)
  BY RowsInTime
<1>5. Len(ts) \in Nat /\ Len(ts) >= 1 /\ DOMAIN ts = 1..Len(ts)
  <2>1. now \in Int
    BY DEF Recorded
  <2>2. b \in Buckets /\ n \in Nat /\ n >= 1 /\ StartsAt(start, n, now, b)
    BY <2>1, WindowIs DEF StartsAt
  <2>3. ts = BucketRange(start, now, b)
    BY DEF Spans
  <2> HIDE DEF w, b, n, start, ts
  <2>4. DOMAIN BucketRange(start, now, b) = 1..n /\ Len(BucketRange(start, now, b)) = n
    BY <2>1, <2>2, RangeIs
  <2> QED BY <2>2, <2>3, <2>4
<1> HIDE DEF in, ts
<1>6. Grounded(in, cur, bef, tree, ts, b, counts)
  BY <1>1, <1>2, <1>3, <1>4, <1>5 DEF Grounded, RowsSound
<1> QED BY <1>1, <1>6 DEF Shown, in, ts

-----------------------------------------------------------------------------
(* PartsAddUp.                                                             *)

LEMMA CategoriesList ==
  ASSUME NEW in, NEW cur, NEW bef, NEW tree, NEW ts, NEW b, NEW counts, Shown(in, cur, bef, tree, ts, b, counts)
  PROVE  /\ Lists(Ranked(cur, 1), cur, 1) /\ Lists(in.categories, cur, 1)
         /\ Sum(in.categories) = in.value
         /\ Sum(in.total) = in.value
<1>1. Weighed(cur) /\ Subjective(cur, 1) /\ counts \in BOOLEAN /\ InTime(cur, ts, b)
  BY DEF Shown, Grounded
<1>2. /\ in.categories = ByValue(Ranked(cur, 1), counts)
      /\ in.total = PerBucket(cur, ts, b)
      /\ in.value = Combine(cur)
  BY DEF Shown, MadeOf
<1>3. Lists(Ranked(cur, 1), cur, 1)
  BY <1>1, RankedLists
<1>4. Lists(ByValue(Ranked(cur, 1), counts), cur, 1)
  BY <1>1, <1>3, ByValueLists
<1>5. Sum(ByValue(Ranked(cur, 1), counts)) = Combine(cur)
  BY <1>1, <1>4, SumLists
<1>6. Sum(PerBucket(cur, ts, b)) = Combine(cur)
  BY <1>1, SumBuckets
<1> QED BY <1>2, <1>3, <1>4, <1>5, <1>6

LEMMA SeriesAgree ==
  ASSUME NEW in, NEW cur, NEW bef, NEW tree, NEW ts, NEW b, NEW counts, Shown(in, cur, bef, tree, ts, b, counts),
         Known
  PROVE  SeriesAdd(in.series, cur, ts, b)
<1>1. Weighed(cur) /\ InTime(cur, ts, b)
  BY DEF Shown, Grounded
<1>2. in.series = SeriesOf(Ranked(cur, 1), ts, b)
  BY DEF Shown, MadeOf
<1>3. Lists(Ranked(cur, 1), cur, 1)
  BY CategoriesList
<1>4. SeriesAdd(SeriesOf(Ranked(cur, 1), ts, b), cur, ts, b)
  BY <1>1, <1>3, SumSeries DEF Known
<1> QED BY <1>2, <1>4

LEMMA MatricesAdd ==
  ASSUME NEW in, NEW cur, NEW bef, NEW tree, NEW ts, NEW b, NEW counts, Shown(in, cur, bef, tree, ts, b, counts),
         Known
  PROVE  SumCells(in.matrix) = in.value /\ SumCells(in.heat) = in.value
<1>1. Weighed(cur) /\ Subjective(cur, 1) /\ Subjective(cur, 2)
  BY DEF Shown, Grounded
<1>2. in.matrix = MatrixOf(cur, MatrixLimits) /\ in.heat = MatrixOf(cur, HeatLimits) /\ in.value = Combine(cur)
  BY DEF Shown, MadeOf
<1>3. /\ MatrixLimits[1] \in Nat /\ MatrixLimits[1] >= 1 /\ MatrixLimits[2] \in Nat /\ MatrixLimits[2] >= 1
      /\ HeatLimits[1] \in Nat /\ HeatLimits[1] >= 1 /\ HeatLimits[2] \in Nat /\ HeatLimits[2] >= 1
  BY DEF Known
<1>4. SumCells(MatrixOf(cur, MatrixLimits)) = Combine(cur)
  BY <1>1, <1>3, SumMatrix
<1>5. SumCells(MatrixOf(cur, HeatLimits)) = Combine(cur)
  BY <1>1, <1>3, SumMatrix
<1> QED BY <1>2, <1>4, <1>5

LEMMA HierarchyAdds ==
  ASSUME NEW in, NEW cur, NEW bef, NEW tree, NEW ts, NEW b, NEW counts, Shown(in, cur, bef, tree, ts, b, counts),
         Known
  PROVE  Tree(in.hierarchy, in.value.weight)
<1>1. Weighed(tree) /\ Combine(tree) = Combine(cur) /\ \A d \in Dims : Subjective(tree, d)
  BY DEF Shown, Grounded
<1>2. in.hierarchy = Hierarchy(tree) /\ in.value = Combine(cur)
  BY DEF Shown, MadeOf
<1>3. \A d \in Dims : Subjective(tree, d) /\ TreeLimits[d] \in Nat /\ TreeLimits[d] >= 1
  BY <1>1 DEF Known
<1>4. Tree(Hierarchy(tree), Combine(tree).weight)
  BY <1>1, <1>3, HierarchyTree
<1> QED BY <1>1, <1>2, <1>4

\* what a tree's levels share
LEMMA TreeAdds ==
  ASSUME NEW nodes, NEW w, Tree(nodes, w)
  PROVE  /\ SumNodes(nodes) = w
         /\ \A i \in DOMAIN nodes :
              nodes[i].name # Other =>
                /\ SumNodes(nodes[i].children) = nodes[i].value
                /\ \A j \in DOMAIN nodes[i].children :
                     nodes[i].children[j].name # Other =>
                       SumNodes(nodes[i].children[j].children) = nodes[i].children[j].value
<1>1. IsNodes(nodes, w)
  BY DEF Tree
<1>2. DOMAIN nodes = 1..Len(nodes)
  BY <1>1 DEF IsNodes
<1>3. ASSUME NEW i \in DOMAIN nodes, nodes[i].name # Other PROVE IsNodes(nodes[i].children, nodes[i].value)
  BY <1>2, <1>3 DEF Tree
<1>4. ASSUME NEW i \in DOMAIN nodes, nodes[i].name # Other,
             NEW j \in DOMAIN nodes[i].children, nodes[i].children[j].name # Other
      PROVE  IsNodes(nodes[i].children[j].children, nodes[i].children[j].value)
  <2>1. IsNodes(nodes[i].children, nodes[i].value)
    BY <1>3, <1>4
  <2>2. DOMAIN nodes[i].children = 1..Len(nodes[i].children)
    BY <2>1 DEF IsNodes
  <2> QED BY <1>2, <1>4, <2>2 DEF Tree
<1>5. \A s, v : IsNodes(s, v) => SumNodes(s) = v
  BY DEF IsNodes
<1>6. ASSUME NEW i \in DOMAIN nodes, nodes[i].name # Other
      PROVE  /\ SumNodes(nodes[i].children) = nodes[i].value
             /\ \A j \in DOMAIN nodes[i].children :
                  nodes[i].children[j].name # Other =>
                    SumNodes(nodes[i].children[j].children) = nodes[i].children[j].value
  BY <1>3, <1>4, <1>5, <1>6
<1> QED BY <1>1, <1>5, <1>6

PartsOf(in) ==
  /\ Sum(in.categories) = in.value
  /\ Sum(in.total) = in.value
  /\ \A i \in DOMAIN in.ts : Sum([s \in DOMAIN in.series |-> in.series[s].values[i]]) = in.total[i]
  /\ SumCells(in.matrix) = in.value /\ SumCells(in.heat) = in.value
  /\ SumNodes(in.hierarchy) = in.value.weight
  /\ \A i \in DOMAIN in.hierarchy :
       LET node == in.hierarchy[i] IN
       node.name # Other =>
         /\ SumNodes(node.children) = node.value
         /\ \A j \in DOMAIN node.children :
              node.children[j].name # Other => SumNodes(node.children[j].children) = node.children[j].value
  /\ Combine(in.hourly) = in.value

LEMMA PartsAdd ==
  ASSUME NEW in, NEW cur, NEW bef, NEW tree, NEW ts, NEW b, NEW counts, Shown(in, cur, bef, tree, ts, b, counts),
         Known
  PROVE  PartsOf(in)
<1>1. Sum(in.categories) = in.value /\ Sum(in.total) = in.value
  BY CategoriesList
<1>2. \A i \in DOMAIN in.ts : Sum([s \in DOMAIN in.series |-> in.series[s].values[i]]) = in.total[i]
  <2>1. SeriesAdd(in.series, cur, ts, b)
    BY SeriesAgree
  <2>2. in.ts = ts /\ in.total = PerBucket(cur, ts, b)
    BY DEF Shown, MadeOf
  <2> QED BY <2>1, <2>2 DEF SeriesAdd
<1>3. SumCells(in.matrix) = in.value /\ SumCells(in.heat) = in.value
  BY MatricesAdd
<1>4. Combine(in.hourly) = in.value
  BY DEF Shown, MadeOf, Grounded
<1> DEFINE nodes == in.hierarchy
<1>5. Tree(nodes, in.value.weight)
  BY HierarchyAdds
<1> HIDE DEF nodes
<1>6. /\ SumNodes(nodes) = in.value.weight
      /\ \A i \in DOMAIN nodes :
           nodes[i].name # Other =>
             /\ SumNodes(nodes[i].children) = nodes[i].value
             /\ \A j \in DOMAIN nodes[i].children :
                  nodes[i].children[j].name # Other =>
                    SumNodes(nodes[i].children[j].children) = nodes[i].children[j].value
  BY <1>5, TreeAdds
<1> QED BY <1>1, <1>2, <1>3, <1>4, <1>6 DEF PartsOf, nodes

-----------------------------------------------------------------------------
(* ChartsAgree.                                                            *)

LEMMA ListsAreParts ==
  ASSUME NEW rows, Weighed(rows), NEW d, NEW s, Lists(s, rows, d)
  PROVE  Parts(s)
<1>1. ASSUME NEW i \in 1..Len(s) PROVE s[i].sum \in Nat /\ s[i].weight \in Nat
  <2>1. IsGroup(s[i], rows, d)
    BY DEF Lists
  <2> QED BY <2>1, GroupIs
<1> QED BY <1>1 DEF Lists, Parts

TopsOf(in) ==
  \A parts \in {Bar(in), BarHorizontal(in), DotPlot(in), Pie(in), Donut(in).ring, SemiDonut(in).ring, Column(in)} :
    Sum(parts) = in.value

LEMMA TopsAgree ==
  ASSUME NEW in, NEW cur, NEW bef, NEW tree, NEW ts, NEW b, NEW counts, Shown(in, cur, bef, tree, ts, b, counts),
         Known
  PROVE  /\ Parts(in.categories)
         /\ TopsOf(in)
         /\ Donut(in).hole = in.value.weight /\ SemiDonut(in).hidden = in.value.weight
<1> DEFINE cats == in.categories
<1>1. Lists(cats, cur, 1) /\ Sum(cats) = in.value /\ Sum(in.total) = in.value
  BY CategoriesList
<1>2. Parts(cats)
  BY <1>1, ListsAreParts DEF Shown, Grounded
<1> HIDE DEF cats
<1>3. Sum(TopCategories(cats, TopBars)) = in.value
  BY <1>1, <1>2, TopAdds DEF Known
<1>4. Parts(ByWeight(cats)) /\ Sum(ByWeight(cats)) = in.value
  BY <1>1, <1>2, ByWeightIs
<1>5. Sum(TopCategories(ByWeight(cats), TopSlices)) = in.value
  BY <1>4, TopAdds DEF Known
<1>6. Sum(Slices(in)) = in.value
  BY <1>5 DEF Slices, cats
<1>7. /\ Bar(in) = TopCategories(cats, TopBars) /\ BarHorizontal(in) = TopCategories(cats, TopBars)
      /\ DotPlot(in) = TopCategories(cats, TopBars)
      /\ Pie(in) = Slices(in) /\ Donut(in).ring = Slices(in) /\ SemiDonut(in).ring = Slices(in)
      /\ Donut(in).hole = Sum(Slices(in)).weight /\ SemiDonut(in).hidden = Sum(Slices(in)).weight
      /\ Column(in) = in.total
  BY DEF Bar, BarHorizontal, DotPlot, Pie, Donut, SemiDonut, Column, cats
<1>8. TopsOf(in)
  BY <1>1, <1>3, <1>6, <1>7 DEF TopsOf
<1> QED BY <1>2, <1>6, <1>7, <1>8 DEF cats

LEMMA MatrixIs ==
  ASSUME NEW cur, Weighed(cur), Subjective(cur, 1), Subjective(cur, 2), NEW m, NEW limits,
         limits[1] \in Nat, limits[1] >= 1, limits[2] \in Nat, limits[2] >= 1, m = MatrixOf(cur, limits)
  PROVE  \E n, k \in Nat : \E ri, cj : IsMatrix(m, cur, n, k, ri, cj) /\ (n # 0 => k # 0)
<1>1. PICK n, k \in Nat : \E ri, cj : IsMatrix(m, cur, n, k, ri, cj)
  BY MatrixParts
<1>2. PICK ri, cj : IsMatrix(m, cur, n, k, ri, cj)
  BY <1>1
<1>3. Lists(Ranked(cur, 1), cur, 1) /\ Lists(Ranked(cur, 2), cur, 2)
  BY RankedLists
<1>4. (n = 0 <=> Nothing(cur)) /\ (k = 0 <=> Nothing(cur))
  <2>1. Len(Ranked(cur, 1)) = 0 <=> Nothing(cur)
    BY <1>3, NothingListed
  <2>2. Len(Ranked(cur, 2)) = 0 <=> Nothing(cur)
    BY <1>3, NothingListed
  <2> QED BY <1>2, <2>1, <2>2 DEF IsMatrix
<1> QED BY <1>2, <1>4

CellsAgreeOf(in) ==
  /\ SumCells([cells |-> [i \in DOMAIN in.heat.rows |-> [j \in {c[1] : c \in Heatmap(in)[i]} |-> in.heat.cells[i][j]]]])
       = in.value
  /\ LET spans == Marimekko(in) IN
       /\ Adjacent([j \in DOMAIN spans |-> spans[j].x], 0, in.value.weight)
       /\ \A j \in DOMAIN spans : Adjacent(spans[j].y, 0, spans[j].x[2] - spans[j].x[1])
  /\ \A i \in DOMAIN in.matrix.rows :
       LET shares == Stacked100(in)[i] IN
       SumFunction([j \in DOMAIN shares |-> shares[j][1]]) = shares[1][2]

LEMMA CellsAgree ==
  ASSUME NEW in, NEW cur, NEW bef, NEW tree, NEW ts, NEW b, NEW counts, Shown(in, cur, bef, tree, ts, b, counts),
         Known
  PROVE  CellsAgreeOf(in)
<1>1. Weighed(cur) /\ Subjective(cur, 1) /\ Subjective(cur, 2)
  BY DEF Shown, Grounded
<1>2. in.matrix = MatrixOf(cur, MatrixLimits) /\ in.heat = MatrixOf(cur, HeatLimits) /\ in.value = Combine(cur)
      /\ in.counts \in BOOLEAN
  BY DEF Shown, MadeOf, Grounded
<1>3. /\ MatrixLimits[1] \in Nat /\ MatrixLimits[1] >= 1 /\ MatrixLimits[2] \in Nat /\ MatrixLimits[2] >= 1
      /\ HeatLimits[1] \in Nat /\ HeatLimits[1] >= 1 /\ HeatLimits[2] \in Nat /\ HeatLimits[2] >= 1
  BY DEF Known
<1>4. PICK n, k \in Nat : \E ri, cj : IsMatrix(in.matrix, cur, n, k, ri, cj) /\ (n # 0 => k # 0)
  BY <1>1, <1>2, <1>3, MatrixIs
<1>5. PICK ri, cj : IsMatrix(in.matrix, cur, n, k, ri, cj) /\ (n # 0 => k # 0)
  BY <1>4
<1>6. PICK hn, hk \in Nat : \E hi, hj : IsMatrix(in.heat, cur, hn, hk, hi, hj) /\ (hn # 0 => hk # 0)
  BY <1>1, <1>2, <1>3, MatrixIs
<1>7. PICK hi, hj : IsMatrix(in.heat, cur, hn, hk, hi, hj)
  BY <1>6
<1>8. SumCells([cells |-> [i \in DOMAIN in.heat.rows |-> [j \in {c[1] : c \in Heatmap(in)[i]} |-> in.heat.cells[i][j]]]])
        = SumCells(in.heat)
  <2>1. HeatAdds(in)
    BY <1>1, <1>2, <1>7, HeatShown
  <2> QED BY <2>1 DEF HeatAdds
<1>9. SumCells(in.heat) = in.value
  BY MatricesAdd
<1>10. LET spans == Marimekko(in) IN
         /\ Adjacent([j \in DOMAIN spans |-> spans[j].x], 0, Combine(cur).weight)
         /\ \A j \in DOMAIN spans : Adjacent(spans[j].y, 0, spans[j].x[2] - spans[j].x[1])
  BY <1>1, <1>5, MarimekkoSpans
<1>11. ASSUME NEW i \in DOMAIN in.matrix.rows
       PROVE  LET shares == Stacked100(in)[i] IN
              SumFunction([j \in DOMAIN shares |-> shares[j][1]]) = shares[1][2]
  BY <1>1, <1>5, StackedShares
<1> QED BY <1>2, <1>8, <1>9, <1>10, <1>11 DEF CellsAgreeOf

FiguresOf(in) ==
  /\ Sum([s \in DOMAIN MultiLine(in) |-> Sum(MultiLine(in)[s])]) = in.value
  /\ SumFunction(Leaves(in.hierarchy)) = in.value.weight
  /\ in.counts => LET w == Waterfall([i \in DOMAIN in.total |-> in.total[i].sum]) IN
       w.last = w.first + SumFunction(w.up) - SumFunction(w.down)
  /\ Sum([d \in 0..6 |-> Sum(WeekdayHourGrid(in)[d])]) = in.value
  /\ \A i \in DOMAIN Pareto(in) : Pareto(in)[i][1] <= Pareto(in)[i][2]
  /\ \A p \in {"lowerBetter", "higherBetter", "neutral"} :
       /\ Progress(in, p) = (Tone(Delta(in), p) = "bad")
       /\ Gauge(in, p) = Progress(in, p) /\ TargetActual(in, p) = Progress(in, p)

LEMMA FiguresAgree ==
  ASSUME NEW in, NEW cur, NEW bef, NEW tree, NEW ts, NEW b, NEW counts, Shown(in, cur, bef, tree, ts, b, counts),
         Known
  PROVE  FiguresOf(in)
<1>1. /\ Weighed(cur) /\ Weighed(bef) /\ Weighed(in.hourly) /\ (\A r \in in.hourly : r.t \in Int)
      /\ Combine(in.hourly) = Combine(cur) /\ InTime(cur, ts, b) /\ counts \in BOOLEAN
      /\ Len(ts) \in Nat /\ Len(ts) >= 1 /\ DOMAIN ts = 1..Len(ts)
  BY DEF Shown, Grounded
<1>2. /\ in.value = Combine(cur) /\ in.previous = Combine(bef) /\ in.counts = counts /\ in.compared \in BOOLEAN
      /\ in.total = PerBucket(cur, ts, b)
  BY DEF Shown, MadeOf
<1>3. Sum([s \in DOMAIN MultiLine(in) |-> Sum(MultiLine(in)[s])]) = in.value
  <2> DEFINE series == in.series
  <2>1. SeriesAdd(series, cur, ts, b)
    BY SeriesAgree
  <2>2. MultiLine(in) = [i \in DOMAIN series |-> series[i].values]
    BY DEF MultiLine
  <2> HIDE DEF series
  <2>3. Sum([k \in DOMAIN series |-> Sum(series[k].values)]) = Combine(cur)
    BY <2>1 DEF SeriesAdd
  <2>4. [s \in DOMAIN MultiLine(in) |-> Sum(MultiLine(in)[s])] = [k \in DOMAIN series |-> Sum(series[k].values)]
    BY <2>2
  <2> QED BY <1>2, <2>3, <2>4
<1>4. SumFunction(Leaves(in.hierarchy)) = in.value.weight
  BY HierarchyAdds, LeavesAdd
<1>5. LET w == Waterfall([i \in DOMAIN in.total |-> in.total[i].sum]) IN
      w.last = w.first + SumFunction(w.up) - SumFunction(w.down)
  <2> DEFINE n == Len(ts)
             total == in.total
             levels == [i \in DOMAIN total |-> total[i].sum]
  <2>1. DOMAIN total = 1..n /\ \A i \in 1..n : total[i] = Combine({r \in cur : BucketStart(r.t, b) = ts[i]})
    BY <1>1, <1>2 DEF PerBucket
  <2>2. \A i \in 1..n : total[i].sum \in Int
    <3>1. ASSUME NEW i \in 1..n PROVE total[i].sum \in Int
      <4> DEFINE part == {r \in cur : BucketStart(r.t, b) = ts[i]}
      <4>1. Weighed(part)
        BY <1>1, WeighedPart
      <4> HIDE DEF part
      <4>2. Combine(part).sum \in Nat
        BY <4>1, CombineOf
      <4>3. total[i] = Combine(part)
        BY <2>1 DEF part
      <4> HIDE DEF total
      <4> QED BY <4>2, <4>3
    <3> QED BY <3>1
  <2> HIDE DEF total, n
  <2>3. levels \in [1..n -> Int]
    BY <2>1, <2>2
  <2> HIDE DEF levels
  <2>4. n \in Nat /\ n >= 1
    BY <1>1 DEF n
  <2>5. LET w == Waterfall(levels) IN w.last = w.first + SumFunction(w.up) - SumFunction(w.down)
    BY <2>3, <2>4, WaterfallEnds
  <2> QED BY <2>5 DEF levels, total
<1>6. Sum([d \in 0..6 |-> Sum(WeekdayHourGrid(in)[d])]) = in.value
  BY <1>1, <1>2, GridSum
<1>7. ASSUME NEW i \in DOMAIN Pareto(in) PROVE Pareto(in)[i][1] <= Pareto(in)[i][2]
  <2>1. Parts(in.categories)
    BY TopsAgree
  <2> QED BY <2>1, ParetoRises DEF Known
<1>8. Amount(in.value) /\ Amount(in.previous)
  BY <1>1, <1>2, CombineOf DEF Amount
<1>9. ASSUME NEW p \in {"lowerBetter", "higherBetter", "neutral"}
      PROVE  /\ Progress(in, p) = (Tone(Delta(in), p) = "bad")
             /\ Gauge(in, p) = Progress(in, p) /\ TargetActual(in, p) = Progress(in, p)
  BY <1>1, <1>2, <1>8, TonesAgree
<1> QED BY <1>3, <1>4, <1>5, <1>6, <1>7, <1>9 DEF FiguresOf

ChartsOf(in) == TopsOf(in) /\ CellsAgreeOf(in) /\ FiguresOf(in)
                /\ Donut(in).hole = in.value.weight /\ SemiDonut(in).hidden = in.value.weight

LEMMA ChartsAgreeOn ==
  ASSUME NEW in, NEW cur, NEW bef, NEW tree, NEW ts, NEW b, NEW counts, Shown(in, cur, bef, tree, ts, b, counts),
         Known
  PROVE  ChartsOf(in)
  BY TopsAgree, CellsAgree, FiguresAgree DEF ChartsOf

-----------------------------------------------------------------------------
(* TablesAgree.                                                            *)

RenderedOf(in) ==
  /\ \A need \in Needs \ {"time", "hourly"} : (Rendered(need, in) = "drawn") <=> (Rendered("kpi", in) = "drawn")
  /\ Rendered("time", in) = "notEnough" => Len(in.ts) = 1

LEMMA RenderedAlike ==
  ASSUME NEW in, NEW cur, NEW bef, NEW tree, NEW ts, NEW b, NEW counts, Shown(in, cur, bef, tree, ts, b, counts),
         Known
  PROVE  RenderedOf(in)
<1>1. /\ Weighed(cur) /\ Subjective(cur, 1) /\ Subjective(cur, 2)
      /\ Weighed(tree) /\ Combine(tree) = Combine(cur) /\ \A d \in Dims : Subjective(tree, d)
  BY DEF Shown, Grounded
<1>2. /\ in.empty = Nothing(cur) /\ in.matrix = MatrixOf(cur, MatrixLimits) /\ in.heat = MatrixOf(cur, HeatLimits)
      /\ in.hierarchy = Hierarchy(tree)
  BY DEF Shown, MadeOf
<1>3. /\ MatrixLimits[1] \in Nat /\ MatrixLimits[1] >= 1 /\ MatrixLimits[2] \in Nat /\ MatrixLimits[2] >= 1
      /\ HeatLimits[1] \in Nat /\ HeatLimits[1] >= 1 /\ HeatLimits[2] \in Nat /\ HeatLimits[2] >= 1
  BY DEF Known
<1>4. in.categories = <<>> <=> Nothing(cur)
  <2> DEFINE cats == in.categories
  <2>1. Lists(cats, cur, 1)
    BY CategoriesList
  <2> HIDE DEF cats
  <2>2. Len(cats) = 0 <=> Nothing(cur)
    BY <1>1, <2>1, NothingListed
  <2>3. cats \in Seq(ToSet(cats))
    BY <2>1 DEF Lists
  <2>4. cats = <<>> <=> Len(cats) = 0
    BY <2>3, EmptyIs
  <2> QED BY <2>2, <2>4 DEF cats
<1>5. /\ (MatrixOf(cur, MatrixLimits).rows = <<>> <=> Nothing(cur))
      /\ (MatrixOf(cur, MatrixLimits).cols = <<>> <=> Nothing(cur))
  BY <1>1, <1>3, NoMatrix
<1>6. /\ (MatrixOf(cur, HeatLimits).rows = <<>> <=> Nothing(cur))
      /\ (MatrixOf(cur, HeatLimits).cols = <<>> <=> Nothing(cur))
  BY <1>1, <1>3, NoMatrix
<1>7. Hierarchy(tree) = <<>> <=> Nothing(cur)
  <2>1. \A d \in Dims : Subjective(tree, d) /\ TreeLimits[d] \in Nat /\ TreeLimits[d] >= 1
    BY <1>1 DEF Known
  <2>2. Hierarchy(tree) = <<>> <=> Nothing(tree)
    BY <1>1, <2>1, NoTree
  <2>3. Nothing(tree) <=> Combine(tree).weight = 0
    BY <1>1, NothingSummed
  <2>4. Nothing(cur) <=> Combine(cur).weight = 0
    BY <1>1, NothingSummed
  <2> QED BY <1>1, <2>2, <2>3, <2>4
<1> DEFINE none == Nothing(cur)
<1> HIDE DEF none
<1>8. /\ (HasData("categories", in) <=> ~none)
      /\ (HasData("kpi", in) <=> ~none)
      /\ (HasData("hierarchy", in) <=> ~none)
      /\ (HasData("matrix", in) <=> ~none)
      /\ (HasData("heat", in) <=> ~none)
      /\ (HasData("time", in) <=> ~none /\ Len(in.ts) >= 2)
  <2>1. HasData("categories", in) <=> in.categories # <<>>
    BY DEF HasData
  <2>2. HasData("kpi", in) <=> ~in.empty
    BY DEF HasData
  <2>3. HasData("hierarchy", in) <=> in.hierarchy # <<>>
    BY DEF HasData
  <2>4. HasData("matrix", in) <=> in.matrix.rows # <<>> /\ in.matrix.cols # <<>>
    BY DEF HasData
  <2>5. HasData("heat", in) <=> in.heat.rows # <<>> /\ in.heat.cols # <<>>
    BY DEF HasData
  <2>6. HasData("time", in) <=> ~in.empty /\ Len(in.ts) >= 2
    BY DEF HasData
  <2> QED BY <1>2, <1>4, <1>5, <1>6, <1>7, <2>1, <2>2, <2>3, <2>4, <2>5, <2>6 DEF none
<1>9. \A need : Rendered(need, in) = "drawn" <=> HasData(need, in)
  BY DEF Rendered
<1>10. Needs \ {"time", "hourly"} = {"categories", "matrix", "heat", "hierarchy", "kpi"}
  BY DEF Needs
<1>11. \A need \in Needs \ {"time", "hourly"} : (Rendered(need, in) = "drawn") <=> (Rendered("kpi", in) = "drawn")
  BY <1>8, <1>9, <1>10
<1>12. Rendered("time", in) = "notEnough" => Len(in.ts) = 1
  <2>1. in.ts = ts /\ Len(ts) \in Nat /\ Len(ts) >= 1
    BY DEF Shown, MadeOf, Grounded
  <2>2. Rendered("time", in) = "notEnough" => ~HasData("time", in) /\ ~in.empty
    BY DEF Rendered
  <2>3. Len(in.ts) \in Nat /\ Len(in.ts) >= 1
    BY <2>1
  <2>4. ~in.empty => ~none
    BY <1>2 DEF none
  <2>5. Rendered("time", in) = "notEnough" => ~(Len(in.ts) >= 2)
    BY <1>8, <2>2, <2>4
  <2> DEFINE l == Len(in.ts)
  <2>6. l \in Nat /\ l >= 1 /\ (Rendered("time", in) = "notEnough" => ~(l >= 2))
    BY <2>3, <2>5
  <2> HIDE DEF l
  <2>7. Rendered("time", in) = "notEnough" => l = 1
    BY <2>6
  <2> QED BY <2>7 DEF l
<1> QED BY <1>11, <1>12 DEF RenderedOf

RowsTold(in) ==
  /\ \A row \in ToSet(Table("time", in)) : Sum(Tail(row)) = row[1]
  /\ Sum([d \in 0..6 |-> Sum(Table("hourly", in)[d])]) = in.value
  /\ LET rows == Table("hierarchy", in)
         last == {p \in DOMAIN rows : \A q \in DOMAIN rows : ~IsStrictPrefix(rows[p].path, rows[q].path)}
     IN /\ \A p, q \in DOMAIN rows : rows[p].path = rows[q].path => p = q
        /\ SumFunction([p \in last |-> rows[p].value]) = in.value.weight

LEMMA RowsAreTold ==
  ASSUME NEW in, NEW cur, NEW bef, NEW tree, NEW ts, NEW b, NEW counts, Shown(in, cur, bef, tree, ts, b, counts),
         Known
  PROVE  RowsTold(in)
<1>1. /\ Weighed(cur) /\ Weighed(in.hourly) /\ (\A r \in in.hourly : r.t \in Int)
      /\ Combine(in.hourly) = Combine(cur) /\ InTime(cur, ts, b)
  BY DEF Shown, Grounded
<1>2. in.value = Combine(cur) /\ in.ts = ts /\ in.total = PerBucket(cur, ts, b)
      /\ in.series = SeriesOf(Ranked(cur, 1), ts, b)
  BY DEF Shown, MadeOf
<1>3. ASSUME NEW row \in ToSet(Table("time", in)) PROVE Sum(Tail(row)) = row[1]
  <2>1. Lists(Ranked(cur, 1), cur, 1)
    BY CategoriesList
  <2>2. TopSeries \in Nat
    BY DEF Known
  <2> QED BY <1>1, <1>2, <2>1, <2>2, TimeRows
<1>4. Sum([d \in 0..6 |-> Sum(Table("hourly", in)[d])]) = in.value
  <2>1. Table("hourly", in) = HourTable(in)
    BY DEF Table
  <2>2. Sum([d \in 0..6 |-> Sum(HourTable(in)[d])]) = in.value
    BY <1>1, <1>2, GridSum
  <2> QED BY <2>1, <2>2
<1>5. LET rows == Table("hierarchy", in)
          last == {p \in DOMAIN rows : \A q \in DOMAIN rows : ~IsStrictPrefix(rows[p].path, rows[q].path)}
      IN /\ \A p, q \in DOMAIN rows : rows[p].path = rows[q].path => p = q
         /\ SumFunction([p \in last |-> rows[p].value]) = in.value.weight
  <2>1. Table("hierarchy", in) = Flatten(in.hierarchy)
    BY DEF Table
  <2>2. Tree(in.hierarchy, in.value.weight)
    BY HierarchyAdds
  <2>3. LET rows == Flatten(in.hierarchy)
            last == {p \in DOMAIN rows : \A q \in DOMAIN rows : ~IsStrictPrefix(rows[p].path, rows[q].path)}
        IN /\ \A p, q \in DOMAIN rows : rows[p].path = rows[q].path => p = q
           /\ SumFunction([p \in last |-> rows[p].value]) = in.value.weight
    BY <2>2, FlattenTold
  <2> QED BY <2>1, <2>3
<1> QED BY <1>3, <1>4, <1>5 DEF RowsTold

ExtremesOf(in) ==
  LET card == Table("kpi", in)[1] IN
  /\ \A g \in card.max : in.counts => ~Exceeds(in, g, card.value)
  /\ ~in.counts /\ ~in.empty =>
       /\ card.min # {} /\ \A g \in card.min : ~Exceeds(in, g, card.value)
       /\ card.max # {} /\ \A g \in card.max : ~Exceeds(in, card.value, g)

LEMMA ExtremesAgree ==
  ASSUME NEW in, NEW cur, NEW bef, NEW tree, NEW ts, NEW b, NEW counts, Shown(in, cur, bef, tree, ts, b, counts),
         Known
  PROVE  ExtremesOf(in)
<1>1. Weighed(cur) /\ InTime(cur, ts, b) /\ counts \in BOOLEAN
  BY DEF Shown, Grounded
<1>2. /\ in.value = Combine(cur) /\ in.counts = counts /\ in.empty = Nothing(cur)
      /\ in.min = Lowest(PerBucket(cur, ts, b), counts) /\ in.max = Highest(PerBucket(cur, ts, b), counts)
  BY DEF Shown, MadeOf
<1> DEFINE card == Table("kpi", in)[1]
<1>3. card.value = in.value /\ card.min = in.min /\ card.max = in.max
  <2>1. card = MetricCard(in)
    BY DEF Table
  <2> HIDE DEF card
  <2> QED BY <2>1 DEF MetricCard
<1>4. ASSUME counts = TRUE, NEW g \in in.max PROVE ~Exceeds(in, g, in.value)
  BY <1>1, <1>2, <1>4, HighestCount
<1>5. ASSUME counts = FALSE, ~Nothing(cur)
      PROVE  /\ in.min # {} /\ \A g \in in.min : ~Exceeds(in, g, in.value)
             /\ in.max # {} /\ \A g \in in.max : ~Exceeds(in, in.value, g)
  BY <1>1, <1>2, <1>5, ExtremeAverages
<1> HIDE DEF card
<1>6. /\ \A g \in card.max : in.counts => ~Exceeds(in, g, card.value)
      /\ ~in.counts /\ ~in.empty =>
           /\ card.min # {} /\ \A g \in card.min : ~Exceeds(in, g, card.value)
           /\ card.max # {} /\ \A g \in card.max : ~Exceeds(in, card.value, g)
  BY <1>1, <1>2, <1>3, <1>4, <1>5
<1> QED BY <1>6 DEF ExtremesOf, card

ScoreOf(in) ==
  (in.counts /\ Len(in.categories) <= TopCards) =>
    LET moved == ToSet(Scorecard(in))
        names == {c.name : c \in ToSet(in.categories)}
    IN /\ Delta(in) = "up" => moved \cap {"up", "new"} # {}
       /\ Delta(in) = "down" => "down" \in moved \/ \E g \in in.previousByCategory : g.name \notin names

LEMMA ScoreAgrees ==
  ASSUME NEW in, NEW cur, NEW bef, NEW tree, NEW ts, NEW b, NEW counts, Shown(in, cur, bef, tree, ts, b, counts),
         Known
  PROVE  ScoreOf(in)
<1> SUFFICES ASSUME in.counts, Len(in.categories) <= TopCards
             PROVE  LET moved == ToSet(Scorecard(in))
                        names == {c.name : c \in ToSet(in.categories)}
                    IN /\ Delta(in) = "up" => moved \cap {"up", "new"} # {}
                       /\ Delta(in) = "down" => "down" \in moved \/ \E g \in in.previousByCategory : g.name \notin names
  BY DEF ScoreOf
<1>1. Weighed(cur) /\ Weighed(bef) /\ TopCards \in Nat
  BY DEF Shown, Grounded, Known
<1>2. /\ in.value = Combine(cur) /\ in.previous = Combine(bef)
      /\ in.previousByCategory = GroupsBy(bef, LAMBDA r : r.dims[1])
  BY DEF Shown, MadeOf
<1>3. in.counts = TRUE
  <2>1. in.counts = counts /\ counts \in BOOLEAN
    BY DEF Shown, MadeOf, Grounded
  <2> QED BY <2>1
<1> DEFINE cats == in.categories
<1>4. Lists(cats, cur, 1)
  BY CategoriesList
<1>5. in.categories = cats
  OBVIOUS
<1>6. Len(cats) <= TopCards
  OBVIOUS
<1> HIDE DEF cats
<1>7. LET moved == ToSet(Scorecard(in))
          names == {c.name : c \in ToSet(cats)}
      IN /\ Delta(in) = "up" => moved \cap {"up", "new"} # {}
         /\ Delta(in) = "down" => "down" \in moved \/ \E g \in in.previousByCategory : g.name \notin names
  BY <1>1, <1>2, <1>3, <1>4, <1>5, <1>6, Scored
<1> QED BY <1>7 DEF cats

TablesOf(in) == RenderedOf(in) /\ RowsTold(in) /\ ExtremesOf(in) /\ ScoreOf(in)

LEMMA TablesAgreeOn ==
  ASSUME NEW in, NEW cur, NEW bef, NEW tree, NEW ts, NEW b, NEW counts, Shown(in, cur, bef, tree, ts, b, counts),
         Known
  PROVE  TablesOf(in)
  BY RenderedAlike, RowsAreTold, ExtremesAgree, ScoreAgrees DEF TablesOf

-----------------------------------------------------------------------------
(* The gallery.                                                            *)

\* what is recorded, and when: subjects are triples, observations pairs
Observable ==
  /\ Instants \subseteq Int /\ Ages \subseteq Nat
  /\ Subjects \subseteq [1..3 -> Nat \ {0}]
  /\ \A kind \in Observed : kind[1] \in Nat /\ kind[2] \in Nat

\* A chart shows nothing yet, or what the records come to.
GalleryInv ==
  page = "gallery" =>
    /\ server = [records |-> server.records, now |-> server.now]
    /\ Recorded(server.records, server.now)
    /\ ui = NoInput \/ \E days \in Days : \E counts \in BOOLEAN : ui = Drawn(server.records, server.now, days, counts)

LEMMA GalleryStarts ==
  ASSUME Observable, Init
  PROVE  GalleryInv
<1>1. PICK now \in Instants : server = [records |-> {}, now |-> now]
  BY DEF Init
<1>2. IsFiniteSet({}) /\ now \in Int
  BY FS_EmptySet DEF Observable
<1>3. server.records = {} /\ server.now = now
  BY <1>1
<1> QED BY <1>1, <1>2, <1>3 DEF Init, GalleryInv, Recorded

LEMMA GalleryRecords ==
  ASSUME Observable, GalleryInv, NEW age \in Ages, NEW dims \in Subjects, NEW kind \in Observed, Record(age, dims, kind)
  PROVE  GalleryInv'
<1> DEFINE recs == server.records
           now == server.now
           like(n) == [n |-> n, t |-> now - age, dims |-> dims, value |-> kind[1], samples |-> kind[2]]
           c == Cardinality({r \in recs : r = like(r.n)})
           more == recs \cup {like(c)}
<1>1. page = "gallery" /\ ui = NoInput /\ page' = page /\ ui' = ui /\ server' = [server EXCEPT !.records = more]
  BY DEF Record
<1>2. server = [records |-> recs, now |-> now] /\ Recorded(recs, now)
  BY <1>1 DEF GalleryInv
<1> HIDE DEF recs, now, c
<1>3. server' = [records |-> more, now |-> now]
  BY <1>1, <1>2
<1>4. server'.records = more /\ server'.now = now
  BY <1>3
<1>5. Recorded(more, now)
  <2>1. IsFiniteSet(more)
    BY <1>2, FS_AddElement DEF Recorded
  <2>2. now \in Int /\ age \in Nat /\ dims \in [1..3 -> Nat \ {0}] /\ kind[1] \in Nat /\ kind[2] \in Nat
    BY <1>2 DEF Observable, Recorded
  <2>3. /\ like(c).t \in Int /\ like(c).t <= now /\ like(c).dims \in [1..3 -> Nat \ {0}]
        /\ like(c).value \in Nat /\ like(c).samples \in Nat
    BY <2>2
  <2> HIDE DEF like
  <2> QED BY <1>2, <2>1, <2>2, <2>3 DEF Recorded
<1> HIDE DEF more
<1> QED BY <1>1, <1>3, <1>4, <1>5 DEF GalleryInv, NoInput

LEMMA GalleryLoads ==
  ASSUME GalleryInv, NEW days \in Days, NEW counts \in BOOLEAN, LoadGallery(days, counts)
  PROVE  GalleryInv'
<1>1. page = "gallery" /\ page' = page /\ server' = server
      /\ ui' = Drawn(server.records, server.now, days, counts)
  BY DEF LoadGallery, Drawn
<1>2. server = [records |-> server.records, now |-> server.now] /\ Recorded(server.records, server.now)
  BY <1>1 DEF GalleryInv
<1> QED BY <1>1, <1>2 DEF GalleryInv

LEMMA GalleryStays ==
  ASSUME Observable, GalleryInv, [Next]_vars
  PROVE  GalleryInv'
<1>1. CASE Next
  BY <1>1, GalleryRecords, GalleryLoads DEF Next
<1>2. CASE UNCHANGED vars
  BY <1>2 DEF GalleryInv, vars, NoInput
<1> QED BY <1>1, <1>2

AddsUp == PartsAddUp /\ WindowsCompare /\ ChartsAgree /\ TablesAgree

LEMMA GalleryAddsUp ==
  ASSUME Known, GalleryInv
  PROVE  AddsUp
<1> SUFFICES ASSUME Loaded PROVE AddsUp
  BY DEF AddsUp, PartsAddUp, WindowsCompare, ChartsAgree, TablesAgree
<1> DEFINE records == server.records
           now == server.now
<1>1. page = "gallery" /\ ui.input # <<>>
  BY DEF Loaded
<1>2. ui # NoInput
  BY <1>1 DEF NoInput
<1>3. PICK days \in Days : \E counts \in BOOLEAN : ui = Drawn(records, now, days, counts)
  BY <1>1, <1>2 DEF GalleryInv
<1>4. PICK counts \in BOOLEAN : ui = Drawn(records, now, days, counts)
  BY <1>3
<1>5. Recorded(records, now) /\ days \in Nat /\ days >= 1
  BY <1>1 DEF GalleryInv, Known
<1> DEFINE cur == RowsNow(records, now, days, counts)
           bef == RowsBefore(records, now, days, counts)
           tree == TreeRows(records, now, days, counts)
           ts == Spans(days, now)
           w == WindowFor(days, now)
           in == ui.input
<1> HIDE DEF records, now
<1>6. Shown(in, cur, bef, tree, ts, w.bucket, counts)
  BY <1>4, <1>5, InputShown
<1>7. DrawnAs(ui, records, now, days, counts)
  BY <1>4, DrawnFields
<1>8. Compares(w, now, records, ts, counts, Combine(bef), in.compared)
  BY <1>5, <1>7, ComparesWindows DEF DrawnAs
<1>9. /\ ui.win = w /\ ui.now = now /\ in.ts = ts /\ in.counts = counts /\ in.previous = Combine(bef)
  BY <1>7 DEF DrawnAs, MadeOf
<1> HIDE DEF cur, bef, tree, ts, w
<1>10. PartsOf(in) /\ ChartsOf(in) /\ TablesOf(in)
  BY <1>6, PartsAdd, ChartsAgreeOn, TablesAgreeOn
<1>11. Compares(ui.win, ui.now, server.records, in.ts, in.counts, in.previous, in.compared)
  BY <1>8, <1>9 DEF records
<1>12. PartsAddUp
  BY <1>10 DEF PartsAddUp, PartsOf
<1>13. WindowsCompare
  BY <1>11 DEF WindowsCompare, Compares
<1>14. ChartsAgree
  BY <1>10 DEF ChartsAgree, ChartsOf, TopsOf, CellsAgreeOf, FiguresOf
<1>15. TablesAgree
  BY <1>10 DEF TablesAgree, TablesOf, RenderedOf, RowsTold, ExtremesOf, ScoreOf
<1> QED BY <1>12, <1>13, <1>14, <1>15 DEF AddsUp
=============================================================================
