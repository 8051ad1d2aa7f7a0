----------------------------- MODULE SumTheorems -----------------------------
(* Sums over finite sets and what is used of them, and the induction they   *)
(* rest on: the library's well-founded minimum, which speaks of sets, does  *)
(* for what an induction theorem with a predicate cannot be cited for.      *)
EXTENDS Integers, FiniteSets, Functions, FiniteSetTheorems, WellFoundedInduction, TLAPS

-----------------------------------------------------------------------------
(* Induction.                                                               *)

\* A set of natural numbers has a least one.
LEMMA Least ==
  ASSUME NEW T, T \subseteq Nat, T # {}
  PROVE  \E m \in T : \A n \in T : m <= n
<1>1. PICK m \in T : \A n \in T : ~ (<<n, m>> \in OpToRel(<, Nat))
  BY NatLessThanWellFounded, WFMin
<1>2. \A n \in T : ~ (<<n, m>> \in {ss \in Nat \X Nat : ss[1] < ss[2]})
  BY <1>1 DEF OpToRel
<1>3. \A n \in T : ~ (n < m)
  <2> SUFFICES ASSUME NEW n \in T, n < m PROVE FALSE
    OBVIOUS
  <2>1. <<n, m>> \in {ss \in Nat \X Nat : ss[1] < ss[2]}
    <3>1. n \in Nat /\ m \in Nat
      OBVIOUS
    <3> QED BY <3>1
  <2> QED BY <1>2, <2>1
<1>4. \A n \in T : m <= n
  BY <1>3
<1> QED BY <1>4

\* What holds of zero and is handed on holds of all numbers.
LEMMA Counts ==
  ASSUME NEW S, 0 \in S, \A n \in Nat : n \in S => n + 1 \in S
  PROVE  Nat \subseteq S
<1> DEFINE T == Nat \ S
<1>1. SUFFICES ASSUME T # {} PROVE FALSE
  OBVIOUS
<1>2. PICK m \in T : \A n \in T : m <= n
  BY <1>1, Least
<1>3. m # 0 /\ m \in Nat
  OBVIOUS
<1>4. m - 1 \in Nat /\ m - 1 \notin T /\ (m - 1) + 1 = m
  BY <1>2, <1>3
<1> QED BY <1>4

\* A family of finite sets that has the empty one, and with a set each that has
\* one element more, has every finite set.
LEMMA Grows ==
  ASSUME NEW S, IsFiniteSet(S), NEW Family, {} \in Family,
         \A T \in SUBSET S, x \in S : T \in Family /\ x \notin T => T \cup {x} \in Family
  PROVE  SUBSET S \subseteq Family
<1> DEFINE Good == {n \in Nat : \A T \in SUBSET S : Cardinality(T) = n => T \in Family}
<1>1. 0 \in Good
  BY FS_Subset, FS_EmptySet
<1>2. ASSUME NEW n \in Nat, n \in Good PROVE n + 1 \in Good
  <2> SUFFICES ASSUME NEW T \in SUBSET S, Cardinality(T) = n + 1 PROVE T \in Family
    OBVIOUS
  <2>1. IsFiniteSet(T) /\ T # {}
    BY FS_Subset, FS_EmptySet
  <2>2. PICK x \in T : TRUE
    BY <2>1
  <2>3. Cardinality(T \ {x}) = n
    <3>1. Cardinality(T \ {x}) = Cardinality(T) - 1
      BY <2>1, FS_RemoveElement
    <3> QED BY <3>1
  <2>4. T \ {x} \in Family
    BY <1>2, <2>3
  <2>5. (T \ {x}) \cup {x} \in Family
    BY <2>4
  <2> QED BY <2>5, Zenon
<1> HIDE DEF Good
<1>3. Nat \subseteq Good
  BY <1>1, <1>2, Counts
<1>4. ASSUME NEW T \in SUBSET S PROVE T \in Family
  <2>1. Cardinality(T) \in Good
    BY <1>3, FS_Subset, FS_CardinalityType
  <2> QED BY <2>1 DEF Good
<1> QED BY <1>4

\* A finite set of numbers has a greatest one.
LEMMA Greatest ==
  ASSUME NEW S, IsFiniteSet(S), S \subseteq Int, S # {}
  PROVE  \E m \in S : \A x \in S : x <= m
<1> DEFINE Family == {T \in SUBSET S : T # {} => \E m \in T : \A x \in T : x <= m}
<1>1. {} \in Family
  OBVIOUS
<1>2. ASSUME NEW T \in SUBSET S, NEW y \in S, T \in Family
      PROVE  T \cup {y} \in Family
  <2>1. CASE T = {}
    BY <2>1
  <2>2. CASE T # {}
    <3>1. PICK m \in T : \A x \in T : x <= m
      BY <1>2, <2>2
    <3>2. CASE y <= m
      BY <3>1, <3>2
    <3>3. CASE m <= y
      BY <3>1, <3>3
    <3> QED BY <3>1, <3>2, <3>3
  <2> QED BY <2>1, <2>2
<1> HIDE DEF Family
<1>3. S \in Family
  BY <1>1, <1>2, Grows
<1> QED BY <1>3 DEF Family

-----------------------------------------------------------------------------
(* The fold that defines a sum.                                             *)

Picked(s) == CHOOSE x \in s : TRUE

\* The equation of the fold.
Folds(g, f, S) ==
  g = [s \in SUBSET S |-> IF s = {} THEN 0 ELSE f[Picked(s)] + g[s \ {Picked(s)}]]

LEMMA PickedIn == \A s : s # {} => Picked(s) \in s
BY DEF Picked

LEMMA FoldExists ==
  ASSUME NEW f, NEW S, IsFiniteSet(S)
  PROVE  \E g : Folds(g, f, S)
<1> DEFINE Upto(n) == {s \in SUBSET S : Cardinality(s) <= n}
           Value(g, s) == IF s = {} THEN 0 ELSE f[Picked(s)] + g[s \ {Picked(s)}]
           Good == {n \in Nat : \E g : \A s \in Upto(n) : g[s] = Value(g, s)}
<1>1. 0 \in Good
  <2> DEFINE g == [s \in SUBSET S |-> 0]
  <2>1. \A s \in Upto(0) : s = {}
    <3> SUFFICES ASSUME NEW s \in SUBSET S, Cardinality(s) <= 0 PROVE s = {}
      OBVIOUS
    <3>1. IsFiniteSet(s) /\ Cardinality(s) \in Nat
      BY FS_Subset, FS_CardinalityType
    <3>2. Cardinality(s) = 0
      BY <3>1
    <3> QED BY <3>1, <3>2, FS_EmptySet
  <2>2. \A s \in Upto(0) : g[s] = Value(g, s)
    BY <2>1
  <2> QED BY <2>2
<1>2. ASSUME NEW n \in Nat, n \in Good PROVE n + 1 \in Good
  <2>1. PICK g : \A s \in Upto(n) : g[s] = Value(g, s)
    BY <1>2
  <2> DEFINE h == [s \in SUBSET S |-> Value(g, s)]
  <2>2. \A s \in Upto(n) : h[s] = g[s]
    BY <2>1
  <2>3. ASSUME NEW s \in Upto(n + 1), s # {} PROVE s \ {Picked(s)} \in Upto(n)
    <3>1. IsFiniteSet(s) /\ Cardinality(s) \in Nat
      BY FS_Subset, FS_CardinalityType
    <3>2. Cardinality(s \ {Picked(s)}) = Cardinality(s) - 1
      BY <2>3, <3>1, PickedIn, FS_RemoveElement
    <3>3. Cardinality(s) <= n + 1
      OBVIOUS
    <3> QED BY <3>1, <3>2, <3>3
  <2>4. ASSUME NEW s \in Upto(n + 1) PROVE h[s] = Value(h, s)
    <3>1. h[s] = Value(g, s)
      OBVIOUS
    <3> HIDE DEF h, Upto
    <3> QED BY <2>2, <2>3, <3>1
  <2> HIDE DEF h, Upto, Value
  <2>5. \E k : \A s \in Upto(n + 1) : k[s] = Value(k, s)
    BY <2>4
  <2> QED BY <2>5
<1>3. Nat \subseteq Good
  <2> HIDE DEF Good
  <2> QED BY <1>1, <1>2, Counts
<1>4. Cardinality(S) \in Good
  BY <1>3, FS_CardinalityType
<1>5. SUBSET S = Upto(Cardinality(S))
  BY FS_Subset
<1>6. PICK g : \A s \in SUBSET S : g[s] = Value(g, s)
  <2> HIDE DEF Value
  <2> QED BY <1>4, <1>5
<1> DEFINE h == [s \in SUBSET S |-> Value(g, s)]
<1>7. \A s \in SUBSET S : h[s] = g[s]
  BY <1>6
<1>8. h = [s \in SUBSET S |-> Value(h, s)]
  <2>1. \A s \in SUBSET S : Value(h, s) = Value(g, s)
    <3> SUFFICES ASSUME NEW s \in SUBSET S PROVE Value(h, s) = Value(g, s)
      OBVIOUS
    <3>1. s \ {Picked(s)} \in SUBSET S
      OBVIOUS
    <3> HIDE DEF h
    <3> QED BY <1>7, <3>1
  <2> HIDE DEF Value
  <2> QED BY <2>1
<1> QED BY <1>8 DEF Folds

\* A sum is a fold.
LEMMA SumFolds ==
  ASSUME NEW f, NEW S, IsFiniteSet(S)
  PROVE  \E g : Folds(g, f, S) /\ SumFunctionOnSet(f, S) = g[S]
<1> DEFINE iter == CHOOSE g : Folds(g, f, S)
<1>1. Folds(iter, f, S)
  BY FoldExists
<1>2. SumFunctionOnSet(f, S) = iter[S]
  BY DEF SumFunctionOnSet, FoldFunctionOnSet, MapThenFoldSet, Folds, Picked
<1> QED BY <1>1, <1>2
\* A fold takes its elements in any order.
LEMMA FoldAdds ==
  ASSUME NEW f, NEW S, IsFiniteSet(S), \A x \in S : f[x] \in Int, NEW g, Folds(g, f, S)
  PROVE  /\ g[{}] = 0
         /\ \A T \in SUBSET S : g[T] \in Int
         /\ \A T \in SUBSET S, x \in S : x \notin T => g[T \cup {x}] = f[x] + g[T]
<1>1. \A s \in SUBSET S :
        g[s] = IF s = {} THEN 0 ELSE f[Picked(s)] + g[s \ {Picked(s)}]
  BY DEF Folds
<1>2. g[{}] = 0
  BY <1>1
<1> DEFINE Adds(T) == \A x \in S \ T : g[T \cup {x}] = f[x] + g[T]
           Good == {n \in Nat : \A T \in SUBSET S : Cardinality(T) = n => g[T] \in Int /\ Adds(T)}
<1>3. 0 \in Good
  <2> SUFFICES ASSUME NEW T \in SUBSET S, Cardinality(T) = 0 PROVE g[T] \in Int /\ Adds(T)
    OBVIOUS
  <2>1. T = {}
    BY FS_Subset, FS_EmptySet
  <2>2. ASSUME NEW x \in S \ T PROVE g[T \cup {x}] = f[x] + g[T]
    <3>1. T \cup {x} = {x} /\ {x} \in SUBSET S /\ {x} # {}
      BY <2>1
    <3>2. Picked({x}) = x
      BY PickedIn, <3>1
    <3>3. g[{x}] = f[x] + g[{x} \ {x}]
      BY <1>1, <3>1, <3>2
    <3> QED BY <2>1, <3>1, <3>3
  <2>3. g[T] \in Int
    BY <1>2, <2>1
  <2> QED BY <2>2, <2>3
<1>4. ASSUME NEW n \in Nat, n \in Good PROVE n + 1 \in Good
  <2> SUFFICES ASSUME NEW T \in SUBSET S, Cardinality(T) = n + 1 PROVE g[T] \in Int /\ Adds(T)
    OBVIOUS
  <2>1. IsFiniteSet(T) /\ T # {}
    BY FS_Subset, FS_EmptySet
  <2>2. \A y \in T : Cardinality(T \ {y}) = n
    <3> SUFFICES ASSUME NEW y \in T PROVE Cardinality(T \ {y}) = n
      OBVIOUS
    <3>1. Cardinality(T \ {y}) = Cardinality(T) - 1
      BY <2>1, FS_RemoveElement
    <3> QED BY <3>1
  <2>3. \A y \in T : g[T \ {y}] \in Int /\ Adds(T \ {y})
    BY <1>4, <2>2
  <2>4. \A y \in T : g[T] = f[y] + g[T \ {y}]
    <3> SUFFICES ASSUME NEW y \in T PROVE g[T] = f[y] + g[T \ {y}]
      OBVIOUS
    <3>1. (T \ {y}) \cup {y} = T /\ y \in S \ (T \ {y})
      OBVIOUS
    <3>2. g[(T \ {y}) \cup {y}] = f[y] + g[T \ {y}]
      BY <2>3, <3>1
    <3> QED BY <3>1, <3>2
  <2>5. g[T] \in Int
    <3>1. PICK y \in T : TRUE
      BY <2>1
    <3>2. g[T] = f[y] + g[T \ {y}] /\ g[T \ {y}] \in Int /\ f[y] \in Int
      BY <2>3, <2>4
    <3> QED BY <3>2
  <2>6. ASSUME NEW x \in S \ T PROVE g[T \cup {x}] = f[x] + g[T]
    <3> DEFINE U == T \cup {x}
               y == Picked(U)
    <3>1. y \in U /\ U \in SUBSET S /\ U # {}
      BY PickedIn
    <3>2. g[U] = f[y] + g[U \ {y}]
      BY <1>1, <3>1
    <3>3. CASE y = x
      <4>1. U \ {y} = T
        BY <3>3
      <4> QED BY <3>2, <3>3, <4>1
    <3>4. CASE y # x
      <4>1. y \in T /\ U \ {y} = (T \ {y}) \cup {x} /\ x \in S \ (T \ {y})
        BY <3>1, <3>4
      <4>2. g[(T \ {y}) \cup {x}] = f[x] + g[T \ {y}]
        BY <2>3, <4>1
      <4>3. g[T] = f[y] + g[T \ {y}]
        BY <2>4, <4>1
      <4>4. g[T \ {y}] \in Int /\ f[x] \in Int /\ f[y] \in Int
        BY <2>3, <4>1
      <4>5. g[U] = f[y] + (f[x] + g[T \ {y}])
        BY <3>2, <4>1, <4>2
      <4> HIDE DEF y, U
      <4>6. g[U] = f[x] + g[T]
        BY <4>3, <4>4, <4>5
      <4> QED BY <4>6 DEF U
    <3> QED BY <3>3, <3>4
  <2> QED BY <2>5, <2>6
<1>5. Nat \subseteq Good
  <2> HIDE DEF Good
  <2> QED BY <1>3, <1>4, Counts
<1>6. \A T \in SUBSET S : g[T] \in Int /\ Adds(T)
  <2> SUFFICES ASSUME NEW T \in SUBSET S PROVE g[T] \in Int /\ Adds(T)
    OBVIOUS
  <2>1. Cardinality(T) \in Nat
    BY FS_Subset, FS_CardinalityType
  <2> HIDE DEF Adds
  <2> QED BY <1>5, <2>1
<1> QED BY <1>2, <1>6

\* The fold over a set tells the sums over its subsets.
LEMMA FoldTells ==
  ASSUME NEW f, NEW S, IsFiniteSet(S), \A x \in S : f[x] \in Int, NEW g, Folds(g, f, S),
         NEW T \in SUBSET S
  PROVE  SumFunctionOnSet(f, T) = g[T]
<1>1. IsFiniteSet(T)
  BY FS_Subset
<1>2. PICK h : Folds(h, f, T) /\ SumFunctionOnSet(f, T) = h[T]
  BY <1>1, SumFolds
<1>3. g[{}] = 0 /\ h[{}] = 0
  BY <1>1, <1>2, FoldAdds
<1>5. \A U \in SUBSET T, x \in T : x \notin U => g[U \cup {x}] = f[x] + g[U]
  BY FoldAdds
<1>6. \A U \in SUBSET T, x \in T : x \notin U => h[U \cup {x}] = f[x] + h[U]
  BY <1>1, <1>2, FoldAdds
<1> DEFINE Family == {U \in SUBSET T : g[U] = h[U]}
<1>4. SUBSET T \subseteq Family
  <2>1. {} \in Family
    BY <1>3
  <2>2. \A U \in SUBSET T, x \in T : U \in Family /\ x \notin U => U \cup {x} \in Family
    BY <1>5, <1>6
  <2> HIDE DEF Family
  <2> QED BY <1>1, <2>1, <2>2, Grows
<1> QED BY <1>2, <1>4

-----------------------------------------------------------------------------
(* Sums.                                                                    *)

LEMMA SumEmpty == \A f : SumFunctionOnSet(f, {}) = 0
<1> SUFFICES ASSUME NEW f PROVE SumFunctionOnSet(f, {}) = 0
  OBVIOUS
<1>1. PICK g : Folds(g, f, {}) /\ SumFunctionOnSet(f, {}) = g[{}]
  BY SumFolds, FS_EmptySet
<1> QED BY <1>1, FoldAdds, FS_EmptySet

LEMMA SumType ==
  ASSUME NEW f, NEW S, IsFiniteSet(S), \A x \in S : f[x] \in Int
  PROVE  SumFunctionOnSet(f, S) \in Int
<1>1. PICK g : Folds(g, f, S) /\ SumFunctionOnSet(f, S) = g[S]
  BY SumFolds
<1>2. S \in SUBSET S
  OBVIOUS
<1>3. g[S] \in Int
  BY <1>1, <1>2, FoldAdds
<1> QED BY <1>1, <1>3

LEMMA SumAdd ==
  ASSUME NEW f, NEW S, IsFiniteSet(S), NEW y, y \notin S, \A x \in S \cup {y} : f[x] \in Int
  PROVE  SumFunctionOnSet(f, S \cup {y}) = f[y] + SumFunctionOnSet(f, S)
<1> DEFINE T == S \cup {y}
<1>1. IsFiniteSet(T) /\ S \in SUBSET T /\ y \in T
  BY FS_AddElement
<1>2. PICK g : Folds(g, f, T) /\ SumFunctionOnSet(f, T) = g[T]
  BY <1>1, SumFolds
<1>3. SumFunctionOnSet(f, S) = g[S]
  BY <1>1, <1>2, FoldTells
<1>4. g[S \cup {y}] = f[y] + g[S]
  BY <1>1, <1>2, FoldAdds
<1> QED BY <1>2, <1>3, <1>4
\* Equal terms make equal sums.
LEMMA SumSame ==
  ASSUME NEW f, NEW g, NEW S, IsFiniteSet(S), \A x \in S : f[x] \in Int /\ f[x] = g[x]
  PROVE  SumFunctionOnSet(f, S) = SumFunctionOnSet(g, S)
<1> DEFINE Family == {T \in SUBSET S : SumFunctionOnSet(f, T) = SumFunctionOnSet(g, T)}
<1>1. {} \in Family
  BY SumEmpty
<1>2. ASSUME NEW T \in SUBSET S, NEW x \in S, T \in Family, x \notin T PROVE T \cup {x} \in Family
  <2>1. IsFiniteSet(T)
    BY FS_Subset
  <2>2. /\ SumFunctionOnSet(f, T \cup {x}) = f[x] + SumFunctionOnSet(f, T)
        /\ SumFunctionOnSet(g, T \cup {x}) = g[x] + SumFunctionOnSet(g, T)
    BY <1>2, <2>1, SumAdd
  <2> QED BY <1>2, <2>2
<1> HIDE DEF Family
<1>3. S \in Family
  BY <1>1, <1>2, Grows
<1> QED BY <1>3 DEF Family

\* Smaller terms make a smaller sum.
LEMMA SumLeq ==
  ASSUME NEW f, NEW g, NEW S, IsFiniteSet(S),
         \A x \in S : f[x] \in Int /\ g[x] \in Int /\ f[x] <= g[x]
  PROVE  SumFunctionOnSet(f, S) <= SumFunctionOnSet(g, S)
<1> DEFINE Family == {T \in SUBSET S : SumFunctionOnSet(f, T) <= SumFunctionOnSet(g, T)}
<1>1. {} \in Family
  BY SumEmpty
<1>2. ASSUME NEW T \in SUBSET S, NEW x \in S, T \in Family, x \notin T PROVE T \cup {x} \in Family
  <2>1. IsFiniteSet(T)
    BY FS_Subset
  <2>2. /\ SumFunctionOnSet(f, T \cup {x}) = f[x] + SumFunctionOnSet(f, T)
        /\ SumFunctionOnSet(g, T \cup {x}) = g[x] + SumFunctionOnSet(g, T)
    BY <1>2, <2>1, SumAdd
  <2>3. SumFunctionOnSet(f, T) \in Int /\ SumFunctionOnSet(g, T) \in Int
    BY <2>1, SumType
  <2>4. SumFunctionOnSet(f, T) <= SumFunctionOnSet(g, T) /\ f[x] \in Int /\ g[x] \in Int
        /\ f[x] <= g[x]
    BY <1>2
  <2>5. SumFunctionOnSet(f, T \cup {x}) <= SumFunctionOnSet(g, T \cup {x})
    BY <2>2, <2>3, <2>4
  <2> QED BY <2>5
<1> HIDE DEF Family
<1>3. S \in Family
  BY <1>1, <1>2, Grows
<1> QED BY <1>3 DEF Family

\* The sum of sums of terms, and of differences.
LEMMA SumPlus ==
  ASSUME NEW f, NEW g, NEW h, NEW S, IsFiniteSet(S),
         \A x \in S : f[x] \in Int /\ g[x] \in Int /\ h[x] = f[x] + g[x]
  PROVE  SumFunctionOnSet(h, S) = SumFunctionOnSet(f, S) + SumFunctionOnSet(g, S)
<1> DEFINE Family == {T \in SUBSET S :
             SumFunctionOnSet(h, T) = SumFunctionOnSet(f, T) + SumFunctionOnSet(g, T)}
<1>1. {} \in Family
  BY SumEmpty
<1>2. ASSUME NEW T \in SUBSET S, NEW x \in S, T \in Family, x \notin T PROVE T \cup {x} \in Family
  <2>1. IsFiniteSet(T) /\ \A y \in S : h[y] \in Int
    BY FS_Subset
  <2>2. /\ SumFunctionOnSet(f, T \cup {x}) = f[x] + SumFunctionOnSet(f, T)
        /\ SumFunctionOnSet(g, T \cup {x}) = g[x] + SumFunctionOnSet(g, T)
        /\ SumFunctionOnSet(h, T \cup {x}) = h[x] + SumFunctionOnSet(h, T)
    BY <1>2, <2>1, SumAdd
  <2>3. SumFunctionOnSet(f, T) \in Int /\ SumFunctionOnSet(g, T) \in Int
    BY <2>1, SumType
  <2>4. SumFunctionOnSet(h, T) = SumFunctionOnSet(f, T) + SumFunctionOnSet(g, T)
        /\ f[x] \in Int /\ g[x] \in Int /\ h[x] = f[x] + g[x]
    BY <1>2
  <2>5. SumFunctionOnSet(h, T \cup {x})
          = SumFunctionOnSet(f, T \cup {x}) + SumFunctionOnSet(g, T \cup {x})
    BY <2>2, <2>3, <2>4
  <2> QED BY <2>5
<1> HIDE DEF Family
<1>3. S \in Family
  BY <1>1, <1>2, Grows
<1> QED BY <1>3 DEF Family

\* The sum over two sets that have nothing in common.
LEMMA SumSplit ==
  ASSUME NEW f, NEW A, NEW B, IsFiniteSet(A), IsFiniteSet(B), A \cap B = {},
         \A x \in A \cup B : f[x] \in Int
  PROVE  SumFunctionOnSet(f, A \cup B) = SumFunctionOnSet(f, A) + SumFunctionOnSet(f, B)
<1> DEFINE Family == {T \in SUBSET B :
             SumFunctionOnSet(f, A \cup T) = SumFunctionOnSet(f, A) + SumFunctionOnSet(f, T)}
<1>0. SumFunctionOnSet(f, A) \in Int
  BY SumType
<1>1. {} \in Family
  <2>1. A \cup {} = A
    OBVIOUS
  <2> QED BY <1>0, <2>1, SumEmpty
<1>2. ASSUME NEW T \in SUBSET B, NEW x \in B, T \in Family, x \notin T PROVE T \cup {x} \in Family
  <2>1. IsFiniteSet(T) /\ IsFiniteSet(A \cup T) /\ x \notin A \cup T
    BY <1>2, FS_Subset, FS_Union
  <2>2. SumFunctionOnSet(f, T \cup {x}) = f[x] + SumFunctionOnSet(f, T)
    BY <1>2, <2>1, SumAdd
  <2>3. SumFunctionOnSet(f, (A \cup T) \cup {x}) = f[x] + SumFunctionOnSet(f, A \cup T)
    BY <1>2, <2>1, SumAdd
  <2>4. SumFunctionOnSet(f, T) \in Int /\ f[x] \in Int
    BY <2>1, SumType
  <2>5. SumFunctionOnSet(f, A \cup T) = SumFunctionOnSet(f, A) + SumFunctionOnSet(f, T)
    BY <1>2
  <2>6. SumFunctionOnSet(f, (A \cup T) \cup {x})
          = SumFunctionOnSet(f, A) + SumFunctionOnSet(f, T \cup {x})
    BY <1>0, <2>2, <2>3, <2>4, <2>5
  <2>7. (A \cup T) \cup {x} = A \cup (T \cup {x})
    OBVIOUS
  <2> QED BY <2>6, <2>7
<1> HIDE DEF Family
<1>3. B \in Family
  <2>1. SUBSET B \subseteq Family
    BY <1>1, <1>2, Grows
  <2> QED BY <2>1
<1> QED BY <1>3 DEF Family

\* No term is negative: neither is the sum, and more terms make more.
LEMMA SumNat ==
  ASSUME NEW f, NEW S, IsFiniteSet(S), \A x \in S : f[x] \in Nat
  PROVE  SumFunctionOnSet(f, S) \in Nat
<1> DEFINE Family == {T \in SUBSET S : SumFunctionOnSet(f, T) \in Nat}
<1>1. {} \in Family
  BY SumEmpty
<1>2. ASSUME NEW T \in SUBSET S, NEW x \in S, T \in Family, x \notin T PROVE T \cup {x} \in Family
  <2>1. IsFiniteSet(T)
    BY FS_Subset
  <2>2. SumFunctionOnSet(f, T \cup {x}) = f[x] + SumFunctionOnSet(f, T)
    BY <1>2, <2>1, SumAdd
  <2> QED BY <1>2, <2>2
<1> HIDE DEF Family
<1>3. S \in Family
  BY <1>1, <1>2, Grows
<1> QED BY <1>3 DEF Family

LEMMA SumMore ==
  ASSUME NEW f, NEW S, IsFiniteSet(S), NEW T \in SUBSET S, \A x \in S : f[x] \in Nat
  PROVE  SumFunctionOnSet(f, T) <= SumFunctionOnSet(f, S)
<1>1. IsFiniteSet(T) /\ IsFiniteSet(S \ T) /\ T \cap (S \ T) = {} /\ T \cup (S \ T) = S
  BY FS_Subset
<1>2. SumFunctionOnSet(f, T \cup (S \ T))
        = SumFunctionOnSet(f, T) + SumFunctionOnSet(f, S \ T)
  BY <1>1, SumSplit
<1>3. SumFunctionOnSet(f, T) \in Nat /\ SumFunctionOnSet(f, S \ T) \in Nat
  BY <1>1, SumNat
<1>4. SumFunctionOnSet(f, S) = SumFunctionOnSet(f, T) + SumFunctionOnSet(f, S \ T)
  BY Zenon, <1>1, <1>2
<1> QED BY <1>3, <1>4

\* Terms of zero do not count.
LEMMA SumZero ==
  ASSUME NEW f, NEW S, IsFiniteSet(S), \A x \in S : f[x] = 0
  PROVE  SumFunctionOnSet(f, S) = 0
<1> DEFINE Family == {T \in SUBSET S : SumFunctionOnSet(f, T) = 0}
<1>1. {} \in Family
  BY SumEmpty
<1>2. ASSUME NEW T \in SUBSET S, NEW x \in S, T \in Family, x \notin T PROVE T \cup {x} \in Family
  <2>1. IsFiniteSet(T)
    BY FS_Subset
  <2>2. SumFunctionOnSet(f, T \cup {x}) = f[x] + SumFunctionOnSet(f, T)
    BY <1>2, <2>1, SumAdd
  <2> QED BY <1>2, <2>2
<1> HIDE DEF Family
<1>3. S \in Family
  BY <1>1, <1>2, Grows
<1> QED BY <1>3 DEF Family

\* The same terms under other names.
LEMMA SumRenamed ==
  ASSUME NEW f, NEW g, NEW b, NEW S, IsFiniteSet(S),
         \A x, y \in S : b[x] = b[y] => x = y,
         \A x \in S : f[x] \in Int /\ g[b[x]] = f[x]
  PROVE  /\ IsFiniteSet({b[x] : x \in S})
         /\ SumFunctionOnSet(g, {b[x] : x \in S}) = SumFunctionOnSet(f, S)
<1> DEFINE Im(T) == {b[x] : x \in T}
           Family == {T \in SUBSET S : IsFiniteSet(Im(T))
                         /\ SumFunctionOnSet(g, Im(T)) = SumFunctionOnSet(f, T)}
<1>1. {} \in Family
  <2>1. Im({}) = {}
    OBVIOUS
  <2> HIDE DEF Im
  <2>2. IsFiniteSet(Im({})) /\ SumFunctionOnSet(g, Im({})) = SumFunctionOnSet(f, {})
    BY <2>1, FS_EmptySet, SumEmpty
  <2> QED BY <2>2
<1>2. ASSUME NEW T \in SUBSET S, NEW x \in S, T \in Family, x \notin T PROVE T \cup {x} \in Family
  <2>1. IsFiniteSet(T)
    BY FS_Subset
  <2>2. SumFunctionOnSet(f, T \cup {x}) = f[x] + SumFunctionOnSet(f, T)
    BY <1>2, <2>1, SumAdd
  <2>3. Im(T \cup {x}) = Im(T) \cup {b[x]} /\ b[x] \notin Im(T)
    BY <1>2
  <2>4. \A y \in Im(T) \cup {b[x]} : g[y] \in Int
    OBVIOUS
  <2>5. IsFiniteSet(Im(T)) /\ SumFunctionOnSet(g, Im(T)) = SumFunctionOnSet(f, T)
    BY <1>2
  <2> HIDE DEF Im
  <2>6. SumFunctionOnSet(g, Im(T) \cup {b[x]}) = g[b[x]] + SumFunctionOnSet(g, Im(T))
    BY <2>3, <2>4, <2>5, SumAdd
  <2>7. IsFiniteSet(Im(T) \cup {b[x]})
    BY <2>5, FS_AddElement
  <2>8. SumFunctionOnSet(g, Im(T) \cup {b[x]}) = SumFunctionOnSet(f, T \cup {x})
    BY <2>2, <2>5, <2>6
  <2>9. IsFiniteSet(Im(T \cup {x}))
        /\ SumFunctionOnSet(g, Im(T \cup {x})) = SumFunctionOnSet(f, T \cup {x})
    BY Zenon, <2>3, <2>7, <2>8
  <2> QED BY <2>9
<1>3. S \in Family
  <2> HIDE DEF Family
  <2> QED BY <1>1, <1>2, Grows
<1> QED BY <1>3

\* S falls into the groups G[k], with the sums g[k].
Grouped(f, S, K, h, G, g) ==
  /\ IsFiniteSet(S) /\ \A x \in S : f[x] \in Int
  /\ IsFiniteSet(K) /\ \A x \in S : h[x] \in K
  /\ \A k \in K : \A x : x \in G[k] <=> x \in S /\ h[x] = k
  /\ \A k \in K : g[k] = SumFunctionOnSet(f, G[k])

\* A sum group by group.
LEMMA SumGroups ==
  ASSUME NEW f, NEW S, NEW K, NEW h, NEW G, NEW g, Grouped(f, S, K, h, G, g)
  PROVE  SumFunctionOnSet(g, K) = SumFunctionOnSet(f, S)
<1> USE DEF Grouped
<1> DEFINE Of(k) == G[k]
           Upto(J) == {x \in S : h[x] \in J}
           Family == {J \in SUBSET K : SumFunctionOnSet(g, J) = SumFunctionOnSet(f, Upto(J))}
<1>0. \A k \in K : g[k] \in Int
  <2> SUFFICES ASSUME NEW k \in K PROVE g[k] \in Int
    OBVIOUS
  <2>1. IsFiniteSet(Of(k)) /\ \A x \in Of(k) : f[x] \in Int
    BY FS_Subset
  <2>2. g[k] = SumFunctionOnSet(f, Of(k))
    OBVIOUS
  <2> HIDE DEF Of
  <2> QED BY <2>1, <2>2, SumType
<1>1. {} \in Family
  <2>1. Upto({}) = {}
    OBVIOUS
  <2> QED BY <2>1, SumEmpty
<1>2. ASSUME NEW J \in SUBSET K, NEW k \in K, J \in Family, k \notin J PROVE J \cup {k} \in Family
  <2>1. IsFiniteSet(J) /\ IsFiniteSet(Upto(J)) /\ IsFiniteSet(Of(k))
    BY FS_Subset
  <2>2. SumFunctionOnSet(g, J \cup {k}) = g[k] + SumFunctionOnSet(g, J)
    BY <1>0, <1>2, <2>1, SumAdd
  <2>3. Upto(J \cup {k}) = Upto(J) \cup Of(k) /\ Upto(J) \cap Of(k) = {}
    BY <1>2
  <2>4. \A x \in Upto(J) \cup Of(k) : f[x] \in Int
    OBVIOUS
  <2>5. SumFunctionOnSet(g, J) = SumFunctionOnSet(f, Upto(J)) /\ g[k] = SumFunctionOnSet(f, Of(k))
    BY <1>2
  <2> HIDE DEF Upto, Of
  <2>6. SumFunctionOnSet(f, Upto(J) \cup Of(k))
          = SumFunctionOnSet(f, Upto(J)) + SumFunctionOnSet(f, Of(k))
    BY <2>1, <2>3, <2>4, SumSplit
  <2>7. SumFunctionOnSet(f, Upto(J)) \in Int /\ SumFunctionOnSet(f, Of(k)) \in Int
    BY <2>1, <2>4, SumType
  <2>8. SumFunctionOnSet(g, J \cup {k}) = SumFunctionOnSet(f, Upto(J) \cup Of(k))
    BY <2>2, <2>5, <2>6, <2>7
  <2>9. SumFunctionOnSet(g, J \cup {k}) = SumFunctionOnSet(f, Upto(J \cup {k}))
    BY Zenon, <2>3, <2>8
  <2> QED BY <2>9
<1>3. K \in Family
  <2> HIDE DEF Family
  <2> QED BY <1>1, <1>2, Grows
<1>4. Upto(K) = S
  OBVIOUS
<1> QED BY <1>3, <1>4
=============================================================================
