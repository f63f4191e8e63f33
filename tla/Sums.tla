-------------------------------- MODULE Sums --------------------------------
(***************************************************************************)
(* Facts about sums over finite sets, for the proofs about balances and    *)
(* stocks.  SumFunctionOnSet adds up a function by a recursion that picks  *)
(* one element after the other, so that its properties need induction      *)
(* over the set.  It is done here with first-order facts alone: a non-     *)
(* empty set of subsets of a finite set has a smallest element.            *)
(*                                                                         *)
(* A lemma's hypothesis that quantifies over a set is a definition with a  *)
(* name, so that the provers recognise it.                                 *)
(***************************************************************************)
EXTENDS Integers, FiniteSetsExt, FiniteSetTheorems, TLAPS

-----------------------------------------------------------------------------
\* What holds of a set if it holds of its proper subsets, holds of every subset of
\* a finite set.  C is the set of those that it holds of.
LEMMA SetInduction ==
    ASSUME NEW S, IsFiniteSet(S), NEW C,
           \A T \in SUBSET S : (\A U \in SUBSET T : U # T => U \in C) => T \in C
    PROVE  SUBSET S \subseteq C
<1> DEFINE Bad == (SUBSET S) \ C
<1> SUFFICES ASSUME Bad # {} PROVE FALSE
    OBVIOUS
<1>0. IsWellFoundedOn(StrictSubsetOrdering(S), FiniteSubsetsOf(S))
    BY FS_StrictSubsetOrderingWellFounded
<1>1. FiniteSubsetsOf(S) = SUBSET S
    BY FS_FiniteSubsetsOfFinite
<1>2. PICK T \in Bad : \A U \in Bad : ~ (<<U, T>> \in StrictSubsetOrdering(S))
    <2>1. Bad \subseteq FiniteSubsetsOf(S) /\ Bad # {}
        BY <1>1
    <2> HIDE DEF Bad
    <2> QED BY <1>0, <2>1, WFMin
<1>3. T \in SUBSET S /\ T \notin C
    OBVIOUS
<1>4. ASSUME NEW U \in SUBSET T, U # T PROVE U \in C
    <2>1. <<U, T>> \in StrictSubsetOrdering(S)
        BY <1>3, <1>4 DEF StrictSubsetOrdering
    <2>2. U \notin Bad
        BY <2>1, <1>2
    <2> QED BY <1>3, <2>2
<1> QED BY <1>3, <1>4

\* Every set of naturals has a least element.
LEMMA NatLeast ==
    ASSUME NEW T, T \subseteq Nat, T # {}
    PROVE  \E m \in T : \A n \in T : m <= n
<1> DEFINE F == {0..m : m \in T}
<1>0. IsWellFoundedOn(StrictSubsetOrdering(Nat), FiniteSubsetsOf(Nat))
    BY FS_StrictSubsetOrderingWellFounded
<1>1. F # {}
    OBVIOUS
<1>2. F \subseteq FiniteSubsetsOf(Nat)
    <2> SUFFICES ASSUME NEW m \in T PROVE 0..m \in FiniteSubsetsOf(Nat)
        OBVIOUS
    <2>1. m \in Int /\ 0 \in Int
        OBVIOUS
    <2>2. IsFiniteSet(0..m)
        BY <2>1, FS_Interval
    <2> QED BY <2>1, <2>2 DEF FiniteSubsetsOf
<1>3. PICK I \in F : \A J \in F : ~ (<<J, I>> \in StrictSubsetOrdering(Nat))
    <2> HIDE DEF F
    <2> QED BY <1>0, <1>1, <1>2, WFMin
<1>4. PICK m \in T : I = 0..m
    OBVIOUS
<1>5. ASSUME NEW n \in T, ~ (m <= n) PROVE FALSE
    <2>1. m \in Nat /\ n \in Nat /\ n < m
        BY <1>5
    <2>2. 0..n \subseteq 0..m /\ m \in 0..m /\ m \notin 0..n
        BY <2>1
    <2>2a. 0..n # 0..m
        BY <2>2
    <2>2b. 0..n \in SUBSET Nat /\ 0..m \in SUBSET Nat
        BY <2>1
    <2>3. <<0..n, 0..m>> \in StrictSubsetOrdering(Nat)
        BY <2>2, <2>2a, <2>2b DEF StrictSubsetOrdering
    <2>4. 0..n \in F
        OBVIOUS
    <2> QED BY <1>3, <1>4, <2>3, <2>4
<1> QED BY <1>5

\* Induction over the naturals, the predicate being a set.
LEMMA NatInductionOnSets ==
    ASSUME NEW S, 0 \in S, \A n \in Nat : n \in S => n + 1 \in S
    PROVE  Nat \subseteq S
<1> DEFINE T == Nat \ S
<1> SUFFICES ASSUME T # {} PROVE FALSE
    OBVIOUS
<1>1. PICK m \in T : \A n \in T : m <= n
    <2>1. T \subseteq Nat
        OBVIOUS
    <2> HIDE DEF T
    <2> QED BY <2>1, NatLeast
<1>2. m \in Nat /\ m # 0
    OBVIOUS
<1>3. m - 1 \in Nat /\ (m - 1) + 1 = m /\ ~ (m <= m - 1)
    BY <1>2
<1>4. m - 1 \in T
    BY <1>3
<1> QED BY <1>1, <1>3, <1>4

-----------------------------------------------------------------------------
\* The element that the recursion takes out of s.
Pick(s) == CHOOSE x \in s : TRUE

\* f is an integer everywhere on S.
Integral(f, S) == \A x \in S : f[x] \in Int

\* f and k have the same values on S.
Same(f, k, S) == \A x \in S : f[x] = k[x]

\* g adds up f over each of the sets in D, one element after the other.
IsIter(g, f, D) ==
    g = [s \in D |-> IF s = {} THEN 0 ELSE f[Pick(s)] + g[s \ {Pick(s)}]]

LEMMA SumIsChosen ==
    ASSUME NEW f, NEW S
    PROVE  SumFunctionOnSet(f, S) = (CHOOSE g : IsIter(g, f, SUBSET S))[S]
BY DEF SumFunctionOnSet, FoldFunctionOnSet, MapThenFoldSet, IsIter, Pick

LEMMA PickIn == ASSUME NEW s, s # {} PROVE Pick(s) \in s
BY DEF Pick

\* Such a function exists for the subsets of a finite set: by induction over the
\* largest cardinality that it covers.
LEMMA IterExists ==
    ASSUME NEW f, NEW S, IsFiniteSet(S)
    PROVE  \E g : IsIter(g, f, SUBSET S)
<1> DEFINE D(n) == {s \in SUBSET S : Cardinality(s) <= n}
           C == {n \in Nat : \E g : IsIter(g, f, D(n))}
<1>0. ASSUME NEW s \in SUBSET S
      PROVE  /\ IsFiniteSet(s)
             /\ Cardinality(s) \in Nat
             /\ Cardinality(s) <= Cardinality(S)
             /\ Cardinality(s) = 0 <=> s = {}
    BY FS_Subset, FS_CardinalityType, FS_EmptySet
<1>1. 0 \in C
    <2> DEFINE g == [s \in D(0) |-> 0]
    <2>1. \A s \in D(0) : s = {}
        <3> SUFFICES ASSUME NEW s \in D(0) PROVE s = {}
            OBVIOUS
        <3>1. s \in SUBSET S /\ Cardinality(s) <= 0
            OBVIOUS
        <3>2. Cardinality(s) = 0
            BY <3>1, <1>0
        <3> QED BY <3>1, <3>2, <1>0
    <2>2. IsIter(g, f, D(0))
        <3> HIDE DEF D
        <3> QED BY <2>1 DEF IsIter
    <2> QED BY <2>2
<1>2. ASSUME NEW n \in Nat, n \in C PROVE n + 1 \in C
    <2>1. PICK g : IsIter(g, f, D(n))
        BY <1>2
    <2> DEFINE h == [s \in D(n + 1) |-> IF s = {} THEN 0
                                        ELSE f[Pick(s)] + g[s \ {Pick(s)}]]
    <2>2. ASSUME NEW s \in D(n + 1), s # {}
          PROVE  h[s \ {Pick(s)}] = g[s \ {Pick(s)}]
        <3> DEFINE t == s \ {Pick(s)}
        <3>1. s \in SUBSET S /\ Cardinality(s) <= n + 1
            OBVIOUS
        <3>2. Pick(s) \in s
            BY <2>2, PickIn
        <3>3. IsFiniteSet(s) /\ Cardinality(s) \in Nat
            BY <3>1, <1>0
        <3>4. Cardinality(t) = Cardinality(s) - 1
            BY <3>2, <3>3, FS_RemoveElement
        <3>5. t \in D(n) /\ t \in D(n + 1)
            BY <3>1, <3>3, <3>4
        <3>6. g[t] = IF t = {} THEN 0 ELSE f[Pick(t)] + g[t \ {Pick(t)}]
            <4> HIDE DEF D, t, h
            <4> QED BY <2>1, <3>5 DEF IsIter
        <3>7. h[t] = IF t = {} THEN 0 ELSE f[Pick(t)] + g[t \ {Pick(t)}]
            <4> HIDE DEF D, t
            <4> QED BY <3>5
        <3> QED BY <3>6, <3>7
    <2>3. h = [s \in D(n + 1) |-> IF s = {} THEN 0
                                  ELSE f[Pick(s)] + h[s \ {Pick(s)}]]
        <3>1. ASSUME NEW s \in D(n + 1)
              PROVE  (IF s = {} THEN 0 ELSE f[Pick(s)] + g[s \ {Pick(s)}])
                       = (IF s = {} THEN 0 ELSE f[Pick(s)] + h[s \ {Pick(s)}])
            <4> HIDE DEF h, D
            <4> QED BY <2>2
        <3>2. h = [s \in D(n + 1) |-> IF s = {} THEN 0
                                        ELSE f[Pick(s)] + g[s \ {Pick(s)}]]
            OBVIOUS
        <3> HIDE DEF h, D
        <3> QED BY <3>1, <3>2
    <2>4. IsIter(h, f, D(n + 1))
        <3> HIDE DEF h, D
        <3> QED BY <2>3 DEF IsIter
    <2>5. \E k : IsIter(k, f, D(n + 1))
        <3> HIDE DEF h, D
        <3> QED BY <2>4
    <2> HIDE DEF D
    <2> QED BY <2>5
<1>3. Cardinality(S) \in C
    <2> HIDE DEF C
    <2> QED BY <1>1, <1>2, <1>0, NatInductionOnSets
<1>4. D(Cardinality(S)) = SUBSET S
    BY <1>0
<1> HIDE DEF D
<1> QED BY <1>3, <1>4

LEMMA SumUnfolds ==
    ASSUME NEW f, NEW S, IsFiniteSet(S)
    PROVE \E g : IsIter(g, f, SUBSET S) /\ SumFunctionOnSet(f, S) = g[S]
BY IterExists, SumIsChosen

\* Any element may be taken out, not only the picked one.
Peels(g, f, S) == \A T \in SUBSET S : \A x \in T : g[T] = f[x] + g[T \ {x}]

Agree(g, h, U) == \A T \in SUBSET U : g[T] = h[T]

Iter(g, f, S) == IsIter(g, f, SUBSET S)

LEMMA IterInt ==
    ASSUME NEW f, NEW S, IsFiniteSet(S), Integral(f, S),
           NEW g, Iter(g, f, S)
    PROVE  \A T \in SUBSET S : g[T] \in Int
<1> DEFINE C == {T \in SUBSET S : g[T] \in Int}
<1>1. ASSUME NEW T \in SUBSET S, \A U \in SUBSET T : U # T => U \in C
      PROVE  T \in C
    <2>1. CASE T = {}
        BY <2>1 DEF Iter, IsIter
    <2>2. CASE T # {}
        <3>1. Pick(T) \in T
            BY <2>2, PickIn
        <3>2. g[T] = f[Pick(T)] + g[T \ {Pick(T)}]
            BY <2>2 DEF Iter, IsIter
        <3>3. g[T \ {Pick(T)}] \in Int
            BY <3>1, <1>1
        <3>4. f[Pick(T)] \in Int
            BY <3>1 DEF Integral
        <3>5. g[T] \in Int
            BY <3>2, <3>3, <3>4
        <3> QED BY <3>5
    <2> QED BY <2>1, <2>2
<1>2. SUBSET S \subseteq C
    <2> HIDE DEF C
    <2> QED BY <1>1, SetInduction
<1> QED BY <1>2

LEMMA IterAny ==
    ASSUME NEW f, NEW S, IsFiniteSet(S), Integral(f, S),
           NEW g, Iter(g, f, S)
    PROVE  Peels(g, f, S)
<1> DEFINE C == {T \in SUBSET S : \A x \in T : g[T] = f[x] + g[T \ {x}]}
<1>1. ASSUME NEW T \in SUBSET S, \A U \in SUBSET T : U # T => U \in C
      PROVE  T \in C
    <2> SUFFICES ASSUME NEW x \in T PROVE g[T] = f[x] + g[T \ {x}]
        OBVIOUS
    <2> DEFINE c == Pick(T)
    <2>1. c \in T
        BY PickIn
    <2>2. g[T] = f[c] + g[T \ {c}]
        BY DEF Iter, IsIter
    <2>3. CASE x = c
        BY <2>2, <2>3
    <2>4. CASE x # c
        <3>1. T \ {c} \in C /\ x \in T \ {c}
            BY <2>1, <2>4, <1>1
        <3>2. T \ {x} \in C /\ c \in T \ {x}
            BY <2>1, <2>4, <1>1
        <3> DEFINE R == T \ {c, x}
        <3>3. (T \ {c}) \ {x} = R /\ (T \ {x}) \ {c} = R
            OBVIOUS
        <3>4. g[T \ {c}] = f[x] + g[R]
            BY <3>1, <3>3
        <3>5. g[T \ {x}] = f[c] + g[R]
            BY <3>2, <3>3
        <3>6. g[R] \in Int /\ f[x] \in Int /\ f[c] \in Int
            BY <2>1, IterInt DEF Integral
        <3> HIDE DEF R, c
        <3> QED BY <2>2, <3>4, <3>5, <3>6
    <2> QED BY <2>3, <2>4
<1>2. SUBSET S \subseteq C
    <2> HIDE DEF C
    <2> QED BY <1>1, SetInduction
<1> QED BY <1>2 DEF Peels

\* The sums of two functions that have the same values.
LEMMA IterAgree ==
    ASSUME NEW f, NEW k, NEW S, IsFiniteSet(S), NEW U \in SUBSET S,
           Same(f, k, U),
           NEW g, Iter(g, f, S), NEW h, Iter(h, k, U)
    PROVE  Agree(g, h, U)
<1> DEFINE C == {T \in SUBSET U : g[T] = h[T]}
<1>0. IsFiniteSet(U)
    BY FS_Subset
<1>1. ASSUME NEW T \in SUBSET U, \A V \in SUBSET T : V # T => V \in C
      PROVE  T \in C
    <2>1. CASE T = {}
        BY <2>1 DEF Iter, IsIter
    <2>2. CASE T # {}
        <3>1. Pick(T) \in T
            BY <2>2, PickIn
        <3>2. g[T] = f[Pick(T)] + g[T \ {Pick(T)}]
            BY <2>2 DEF Iter, IsIter
        <3>3. h[T] = k[Pick(T)] + h[T \ {Pick(T)}]
            BY <2>2 DEF Iter, IsIter
        <3>4. g[T \ {Pick(T)}] = h[T \ {Pick(T)}]
            BY <3>1, <1>1
        <3> QED BY <3>1, <3>2, <3>3, <3>4 DEF Same
    <2> QED BY <2>1, <2>2
<1>2. SUBSET U \subseteq C
    <2> HIDE DEF C
    <2> QED BY <1>0, <1>1, SetInduction
<1> QED BY <1>2 DEF Agree

-----------------------------------------------------------------------------
(* The facts for other modules. *)

LEMMA SumEmpty ==
    ASSUME NEW f
    PROVE  SumFunctionOnSet(f, {}) = 0
<1>1. IsFiniteSet({})
    BY FS_EmptySet
<1>2. PICK g : Iter(g, f, {}) /\ SumFunctionOnSet(f, {}) = g[{}]
    BY <1>1, SumUnfolds DEF Iter
<1>3. {} \in SUBSET {}
    OBVIOUS
<1>4. g[{}] = 0
    BY <1>2, <1>3 DEF Iter, IsIter
<1> QED BY <1>2, <1>4

LEMMA SumInt ==
    ASSUME NEW S, IsFiniteSet(S), NEW f, Integral(f, S)
    PROVE  SumFunctionOnSet(f, S) \in Int
<1>1. PICK g : Iter(g, f, S) /\ SumFunctionOnSet(f, S) = g[S]
    BY SumUnfolds DEF Iter
<1>2. \A T \in SUBSET S : g[T] \in Int
    BY <1>1, IterInt
<1>3. S \in SUBSET S
    OBVIOUS
<1> QED BY <1>1, <1>2, <1>3

LEMMA SumAgree ==
    ASSUME NEW S, IsFiniteSet(S), NEW f, NEW k, Same(f, k, S)
    PROVE  SumFunctionOnSet(f, S) = SumFunctionOnSet(k, S)
<1>1. PICK g : Iter(g, f, S) /\ SumFunctionOnSet(f, S) = g[S]
    BY SumUnfolds DEF Iter
<1>2. PICK h : Iter(h, k, S) /\ SumFunctionOnSet(k, S) = h[S]
    BY SumUnfolds DEF Iter
<1>3. S \in SUBSET S
    OBVIOUS
<1>4. Agree(g, h, S)
    BY <1>1, <1>2, <1>3, IterAgree
<1> QED BY <1>1, <1>2, <1>3, <1>4 DEF Agree

LEMMA SumRemove ==
    ASSUME NEW S, IsFiniteSet(S), NEW f, Integral(f, S), NEW e \in S
    PROVE  SumFunctionOnSet(f, S) = f[e] + SumFunctionOnSet(f, S \ {e})
<1> DEFINE U == S \ {e}
<1>0. U \in SUBSET S /\ IsFiniteSet(U) /\ Same(f, f, U)
    BY FS_Subset DEF Same
<1>1. PICK g : Iter(g, f, S) /\ SumFunctionOnSet(f, S) = g[S]
    BY SumUnfolds DEF Iter
<1>2. PICK h : Iter(h, f, U) /\ SumFunctionOnSet(f, U) = h[U]
    BY <1>0, SumUnfolds DEF Iter
<1>3. Agree(g, h, U)
    <2>1. Iter(g, f, S)
        BY <1>1
    <2>2. Iter(h, f, U)
        BY <1>2
    <2> HIDE DEF U
    <2> QED BY <1>0, <2>1, <2>2, IterAgree
<1>4. Peels(g, f, S)
    BY <1>1, IterAny
<1>5. S \in SUBSET S
    OBVIOUS
<1>6. g[S] = f[e] + g[S \ {e}]
    BY <1>4, <1>5 DEF Peels
<1> QED BY <1>1, <1>2, <1>3, <1>6 DEF Agree

\* A new element adds its value.
LEMMA SumAdd ==
    ASSUME NEW S, IsFiniteSet(S), NEW f, NEW e, e \notin S, Integral(f, S \cup {e})
    PROVE  SumFunctionOnSet(f, S \cup {e}) = f[e] + SumFunctionOnSet(f, S)
<1> DEFINE T == S \cup {e}
<1>1. IsFiniteSet(T)
    BY FS_AddElement
<1>2. e \in T /\ T \ {e} = S
    OBVIOUS
<1> HIDE DEF T
<1>3. SumFunctionOnSet(f, T) = f[e] + SumFunctionOnSet(f, T \ {e})
    BY <1>1, <1>2, SumRemove DEF T
<1> QED BY <1>2, <1>3 DEF T

\* f and k have the same values on S except at e.
Differ(f, k, S, e) == \A x \in S : x # e => f[x] = k[x]

\* A value that changes changes the sum by as much.
LEMMA SumUpdate ==
    ASSUME NEW S, IsFiniteSet(S), NEW f, NEW k, NEW e \in S,
           Integral(f, S), Integral(k, S), Differ(f, k, S, e)
    PROVE  SumFunctionOnSet(k, S) = SumFunctionOnSet(f, S) - f[e] + k[e]
<1> DEFINE U == S \ {e}
           a == SumFunctionOnSet(f, U)
<1>0. IsFiniteSet(U)
    BY FS_Subset
<1>1. Same(f, k, U) /\ Integral(f, U)
    BY DEF Differ, Same, Integral
<1>2. a = SumFunctionOnSet(k, U) /\ a \in Int
    <2> HIDE DEF U
    <2> QED BY <1>0, <1>1, SumAgree, SumInt
<1>3. SumFunctionOnSet(f, S) = f[e] + a
    BY SumRemove
<1>4. SumFunctionOnSet(k, S) = k[e] + a
    BY <1>2, SumRemove
<1>5. f[e] \in Int /\ k[e] \in Int
    BY DEF Integral
<1> HIDE DEF a
<1> QED BY <1>2, <1>3, <1>4, <1>5

\* A sum over 1..n goes on with the next value.
LEMMA SumGrow ==
    ASSUME NEW n \in Nat, NEW f, NEW k, Same(f, k, 1..n), Integral(f, 1..n),
           k[n + 1] \in Int
    PROVE  SumFunctionOnSet(k, 1..(n + 1)) = SumFunctionOnSet(f, 1..n) + k[n + 1]
<1>0. 1 \in Int /\ n \in Int
    OBVIOUS
<1>1. IsFiniteSet(1..n)
    BY <1>0, FS_Interval
<1>2. 1..(n + 1) = 1..n \cup {n + 1} /\ n + 1 \notin 1..n
    OBVIOUS
<1>3. Integral(k, 1..n \cup {n + 1})
    BY DEF Integral, Same
<1>4. SumFunctionOnSet(k, 1..n \cup {n + 1}) = k[n + 1] + SumFunctionOnSet(k, 1..n)
    BY <1>1, <1>2, <1>3, SumAdd
<1>5. SumFunctionOnSet(f, 1..n) = SumFunctionOnSet(k, 1..n)
    BY <1>1, SumAgree
<1>6. SumFunctionOnSet(f, 1..n) \in Int
    BY <1>1, SumInt
<1>7. SumFunctionOnSet(k, 1..(n + 1)) = SumFunctionOnSet(k, 1..n \cup {n + 1})
    BY <1>2, Zenon
<1> DEFINE a == SumFunctionOnSet(f, 1..n)
           b == SumFunctionOnSet(k, 1..(n + 1))
<1>8. b = k[n + 1] + a /\ a \in Int
    BY <1>4, <1>5, <1>6, <1>7
<1> HIDE DEF a, b
<1>9. b = a + k[n + 1]
    BY <1>8
<1> QED BY <1>9 DEF a, b

\* f is zero everywhere on S.
Zero(f, S) == \A x \in S : f[x] = 0

LEMMA SumZero ==
    ASSUME NEW S, IsFiniteSet(S), NEW f, Zero(f, S)
    PROVE  SumFunctionOnSet(f, S) = 0
<1> DEFINE C == {T \in SUBSET S : SumFunctionOnSet(f, T) = 0}
<1>1. ASSUME NEW T \in SUBSET S, \A U \in SUBSET T : U # T => U \in C
      PROVE  T \in C
    <2>1. CASE T = {}
        BY <2>1, SumEmpty
    <2>2. CASE T # {}
        <3>1. PICK e \in T : TRUE
            BY <2>2
        <3>2. IsFiniteSet(T) /\ Integral(f, T)
            BY FS_Subset DEF Integral, Zero
        <3>3. SumFunctionOnSet(f, T) = f[e] + SumFunctionOnSet(f, T \ {e})
            BY <3>2, SumRemove
        <3>4. T \ {e} \in C
            BY <1>1
        <3>5. f[e] = 0 /\ SumFunctionOnSet(f, T \ {e}) = 0
            BY <3>4 DEF Zero
        <3> QED BY <3>3, <3>5
    <2> QED BY <2>1, <2>2
<1>2. SUBSET S \subseteq C
    <2> HIDE DEF C
    <2> QED BY <1>1, SetInduction
<1> QED BY <1>2
=============================================================================
