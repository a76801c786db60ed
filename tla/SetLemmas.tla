------------------------------- MODULE SetLemmas -------------------------------
(***************************************************************************)
(* What the proofs keep needing of numbers and sums.  Induction is stated  *)
(* for sets: a set that holds the first and, with each, the next, holds    *)
(* them all.                                                               *)
(***************************************************************************)
EXTENDS Integers, FiniteSets, FiniteSetsExt, FiniteSetTheorems, TLAPS

\* Every set of numbers that is not empty has a least one.
LEMMA LeastIn ==
    ASSUME NEW S \in SUBSET Nat, S # {}
    PROVE  \E m \in S : \A n \in S : m <= n
<1> DEFINE Below == {0..n : n \in S}
<1>1. \A n \in S : IsFiniteSet(0..n) /\ 0..n \in SUBSET Nat
  BY FS_Interval
<1>2. Below \subseteq FiniteSubsetsOf(Nat) /\ Below # {}
  BY <1>1 DEF FiniteSubsetsOf
<1> HIDE DEF Below
<1>3. PICK x \in Below : \A y \in Below : <<y, x>> \notin StrictSubsetOrdering(Nat)
  BY <1>2, FS_StrictSubsetOrderingWellFounded, WFMin
<1>4. PICK m \in S : x = 0..m
  BY DEF Below
<1>5. ASSUME NEW n \in S, n < m PROVE FALSE
  <2>1. 0..n \in Below
    BY DEF Below
  <2>2. 0..n \subseteq 0..m /\ m \in 0..m /\ m \notin 0..n
    BY <1>5
  <2>3. <<0..n, 0..m>> \in StrictSubsetOrdering(Nat)
    BY <1>1, <2>2 DEF StrictSubsetOrdering
  <2> QED BY <1>3, <1>4, <2>1, <2>3
<1> QED BY <1>5

\* Induction over the numbers.
LEMMA AllOf ==
    ASSUME NEW S, 0 \in S, \A n \in Nat : n \in S => n + 1 \in S
    PROVE  Nat \subseteq S
<1> SUFFICES ASSUME Nat \ S # {} PROVE FALSE
  OBVIOUS
<1>1. PICK m \in Nat \ S : \A n \in Nat \ S : m <= n
  BY LeastIn
<1>2. m # 0 /\ m - 1 \in Nat /\ (m - 1) + 1 = m
  BY <1>1
<1>3. m - 1 \in S
  BY <1>1, <1>2
<1> QED BY <1>1, <1>2, <1>3

\* A bounded set of numbers that is not empty has a greatest one, and Max is it.
LEMMA MaxIn ==
    ASSUME NEW top \in Nat, NEW S \in SUBSET (0..top), S # {}
    PROVE  Max(S) \in S /\ \A n \in S : n <= Max(S)
<1> DEFINE T == {top - n : n \in S}
<1>1. T \in SUBSET Nat /\ T # {}
  <2>1. \A n \in S : top - n \in Nat
    OBVIOUS
  <2>2. PICK n : n \in S
    OBVIOUS
  <2> QED BY <2>1, <2>2
<1>2. PICK m \in T : \A n \in T : m <= n
  BY <1>1, LeastIn
<1>3. PICK x \in S : m = top - x
  BY <1>2
<1>4. \A y \in S : x >= y
  BY <1>2, <1>3
<1>5. Max(S) \in S /\ \A y \in S : Max(S) >= y
  BY <1>4 DEF Max
<1> QED BY <1>5

\* A set of numbers that is not empty has a least one, and Min is it.
LEMMA MinIn ==
    ASSUME NEW S \in SUBSET Nat, S # {}
    PROVE  Min(S) \in S /\ \A n \in S : Min(S) <= n
<1>1. PICK m \in S : \A n \in S : m =< n
  BY LeastIn
<1>2. Min(S) \in S /\ \A n \in S : Min(S) =< n
  BY <1>1 DEF Min
<1> QED BY <1>2

\* Induction over the subsets of a finite set, one element at a time.
LEMMA AllSubsets ==
    ASSUME NEW S, IsFiniteSet(S), NEW F, {} \in F,
           \A T \in SUBSET S : \A x \in S \ T : T \in F => T \cup {x} \in F
    PROVE  SUBSET S \subseteq F
<1> DEFINE N == {n \in Nat : \A T \in SUBSET S : Cardinality(T) = n => T \in F}
<1>0. \A T \in SUBSET S : IsFiniteSet(T) /\ Cardinality(T) \in Nat
  BY FS_Subset, FS_CardinalityType
<1>1. 0 \in N
  BY <1>0, FS_EmptySet
<1>2. ASSUME NEW n \in Nat, n \in N PROVE n + 1 \in N
  <2> SUFFICES ASSUME NEW T \in SUBSET S, Cardinality(T) = n + 1 PROVE T \in F
    OBVIOUS
  <2>1. T # {}
    <3>1. Cardinality({}) = 0 /\ n + 1 # 0
      BY FS_EmptySet
    <3> QED BY <3>1
  <2>2. PICK x : x \in T
    BY <2>1
  <2>3. T \ {x} \in SUBSET S /\ Cardinality(T \ {x}) = n
    <3>1. IsFiniteSet(T)
      BY <1>0
    <3>2. Cardinality(T \ {x}) = Cardinality(T) - 1
      BY <2>2, <3>1, FS_RemoveElement
    <3> QED BY <3>2
  <2>4. T \ {x} \in F
    BY <1>2, <2>3
  <2>5. x \in S \ (T \ {x}) /\ (T \ {x}) \cup {x} = T
    BY <2>2
  <2> QED BY <2>3, <2>4, <2>5
<1> HIDE DEF N
<1>3. Nat \subseteq N
  BY <1>1, <1>2, AllOf
<1> QED BY <1>0, <1>3 DEF N

-----------------------------------------------------------------------------
(* Sums over finite sets.                                                  *)

AnyOf(T) == CHOOSE x \in T : TRUE

\* g gives the sum of f over every set of D.
Sums(f, g, D) == \A T \in D : g[T] = IF T = {} THEN 0 ELSE f[AnyOf(T)] + g[T \ {AnyOf(T)}]

LEMMA Without ==
    ASSUME NEW T, T # {}
    PROVE  AnyOf(T) \in T
BY DEF AnyOf

\* The recursion that a sum is defined by has a solution.
Solution(f, g, S) == g = [T \in SUBSET S |-> IF T = {} THEN 0 ELSE f[AnyOf(T)] + g[T \ {AnyOf(T)}]]

LEMMA SumsExist ==
    ASSUME NEW f, NEW S, IsFiniteSet(S)
    PROVE  \E g : Solution(f, g, S)
<1> DEFINE Up(n) == {T \in SUBSET S : Cardinality(T) <= n}
           Solves(g, n) == g = [T \in Up(n) |-> IF T = {} THEN 0 ELSE f[AnyOf(T)] + g[T \ {AnyOf(T)}]]
           N == {n \in Nat : \E g : Solves(g, n)}
<1>0. \A T \in SUBSET S : IsFiniteSet(T) /\ Cardinality(T) \in Nat
  BY FS_Subset, FS_CardinalityType
<1>00. \A T \in SUBSET S : T # {} => /\ T \ {AnyOf(T)} \in SUBSET S
                                     /\ Cardinality(T \ {AnyOf(T)}) = Cardinality(T) - 1
  BY <1>0, FS_RemoveElement, Without
<1>1. 0 \in N
  <2> DEFINE g == [T \in Up(0) |-> 0]
  <2>1. \A T \in Up(0) : T = {}
    BY <1>0, FS_EmptySet
  <2>2. Solves(g, 0)
    BY <2>1
  <2> QED BY <2>2
<1>2. ASSUME NEW n \in Nat, n \in N PROVE n + 1 \in N
  <2>1. PICK g : Solves(g, n)
    BY <1>2
  <2> DEFINE h == [T \in Up(n + 1) |-> IF T \in Up(n) THEN g[T] ELSE f[AnyOf(T)] + g[T \ {AnyOf(T)}]]
  <2>2. \A T \in Up(n) : g[T] = IF T = {} THEN 0 ELSE f[AnyOf(T)] + g[T \ {AnyOf(T)}]
    BY <2>1
  <2>3. \A T \in Up(n + 1) : T # {} => T \ {AnyOf(T)} \in Up(n)
    BY <1>0, <1>00
  <2>4. \A T \in Up(n) : T \in Up(n + 1)
    BY <1>0
  <2>5. {} \in Up(n)
    BY FS_EmptySet
  <2>6. \A T \in Up(n + 1) : h[T] = IF T \in Up(n) THEN g[T] ELSE f[AnyOf(T)] + g[T \ {AnyOf(T)}]
    OBVIOUS
  <2>7. h = [T \in Up(n + 1) |-> h[T]]
    OBVIOUS
  <2> HIDE DEF h, Up
  <2>8. \A T \in Up(n + 1) : h[T] = IF T = {} THEN 0 ELSE f[AnyOf(T)] + h[T \ {AnyOf(T)}]
    BY <2>2, <2>3, <2>4, <2>5, <2>6
  <2>9. Solves(h, n + 1)
    BY <2>7, <2>8
  <2>10. \E k : Solves(k, n + 1)
    BY <2>9, Zenon
  <2> HIDE DEF Solves
  <2> QED BY <2>10
<1>3. Cardinality(S) \in N
  <2> HIDE DEF N
  <2>1. Nat \subseteq N
    BY <1>1, <1>2, AllOf
  <2> QED BY <1>0, <2>1
<1>4. PICK g : Solves(g, Cardinality(S))
  BY <1>3
<1>5. Up(Cardinality(S)) = SUBSET S
  BY FS_Subset
<1> HIDE DEF Up
<1>6. Solution(f, g, S)
  BY <1>4, <1>5 DEF Solution
<1> QED BY <1>6

LEMMA SumIs ==
    ASSUME NEW f, NEW S, IsFiniteSet(S)
    PROVE  \E g : SumFunctionOnSet(f, S) = g[S] /\ Sums(f, g, SUBSET S)
<1> DEFINE g == CHOOSE h : Solution(f, h, S)
<1>1. Solution(f, g, S)
  BY SumsExist, Zenon
<1>2. SumFunctionOnSet(f, S) = g[S]
  BY DEF SumFunctionOnSet, FoldFunctionOnSet, MapThenFoldSet, AnyOf, Solution
<1> HIDE DEF g
<1>3. Sums(f, g, SUBSET S)
  BY <1>1 DEF Sums, Solution
<1> QED BY <1>2, <1>3

\* Two solutions agree where both are given.
LEMMA SumsAgree ==
    ASSUME NEW f, NEW S, IsFiniteSet(S), NEW g, NEW h, Sums(f, g, SUBSET S), Sums(f, h, SUBSET S)
    PROVE  g[S] = h[S]
<1> DEFINE F == {T \in SUBSET S : g[T] = h[T]}
           N == {n \in Nat : \A T \in SUBSET S : Cardinality(T) = n => g[T] = h[T]}
<1>0. \A T \in SUBSET S : IsFiniteSet(T) /\ Cardinality(T) \in Nat
  BY FS_Subset, FS_CardinalityType
<1>1. 0 \in N
  BY <1>0, FS_EmptySet DEF Sums
<1>2. ASSUME NEW n \in Nat, n \in N PROVE n + 1 \in N
  <2> SUFFICES ASSUME NEW T \in SUBSET S, Cardinality(T) = n + 1 PROVE g[T] = h[T]
    OBVIOUS
  <2>1. T # {}
    <3>1. Cardinality({}) = 0 /\ n + 1 # 0
      BY FS_EmptySet
    <3> QED BY <3>1
  <2>2. PICK U : U = T \ {AnyOf(T)}
    OBVIOUS
  <2>3. U \in SUBSET S /\ Cardinality(U) = n
    <3>1. IsFiniteSet(T) /\ AnyOf(T) \in T
      BY <1>0, <2>1, Without
    <3>2. Cardinality(U) = Cardinality(T) - 1
      BY <2>2, <3>1, FS_RemoveElement
    <3> QED BY <2>2, <3>2
  <2>4. g[U] = h[U]
    BY <1>2, <2>3
  <2>5. g[T] = f[AnyOf(T)] + g[U] /\ h[T] = f[AnyOf(T)] + h[U]
    BY <2>1, <2>2 DEF Sums
  <2> QED BY <2>4, <2>5
<1>3. Cardinality(S) \in N
  <2> HIDE DEF N
  <2>1. Nat \subseteq N
    BY <1>1, <1>2, AllOf
  <2> QED BY <1>0, <2>1
<1> QED BY <1>3

LEMMA SumEmpty ==
    ASSUME NEW f
    PROVE  SumFunctionOnSet(f, {}) = 0
<1>1. PICK g : SumFunctionOnSet(f, {}) = g[{}] /\ Sums(f, g, SUBSET {})
  BY FS_EmptySet, SumIs
<1> QED BY <1>1 DEF Sums

\* A sum is what one element of the set gives, and the sum of the rest.
LEMMA SumAny ==
    ASSUME NEW f, NEW S, IsFiniteSet(S), S # {}
    PROVE  SumFunctionOnSet(f, S) = f[AnyOf(S)] + SumFunctionOnSet(f, S \ {AnyOf(S)})
<1>1. PICK g : SumFunctionOnSet(f, S) = g[S] /\ Sums(f, g, SUBSET S)
  BY SumIs
<1>2. PICK R : R = S \ {AnyOf(S)}
  OBVIOUS
<1>3. IsFiniteSet(R) /\ R \in SUBSET S
  BY <1>2, FS_Subset
<1>4. PICK h : SumFunctionOnSet(f, R) = h[R] /\ Sums(f, h, SUBSET R)
  BY <1>3, SumIs
<1>5. Sums(f, g, SUBSET R)
  BY <1>1, <1>3 DEF Sums
<1>6. g[R] = h[R]
  BY <1>3, <1>4, <1>5, SumsAgree
<1>7. g[S] = f[AnyOf(S)] + g[R]
  BY <1>1, <1>2 DEF Sums
<1> QED BY <1>1, <1>2, <1>4, <1>6, <1>7

\* A sum of whole numbers is one.
LEMMA SumInt ==
    ASSUME NEW S, IsFiniteSet(S), NEW f, \A x \in S : f[x] \in Int
    PROVE  SumFunctionOnSet(f, S) \in Int
<1> DEFINE N == {n \in Nat : \A T \in SUBSET S : Cardinality(T) = n => SumFunctionOnSet(f, T) \in Int}
<1>0. \A T \in SUBSET S : IsFiniteSet(T) /\ Cardinality(T) \in Nat
  BY FS_Subset, FS_CardinalityType
<1>1. 0 \in N
  BY <1>0, FS_EmptySet, SumEmpty
<1>2. ASSUME NEW n \in Nat, n \in N PROVE n + 1 \in N
  <2> SUFFICES ASSUME NEW T \in SUBSET S, Cardinality(T) = n + 1 PROVE SumFunctionOnSet(f, T) \in Int
    OBVIOUS
  <2>1. T # {}
    <3>1. Cardinality({}) = 0 /\ n + 1 # 0
      BY FS_EmptySet
    <3> QED BY <3>1
  <2>2. PICK a \in T : a = AnyOf(T)
    BY <2>1, Without
  <2>3. T \ {a} \in SUBSET S /\ Cardinality(T \ {a}) = n
    BY <1>0, FS_RemoveElement
  <2>4. SumFunctionOnSet(f, T \ {a}) \in Int /\ f[a] \in Int
    BY <1>2, <2>3
  <2>5. SumFunctionOnSet(f, T) = f[a] + SumFunctionOnSet(f, T \ {a})
    BY <1>0, <2>1, <2>2, SumAny
  <2> QED BY <2>4, <2>5
<1>3. Cardinality(S) \in N
  <2> HIDE DEF N
  <2>1. Nat \subseteq N
    BY <1>1, <1>2, AllOf
  <2> QED BY <1>0, <2>1
<1> QED BY <1>3

\* It does not matter which element is first.
LEMMA SumWithout ==
    ASSUME NEW S, IsFiniteSet(S), NEW f, \A x \in S : f[x] \in Int
    PROVE  \A x \in S : SumFunctionOnSet(f, S) = f[x] + SumFunctionOnSet(f, S \ {x})
<1> DEFINE Good(T) == \A x \in T : SumFunctionOnSet(f, T) = f[x] + SumFunctionOnSet(f, T \ {x})
           N == {n \in Nat : \A T \in SUBSET S : Cardinality(T) = n => Good(T)}
<1>0. \A T \in SUBSET S : IsFiniteSet(T) /\ Cardinality(T) \in Nat
  BY FS_Subset, FS_CardinalityType
<1>00. \A T \in SUBSET S : \A x \in T : T \ {x} \in SUBSET S
                                          /\ Cardinality(T \ {x}) = Cardinality(T) - 1
  BY <1>0, FS_RemoveElement
<1>1. 0 \in N
  <2>1. Good({})
    OBVIOUS
  <2> HIDE DEF Good
  <2> QED BY <1>0, <2>1, FS_EmptySet
<1>2. ASSUME NEW n \in Nat, n \in N PROVE n + 1 \in N
  <2> SUFFICES ASSUME NEW T \in SUBSET S, Cardinality(T) = n + 1 PROVE Good(T)
    OBVIOUS
  <2>1. T # {}
    <3>1. Cardinality({}) = 0 /\ n + 1 # 0
      BY FS_EmptySet
    <3> QED BY <3>1
  <2>2. PICK a \in T : a = AnyOf(T)
    BY <2>1, Without
  <2>3. \A x \in T : Good(T \ {x})
    <3>1. \A x \in T : T \ {x} \in SUBSET S /\ Cardinality(T \ {x}) = n
      BY <1>00
    <3> HIDE DEF Good
    <3> QED BY <1>2, <3>1
  <2>4. SumFunctionOnSet(f, T) = f[a] + SumFunctionOnSet(f, T \ {a})
    BY <1>0, <2>1, <2>2, SumAny
  <2>6. ASSUME NEW x \in T, x # a
        PROVE  SumFunctionOnSet(f, T) = f[x] + SumFunctionOnSet(f, T \ {x})
    <3>1. (T \ {a}) \ {x} = (T \ {x}) \ {a} /\ x \in T \ {a} /\ a \in T \ {x}
      BY <2>6
    <3>2. PICK R : R = (T \ {a}) \ {x}
      OBVIOUS
    <3>3. SumFunctionOnSet(f, T \ {a}) = f[x] + SumFunctionOnSet(f, R)
      BY <2>2, <2>3, <3>1, <3>2
    <3>4. SumFunctionOnSet(f, T \ {x}) = f[a] + SumFunctionOnSet(f, R)
      BY <2>3, <3>1, <3>2
    <3>5. SumFunctionOnSet(f, R) \in Int
      <4>1. IsFiniteSet(R) /\ \A y \in R : f[y] \in Int
        BY <1>0, <3>2
      <4> QED BY <4>1, SumInt
    <3>6. f[a] \in Int /\ f[x] \in Int
      BY <2>2
    <3> QED BY <2>4, <3>3, <3>4, <3>5, <3>6
  <2> QED BY <2>2, <2>4, <2>6
<1>3. Cardinality(S) \in N
  <2> HIDE DEF N
  <2>1. Nat \subseteq N
    BY <1>1, <1>2, AllOf
  <2> QED BY <1>0, <2>1
<1> QED BY <1>3

LEMMA SumAdd ==
    ASSUME NEW S, IsFiniteSet(S), NEW x, x \notin S, NEW f, f[x] \in Int, \A y \in S : f[y] \in Int
    PROVE  SumFunctionOnSet(f, S \cup {x}) = SumFunctionOnSet(f, S) + f[x]
<1>1. IsFiniteSet(S \cup {x}) /\ \A y \in S \cup {x} : f[y] \in Int
  BY FS_AddElement
<1>2. (S \cup {x}) \ {x} = S
  OBVIOUS
<1>3. SumFunctionOnSet(f, S) \in Int
  BY SumInt
<1>4. PICK T : T = S \cup {x}
  OBVIOUS
<1>5. SumFunctionOnSet(f, T) = f[x] + SumFunctionOnSet(f, T \ {x})
  BY <1>1, <1>4, SumWithout
<1>6. T \ {x} = S
  BY <1>4
<1>7. \A i, j \in Int : i + j = j + i
  OBVIOUS
<1>8. f[x] + SumFunctionOnSet(f, S) = SumFunctionOnSet(f, S) + f[x]
  BY <1>3, <1>7, Zenon
<1> QED BY <1>4, <1>5, <1>6, <1>8, Zenon

\* Only what is summed matters.
LEMMA SumSame ==
    ASSUME NEW S, IsFiniteSet(S), NEW f, NEW g, \A x \in S : f[x] = g[x] /\ f[x] \in Int
    PROVE  SumFunctionOnSet(f, S) = SumFunctionOnSet(g, S)
<1> DEFINE F == {T \in SUBSET S : SumFunctionOnSet(f, T) = SumFunctionOnSet(g, T)}
<1>1. {} \in F
  BY SumEmpty
<1>2. ASSUME NEW T \in SUBSET S, NEW x \in S \ T, T \in F PROVE T \cup {x} \in F
  <2>1. IsFiniteSet(T)
    BY FS_Subset
  <2>2. /\ SumFunctionOnSet(f, T \cup {x}) = SumFunctionOnSet(f, T) + f[x]
        /\ SumFunctionOnSet(g, T \cup {x}) = SumFunctionOnSet(g, T) + g[x]
    BY <2>1, SumAdd
  <2>3. SumFunctionOnSet(f, T) = SumFunctionOnSet(g, T)
    BY <1>2
  <2>4. SumFunctionOnSet(f, T \cup {x}) = SumFunctionOnSet(g, T \cup {x})
    BY <2>2, <2>3
  <2> QED BY <2>4
<1> HIDE DEF F
<1>3. SUBSET S \subseteq F
  BY <1>1, <1>2, AllSubsets
<1> QED BY <1>3 DEF F

\* More of what is not negative is not less.
LEMMA SumMore ==
    ASSUME NEW S, IsFiniteSet(S), NEW T \in SUBSET S, NEW f, \A x \in S : f[x] \in Nat
    PROVE  /\ SumFunctionOnSet(f, S) \in Nat /\ SumFunctionOnSet(f, T) \in Nat
           /\ SumFunctionOnSet(f, T) <= SumFunctionOnSet(f, S)
<1> DEFINE F == {U \in SUBSET S : /\ SumFunctionOnSet(f, U) \in Nat
                                 /\ SumFunctionOnSet(f, U \cap T) \in Nat
                                 /\ SumFunctionOnSet(f, U \cap T) <= SumFunctionOnSet(f, U)}
<1>1. {} \in F
  <2>1. {} \cap T = {}
    OBVIOUS
  <2> QED BY <2>1, SumEmpty
<1>2. ASSUME NEW U \in SUBSET S, NEW x \in S \ U, U \in F PROVE U \cup {x} \in F
  <2>1. IsFiniteSet(U) /\ IsFiniteSet(U \cap T)
    BY FS_Subset
  <2>2. /\ SumFunctionOnSet(f, U) \in Nat /\ SumFunctionOnSet(f, U \cap T) \in Nat
        /\ SumFunctionOnSet(f, U \cap T) <= SumFunctionOnSet(f, U) /\ f[x] \in Nat
    BY <1>2
  <2>3. SumFunctionOnSet(f, U \cup {x}) = SumFunctionOnSet(f, U) + f[x]
    BY <2>1, SumAdd
  <2>4. CASE x \in T
    <3>1. (U \cup {x}) \cap T = (U \cap T) \cup {x} /\ x \notin U \cap T
      BY <2>4
    <3>2. SumFunctionOnSet(f, (U \cap T) \cup {x}) = SumFunctionOnSet(f, U \cap T) + f[x]
      <4>1. f[x] \in Int /\ \A y \in U \cap T : f[y] \in Int
        OBVIOUS
      <4> QED BY <2>1, <3>1, <4>1, SumAdd
    <3>3. /\ SumFunctionOnSet(f, U \cup {x}) \in Nat
          /\ SumFunctionOnSet(f, (U \cup {x}) \cap T) \in Nat
          /\ SumFunctionOnSet(f, (U \cup {x}) \cap T) <= SumFunctionOnSet(f, U \cup {x})
      BY <2>2, <2>3, <3>1, <3>2
    <3> QED BY <3>3
  <2>5. CASE x \notin T
    <3>1. (U \cup {x}) \cap T = U \cap T
      BY <2>5
    <3>3. /\ SumFunctionOnSet(f, U \cup {x}) \in Nat
          /\ SumFunctionOnSet(f, (U \cup {x}) \cap T) \in Nat
          /\ SumFunctionOnSet(f, (U \cup {x}) \cap T) <= SumFunctionOnSet(f, U \cup {x})
      BY <2>2, <2>3, <3>1
    <3> QED BY <3>3
  <2> QED BY <2>4, <2>5
<1> HIDE DEF F
<1>3. S \in F
  BY <1>1, <1>2, AllSubsets
<1>4. S \cap T = T
  OBVIOUS
<1> QED BY <1>3, <1>4 DEF F
====
