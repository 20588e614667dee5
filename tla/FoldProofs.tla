------------------------------ MODULE FoldProofs -----------------------------
(***************************************************************************)
(* Lemmas about the folds Requests adds up the amounts of an invoice with: *)
(* that the recursive function under a fold exists, what a sum over a set  *)
(* is, and how sums of matched, disjoint and grouped sets relate.  The     *)
(* induction they rest on is over sets of numbers and of sets.             *)
(***************************************************************************)
EXTENDS Integers, FiniteSets, SequencesExt, TLAPS, FiniteSetTheorems

\* Induction over the naturals, for a set of them; by a count: were n left out,
\* the numbers left out up to n would be as many as those of them above 0.
LEMMA NatInd ==
  ASSUME NEW S \in SUBSET Nat, 0 \in S, \A k \in S : k + 1 \in S
  PROVE  S = Nat
<1> SUFFICES ASSUME NEW n \in Nat, n \notin S PROVE FALSE
  OBVIOUS
<1> DEFINE U == {k \in 1..n : k \notin S}
           V == {k \in 0..n : k + 1 \in U}
<1>1. U \in SUBSET (1..n) /\ V \in SUBSET U /\ n \in U /\ n \notin V
  OBVIOUS
<1>2. IsFiniteSet(U)
  <2>1. IsFiniteSet(1..n)
    BY FS_Interval
  <2> HIDE DEF U
  <2> QED
    BY <1>1, <2>1, FS_Subset
<1> DEFINE f == [k \in U |-> k - 1]
<1>3. \A k \in U : k - 1 \in V
  OBVIOUS
<1>4. f \in Injection(U, V)
  BY <1>3 DEF Injection, IsInjective
<1>5. IsFiniteSet(V) /\ Cardinality(V) <= Cardinality(U)
  BY <1>1, <1>2, FS_Subset
<1> HIDE DEF U, V, f
<1>6. Cardinality(U) <= Cardinality(V)
  BY <1>4, <1>5, FS_Injection
<1>7. Cardinality(U) \in Nat /\ Cardinality(V) \in Nat
  BY <1>2, <1>5, FS_CardinalityType
<1>8. Cardinality(U) = Cardinality(V)
  BY <1>5, <1>6, <1>7
<1>9. U = V
  BY <1>1, <1>2, <1>8, FS_Subset
<1> QED
  BY <1>1, <1>9

\* Induction over the subsets of a finite set: a set is reached from those
\* with one element less.
LEMMA SubsetInd ==
  ASSUME NEW S, IsFiniteSet(S), NEW P \in SUBSET SUBSET S, {} \in P,
         \A T \in SUBSET S : T # {} /\ (\A x \in T : T \ {x} \in P) => T \in P
  PROVE  P = SUBSET S
<1> DEFINE N == {n \in Nat : \A T \in SUBSET S : Cardinality(T) = n => T \in P}
<1>1. \A T \in SUBSET S : IsFiniteSet(T) /\ Cardinality(T) \in Nat
  BY FS_Subset, FS_CardinalityType
<1>2. 0 \in N
  <2>1. \A T \in SUBSET S : Cardinality(T) = 0 => T = {}
    BY <1>1, FS_EmptySet
  <2> QED
    BY <2>1
<1>3. ASSUME NEW n \in N PROVE n + 1 \in N
  <2>1. ASSUME NEW T \in SUBSET S, Cardinality(T) = n + 1 PROVE T \in P
    <3>0. n \in Nat
      OBVIOUS
    <3>1. T # {}
      <4>1. n + 1 # 0 /\ Cardinality({}) = 0
        BY <3>0, FS_EmptySet
      <4> QED
        BY <2>1, <4>1
    <3>2. ASSUME NEW x \in T PROVE T \ {x} \in P
      <4>1. Cardinality(T \ {x}) = Cardinality(T) - 1
        BY <1>1, FS_RemoveElement
      <4>2. Cardinality(T \ {x}) = n
        BY <2>1, <3>0, <4>1
      <4> QED
        BY <4>2
    <3> QED
      BY <3>1, <3>2
  <2>2. n + 1 \in Nat
    OBVIOUS
  <2> QED
    BY <2>1, <2>2
<1>4. N = Nat
  <2>1. N \in SUBSET Nat
    OBVIOUS
  <2> HIDE DEF N
  <2> QED
    BY <1>2, <1>3, <2>1, NatInd
<1> SUFFICES ASSUME NEW T \in SUBSET S PROVE T \in P
  OBVIOUS
<1>5. Cardinality(T) \in N
  <2> HIDE DEF N
  <2> QED
    BY <1>1, <1>4
<1> QED
  BY <1>5

-----------------------------------------------------------------------------
\* A fold of S that takes the element ch[T] from a set T and applies h to it.
FoldStep(S, ch, V, base, h) ==
  /\ IsFiniteSet(S) /\ base \in V
  /\ \A T \in SUBSET S : T # {} => ch[T] \in T
  /\ \A x \in S : \A v \in V : h[x][v] \in V

\* g is that fold, for every subset of S.
IsFold(g, S, ch, V, base, h) ==
  /\ g \in [SUBSET S -> V]
  /\ \A T \in SUBSET S :
       g[T] = IF T = {} THEN base ELSE h[ch[T]][g[T \ {ch[T]}]]

\* It exists, by induction on the size of the subsets it is defined for.
LEMMA FoldExists ==
  ASSUME NEW S, NEW ch, NEW V, NEW base, NEW h, FoldStep(S, ch, V, base, h)
  PROVE  \E g : IsFold(g, S, ch, V, base, h)
<1>00. /\ IsFiniteSet(S) /\ base \in V
       /\ \A T \in SUBSET S : T # {} => ch[T] \in T
       /\ \A x \in S : \A v \in V : h[x][v] \in V
  BY DEF FoldStep
<1> DEFINE Upto(n) == {T \in SUBSET S : Cardinality(T) <= n}
           Q == {n \in Nat : \E g \in [Upto(n) -> V] : \A T \in Upto(n) :
             g[T] = IF T = {} THEN base ELSE h[ch[T]][g[T \ {ch[T]}]]}
<1>0. /\ \A n \in Q : n \in Nat
      /\ \A n, T : T \in Upto(n) <=> T \in SUBSET S /\ Cardinality(T) <= n
      /\ Q \in SUBSET Nat
  OBVIOUS
<1> HIDE DEF Upto, Q
<1>1. \A T \in SUBSET S : IsFiniteSet(T) /\ Cardinality(T) \in Nat
  BY <1>00, FS_Subset, FS_CardinalityType
<1>2. \A T \in SUBSET S : T # {} => Cardinality(T \ {ch[T]}) = Cardinality(T) - 1 /\ Cardinality(T) > 0
  <2> TAKE T \in SUBSET S
  <2>0. IsFiniteSet(T) /\ Cardinality(T) \in Nat
    BY <1>1
  <2>1. Cardinality(T) = 0 <=> T = {}
    BY <2>0, FS_EmptySet
  <2>2. \A x \in T : Cardinality(T \ {x}) = Cardinality(T) - 1
    BY <2>0, FS_RemoveElement
  <2> QED
    BY <1>00, <2>0, <2>1, <2>2
<1>3. 0 \in Q
  <2>1. \A T \in Upto(0) : T = {}
    <3> SUFFICES ASSUME NEW T \in Upto(0), T # {} PROVE FALSE
      OBVIOUS
    <3>1. T \in SUBSET S /\ Cardinality(T) <= 0
      BY <1>0
    <3>2. Cardinality(T) \in Nat /\ Cardinality(T) > 0
      BY <1>1, <1>2, <3>1
    <3> QED
      BY <3>1, <3>2
  <2> DEFINE g == [T \in Upto(0) |-> base]
  <2>2. g \in [Upto(0) -> V] /\ \A T \in Upto(0) : g[T] = base
    BY <1>00
  <2> HIDE DEF g
  <2> QED
    BY <1>00, <2>1, <2>2 DEF Q
<1>4. ASSUME NEW n \in Q PROVE n + 1 \in Q
  <2>1. PICK g \in [Upto(n) -> V] : \A T \in Upto(n) :
             g[T] = IF T = {} THEN base ELSE h[ch[T]][g[T \ {ch[T]}]]
    BY DEF Q
  <2> DEFINE k == [T \in Upto(n + 1) |->
                     IF T \in Upto(n) THEN g[T] ELSE h[ch[T]][g[T \ {ch[T]}]]]
  <2>n. n \in Nat
    BY <1>0
  <2>2. \A T \in Upto(n + 1) : T # {} => T \ {ch[T]} \in Upto(n) /\ ch[T] \in S
    <3> SUFFICES ASSUME NEW T \in SUBSET S, Cardinality(T) <= n + 1, T # {}
                 PROVE  T \ {ch[T]} \in Upto(n) /\ ch[T] \in S
      BY <1>0
    <3>1. Cardinality(T) \in Nat /\ Cardinality(T \ {ch[T]}) <= n
      BY <1>1, <1>2, <2>n
    <3>2. ch[T] \in T /\ T \ {ch[T]} \in SUBSET S
      BY <1>00
    <3> QED
      BY <3>1, <3>2, <1>0
  <2>3. \A T \in Upto(n) : T \in Upto(n + 1)
    <3>1. \A T \in SUBSET S : Cardinality(T) <= n => Cardinality(T) <= n + 1
      BY <1>1, <2>n
    <3> QED
      BY <3>1, <1>0
  <2>4. {} \in Upto(n)
    <3>1. {} \in SUBSET S /\ Cardinality({}) <= n
      BY FS_EmptySet, <2>n
    <3> QED
      BY <3>1, <1>0
  <2>5. \A T \in Upto(n + 1) : k[T] = IF T \in Upto(n) THEN g[T] ELSE h[ch[T]][g[T \ {ch[T]}]]
    OBVIOUS
  <2>6. k \in [Upto(n + 1) -> V]
    BY <1>00, <2>1, <2>2, <2>4
  <2>7. \A T \in Upto(n + 1) : T # {} => k[T \ {ch[T]}] = g[T \ {ch[T]}]
    BY <2>2, <2>3, <2>5
  <2> HIDE DEF k
  <2>8. \A T \in Upto(n + 1) : k[T] = IF T = {} THEN base ELSE h[ch[T]][k[T \ {ch[T]}]]
    BY <2>1, <2>4, <2>5, <2>7
  <2>9. n + 1 \in Nat
    BY <2>n
  <2> QED
    BY <2>6, <2>8, <2>9 DEF Q
<1>5. Q = Nat
  <2> QED
    BY <1>0, <1>3, <1>4, NatInd
<1>6. Upto(Cardinality(S)) = SUBSET S /\ Cardinality(S) \in Q
  BY <1>0, <1>00, <1>1, <1>5, FS_Subset
<1> QED
  BY <1>6 DEF Q, IsFold

-----------------------------------------------------------------------------
\* What a sum unfolds to.
SumStep(f, S, g) ==
  [T \in SUBSET S |-> IF T = {} THEN 0
     ELSE f[CHOOSE x \in T : TRUE] + g[T \ {CHOOSE x \in T : TRUE}]]

\* A sum by its equation.
LEMMA SumDef ==
  ASSUME NEW f, NEW S
  PROVE  SumFunctionOnSet(f, S) = (CHOOSE g : g = SumStep(f, S, g))[S]
BY DEF SumFunctionOnSet, FoldFunctionOnSet, MapThenFoldSet, SumStep

\* The equation of a sum over a finite set has a solution.
LEMMA SumIsFold ==
  ASSUME NEW S, IsFiniteSet(S), NEW f, \A x \in S : f[x] \in Int
  PROVE  \E g : g = SumStep(f, S, g)
<1> DEFINE ch == [T \in SUBSET S |-> CHOOSE x \in T : TRUE]
           h == [x \in S |-> [v \in Int |-> f[x] + v]]
<1>0. \A T \in SUBSET S : T # {} => (CHOOSE x \in T : TRUE) \in T
  <2> TAKE T \in SUBSET S
  <2> HAVE T # {}
  <2>1. PICK x : x \in T
    OBVIOUS
  <2> QED
    BY <2>1
<1>1. \A T \in SUBSET S : T # {} => ch[T] \in T
  BY <1>0
<1>2. \A x \in S : \A v \in Int : h[x][v] = f[x] + v
  OBVIOUS
<1>2b. \A x \in S : \A v \in Int : h[x][v] \in Int
  BY <1>2
<1>2a. \A T \in SUBSET S : ch[T] = CHOOSE x \in T : TRUE
  OBVIOUS
<1> HIDE DEF h, ch
<1>3. PICK g \in [SUBSET S -> Int] :
        \A T \in SUBSET S : g[T] = IF T = {} THEN 0 ELSE h[ch[T]][g[T \ {ch[T]}]]
  <2>1. IsFiniteSet(S) /\ 0 \in Int
    OBVIOUS
  <2>2. FoldStep(S, ch, Int, 0, h)
    BY <1>1, <1>2b, <2>1 DEF FoldStep
  <2>3. PICK g : IsFold(g, S, ch, Int, 0, h)
    BY <2>2, FoldExists
  <2> QED
    BY <2>3 DEF IsFold
<1>4. \A T \in SUBSET S : T # {} => g[T] = f[CHOOSE x \in T : TRUE] + g[T \ {CHOOSE x \in T : TRUE}]
  <2> TAKE T \in SUBSET S
  <2> HAVE T # {}
  <2>1. ch[T] \in S /\ T \ {ch[T]} \in SUBSET S /\ g[T \ {ch[T]}] \in Int
    BY <1>1
  <2>2. g[T] = f[ch[T]] + g[T \ {ch[T]}]
    BY <1>2, <1>3, <2>1
  <2> QED
    BY <1>2a, <2>2
<1>5. g = SumStep(f, S, g)
  BY <1>3, <1>4 DEF SumStep
<1> QED
  BY <1>5

\* The element a sum takes from T.
Chosen(T) == CHOOSE x \in T : TRUE

\* It is an element of T.
LEMMA ChosenIn == ASSUME NEW T, T # {} PROVE Chosen(T) \in T
BY DEF Chosen

\* The solutions of the equation.
SumRule(f, S) ==
  {g \in [SUBSET S -> Int] :
     \A T \in SUBSET S :
       g[T] = IF T = {} THEN 0 ELSE f[Chosen(T)] + g[T \ {Chosen(T)}]}

\* A sum over a finite set is given by a solution.
LEMMA SumRuled ==
  ASSUME NEW S, IsFiniteSet(S), NEW f, \A x \in S : f[x] \in Int
  PROVE  \E g \in SumRule(f, S) : SumFunctionOnSet(f, S) = g[S]
<1> DEFINE I(g) == SumStep(f, S, g)
           c == CHOOSE k : k = I(k)
<1>1. PICK g0 : g0 = I(g0)
  BY SumIsFold
<1>2. c = I(c)
  <2> HIDE DEF I
  <2> QED
    BY <1>1
<1>3. SumFunctionOnSet(f, S) = c[S]
  BY SumDef
<1> HIDE DEF c
<1>4. \A T \in SUBSET S : c[T] = IF T = {} THEN 0 ELSE f[Chosen(T)] + c[T \ {Chosen(T)}]
  <2> TAKE T \in SUBSET S
  <2>1. c[T] = I(c)[T]
    BY <1>2
  <2> QED
    BY <2>1 DEF Chosen, SumStep
<1>5. \A T \in SUBSET S : c[T] \in Int
  <2> DEFINE P == {T \in SUBSET S : c[T] \in Int}
  <2>1. P \in SUBSET SUBSET S /\ {} \in P
    <3>1. {} \in SUBSET S /\ c[{}] = 0
      BY <1>4
    <3> QED
      BY <3>1
  <2>2. \A T \in SUBSET S : T # {} /\ (\A x \in T : T \ {x} \in P) => T \in P
    <3> TAKE T \in SUBSET S
    <3> HAVE T # {} /\ (\A x \in T : T \ {x} \in P)
    <3>1. Chosen(T) \in T /\ Chosen(T) \in S
      BY ChosenIn
    <3>2. c[T \ {Chosen(T)}] \in Int /\ f[Chosen(T)] \in Int
      BY <3>1
    <3>3. c[T] = f[Chosen(T)] + c[T \ {Chosen(T)}]
      BY <1>4
    <3> QED
      BY <3>2, <3>3
  <2>3. P = SUBSET S
    <3> HIDE DEF P
    <3> QED
      BY <2>1, <2>2, SubsetInd
  <2> QED
    BY <2>3
<1>6. c \in [SUBSET S -> Int]
  <2>1. c = [T \in SUBSET S |-> c[T]]
    <3>1. c = I(c) /\ DOMAIN I(c) = SUBSET S /\ I(c) = [T \in SUBSET S |-> I(c)[T]]
      BY <1>2 DEF SumStep
    <3> HIDE DEF I
    <3> QED
      BY <3>1
  <2> QED
    BY <1>5, <2>1
<1> QED
  BY <1>3, <1>4, <1>6 DEF SumRule

\* The order in which a solution takes the elements does not matter.
LEMMA AnyOrder ==
  ASSUME NEW S, IsFiniteSet(S), NEW f, \A x \in S : f[x] \in Int, NEW g \in SumRule(f, S)
  PROVE  \A T \in SUBSET S : \A x \in T : g[T] = f[x] + g[T \ {x}]
<1> DEFINE P == {T \in SUBSET S : \A x \in T : g[T] = f[x] + g[T \ {x}]}
<1>0. /\ g \in [SUBSET S -> Int]
      /\ \A T \in SUBSET S : T # {} => g[T] = f[Chosen(T)] + g[T \ {Chosen(T)}]
  BY DEF SumRule
<1>1. P \in SUBSET SUBSET S /\ {} \in P
  OBVIOUS
<1>2. \A T \in SUBSET S : T # {} /\ (\A x \in T : T \ {x} \in P) => T \in P
  <2> TAKE T \in SUBSET S
  <2> HAVE T # {} /\ (\A x \in T : T \ {x} \in P)
  <2> DEFINE c == Chosen(T)
  <2>1. c \in T /\ g[T] = f[c] + g[T \ {c}]
    BY <1>0, ChosenIn
  <2> HIDE DEF c
  <2>2. ASSUME NEW x \in T, x # c PROVE g[T] = f[x] + g[T \ {x}]
    <3>1. x \in T \ {c} /\ c \in T \ {x} /\ (T \ {c}) \ {x} = (T \ {x}) \ {c}
      BY <2>1, <2>2
    <3>2. g[T \ {c}] = f[x] + g[(T \ {c}) \ {x}]
      BY <2>1, <3>1
    <3>3. g[T \ {x}] = f[c] + g[(T \ {x}) \ {c}]
      BY <3>1
    <3>4. f[x] \in Int /\ f[c] \in Int /\ g[(T \ {x}) \ {c}] \in Int
      BY <1>0, <2>1
    <3> DEFINE A == (T \ {x}) \ {c}
    <3>5. g[T] = f[c] + g[T \ {c}] /\ g[T \ {c}] = f[x] + g[A] /\ g[T \ {x}] = f[c] + g[A]
      BY <2>1, <3>1, <3>2, <3>3
    <3> QED
      BY <3>4, <3>5
  <2> QED
    BY <2>1, <2>2
<1>3. P = SUBSET S
  <2> HIDE DEF P
  <2> QED
    BY <1>1, <1>2, SubsetInd
<1> QED
  BY <1>3

\* The solutions for a set and for a part of it agree on the part.
LEMMA OneSolution ==
  ASSUME NEW S, IsFiniteSet(S), NEW f, \A x \in S : f[x] \in Int,
         NEW g \in SumRule(f, S), NEW T \in SUBSET S, NEW k \in SumRule(f, T)
  PROVE  k[T] = g[T]
<1> DEFINE P == {U \in SUBSET T : k[U] = g[U]}
<1>0. /\ \A U \in SUBSET T : k[U] = IF U = {} THEN 0 ELSE f[Chosen(U)] + k[U \ {Chosen(U)}]
      /\ \A U \in SUBSET S : g[U] = IF U = {} THEN 0 ELSE f[Chosen(U)] + g[U \ {Chosen(U)}]
  BY DEF SumRule
<1>1. P \in SUBSET SUBSET T /\ {} \in P
  <2>1. {} \in SUBSET T /\ {} \in SUBSET S /\ k[{}] = 0 /\ g[{}] = 0
    BY <1>0
  <2> QED
    BY <2>1
<1>2. \A U \in SUBSET T : U # {} /\ (\A x \in U : U \ {x} \in P) => U \in P
  <2> TAKE U \in SUBSET T
  <2> HAVE U # {} /\ (\A x \in U : U \ {x} \in P)
  <2>1. Chosen(U) \in U
    BY ChosenIn
  <2>2. k[U \ {Chosen(U)}] = g[U \ {Chosen(U)}]
    BY <2>1
  <2>3. U \in SUBSET S
    OBVIOUS
  <2>4. k[U] = f[Chosen(U)] + k[U \ {Chosen(U)}] /\ g[U] = f[Chosen(U)] + g[U \ {Chosen(U)}]
    BY <1>0, <2>3
  <2> QED
    BY <2>2, <2>4
<1>3. IsFiniteSet(T)
  BY FS_Subset
<1>4. P = SUBSET T
  <2> HIDE DEF P
  <2> QED
    BY <1>1, <1>2, <1>3, SubsetInd
<1>5. T \in P
  <2> HIDE DEF P
  <2> QED
    BY <1>4
<1> QED
  BY <1>5

\* The sums over the subsets of a finite set, whatever element is taken first.
LEMMA Sums ==
  ASSUME NEW S, IsFiniteSet(S), NEW f, \A x \in S : f[x] \in Int
  PROVE  /\ SumFunctionOnSet(f, {}) = 0
         /\ \A T \in SUBSET S :
              /\ SumFunctionOnSet(f, T) \in Int
              /\ \A x \in T : SumFunctionOnSet(f, T) = f[x] + SumFunctionOnSet(f, T \ {x})
<1>1. PICK g \in SumRule(f, S) : TRUE
  BY SumRuled
<1>2. ASSUME NEW T \in SUBSET S PROVE SumFunctionOnSet(f, T) = g[T]
  <2>1. IsFiniteSet(T) /\ \A x \in T : f[x] \in Int
    BY FS_Subset
  <2>2. PICK k \in SumRule(f, T) : SumFunctionOnSet(f, T) = k[T]
    BY <2>1, SumRuled
  <2> QED
    BY <2>2, OneSolution
<1>3. g \in [SUBSET S -> Int] /\ g[{}] = 0
  <2>1. {} \in SUBSET S
    OBVIOUS
  <2> QED
    BY <2>1 DEF SumRule
<1>4. SumFunctionOnSet(f, {}) = 0
  BY <1>2, <1>3
<1>5. ASSUME NEW T \in SUBSET S, NEW x \in T
      PROVE  SumFunctionOnSet(f, T) = f[x] + SumFunctionOnSet(f, T \ {x})
  <2>1. T \ {x} \in SUBSET S
    OBVIOUS
  <2>2. g[T] = f[x] + g[T \ {x}]
    BY AnyOrder
  <2> QED
    BY <1>2, <2>1, <2>2
<1> QED
  BY <1>2, <1>3, <1>4, <1>5

\* The positions T is matched with.
Matched(b, T) == {b[x] : x \in T}

\* The members of S whose group is in E.
Grouped(S, c, E) == {x \in S : c[x] \in E}

\* S is matched by b with a part of R where g is as f is on S.
Matching(S, f, R, g, b) ==
  /\ IsFiniteSet(S) /\ IsFiniteSet(R)
  /\ \A x \in S : f[x] \in Int
  /\ \A y \in R : g[y] \in Int
  /\ b \in [S -> R] /\ \A x, y \in S : b[x] = b[y] => x = y
  /\ \A x \in S : f[x] = g[b[x]]

\* S is divided by c into groups, numbered in D, and s holds their sums.
Grouping(S, f, D, c, s) ==
  /\ IsFiniteSet(S) /\ IsFiniteSet(D)
  /\ \A x \in S : f[x] \in Int
  /\ \A p \in D : s[p] = SumFunctionOnSet(f, Grouped(S, c, {p}))

\* A set has the sum of what it is matched with.
LEMMA SumMatched ==
  ASSUME NEW S, NEW f, NEW R, NEW g, NEW b, Matching(S, f, R, g, b)
  PROVE  \A T \in SUBSET S : SumFunctionOnSet(f, T) = SumFunctionOnSet(g, Matched(b, T))
<1>0. /\ IsFiniteSet(S) /\ IsFiniteSet(R)
      /\ \A x \in S : f[x] \in Int
      /\ \A y \in R : g[y] \in Int
      /\ b \in [S -> R] /\ \A x, y \in S : b[x] = b[y] => x = y
      /\ \A x \in S : f[x] = g[b[x]]
  BY DEF Matching
<1> DEFINE B(T) == Matched(b, T)
           P == {T \in SUBSET S : SumFunctionOnSet(f, T) = SumFunctionOnSet(g, B(T))}
<1>1. P \in SUBSET SUBSET S /\ {} \in P
  <2>1. B({}) = {}
    BY DEF Matched
  <2>2. SumFunctionOnSet(f, {}) = 0 /\ SumFunctionOnSet(g, {}) = 0
    BY <1>0, Sums
  <2> QED
    BY <2>1, <2>2
<1>2. \A T \in SUBSET S : T # {} /\ (\A x \in T : T \ {x} \in P) => T \in P
  <2> TAKE T \in SUBSET S
  <2> HAVE T # {} /\ (\A x \in T : T \ {x} \in P)
  <2>1. PICK x : x \in T
    OBVIOUS
  <2>2. B(T) \in SUBSET R /\ b[x] \in B(T) /\ B(T \ {x}) = B(T) \ {b[x]}
    BY <1>0, <2>1 DEF Matched
  <2>3. SumFunctionOnSet(f, T \ {x}) = SumFunctionOnSet(g, B(T \ {x}))
    BY <2>1
  <2>4. f[x] = g[b[x]] /\ x \in S
    BY <1>0, <2>1
  <2> HIDE DEF P, B
  <2>5. SumFunctionOnSet(f, T) = f[x] + SumFunctionOnSet(f, T \ {x})
    <3>1. IsFiniteSet(S) /\ \A y \in S : f[y] \in Int
      BY <1>0
    <3> QED
      BY <2>1, <3>1, Sums
  <2>6. SumFunctionOnSet(g, B(T)) = g[b[x]] + SumFunctionOnSet(g, B(T) \ {b[x]})
    BY <1>0, <2>2, Sums
  <2>7. SumFunctionOnSet(f, T) = SumFunctionOnSet(g, B(T))
    BY <2>2, <2>3, <2>4, <2>5, <2>6
  <2> QED
    BY <2>7 DEF P
<1>3. P = SUBSET S
  <2> HIDE DEF P
  <2> QED
    BY <1>0, <1>1, <1>2, SubsetInd
<1> QED
  BY <1>3

\* The sum of two sets without a common element.
LEMMA SumDisjoint ==
  ASSUME NEW S, IsFiniteSet(S), NEW f, \A x \in S : f[x] \in Int,
         NEW A \in SUBSET S
  PROVE  \A T \in SUBSET S : T \cap A = {} =>
           SumFunctionOnSet(f, T \cup A) = SumFunctionOnSet(f, T) + SumFunctionOnSet(f, A)
<1> DEFINE P == {T \in SUBSET S : T \cap A = {} =>
                   SumFunctionOnSet(f, T \cup A) = SumFunctionOnSet(f, T) + SumFunctionOnSet(f, A)}
<1>1. P \in SUBSET SUBSET S /\ {} \in P
  <2>1. SumFunctionOnSet(f, {}) = 0 /\ SumFunctionOnSet(f, A) \in Int /\ {} \cup A = A
    BY Sums
  <2> QED
    BY <2>1
<1>2. \A T \in SUBSET S : T # {} /\ (\A x \in T : T \ {x} \in P) => T \in P
  <2> TAKE T \in SUBSET S
  <2> HAVE T # {} /\ (\A x \in T : T \ {x} \in P)
  <2> SUFFICES ASSUME T \cap A = {}
               PROVE  SumFunctionOnSet(f, T \cup A) = SumFunctionOnSet(f, T) + SumFunctionOnSet(f, A)
    OBVIOUS
  <2>1. PICK x : x \in T
    OBVIOUS
  <2>2. (T \ {x}) \cap A = {} /\ T \cup A \in SUBSET S /\ T \ {x} \in SUBSET S
          /\ (T \cup A) \ {x} = (T \ {x}) \cup A /\ x \in T \cup A
    BY <2>1
  <2>3. SumFunctionOnSet(f, (T \ {x}) \cup A)
          = SumFunctionOnSet(f, T \ {x}) + SumFunctionOnSet(f, A)
    BY <2>1, <2>2
  <2> HIDE DEF P
  <2>4. SumFunctionOnSet(f, T) = f[x] + SumFunctionOnSet(f, T \ {x})
    BY <2>1, Sums
  <2>5. SumFunctionOnSet(f, T \cup A) = f[x] + SumFunctionOnSet(f, (T \cup A) \ {x})
    BY <2>2, Sums
  <2>6. f[x] \in Int /\ SumFunctionOnSet(f, T \ {x}) \in Int /\ SumFunctionOnSet(f, A) \in Int
    BY <2>1, <2>2, Sums
  <2> DEFINE v == SumFunctionOnSet(f, T \ {x})
  <2>7. /\ SumFunctionOnSet(f, T \cup A) = f[x] + (v + SumFunctionOnSet(f, A))
        /\ SumFunctionOnSet(f, T) = f[x] + v
    BY <2>2, <2>3, <2>4, <2>5
  <2> QED
    BY <2>6, <2>7
<1>3. P = SUBSET S
  <2> HIDE DEF P
  <2> QED
    BY <1>1, <1>2, SubsetInd
<1> QED
  BY <1>3

\* The sums of the groups a set is divided into add up to its sum.
LEMMA SumGroups ==
  ASSUME NEW S, NEW f, NEW D, NEW c, NEW s, Grouping(S, f, D, c, s)
  PROVE  \A E \in SUBSET D : SumFunctionOnSet(s, E) = SumFunctionOnSet(f, Grouped(S, c, E))
<1>00. /\ IsFiniteSet(S) /\ IsFiniteSet(D)
       /\ \A x \in S : f[x] \in Int
       /\ \A p \in D : s[p] = SumFunctionOnSet(f, Grouped(S, c, {p}))
  BY DEF Grouping
<1> DEFINE C(E) == Grouped(S, c, E)
           P == {E \in SUBSET D : SumFunctionOnSet(s, E) = SumFunctionOnSet(f, C(E))}
<1>0. \A p \in D : s[p] \in Int
  <2> TAKE p \in D
  <2> DEFINE T == C({p})
  <2>1. T \in SUBSET S
    BY DEF Grouped
  <2>2. s[p] = SumFunctionOnSet(f, T)
    BY <1>00
  <2> HIDE DEF T
  <2>3. SumFunctionOnSet(f, T) \in Int
    BY <2>1, <1>00, Sums
  <2> QED
    BY <2>2, <2>3
<1>1. P \in SUBSET SUBSET D /\ {} \in P
  <2>1. C({}) = {}
    BY DEF Grouped
  <2>2. SumFunctionOnSet(f, {}) = 0
    BY <1>00, Sums
  <2>3. SumFunctionOnSet(s, {}) = 0
    BY <1>0, <1>00, Sums
  <2> QED
    BY <2>1, <2>2, <2>3
<1>2. \A E \in SUBSET D : E # {} /\ (\A p \in E : E \ {p} \in P) => E \in P
  <2> TAKE E \in SUBSET D
  <2> HAVE E # {} /\ (\A p \in E : E \ {p} \in P)
  <2>1. PICK p : p \in E
    OBVIOUS
  <2>2. SumFunctionOnSet(s, E \ {p}) = SumFunctionOnSet(f, C(E \ {p}))
    BY <2>1
  <2> DEFINE T == C({p})
             R == C(E \ {p})
  <2>3. C(E) = T \cup R /\ T \cap R = {} /\ T \in SUBSET S /\ R \in SUBSET S
    BY <2>1 DEF Grouped
  <2>4. s[p] = SumFunctionOnSet(f, T)
    BY <1>00, <2>1
  <2> HIDE DEF P, C, T, R
  <2>5. SumFunctionOnSet(s, E) = s[p] + SumFunctionOnSet(s, E \ {p})
    BY <1>0, <2>1, <1>00, Sums
  <2>6. SumFunctionOnSet(f, T \cup R) = SumFunctionOnSet(f, T) + SumFunctionOnSet(f, R)
    BY <2>3, <1>00, SumDisjoint
  <2>7. SumFunctionOnSet(s, E) = SumFunctionOnSet(f, C(E))
    BY <2>2, <2>3, <2>4, <2>5, <2>6 DEF R
  <2> QED
    BY <2>7 DEF P
<1>3. P = SUBSET D
  <2> HIDE DEF P
  <2> QED
    BY <1>1, <1>2, <1>00, SubsetInd
<1> QED
  BY <1>3

\* A set of positions has a last one.
LEMMA LastPosition ==
  ASSUME NEW n \in Nat, NEW T \in SUBSET (1..n), T # {}
  PROVE  Max(T) \in T /\ \A k \in T : k <= Max(T)
<1>1. \E m \in T : \A k \in T : k <= m
  <2> SUFFICES ASSUME \A m \in T : \E k \in T : ~(k <= m) PROVE FALSE
    OBVIOUS
  <2> DEFINE N == {i \in Nat : \E k \in T : i <= k}
  <2>1. N \in SUBSET Nat /\ 0 \in N
    <3>1. PICK k : k \in T
      OBVIOUS
    <3>2. 0 <= k
      BY <3>1
    <3> QED
      BY <3>1, <3>2
  <2>2. ASSUME NEW i \in N PROVE i + 1 \in N
    <3>1. PICK m \in T : i <= m
      OBVIOUS
    <3>2. PICK k \in T : ~(k <= m)
      OBVIOUS
    <3>3. i \in Nat /\ m \in Nat /\ k \in Nat
      OBVIOUS
    <3>4. i + 1 \in Nat /\ i + 1 <= k
      BY <3>1, <3>2, <3>3
    <3> QED
      BY <3>4
  <2>3. N = Nat
    <3> HIDE DEF N
    <3> QED
      BY <2>1, <2>2, NatInd
  <2>4. n + 1 \in N
    <3> HIDE DEF N
    <3> QED
      BY <2>3
  <2>5. PICK k \in T : n + 1 <= k
    BY <2>4
  <2> QED
    BY <2>5
<1>2. PICK m \in T : \A k \in T : m >= k
  BY <1>1
<1> QED
  BY <1>2 DEF Max
=============================================================================
