------------------------------ MODULE SumTheorems ------------------------------
(******************************************************************************)
(* Sums over finite sets: what MapThenSumSet of the community modules gives   *)
(* when elements come and go and when what is summed up changes. Folds of     *)
(* sequences: the intermediate results that FoldLeft steps through. Ranks:    *)
(* how many elements of a finite set a strict order puts before one of them.  *)
(******************************************************************************)
EXTENDS FiniteSetsExt, SequencesExt, FiniteSetTheorems, SequenceTheorems,
        WellFoundedInduction, TLAPS

SumOver(f, S) == MapThenSumSet(LAMBDA x : f[x], S)

--------------------------------------------------------------------------------
(* Induction, with a set in the place of the property, which the provers can match.     *)

Below == {ss \in Nat \X Nat : ss[1] < ss[2]}

LEMMA BelowWellFounded == IsWellFoundedOn(Below, Nat)
  BY NatLessThanWellFounded DEF OpToRel, Below

LEMMA HasLeast ==
  ASSUME NEW N, N \subseteq Nat, N # {}
  PROVE  \E n \in N : \A m \in N : n <= m
<1>1. PICK n \in N : \A m \in N : ~ (<<m, n>> \in Below)
  BY BelowWellFounded, WFMin
<1>2. \A m \in N : ~(m < n)
  BY <1>1 DEF Below
<1> QED
  BY <1>1, <1>2

LEMMA Climbs ==
  ASSUME NEW N, N \subseteq Nat, 0 \in N, \A n \in N : n + 1 \in N
  PROVE  N = Nat
<1> SUFFICES ASSUME Nat \ N # {} PROVE FALSE
  OBVIOUS
<1> DEFINE M == Nat \ N
<1>1. M \subseteq Nat /\ M # {}
  OBVIOUS
<1> HIDE DEF M
<1>2. PICK n \in M : \A m \in M : n <= m
  BY <1>1, HasLeast
<1> USE DEF M
<1>3. n - 1 \in Nat /\ n - 1 < n
  BY <1>2
<1> QED
  BY <1>2, <1>3

(* A set without an element has one element less.                                     *)
LEMMA OneLess ==
  ASSUME NEW S, IsFiniteSet(S), NEW n \in Nat, Cardinality(S) = n + 1
  PROVE  S # {} /\ \A x \in S : IsFiniteSet(S \ {x}) /\ Cardinality(S \ {x}) = n
<1>1. S # {}
  BY FS_EmptySet
<1>2. ASSUME NEW x \in S PROVE IsFiniteSet(S \ {x}) /\ Cardinality(S \ {x}) = n
  BY FS_RemoveElement
<1> QED
  BY <1>1, <1>2

--------------------------------------------------------------------------------
(* The recursion of the fold.                                                         *)

Pick(S) == CHOOSE x \in S : TRUE
Adds(f, S, g) == g = [T \in SUBSET S |-> IF T = {} THEN 0 ELSE f[Pick(T)] + g[T \ {Pick(T)}]]

LEMMA SumIsFold == ASSUME NEW f, NEW S PROVE SumOver(f, S) = (CHOOSE g : Adds(f, S, g))[S]
  BY DEF SumOver, MapThenSumSet, MapThenFoldSet, Adds, Pick

(* There is such a function.                                                          *)
LEMMA FoldExists ==
  ASSUME NEW S, IsFiniteSet(S), NEW f, \A x \in S : f[x] \in Int
  PROVE  \E g \in [SUBSET S -> Int] : Adds(f, S, g)
<1> DEFINE D(n) == {T \in SUBSET S : Cardinality(T) <= n}
           Step(T, g) == IF T = {} THEN 0 ELSE f[Pick(T)] + g[T \ {Pick(T)}]
           N == {n \in Nat : \E g \in [D(n) -> Int] : \A T \in D(n) : g[T] = Step(T, g)}
<1>0. \A T \in SUBSET S : IsFiniteSet(T) /\ Cardinality(T) \in Nat
  BY FS_Subset, FS_CardinalityType
<1>1. 0 \in N
  <2> DEFINE g == [T \in D(0) |-> 0]
  <2>1. \A T \in D(0) : T = {}
    BY <1>0, FS_EmptySet
  <2>2. g \in [D(0) -> Int] /\ \A T \in D(0) : g[T] = Step(T, g)
    BY <2>1
  <2> QED
    BY <2>2
<1>2. ASSUME NEW n \in N PROVE n + 1 \in N
  <2>1. PICK g \in [D(n) -> Int] : \A T \in D(n) : g[T] = Step(T, g)
    OBVIOUS
  <2> DEFINE h == [T \in D(n + 1) |-> IF Cardinality(T) <= n THEN g[T] ELSE Step(T, g)]
  <2>2. ASSUME NEW T \in D(n + 1), T # {} PROVE T \ {Pick(T)} \in D(n) /\ Pick(T) \in S
    <3>1. Pick(T) \in T
      BY <2>2 DEF Pick
    <3>2. Cardinality(T \ {Pick(T)}) = Cardinality(T) - 1
      BY <1>0, <3>1, FS_RemoveElement
    <3> QED
      BY <1>0, <3>1, <3>2
  <2>3. \A T \in D(n) : T \in D(n + 1) /\ h[T] = g[T]
    BY <1>0
  <2>4. ASSUME NEW T \in D(n + 1) PROVE h[T] \in Int
    <3>1. CASE Cardinality(T) <= n \/ T = {}
      BY <2>3, <3>1
    <3>2. CASE ~(Cardinality(T) <= n) /\ T # {}
      <4>1. h[T] = f[Pick(T)] + g[T \ {Pick(T)}]
        BY <3>2
      <4>2. Pick(T) \in S /\ T \ {Pick(T)} \in D(n)
        BY <2>2, <3>2
      <4> QED
        BY <4>1, <4>2
    <3> QED
      BY <3>1, <3>2
  <2>5. ASSUME NEW T \in D(n + 1) PROVE h[T] = Step(T, h)
    <3>1. h[T] = Step(T, g)
      <4>1. CASE Cardinality(T) <= n
        BY <2>1, <4>1
      <4>2. CASE ~(Cardinality(T) <= n)
        BY <4>2
      <4> QED
        BY <4>1, <4>2
    <3> QED
      BY <2>2, <2>3, <3>1
  <2>6. h \in [D(n + 1) -> Int] /\ \A T \in D(n + 1) : h[T] = Step(T, h)
    BY <2>4, <2>5
  <2> HIDE DEF h
  <2>7. n + 1 \in Nat
    OBVIOUS
  <2> QED
    BY <2>6, <2>7
<1>3. N = Nat
  <2>1. N \subseteq Nat
    OBVIOUS
  <2> HIDE DEF N
  <2> QED
    BY <1>1, <1>2, <2>1, Climbs
<1>4. Cardinality(S) \in N
  BY <1>3, FS_CardinalityType
<1>5. D(Cardinality(S)) = SUBSET S
  BY FS_Subset
<1> QED
  BY <1>4, <1>5 DEF Adds

(* All of them agree.                                                                 *)
LEMMA FoldsAgree ==
  ASSUME NEW S, IsFiniteSet(S), NEW R \in SUBSET S, NEW f, NEW g,
         NEW h, Adds(f, S, g), Adds(f, R, h)
  PROVE  \A T \in SUBSET R : g[T] = h[T]
<1> DEFINE N == {n \in Nat : \A T \in SUBSET R : Cardinality(T) = n => g[T] = h[T]}
<1>0. \A T \in SUBSET R : IsFiniteSet(T) /\ Cardinality(T) \in Nat
  BY FS_Subset, FS_CardinalityType
<1>1. 0 \in N
  <2>1. \A T \in SUBSET R : Cardinality(T) = 0 => T = {}
    BY <1>0, FS_EmptySet
  <2>2. g[{}] = 0 /\ h[{}] = 0
    BY DEF Adds
  <2> QED
    BY <2>1, <2>2
<1>2. ASSUME NEW n \in N PROVE n + 1 \in N
  <2> SUFFICES ASSUME NEW T \in SUBSET R, Cardinality(T) = n + 1 PROVE g[T] = h[T]
    OBVIOUS
  <2>1. T # {} /\ \A x \in T : Cardinality(T \ {x}) = n
    BY <1>0, OneLess
  <2>2. Pick(T) \in T
    BY <2>1 DEF Pick
  <2>3. g[T \ {Pick(T)}] = h[T \ {Pick(T)}]
    BY <2>1, <2>2
  <2> QED
    BY <2>1, <2>3 DEF Adds
<1>3. N = Nat
  <2>1. N \subseteq Nat
    OBVIOUS
  <2> HIDE DEF N
  <2> QED
    BY <1>1, <1>2, <2>1, Climbs
<1> QED
  BY <1>0, <1>3

(* The sum of a set: 0, or its chosen element and the sum of the others.                *)
LEMMA SumStep ==
  ASSUME NEW S, IsFiniteSet(S), NEW f, \A x \in S : f[x] \in Int
  PROVE  /\ SumOver(f, S) \in Int
         /\ S = {} => SumOver(f, S) = 0
         /\ S # {} => SumOver(f, S) = f[Pick(S)] + SumOver(f, S \ {Pick(S)})
<1> DEFINE G(T) == CHOOSE g : Adds(f, T, g)
<1>1. ASSUME NEW T \in SUBSET S PROVE Adds(f, T, G(T))
  <2>1. IsFiniteSet(T) /\ \A x \in T : f[x] \in Int
    BY FS_Subset
  <2> QED
    BY <2>1, FoldExists
<1>2. PICK g \in [SUBSET S -> Int] : Adds(f, S, g)
  BY FoldExists
<1> HIDE DEF G
<1>3. ASSUME NEW T \in SUBSET S PROVE SumOver(f, T) = g[T]
  <2>1. SumOver(f, T) = G(T)[T]
    BY SumIsFold DEF G
  <2>2. g[T] = G(T)[T]
    BY <1>1, <1>2, FoldsAgree
  <2> QED
    BY <2>1, <2>2
<1>4. S # {} => Pick(S) \in S
  BY DEF Pick
<1>5. /\ S = {} => g[S] = 0
      /\ S # {} => g[S] = f[Pick(S)] + g[S \ {Pick(S)}]
  BY <1>2 DEF Adds
<1> QED
  BY <1>2, <1>3, <1>4, <1>5

--------------------------------------------------------------------------------
(* Sums.                                                                              *)

(* It does not matter which element is taken first.                                    *)
LEMMA SumTakes ==
  ASSUME NEW S, IsFiniteSet(S), NEW f, \A x \in S : f[x] \in Int, NEW e \in S
  PROVE  SumOver(f, S) = f[e] + SumOver(f, S \ {e})
<1> DEFINE N == {n \in Nat : \A T \in SUBSET S : Cardinality(T) = n =>
                   \A x \in T : SumOver(f, T) = f[x] + SumOver(f, T \ {x})}
<1>0. \A T \in SUBSET S : IsFiniteSet(T) /\ Cardinality(T) \in Nat /\ SumOver(f, T) \in Int
  BY FS_Subset, FS_CardinalityType, SumStep
<1>1. 0 \in N
  BY <1>0, FS_EmptySet
<1>2. ASSUME NEW n \in N PROVE n + 1 \in N
  <2> SUFFICES ASSUME NEW T \in SUBSET S, Cardinality(T) = n + 1, NEW x \in T
               PROVE  SumOver(f, T) = f[x] + SumOver(f, T \ {x})
    OBVIOUS
  <2> DEFINE p == Pick(T)
  <2>1. IsFiniteSet(T) /\ \A y \in T : Cardinality(T \ {y}) = n
    BY <1>0, OneLess
  <2>2. p \in T /\ SumOver(f, T) = f[p] + SumOver(f, T \ {p})
    <3>1. p \in T
      BY DEF Pick
    <3> QED
      BY <2>1, <3>1, SumStep
  <2> HIDE DEF p
  <2>3. CASE x # p
    <3> DEFINE r == SumOver(f, (T \ {p}) \ {x})
    <3>0. \A U \in SUBSET S : Cardinality(U) = n =>
            \A y \in U : SumOver(f, U) = f[y] + SumOver(f, U \ {y})
      BY <1>2
    <3>1. SumOver(f, T \ {p}) = f[x] + r
      BY <2>1, <2>2, <2>3, <3>0
    <3>2. (T \ {x}) \ {p} = (T \ {p}) \ {x}
      OBVIOUS
    <3>3. SumOver(f, T \ {x}) = f[p] + r
      BY <2>1, <2>2, <2>3, <3>0, <3>2
    <3>4. r \in Int /\ f[x] \in Int /\ f[p] \in Int
      BY <1>0, <2>2
    <3> HIDE DEF r
    <3>5. SumOver(f, T) = f[p] + (f[x] + r)
      BY <2>2, <3>1
    <3>6. f[p] + (f[x] + r) = f[x] + (f[p] + r)
      BY <3>4
    <3> QED
      BY <3>3, <3>5, <3>6
  <2>4. CASE x = p
    BY <2>2, <2>4
  <2> QED
    BY <2>3, <2>4
<1>3. N = Nat
  <2>1. N \subseteq Nat
    OBVIOUS
  <2> HIDE DEF N
  <2> QED
    BY <1>1, <1>2, <2>1, Climbs
<1> QED
  BY <1>0, <1>3

LEMMA SumEmpty == ASSUME NEW f PROVE SumOver(f, {}) = 0
  BY FS_EmptySet, SumStep

LEMMA SumJoins ==
  ASSUME NEW S, IsFiniteSet(S), NEW f, NEW e, e \notin S, \A x \in S \cup {e} : f[x] \in Int
  PROVE  SumOver(f, S \cup {e}) = f[e] + SumOver(f, S)
<1>1. IsFiniteSet(S \cup {e}) /\ (S \cup {e}) \ {e} = S
  BY FS_AddElement
<1> QED
  BY <1>1, SumTakes

(* Induction over the subsets of a finite set, one element more at a time.             *)
LEMMA Grows ==
  ASSUME NEW S, IsFiniteSet(S), NEW F, {} \in F,
         \A T \in SUBSET S, x \in S : T \in F /\ x \notin T => T \cup {x} \in F
  PROVE  S \in F
<1> DEFINE N == {n \in Nat : \A T \in SUBSET S : Cardinality(T) = n => T \in F}
<1>0. \A T \in SUBSET S : IsFiniteSet(T) /\ Cardinality(T) \in Nat
  BY FS_Subset, FS_CardinalityType
<1>1. 0 \in N
  BY <1>0, FS_EmptySet
<1>2. ASSUME NEW n \in N PROVE n + 1 \in N
  <2> SUFFICES ASSUME NEW T \in SUBSET S, Cardinality(T) = n + 1 PROVE T \in F
    OBVIOUS
  <2>1. T # {} /\ \A x \in T : Cardinality(T \ {x}) = n
    BY <1>0, OneLess
  <2>2. PICK x \in T : TRUE
    BY <2>1
  <2>3. T \ {x} \in F
    BY <2>1
  <2>4. T = (T \ {x}) \cup {x}
    OBVIOUS
  <2> QED
    BY <2>3, <2>4
<1>3. N = Nat
  <2>1. N \subseteq Nat
    OBVIOUS
  <2> HIDE DEF N
  <2> QED
    BY <1>1, <1>2, <2>1, Climbs
<1> QED
  BY <1>0, <1>3

(* Sums compare, add up and scale like their terms.                                     *)
LEMMA SumCompares ==
  ASSUME NEW S, IsFiniteSet(S), NEW f, NEW g,
         \A x \in S : f[x] \in Int /\ g[x] \in Int /\ f[x] <= g[x]
  PROVE  SumOver(f, S) <= SumOver(g, S)
<1> DEFINE F == {T \in SUBSET S : SumOver(f, T) <= SumOver(g, T)}
<1>1. {} \in F
  BY SumEmpty
<1>2. ASSUME NEW T \in SUBSET S, NEW x \in S, T \in F, x \notin T PROVE T \cup {x} \in F
  <2>1. IsFiniteSet(T)
    BY FS_Subset
  <2>2. /\ SumOver(f, T \cup {x}) = f[x] + SumOver(f, T)
        /\ SumOver(g, T \cup {x}) = g[x] + SumOver(g, T)
    BY <1>2, <2>1, SumJoins
  <2>3. SumOver(f, T) \in Int /\ SumOver(g, T) \in Int
    BY <2>1, SumStep
  <2> QED
    BY <1>2, <2>2, <2>3
<1> HIDE DEF F
<1>3. S \in F
  BY <1>1, <1>2, Grows
<1> QED
  BY <1>3 DEF F

LEMMA SumPlus ==
  ASSUME NEW S, IsFiniteSet(S), NEW f, NEW g, NEW h,
         \A x \in S : f[x] \in Int /\ g[x] \in Int /\ h[x] = f[x] + g[x]
  PROVE  SumOver(h, S) = SumOver(f, S) + SumOver(g, S)
<1> DEFINE F == {T \in SUBSET S : SumOver(h, T) = SumOver(f, T) + SumOver(g, T)}
<1>1. {} \in F
  BY SumEmpty
<1>2. ASSUME NEW T \in SUBSET S, NEW x \in S, T \in F, x \notin T PROVE T \cup {x} \in F
  <2>1. IsFiniteSet(T) /\ \A y \in T \cup {x} : f[y] \in Int /\ g[y] \in Int /\ h[y] \in Int
    BY FS_Subset
  <2>2. /\ SumOver(f, T \cup {x}) = f[x] + SumOver(f, T)
        /\ SumOver(g, T \cup {x}) = g[x] + SumOver(g, T)
        /\ SumOver(h, T \cup {x}) = h[x] + SumOver(h, T)
    BY <1>2, <2>1, SumJoins
  <2>3. SumOver(f, T) \in Int /\ SumOver(g, T) \in Int
    BY <2>1, SumStep
  <2> QED
    BY <1>2, <2>2, <2>3
<1> HIDE DEF F
<1>3. S \in F
  BY <1>1, <1>2, Grows
<1> QED
  BY <1>3 DEF F

LEMMA SumScales ==
  ASSUME NEW S, IsFiniteSet(S), NEW f, NEW g, NEW c \in Int,
         \A x \in S : f[x] \in Int /\ g[x] = c * f[x]
  PROVE  SumOver(g, S) = c * SumOver(f, S)
<1> DEFINE F == {T \in SUBSET S : SumOver(g, T) = c * SumOver(f, T)}
<1>1. {} \in F
  BY SumEmpty
<1>2. ASSUME NEW T \in SUBSET S, NEW x \in S, T \in F, x \notin T PROVE T \cup {x} \in F
  <2>1. IsFiniteSet(T) /\ \A y \in T \cup {x} : f[y] \in Int /\ g[y] \in Int
    BY FS_Subset
  <2>2. /\ SumOver(f, T \cup {x}) = f[x] + SumOver(f, T)
        /\ SumOver(g, T \cup {x}) = g[x] + SumOver(g, T)
    BY <1>2, <2>1, SumJoins
  <2>3. SumOver(f, T) \in Int
    BY <2>1, SumStep
  <2>4. \A a, b \in Int : c * (a + b) = c * a + c * b
    OBVIOUS
  <2>5. SumOver(g, T \cup {x}) = c * f[x] + c * SumOver(f, T)
    BY <1>2, <2>2
  <2>6. c * (f[x] + SumOver(f, T)) = c * f[x] + c * SumOver(f, T)
    BY <2>3, <2>4
  <2>7. T \cup {x} \in SUBSET S
    OBVIOUS
  <2> QED
    BY <2>2, <2>5, <2>6, <2>7
<1> HIDE DEF F
<1>3. S \in F
  BY <1>1, <1>2, Grows
<1> QED
  BY <1>3 DEF F

LEMMA SumCounts ==
  ASSUME NEW S, IsFiniteSet(S), NEW N, NEW f, \A x \in S : f[x] = IF x \in N THEN 1 ELSE 0
  PROVE  SumOver(f, S) = Cardinality(S \cap N)
<1> DEFINE F == {T \in SUBSET S : SumOver(f, T) = Cardinality(T \cap N)}
<1>1. {} \in F
  BY SumEmpty, FS_EmptySet
<1>2. ASSUME NEW T \in SUBSET S, NEW x \in S, T \in F, x \notin T PROVE T \cup {x} \in F
  <2>1. IsFiniteSet(T) /\ IsFiniteSet(T \cap N) /\ \A y \in T \cup {x} : f[y] \in Int
    BY FS_Subset
  <2>2. SumOver(f, T \cup {x}) = f[x] + SumOver(f, T)
    BY <1>2, <2>1, SumJoins
  <2>3. Cardinality(T \cap N) \in Nat
    BY <2>1, FS_CardinalityType
  <2>0. T \cup {x} \in SUBSET S /\ SumOver(f, T) = Cardinality(T \cap N)
    BY <1>2
  <2>4. CASE x \in N
    <3>0. f[x] = 1
      BY <2>4
    <3>1. (T \cup {x}) \cap N = (T \cap N) \cup {x} /\ x \notin T \cap N
      BY <1>2, <2>4
    <3>2. Cardinality((T \cap N) \cup {x}) = Cardinality(T \cap N) + 1
      BY <2>1, <3>1, FS_AddElement
    <3> QED
      <4>1. SumOver(f, T \cup {x}) = 1 + Cardinality(T \cap N)
        BY <2>0, <2>2, <3>0
      <4>2. Cardinality((T \cup {x}) \cap N) = 1 + Cardinality(T \cap N)
        <5>1. Cardinality((T \cup {x}) \cap N) = Cardinality((T \cap N) \cup {x})
          BY <3>1, Zenon
        <5> QED
          BY <2>3, <3>2, <5>1
      <4> QED
        BY <2>0, <4>1, <4>2
  <2>5. CASE x \notin N
    <3>0. f[x] = 0
      BY <2>5
    <3>1. (T \cup {x}) \cap N = T \cap N
      BY <2>5
    <3> QED
      BY <2>0, <2>2, <2>3, <3>0, <3>1
  <2> QED
    BY <2>4, <2>5
<1> HIDE DEF F
<1>3. S \in F
  BY <1>1, <1>2, Grows
<1> QED
  BY <1>3 DEF F

(* Terms that are 0 can be left out.                                                     *)
LEMMA SumLeavesOut ==
  ASSUME NEW S, IsFiniteSet(S), NEW R \in SUBSET S, NEW f, NEW g,
         \A x \in R : f[x] \in Int /\ g[x] = f[x], \A x \in S \ R : f[x] = 0
  PROVE  SumOver(f, S) = SumOver(g, R)
<1> DEFINE F == {T \in SUBSET S : SumOver(f, T) = SumOver(g, T \cap R)}
<1>1. {} \in F
  BY SumEmpty
<1>2. ASSUME NEW T \in SUBSET S, NEW x \in S, T \in F, x \notin T PROVE T \cup {x} \in F
  <2>1. /\ IsFiniteSet(T) /\ IsFiniteSet(T \cap R) /\ \A y \in T \cup {x} : f[y] \in Int
        /\ \A y \in (T \cap R) : g[y] \in Int
    BY FS_Subset
  <2>2. SumOver(f, T \cup {x}) = f[x] + SumOver(f, T) /\ SumOver(f, T) \in Int
    BY <1>2, <2>1, SumJoins, SumStep
  <2>3. CASE x \in R
    <3>1. (T \cup {x}) \cap R = (T \cap R) \cup {x} /\ x \notin T \cap R
      BY <1>2, <2>3
    <3>2. SumOver(g, (T \cap R) \cup {x}) = g[x] + SumOver(g, T \cap R)
      BY <2>1, <2>3, <3>1, SumJoins
    <3> QED
      BY <1>2, <2>2, <2>3, <3>1, <3>2
  <2>4. CASE x \notin R
    <3>1. (T \cup {x}) \cap R = T \cap R
      BY <2>4
    <3> QED
      BY <1>2, <2>2, <2>4, <3>1
  <2> QED
    BY <2>3, <2>4
<1> HIDE DEF F
<1>3. S \in F
  BY <1>1, <1>2, Grows
<1>4. S \cap R = R
  OBVIOUS
<1> QED
  BY <1>3, <1>4 DEF F

LEMMA SumIsNat ==
  ASSUME NEW S, IsFiniteSet(S), NEW f, \A x \in S : f[x] \in Nat
  PROVE  SumOver(f, S) \in Nat
<1> DEFINE F == {T \in SUBSET S : SumOver(f, T) \in Nat}
<1>1. {} \in F
  BY SumEmpty
<1>2. ASSUME NEW T \in SUBSET S, NEW x \in S, T \in F, x \notin T PROVE T \cup {x} \in F
  <2>1. IsFiniteSet(T) /\ \A y \in T \cup {x} : f[y] \in Int
    BY FS_Subset
  <2>2. SumOver(f, T \cup {x}) = f[x] + SumOver(f, T)
    BY <1>2, <2>1, SumJoins
  <2> QED
    BY <1>2, <2>2
<1> HIDE DEF F
<1>3. S \in F
  BY <1>1, <1>2, Grows
<1> QED
  BY <1>3 DEF F

(* One term that grows by 1 adds at most 1 to the sum.                                  *)
LEMMA SumBumps ==
  ASSUME NEW S, IsFiniteSet(S), NEW f, NEW g, NEW e \in S,
         \A x \in S : f[x] \in Int /\ g[x] \in Int /\ g[x] <= f[x] + (IF x = e THEN 1 ELSE 0)
  PROVE  SumOver(g, S) <= SumOver(f, S) + 1
<1>1. IsFiniteSet(S \ {e})
  BY FS_RemoveElement
<1>2. SumOver(f, S) = f[e] + SumOver(f, S \ {e}) /\ SumOver(g, S) = g[e] + SumOver(g, S \ {e})
  BY SumTakes
<1>3. SumOver(g, S \ {e}) <= SumOver(f, S \ {e})
  BY <1>1, SumCompares
<1>4. SumOver(f, S \ {e}) \in Int /\ SumOver(g, S \ {e}) \in Int
  BY <1>1, SumStep
<1> QED
  BY <1>2, <1>3, <1>4


--------------------------------------------------------------------------------
(* Folds of sequences.                                                                  *)

(* What a fold of a sequence steps through: step takes what was accumulated and an index. *)
Runs(step, base, n, g) ==
  g = [T \in SUBSET (1 .. n) |-> IF T = {} THEN base ELSE step[<<g[T \ {Max(T)}], Max(T)>>]]

LEMMA MaxOfIndices ==
  ASSUME NEW n \in Nat, NEW T \in SUBSET (1 .. n), T # {}
  PROVE  Max(T) \in T /\ \A t \in T : t <= Max(T)
<1> DEFINE N == {k \in Nat : \E t \in T : n - k = t}
<1>1. N \subseteq Nat /\ N # {}
  <2>1. PICK t \in T : TRUE
    OBVIOUS
  <2>2. n - t \in Nat /\ n - (n - t) = t
    OBVIOUS
  <2> QED
    BY <2>2
<1>2. PICK k \in N : \A m \in N : k <= m
  BY <1>1, HasLeast
<1>3. PICK top \in T : n - k = top
  OBVIOUS
<1>4. ASSUME NEW t \in T PROVE top >= t
  <2>1. n - t \in Nat /\ n - (n - t) = t
    OBVIOUS
  <2>2. n - t \in N
    BY <2>1
  <2>3. k <= n - t
    BY <1>2, <2>2
  <2>4. k \in Nat /\ top \in 1 .. n /\ t \in 1 .. n
    OBVIOUS
  <2> HIDE DEF N
  <2> QED
    BY <1>3, <2>3, <2>4
<1>5. \E x \in T : \A y \in T : x >= y
  BY <1>4
<1> QED
  BY <1>5 DEF Max

LEMMA MaxOfPrefix ==
  ASSUME NEW k \in Nat, k # 0
  PROVE  Max(1 .. k) = k /\ (1 .. k) \ {k} = 1 .. (k - 1)
<1>0. 1 .. k # {}
  BY k \in 1 .. k
<1>1. Max(1 .. k) \in 1 .. k /\ \A t \in 1 .. k : t <= Max(1 .. k)
  BY <1>0, MaxOfIndices
<1>2. k \in 1 .. k
  OBVIOUS
<1>3. k <= Max(1 .. k) /\ Max(1 .. k) <= k /\ Max(1 .. k) \in Nat
  BY <1>1, <1>2
<1> QED
  BY <1>3

LEMMA FoldRuns ==
  ASSUME NEW n \in Nat, NEW Acc, NEW base \in Acc, NEW step \in [Acc \X (1 .. n) -> Acc]
  PROVE  \E g \in [SUBSET (1 .. n) -> Acc] : Runs(step, base, n, g)
<1> DEFINE D(k) == SUBSET (1 .. k)
           Step(T, g) == IF T = {} THEN base ELSE step[<<g[T \ {Max(T)}], Max(T)>>]
           Has(k) == \E g \in [D(k) -> Acc] : \A T \in D(k) : g[T] = Step(T, g)
           N == {k \in Nat : k <= n => Has(k)}
<1>1. 0 \in N
  <2> DEFINE g == [T \in D(0) |-> base]
  <2>0. 1 .. 0 = {}
    OBVIOUS
  <2>1. g \in [D(0) -> Acc]
    OBVIOUS
  <2>2. \A T \in D(0) : g[T] = Step(T, g)
    BY <2>0
  <2> HIDE DEF g, Step, D
  <2> QED
    BY <2>1, <2>2
<1> HIDE DEF Has
<1>2. ASSUME NEW k \in N PROVE k + 1 \in N
  <2>1. SUFFICES ASSUME k + 1 <= n PROVE Has(k + 1)
    OBVIOUS
  <2>0. Has(k)
    BY <2>1
  <2>2. PICK g \in [D(k) -> Acc] : \A T \in D(k) : g[T] = Step(T, g)
    BY <2>0 DEF Has
  <2> DEFINE h == [T \in D(k + 1) |-> IF T \in D(k) THEN g[T] ELSE step[<<g[T \ {k + 1}], k + 1>>]]
  <2>3. ASSUME NEW T \in D(k + 1), T \notin D(k)
        PROVE  T # {} /\ Max(T) = k + 1 /\ T \ {k + 1} \in D(k)
    <3>1. k + 1 \in T /\ T # {}
      <4>1. PICK t \in T : t \notin 1 .. k
        BY <2>3
      <4>2. t \in 1 .. (k + 1)
        OBVIOUS
      <4> QED
        BY <4>1, <4>2
    <3>0. k + 1 \in Nat /\ T \in SUBSET (1 .. (k + 1))
      OBVIOUS
    <3>2. Max(T) \in T /\ \A t \in T : t <= Max(T)
      BY <3>0, <3>1, MaxOfIndices
    <3>3. Max(T) \in 1 .. (k + 1) /\ k + 1 <= Max(T)
      BY <3>1, <3>2
    <3>4. Max(T) = k + 1
      BY <3>3
    <3>5. T \ {k + 1} \in D(k)
      OBVIOUS
    <3> QED
      BY <3>1, <3>4, <3>5
  <2>4. ASSUME NEW T \in D(k), T # {} PROVE T \ {Max(T)} \in D(k)
    OBVIOUS
  <2>5. \A T \in D(k) : g[T] \in Acc
    BY <2>2
  <2>6. h \in [D(k + 1) -> Acc]
    <3> SUFFICES ASSUME NEW T \in D(k + 1), T \notin D(k) PROVE step[<<g[T \ {k + 1}], k + 1>>] \in Acc
      BY <2>5
    <3>1. g[T \ {k + 1}] \in Acc /\ k + 1 \in 1 .. n
      BY <2>1, <2>3, <2>5
    <3> QED
      BY <3>1
  <2>7. D(k) \subseteq D(k + 1)
    OBVIOUS
  <2>8. ASSUME NEW T \in D(k + 1) PROVE h[T] = Step(T, h)
    <3>1. CASE T \in D(k)
      BY <2>2, <2>4, <2>7, <3>1
    <3>2. CASE T \notin D(k)
      BY <2>3, <2>7, <3>2
    <3> QED
      BY <3>1, <3>2
  <2> HIDE DEF h, Step, D
  <2> QED
    BY <2>6, <2>8 DEF Has
<1>3. N = Nat
  <2>1. N \subseteq Nat
    OBVIOUS
  <2> QED
    BY <1>1, <1>2, <2>1, Climbs
<1>4. n \in N
  BY <1>3
<1>5. PICK g \in [D(n) -> Acc] : \A T \in D(n) : g[T] = Step(T, g)
  <2>1. Has(n)
    BY <1>4
  <2> QED
    BY <2>1 DEF Has
<1>6. Runs(step, base, n, g)
  BY <1>5 DEF Runs
<1> QED
  BY <1>5, <1>6

(* Induction along a sequence.                                                          *)
LEMMA Along ==
  ASSUME NEW n \in Nat, NEW K, 0 \in K, \A k \in 1 .. n : k - 1 \in K => k \in K
  PROVE  \A k \in 0 .. n : k \in K
<1> DEFINE N == {k \in Nat : k <= n => k \in K}
<1>1. 0 \in N
  OBVIOUS
<1>2. ASSUME NEW k \in N PROVE k + 1 \in N
  <2>1. SUFFICES ASSUME k + 1 <= n PROVE k + 1 \in K
    OBVIOUS
  <2>2. k \in K /\ k + 1 \in 1 .. n /\ (k + 1) - 1 = k
    BY <2>1
  <2> QED
    BY <2>2
<1>3. N = Nat
  <2>1. N \subseteq Nat
    OBVIOUS
  <2> QED
    BY <1>1, <1>2, <2>1, Climbs
<1> QED
  BY <1>3

(* The values of a fold, of which only its equation on the subsets of the indices is known. *)
Obeys(step, base, n, Acc, h) ==
  /\ h[{}] = base
  /\ \A T \in SUBSET (1 .. n) : T # {} /\ h[T \ {Max(T)}] \in Acc =>
       h[T] = step[<<h[T \ {Max(T)}], Max(T)>>]

EndsIn(step, base, n, Acc, end) ==
  \E a \in [0 .. n -> Acc] :
    /\ a[0] = base /\ a[n] = end
    /\ \A k \in 1 .. n : a[k - 1] \in Acc /\ a[k] = step[<<a[k - 1], k>>]

LEMMA FoldTrace ==
  ASSUME NEW n \in Nat, NEW Acc, NEW base \in Acc, NEW step \in [Acc \X (1 .. n) -> Acc], NEW h,
         Obeys(step, base, n, Acc, h)
  PROVE  EndsIn(step, base, n, Acc, h[1 .. n])
<1> USE DEF Obeys, EndsIn
<1> DEFINE K == {k \in 0 .. n : h[1 .. k] \in Acc}
           a == [k \in 0 .. n |-> h[1 .. k]]
<1>1. 1 .. 0 = {}
  OBVIOUS
<1>2. ASSUME NEW k \in 1 .. n, h[1 .. (k - 1)] \in Acc
      PROVE  h[1 .. k] = step[<<h[1 .. (k - 1)], k>>] /\ h[1 .. k] \in Acc
  <2>1. Max(1 .. k) = k /\ (1 .. k) \ {k} = 1 .. (k - 1)
    BY MaxOfPrefix
  <2>2. 1 .. k \in SUBSET (1 .. n) /\ 1 .. k # {}
    OBVIOUS
  <2> QED
    BY <1>2, <2>1, <2>2
<1>3. \A k \in 0 .. n : k \in K
  <2>1. 0 \in K
    BY <1>1
  <2>2. ASSUME NEW k \in 1 .. n, k - 1 \in K PROVE k \in K
    <3>1. h[1 .. (k - 1)] \in Acc
      BY <2>2
    <3>2. k \in 0 .. n
      OBVIOUS
    <3> QED
      BY <1>2, <3>1, <3>2
  <2> HIDE DEF K
  <2> QED
    BY <2>1, <2>2, Along
<1>4. a \in [0 .. n -> Acc]
  BY <1>3
<1>5. ASSUME NEW k \in 1 .. n PROVE a[k] = step[<<a[k - 1], k>>]
  <2>1. k \in 0 .. n /\ k - 1 \in 0 .. n
    OBVIOUS
  <2>2. h[1 .. (k - 1)] \in Acc
    BY <1>3, <2>1
  <2> QED
    BY <1>2, <2>1, <2>2
<1>6. a[0] = base /\ a[n] = h[1 .. n]
  BY <1>1
<1>7. \A k \in 1 .. n : a[k - 1] \in Acc
  BY <1>3
<1> HIDE DEF a
<1> QED
  BY <1>4, <1>5, <1>6, <1>7

--------------------------------------------------------------------------------
(* Ranks: how many elements of a finite set are before one of them.                     *)

StrictOrder(R, S) ==
  /\ \A x \in S : <<x, x>> \notin R
  /\ \A x, y, z \in S : <<x, y>> \in R /\ <<y, z>> \in R => <<x, z>> \in R
  /\ \A x, y \in S : x # y => <<x, y>> \in R \/ <<y, x>> \in R
Preceding(R, S, x) == {y \in S : <<y, x>> \in R}

LEMMA RanksClimb ==
  ASSUME NEW S, IsFiniteSet(S), NEW R, StrictOrder(R, S)
  PROVE  /\ \A x \in S : Cardinality(Preceding(R, S, x)) \in 0 .. (Cardinality(S) - 1)
         /\ \A x, y \in S : <<x, y>> \in R <=>
              Cardinality(Preceding(R, S, x)) < Cardinality(Preceding(R, S, y))
<1>1. \A x \in S : IsFiniteSet(Preceding(R, S, x)) /\ Cardinality(Preceding(R, S, x)) \in Nat
  <2> TAKE x \in S
  <2>1. Preceding(R, S, x) \in SUBSET S
    BY DEF Preceding
  <2> QED
    BY <2>1, FS_Subset, FS_CardinalityType
<1>2. ASSUME NEW x \in S, NEW y \in S, <<x, y>> \in R
      PROVE  Cardinality(Preceding(R, S, x)) < Cardinality(Preceding(R, S, y))
  <2>1. Preceding(R, S, x) \in SUBSET Preceding(R, S, y)
    BY <1>2 DEF Preceding, StrictOrder
  <2>2. x \in Preceding(R, S, y) /\ x \notin Preceding(R, S, x)
    BY <1>2 DEF Preceding, StrictOrder
  <2>3. /\ Cardinality(Preceding(R, S, x)) <= Cardinality(Preceding(R, S, y))
        /\ Cardinality(Preceding(R, S, y)) = Cardinality(Preceding(R, S, x)) =>
             Preceding(R, S, y) = Preceding(R, S, x)
    BY <1>1, <2>1, FS_Subset
  <2> QED
    BY <1>1, <2>2, <2>3
<1>3. ASSUME NEW x \in S, NEW y \in S,
             Cardinality(Preceding(R, S, x)) < Cardinality(Preceding(R, S, y))
      PROVE  <<x, y>> \in R
  <2>1. x # y
    BY <1>1, <1>3
  <2>2. <<x, y>> \in R \/ <<y, x>> \in R
    BY <2>1 DEF StrictOrder
  <2>3. CASE <<y, x>> \in R
    <3>1. Cardinality(Preceding(R, S, y)) < Cardinality(Preceding(R, S, x))
      BY <1>2, <2>3
    <3> QED
      BY <1>1, <1>3, <3>1
  <2> QED
    BY <2>2, <2>3
<1>4. ASSUME NEW x \in S PROVE Cardinality(Preceding(R, S, x)) \in 0 .. (Cardinality(S) - 1)
  <2>1. Preceding(R, S, x) \in SUBSET (S \ {x})
    BY DEF Preceding, StrictOrder
  <2>2. IsFiniteSet(S \ {x}) /\ Cardinality(S \ {x}) = Cardinality(S) - 1
    BY FS_RemoveElement
  <2>3. Cardinality(Preceding(R, S, x)) <= Cardinality(S \ {x})
    BY <2>1, <2>2, FS_Subset
  <2>4. Cardinality(S) \in Nat
    BY FS_CardinalityType
  <2> QED
    BY <1>1, <2>2, <2>3, <2>4
<1> QED
  BY <1>2, <1>3, <1>4

(* Every rank is somebody's.                                                            *)
LEMMA RanksFill ==
  ASSUME NEW S, IsFiniteSet(S), NEW R, StrictOrder(R, S)
  PROVE  \A p \in 1 .. Cardinality(S) : \E x \in S : Cardinality(Preceding(R, S, x)) = p - 1
<1> DEFINE T == 0 .. (Cardinality(S) - 1)
           f == [x \in S |-> Cardinality(Preceding(R, S, x))]
<1>1. Cardinality(S) \in Nat
  BY FS_CardinalityType
<1>2. IsFiniteSet(T) /\ Cardinality(T) = Cardinality(S)
  <2>1. 0 \in Int /\ Cardinality(S) - 1 \in Int
    BY <1>1
  <2>2. IsFiniteSet(T) /\ Cardinality(T) = IF 0 > Cardinality(S) - 1 THEN 0 ELSE (Cardinality(S) - 1) - 0 + 1
    BY <2>1, FS_Interval
  <2> QED
    BY <1>1, <2>2
<1>3. f \in [S -> T]
  BY RanksClimb
<1>4. ASSUME NEW x \in S, NEW y \in S, f[x] = f[y] PROVE x = y
  <2> SUFFICES ASSUME x # y PROVE FALSE
    OBVIOUS
  <2>1. <<x, y>> \in R \/ <<y, x>> \in R
    BY DEF StrictOrder
  <2>2. f[x] < f[y] \/ f[y] < f[x]
    BY <2>1, RanksClimb
  <2>3. f[x] \in T /\ f[y] \in T
    BY <1>3
  <2> HIDE DEF f
  <2> QED
    BY <1>1, <1>4, <2>2, <2>3
<1>5. f \in Injection(S, T)
  BY <1>3, <1>4 DEF Injection, IsInjective
<1>6. f \in Surjection(S, T)
  <2> HIDE DEF f, T
  <2> QED
    BY <1>2, <1>5, FS_Injection
<1> TAKE p \in 1 .. Cardinality(S)
<1>7. p - 1 \in T
  BY <1>1
<1>8. \E x \in S : f[x] = p - 1
  BY <1>6, <1>7 DEF Surjection
<1> QED
  BY <1>8

(* Two finite sets that a one-to-one map relates have as many elements.                     *)
LEMMA SameCount ==
  ASSUME NEW S, IsFiniteSet(S), NEW T, NEW f \in [S -> T],
         \A x, y \in S : f[x] = f[y] => x = y, \A t \in T : \E x \in S : f[x] = t
  PROVE  IsFiniteSet(T) /\ Cardinality(T) = Cardinality(S)
<1>1. f \in Injection(S, T) /\ f \in Surjection(S, T)
  BY DEF Injection, IsInjective, Surjection
<1>2. f \in Bijection(S, T)
  BY <1>1 DEF Bijection
<1>3. ExistsBijection(S, T)
  BY <1>2 DEF ExistsBijection
<1> QED
  BY <1>3, FS_Bijection
================================================================================
