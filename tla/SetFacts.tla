------------------------------ MODULE SetFacts ------------------------------
(* Facts about finite sets, sums and arrays that the proofs of several parts *)
(* need: induction over a finite set, as a smallest counterexample, and along*)
(* the places of an array; that folds have a value, what the sums of the     *)
(* community modules, which are folds, add up to, and what an array in order *)
(* holds.                                                                    *)
EXTENDS Integers, Sequences, FiniteSets, SequencesExt, FiniteSetsExt, Functions, Arrays,
        TLAPS, FiniteSetTheorems, SequenceTheorems

\* A family of subsets of a finite set has a member that contains no other.
LEMMA SmallestSubset ==
  ASSUME NEW S, IsFiniteSet(S)
  PROVE  \A F \in SUBSET SUBSET S : F # {} =>
           \E T \in F : \A U \in F : U \subseteq T => U = T
<1> TAKE F \in SUBSET SUBSET S
<1> HAVE F # {}
<1>1. F \subseteq FiniteSubsetsOf(S)
  BY FS_FiniteSubsetsOfFinite
<1>2. PICK T \in F : \A U \in F : <<U, T>> \notin StrictSubsetOrdering(S)
  BY <1>1, FS_StrictSubsetOrderingWellFounded, WFMin
<1>3. QED
  BY <1>2 DEF StrictSubsetOrdering

\* The member a fold takes first.
Pick(T) == CHOOSE x \in T : TRUE

Picks(S, pick) == \A T \in SUBSET S : T # {} => pick[T] \in T

\* g folds every subset of S from base, taking first the member pick names.
Folds(S, pick, base, step, g) ==
  \A T \in SUBSET S :
    g[T] = IF T = {} THEN base ELSE step[pick[T]][g[T \ {pick[T]}]]

\* Folds of two sets agree on the subsets of both.
LEMMA FoldUnique ==
  ASSUME NEW S, IsFiniteSet(S), NEW R, S \subseteq R, NEW pick, Picks(S, pick),
         NEW base, NEW step, NEW g, NEW h,
         Folds(S, pick, base, step, g), Folds(R, pick, base, step, h)
  PROVE  \A T \in SUBSET S : g[T] = h[T]
<1> DEFINE F == {T \in SUBSET S : g[T] # h[T]}
<1>1. F \in SUBSET SUBSET S
  OBVIOUS
<1> HIDE DEF F
<1>2. ASSUME F # {} PROVE FALSE
  <2>1. PICK T \in F : \A U \in F : U \subseteq T => U = T
    BY <1>1, <1>2, SmallestSubset
  <2>2. T \in SUBSET S /\ T \in SUBSET R /\ g[T] # h[T]
    BY <2>1 DEF F
  <2>3. T # {}
    BY <2>2 DEF Folds
  <2>4. pick[T] \in T
    BY <2>2, <2>3 DEF Picks
  <2>5. T \ {pick[T]} \notin F
    BY <2>1, <2>4
  <2>6. g[T \ {pick[T]}] = h[T \ {pick[T]}]
    BY <2>2, <2>5 DEF F
  <2>7. QED
    BY <2>2, <2>3, <2>6 DEF Folds
<1>3. QED
  BY <1>2 DEF F

\* Every subset of a finite set has a fold.
LEMMA FoldExists ==
  ASSUME NEW S, IsFiniteSet(S), NEW pick, Picks(S, pick),
         NEW V, NEW base \in V, NEW step, \A x \in S : \A v \in V : step[x][v] \in V
  PROVE  \E g \in [SUBSET S -> V] : Folds(S, pick, base, step, g)
<1> DEFINE IsFold(T, g) == g \in [SUBSET T -> V] /\ Folds(T, pick, base, step, g)
           fold(T) == CHOOSE g : IsFold(T, g)
           F == {T \in SUBSET S : ~ \E g : IsFold(T, g)}
<1>1. F \in SUBSET SUBSET S
  OBVIOUS
<1> HIDE DEF F
<1>2. ASSUME F # {} PROVE FALSE
  <2>1. PICK T \in F : \A U \in F : U \subseteq T => U = T
    BY <1>1, <1>2, SmallestSubset
  <2>2. T \in SUBSET S /\ ~ \E g : IsFold(T, g)
    BY <2>1 DEF F
  <2>3. \A U \in SUBSET T : U # T => IsFold(U, fold(U))
    <3>1. TAKE U \in SUBSET T
    <3>2. HAVE U # T
    <3>3. U \notin F /\ U \in SUBSET S
      BY <2>1, <2>2, <3>2
    <3>4. QED
      BY <3>3 DEF F
  <2> DEFINE value(U) == IF U = {} THEN base
                         ELSE step[pick[U]][fold(U \ {pick[U]})[U \ {pick[U]}]]
             g == [U \in SUBSET T |-> value(U)]
  <2>4. \A U \in SUBSET T : U # {} =>
          /\ pick[U] \in U /\ U \ {pick[U]} \in SUBSET T /\ U \ {pick[U]} # T
          /\ IsFold(U \ {pick[U]}, fold(U \ {pick[U]}))
    <3>1. TAKE U \in SUBSET T
    <3>2. HAVE U # {}
    <3>3. pick[U] \in U
      BY <2>2, <3>2 DEF Picks
    <3>4. U \ {pick[U]} \in SUBSET T /\ U \ {pick[U]} # T
      BY <3>3
    <3>5. QED
      BY <2>3, <3>3, <3>4
  <2>5. g \in [SUBSET T -> V]
    <3>1. \A U \in SUBSET T : value(U) \in V
      <4>1. TAKE U \in SUBSET T
      <4>2. CASE U = {}
        BY <4>2
      <4>3. CASE U # {}
        <5>1. fold(U \ {pick[U]})[U \ {pick[U]}] \in V
          BY <2>4, <4>3
        <5>2. pick[U] \in S
          BY <2>2, <2>4, <4>3
        <5>3. QED
          BY <4>3, <5>1, <5>2
      <4>4. QED
        BY <4>2, <4>3
    <3>2. QED
      BY <3>1
  <2>6. Folds(T, pick, base, step, g)
    <3>1. SUFFICES ASSUME NEW U \in SUBSET T, U # {}
                   PROVE  g[U \ {pick[U]}] = fold(U \ {pick[U]})[U \ {pick[U]}]
      <4>1. \A U \in SUBSET T : g[U] = value(U)
        OBVIOUS
      <4> HIDE DEF g, fold
      <4>2. QED
        BY <4>1 DEF Folds
    <3> DEFINE W == U \ {pick[U]}
    <3>2. W \in SUBSET T /\ W # T /\ IsFold(W, fold(W))
      BY <2>4, <3>1
    <3>3. CASE W = {}
      BY <3>2, <3>3 DEF Folds
    <3>4. CASE W # {}
      <4> DEFINE X == W \ {pick[W]}
      <4>1. X \subseteq W /\ X \in SUBSET T /\ IsFold(X, fold(X))
        BY <2>4, <3>2, <3>4
      <4>2. IsFiniteSet(X) /\ Picks(X, pick)
        BY <2>2, <4>1, FS_Subset DEF Picks
      <4>3. fold(X)[X] = fold(W)[X]
        <5> HIDE DEF X, W, fold
        <5>1. QED
          BY <3>2, <4>1, <4>2, FoldUnique
      <4>4. fold(W)[W] = step[pick[W]][fold(W)[X]]
        BY <3>2, <3>4 DEF Folds
      <4>5. QED
        BY <3>2, <3>4, <4>3, <4>4
    <3>5. QED
      BY <3>3, <3>4
  <2>7. QED
    BY <2>2, <2>5, <2>6
<1>3. QED
  BY <1>2 DEF F

\* A set of numbers that has 0, and each number up to n if it has the one before.
LEMMA UpTo ==
  ASSUME NEW n \in Nat, NEW P, 0 \in P, \A i \in 1..n : i - 1 \in P => i \in P
  PROVE  \A i \in 0..n : i \in P
<1> DEFINE F == {T \in SUBSET (0..n) : \E i \in 0..n : T = 0..i /\ i \notin P}
<1>1. IsFiniteSet(0..n) /\ F \in SUBSET SUBSET (0..n)
  BY FS_Interval
<1> HIDE DEF F
<1>2. ASSUME F # {} PROVE FALSE
  <2>1. PICK T \in F : \A U \in F : U \subseteq T => U = T
    <3> DEFINE D == 0..n
    <3> HIDE DEF D
    <3>1. IsFiniteSet(D) /\ F \in SUBSET SUBSET D
      BY <1>1 DEF D
    <3>2. QED
      BY <1>2, <3>1, SmallestSubset
  <2>2. PICK i \in 0..n : T = 0..i /\ i \notin P
    BY <2>1 DEF F
  <2>3. i \in 1..n /\ i - 1 \in 0..n /\ i - 1 \notin P
    BY <2>2
  <2>4. 0..(i - 1) \in SUBSET (0..n) /\ 0..(i - 1) \subseteq 0..i /\ i \in 0..i /\ i \notin 0..(i - 1)
    BY <2>3
  <2>5. 0..(i - 1) \in F
    BY <2>3, <2>4 DEF F
  <2>6. 0..(i - 1) # 0..i
    BY <2>4
  <2>7. QED
    BY <2>1, <2>2, <2>4, <2>5, <2>6
<1>3. ASSUME NEW i \in 0..n PROVE i \in P
  <2>1. SUFFICES ASSUME i \notin P PROVE FALSE
    OBVIOUS
  <2>2. 0..i \in SUBSET (0..n)
    OBVIOUS
  <2>3. 0..i \in F
    BY <2>1, <2>2 DEF F
  <2>4. QED
    BY <1>2, <2>3
<1>4. QED
  BY <1>3

\* A sum of integers is the value of such a fold.
LEMMA SumFolds ==
  ASSUME NEW S, IsFiniteSet(S), NEW f, \A x \in S : f[x] \in Int
  PROVE  /\ SumFunctionOnSet(f, S) \in Int
         /\ SumFunctionOnSet(f, S) =
              IF S = {} THEN 0
              ELSE f[Pick(S)] + SumFunctionOnSet(f, S \ {Pick(S)})
<1> DEFINE V == Int
           step == [x \in S |-> [v \in V |-> f[x] + v]]
           pick == [T \in SUBSET S |-> Pick(T)]
           fold(T) == CHOOSE g : g = [U \in SUBSET T |->
                        IF U = {} THEN 0 ELSE f[Pick(U)] + g[U \ {Pick(U)}]]
<1>1. \A T : SumFunctionOnSet(f, T) = fold(T)[T]
  BY DEF SumFunctionOnSet, FoldFunctionOnSet, MapThenFoldSet, Pick
<1>2. (\A x \in S : \A v \in V : step[x][v] \in V) /\ 0 \in V /\ Picks(S, pick)
  BY DEF Picks, Pick
<1>3. PICK g \in [SUBSET S -> Int] : Folds(S, pick, 0, step, g)
  <2>1. \E g \in [SUBSET S -> V] : Folds(S, pick, 0, step, g)
    <3> HIDE DEF step, V, pick
    <3>1. QED
      BY <1>2, FoldExists
  <2>2. QED
    BY <2>1
<1>4. \A T \in SUBSET S : T # {} => Pick(T) \in T /\ T \ {Pick(T)} \in SUBSET S
  BY DEF Pick
<1>5. \A T \in SUBSET S : g[T] = IF T = {} THEN 0 ELSE f[Pick(T)] + g[T \ {Pick(T)}]
  BY <1>3, <1>4 DEF Folds
<1>6. \A T \in SUBSET S : fold(T)[T] = g[T]
  <2>1. TAKE T \in SUBSET S
  <2> DEFINE gT == [U \in SUBSET T |-> g[U]]
  <2>2. gT = [U \in SUBSET T |-> IF U = {} THEN 0 ELSE f[Pick(U)] + gT[U \ {Pick(U)}]]
    BY <1>4, <1>5
  <2>3. fold(T) = [U \in SUBSET T |-> IF U = {} THEN 0 ELSE f[Pick(U)] + fold(T)[U \ {Pick(U)}]]
    <3> HIDE DEF gT
    <3>1. QED
      BY <2>2
  <2>4. \A U \in SUBSET T : fold(T)[U] \in Int
    <3> DEFINE F == {U \in SUBSET T : fold(T)[U] \notin Int}
    <3> HIDE DEF fold
    <3>1. F \in SUBSET SUBSET T /\ IsFiniteSet(T)
      BY FS_Subset
    <3> HIDE DEF F
    <3>2. ASSUME F # {} PROVE FALSE
      <4>1. PICK U \in F : \A W \in F : W \subseteq U => W = U
        BY <3>1, <3>2, SmallestSubset
      <4>2. U \in SUBSET T /\ U \in SUBSET S /\ fold(T)[U] \notin Int
        BY <4>1 DEF F
      <4>3. U # {}
        BY <2>3, <4>2
      <4>4. Pick(U) \in U /\ U \ {Pick(U)} \notin F
        BY <1>4, <4>1, <4>2, <4>3
      <4>5. fold(T)[U \ {Pick(U)}] \in Int
        BY <4>2, <4>4 DEF F
      <4>6. fold(T)[U] = f[Pick(U)] + fold(T)[U \ {Pick(U)}]
        BY <2>3, <4>2, <4>3
      <4>7. f[Pick(U)] \in Int
        BY <4>2, <4>4
      <4>8. QED
        BY <4>2, <4>5, <4>6, <4>7
    <3>3. QED
      BY <3>2 DEF F
  <2>5. Folds(T, pick, 0, step, fold(T))
    <3> HIDE DEF fold
    <3>1. QED
      BY <1>4, <2>3, <2>4 DEF Folds
  <2>6. IsFiniteSet(T) /\ Picks(T, pick)
    BY <1>2, FS_Subset DEF Picks
  <2>7. QED
    <3> HIDE DEF fold, step, pick
    <3>1. QED
      BY <1>3, <2>5, <2>6, FoldUnique
<1>7. QED
  <2> HIDE DEF fold
  <2>1. S \in SUBSET S
    OBVIOUS
  <2>2. QED
    BY <1>1, <1>4, <1>5, <1>6, <2>1

\* Every member of the sum is the same number.
LEMMA EqualSums ==
  ASSUME NEW S, IsFiniteSet(S), NEW f, NEW u \in Int, \A x \in S : f[x] = u
  PROVE  SumFunctionOnSet(f, S) = u * Cardinality(S)
<1> DEFINE sum(T) == SumFunctionOnSet(f, T)
           F == {T \in SUBSET S : sum(T) # u * Cardinality(T)}
<1>1. F \in SUBSET SUBSET S
  OBVIOUS
<1>2. \A T \in SUBSET S :
        /\ IsFiniteSet(T) /\ Cardinality(T) \in Nat
        /\ sum(T) = IF T = {} THEN 0 ELSE u + sum(T \ {Pick(T)})
        /\ T # {} => Pick(T) \in T /\ Cardinality(T) = Cardinality(T \ {Pick(T)}) + 1
  <2>1. TAKE T \in SUBSET S
  <2>2. IsFiniteSet(T) /\ Cardinality(T) \in Nat
    BY FS_Subset, FS_CardinalityType
  <2>3. \A x \in T : f[x] \in Int
    OBVIOUS
  <2>4. sum(T) = IF T = {} THEN 0 ELSE f[Pick(T)] + sum(T \ {Pick(T)})
    BY <2>2, <2>3, SumFolds
  <2>5. T # {} => Pick(T) \in T
    BY DEF Pick
  <2>6. T # {} => Cardinality(T \ {Pick(T)}) = Cardinality(T) - 1
    BY <2>2, <2>5, FS_RemoveElement
  <2> HIDE DEF sum
  <2>7. QED
    BY <2>2, <2>4, <2>5, <2>6
<1> HIDE DEF F, sum
<1>3. ASSUME F # {} PROVE FALSE
  <2>1. PICK T \in F : \A U \in F : U \subseteq T => U = T
    BY <1>1, <1>3, SmallestSubset
  <2>2. T \in SUBSET S /\ sum(T) # u * Cardinality(T)
    BY <2>1 DEF F
  <2>3. T # {}
    <3>1. sum({}) = 0 /\ Cardinality({}) = 0 /\ u * 0 = 0
      BY <1>2, FS_EmptySet
    <3>2. QED
      BY <2>2, <3>1
  <2> DEFINE U == T \ {Pick(T)}
  <2>4. U \in SUBSET S /\ U \notin F
    BY <1>2, <2>1, <2>2, <2>3
  <2>5. sum(U) = u * Cardinality(U) /\ Cardinality(U) \in Nat
    BY <1>2, <2>4 DEF F
  <2>6. sum(T) = u + sum(U) /\ Cardinality(T) = Cardinality(U) + 1
    BY <1>2, <2>2, <2>3
  <2> HIDE DEF U
  <2>7. u * (Cardinality(U) + 1) = u + u * Cardinality(U)
    BY <2>5
  <2>8. QED
    BY <2>2, <2>5, <2>6, <2>7
<1>4. S \notin F /\ S \in SUBSET S
  BY <1>3
<1>5. QED
  BY <1>4 DEF F, sum

\* The sum over one candidate.
LEMMA SingleSum ==
  ASSUME NEW x, NEW f, f[x] \in Int
  PROVE  SumFunctionOnSet(f, {x}) = f[x]
<1>1. IsFiniteSet({x}) /\ Cardinality({x}) = 1
  BY FS_Singleton
<1>2. QED
  BY <1>1, EqualSums

\* Sums of the same numbers are the same.
LEMMA SameSums ==
  ASSUME NEW S, IsFiniteSet(S), NEW f, NEW g,
         \A x \in S : f[x] \in Int /\ f[x] = g[x]
  PROVE  SumFunctionOnSet(f, S) = SumFunctionOnSet(g, S)
<1> DEFINE sum(h, T) == SumFunctionOnSet(h, T)
           F == {T \in SUBSET S : sum(f, T) # sum(g, T)}
<1>1. F \in SUBSET SUBSET S
  OBVIOUS
<1>2. \A T \in SUBSET S :
        /\ sum(f, T) = IF T = {} THEN 0 ELSE f[Pick(T)] + sum(f, T \ {Pick(T)})
        /\ sum(g, T) = IF T = {} THEN 0 ELSE g[Pick(T)] + sum(g, T \ {Pick(T)})
        /\ T # {} => Pick(T) \in T
  <2>1. TAKE T \in SUBSET S
  <2>2. IsFiniteSet(T)
    BY FS_Subset
  <2>3. \A x \in T : f[x] \in Int /\ g[x] \in Int
    OBVIOUS
  <2>4. QED
    BY <2>2, <2>3, SumFolds DEF Pick
<1> HIDE DEF F, sum
<1>3. ASSUME F # {} PROVE FALSE
  <2>1. PICK T \in F : \A U \in F : U \subseteq T => U = T
    BY <1>1, <1>3, SmallestSubset
  <2>2. T \in SUBSET S /\ sum(f, T) # sum(g, T)
    BY <2>1 DEF F
  <2>3. T # {} /\ Pick(T) \in T
    BY <1>2, <2>2
  <2>4. T \ {Pick(T)} \in SUBSET S /\ T \ {Pick(T)} \notin F
    BY <2>1, <2>2, <2>3
  <2>5. sum(f, T \ {Pick(T)}) = sum(g, T \ {Pick(T)})
    BY <2>4 DEF F
  <2>6. f[Pick(T)] = g[Pick(T)]
    BY <2>2, <2>3
  <2>7. QED
    BY <1>2, <2>2, <2>3, <2>5, <2>6
<1>4. S \notin F /\ S \in SUBSET S
  BY <1>3
<1>5. QED
  BY <1>4 DEF F, sum

\* Any member may be taken first.
LEMMA SumWithout ==
  ASSUME NEW S, IsFiniteSet(S), NEW f, \A x \in S : f[x] \in Int, NEW x \in S
  PROVE  SumFunctionOnSet(f, S) = f[x] + SumFunctionOnSet(f, S \ {x})
<1> DEFINE sum(T) == SumFunctionOnSet(f, T)
           F == {T \in SUBSET S : \E y \in T : sum(T) # f[y] + sum(T \ {y})}
<1>1. F \in SUBSET SUBSET S
  OBVIOUS
<1>2. \A T \in SUBSET S :
        /\ sum(T) \in Int
        /\ T # {} => Pick(T) \in T /\ sum(T) = f[Pick(T)] + sum(T \ {Pick(T)})
  <2>1. TAKE T \in SUBSET S
  <2>2. IsFiniteSet(T)
    BY FS_Subset
  <2>3. \A y \in T : f[y] \in Int
    OBVIOUS
  <2>4. QED
    BY <2>2, <2>3, SumFolds DEF Pick
<1> HIDE DEF F, sum
<1>3. ASSUME F # {} PROVE FALSE
  <2>1. PICK T \in F : \A U \in F : U \subseteq T => U = T
    BY <1>1, <1>3, SmallestSubset
  <2>2. PICK y \in T : sum(T) # f[y] + sum(T \ {y})
    BY <2>1 DEF F
  <2> DEFINE p == Pick(T)
  <2>3. T \in SUBSET S /\ p \in T /\ y \in T /\ f[p] \in Int /\ f[y] \in Int
    BY <1>1, <1>2, <2>1, <2>2
  <2>4. sum(T) = f[p] + sum(T \ {p})
    BY <1>2, <2>3
  <2> HIDE DEF p
  <2>5. p # y
    BY <2>2, <2>4
  <2>6. T \ {p} \in SUBSET S /\ T \ {y} \in SUBSET S /\ (T \ {p}) \ {y} \in SUBSET S
        /\ T \ {p} \notin F /\ T \ {y} \notin F
    BY <2>1, <2>3
  <2>7. sum(T \ {p}) = f[y] + sum((T \ {p}) \ {y})
    BY <2>3, <2>5, <2>6 DEF F
  <2>8. sum(T \ {y}) = f[p] + sum((T \ {y}) \ {p})
    BY <2>3, <2>5, <2>6 DEF F
  <2>9. sum((T \ {p}) \ {y}) = sum((T \ {y}) \ {p})
    <3>1. (T \ {p}) \ {y} = (T \ {y}) \ {p}
      OBVIOUS
    <3>2. QED
      BY <3>1
  <2>10. sum((T \ {p}) \ {y}) \in Int
    BY <1>2, <2>6
  <2>11. QED
    BY <2>2, <2>3, <2>4, <2>7, <2>8, <2>9, <2>10
<1>4. S \notin F /\ S \in SUBSET S
  BY <1>3
<1>5. QED
  BY <1>4 DEF F, sum

\* A sum splits into the sums of two parts.
LEMMA SumSplits ==
  ASSUME NEW S, IsFiniteSet(S), NEW f, \A x \in S : f[x] \in Int, NEW A \in SUBSET S
  PROVE  SumFunctionOnSet(f, S) = SumFunctionOnSet(f, A) + SumFunctionOnSet(f, S \ A)
<1> DEFINE sum(T) == SumFunctionOnSet(f, T)
           F == {T \in SUBSET A : sum(S) # sum(T) + sum(S \ T)}
           G == {A \ T : T \in F}
<1>1. \A T \in SUBSET S :
        /\ IsFiniteSet(T) /\ sum(T) \in Int
        /\ \A y \in T : sum(T) = f[y] + sum(T \ {y})
  <2>1. TAKE T \in SUBSET S
  <2>2. IsFiniteSet(T)
    BY FS_Subset
  <2>3. \A y \in T : f[y] \in Int
    OBVIOUS
  <2>4. sum(T) \in Int
    BY <2>2, <2>3, SumFolds
  <2>5. ASSUME NEW y \in T PROVE sum(T) = f[y] + sum(T \ {y})
    BY <2>2, <2>3, SumWithout
  <2>6. QED
    BY <2>2, <2>4, <2>5
<1>2. sum({}) = 0
  BY FS_EmptySet, SumFolds
<1>3. F \in SUBSET SUBSET A /\ IsFiniteSet(A)
  BY <1>1
<1> HIDE DEF F, sum
<1>4. ASSUME F # {} PROVE FALSE
  <2>1. PICK T \in F : \A U \in F : U \subseteq T => U = T
    BY <1>3, <1>4, SmallestSubset
  <2>2. T \in SUBSET A /\ T \in SUBSET S /\ sum(S) # sum(T) + sum(S \ T)
    BY <2>1 DEF F
  <2>3. T # {}
    <3>1. SUFFICES ASSUME T = {} PROVE FALSE
      OBVIOUS
    <3>2. S \ T = S /\ S \in SUBSET S
      BY <3>1
    <3>3. sum(S) \in Int /\ sum(T) = 0 /\ sum(S \ T) = sum(S)
      BY <1>1, <1>2, <3>1, <3>2
    <3>4. QED
      BY <2>2, <3>3
  <2>4. PICK y \in T : TRUE
    BY <2>3
  <2> DEFINE U == T \ {y}
             R == S \ T
             Q == S \ U
  <2>5. U \in SUBSET A /\ U \notin F /\ y \in Q /\ R = Q \ {y} /\ Q \in SUBSET S
        /\ R \in SUBSET S /\ U \in SUBSET S
    BY <2>1, <2>2, <2>4
  <2>6. sum(S) = sum(U) + sum(Q)
    BY <2>5 DEF F
  <2>7. sum(T) = f[y] + sum(U) /\ sum(Q) = f[y] + sum(R)
    BY <1>1, <2>2, <2>4, <2>5
  <2>8. f[y] \in Int /\ sum(U) \in Int /\ sum(R) \in Int
    BY <1>1, <2>2, <2>4, <2>5
  <2> HIDE DEF U, Q
  <2>9. sum(S) # sum(T) + sum(R)
    BY <2>2
  <2> HIDE DEF R
  <2>10. QED
    BY <2>6, <2>7, <2>8, <2>9
<1>5. A \in SUBSET A /\ A \notin F
  BY <1>4
<1>6. QED
  BY <1>5 DEF F, sum

\* A common factor of the members is one of the sum.
LEMMA SumScaled ==
  ASSUME NEW S, IsFiniteSet(S), NEW f, NEW g, NEW c \in Int,
         \A x \in S : f[x] \in Int /\ g[x] = f[x] * c
  PROVE  SumFunctionOnSet(g, S) = SumFunctionOnSet(f, S) * c
<1> DEFINE sum(h, T) == SumFunctionOnSet(h, T)
           F == {T \in SUBSET S : sum(g, T) # sum(f, T) * c}
<1>1. F \in SUBSET SUBSET S
  OBVIOUS
<1>2. \A T \in SUBSET S :
        /\ sum(f, T) \in Int /\ sum(g, T) \in Int
        /\ sum(f, T) = IF T = {} THEN 0 ELSE f[Pick(T)] + sum(f, T \ {Pick(T)})
        /\ sum(g, T) = IF T = {} THEN 0 ELSE g[Pick(T)] + sum(g, T \ {Pick(T)})
        /\ T # {} => Pick(T) \in T
  <2>1. TAKE T \in SUBSET S
  <2>2. IsFiniteSet(T)
    BY FS_Subset
  <2>3. \A x \in T : f[x] \in Int /\ g[x] \in Int
    OBVIOUS
  <2>4. QED
    BY <2>2, <2>3, SumFolds DEF Pick
<1> HIDE DEF F, sum
<1>3. ASSUME F # {} PROVE FALSE
  <2>1. PICK T \in F : \A U \in F : U \subseteq T => U = T
    BY <1>1, <1>3, SmallestSubset
  <2>2. T \in SUBSET S /\ sum(g, T) # sum(f, T) * c
    BY <2>1 DEF F
  <2>3. T # {} /\ Pick(T) \in T
    <3>1. 0 * c = 0
      OBVIOUS
    <3>2. QED
      BY <1>2, <2>2, <3>1
  <2> DEFINE x == Pick(T)
             U == T \ {x}
  <2>4. U \in SUBSET S /\ U \notin F
    BY <2>1, <2>2, <2>3
  <2>5. sum(g, U) = sum(f, U) * c /\ sum(f, U) \in Int /\ f[x] \in Int /\ g[x] = f[x] * c
    BY <1>2, <2>2, <2>3, <2>4 DEF F
  <2>6. sum(f, T) = f[x] + sum(f, U) /\ sum(g, T) = g[x] + sum(g, U)
    BY <1>2, <2>2, <2>3
  <2> HIDE DEF x, U
  <2>7. (f[x] + sum(f, U)) * c = f[x] * c + sum(f, U) * c
    BY <2>5
  <2>8. QED
    BY <2>2, <2>5, <2>6, <2>7
<1>4. S \notin F /\ S \in SUBSET S
  BY <1>3
<1>5. QED
  BY <1>4 DEF F, sum

\* A sum of numbers that are not negative is not negative, and no member is more.
LEMMA SumBounds ==
  ASSUME NEW S, IsFiniteSet(S), NEW f, \A x \in S : f[x] \in Nat
  PROVE  SumFunctionOnSet(f, S) \in Nat /\ \A x \in S : f[x] <= SumFunctionOnSet(f, S)
<1> DEFINE sum(T) == SumFunctionOnSet(f, T)
           F == {T \in SUBSET S : sum(T) \notin Nat}
<1>1. F \in SUBSET SUBSET S
  OBVIOUS
<1>2. \A T \in SUBSET S :
        /\ IsFiniteSet(T) /\ sum(T) \in Int
        /\ T = {} => sum(T) = 0
        /\ \A y \in T : sum(T) = f[y] + sum(T \ {y})
  <2>1. TAKE T \in SUBSET S
  <2>2. IsFiniteSet(T)
    BY FS_Subset
  <2>3. \A y \in T : f[y] \in Int
    OBVIOUS
  <2>4. sum(T) \in Int /\ (T = {} => sum(T) = 0)
    BY <2>2, <2>3, SumFolds
  <2>5. ASSUME NEW y \in T PROVE sum(T) = f[y] + sum(T \ {y})
    BY <2>2, <2>3, SumWithout
  <2>6. QED
    BY <2>2, <2>4, <2>5
<1> HIDE DEF F, sum
<1>3. ASSUME F # {} PROVE FALSE
  <2>1. PICK T \in F : \A U \in F : U \subseteq T => U = T
    BY <1>1, <1>3, SmallestSubset
  <2>2. T \in SUBSET S /\ sum(T) \notin Nat
    BY <2>1 DEF F
  <2>3. PICK y \in T : TRUE
    BY <1>2, <2>2
  <2>4. T \ {y} \in SUBSET S /\ T \ {y} \notin F /\ f[y] \in Nat
    BY <2>1, <2>2, <2>3
  <2>5. sum(T \ {y}) \in Nat
    BY <2>4 DEF F
  <2>6. QED
    BY <1>2, <2>2, <2>3, <2>4, <2>5
<1>4. \A T \in SUBSET S : sum(T) \in Nat
  BY <1>3 DEF F
<1>5. \A x \in S : f[x] <= sum(S)
  <2>1. TAKE x \in S
  <2>2. S \ {x} \in SUBSET S /\ S \in SUBSET S
    OBVIOUS
  <2>3. sum(S) = f[x] + sum(S \ {x}) /\ sum(S \ {x}) \in Nat /\ f[x] \in Nat
    BY <1>2, <1>4, <2>2
  <2>4. QED
    BY <2>3
<1>6. QED
  BY <1>4, <1>5 DEF sum

\* The sum of two measures is the sum of their sums.
LEMMA SumAdds ==
  ASSUME NEW S, IsFiniteSet(S), NEW f, NEW g, NEW h,
         \A x \in S : f[x] \in Int /\ g[x] \in Int /\ h[x] = f[x] + g[x]
  PROVE  SumFunctionOnSet(h, S) = SumFunctionOnSet(f, S) + SumFunctionOnSet(g, S)
<1> DEFINE sum(m, T) == SumFunctionOnSet(m, T)
           F == {T \in SUBSET S : sum(h, T) # sum(f, T) + sum(g, T)}
<1>1. F \in SUBSET SUBSET S
  OBVIOUS
<1>2. \A T \in SUBSET S :
        /\ sum(f, T) \in Int /\ sum(g, T) \in Int
        /\ sum(f, T) = IF T = {} THEN 0 ELSE f[Pick(T)] + sum(f, T \ {Pick(T)})
        /\ sum(g, T) = IF T = {} THEN 0 ELSE g[Pick(T)] + sum(g, T \ {Pick(T)})
        /\ sum(h, T) = IF T = {} THEN 0 ELSE h[Pick(T)] + sum(h, T \ {Pick(T)})
        /\ T # {} => Pick(T) \in T
  <2>1. TAKE T \in SUBSET S
  <2>2. IsFiniteSet(T)
    BY FS_Subset
  <2>3. \A x \in T : f[x] \in Int /\ g[x] \in Int /\ h[x] \in Int
    OBVIOUS
  <2>4. QED
    BY <2>2, <2>3, SumFolds DEF Pick
<1> HIDE DEF F, sum
<1>3. ASSUME F # {} PROVE FALSE
  <2>1. PICK T \in F : \A U \in F : U \subseteq T => U = T
    BY <1>1, <1>3, SmallestSubset
  <2>2. T \in SUBSET S /\ sum(h, T) # sum(f, T) + sum(g, T)
    BY <2>1 DEF F
  <2>3. T # {} /\ Pick(T) \in T
    BY <1>2, <2>2
  <2> DEFINE U == T \ {Pick(T)}
  <2>4. U \in SUBSET S /\ U \notin F
    BY <2>1, <2>2, <2>3
  <2>5. sum(h, U) = sum(f, U) + sum(g, U)
    BY <2>4 DEF F
  <2>6. /\ sum(f, T) = f[Pick(T)] + sum(f, U) /\ sum(g, T) = g[Pick(T)] + sum(g, U)
        /\ sum(h, T) = h[Pick(T)] + sum(h, U)
        /\ sum(f, U) \in Int /\ sum(g, U) \in Int
    BY <1>2, <2>2, <2>3, <2>4
  <2>7. f[Pick(T)] \in Int /\ g[Pick(T)] \in Int /\ h[Pick(T)] = f[Pick(T)] + g[Pick(T)]
    BY <2>2, <2>3
  <2>8. QED
    BY <2>2, <2>5, <2>6, <2>7
<1>4. S \notin F /\ S \in SUBSET S
  BY <1>3
<1>5. QED
  BY <1>4 DEF F, sum

\* A measure that is nowhere greater has no greater sum.
LEMMA SumCompares ==
  ASSUME NEW S, IsFiniteSet(S), NEW f, NEW g,
         \A x \in S : f[x] \in Int /\ g[x] \in Int /\ f[x] <= g[x]
  PROVE  SumFunctionOnSet(f, S) <= SumFunctionOnSet(g, S)
<1> DEFINE more == [x \in S |-> g[x] - f[x]]
<1>1. \A x \in S : more[x] \in Nat /\ more[x] \in Int /\ g[x] = f[x] + more[x]
  OBVIOUS
<1> HIDE DEF more
<1>2. SumFunctionOnSet(more, S) \in Nat
  BY <1>1, SumBounds
<1>3. SumFunctionOnSet(g, S) = SumFunctionOnSet(f, S) + SumFunctionOnSet(more, S)
  BY <1>1, SumAdds
<1>4. SumFunctionOnSet(f, S) \in Int
  BY SumFolds
<1>5. QED
  BY <1>2, <1>3, <1>4

\* What is not negative has no greater sum on fewer.
LEMMA SumOfFewer ==
  ASSUME NEW S, IsFiniteSet(S), NEW f, \A x \in S : f[x] \in Nat, NEW A \in SUBSET S
  PROVE  /\ SumFunctionOnSet(f, A) \in Nat /\ SumFunctionOnSet(f, S) \in Nat
         /\ SumFunctionOnSet(f, A) <= SumFunctionOnSet(f, S)
<1>1. IsFiniteSet(A) /\ IsFiniteSet(S \ A)
  BY FS_Subset
<1>2. SumFunctionOnSet(f, A) \in Nat /\ SumFunctionOnSet(f, S \ A) \in Nat
  <2>1. \A x \in A : f[x] \in Nat
    OBVIOUS
  <2>2. \A x \in S \ A : f[x] \in Nat
    OBVIOUS
  <2>3. QED
    BY <1>1, <2>1, <2>2, SumBounds
<1>3. SumFunctionOnSet(f, S) = SumFunctionOnSet(f, A) + SumFunctionOnSet(f, S \ A)
  <2>1. \A x \in S : f[x] \in Int
    OBVIOUS
  <2>2. QED
    BY <2>1, SumSplits
<1>4. QED
  BY <1>2, <1>3

\* Bounds of a measure are bounds of its sum.
LEMMA SumWithin ==
  ASSUME NEW S, IsFiniteSet(S), NEW f, \A x \in S : f[x] \in Int, NEW u \in Int
  PROVE  /\ (\A x \in S : f[x] <= u) => SumFunctionOnSet(f, S) <= u * Cardinality(S)
         /\ (\A x \in S : f[x] >= u) => SumFunctionOnSet(f, S) >= u * Cardinality(S)
<1> DEFINE all == [x \in S |-> u]
<1>1. \A x \in S : all[x] = u /\ all[x] \in Int
  OBVIOUS
<1> HIDE DEF all
<1>2. SumFunctionOnSet(all, S) = u * Cardinality(S)
  BY <1>1, EqualSums
<1>3. ASSUME \A x \in S : f[x] <= u
      PROVE  SumFunctionOnSet(f, S) <= SumFunctionOnSet(all, S)
  <2>1. \A x \in S : f[x] \in Int /\ all[x] \in Int /\ f[x] <= all[x]
    BY <1>1, <1>3
  <2>2. QED
    BY <2>1, SumCompares
<1>4. ASSUME \A x \in S : f[x] >= u
      PROVE  SumFunctionOnSet(all, S) <= SumFunctionOnSet(f, S)
  <2>1. \A x \in S : all[x] \in Int /\ f[x] \in Int /\ all[x] <= f[x]
    BY <1>1, <1>4
  <2>2. QED
    BY <2>1, SumCompares
<1>5. SumFunctionOnSet(f, S) \in Int /\ SumFunctionOnSet(all, S) \in Int
  BY <1>1, SumFolds
<1>6. QED
  BY <1>2, <1>3, <1>4, <1>5

\* A sum over keys of the sums of the members with that key.
LEMMA SumByKey ==
  ASSUME NEW S, IsFiniteSet(S), NEW f, \A x \in S : f[x] \in Int,
         NEW K, IsFiniteSet(K), NEW key, \A x \in S : key[x] \in K
  PROVE  SumFunctionOnSet([k \in K |-> SumFunctionOnSet(f, {x \in S : key[x] = k})], K)
           = SumFunctionOnSet(f, S)
<1> DEFINE sum(T) == SumFunctionOnSet(f, T)
           with(T, k) == {x \in T : key[x] = k}
           by(T) == [k \in K |-> sum(with(T, k))]
           F == {T \in SUBSET S : SumFunctionOnSet(by(T), K) # sum(T)}
<1>1. F \in SUBSET SUBSET S
  OBVIOUS
<1>2. \A T \in SUBSET S :
        /\ IsFiniteSet(T) /\ sum(T) \in Int
        /\ \A y \in T : sum(T) = f[y] + sum(T \ {y})
  <2>1. TAKE T \in SUBSET S
  <2>2. IsFiniteSet(T)
    BY FS_Subset
  <2>3. \A y \in T : f[y] \in Int
    OBVIOUS
  <2>4. sum(T) \in Int
    BY <2>2, <2>3, SumFolds
  <2>5. ASSUME NEW y \in T PROVE sum(T) = f[y] + sum(T \ {y})
    BY <2>2, <2>3, SumWithout
  <2>6. QED
    BY <2>2, <2>4, <2>5
<1>3. \A T \in SUBSET S, k \in K : with(T, k) \in SUBSET S /\ by(T)[k] = sum(with(T, k))
  OBVIOUS
<1>4. sum({}) = 0
  BY FS_EmptySet, SumFolds
<1> HIDE DEF sum
<1>5. \A T \in SUBSET S : \A k \in K : by(T)[k] \in Int
  BY <1>2, <1>3
<1>6. ASSUME F # {} PROVE FALSE
  <2>1. PICK T \in F : \A U \in F : U \subseteq T => U = T
    <3> HIDE DEF F
    <3>1. QED
      BY <1>1, <1>6, SmallestSubset
  <2>2. T \in SUBSET S /\ SumFunctionOnSet(by(T), K) # sum(T)
    BY <2>1
  <2>3. T # {}
    <3>1. SUFFICES ASSUME T = {} PROVE FALSE
      OBVIOUS
    <3>2. \A k \in K : by(T)[k] = 0
      <4>1. TAKE k \in K
      <4>2. with(T, k) = {}
        BY <3>1
      <4>3. QED
        BY <1>4, <4>2
    <3>3. SumFunctionOnSet(by(T), K) = 0 * Cardinality(K)
      <4> HIDE DEF by
      <4>1. QED
        BY <3>2, EqualSums
    <3>4. Cardinality(K) \in Nat
      BY FS_CardinalityType
    <3>5. QED
      BY <1>4, <2>2, <3>1, <3>3, <3>4
  <2>4. PICK y \in T : TRUE
    BY <2>3
  <2> DEFINE U == T \ {y}
             h == key[y]
  <2>5. U \in SUBSET S /\ U \notin F /\ h \in K /\ f[y] \in Int
    BY <2>1, <2>2, <2>4
  <2>6. SumFunctionOnSet(by(U), K) = sum(U)
    BY <2>5
  <2>7. by(T)[h] = f[y] + by(U)[h]
    <3>1. with(U, h) = with(T, h) \ {y} /\ y \in with(T, h)
      BY <2>4
    <3>2. sum(with(T, h)) = f[y] + sum(with(T, h) \ {y})
      BY <1>2, <1>3, <2>2, <2>5, <3>1
    <3>3. QED
      BY <1>3, <2>2, <2>5, <3>1, <3>2
  <2>8. \A k \in K \ {h} : by(T)[k] = by(U)[k]
    <3>1. TAKE k \in K \ {h}
    <3>2. with(U, k) = with(T, k)
      BY <2>4
    <3>3. QED
      BY <1>3, <2>2, <2>5, <3>2
  <2>9. IsFiniteSet(K \ {h})
    BY FS_RemoveElement
  <2>10. \A k \in K : by(T)[k] \in Int /\ by(U)[k] \in Int
    BY <1>5, <2>2, <2>5
  <2>11. sum(T) = f[y] + sum(U) /\ sum(U) \in Int
    BY <1>2, <2>2, <2>4, <2>5
  <2> HIDE DEF by, U, h
  <2>12. SumFunctionOnSet(by(T), K \ {h}) = SumFunctionOnSet(by(U), K \ {h})
    BY <2>8, <2>9, <2>10, SameSums
  <2>13. SumFunctionOnSet(by(T), K) = by(T)[h] + SumFunctionOnSet(by(T), K \ {h})
    BY <2>5, <2>10, SumWithout
  <2>14. SumFunctionOnSet(by(U), K) = by(U)[h] + SumFunctionOnSet(by(U), K \ {h})
    BY <2>5, <2>10, SumWithout
  <2>15. SumFunctionOnSet(by(U), K \ {h}) \in Int
    BY <2>9, <2>10, SumFolds
  <2>16. by(U)[h] \in Int
    BY <2>5, <2>10
  <2>17. QED
    BY <2>2, <2>5, <2>6, <2>7, <2>11, <2>12, <2>13, <2>14, <2>15, <2>16
<1>7. S \notin F /\ S \in SUBSET S
  BY <1>6
<1>8. SumFunctionOnSet(by(S), K) = sum(S)
  BY <1>7
<1>9. QED
  BY <1>8 DEF sum

\* A finite set of integers that is not empty has a greatest and a least member.
LEMMA FiniteExtremes ==
  ASSUME NEW S, \A x \in S : x \in Int, IsFiniteSet(S), S # {}
  PROVE  /\ Max(S) \in S /\ \A x \in S : Max(S) >= x
         /\ Min(S) \in S /\ \A x \in S : Min(S) <= x
<1> DEFINE Great(T) == \E m \in T : \A x \in T : m >= x
           Least(T) == \E m \in T : \A x \in T : m <= x
           F == {T \in SUBSET S : T # {} /\ ~(Great(T) /\ Least(T))}
<1>1. F \in SUBSET SUBSET S
  OBVIOUS
<1> HIDE DEF F
<1>2. ASSUME F # {} PROVE FALSE
  <2>1. PICK T \in F : \A U \in F : U \subseteq T => U = T
    BY <1>1, <1>2, SmallestSubset
  <2>2. T \subseteq Int /\ T \subseteq S /\ ~(Great(T) /\ Least(T))
    BY <2>1 DEF F
  <2>3. PICK y \in T : TRUE
    BY <2>1 DEF F
  <2>4. CASE T = {y}
    BY <2>2, <2>4
  <2>5. CASE T # {y}
    <3>1. Great(T \ {y}) /\ Least(T \ {y})
      <4>1. T \ {y} \in SUBSET S /\ T \ {y} # {} /\ T \ {y} # T
        BY <2>2, <2>3, <2>5
      <4>2. T \ {y} \notin F
        BY <2>1, <4>1
      <4>3. QED
        BY <4>1, <4>2 DEF F
    <3>2. PICK g \in T \ {y} : \A x \in T \ {y} : g >= x
      BY <3>1
    <3>3. PICK l \in T \ {y} : \A x \in T \ {y} : l <= x
      BY <3>1
    <3>4. Great(T)
      <4>1. CASE g >= y
        BY <2>2, <2>3, <3>2, <4>1
      <4>2. CASE ~(g >= y)
        BY <2>2, <2>3, <3>2, <4>2
      <4>3. QED
        BY <4>1, <4>2
    <3>5. Least(T)
      <4>1. CASE l <= y
        BY <2>2, <2>3, <3>3, <4>1
      <4>2. CASE ~(l <= y)
        BY <2>2, <2>3, <3>3, <4>2
      <4>3. QED
        BY <4>1, <4>2
    <3>6. QED
      BY <2>2, <3>4, <3>5
  <2>6. QED
    BY <2>4, <2>5
<1>3. Great(S) /\ Least(S)
  BY <1>2 DEF F
<1>4. QED
  BY <1>3 DEF Max, Min

\* Two members make a set of two at least.
LEMMA TwoMembers ==
  ASSUME NEW S, IsFiniteSet(S), NEW a \in S, NEW b \in S, a # b
  PROVE  Cardinality(S) >= 2 /\ Cardinality(S) \in Nat
<1>1. IsFiniteSet(S \ {a}) /\ Cardinality(S \ {a}) = Cardinality(S) - 1
  BY FS_RemoveElement
<1>2. S \ {a} # {}
  OBVIOUS
<1>3. Cardinality(S \ {a}) # 0
  BY <1>1, <1>2, FS_EmptySet
<1>4. QED
  BY <1>1, <1>3, FS_CardinalityType

\* Places in an array are finitely many numbers.
LEMMA Places ==
  ASSUME NEW n \in Nat, NEW S, S \subseteq 1..n
  PROVE  /\ IsFiniteSet(S) /\ Cardinality(S) \in Nat /\ Cardinality(S) <= n
         /\ \A k \in S : k \in Int /\ k \in Nat
<1>1. IsFiniteSet(1..n) /\ Cardinality(1..n) = n
  BY FS_Interval
<1>2. IsFiniteSet(S) /\ Cardinality(S) <= n
  BY <1>1, FS_Subset
<1>3. Cardinality(S) \in Nat
  BY <1>2, FS_CardinalityType
<1>4. QED
  BY <1>2, <1>3

\* What a sequence holds is finite.
LEMMA FiniteRange ==
  ASSUME NEW T, NEW s \in Seq(T)
  PROVE  IsFiniteSet(Range(s)) /\ Range(s) \subseteq T
<1>1. DOMAIN s = 1..Len(s) /\ Len(s) \in Nat /\ s \in [1..Len(s) -> T]
  OBVIOUS
<1>2. IsFiniteSet(1..Len(s))
  BY <1>1, FS_Interval
<1>3. s \in Surjection(1..Len(s), Range(s)) /\ Range(s) \subseteq T
  BY <1>1 DEF Surjection, Range
<1>4. QED
  BY <1>2, <1>3, FS_Surjection

\* The places of an array without the last.
LEMMA WithoutTheLast ==
  ASSUME NEW n \in Nat, NEW i \in 1..n
  PROVE  /\ 1..i \in SUBSET (1..n) /\ 1..i # {} /\ Max(1..i) = i
         /\ (1..i) \ {Max(1..i)} = 1..(i - 1) /\ i - 1 \in 0..n
<1>1. 1..i \in SUBSET (1..n) /\ i \in 1..i /\ i \in Int
  OBVIOUS
<1>2. IsFiniteSet(1..i) /\ 1..i # {} /\ \A j \in 1..i : j \in Int /\ j <= i
  <2>1. \A j \in 1..i : j \in Int /\ j <= i
    OBVIOUS
  <2>2. IsFiniteSet(1..i)
    BY <1>1, FS_Interval
  <2>3. QED
    BY <1>1, <2>1, <2>2
<1>3. Max(1..i) \in 1..i /\ Max(1..i) >= i
  <2> DEFINE S == 1..i
  <2>1. IsFiniteSet(S) /\ S # {} /\ (\A x \in S : x \in Int) /\ i \in S
    BY <1>1, <1>2
  <2> HIDE DEF S
  <2>2. Max(S) \in S /\ Max(S) >= i
    BY <2>1, FiniteExtremes
  <2>3. QED
    BY <2>2 DEF S
<1>4. Max(1..i) = i
  <2> DEFINE m == Max(1..i)
  <2>1. m \in Int /\ m <= i /\ m >= i
    BY <1>2, <1>3
  <2> HIDE DEF m
  <2>2. m = i
    BY <1>1, <2>1
  <2>3. QED
    BY <2>2 DEF m
<1>5. (1..i) \ {i} = 1..(i - 1) /\ i - 1 \in 0..n
  OBVIOUS
<1>6. (1..i) \ {Max(1..i)} = 1..(i - 1)
  BY <1>4, <1>5
<1>7. QED
  BY <1>1, <1>2, <1>4, <1>5, <1>6

\* The last of some places is one of them.
LEMMA LastPlace ==
  ASSUME NEW n \in Nat, NEW T \in SUBSET (1..n), T # {}
  PROVE  Max(T) \in T
<1> DEFINE S == 1..n
<1>1. IsFiniteSet(S) /\ \A x \in S : x \in Int
  BY FS_Interval
<1> HIDE DEF S
<1>2. T \in SUBSET S
  BY DEF S
<1>3. IsFiniteSet(T) /\ \A x \in T : x \in Int
  BY <1>1, <1>2, FS_Subset
<1>4. QED
  BY <1>3, FiniteExtremes

\* A fold that takes the last place first, as FoldLeft does, has a value.
LeftFolds(S, base, step, g) ==
  \A T \in SUBSET S : g[T] = IF T = {} THEN base ELSE step[Max(T)][g[T \ {Max(T)}]]

LEMMA LeftFoldExists ==
  ASSUME NEW n \in Nat, NEW S, S = 1..n, NEW V, NEW base \in V,
         NEW step, \A x \in S : \A v \in V : step[x][v] \in V
  PROVE  \E g \in [SUBSET S -> V] : LeftFolds(S, base, step, g)
<1> DEFINE pick == [T \in SUBSET S |-> Max(T)]
<1>1. IsFiniteSet(S)
  BY FS_Interval
<1>2. ASSUME NEW T \in SUBSET S, T # {} PROVE pick[T] \in T
  BY <1>2, LastPlace
<1>3. Picks(S, pick)
  BY <1>2 DEF Picks
<1>4. \A T \in SUBSET S : pick[T] = Max(T)
  OBVIOUS
<1> HIDE DEF pick
<1>5. PICK g \in [SUBSET S -> V] : Folds(S, pick, base, step, g)
  BY <1>1, <1>3, FoldExists
<1>6. LeftFolds(S, base, step, g)
  BY <1>4, <1>5 DEF Folds, LeftFolds
<1>7. QED
  BY <1>6

\* Strictly ordered: ahead[c] are those before c.
Orders(S, ahead) ==
  /\ ahead \in [S -> SUBSET S]
  /\ \A c \in S : c \notin ahead[c]
  /\ \A c \in S : \A d \in ahead[c] : ahead[d] \subseteq ahead[c]
  /\ \A c, d \in S : c # d => c \in ahead[d] \/ d \in ahead[c]

\* InOrder lists each member once, those before it first.
LEMMA InOrderSorts ==
  ASSUME NEW S, IsFiniteSet(S), NEW ahead, Orders(S, ahead)
  PROVE  /\ InOrder(S, ahead) \in Seq(S)
         /\ Len(InOrder(S, ahead)) = Cardinality(S)
         /\ DOMAIN InOrder(S, ahead) = 1..Cardinality(S)
         /\ ToSet(InOrder(S, ahead)) = S
         /\ \A i, j \in 1..Cardinality(S) :
              i < j => InOrder(S, ahead)[i] \in ahead[InOrder(S, ahead)[j]]
<1> DEFINE n == Cardinality(S)
           rank == [c \in S |-> Cardinality(ahead[c])]
           s == InOrder(S, ahead)
<1>1. n \in Nat
  BY FS_CardinalityType
<1>2. \A c \in S : IsFiniteSet(ahead[c]) /\ rank[c] \in 0..(n - 1)
  <2>1. TAKE c \in S
  <2>2. ahead[c] \in SUBSET S /\ ahead[c] # S
    BY DEF Orders
  <2>3. IsFiniteSet(ahead[c]) /\ Cardinality(ahead[c]) <= n /\ Cardinality(ahead[c]) # n
    BY <2>2, FS_Subset
  <2>4. Cardinality(ahead[c]) \in Nat
    BY <2>3, FS_CardinalityType
  <2>5. QED
    BY <1>1, <2>3, <2>4
<1>3. \A c, d \in S : d \in ahead[c] => rank[d] < rank[c]
  <2>1. TAKE c, d \in S
  <2>2. HAVE d \in ahead[c]
  <2>3. ahead[d] \in SUBSET ahead[c] /\ ahead[d] # ahead[c]
    BY <2>2 DEF Orders
  <2>4. Cardinality(ahead[d]) <= Cardinality(ahead[c]) /\ Cardinality(ahead[d]) # Cardinality(ahead[c])
    BY <1>2, <2>3, FS_Subset
  <2>5. QED
    BY <1>2, <2>4
<1>4. rank \in Injection(S, 0..(n - 1))
  <2>1. \A c, d \in S : rank[c] = rank[d] => c = d
    BY <1>2, <1>3 DEF Orders
  <2>2. rank \in [S -> 0..(n - 1)]
    BY <1>2
  <2>3. QED
    BY <2>1, <2>2 DEF Injection, IsInjective
<1>5. rank \in Surjection(S, 0..(n - 1))
  <2>1. IsFiniteSet(0..(n - 1)) /\ Cardinality(0..(n - 1)) = n
    BY <1>1, FS_Interval
  <2>2. QED
    BY <1>4, <2>1, FS_Injection
<1>6. \A k \in 1..n : s[k] \in S /\ rank[s[k]] = k - 1
  <2>1. TAKE k \in 1..n
  <2>2. \E c \in S : rank[c] = k - 1
    <3>1. \A t \in 0..(n - 1) : \E c \in S : rank[c] = t
      BY <1>5, Zenon DEF Surjection
    <3>2. k - 1 \in 0..(n - 1)
      BY <1>1
    <3>3. QED
      BY <3>1, <3>2, Zenon
  <2>3. s[k] = CHOOSE c \in S : Cardinality(ahead[c]) = k - 1
    BY DEF InOrder
  <2>4. QED
    BY <2>2, <2>3
<1>7. s \in [1..n -> S]
  BY <1>6 DEF InOrder
<1>8. s \in Seq(S) /\ Len(s) = n /\ DOMAIN s = 1..n
  BY <1>1, <1>7
<1>9. ToSet(s) = S
  <2>1. ASSUME NEW c \in S PROVE c \in ToSet(s)
    <3>1. rank[c] + 1 \in 1..n
      BY <1>1, <1>2
    <3>2. rank[s[rank[c] + 1]] = rank[c] /\ s[rank[c] + 1] \in S
      BY <1>1, <1>2, <1>6, <3>1
    <3>3. s[rank[c] + 1] = c
      BY <1>4, <3>2 DEF Injection, IsInjective
    <3>4. QED
      BY <1>8, <3>1, <3>3 DEF ToSet
  <2>2. QED
    BY <1>7, <1>8, <2>1 DEF ToSet
<1>10. \A i, j \in 1..n : i < j => s[i] \in ahead[s[j]]
  <2>1. TAKE i, j \in 1..n
  <2>2. HAVE i < j
  <2>3. s[i] # s[j] /\ ~(rank[s[j]] < rank[s[i]])
    BY <1>1, <1>6, <2>2
  <2>4. QED
    BY <1>3, <1>6, <2>3 DEF Orders
<1>11. QED
  BY <1>8, <1>9, <1>10

\* No two places hold the same.
Distinct(s) == \A i, j \in DOMAIN s : s[i] = s[j] => i = j

\* Ascending lists each number once, the smaller first.
LEMMA AscendingSorts ==
  ASSUME NEW I, IsFiniteSet(I), \A i \in I : i \in Int
  PROVE  /\ Ascending(I) \in Seq(I)
         /\ DOMAIN Ascending(I) = 1..Cardinality(I)
         /\ ToSet(Ascending(I)) = I
         /\ \A i, j \in 1..Cardinality(I) : i < j => Ascending(I)[i] < Ascending(I)[j]
<1> DEFINE ahead == [i \in I |-> {j \in I : j < i}]
<1>1. Orders(I, ahead)
  BY DEF Orders
<1>2. Ascending(I) = InOrder(I, ahead)
  BY DEF Ascending
<1>3. \A i \in I : \A j \in ahead[i] : j < i
  OBVIOUS
<1>4. \A i, j \in 1..Cardinality(I) : i < j => Ascending(I)[i] < Ascending(I)[j]
  <2>1. TAKE i, j \in 1..Cardinality(I)
  <2>2. HAVE i < j
  <2> HIDE DEF ahead
  <2>3. /\ InOrder(I, ahead)[i] \in ahead[InOrder(I, ahead)[j]]
        /\ InOrder(I, ahead)[j] \in I
    BY <1>1, <2>2, InOrderSorts DEF ToSet
  <2>4. QED
    BY <1>2, <1>3, <2>3
<1>5. QED
  <2> HIDE DEF ahead
  <2>1. QED
    BY <1>1, <1>2, <1>4, InOrderSorts

\* Some entries of an array, in its order: each once, and no others.
LEMMA SelectedIs ==
  ASSUME NEW T, NEW s \in Seq(T), NEW I, I \subseteq DOMAIN s
  PROVE  /\ IsFiniteSet(I) /\ Cardinality(I) \in Nat
         /\ Selected(s, I) \in Seq(T) /\ Len(Selected(s, I)) = Cardinality(I)
         /\ DOMAIN Selected(s, I) = 1..Cardinality(I)
         /\ \A k \in 1..Cardinality(I) :
              Ascending(I)[k] \in I /\ Selected(s, I)[k] = s[Ascending(I)[k]]
         /\ \A i \in I : \E k \in 1..Cardinality(I) : Ascending(I)[k] = i
         /\ \A j, k \in 1..Cardinality(I) : Ascending(I)[j] = Ascending(I)[k] => j = k
<1> DEFINE n == Cardinality(I)
           o == Ascending(I)
<1>1. DOMAIN s = 1..Len(s) /\ Len(s) \in Nat
  OBVIOUS
<1>2. IsFiniteSet(I) /\ n \in Nat /\ \A i \in I : i \in Int
  BY <1>1, Places
<1>3. o \in Seq(I) /\ DOMAIN o = 1..n /\ ToSet(o) = I
      /\ \A i, j \in 1..n : i < j => o[i] < o[j]
  BY <1>2, AscendingSorts
<1> HIDE DEF n, o
<1>4. \A k \in 1..n : o[k] \in I
  BY <1>3 DEF ToSet
<1>5. Selected(s, I) = [k \in 1..n |-> s[o[k]]]
  BY <1>3 DEF Selected, Entries, o
<1>6. \A k \in 1..n : s[o[k]] \in T
  BY <1>4
<1>7. Selected(s, I) \in Seq(T) /\ Len(Selected(s, I)) = n
  BY <1>2, <1>5, <1>6
<1>8. \A i \in I : \E k \in 1..n : o[k] = i
  BY <1>3 DEF ToSet
<1>9. \A j, k \in 1..n : o[j] = o[k] => j = k
  <2>1. TAKE j, k \in 1..n
  <2>2. o[j] \in Int /\ o[k] \in Int /\ j \in Int /\ k \in Int
    BY <1>2, <1>4
  <2>3. j < k \/ k < j \/ j = k
    BY <2>2
  <2>4. QED
    BY <1>3, <2>2, <2>3
<1>10. QED
  BY <1>2, <1>4, <1>5, <1>7, <1>8, <1>9 DEF n, o

\* All of them.
LEMMA SelectedAll ==
  ASSUME NEW T, NEW s \in Seq(T)
  PROVE  Selected(s, DOMAIN s) = s
<1> DEFINE n == Len(s)
           I == DOMAIN s
           ahead == [i \in I |-> {j \in I : j < i}]
<1>1. I = 1..n /\ n \in Nat
  OBVIOUS
<1>2. Cardinality(I) = n
  BY <1>1, FS_Interval
<1>3. \A c \in I : Cardinality(ahead[c]) = c - 1
  <2>1. TAKE c \in I
  <2>2. ahead[c] = 1..(c - 1) /\ c - 1 \in Nat /\ c \in Int
    BY <1>1
  <2> HIDE DEF ahead
  <2>3. ASSUME NEW k \in Nat PROVE Cardinality(1..k) = k
    BY FS_Interval
  <2>4. QED
    BY <2>2, <2>3
<1> HIDE DEF ahead
<1>4. Ascending(I) = [k \in 1..n |-> CHOOSE c \in I : Cardinality(ahead[c]) = k - 1]
  BY <1>2 DEF Ascending, InOrder, ahead
<1>5. \A k \in 1..n : (CHOOSE c \in I : Cardinality(ahead[c]) = k - 1) = k
  <2>1. TAKE k \in 1..n
  <2>2. k \in I /\ Cardinality(ahead[k]) = k - 1
    BY <1>1, <1>3
  <2>3. \A c \in I : Cardinality(ahead[c]) = k - 1 => c = k
    BY <1>1, <1>3
  <2>4. QED
    BY <2>2, <2>3
<1>6. Ascending(I) = [k \in 1..n |-> k]
  BY <1>4, <1>5
<1>7. Selected(s, I) = [k \in 1..n |-> s[k]]
  BY <1>6 DEF Selected, Entries
<1>8. QED
  BY <1>1, <1>7
=============================================================================
