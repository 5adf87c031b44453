-------------------------- MODULE TabulationProofs --------------------------
(***************************************************************************)
(* What holds of every tabulation, whatever the race and the votes: the    *)
(* inductive invariant of Tabulation, which says that every operator is    *)
(* applied where it has a value, and the properties that follow from it.   *)
(*                                                                         *)
(* Sorting and counting are by recursion over finite sets, so their lemmas *)
(* go by a smallest counterexample.                                        *)
(***************************************************************************)
EXTENDS Tabulation, SetFacts, TLAPS, FiniteSetTheorems, SequenceTheorems

------------------------------------------------------------------------------
(* Sets and lists. *)

\* A permutation keeps the size of a set.
LEMMA SameSize ==
  ASSUME NEW C, IsFiniteSet(C), NEW p \in Bijection(C, C),
         NEW A \in SUBSET C, NEW B, B = {p[x] : x \in A}
  PROVE  Cardinality(A) = Cardinality(B)
<1> DEFINE f == [x \in A |-> p[x]]
<1>1. /\ p \in [C -> C] /\ \A x, y \in C : p[x] = p[y] => x = y
  BY DEF Bijection, Injection, IsInjective
<1>2. f \in [A -> B] /\ \A x \in A : f[x] = p[x]
  BY <1>1
<1> HIDE DEF f
<1>3. f \in Bijection(A, B)
  BY <1>1, <1>2 DEF Bijection, Injection, Surjection, IsInjective
<1>4. ExistsBijection(A, B)
  BY <1>3 DEF ExistsBijection
<1>5. IsFiniteSet(A)
  BY FS_Subset
<1>6. QED
  BY <1>4, <1>5, FS_Bijection

------------------------------------------------------------------------------
(* Arrays in order. *)

\* Without keeps every other entry, each at one place if it had one place.
LEMMA WithoutKeeps ==
  ASSUME NEW T, NEW cs \in Seq(T), NEW S
  PROVE  /\ Without(cs, S) \in Seq(T)
         /\ ToSet(Without(cs, S)) = ToSet(cs) \ S
         /\ Distinct(cs) => Distinct(Without(cs, S))
<1> DEFINE I == {i \in DOMAIN cs : cs[i] \notin S}
           kept == Ascending(I)
<1>1. I \subseteq 1..Len(cs) /\ Len(cs) \in Nat
  OBVIOUS
<1>2. IsFiniteSet(I) /\ \A i \in I : i \in Int
  <2> HIDE DEF I
  <2>1. IsFiniteSet(1..Len(cs))
    BY <1>1, FS_Interval
  <2>2. IsFiniteSet(I)
    <3> DEFINE D == 1..Len(cs)
    <3> HIDE DEF D
    <3>1. I \in SUBSET D /\ IsFiniteSet(D)
      BY <1>1, <2>1 DEF D
    <3>2. QED
      BY <3>1, FS_Subset
  <2>3. QED
    BY <1>1, <2>2
<1>3. /\ kept \in Seq(I)
      /\ DOMAIN kept = 1..Cardinality(I) /\ Cardinality(I) \in Nat
      /\ ToSet(kept) = I
      /\ \A i, j \in 1..Cardinality(I) : i < j => kept[i] < kept[j]
  <2> HIDE DEF I
  <2>1. QED
    BY <1>2, AscendingSorts, FS_CardinalityType
<1>4. Without(cs, S) = [k \in 1..Cardinality(I) |-> cs[kept[k]]]
  BY <1>3 DEF Without
<1>5. \A k \in 1..Cardinality(I) : kept[k] \in I
  BY <1>3
<1>6. Without(cs, S) \in Seq(T)
  BY <1>3, <1>4, <1>5
<1>7. ToSet(Without(cs, S)) = ToSet(cs) \ S
  <2>1. ASSUME NEW x \in ToSet(cs) \ S PROVE x \in ToSet(Without(cs, S))
    <3>1. PICK i \in I : x = cs[i]
      BY <2>1 DEF ToSet
    <3>2. PICK k \in 1..Cardinality(I) : kept[k] = i
      BY <1>3, <3>1 DEF ToSet
    <3>3. QED
      BY <1>4, <3>1, <3>2 DEF ToSet
  <2>2. ASSUME NEW x \in ToSet(Without(cs, S)) PROVE x \in ToSet(cs) \ S
    BY <1>4, <1>5, <2>2 DEF ToSet
  <2>3. QED
    BY <2>1, <2>2
<1>8. ASSUME Distinct(cs) PROVE Distinct(Without(cs, S))
  <2>1. ASSUME NEW i \in 1..Cardinality(I), NEW j \in 1..Cardinality(I), i # j
        PROVE  cs[kept[i]] # cs[kept[j]]
    <3>1. kept[i] # kept[j]
      <4>1. kept[i] \in Int /\ kept[j] \in Int
        BY <1>1, <1>5
      <4>2. i < j \/ j < i
        BY <1>3, <2>1
      <4>3. QED
        BY <1>3, <4>1, <4>2
    <3>2. QED
      BY <1>5, <1>8, <3>1 DEF Distinct
  <2>2. QED
    BY <1>4, <2>1 DEF Distinct
<1>9. QED
  BY <1>6, <1>7, <1>8

\* sortCandidates: every candidate once, higher fields first, then by lot.
LEMMA SortedSorts ==
  ASSUME NEW S, IsFiniteSet(S), \A c \in S : c \in Int,
         NEW field, \A c \in S : field[c] \in Int
  PROVE  /\ Sorted(S, field) \in Seq(S)
         /\ Len(Sorted(S, field)) = Cardinality(S)
         /\ DOMAIN Sorted(S, field) = 1..Cardinality(S)
         /\ ToSet(Sorted(S, field)) = S
         /\ Distinct(Sorted(S, field))
         /\ \A i, j \in 1..Cardinality(S) : i < j =>
              LET a == Sorted(S, field)[i]
                  b == Sorted(S, field)[j]
              IN field[a] > field[b] \/ (field[a] = field[b] /\ a < b)
<1> DEFINE ahead == [c \in S |-> {d \in S :
              field[d] > field[c] \/ (field[d] = field[c] /\ d < c)}]
           s == Sorted(S, field)
<1>1. Orders(S, ahead)
  BY DEF Orders
<1>2. s = InOrder(S, ahead)
  BY DEF Sorted
<1>3. \A b \in S : \A a \in ahead[b] :
        field[a] > field[b] \/ (field[a] = field[b] /\ a < b)
  OBVIOUS
<1>4. /\ s \in Seq(S) /\ Len(s) = Cardinality(S)
      /\ DOMAIN s = 1..Cardinality(S) /\ ToSet(s) = S
      /\ \A i, j \in 1..Cardinality(S) : i < j => s[i] \in ahead[s[j]]
  <2> HIDE DEF ahead, s
  <2>1. QED
    BY <1>1, <1>2, InOrderSorts
<1>5. \A i, j \in 1..Cardinality(S) : i < j =>
        field[s[i]] > field[s[j]] \/ (field[s[i]] = field[s[j]] /\ s[i] < s[j])
  <2> HIDE DEF ahead, s
  <2>1. \A i \in 1..Cardinality(S) : s[i] \in S
    BY <1>4
  <2>2. QED
    BY <1>3, <1>4, <2>1
<1>6. Distinct(s)
  <2> HIDE DEF ahead, s
  <2>1. Cardinality(S) \in Nat
    BY FS_CardinalityType
  <2>2. \A i \in 1..Cardinality(S) : s[i] \in Int /\ field[s[i]] \in Int
    BY <1>4
  <2>3. \A i, j \in 1..Cardinality(S) : i < j => s[i] # s[j]
    BY <1>5, <2>2
  <2>4. QED
    BY <1>4, <2>1, <2>3 DEF Distinct
<1>7. QED
  BY <1>4, <1>5, <1>6

\* The first of a list in the order of a field is not below any.
LEMMA FirstLeads ==
  ASSUME NEW S, IsFiniteSet(S), \A c \in S : c \in Int, S # {},
         NEW field, \A c \in S : field[c] \in Int
  PROVE  /\ Sorted(S, field)[1] \in S
         /\ \A c \in S : field[Sorted(S, field)[1]] >= field[c]
<1> DEFINE cs == Sorted(S, field)
           n == Cardinality(S)
<1>1. n \in Nat /\ n # 0
  BY FS_CardinalityType, FS_EmptySet
<1>2. /\ DOMAIN cs = 1..n /\ ToSet(cs) = S
      /\ \A i, j \in 1..n : i < j =>
           field[cs[i]] > field[cs[j]] \/ (field[cs[i]] = field[cs[j]] /\ cs[i] < cs[j])
  BY SortedSorts
<1> HIDE DEF cs, n
<1>3. 1 \in 1..n /\ \A i \in 1..n : i # 1 => 1 < i
  BY <1>1
<1>4. \A i \in 1..n : cs[i] \in S
  BY <1>2 DEF ToSet
<1>5. ASSUME NEW c \in S PROVE field[cs[1]] >= field[c]
  <2>1. PICK i \in 1..n : c = cs[i]
    BY <1>2 DEF ToSet
  <2>2. QED
    BY <1>2, <1>3, <1>4, <2>1
<1>6. QED
  BY <1>3, <1>4, <1>5 DEF cs

\* A list has as many places as candidates.
LEMMA ListLength ==
  ASSUME NEW T, NEW s \in Seq(T), Distinct(s)
  PROVE  IsFiniteSet(ToSet(s)) /\ Cardinality(ToSet(s)) = Len(s)
<1>1. Len(s) \in Nat /\ DOMAIN s = 1..Len(s)
  OBVIOUS
<1>2. s \in [1..Len(s) -> ToSet(s)]
  BY <1>1 DEF ToSet
<1>3. s \in Bijection(1..Len(s), ToSet(s))
  BY <1>1, <1>2 DEF Bijection, Injection, Surjection, IsInjective, Distinct, ToSet
<1>4. ExistsBijection(1..Len(s), ToSet(s))
  BY <1>3 DEF ExistsBijection
<1>5. IsFiniteSet(1..Len(s)) /\ Cardinality(1..Len(s)) = Len(s)
  BY <1>1, FS_Interval
<1>6. QED
  BY <1>4, <1>5, FS_Bijection

\* A candidate is appended to a list that does not have it.
LEMMA Appended ==
  ASSUME NEW T, NEW s \in Seq(T), NEW x \in T
  PROVE  /\ Append(s, x) \in Seq(T) /\ Len(Append(s, x)) = Len(s) + 1
         /\ ToSet(Append(s, x)) = ToSet(s) \cup {x}
         /\ Append(s, x)[Len(s) + 1] = x /\ \A i \in 1..Len(s) : Append(s, x)[i] = s[i]
         /\ Distinct(s) /\ x \notin ToSet(s) => Distinct(Append(s, x))
<1> DEFINE z == Append(s, x)
<1>1. /\ z \in Seq(T) /\ Len(z) = Len(s) + 1 /\ Len(s) \in Nat
      /\ z[Len(s) + 1] = x /\ \A i \in 1..Len(s) : z[i] = s[i]
      /\ DOMAIN s = 1..Len(s) /\ DOMAIN z = 1..(Len(s) + 1)
  OBVIOUS
<1> HIDE DEF z
<1>2. ToSet(z) = ToSet(s) \cup {x}
  BY <1>1 DEF ToSet
<1>3. Distinct(s) /\ x \notin ToSet(s) => Distinct(z)
  BY <1>1 DEF ToSet, Distinct
<1>4. QED
  BY <1>1, <1>2, <1>3 DEF z

------------------------------------------------------------------------------
(* The tables. *)

\* A race, as PollsAssumption has it.
IsRace(r) ==
  /\ r \in [method : Bloc \cup {"IRV", "STV", "STAR_PR"}, cands : Nat,
            seats : Nat \ {0}, maxRank : Nat, skips : Nat]
  /\ r.seats <= r.cands /\ r.maxRank < 1000

\* The ballots of a race that count: a mark within bounds for every candidate.
IsTally(r, t) == t \in Seq([Cands(r) -> 0..TopMark(r)])

\* The candidates of a race are finitely many numbers.
LEMMA CandsFinite ==
  ASSUME NEW r, IsRace(r)
  PROVE  /\ IsFiniteSet(Cands(r)) /\ Cardinality(Cands(r)) = r.cands
         /\ \A c \in Cands(r) : c \in Int
         /\ r.cands \in Nat \ {0}
<1>1. r.cands \in Nat \ {0}
  BY DEF IsRace
<1>2. QED
  BY <1>1, FS_Interval DEF Cands

\* So are the ballots.
LEMMA BallotsFinite ==
  ASSUME NEW r, NEW t, IsTally(r, t)
  PROVE  /\ IsFiniteSet(DOMAIN t) /\ DOMAIN t = 1..Len(t) /\ Len(t) \in Nat
         /\ \A B \in SUBSET DOMAIN t : IsFiniteSet(B) /\ Cardinality(B) \in Nat
<1>1. DOMAIN t = 1..Len(t) /\ Len(t) \in Nat
  BY DEF IsTally
<1>2. IsFiniteSet(DOMAIN t)
  BY <1>1, FS_Interval
<1>3. QED
  BY <1>1, <1>2, FS_Subset, FS_CardinalityType

\* The tables hold numbers.
LEMMA TablesAreNumbers ==
  ASSUME NEW r, IsRace(r), NEW t, IsTally(r, t)
  PROVE  /\ \A a, b \in Cands(r) : PreferredOver(r, t, a, b) \in Nat
         /\ \A c \in Cands(r) : Score(t, c) \in Int
         /\ \A c \in Cands(r) : FiveStars(t, c) \in Nat
         /\ \A c \in Cands(r) : Copeland(r, t, c) \in Nat
<1>1. \A a, b \in Cands(r) : PreferredOver(r, t, a, b) \in Nat
  BY BallotsFinite DEF PreferredOver
<1>2. \A c \in Cands(r) : FiveStars(t, c) \in Nat
  BY BallotsFinite DEF FiveStars
<1>3. ASSUME NEW c \in Cands(r) PROVE Score(t, c) \in Int
  <2> DEFINE f == [i \in DOMAIN t |-> t[i][c]]
  <2>1. TopMark(r) \in Nat
    BY DEF IsRace, TopMark
  <2>2. \A i \in DOMAIN t : f[i] \in Int
    BY <1>3, <2>1 DEF IsTally
  <2>3. DOMAIN f = DOMAIN t
    OBVIOUS
  <2>4. SumFunctionOnSet(f, DOMAIN t) \in Int
    <3> HIDE DEF f
    <3>1. QED
      BY <2>2, BallotsFinite, SumFolds
  <2>5. QED
    BY <2>3, <2>4 DEF Score, SumFunction
<1>4. ASSUME NEW c \in Cands(r) PROVE Copeland(r, t, c) \in Nat
  <2>1. \A S \in SUBSET Cands(r) : Cardinality(S) \in Nat
    BY CandsFinite, FS_Subset, FS_CardinalityType
  <2>2. QED
    BY <2>1 DEF Copeland
<1>5. QED
  BY <1>1, <1>2, <1>3, <1>4

\* WinsAgainst is an asymmetric relation.
LEMMA WinsAsymmetric ==
  ASSUME NEW r, IsRace(r), NEW t, IsTally(r, t),
         NEW a \in Cands(r), NEW b \in Cands(r), WinsAgainst(r, t, a, b)
  PROVE  a # b /\ ~WinsAgainst(r, t, b, a)
  BY TablesAreNumbers DEF WinsAgainst

\* What the tables rank: each candidate of the race once.
Lists(r, cs) ==
  /\ cs \in Seq(Cands(r))
  /\ Distinct(cs)

\* The order every method starts from has every candidate.
LEMMA PreSortedLists ==
  ASSUME NEW r, IsRace(r), NEW t, IsTally(r, t)
  PROVE  /\ Lists(r, PreSorted(r, t))
         /\ ToSet(PreSorted(r, t)) = Cands(r)
         /\ Len(PreSorted(r, t)) = r.cands
<1>1. \A field : (\A c \in Cands(r) : field[c] \in Int) =>
        /\ Lists(r, Sorted(Cands(r), field))
        /\ ToSet(Sorted(Cands(r), field)) = Cands(r)
        /\ Len(Sorted(Cands(r), field)) = r.cands
  BY CandsFinite, SortedSorts DEF Lists
<1>2. CASE r.method \in {"STAR", "Approval", "Plurality"}
  <2> DEFINE field == [c \in Cands(r) |-> Score(t, c)]
  <2>1. \A c \in Cands(r) : field[c] \in Int
    BY TablesAreNumbers
  <2>2. PreSorted(r, t) = Sorted(Cands(r), field)
    BY <1>2 DEF PreSorted
  <2> HIDE DEF field
  <2>3. QED
    BY <1>1, <2>1, <2>2
<1>3. CASE r.method = "RankedRobin"
  <2> DEFINE field == [c \in Cands(r) |-> Copeland(r, t, c)]
  <2>1. \A c \in Cands(r) : field[c] \in Int
    BY TablesAreNumbers
  <2>2. PreSorted(r, t) = Sorted(Cands(r), field)
    BY <1>3 DEF PreSorted
  <2> HIDE DEF field
  <2>3. QED
    BY <1>1, <2>1, <2>2
<1>4. CASE r.method \notin {"STAR", "Approval", "Plurality", "RankedRobin"}
  <2>1. PreSorted(r, t) = [c \in 1..r.cands |-> c]
    BY <1>4 DEF PreSorted, Cands
  <2>2. QED
    BY <2>1, CandsFinite DEF Lists, Distinct, ToSet, Cands
<1>5. QED
  BY <1>2, <1>3, <1>4

\* A listed candidate is at one place, and some set of candidates.
LEMMA ListFacts ==
  ASSUME NEW r, IsRace(r), NEW cs, Lists(r, cs)
  PROVE  /\ DOMAIN cs = 1..Len(cs) /\ Len(cs) \in Nat
         /\ \A i \in 1..Len(cs) : cs[i] \in ToSet(cs) /\ cs[i] \in Cands(r)
         /\ ToSet(cs) \subseteq Cands(r)
         /\ \A S \in SUBSET ToSet(cs) :
              /\ IsFiniteSet(S) /\ Cardinality(S) \in Nat
              /\ S # {} => Min(S) \in S /\ \A c \in S : Min(S) <= c
<1>1. /\ DOMAIN cs = 1..Len(cs) /\ Len(cs) \in Nat
      /\ \A i \in 1..Len(cs) : cs[i] \in ToSet(cs) /\ cs[i] \in Cands(r)
  BY DEF Lists, ToSet
<1>2. ToSet(cs) \subseteq Cands(r)
  BY <1>1 DEF ToSet
<1>3. ASSUME NEW S \in SUBSET ToSet(cs)
      PROVE  /\ IsFiniteSet(S) /\ Cardinality(S) \in Nat
             /\ S # {} => Min(S) \in S /\ \A c \in S : Min(S) <= c
  <2>1. S \in SUBSET Cands(r) /\ \A c \in S : c \in Int
    BY <1>2, CandsFinite
  <2>2. IsFiniteSet(S)
    BY <2>1, CandsFinite, FS_Subset
  <2>3. QED
    BY <2>1, <2>2, FiniteExtremes, FS_CardinalityType
<1>4. QED
  BY <1>1, <1>2, <1>3

\* What is left of a list without its first or its last place.
LEMMA ShorterLists ==
  ASSUME NEW r, NEW cs, Lists(r, cs), cs # <<>>
  PROVE  /\ Lists(r, Tail(cs)) /\ Len(Tail(cs)) = Len(cs) - 1
         /\ ToSet(Tail(cs)) = ToSet(cs) \ {cs[1]}
         /\ Lists(r, Front(cs)) /\ Len(Front(cs)) = Len(cs) - 1
         /\ ToSet(Front(cs)) = ToSet(cs) \ {Last(cs)}
         /\ cs[1] \in ToSet(cs) /\ Last(cs) \in ToSet(cs)
<1> DEFINE n == Len(cs)
           C == Cands(r)
           tail == Tail(cs)
           front == Front(cs)
<1>1. /\ cs \in Seq(C) /\ Distinct(cs) /\ n \in Nat \ {0} /\ DOMAIN cs = 1..n
      /\ \A i \in 1..n : cs[i] \in C
  BY DEF Lists
<1>2. /\ tail \in Seq(C) /\ Len(tail) = n - 1 /\ DOMAIN tail = 1..(n - 1)
      /\ \A i \in 1..(n - 1) : tail[i] = cs[i + 1]
  BY <1>1
<1>3. /\ front \in Seq(C) /\ Len(front) = n - 1 /\ DOMAIN front = 1..(n - 1)
      /\ \A i \in 1..(n - 1) : front[i] = cs[i]
  BY <1>1 DEF Front
<1>4. Last(cs) = cs[n]
  BY DEF Last
<1> HIDE DEF n, C, tail, front
<1>5. Distinct(tail) /\ ToSet(tail) = ToSet(cs) \ {cs[1]}
  <2>1. Distinct(tail)
    <3> SUFFICES ASSUME NEW i \in 1..(n - 1), NEW j \in 1..(n - 1), tail[i] = tail[j]
                 PROVE  i = j
      BY <1>2 DEF Distinct
    <3>1. i + 1 \in 1..n /\ j + 1 \in 1..n /\ cs[i + 1] = cs[j + 1]
      BY <1>1, <1>2
    <3>2. QED
      BY <1>1, <3>1 DEF Distinct
  <2>2. ASSUME NEW c \in ToSet(tail) PROVE c \in ToSet(cs) \ {cs[1]}
    <3>1. PICK i \in 1..(n - 1) : c = tail[i]
      BY <1>2, <2>2 DEF ToSet
    <3>2. i + 1 \in 1..n /\ 1 \in 1..n /\ i + 1 # 1 /\ c = cs[i + 1]
      BY <1>1, <1>2, <3>1
    <3>3. QED
      BY <1>1, <3>2 DEF Distinct, ToSet
  <2>3. ASSUME NEW c \in ToSet(cs) \ {cs[1]} PROVE c \in ToSet(tail)
    <3>1. PICK i \in 1..n : c = cs[i]
      BY <1>1, <2>3 DEF ToSet
    <3>2. i # 1
      BY <2>3, <3>1
    <3>3. i - 1 \in 1..(n - 1) /\ tail[i - 1] = cs[i - 1 + 1] /\ i - 1 + 1 = i
      BY <1>1, <1>2, <3>1, <3>2
    <3>4. QED
      BY <1>2, <3>1, <3>3 DEF ToSet
  <2>4. QED
    BY <2>1, <2>2, <2>3
<1>6. Distinct(front) /\ ToSet(front) = ToSet(cs) \ {cs[n]}
  BY <1>1, <1>3 DEF Distinct, ToSet
<1>7. QED
  <2>1. cs[1] \in ToSet(cs) /\ cs[n] \in ToSet(cs)
    BY <1>1 DEF ToSet
  <2>2. QED
    BY <1>2, <1>3, <1>4, <1>5, <1>6, <2>1 DEF Lists, n, C, tail, front

------------------------------------------------------------------------------
(* One seat of a bloc tabulator. *)

\* The five-star tie break names the finalists that are missing.
LEMMA FiveStarPair ==
  ASSUME NEW r, IsRace(r), NEW t, IsTally(r, t), NEW first, NEW tied,
         tied \subseteq Cands(r), Cardinality(tied) >= 2,
         \/ first = <<>>
         \/ \E c \in Cands(r) \ tied : first = <<c>>
  PROVE  LET p == FiveStarFinalists(t, first, tied).pair
             five == Sorted(tied, [c \in tied |-> FiveStars(t, c)])
         IN /\ first = <<>> => p[1] = five[1] /\ p[2] = five[2]
            /\ first # <<>> => p[1] = first[1] /\ p[2] = five[1]
            /\ five[1] \in tied /\ five[2] \in tied /\ five[1] # five[2]
            /\ \A c \in tied : c # five[1] => FiveStars(t, five[1]) >= FiveStars(t, c)
            /\ \A c \in tied : c # five[1] /\ c # five[2] =>
                 FiveStars(t, five[2]) >= FiveStars(t, c)
<1> DEFINE stars == [c \in tied |-> FiveStars(t, c)]
           five == Sorted(tied, stars)
           n == Cardinality(tied)
           p == FiveStarFinalists(t, first, tied).pair
<1>1. IsFiniteSet(tied) /\ \A c \in tied : c \in Int
  BY CandsFinite, FS_Subset
<1>2. \A c \in tied : stars[c] = FiveStars(t, c) /\ stars[c] \in Int
  BY TablesAreNumbers
<1>3. n \in Nat
  BY <1>1, FS_CardinalityType
<1>4. /\ five \in Seq(tied) /\ Len(five) = n /\ DOMAIN five = 1..n
      /\ ToSet(five) = tied /\ Distinct(five)
      /\ \A i, j \in 1..n : i < j =>
           \/ stars[five[i]] > stars[five[j]]
           \/ stars[five[i]] = stars[five[j]] /\ five[i] < five[j]
  <2> HIDE DEF stars
  <2>1. QED
    BY <1>1, <1>2, SortedSorts
<1>5. p = first \o SubSeq(five, 1, 2 - Len(first))
  BY DEF FiveStarFinalists
<1> HIDE DEF p, five, stars
<1>6. 1 \in 1..n /\ 2 \in 1..n /\ five[1] \in tied /\ five[2] \in tied
  BY <1>3, <1>4
<1>7. five[1] # five[2]
  BY <1>4, <1>6 DEF Distinct
<1>8. \A i \in 1..n : five[i] \in tied /\ stars[five[i]] \in Int
  BY <1>2, <1>4
<1>9. \A c \in tied : \E i \in 1..n : c = five[i]
  BY <1>4 DEF ToSet
<1>10. \A c \in tied : c # five[1] => stars[five[1]] >= stars[c]
  BY <1>3, <1>4, <1>6, <1>8, <1>9
<1>11. \A c \in tied : c # five[1] /\ c # five[2] => stars[five[2]] >= stars[c]
  BY <1>3, <1>4, <1>6, <1>8, <1>9
<1>12. first = <<>> => p[1] = five[1] /\ p[2] = five[2]
  BY <1>3, <1>4, <1>5, <1>6
<1>13. first # <<>> => p[1] = first[1] /\ p[2] = five[1]
  BY <1>3, <1>4, <1>5, <1>6
<1>14. QED
  BY <1>2, <1>6, <1>7, <1>10, <1>11, <1>12, <1>13 DEF five, stars, p

\* What the help pages say of a finalist f and a candidate x who is none.
MayAdvance(r, t, S, f, x) ==
  LET level == {c \in S : Score(t, c) = Score(t, f)}
  IN \/ Score(t, f) > Score(t, x)
     \/ /\ Score(t, f) = Score(t, x)
        /\ IF /\ Cardinality(level) = 2
              /\ \E a, b \in level : WinsAgainst(r, t, a, b)
           THEN WinsAgainst(r, t, f, x)
           ELSE FiveStars(t, f) >= FiveStars(t, x)

\* The list is in the order of the scores.
ByScore(t, cs) ==
  \A i, j \in DOMAIN cs : i < j => Score(t, cs[i]) >= Score(t, cs[j])

\* The scoring round names two finalists, and the right ones when the list is
\* in the order of the scores.
LEMMA FinalistsAdvance ==
  ASSUME NEW r, IsRace(r), NEW t, IsTally(r, t), NEW cs, Lists(r, cs), Len(cs) >= 2
  PROVE  LET p == Finalists(r, t, cs).pair
         IN /\ p[1] \in ToSet(cs) /\ p[2] \in ToSet(cs) /\ p[1] # p[2]
            /\ ByScore(t, cs) =>
                 \A f \in {p[1], p[2]}, x \in ToSet(cs) \ {p[1], p[2]} :
                   MayAdvance(r, t, ToSet(cs), f, x)
<1> DEFINE p == Finalists(r, t, cs).pair
           second == Score(t, cs[2])
           tied == {c \in ToSet(cs) : Score(t, c) = second}
           better == {c \in tied : \E d \in tied : WinsAgainst(r, t, c, d)}
           first == IF Score(t, cs[1]) > second THEN <<cs[1]>> ELSE <<>>
           n == Len(cs)
           Advance == ByScore(t, cs) =>
                        \A f \in {p[1], p[2]}, x \in ToSet(cs) \ {p[1], p[2]} :
                          MayAdvance(r, t, ToSet(cs), f, x)
           Goal == p[1] \in ToSet(cs) /\ p[2] \in ToSet(cs) /\ p[1] # p[2] /\ Advance
<1>1. /\ n \in Nat /\ DOMAIN cs = 1..n /\ 1 \in 1..n /\ 2 \in 1..n
      /\ \A i \in 1..n : cs[i] \in ToSet(cs) /\ cs[i] \in Cands(r)
      /\ ToSet(cs) \subseteq Cands(r)
  BY ListFacts
<1>2. \A i, j \in 1..n : cs[i] = cs[j] => i = j
  BY <1>1 DEF Lists, Distinct
<1>3. \A c \in ToSet(cs) : Score(t, c) \in Int /\ FiveStars(t, c) \in Nat
  BY <1>1, TablesAreNumbers
<1>4. \A x \in ToSet(cs) : \E i \in 1..n : x = cs[i]
  BY <1>1 DEF ToSet
<1>5. tied \in SUBSET ToSet(cs) /\ IsFiniteSet(tied) /\ Cardinality(tied) \in Nat
  BY ListFacts
<1>6. ByScore(t, cs) => Score(t, cs[1]) >= second
  BY <1>1 DEF ByScore
<1>7. ByScore(t, cs) =>
        \A x \in ToSet(cs) \ {cs[1]} : second >= Score(t, x)
  <2>1. SUFFICES ASSUME ByScore(t, cs), NEW i \in 1..n, i # 1
                 PROVE  second >= Score(t, cs[i])
    BY <1>4
  <2>2. CASE i = 2
    BY <1>1, <1>3, <2>2
  <2>3. CASE i # 2
    BY <1>1, <2>1, <2>3 DEF ByScore
  <2>4. QED
    BY <2>2, <2>3
<1>8. CASE n = 2 \/ Score(t, cs[3]) # second
  <2>1. p = SubSeq(cs, 1, 2)
    <3>1. Finalists(r, t, cs) = [pair |-> SubSeq(cs, 1, 2), tie |-> "none"]
      BY <1>8, Zenon DEF Finalists
    <3>2. QED
      BY <3>1
  <2>2. p[1] = cs[1] /\ p[2] = cs[2]
    BY <1>1, <2>1 DEF Lists
  <2>3. ASSUME ByScore(t, cs), NEW x \in ToSet(cs) \ {cs[1], cs[2]}
        PROVE  Score(t, x) < second
    <3>1. PICK i \in 1..n : x = cs[i] /\ i > 2
      BY <1>1, <1>4, <2>3
    <3>2. 3 \in 1..n /\ Score(t, cs[3]) # second /\ Score(t, cs[3]) \in Int
      BY <1>1, <1>3, <1>8, <3>1
    <3>3. Score(t, cs[3]) <= second
      BY <1>1, <2>3, <3>2 DEF ByScore
    <3>4. Score(t, x) <= Score(t, cs[3])
      <4>1. CASE i = 3
        BY <1>3, <3>1, <3>2, <4>1
      <4>2. CASE i # 3
        BY <1>1, <2>3, <3>1, <3>2, <4>2 DEF ByScore
      <4>3. QED
        BY <4>1, <4>2
    <3>5. QED
      BY <1>1, <1>3, <3>2, <3>3, <3>4
  <2>4. Advance
    <3>1. SUFFICES ASSUME ByScore(t, cs), NEW f \in {cs[1], cs[2]},
                          NEW x \in ToSet(cs) \ {cs[1], cs[2]}
                   PROVE  MayAdvance(r, t, ToSet(cs), f, x)
      BY <2>2
    <3>2. Score(t, f) > Score(t, x)
      BY <1>1, <1>3, <1>6, <2>3, <3>1
    <3>3. QED
      BY <3>2 DEF MayAdvance
  <2>5. QED
    BY <1>1, <1>2, <2>2, <2>4
<1>9. CASE n # 2 /\ Score(t, cs[3]) = second
  <2>1. 3 \in 1..n /\ cs[2] \in tied /\ cs[3] \in tied /\ cs[2] # cs[3]
    BY <1>1, <1>2, <1>9
  <2>2. Cardinality(tied) >= 2
    BY <1>5, <2>1, TwoMembers
  <2>3. ASSUME cs[1] \in tied PROVE Cardinality(tied) >= 3
    <3>1. IsFiniteSet(tied \ {cs[1]}) /\ Cardinality(tied \ {cs[1]}) = Cardinality(tied) - 1
      BY <1>5, <2>3, FS_RemoveElement
    <3>2. cs[2] \in tied \ {cs[1]} /\ cs[3] \in tied \ {cs[1]}
      BY <1>1, <1>2, <2>1
    <3>3. Cardinality(tied \ {cs[1]}) >= 2
      BY <2>1, <3>1, <3>2, TwoMembers
    <3>4. QED
      BY <1>5, <3>1, <3>3
  <2>4. ByScore(t, cs) =>
          \A x \in ToSet(cs) \ {cs[1]} : x \in tied \/ second > Score(t, x)
    BY <1>1, <1>3, <1>7
  <2>5. ByScore(t, cs) => cs[1] \in tied \/ Score(t, cs[1]) > second
    BY <1>1, <1>3, <1>6
  <2>6. CASE Cardinality(tied) = 2 /\ better # {}
    <3> DEFINE b == CHOOSE c \in better : TRUE
    <3>1. p = <<cs[1], b>>
      BY <1>9, <2>6 DEF Finalists
    <3>2. b \in better
      BY <2>6
    <3>3. PICK d \in tied : WinsAgainst(r, t, b, d)
      BY <3>2
    <3>4. cs[1] \notin tied
      BY <2>3, <2>6
    <3>5. b # d /\ b \in tied
      BY <1>1, <3>2, <3>3, WinsAsymmetric
    <3>6. tied = {b, d}
      <4>1. \A x \in tied : x = b \/ x = d
        <5>1. SUFFICES ASSUME NEW x \in tied, x # b, x # d PROVE FALSE
          OBVIOUS
        <5>2. IsFiniteSet(tied \ {x}) /\ Cardinality(tied \ {x}) = Cardinality(tied) - 1
          BY <1>5, FS_RemoveElement
        <5>3. Cardinality(tied \ {x}) >= 2
          BY <3>3, <3>5, <5>1, <5>2, TwoMembers
        <5>4. QED
          BY <2>6, <5>2, <5>3
      <4>2. QED
        BY <3>3, <3>5, <4>1
    <3>7. Advance
      <4>1. SUFFICES ASSUME ByScore(t, cs), NEW f \in {cs[1], b},
                            NEW x \in ToSet(cs) \ {cs[1], b}
                     PROVE  MayAdvance(r, t, ToSet(cs), f, x)
        BY <3>1
      <4>2. Score(t, x) <= second /\ (x \in tied => x = d)
        BY <1>3, <1>7, <3>6, <4>1
      <4>3. CASE f = cs[1]
        <5>1. Score(t, f) > Score(t, x)
          BY <1>1, <1>3, <2>5, <3>4, <4>1, <4>2, <4>3
        <5>2. QED
          BY <5>1 DEF MayAdvance
      <4>4. CASE f = b /\ x # d
        <5>1. Score(t, f) > Score(t, x)
          BY <1>1, <1>3, <2>4, <3>5, <4>1, <4>2, <4>4
        <5>2. QED
          BY <5>1 DEF MayAdvance
      <4>5. CASE f = b /\ x = d
        <5>1. Score(t, f) = second /\ Score(t, x) = second
          BY <3>3, <3>5, <4>5
        <5>2. {c \in ToSet(cs) : Score(t, c) = Score(t, f)} = tied
          BY <5>1
        <5>3. QED
          BY <2>6, <3>3, <3>5, <4>5, <5>1, <5>2 DEF MayAdvance
      <4>6. QED
        BY <4>1, <4>3, <4>4, <4>5
    <3>8. QED
      BY <1>1, <3>1, <3>4, <3>5, <3>7
  <2>7. CASE ~(Cardinality(tied) = 2 /\ better # {})
    <3> DEFINE five == Sorted(tied, [c \in tied |-> FiveStars(t, c)])
               q == FiveStarFinalists(t, first, tied).pair
    <3>1. p = q
      BY <1>9, <2>7 DEF Finalists
    <3>2. first = <<>> \/ \E c \in Cands(r) \ tied : first = <<c>>
      BY <1>1, <1>3
    <3>3. /\ first = <<>> => q[1] = five[1] /\ q[2] = five[2]
          /\ first # <<>> => q[1] = first[1] /\ q[2] = five[1]
          /\ five[1] \in tied /\ five[2] \in tied /\ five[1] # five[2]
          /\ \A c \in tied : c # five[1] => FiveStars(t, five[1]) >= FiveStars(t, c)
          /\ \A c \in tied : c # five[1] /\ c # five[2] =>
               FiveStars(t, five[2]) >= FiveStars(t, c)
      <4>1. tied \subseteq Cands(r)
        BY <1>1
      <4> HIDE DEF tied, first
      <4>2. QED
        BY <2>2, <3>2, <4>1, FiveStarPair
    <3> HIDE DEF five, q
    <3>4. ASSUME ByScore(t, cs), NEW f \in tied, NEW x \in ToSet(cs),
                 x \notin tied => x # cs[1],
                 x \in tied => FiveStars(t, f) >= FiveStars(t, x)
          PROVE  MayAdvance(r, t, ToSet(cs), f, x)
      <4>1. CASE x \in tied
        <5>1. {c \in ToSet(cs) : Score(t, c) = Score(t, f)} = tied
          BY <3>4
        <5>2. ~(Cardinality(tied) = 2 /\ \E a, b \in tied : WinsAgainst(r, t, a, b))
          BY <2>7
        <5>3. QED
          BY <3>4, <4>1, <5>1, <5>2 DEF MayAdvance
      <4>2. CASE x \notin tied
        <5>1. Score(t, f) > Score(t, x)
          BY <1>3, <2>4, <3>4, <4>2
        <5>2. QED
          BY <5>1 DEF MayAdvance
      <4>3. QED
        BY <4>1, <4>2
    <3>5. CASE Score(t, cs[1]) > second
      <4>1. p[1] = cs[1] /\ p[2] = five[1] /\ cs[1] \notin tied
        BY <1>1, <1>3, <3>1, <3>3, <3>5
      <4>2. Advance
        <5>1. SUFFICES ASSUME ByScore(t, cs), NEW f \in {cs[1], five[1]},
                              NEW x \in ToSet(cs) \ {cs[1], five[1]}
                       PROVE  MayAdvance(r, t, ToSet(cs), f, x)
          BY <4>1
        <5>2. CASE f = cs[1]
          <6>1. Score(t, f) > Score(t, x)
            BY <1>1, <1>3, <1>7, <3>5, <5>1, <5>2
          <6>2. QED
            BY <6>1 DEF MayAdvance
        <5>3. CASE f = five[1]
          BY <3>3, <3>4, <5>1, <5>3
        <5>4. QED
          BY <5>1, <5>2, <5>3
      <4>3. QED
        BY <1>1, <3>3, <4>1, <4>2
    <3>6. CASE ~(Score(t, cs[1]) > second)
      <4>1. p[1] = five[1] /\ p[2] = five[2]
        BY <3>1, <3>3, <3>6
      <4>2. Advance
        <5>1. SUFFICES ASSUME ByScore(t, cs), NEW f \in {five[1], five[2]},
                              NEW x \in ToSet(cs) \ {five[1], five[2]}
                       PROVE  MayAdvance(r, t, ToSet(cs), f, x)
          BY <4>1
        <5>2. cs[1] \in tied
          BY <2>5, <3>6, <5>1
        <5>3. QED
          BY <3>3, <3>4, <5>1, <5>2
      <4>3. QED
        BY <3>3, <4>1, <4>2
    <3>7. QED
      BY <3>5, <3>6
  <2>8. QED
    BY <2>6, <2>7
<1>10. QED
  BY <1>8, <1>9

\* What the help pages say of the winner w of a runoff and the loser x.
MayWin(r, t, w, x) ==
  \/ WinsAgainst(r, t, w, x)
  \/ /\ ~WinsAgainst(r, t, x, w)
     /\ \/ Score(t, w) > Score(t, x)
        \/ Score(t, w) = Score(t, x) /\ FiveStars(t, w) >= FiveStars(t, x)

\* The runoff elects a finalist who may win it.
LEMMA RunoffWinner ==
  ASSUME NEW r, IsRace(r), NEW t, IsTally(r, t), NEW pair, NEW tie,
         pair[1] \in Cands(r), pair[2] \in Cands(r), pair[1] # pair[2]
  PROVE  LET w == Runoff(r, t, pair, tie).winner
         IN \/ w = pair[1] /\ MayWin(r, t, pair[1], pair[2])
            \/ w = pair[2] /\ MayWin(r, t, pair[2], pair[1])
<1> DEFINE l == pair[1]
           h == pair[2]
           w == Runoff(r, t, pair, tie).winner
           Goal == (w = l /\ MayWin(r, t, l, h)) \/ (w = h /\ MayWin(r, t, h, l))
<1>1. /\ Score(t, l) \in Int /\ Score(t, h) \in Int
      /\ FiveStars(t, l) \in Nat /\ FiveStars(t, h) \in Nat
  BY TablesAreNumbers
<1>2. CASE WinsAgainst(r, t, l, h)
  <2>1. ~WinsAgainst(r, t, h, l)
    BY <1>2, WinsAsymmetric
  <2>2. w = l
    BY <1>2, <2>1 DEF Runoff, Won
  <2>3. QED
    BY <1>2, <2>2 DEF MayWin
<1>3. CASE WinsAgainst(r, t, h, l)
  <2>1. ~WinsAgainst(r, t, l, h)
    BY <1>3, WinsAsymmetric
  <2>2. w = h
    BY <1>3, <2>1 DEF Runoff, Won
  <2>3. QED
    BY <1>3, <2>2 DEF MayWin
<1>4. CASE ~WinsAgainst(r, t, l, h) /\ ~WinsAgainst(r, t, h, l)
  <2>1. CASE Score(t, l) # Score(t, h)
    <3>1. w = IF Score(t, l) > Score(t, h) THEN l ELSE h
      BY <1>4, <2>1 DEF Runoff, Won
    <3>2. QED
      BY <1>1, <1>4, <2>1, <3>1 DEF MayWin
  <2>2. CASE Score(t, l) = Score(t, h) /\ FiveStars(t, l) # FiveStars(t, h)
    <3>1. w = IF FiveStars(t, l) > FiveStars(t, h) THEN l ELSE h
      BY <1>4, <2>2 DEF Runoff, Won
    <3>2. QED
      BY <1>1, <1>4, <2>2, <3>1 DEF MayWin
  <2>3. CASE Score(t, l) = Score(t, h) /\ FiveStars(t, l) = FiveStars(t, h)
    <3>1. w = Min({l, h})
      BY <1>4, <2>3 DEF Runoff, Won
    <3>2. w \in {l, h}
      <4> DEFINE two == {l, h}
      <4>1. IsFiniteSet({l} \cup {h}) /\ {l} \cup {h} = two
        BY FS_Singleton, FS_Union
      <4>2. two # {} /\ \A c \in two : c \in Int
        BY CandsFinite
      <4> HIDE DEF two
      <4>3. Min(two) \in two
        BY <4>1, <4>2, FiniteExtremes
      <4>4. QED
        BY <3>1, <4>3 DEF two
    <3>3. QED
      BY <1>1, <1>4, <2>3, <3>2 DEF MayWin
  <2>4. QED
    BY <2>1, <2>2, <2>3
<1>5. QED
  BY <1>2, <1>3, <1>4

\* A bloc round elects a candidate of the list.
LEMMA SingleWinnerListed ==
  ASSUME NEW r, IsRace(r), r.method \in Bloc, NEW t, IsTally(r, t),
         NEW cs, Lists(r, cs), cs # <<>>
  PROVE  SingleWinner(r, t, cs).winner \in ToSet(cs)
<1>1. /\ Len(cs) \in Nat /\ Len(cs) # 0 /\ DOMAIN cs = 1..Len(cs)
      /\ \A i \in 1..Len(cs) : cs[i] \in ToSet(cs)
  BY ListFacts DEF Lists
<1>2. cs[1] \in ToSet(cs)
  BY <1>1
<1>3. CASE r.method \in {"Approval", "Plurality"}
  BY <1>2, <1>3 DEF SingleWinner, MostScore, Won
<1>4. CASE r.method = "RankedRobin"
  <2> DEFINE tied == {c \in ToSet(cs) : Copeland(r, t, c) = Copeland(r, t, cs[1])}
             better == {c \in tied : \E d \in tied : WinsAgainst(r, t, c, d)}
  <2>1. Min(tied) \in tied
    BY <1>2, ListFacts
  <2>2. better # {} => (CHOOSE c \in better : TRUE) \in better
    OBVIOUS
  <2>3. SingleWinner(r, t, cs) = MostWins(r, t, cs)
    BY <1>4 DEF SingleWinner
  <2>4. MostWins(r, t, cs).winner \in
          {cs[1], Min(tied)} \cup (IF better # {} THEN {CHOOSE c \in better : TRUE} ELSE {})
    BY DEF MostWins, Won
  <2>5. QED
    BY <1>2, <2>1, <2>2, <2>3, <2>4
<1>5. CASE r.method = "STAR"
  <2>1. CASE Len(cs) = 1
    BY <1>2, <1>5, <2>1 DEF SingleWinner, Won
  <2>2. CASE Len(cs) # 1
    <3> DEFINE f == Finalists(r, t, cs)
    <3>1. SingleWinner(r, t, cs) = Runoff(r, t, f.pair, f.tie)
      BY <1>5, <2>2 DEF SingleWinner, StarWinner
    <3>2. f.pair[1] \in ToSet(cs) /\ f.pair[2] \in ToSet(cs) /\ f.pair[1] # f.pair[2]
      BY <1>1, <2>2, FinalistsAdvance
    <3> HIDE DEF f
    <3>3. f.pair[1] \in Cands(r) /\ f.pair[2] \in Cands(r)
      BY <3>2, ListFacts
    <3>4. QED
      BY <3>1, <3>2, <3>3, RunoffWinner
  <2>3. QED
    BY <2>1, <2>2
<1>6. QED
  BY <1>3, <1>4, <1>5 DEF Bloc

\* The list STAR starts from is in the order of the scores.
LEMMA StarStartsByScore ==
  ASSUME NEW r, IsRace(r), r.method = "STAR", NEW t, IsTally(r, t)
  PROVE  ByScore(t, PreSorted(r, t))
<1> DEFINE field == [c \in Cands(r) |-> Score(t, c)]
           s == Sorted(Cands(r), field)
<1>1. PreSorted(r, t) = s
  BY DEF PreSorted
<1>2. \A c \in Cands(r) : field[c] = Score(t, c) /\ field[c] \in Int
  BY TablesAreNumbers
<1>3. /\ s \in Seq(Cands(r)) /\ DOMAIN s = 1..Cardinality(Cands(r))
      /\ ToSet(s) = Cands(r)
      /\ \A i, j \in 1..Cardinality(Cands(r)) : i < j =>
           \/ field[s[i]] > field[s[j]]
           \/ field[s[i]] = field[s[j]] /\ s[i] < s[j]
  <2> HIDE DEF field
  <2>1. QED
    BY <1>2, CandsFinite, SortedSorts
<1> HIDE DEF field, s
<1>4. \A i \in DOMAIN s : s[i] \in Cands(r)
  BY <1>3 DEF ToSet
<1>5. QED
  BY <1>1, <1>2, <1>3, <1>4 DEF ByScore

------------------------------------------------------------------------------
(* Results that say how a tie was broken. *)

\* When the five-star tie break was enough, the finalists it names lead strictly.
LEMMA FiveStarLeads ==
  ASSUME NEW r, IsRace(r), NEW t, IsTally(r, t), NEW first, NEW tied,
         tied \subseteq Cands(r), Cardinality(tied) >= 2,
         \/ first = <<>>
         \/ \E c \in Cands(r) \ tied : first = <<c>>,
         FiveStarFinalists(t, first, tied).tie # "random"
  PROVE  LET p == FiveStarFinalists(t, first, tied).pair
         IN \A f \in {p[1], p[2]} \cap tied : \A c \in tied \ {p[1], p[2]} :
              FiveStars(t, f) > FiveStars(t, c)
<1> DEFINE stars == [c \in tied |-> FiveStars(t, c)]
           five == Sorted(tied, stars)
           n == Cardinality(tied)
           p == FiveStarFinalists(t, first, tied).pair
           need == 2 - Len(first)
<1>1. IsFiniteSet(tied) /\ \A c \in tied : c \in Int
  BY CandsFinite, FS_Subset
<1>2. \A c \in tied : stars[c] = FiveStars(t, c) /\ stars[c] \in Int
  BY TablesAreNumbers
<1>3. n \in Nat
  BY <1>1, FS_CardinalityType
<1>4. /\ DOMAIN five = 1..n /\ ToSet(five) = tied
      /\ \A i, j \in 1..n : i < j =>
           \/ stars[five[i]] > stars[five[j]]
           \/ stars[five[i]] = stars[five[j]] /\ five[i] < five[j]
  <2> HIDE DEF stars
  <2>1. QED
    BY <1>1, <1>2, SortedSorts
<1>5. \A i \in 1..need : FiveStars(t, five[i]) > FiveStars(t, five[i + 1])
  <2>1. FiveStarFinalists(t, first, tied).tie =
          IF \A i \in 1..need : FiveStars(t, five[i]) > FiveStars(t, five[i + 1])
          THEN "five_star" ELSE "random"
    BY DEF FiveStarFinalists
  <2>2. QED
    BY <2>1
<1>6. /\ first = <<>> => p[1] = five[1] /\ p[2] = five[2]
      /\ first # <<>> => p[1] = first[1] /\ p[2] = five[1]
      /\ five[1] \in tied /\ five[2] \in tied
  BY FiveStarPair
<1> HIDE DEF five, stars, p
<1>7. \A i \in 1..n : five[i] \in tied /\ stars[five[i]] \in Int
                      /\ stars[five[i]] = FiveStars(t, five[i])
  BY <1>2, <1>4 DEF ToSet
<1>8. \A c \in tied : \E i \in 1..n : c = five[i]
  BY <1>4 DEF ToSet
<1>9. CASE first = <<>>
  <2>1. FiveStars(t, five[2]) > FiveStars(t, five[3])
    BY <1>5, <1>9
  <2>2. FiveStars(t, five[1]) > FiveStars(t, five[2])
    BY <1>5, <1>9
  <2>3. ASSUME NEW c \in tied \ {five[1], five[2]}
        PROVE  FiveStars(t, five[2]) > FiveStars(t, c)
    <3>1. PICK i \in 1..n : c = five[i] /\ i # 1 /\ i # 2
      BY <1>8, <2>3
    <3>2. 3 \in 1..n /\ 2 \in 1..n /\ (i = 3 \/ 3 < i)
      BY <1>3, <3>1
    <3>3. stars[five[3]] >= stars[c]
      BY <1>4, <1>7, <3>1, <3>2
    <3>4. QED
      BY <1>2, <1>7, <2>1, <2>3, <3>2, <3>3
  <2>4. ASSUME NEW c \in tied \ {five[1], five[2]}
        PROVE  FiveStars(t, five[1]) > FiveStars(t, c)
    BY <1>2, <1>6, <2>2, <2>3, <2>4
  <2>5. QED
    BY <1>6, <1>9, <2>3, <2>4 DEF p
<1>10. CASE first # <<>>
  <2>1. PICK x \in Cands(r) \ tied : first = <<x>>
    BY <1>10
  <2>2. p[1] = x /\ p[2] = five[1] /\ need = 1
    BY <1>6, <1>10, <2>1
  <2>3. FiveStars(t, five[1]) > FiveStars(t, five[2])
    BY <1>5, <2>2
  <2>4. ASSUME NEW c \in tied \ {five[1]}
        PROVE  FiveStars(t, five[1]) > FiveStars(t, c)
    <3>1. PICK i \in 1..n : c = five[i] /\ i # 1
      BY <1>8, <2>4
    <3>2. 1 \in 1..n /\ 2 \in 1..n /\ (i = 2 \/ 2 < i)
      BY <1>3, <3>1
    <3>3. stars[five[2]] >= stars[c]
      BY <1>4, <1>7, <3>1, <3>2
    <3>4. QED
      BY <1>2, <1>7, <2>3, <2>4, <3>2, <3>3
  <2>5. QED
    BY <2>1, <2>2, <2>4 DEF p
<1>11. QED
  BY <1>9, <1>10

\* A scoring round that was not drawn has no other pair of finalists.
LEMMA FinalistsDecided ==
  ASSUME NEW r, IsRace(r), NEW t, IsTally(r, t), NEW cs, Lists(r, cs), Len(cs) >= 2,
         ByScore(t, cs), Finalists(r, t, cs).tie # "random"
  PROVE  LET p == Finalists(r, t, cs).pair
         IN \A f \in {p[1], p[2]}, x \in ToSet(cs) \ {p[1], p[2]} :
              ~MayAdvance(r, t, ToSet(cs), x, f)
<1> DEFINE p == Finalists(r, t, cs).pair
           second == Score(t, cs[2])
           tied == {c \in ToSet(cs) : Score(t, c) = second}
           better == {c \in tied : \E d \in tied : WinsAgainst(r, t, c, d)}
           first == IF Score(t, cs[1]) > second THEN <<cs[1]>> ELSE <<>>
           n == Len(cs)
           level(f) == {c \in ToSet(cs) : Score(t, c) = Score(t, f)}
           rule(f) == Cardinality(level(f)) = 2 /\ \E a, b \in level(f) : WinsAgainst(r, t, a, b)
<1>1. /\ n \in Nat /\ DOMAIN cs = 1..n /\ 1 \in 1..n /\ 2 \in 1..n
      /\ \A i \in 1..n : cs[i] \in ToSet(cs) /\ cs[i] \in Cands(r)
      /\ ToSet(cs) \subseteq Cands(r)
  BY ListFacts
<1>2. \A c \in ToSet(cs) : Score(t, c) \in Int /\ FiveStars(t, c) \in Nat
  BY <1>1, TablesAreNumbers
<1>3. \A i, j \in 1..n : i < j => Score(t, cs[i]) >= Score(t, cs[j])
  BY <1>1 DEF ByScore
<1>4. Score(t, cs[1]) >= second /\ \A x \in ToSet(cs) \ {cs[1]} : second >= Score(t, x)
  <2>1. Score(t, cs[1]) >= second
    BY <1>1, <1>3
  <2>2. ASSUME NEW x \in ToSet(cs) \ {cs[1]} PROVE second >= Score(t, x)
    <3>1. PICK i \in 1..n : x = cs[i] /\ i # 1
      BY <1>1, <2>2 DEF ToSet
    <3>2. i = 2 \/ 2 < i
      BY <3>1
    <3>3. QED
      BY <1>1, <1>2, <1>3, <3>1, <3>2
  <2>3. QED
    BY <2>1, <2>2
<1> SUFFICES ASSUME NEW f \in {p[1], p[2]}, NEW x \in ToSet(cs) \ {p[1], p[2]},
                    MayAdvance(r, t, ToSet(cs), x, f)
             PROVE  FALSE
  OBVIOUS
<1>5. f \in ToSet(cs) /\ f \in Cands(r) /\ x \in Cands(r) /\ MayAdvance(r, t, ToSet(cs), f, x)
  BY <1>1, FinalistsAdvance
<1>6. Score(t, f) = Score(t, x) /\ ~rule(f) /\ FiveStars(t, f) = FiveStars(t, x)
  <2>1. Score(t, f) = Score(t, x)
    BY <1>2, <1>5 DEF MayAdvance
  <2>2. level(f) = level(x)
    BY <2>1
  <2> HIDE DEF level
  <2>3. IF rule(f) THEN WinsAgainst(r, t, f, x) ELSE FiveStars(t, f) >= FiveStars(t, x)
    BY <1>2, <1>5, <2>1 DEF MayAdvance, level
  <2>4. IF rule(x) THEN WinsAgainst(r, t, x, f) ELSE FiveStars(t, x) >= FiveStars(t, f)
    BY <1>2, <1>5, <2>1 DEF MayAdvance, level
  <2>5. ~rule(f)
    BY <1>5, <2>2, <2>3, <2>4, WinsAsymmetric
  <2>6. QED
    BY <1>2, <1>5, <2>1, <2>2, <2>3, <2>4, <2>5
<1>7. f \in tied => x \in tied /\ level(f) = tied
  BY <1>6
<1>8. CASE n = 2 \/ Score(t, cs[3]) # second
  <2>1. p = SubSeq(cs, 1, 2)
    <3>1. Finalists(r, t, cs) = [pair |-> SubSeq(cs, 1, 2), tie |-> "none"]
      BY <1>8, Zenon DEF Finalists
    <3>2. QED
      BY <3>1
  <2>2. p[1] = cs[1] /\ p[2] = cs[2]
    BY <1>1, <2>1 DEF Lists
  <2> HIDE DEF p
  <2>3. PICK i \in 1..n : x = cs[i] /\ i > 2
    <3>1. PICK i \in 1..n : x = cs[i]
      BY <1>1 DEF ToSet
    <3>2. i # 1 /\ i # 2
      BY <2>2, <3>1
    <3>3. QED
      BY <3>1, <3>2
  <2>4. 3 \in 1..n /\ Score(t, cs[3]) # second /\ (i = 3 \/ 3 < i)
    BY <1>1, <1>8, <2>3
  <2>5. Score(t, cs[3]) < second /\ Score(t, x) <= Score(t, cs[3])
    BY <1>1, <1>2, <1>3, <2>3, <2>4
  <2>6. Score(t, f) >= second
    BY <1>1, <1>2, <1>4, <2>2
  <2>7. QED
    BY <1>1, <1>2, <1>5, <1>6, <2>4, <2>5, <2>6
<1>9. CASE n # 2 /\ Score(t, cs[3]) = second
  <2>1. 3 \in 1..n /\ cs[2] \in tied /\ cs[3] \in tied /\ cs[2] # cs[3]
    BY <1>1, <1>9 DEF Lists, Distinct
  <2>2. f = cs[1] => f \in tied
    <3>1. x # f
      OBVIOUS
    <3> HIDE DEF p
    <3>2. SUFFICES ASSUME f = cs[1] PROVE Score(t, f) = second
      BY <1>5
    <3>3. x \in ToSet(cs) \ {cs[1]}
      BY <3>1, <3>2
    <3>4. Score(t, f) >= second /\ second >= Score(t, x)
      BY <1>4, <3>2, <3>3
    <3>5. QED
      BY <1>1, <1>2, <1>5, <1>6, <3>4
  <2>3. CASE Cardinality(tied) = 2 /\ better # {}
    <3>1. ~(f \in tied)
      BY <1>6, <1>7, <2>3
    <3>2. p = <<cs[1], CHOOSE c \in better : TRUE>>
      BY <1>9, <2>3 DEF Finalists
    <3>3. (CHOOSE c \in better : TRUE) \in tied
      BY <2>3
    <3>4. QED
      BY <2>2, <3>1, <3>2, <3>3
  <2>4. CASE ~(Cardinality(tied) = 2 /\ better # {})
    <3> DEFINE fin == FiveStarFinalists(t, first, tied)
               q == fin.pair
    <3>1. Finalists(r, t, cs) = fin
      BY <1>9, <2>4 DEF Finalists
    <3>2. first = <<>> \/ \E c \in Cands(r) \ tied : first = <<c>>
      BY <1>1, <1>2
    <3>3. Cardinality(tied) >= 2
      <4>1. tied \in SUBSET ToSet(cs)
        OBVIOUS
      <4>2. IsFiniteSet(tied)
        BY <4>1, ListFacts
      <4>3. QED
        BY <2>1, <4>2, TwoMembers
    <3>4. /\ \A g \in {q[1], q[2]} \cap tied : \A c \in tied \ {q[1], q[2]} :
               FiveStars(t, g) > FiveStars(t, c)
          /\ {q[1], q[2]} \subseteq tied \cup {cs[1]}
      <4>1. tied \subseteq Cands(r) /\ fin.tie # "random"
        BY <1>1, <3>1
      <4>2. first # <<>> => first[1] = cs[1]
        OBVIOUS
      <4> HIDE DEF tied, first
      <4>3. \A g \in {q[1], q[2]} \cap tied : \A c \in tied \ {q[1], q[2]} :
              FiveStars(t, g) > FiveStars(t, c)
        BY <3>2, <3>3, <4>1, FiveStarLeads
      <4>4. {q[1], q[2]} \subseteq tied \cup {cs[1]}
        <5> DEFINE five == Sorted(tied, [c \in tied |-> FiveStars(t, c)])
        <5>1. /\ first = <<>> => q[1] = five[1] /\ q[2] = five[2]
              /\ first # <<>> => q[1] = first[1] /\ q[2] = five[1]
              /\ five[1] \in tied /\ five[2] \in tied
          BY <3>2, <3>3, <4>1, FiveStarPair
        <5> HIDE DEF five, q
        <5>2. QED
          BY <4>2, <5>1
      <4>5. QED
        BY <4>3, <4>4
    <3>5. p = q
      BY <3>1
    <3> HIDE DEF p, q, tied
    <3>6. f \in tied
      BY <2>2, <3>4, <3>5
    <3>7. FiveStars(t, f) > FiveStars(t, x)
      BY <1>7, <3>4, <3>5, <3>6
    <3>8. QED
      BY <1>2, <1>5, <1>6, <3>7
  <2>5. QED
    BY <2>3, <2>4
<1>10. QED
  BY <1>8, <1>9

\* A runoff that was not drawn has no other winner.
LEMMA RunoffDecided ==
  ASSUME NEW r, IsRace(r), NEW t, IsTally(r, t), NEW pair, NEW tie,
         pair[1] \in Cands(r), pair[2] \in Cands(r), pair[1] # pair[2],
         Runoff(r, t, pair, tie).tie # "random"
  PROVE  LET w == Runoff(r, t, pair, tie).winner
         IN /\ tie # "random"
            /\ w = pair[1] => ~MayWin(r, t, pair[2], pair[1])
            /\ w = pair[2] => ~MayWin(r, t, pair[1], pair[2])
<1> DEFINE l == pair[1]
           h == pair[2]
           run == Runoff(r, t, pair, tie)
           w == run.winner
<1>1. /\ Score(t, l) \in Int /\ Score(t, h) \in Int
      /\ FiveStars(t, l) \in Nat /\ FiveStars(t, h) \in Nat
  BY TablesAreNumbers
<1>2. /\ MoreExtreme("random", "score") = "random"
      /\ MoreExtreme("random", "five_star") = "random"
  <2> DEFINE priority == <<"none", "score", "head_to_head", "five_star", "random">>
             at(x) == CHOOSE i \in DOMAIN priority : priority[i] = x
  <2>1. at("random") = 5 /\ at("score") = 2 /\ at("five_star") = 4
    <3>1. DOMAIN priority = 1..5
      OBVIOUS
    <3>2. \A i \in 1..5 : /\ priority[i] = "random" <=> i = 5
                          /\ priority[i] = "score" <=> i = 2
                          /\ priority[i] = "five_star" <=> i = 4
      OBVIOUS
    <3> HIDE DEF priority
    <3>3. QED
      BY <3>1, <3>2
  <2>2. QED
    BY <2>1 DEF MoreExtreme
<1>3. CASE WinsAgainst(r, t, l, h)
  <2>1. ~WinsAgainst(r, t, h, l)
    BY <1>3, WinsAsymmetric
  <2>2. run = Won(l, tie)
    BY <1>3, <2>1 DEF Runoff
  <2>3. QED
    BY <1>3, <2>1, <2>2 DEF MayWin, Won
<1>4. CASE WinsAgainst(r, t, h, l)
  <2>1. ~WinsAgainst(r, t, l, h)
    BY <1>4, WinsAsymmetric
  <2>2. run = Won(h, tie)
    BY <1>4, <2>1 DEF Runoff
  <2>3. QED
    BY <1>4, <2>1, <2>2 DEF MayWin, Won
<1>5. CASE ~WinsAgainst(r, t, l, h) /\ ~WinsAgainst(r, t, h, l)
  <2>1. CASE Score(t, l) # Score(t, h)
    <3>1. run = Won(IF Score(t, l) > Score(t, h) THEN l ELSE h, MoreExtreme(tie, "score"))
      BY <1>5, <2>1 DEF Runoff
    <3>2. QED
      BY <1>1, <1>2, <1>5, <2>1, <3>1 DEF MayWin, Won
  <2>2. CASE Score(t, l) = Score(t, h) /\ FiveStars(t, l) # FiveStars(t, h)
    <3>1. run = Won(IF FiveStars(t, l) > FiveStars(t, h) THEN l ELSE h,
                    MoreExtreme(tie, "five_star"))
      BY <1>5, <2>2 DEF Runoff
    <3>2. QED
      BY <1>1, <1>2, <1>5, <2>2, <3>1 DEF MayWin, Won
  <2>3. CASE Score(t, l) = Score(t, h) /\ FiveStars(t, l) = FiveStars(t, h)
    <3>1. run = Won(Min({l, h}), "random")
      BY <1>5, <2>3 DEF Runoff
    <3>2. QED
      BY <3>1 DEF Won
  <2>4. QED
    BY <2>1, <2>2, <2>3
<1>6. QED
  BY <1>3, <1>4, <1>5

\* The first STAR seat of a race, and what a tie break that was enough says of it.
LEMMA StarSeat ==
  ASSUME NEW r, IsRace(r), r.method = "STAR", r.cands > 1, NEW t, IsTally(r, t)
  PROVE  LET won == SingleWinner(r, t, PreSorted(r, t))
             C == Cands(r)
         IN \E x \in C \ {won.winner} :
              /\ won.winner \in C
              /\ MayWin(r, t, won.winner, x)
              /\ \A f \in {won.winner, x}, y \in C \ {won.winner, x} :
                   MayAdvance(r, t, C, f, y)
              /\ won.tie # "random" =>
                   /\ ~MayWin(r, t, x, won.winner)
                   /\ \A f \in {won.winner, x}, y \in C \ {won.winner, x} :
                        ~MayAdvance(r, t, C, y, f)
<1> DEFINE cs == PreSorted(r, t)
           won == SingleWinner(r, t, cs)
           w == won.winner
           C == Cands(r)
           fin == Finalists(r, t, cs)
           p == fin.pair
<1>1. Lists(r, cs) /\ ToSet(cs) = C /\ Len(cs) = r.cands /\ ByScore(t, cs)
  BY PreSortedLists, StarStartsByScore
<1>2. Len(cs) >= 2 /\ Len(cs) # 1
  BY <1>1, CandsFinite
<1>3. won = Runoff(r, t, p, fin.tie)
  BY <1>2 DEF SingleWinner, StarWinner
<1> HIDE DEF cs
<1>4. /\ p[1] \in C /\ p[2] \in C /\ p[1] # p[2]
      /\ \A f \in {p[1], p[2]}, y \in C \ {p[1], p[2]} : MayAdvance(r, t, C, f, y)
  BY <1>1, <1>2, FinalistsAdvance
<1>5. fin.tie # "random" =>
        \A f \in {p[1], p[2]}, y \in C \ {p[1], p[2]} : ~MayAdvance(r, t, C, y, f)
  BY <1>1, <1>2, FinalistsDecided
<1> HIDE DEF fin, C
<1>6. \/ w = p[1] /\ MayWin(r, t, p[1], p[2])
      \/ w = p[2] /\ MayWin(r, t, p[2], p[1])
  BY <1>3, <1>4, RunoffWinner DEF C
<1>7. won.tie # "random" =>
        /\ fin.tie # "random"
        /\ w = p[1] => ~MayWin(r, t, p[2], p[1])
        /\ w = p[2] => ~MayWin(r, t, p[1], p[2])
  BY <1>3, <1>4, RunoffDecided DEF C
<1> HIDE DEF won
<1>8. \E x \in C \ {w} :
        /\ w \in C /\ MayWin(r, t, w, x)
        /\ \A f \in {w, x}, y \in C \ {w, x} : MayAdvance(r, t, C, f, y)
        /\ won.tie # "random" =>
             /\ ~MayWin(r, t, x, w)
             /\ \A f \in {w, x}, y \in C \ {w, x} : ~MayAdvance(r, t, C, y, f)
  <2>1. CASE w = p[1] /\ MayWin(r, t, p[1], p[2])
    <3>1. p[2] \in C \ {w} /\ {w, p[2]} = {p[1], p[2]}
      BY <1>4, <2>1
    <3>2. QED
      BY <1>4, <1>5, <1>7, <2>1, <3>1
  <2>2. CASE w = p[2] /\ MayWin(r, t, p[2], p[1])
    <3>1. p[1] \in C \ {w} /\ {w, p[1]} = {p[1], p[2]}
      BY <1>4, <2>2
    <3>2. QED
      BY <1>4, <1>5, <1>7, <2>2, <3>1
  <2>3. QED
    BY <1>6, <2>1, <2>2
<1>9. QED
  BY <1>8 DEF won, C, cs

\* Approval and Plurality: the winner has the highest score, and alone when the
\* result says so.
LEMMA ScoreSeat ==
  ASSUME NEW r, IsRace(r), r.method \in {"Approval", "Plurality"}, NEW t, IsTally(r, t)
  PROVE  LET won == SingleWinner(r, t, PreSorted(r, t))
             C == Cands(r)
         IN /\ won.winner \in C
            /\ \A c \in C : Score(t, won.winner) >= Score(t, c)
            /\ won.tie # "random" =>
                 \A c \in C \ {won.winner} : Score(t, won.winner) > Score(t, c)
<1> DEFINE C == Cands(r)
           cs == PreSorted(r, t)
           won == SingleWinner(r, t, cs)
           field == [c \in C |-> Score(t, c)]
<1>1. IsFiniteSet(C) /\ C # {} /\ (\A c \in C : c \in Int) /\ \A c \in C : Score(t, c) \in Int
  <2>1. 1 \in C
    BY CandsFinite DEF Cands
  <2>2. QED
    BY <2>1, CandsFinite, TablesAreNumbers
<1>2. cs[1] \in C /\ \A c \in C : Score(t, cs[1]) >= Score(t, c)
  <2>1. cs = Sorted(C, field)
    BY DEF PreSorted
  <2>2. \A c \in C : field[c] = Score(t, c)
    OBVIOUS
  <2> HIDE DEF C, field, cs
  <2>3. QED
    BY <1>1, <2>1, <2>2, FirstLeads
<1>3. won = MostScore(t, cs)
  BY DEF SingleWinner
<1>4. won.winner = cs[1]
  BY <1>3 DEF MostScore, Won
<1>5. Lists(r, cs) /\ ToSet(cs) = C /\ cs # <<>>
  <2>1. Lists(r, cs) /\ ToSet(cs) = C
    BY PreSortedLists
  <2>2. cs = <<>> => ToSet(cs) = {}
    BY DEF ToSet
  <2>3. QED
    BY <1>1, <2>1, <2>2
<1> HIDE DEF cs
<1>6. ToSet(Tail(cs)) = C \ {cs[1]}
  BY <1>5, ShorterLists
<1>7. won.tie # "random" => ~ \E c \in ToSet(Tail(cs)) : Score(t, c) = Score(t, cs[1])
  BY <1>3 DEF MostScore, Won
<1> HIDE DEF won
<1>8. won.tie # "random" => \A c \in C \ {won.winner} : Score(t, won.winner) > Score(t, c)
  BY <1>1, <1>2, <1>4, <1>6, <1>7
<1>9. QED
  BY <1>2, <1>4, <1>8 DEF won, cs

\* Leads in Copeland score, alone or by beating the only other who does.
LeadsWins(r, t, w) ==
  /\ w \in Cands(r)
  /\ \E d \in Cands(r) :
       /\ d # w => Copeland(r, t, d) = Copeland(r, t, w) /\ WinsAgainst(r, t, w, d)
       /\ \A c \in Cands(r) \ {w, d} : Copeland(r, t, c) < Copeland(r, t, w)

\* Ranked Robin: unless the seat was drawn its winner leads so, and who leads so
\* wins it.
LEMMA WinsSeat ==
  ASSUME NEW r, IsRace(r), r.method = "RankedRobin", NEW t, IsTally(r, t)
  PROVE  LET won == SingleWinner(r, t, PreSorted(r, t))
         IN /\ won.winner \in Cands(r)
            /\ won.tie # "random" => LeadsWins(r, t, won.winner)
            /\ \A w : LeadsWins(r, t, w) => won.winner = w
<1> DEFINE C == Cands(r)
           cs == PreSorted(r, t)
           won == SingleWinner(r, t, cs)
           field == [c \in C |-> Copeland(r, t, c)]
           tied == {c \in C : Copeland(r, t, c) = Copeland(r, t, cs[1])}
           better == {c \in tied : \E d \in tied : WinsAgainst(r, t, c, d)}
<1>1. IsFiniteSet(C) /\ C # {} /\ (\A c \in C : c \in Int) /\ \A c \in C : Copeland(r, t, c) \in Nat
  <2>1. 1 \in C
    BY CandsFinite DEF Cands
  <2>2. QED
    BY <2>1, CandsFinite, TablesAreNumbers
<1>2. cs[1] \in C /\ \A c \in C : Copeland(r, t, cs[1]) >= Copeland(r, t, c)
  <2>1. cs = Sorted(C, field)
    BY DEF PreSorted
  <2>2. \A c \in C : field[c] = Copeland(r, t, c) /\ field[c] \in Int
    BY <1>1
  <2> HIDE DEF C, field, cs
  <2>3. QED
    BY <1>1, <2>1, <2>2, FirstLeads
<1>3. Lists(r, cs) /\ ToSet(cs) = C /\ cs # <<>>
  <2>1. Lists(r, cs) /\ ToSet(cs) = C
    BY PreSortedLists
  <2>2. cs = <<>> => ToSet(cs) = {}
    BY DEF ToSet
  <2>3. QED
    BY <1>1, <2>1, <2>2
<1>4. won = CASE Cardinality(tied) = 1 -> Won(cs[1], "none")
              [] Cardinality(tied) = 2 /\ better # {} ->
                   Won(CHOOSE c \in better : TRUE, "none")
              [] OTHER -> Won(Min(tied), "random")
  <2>1. won = MostWins(r, t, cs)
    BY DEF SingleWinner
  <2>2. QED
    BY <1>3, <2>1 DEF MostWins
<1>5. won.winner \in C
  BY <1>3, SingleWinnerListed DEF Bloc
<1>6. IsFiniteSet(tied) /\ cs[1] \in tied /\ Cardinality(tied) \in Nat
  <2>1. tied \in SUBSET C /\ cs[1] \in tied
    BY <1>2
  <2> HIDE DEF tied
  <2>2. QED
    BY <1>1, <2>1, FS_Subset, FS_CardinalityType
<1> HIDE DEF cs
<1>7. \A c \in C \ tied : Copeland(r, t, c) < Copeland(r, t, cs[1])
  BY <1>1, <1>2
<1>8. ASSUME won.tie # "random" PROVE LeadsWins(r, t, won.winner)
  <2>1. CASE Cardinality(tied) = 1
    <3>1. won.winner = cs[1]
      BY <1>4, <2>1 DEF Won
    <3>2. \A c \in tied : c = cs[1]
      <4>1. SUFFICES ASSUME NEW c \in tied, c # cs[1] PROVE FALSE
        OBVIOUS
      <4> HIDE DEF tied
      <4>2. Cardinality(tied) >= 2
        BY <1>6, <4>1, TwoMembers
      <4>3. QED
        BY <2>1, <4>2
    <3>3. QED
      BY <1>2, <1>7, <3>1, <3>2 DEF LeadsWins
  <2>2. CASE Cardinality(tied) = 2 /\ better # {}
    <3>1. won.winner = CHOOSE c \in better : TRUE
      <4> HIDE DEF won, tied, better
      <4>1. won = Won(CHOOSE c \in better : TRUE, "none")
        BY <1>4, <2>2
      <4>2. QED
        BY <4>1 DEF Won
    <3> DEFINE w == won.winner
    <3>2. w \in better
      BY <2>2, <3>1
    <3> HIDE DEF w
    <3>3. PICK d \in tied : WinsAgainst(r, t, w, d)
      BY <3>2
    <3>4. w \in tied /\ w \in C /\ d \in C /\ w # d
      BY <3>2, <3>3, WinsAsymmetric
    <3>5. \A c \in tied : c = w \/ c = d
      <4>1. SUFFICES ASSUME NEW c \in tied, c # w, c # d PROVE FALSE
        OBVIOUS
      <4> HIDE DEF tied
      <4>2. IsFiniteSet(tied \ {c}) /\ Cardinality(tied \ {c}) = Cardinality(tied) - 1
        BY <1>6, FS_RemoveElement
      <4>3. Cardinality(tied \ {c}) >= 2
        BY <3>3, <3>4, <4>1, <4>2, TwoMembers
      <4>4. QED
        BY <2>2, <4>2, <4>3
    <3>6. \A c \in C \ {w, d} : Copeland(r, t, c) < Copeland(r, t, w)
      BY <1>7, <3>4, <3>5
    <3>7. LeadsWins(r, t, w)
      BY <3>3, <3>4, <3>6 DEF LeadsWins
    <3>8. QED
      BY <3>7 DEF w
  <2>3. CASE ~(Cardinality(tied) = 1) /\ ~(Cardinality(tied) = 2 /\ better # {})
    BY <1>4, <1>8, <2>3 DEF Won
  <2>4. QED
    BY <2>1, <2>2, <2>3
<1>9. ASSUME NEW w, LeadsWins(r, t, w) PROVE won.winner = w
  <2>1. PICK d \in C :
          /\ w \in C
          /\ d # w => Copeland(r, t, d) = Copeland(r, t, w) /\ WinsAgainst(r, t, w, d)
          /\ \A c \in C \ {w, d} : Copeland(r, t, c) < Copeland(r, t, w)
    BY <1>9 DEF LeadsWins
  <2>2. Copeland(r, t, cs[1]) = Copeland(r, t, w) /\ w \in tied
    <3>1. Copeland(r, t, cs[1]) >= Copeland(r, t, w)
      BY <1>2, <2>1
    <3>2. Copeland(r, t, cs[1]) <= Copeland(r, t, w)
      BY <1>1, <1>2, <2>1
    <3>3. QED
      BY <1>1, <1>2, <2>1, <3>1, <3>2
  <2>3. tied = {w, d}
    BY <1>1, <2>1, <2>2
  <2>4. CASE d = w
    <3>1. tied = {w}
      BY <2>3, <2>4
    <3>2. Cardinality(tied) = 1 /\ cs[1] = w
      BY <1>6, <3>1, FS_Singleton
    <3>3. won = Won(cs[1], "none")
      BY <1>4, <3>2
    <3>4. QED
      BY <3>2, <3>3 DEF Won
  <2>5. CASE d # w
    <3>1. Cardinality(tied) = 2
      <4>1. Cardinality({w}) = 1 /\ IsFiniteSet({w})
        BY FS_Singleton
      <4>2. Cardinality({w} \cup {d}) = 2
        BY <2>5, <4>1, FS_AddElement
      <4>3. {w} \cup {d} = tied
        BY <2>3
      <4>4. QED
        BY <4>2, <4>3
    <3>2. better = {w}
      BY <2>1, <2>3, <2>5, WinsAsymmetric
    <3>3. (CHOOSE c \in better : TRUE) = w
      BY <3>2
    <3>4. won = Won(CHOOSE c \in better : TRUE, "none")
      BY <1>4, <3>1, <3>2
    <3>5. QED
      BY <3>3, <3>4 DEF Won
  <2>6. QED
    BY <2>4, <2>5
<1>10. QED
  <2> HIDE DEF won
  <2>1. QED
    BY <1>5, <1>8, <1>9 DEF won, cs

\* A candidate who beats every other has the highest Copeland score, alone.
LEMMA BeatsAllLeads ==
  ASSUME NEW r, IsRace(r), NEW t, IsTally(r, t), NEW c \in Cands(r),
         \A d \in Cands(r) \ {c} : WinsAgainst(r, t, c, d)
  PROVE  \A x \in Cands(r) \ {c} : Copeland(r, t, x) < Copeland(r, t, c)
<1> DEFINE C == Cands(r)
           others(x) == C \ {x}
           wins(x) == {o \in others(x) : WinsAgainst(r, t, x, o)}
           unbeaten(x) == {o \in others(x) : ~WinsAgainst(r, t, o, x)}
           n == Cardinality(C)
<1>1. IsFiniteSet(C) /\ \A S \in SUBSET C : IsFiniteSet(S) /\ Cardinality(S) \in Nat
  BY CandsFinite, FS_Subset, FS_CardinalityType
<1>2. \A x \in C : Copeland(r, t, x) = Cardinality(wins(x)) + Cardinality(unbeaten(x))
  BY DEF Copeland
<1>3. \A x \in C : Cardinality(others(x)) = n - 1
  BY <1>1, FS_RemoveElement
<1>4. wins(c) = others(c) /\ unbeaten(c) = others(c)
  BY WinsAsymmetric
<1>5. n \in Nat
  BY <1>1
<1>6. ASSUME NEW x \in C \ {c} PROVE Copeland(r, t, x) < Copeland(r, t, c)
  <2>1. /\ wins(x) \subseteq others(x) \ {c} /\ unbeaten(x) \subseteq others(x) \ {c}
        /\ c \in others(x)
    BY <1>6, WinsAsymmetric
  <2> DEFINE rest == others(x) \ {c}
  <2>2. Cardinality(rest) = n - 2
    <3>1. Cardinality(rest) = Cardinality(others(x)) - 1
      BY <1>1, <2>1, FS_RemoveElement
    <3>2. QED
      BY <1>3, <1>5, <3>1
  <2>3. wins(x) \in SUBSET C /\ unbeaten(x) \in SUBSET C /\ rest \in SUBSET C
    OBVIOUS
  <2> HIDE DEF wins, unbeaten, rest, n
  <2>4. Cardinality(wins(x)) <= Cardinality(rest) /\ Cardinality(unbeaten(x)) <= Cardinality(rest)
    BY <1>1, <2>1, <2>3, FS_Subset DEF rest
  <2>5. Cardinality(wins(x)) \in Nat /\ Cardinality(unbeaten(x)) \in Nat
    BY <1>1, <2>3
  <2>6. Copeland(r, t, c) = (n - 1) + (n - 1)
    BY <1>2, <1>3, <1>4
  <2>7. QED
    BY <1>2, <1>5, <1>6, <2>2, <2>4, <2>5, <2>6
<1>7. QED
  BY <1>6

------------------------------------------------------------------------------
(* The candidates in another order. *)

\* The ballots, with the candidates in another order.
Shuffled(r, t, p) == [i \in DOMAIN t |-> [c \in Cands(r) |-> t[i][p[c]]]]

\* The ballots in another order of the candidates give the same tables.
LEMMA SameTables ==
  ASSUME NEW r, IsRace(r), NEW t, IsTally(r, t),
         NEW p \in Bijection(Cands(r), Cands(r)),
         NEW s, s = Shuffled(r, t, p)
  PROVE  /\ IsTally(r, s)
         /\ \A c \in Cands(r) :
              /\ Score(s, c) = Score(t, p[c])
              /\ FiveStars(s, c) = FiveStars(t, p[c])
              /\ Copeland(r, s, c) = Copeland(r, t, p[c])
         /\ \A a, b \in Cands(r) : WinsAgainst(r, s, a, b) <=> WinsAgainst(r, t, p[a], p[b])
<1> DEFINE C == Cands(r)
           top == 0..TopMark(r)
<1>1. /\ p \in [C -> C] /\ \A x, y \in C : p[x] = p[y] => x = y
      /\ \A y \in C : \E x \in C : p[x] = y
  BY DEF Bijection, Injection, Surjection, IsInjective
<1>2. DOMAIN s = DOMAIN t /\ \A i \in DOMAIN t : \A c \in C : s[i][c] = t[i][p[c]]
  BY DEF Shuffled
<1>3. IsTally(r, s)
  <2>1. \A i \in DOMAIN t : t[i] \in [C -> top]
    BY DEF IsTally
  <2>2. \A i \in DOMAIN t : s[i] \in [C -> top]
    <3> HIDE DEF top, C
    <3>1. \A i \in DOMAIN t : s[i] = [c \in C |-> t[i][p[c]]]
      BY DEF Shuffled, C
    <3>2. TAKE i \in DOMAIN t
    <3>3. \A c \in C : t[i][p[c]] \in top
      BY <1>1, <2>1
    <3>4. [c \in C |-> t[i][p[c]]] \in [C -> top]
      BY <3>3
    <3>5. QED
      BY <3>1, <3>4
  <2>3. DOMAIN t = 1..Len(t) /\ Len(t) \in Nat
    BY BallotsFinite
  <2> HIDE DEF top, C
  <2>4. s \in [1..Len(t) -> [C -> top]]
    BY <1>2, <2>2, <2>3 DEF Shuffled
  <2>5. s \in Seq([C -> top])
    BY <2>3, <2>4
  <2>6. QED
    BY <2>5 DEF IsTally, C, top
<1> HIDE DEF C
<1>4. ASSUME NEW c \in C PROVE Score(s, c) = Score(t, p[c]) /\ FiveStars(s, c) = FiveStars(t, p[c])
  <2>1. [i \in DOMAIN s |-> s[i][c]] = [i \in DOMAIN t |-> t[i][p[c]]]
    BY <1>2
  <2>2. {i \in DOMAIN s : s[i][c] = 5} = {i \in DOMAIN t : t[i][p[c]] = 5}
    BY <1>2
  <2>3. QED
    BY <2>1, <2>2 DEF Score, FiveStars
<1>5. \A a, b \in C : WinsAgainst(r, s, a, b) <=> WinsAgainst(r, t, p[a], p[b])
  <2>1. \A a, b \in C : PreferredOver(r, s, a, b) = PreferredOver(r, t, p[a], p[b])
    <3>1. TAKE a, b \in C
    <3>2. \A i \in DOMAIN t : Prefers(r, s[i], a, b) <=> Prefers(r, t[i], p[a], p[b])
      BY <1>2 DEF Prefers
    <3>3. {i \in DOMAIN s : Prefers(r, s[i], a, b)} =
            {i \in DOMAIN t : Prefers(r, t[i], p[a], p[b])}
      BY <1>2, <3>2
    <3>4. QED
      BY <3>3 DEF PreferredOver
  <2>2. QED
    BY <2>1 DEF WinsAgainst
<1>6. ASSUME NEW c \in C PROVE Copeland(r, s, c) = Copeland(r, t, p[c])
  <2> DEFINE wins == {o \in C \ {c} : WinsAgainst(r, s, c, o)}
             wins2 == {o \in C \ {p[c]} : WinsAgainst(r, t, p[c], o)}
             unbeaten == {o \in C \ {c} : ~WinsAgainst(r, s, o, c)}
             unbeaten2 == {o \in C \ {p[c]} : ~WinsAgainst(r, t, o, p[c])}
  <2>1. wins2 = {p[x] : x \in wins}
    BY <1>1, <1>5, <1>6
  <2>2. unbeaten2 = {p[x] : x \in unbeaten}
    BY <1>1, <1>5, <1>6
  <2>3. wins \in SUBSET C /\ unbeaten \in SUBSET C /\ IsFiniteSet(C)
    BY CandsFinite DEF C
  <2> HIDE DEF wins, wins2, unbeaten, unbeaten2
  <2>4. Cardinality(wins) = Cardinality(wins2) /\ Cardinality(unbeaten) = Cardinality(unbeaten2)
    BY <2>1, <2>2, <2>3, SameSize DEF C
  <2>5. QED
    BY <2>4 DEF Copeland, wins, wins2, unbeaten, unbeaten2, C
<1>7. QED
  BY <1>3, <1>4, <1>5, <1>6 DEF C

\* And the same verdicts of the help pages.
LEMMA SameVerdicts ==
  ASSUME NEW r, IsRace(r), NEW t, IsTally(r, t),
         NEW p \in Bijection(Cands(r), Cands(r)),
         NEW s, s = Shuffled(r, t, p), NEW a \in Cands(r), NEW b \in Cands(r)
  PROVE  /\ MayWin(r, s, a, b) <=> MayWin(r, t, p[a], p[b])
         /\ MayAdvance(r, s, Cands(r), a, b) <=> MayAdvance(r, t, Cands(r), p[a], p[b])
<1> DEFINE C == Cands(r)
           mine == {c \in C : Score(s, c) = Score(s, a)}
           theirs == {c \in C : Score(t, c) = Score(t, p[a])}
<1>1. /\ p \in [C -> C] /\ \A x, y \in C : p[x] = p[y] => x = y
      /\ \A y \in C : \E x \in C : p[x] = y
  BY DEF Bijection, Injection, Surjection, IsInjective
<1>2. /\ \A c \in C : Score(s, c) = Score(t, p[c]) /\ FiveStars(s, c) = FiveStars(t, p[c])
      /\ \A x, y \in C : WinsAgainst(r, s, x, y) <=> WinsAgainst(r, t, p[x], p[y])
  BY SameTables
<1>3. MayWin(r, s, a, b) <=> MayWin(r, t, p[a], p[b])
  BY <1>1, <1>2 DEF MayWin
<1> HIDE DEF C
<1>4. theirs = {p[x] : x \in mine}
  BY <1>1, <1>2 DEF C
<1>5. Cardinality(mine) = Cardinality(theirs)
  <2>1. mine \in SUBSET C /\ IsFiniteSet(C)
    BY CandsFinite DEF C
  <2> HIDE DEF mine, theirs
  <2>2. QED
    BY <1>4, <2>1, SameSize DEF C
<1>6. (\E x, y \in mine : WinsAgainst(r, s, x, y))
        <=> (\E x, y \in theirs : WinsAgainst(r, t, x, y))
  BY <1>1, <1>2, <1>4
<1>7. MayAdvance(r, s, C, a, b) <=> MayAdvance(r, t, C, p[a], p[b])
  <2>1. /\ Score(s, a) = Score(t, p[a]) /\ Score(s, b) = Score(t, p[b])
        /\ FiveStars(s, a) = FiveStars(t, p[a]) /\ FiveStars(s, b) = FiveStars(t, p[b])
        /\ WinsAgainst(r, s, a, b) <=> WinsAgainst(r, t, p[a], p[b])
    BY <1>2 DEF C
  <2>2. QED
    BY <1>5, <1>6, <2>1 DEF MayAdvance
<1>8. QED
  BY <1>3, <1>7 DEF C

\* Unless it was drawn, the first seat does not depend on the order.
LEMMA FirstSeatUnshuffled ==
  ASSUME NEW r, IsRace(r), r.method \in Bloc, NEW t, IsTally(r, t),
         NEW p \in Bijection(Cands(r), Cands(r)),
         NEW s, s = Shuffled(r, t, p),
         SingleWinner(r, t, PreSorted(r, t)).tie # "random"
  PROVE  p[SingleWinner(r, s, PreSorted(r, s)).winner] =
           SingleWinner(r, t, PreSorted(r, t)).winner
<1> DEFINE C == Cands(r)
           w == SingleWinner(r, t, PreSorted(r, t)).winner
           v == SingleWinner(r, s, PreSorted(r, s)).winner
<1>1. /\ p \in [C -> C] /\ \A x, y \in C : p[x] = p[y] => x = y
      /\ \A y \in C : \E x \in C : p[x] = y
  BY DEF Bijection, Injection, Surjection, IsInjective
<1>2. IsTally(r, s)
  BY SameTables
<1>3. \A c \in C : Score(s, c) = Score(t, p[c]) /\ Copeland(r, s, c) = Copeland(r, t, p[c])
  BY SameTables
<1>4. CASE r.method \in {"Approval", "Plurality"}
  <2>1. v \in C /\ \A c \in C : Score(s, v) >= Score(s, c)
    BY <1>2, <1>4, ScoreSeat
  <2>2. w \in C /\ \A c \in C \ {w} : Score(t, w) > Score(t, c)
    BY <1>4, ScoreSeat
  <2> HIDE DEF v, w
  <2>3. PICK q \in C : p[q] = w
    BY <1>1, <2>2
  <2>4. Score(t, p[v]) >= Score(t, w) /\ p[v] \in C
    BY <1>1, <1>3, <2>1, <2>3
  <2>5. \A c \in C : Score(t, c) \in Int
    BY TablesAreNumbers
  <2>6. p[v] = w
    BY <2>2, <2>4, <2>5
  <2>7. QED
    BY <2>6 DEF v, w
<1>5. CASE r.method = "RankedRobin"
  <2>1. \A x : LeadsWins(r, s, x) => v = x
    BY <1>2, <1>5, WinsSeat
  <2>2. LeadsWins(r, t, w)
    BY <1>5, WinsSeat
  <2> HIDE DEF v, w
  <2>3. PICK d \in C :
          /\ w \in C
          /\ d # w => Copeland(r, t, d) = Copeland(r, t, w) /\ WinsAgainst(r, t, w, d)
          /\ \A c \in C \ {w, d} : Copeland(r, t, c) < Copeland(r, t, w)
    BY <2>2 DEF LeadsWins
  <2>4. PICK q \in C, e \in C : p[q] = w /\ p[e] = d
    BY <1>1, <2>3
  <2>5. \A x, y \in C : WinsAgainst(r, s, x, y) <=> WinsAgainst(r, t, p[x], p[y])
    BY SameTables
  <2>6. e # q => Copeland(r, s, e) = Copeland(r, s, q) /\ WinsAgainst(r, s, q, e)
    BY <1>1, <1>3, <2>3, <2>4, <2>5
  <2>7. \A c \in C \ {q, e} : Copeland(r, s, c) < Copeland(r, s, q)
    BY <1>1, <1>3, <2>3, <2>4
  <2>8. LeadsWins(r, s, q)
    BY <2>4, <2>6, <2>7 DEF LeadsWins
  <2>9. p[v] = w
    BY <2>1, <2>4, <2>8
  <2>10. QED
    BY <2>9 DEF v, w
<1>6. CASE r.method = "STAR" /\ r.cands = 1
  <2>1. v \in C /\ w \in C
    <3>1. /\ Lists(r, PreSorted(r, t)) /\ ToSet(PreSorted(r, t)) = C
          /\ Lists(r, PreSorted(r, s)) /\ ToSet(PreSorted(r, s)) = C
          /\ Len(PreSorted(r, t)) = 1 /\ Len(PreSorted(r, s)) = 1
      BY <1>2, <1>6, PreSortedLists
    <3>2. PreSorted(r, t) # <<>> /\ PreSorted(r, s) # <<>>
      BY <3>1
    <3>3. QED
      BY <1>2, <3>1, <3>2, SingleWinnerListed
  <2> HIDE DEF v, w
  <2>2. C = {1}
    BY <1>6 DEF Cands
  <2>3. p[v] = w
    BY <1>1, <2>1, <2>2
  <2>4. QED
    BY <2>3 DEF v, w
<1>7. CASE r.method = "STAR" /\ r.cands # 1
  <2>1. r.cands > 1
    BY <1>7, CandsFinite
  <2>2. PICK x \in C \ {w} :
          /\ w \in C
          /\ ~MayWin(r, t, x, w)
          /\ \A f \in {w, x}, y \in C \ {w, x} : ~MayAdvance(r, t, C, y, f)
    BY <1>7, <2>1, StarSeat
  <2>3. PICK z \in C \ {v} :
          /\ v \in C
          /\ MayWin(r, s, v, z)
          /\ \A f \in {v, z}, y \in C \ {v, z} : MayAdvance(r, s, C, f, y)
    BY <1>2, <1>7, <2>1, StarSeat
  <2> HIDE DEF v, w
  <2>4. p[v] \in C /\ p[z] \in C /\ p[v] # p[z]
    BY <1>1, <2>3
  <2>5. MayWin(r, t, p[v], p[z])
    BY <2>3, SameVerdicts
  <2>6. \A f \in {v, z}, g \in C \ {p[v], p[z]} : MayAdvance(r, t, C, p[f], g)
    <3>1. TAKE f \in {v, z}, g \in C \ {p[v], p[z]}
    <3>2. PICK y \in C : p[y] = g
      BY <1>1
    <3>3. MayAdvance(r, s, C, f, y) /\ f \in C
      BY <2>3, <3>2
    <3>4. QED
      BY <3>2, <3>3, SameVerdicts
  <2> DEFINE a == p[v]
             b == p[z]
  <2>7. \A f \in {a, b}, g \in C \ {a, b} : MayAdvance(r, t, C, f, g)
    BY <2>6
  <2> HIDE DEF a, b
  <2>8. a \in {w, x}
    <3>1. SUFFICES ASSUME a \notin {w, x} PROVE FALSE
      OBVIOUS
    <3>2. PICK g \in {w, x} : g # a /\ g # b
      BY <2>2, <3>1
    <3>3. a \in C \ {w, x} /\ g \in C \ {a, b}
      BY <2>2, <2>4, <3>1, <3>2 DEF a, b
    <3>4. QED
      BY <2>2, <2>7, <3>2, <3>3
  <2>9. b \in {w, x}
    <3>1. SUFFICES ASSUME b \notin {w, x} PROVE FALSE
      OBVIOUS
    <3>2. PICK g \in {w, x} : g # a /\ g # b
      BY <2>2, <3>1
    <3>3. b \in C \ {w, x} /\ g \in C \ {a, b}
      BY <2>2, <2>4, <3>1, <3>2 DEF a, b
    <3>4. QED
      BY <2>2, <2>7, <3>2, <3>3
  <2>10. a # b /\ MayWin(r, t, a, b)
    BY <2>4, <2>5 DEF a, b
  <2>11. a = w
    BY <2>2, <2>8, <2>9, <2>10
  <2>12. QED
    BY <2>11 DEF a, v, w
<1>8. QED
  BY <1>4, <1>5, <1>6, <1>7 DEF Bloc

------------------------------------------------------------------------------
(* One round of IRV and STV. *)

\* Every round has a count for every candidate.
AreRounds(r, rounds) == rounds \in Seq([Cands(r) -> Int])

\* ByHare lists the candidates once each, the latest counts in descending order.
LEMMA ByHareSorts ==
  ASSUME NEW r, IsRace(r), NEW cs, Lists(r, cs), NEW rounds, AreRounds(r, rounds)
  PROVE  /\ Lists(r, ByHare(cs, rounds))
         /\ ToSet(ByHare(cs, rounds)) = ToSet(cs)
         /\ Len(ByHare(cs, rounds)) = Len(cs)
         /\ rounds # <<>> =>
              \A i, j \in 1..Len(cs) : i < j =>
                Last(rounds)[ByHare(cs, rounds)[i]] >= Last(rounds)[ByHare(cs, rounds)[j]]
<1> DEFINE S == ToSet(cs)
           D == DOMAIN rounds
           Level(a, b) == \A k \in D : rounds[k][a] = rounds[k][b]
           Leads(a, b) == \E k \in D :
                            /\ rounds[k][a] > rounds[k][b]
                            /\ \A l \in D : l > k => rounds[l][a] = rounds[l][b]
           Before(a, b) == Leads(a, b) \/ (a < b /\ Level(a, b))
           ahead == [c \in S |-> {d \in S : Before(d, c)}]
           s == ByHare(cs, rounds)
<1>1. /\ S \subseteq Cands(r) /\ \A c \in S : c \in Int
      /\ IsFiniteSet(S) /\ Cardinality(S) = Len(cs) /\ Len(cs) \in Nat
  BY ListFacts, ListLength, CandsFinite DEF Lists
<1>2. D = 1..Len(rounds) /\ Len(rounds) \in Nat /\ IsFiniteSet(D)
  BY FS_Interval DEF AreRounds
<1>3. \A k \in D : \A c \in S : rounds[k][c] \in Int
  BY <1>1 DEF AreRounds
<1>4. s = InOrder(S, ahead)
  BY DEF ByHare
<1>5. \A c \in S : ~Before(c, c)
  BY <1>1, <1>3
<1>6. ASSUME NEW a \in S, NEW b \in S, NEW c \in S, Before(a, b), Before(b, c)
      PROVE  Before(a, c)
  <2>1. CASE Level(a, b) /\ Level(b, c)
    <3>1. a < b /\ b < c
      BY <1>3, <1>6, <2>1
    <3>2. QED
      BY <1>1, <1>3, <2>1, <3>1
  <2>2. CASE Leads(a, b) /\ ~Leads(b, c)
    BY <1>3, <1>6, <2>2
  <2>3. CASE ~Leads(a, b) /\ Leads(b, c)
    BY <1>3, <1>6, <2>3
  <2>4. CASE Leads(a, b) /\ Leads(b, c)
    <3>1. PICK k \in D : /\ rounds[k][a] > rounds[k][b]
                         /\ \A l \in D : l > k => rounds[l][a] = rounds[l][b]
      BY <2>4
    <3>2. PICK m \in D : /\ rounds[m][b] > rounds[m][c]
                         /\ \A l \in D : l > m => rounds[l][b] = rounds[l][c]
      BY <2>4
    <3>3. k \in Int /\ m \in Int /\ \A l \in D : l \in Int
      BY <1>2
    <3>4. CASE k >= m
      <4>1. rounds[k][a] > rounds[k][c]
        BY <1>3, <3>1, <3>2, <3>3, <3>4
      <4>2. \A l \in D : l > k => rounds[l][a] = rounds[l][c]
        BY <3>1, <3>2, <3>3, <3>4
      <4>3. QED
        BY <4>1, <4>2
    <3>5. CASE m > k
      <4>1. rounds[m][a] > rounds[m][c]
        BY <1>3, <3>1, <3>2, <3>3, <3>5
      <4>2. \A l \in D : l > m => rounds[l][a] = rounds[l][c]
        BY <3>1, <3>2, <3>3, <3>5
      <4>3. QED
        BY <4>1, <4>2
    <3>6. QED
      BY <3>3, <3>4, <3>5
  <2>5. QED
    BY <1>6, <2>1, <2>2, <2>3, <2>4
<1>7. ASSUME NEW a \in S, NEW b \in S, a # b PROVE Before(a, b) \/ Before(b, a)
  <2> DEFINE E == {k \in D : rounds[k][a] # rounds[k][b]}
  <2>1. CASE E = {}
    BY <1>1, <1>7, <2>1
  <2>2. CASE E # {}
    <3>1. IsFiniteSet(E) /\ \A k \in E : k \in Int
      BY <1>2, FS_Subset
    <3>2. Max(E) \in E /\ \A k \in E : Max(E) >= k
      <4> HIDE DEF E
      <4>1. QED
        BY <2>2, <3>1, FiniteExtremes
    <3> DEFINE k == Max(E)
    <3>3. k \in D /\ rounds[k][a] # rounds[k][b] /\ k \in Int
      BY <1>2, <3>2
    <3>4. \A l \in D : l > k => rounds[l][a] = rounds[l][b]
      <4>1. TAKE l \in D
      <4>2. l \in E => k >= l
        BY <3>2
      <4>3. l \in Int
        BY <1>2
      <4>4. QED
        BY <3>3, <4>2, <4>3
    <3> HIDE DEF k
    <3>5. QED
      BY <1>3, <3>3, <3>4
  <2>3. QED
    BY <2>1, <2>2
<1> HIDE DEF Before
<1>8. Orders(S, ahead)
  BY <1>5, <1>6, <1>7 DEF Orders
<1>9. /\ s \in Seq(S) /\ Len(s) = Len(cs) /\ DOMAIN s = 1..Len(cs)
      /\ ToSet(s) = S
      /\ \A i, j \in 1..Len(cs) : i < j => s[i] \in ahead[s[j]]
  <2> HIDE DEF ahead, s
  <2>1. QED
    BY <1>1, <1>4, <1>8, InOrderSorts
<1>10. \A i, j \in 1..Len(cs) : i < j => Before(s[i], s[j])
  <2>1. \A i \in 1..Len(cs) : s[i] \in S
    BY <1>9 DEF ToSet
  <2>2. \A b \in S : \A a \in ahead[b] : Before(a, b)
    OBVIOUS
  <2> HIDE DEF ahead, s
  <2>3. QED
    BY <1>9, <2>1, <2>2
<1>11. Lists(r, s)
  <2> HIDE DEF s
  <2>1. \A i \in 1..Len(cs) : s[i] \in S
    BY <1>9 DEF ToSet
  <2>2. \A i, j \in 1..Len(cs) : i < j => s[i] # s[j]
    BY <1>5, <1>10, <2>1
  <2>3. Distinct(s)
    BY <1>1, <1>9, <2>2 DEF Distinct
  <2>4. s \in Seq(Cands(r))
    BY <1>1, <1>9
  <2>5. QED
    BY <2>3, <2>4 DEF Lists
<1>12. ASSUME rounds # <<>>, NEW i \in 1..Len(cs), NEW j \in 1..Len(cs), i < j
       PROVE  Last(rounds)[s[i]] >= Last(rounds)[s[j]]
  <2> DEFINE n == Len(rounds)
  <2>1. n \in D /\ Last(rounds) = rounds[n] /\ \A k \in D : k <= n
    BY <1>2, <1>12 DEF Last, AreRounds
  <2>2. Before(s[i], s[j])
    BY <1>10, <1>12
  <2>3. s[i] \in S /\ s[j] \in S
    BY <1>9, <1>12 DEF ToSet
  <2> HIDE DEF s
  <2>4. rounds[n][s[i]] \in Int /\ rounds[n][s[j]] \in Int
    BY <1>3, <2>1, <2>3
  <2>5. QED
    BY <1>2, <1>3, <2>1, <2>2, <2>3, <2>4 DEF Before
<1>13. QED
  BY <1>9, <1>11, <1>12

\* There are fewer ranks than Place gives to no rank.
LEMMA RanksBounded ==
  ASSUME NEW r, IsRace(r), r.method \in {"IRV", "STV"}
  PROVE  TopMark(r) = r.maxRank /\ TopMark(r) \in Nat /\ TopMark(r) <= 999
<1>1. TopMark(r) = r.maxRank
  BY DEF TopMark
<1>2. r.maxRank \in Nat /\ r.maxRank <= 999
  BY DEF IsRace
<1>3. QED
  BY <1>1, <1>2

\* The candidate with the best mark of a ballot.
LEMMA BestPlaced ==
  ASSUME NEW r, IsRace(r), r.method \in {"IRV", "STV"},
         NEW cs, Lists(r, cs), cs # <<>>,
         NEW marks, \A c \in Cands(r) : marks[c] \in 0..TopMark(r)
  PROVE  LET I == {i \in DOMAIN cs :
                     \A c \in ToSet(cs) : Place(marks[cs[i]]) <= Place(marks[c])}
         IN Max(I) \in I
<1> DEFINE I == {i \in DOMAIN cs :
                   \A c \in ToSet(cs) : Place(marks[cs[i]]) <= Place(marks[c])}
           E == {Place(marks[c]) : c \in ToSet(cs)}
<1>1. /\ DOMAIN cs = 1..Len(cs) /\ Len(cs) \in Nat /\ ToSet(cs) \subseteq Cands(r)
      /\ \A i \in 1..Len(cs) : cs[i] \in ToSet(cs)
  BY ListFacts
<1>2. cs[1] \in ToSet(cs)
  BY <1>1 DEF Lists
<1> DEFINE top == 1000
<1>3. TopMark(r) \in Nat /\ TopMark(r) <= 999
  BY RanksBounded
<1>4. \A c \in Cands(r) : Place(marks[c]) \in Int /\ 0 <= Place(marks[c]) /\ Place(marks[c]) <= top
  <2>1. TAKE c \in Cands(r)
  <2>2. marks[c] \in 0..TopMark(r)
    OBVIOUS
  <2>3. marks[c] \in Int /\ 0 <= marks[c] /\ marks[c] <= 999
    BY <1>3, <2>2
  <2>4. QED
    BY <2>3 DEF Place
<1>5. E # {} /\ \A x \in E : x \in Int /\ 0 <= x /\ x <= top
  BY <1>1, <1>2, <1>4
<1>6. Min(E) \in E /\ \A x \in E : Min(E) <= x
  <2> HIDE DEF E
  <2> DEFINE D == 0..top
  <2>0. top \in Int
    OBVIOUS
  <2>1. IsFiniteSet(D) /\ \A x \in D : x \in Int
    <3> HIDE DEF top, E
    <3>1. QED
      BY <2>0, FS_Interval
  <2>2. E \in SUBSET D
    <3> HIDE DEF E, top
    <3>1. QED
      BY <1>5, <2>0
  <2> HIDE DEF D
  <2>3. IsFiniteSet(E)
    BY <2>1, <2>2, FS_Subset
  <2>4. QED
    BY <1>5, <2>1, <2>2, <2>3, FiniteExtremes
<1>7. PICK c \in ToSet(cs) : \A d \in ToSet(cs) : Place(marks[c]) <= Place(marks[d])
  <2>1. PICK c \in ToSet(cs) : Min(E) = Place(marks[c])
    BY <1>6
  <2>2. QED
    BY <1>6, <2>1
<1>8. I # {}
  BY <1>1, <1>7 DEF ToSet
<1>9. IsFiniteSet(I) /\ \A i \in I : i \in Int
  <2> DEFINE D == 1..Len(cs)
  <2>1. IsFiniteSet(D) /\ \A i \in D : i \in Int
    BY <1>1, FS_Interval
  <2>2. I \in SUBSET D
    BY <1>1
  <2> HIDE DEF D, I
  <2>3. QED
    BY <2>1, <2>2, FS_Subset
<1> HIDE DEF I
<1>10. QED
  BY <1>8, <1>9, FiniteExtremes DEF I

\* A ballot goes to a candidate of the list or to none.
LEMMA ReceiverListed ==
  ASSUME NEW r, IsRace(r), r.method \in {"IRV", "STV"}, NEW cs, Lists(r, cs),
         NEW marks, \A c \in Cands(r) : marks[c] \in 0..TopMark(r), NEW o
  PROVE  Receiver(r, cs, marks, o) \in ToSet(cs) \cup {0}
<1>1. CASE cs = <<>>
  BY <1>1 DEF Receiver
<1>2. CASE cs # <<>>
  <2> DEFINE I == {i \in DOMAIN cs :
                     \A c \in ToSet(cs) : Place(marks[cs[i]]) <= Place(marks[c])}
  <2>1. Max(I) \in DOMAIN cs
    BY <1>2, BestPlaced
  <2>2. cs[Max(I)] \in ToSet(cs)
    BY <2>1 DEF ToSet
  <2>3. Receiver(r, cs, marks, o) \in {0, cs[Max(I)]}
    BY DEF Receiver
  <2>4. QED
    BY <2>2, <2>3
<1>3. QED
  BY <1>1, <1>2

------------------------------------------------------------------------------
(* The fractions of STAR_PR. *)

\* Fractions, zero always as <<0, 1>>.
Fractions == {q \in Int \X (Nat \ {0}) : q[1] = 0 => q[2] = 1}

\* A share of a vote, in lowest terms as far as zero goes.
Shares == {q \in Nat \X (Nat \ {0}) : q[1] = 0 => q[2] = 1}

\* A share is a fraction that is not negative.
LEMMA SharesAreFractions ==
  /\ \A q : q \in Shares <=> q \in Fractions /\ q[1] >= 0
  /\ \A q \in Fractions : q = <<q[1], q[2]>> /\ q[1] \in Int /\ q[2] \in Nat \ {0}
                          /\ (q[1] = 0 => q[2] = 1)
  /\ <<0, 1>> \in Shares /\ <<1, 1>> \in Shares
BY DEF Shares, Fractions

\* Frac reduces; zero is always <<0, 1>>.
LEMMA FracReduces ==
  ASSUME NEW n \in Int, NEW d \in Nat \ {0}
  PROVE  /\ Frac(n, d) \in Fractions
         /\ n >= 0 => Frac(n, d) \in Shares
         /\ n = 0 => Frac(n, d) = <<0, 1>>
<1> DEFINE D == {k \in 1..d : n % k = 0 /\ d % k = 0}
           m == Max(D)
<1>1. 1 \in D
  OBVIOUS
<1>2. m \in D /\ \A k \in D : m >= k
  <2>1. IsFiniteSet(1..d)
    BY FS_Interval
  <2>2. D \in SUBSET (1..d) /\ \A k \in D : k \in Int
    OBVIOUS
  <2> HIDE DEF D
  <2>3. IsFiniteSet(D)
    BY <2>1, <2>2, FS_Subset
  <2>4. QED
    BY <1>1, <2>2, <2>3, FiniteExtremes
<1>3. m \in 1..d /\ n % m = 0 /\ d % m = 0
  BY <1>2
<1>4. Frac(n, d) = <<n \div m, d \div m>>
  BY DEF Frac
<1>5. n = 0 => m = d
  <2>1. n = 0 => d \in D
    OBVIOUS
  <2> HIDE DEF D, m
  <2>2. QED
    BY <1>2, <1>3, <2>1
<1> HIDE DEF m, D
<1>6. n \div m \in Int /\ d \div m \in Int /\ m \in Nat \ {0}
  BY <1>3
<1>7. n = m * (n \div m) /\ d = m * (d \div m)
  BY <1>3
<1>8. d \div m >= 1
  BY <1>3, <1>6, <1>7
<1>9. n \div m = 0 => n = 0
  <2>1. m * 0 = 0
    BY <1>6
  <2>2. QED
    BY <1>7, <2>1
<1>10. n = 0 => n \div m = 0 /\ d \div m = 1
  <2>1. d \div d = 1 /\ 0 \div d = 0
    OBVIOUS
  <2>2. QED
    BY <1>5, <2>1
<1>11. n >= 0 => n \div m >= 0
  BY <1>3
<1>12. QED
  <2> DEFINE a == n \div m
             b == d \div m
  <2>1. /\ a \in Int /\ b \in Nat \ {0} /\ (a = 0 => b = 1)
        /\ (n >= 0 => a >= 0) /\ (n = 0 => a = 0 /\ b = 1)
    BY <1>6, <1>8, <1>9, <1>10, <1>11
  <2>2. Frac(n, d) = <<a, b>>
    BY <1>4
  <2> HIDE DEF a, b
  <2>3. QED
    BY <2>1, <2>2 DEF Shares, Fractions

\* The arithmetic stays within the fractions, and within the shares where it can.
LEMMA FractionsClosed ==
  /\ \A x, y \in Shares : Plus(x, y) \in Shares /\ Times(x, y) \in Shares
  /\ \A x, y \in Fractions : Minus(x, y) \in Fractions /\ Times(x, y) \in Fractions
  /\ \A x, y \in Fractions : y[1] > 0 => Over(x, y) \in Fractions
  /\ Plus(<<0, 1>>, <<0, 1>>) = <<0, 1>>
  /\ \A x \in Shares : Times(<<0, 1>>, x) = <<0, 1>>
<1>1. \A x, y \in Fractions :
        /\ x[1] * y[2] \in Int /\ y[1] * x[2] \in Int /\ x[1] * y[1] \in Int
        /\ x[2] * y[2] \in Nat \ {0}
        /\ y[1] > 0 => x[2] * y[1] \in Nat \ {0}
  <2>1. TAKE x, y \in Fractions
  <2> DEFINE a == x[1]
             b == x[2]
             c == y[1]
             d == y[2]
  <2>2. a \in Int /\ b \in Nat \ {0} /\ c \in Int /\ d \in Nat \ {0}
    BY SharesAreFractions
  <2> HIDE DEF a, b, c, d
  <2>3. a * d \in Int /\ c * b \in Int /\ a * c \in Int /\ b * d \in Nat \ {0}
        /\ (c > 0 => b * c \in Nat \ {0})
    BY <2>2
  <2>4. QED
    BY <2>3 DEF a, b, c, d
<1>2. \A x, y \in Shares : x[1] * y[2] >= 0 /\ y[1] * x[2] >= 0 /\ x[1] * y[1] >= 0
  <2>1. TAKE x, y \in Shares
  <2> DEFINE a == x[1]
             b == x[2]
             c == y[1]
             d == y[2]
  <2>2. a \in Nat /\ b \in Nat /\ c \in Nat /\ d \in Nat
    BY SharesAreFractions
  <2> HIDE DEF a, b, c, d
  <2>3. a * d \in Nat /\ c * b \in Nat /\ a * c \in Nat
    BY <2>2
  <2>4. QED
    BY <2>3 DEF a, b, c, d
<1>3. ASSUME NEW x \in Shares, NEW y \in Shares
      PROVE  Plus(x, y) \in Shares /\ Times(x, y) \in Shares
  <2> DEFINE a == x[1] * y[2]
             b == y[1] * x[2]
             c == x[1] * y[1]
             d == x[2] * y[2]
  <2>1. a \in Int /\ b \in Int /\ c \in Int /\ d \in Nat \ {0}
        /\ a >= 0 /\ b >= 0 /\ c >= 0
    BY <1>1, <1>2, SharesAreFractions
  <2>2. Plus(x, y) = Frac(a + b, d) /\ Times(x, y) = Frac(c, d)
    BY DEF Plus, Times
  <2> HIDE DEF a, b, c, d
  <2>3. a + b \in Int /\ a + b >= 0
    BY <2>1
  <2>4. QED
    BY <2>1, <2>2, <2>3, FracReduces
<1>4. ASSUME NEW x \in Fractions, NEW y \in Fractions
      PROVE  /\ Minus(x, y) \in Fractions /\ Times(x, y) \in Fractions
             /\ y[1] > 0 => Over(x, y) \in Fractions
  <2> DEFINE a == x[1] * y[2]
             b == y[1] * x[2]
             c == x[1] * y[1]
             d == x[2] * y[2]
             e == x[2] * y[1]
  <2>1. a \in Int /\ b \in Int /\ c \in Int /\ d \in Nat \ {0}
        /\ (y[1] > 0 => e \in Nat \ {0})
    BY <1>1
  <2>2. Minus(x, y) = Frac(a - b, d) /\ Times(x, y) = Frac(c, d) /\ Over(x, y) = Frac(a, e)
    BY DEF Minus, Times, Over
  <2> HIDE DEF a, b, c, d, e
  <2>3. a - b \in Int
    BY <2>1
  <2>4. QED
    BY <2>1, <2>2, <2>3, FracReduces
<1>5. Plus(<<0, 1>>, <<0, 1>>) = <<0, 1>>
  <2>1. Plus(<<0, 1>>, <<0, 1>>) = Frac(0, 1)
    BY DEF Plus
  <2>2. QED
    BY <2>1, FracReduces
<1>6. ASSUME NEW x \in Shares PROVE Times(<<0, 1>>, x) = <<0, 1>>
  <2>1. x[1] \in Int /\ x[2] \in Nat \ {0}
    BY SharesAreFractions
  <2>2. Times(<<0, 1>>, x) = Frac(0, x[2])
    BY <2>1 DEF Times
  <2>3. QED
    BY <2>1, <2>2, FracReduces
<1>7. QED
  BY <1>3, <1>4, <1>5, <1>6

\* Less is a strict order of the shares.
LEMMA LessOrders ==
  /\ \A x \in Fractions : ~Less(x, x)
  /\ \A x, y, z \in Fractions : Less(x, y) /\ Less(y, z) => Less(x, z)
<1>1. ASSUME NEW x \in Fractions PROVE ~Less(x, x)
  <2> DEFINE a == x[1] * x[2]
  <2>1. x[1] \in Int /\ x[2] \in Int
    BY SharesAreFractions
  <2>2. a \in Int /\ (Less(x, x) <=> a < a)
    BY <2>1 DEF Less
  <2> HIDE DEF a
  <2>3. QED
    BY <2>2
<1>2. ASSUME NEW x \in Fractions, NEW y \in Fractions, NEW z \in Fractions,
             Less(x, y), Less(y, z)
      PROVE  Less(x, z)
  <2> DEFINE a == x[1]
             b == x[2]
             c == y[1]
             d == y[2]
             e == z[1]
             f == z[2]
  <2>1. a \in Int /\ b \in Nat \ {0} /\ c \in Int /\ d \in Nat \ {0}
        /\ e \in Int /\ f \in Nat \ {0}
    BY SharesAreFractions
  <2>2. a * d < c * b /\ c * f < e * d
    BY <1>2 DEF Less
  <2>3. a * f < e * b => Less(x, z)
    BY DEF Less
  <2> HIDE DEF a, b, c, d, e, f
  <2>4. (a * d) * f < (c * b) * f
    <3> DEFINE p == a * d
               q == c * b
    <3>1. p \in Int /\ q \in Int /\ p < q
      BY <2>1, <2>2
    <3> HIDE DEF p, q
    <3>2. p * f < q * f
      BY <2>1, <3>1
    <3>3. QED
      BY <3>2 DEF p, q
  <2>5. (c * f) * b < (e * d) * b
    <3> DEFINE p == c * f
               q == e * d
    <3>1. p \in Int /\ q \in Int /\ p < q
      BY <2>1, <2>2
    <3> HIDE DEF p, q
    <3>2. p * b < q * b
      BY <2>1, <3>1
    <3>3. QED
      BY <3>2 DEF p, q
  <2>6. (c * b) * f = (c * f) * b /\ (a * d) * f = (a * f) * d /\ (e * d) * b = (e * b) * d
    BY <2>1
  <2>7. a * f < e * b
    <3> DEFINE p == a * f
               q == e * b
    <3>1. p \in Int /\ q \in Int
      BY <2>1
    <3>2. p * d < q * d
      <4>1. (a * d) * f \in Int /\ (c * b) * f \in Int /\ (e * d) * b \in Int
        BY <2>1
      <4>2. QED
        BY <2>4, <2>5, <2>6, <4>1
    <3> HIDE DEF p, q
    <3>3. p < q
      BY <2>1, <3>1, <3>2
    <3>4. QED
      BY <3>3 DEF p, q
  <2>8. QED
    BY <2>3, <2>7
<1>3. QED
  BY <1>1, <1>2

\* Fractions in lowest terms.
Lowest ==
  {q \in Fractions : \A k \in Nat \ {0} : \A a, b \in Int :
                       q[1] = k * a /\ q[2] = k * b => k = 1}

\* A multiple leaves no remainder.
LEMMA Multiples ==
  ASSUME NEW x \in Nat \ {0}, NEW a \in Int
  PROVE  (x * a) % x = 0
<1> DEFINE n == x * a
           q == n \div x
           r == n % x
           t == a - q
<1>1. n \in Int
  OBVIOUS
<1> HIDE DEF n
<1>2. q \in Int /\ r \in 0..(x - 1) /\ n = x * q + r
  BY <1>1
<1> HIDE DEF q, r
<1>3. t \in Int /\ x * t = r
  <2>1. x * (a - q) = x * a - x * q
    BY <1>2
  <2>2. x * q \in Int /\ x * a \in Int
    BY <1>2
  <2>3. QED
    BY <1>1, <1>2, <2>1, <2>2 DEF n
<1> HIDE DEF t
<1>4. t >= 1 => x * t >= x
  BY <1>3
<1>5. t <= -1 => x * t <= -x
  BY <1>3
<1>6. t = 0 => x * t = 0
  BY <1>3
<1>7. r = 0
  BY <1>2, <1>3, <1>4, <1>5, <1>6
<1>8. QED
  BY <1>7 DEF r, n

\* Frac keeps the value and reduces to lowest terms.
LEMMA FracLowest ==
  ASSUME NEW n \in Int, NEW d \in Nat \ {0}
  PROVE  Frac(n, d) \in Lowest /\ Frac(n, d)[1] * d = n * Frac(n, d)[2]
<1> DEFINE D == {k \in 1..d : n % k = 0 /\ d % k = 0}
           m == Max(D)
           p == n \div m
           q == d \div m
<1>1. 1 \in D
  OBVIOUS
<1>2. m \in D /\ \A k \in D : m >= k
  <2>1. IsFiniteSet(1..d)
    BY FS_Interval
  <2>2. D \in SUBSET (1..d) /\ \A k \in D : k \in Int
    OBVIOUS
  <2> HIDE DEF D
  <2>3. IsFiniteSet(D)
    BY <2>1, <2>2, FS_Subset
  <2>4. QED
    BY <1>1, <2>2, <2>3, FiniteExtremes
<1>3. m \in 1..d /\ n % m = 0 /\ d % m = 0
  BY <1>2
<1>4. Frac(n, d) = <<p, q>>
  BY DEF Frac
<1>5. \A k \in 1..d : n % k = 0 /\ d % k = 0 => k <= m
  BY <1>2
<1> HIDE DEF m, D
<1>6. p \in Int /\ q \in Int /\ m \in Nat \ {0} /\ n = m * p /\ d = m * q
  BY <1>3
<1> HIDE DEF p, q
<1>7. ASSUME NEW k \in Nat \ {0}, NEW a \in Int, NEW b \in Int, p = k * a, q = k * b
      PROVE  k = 1
  <2> DEFINE x == m * k
  <2>1. x \in Nat \ {0} /\ n = x * a /\ d = x * b
    BY <1>6, <1>7
  <2>2. k >= 2 => x > m
    BY <1>6
  <2> HIDE DEF x
  <2>3. n % x = 0 /\ d % x = 0
    BY <2>1, Multiples
  <2>4. b >= 1
    BY <2>1
  <2>5. x <= x * b
    BY <2>1, <2>4
  <2>6. x \in 1..d
    BY <2>1, <2>5
  <2>7. x <= m
    BY <1>5, <2>3, <2>6
  <2>8. QED
    BY <1>6, <2>1, <2>2, <2>7
<1>8. p * d = n * q
  <2>1. p * (m * q) = (m * p) * q
    BY <1>6
  <2>2. QED
    BY <1>6, <2>1
<1>9. QED
  <2> DEFINE f == Frac(n, d)
  <2>1. f \in Fractions
    BY FracReduces
  <2>2. f = <<p, q>>
    BY <1>4
  <2> HIDE DEF f
  <2>3. f[1] = p /\ f[2] = q
    BY <2>2
  <2>4. f \in Lowest
    BY <1>7, <2>1, <2>3 DEF Lowest
  <2>5. QED
    BY <1>8, <2>3, <2>4 DEF f

\* A fraction in lowest terms is the one with the smallest denominator.
LEMMA LowestDivides ==
  ASSUME NEW x \in Lowest, NEW p \in Int, NEW q \in Nat \ {0}, p * x[2] = x[1] * q,
         \A c \in Int, e \in Nat \ {0} : c * x[2] = x[1] * e => q <= e
  PROVE  x[1] = p /\ x[2] = q
<1> DEFINE a == x[1]
           b == x[2]
           k == b \div q
           r == b % q
           s == a - k * p
<1>1. a \in Int /\ b \in Nat \ {0}
  BY SharesAreFractions DEF Lowest
<1>2. /\ p * b = a * q
      /\ \A c \in Int, e \in Nat \ {0} : c * b = a * e => q <= e
      /\ \A h \in Nat \ {0} : \A c, e \in Int : a = h * c /\ b = h * e => h = 1
  BY DEF Lowest
<1> HIDE DEF a, b
<1>3. k \in Int /\ r \in 0..(q - 1) /\ b = q * k + r /\ k >= 0
  BY <1>1
<1> HIDE DEF k, r
<1>4. s \in Int /\ s * b = a * r
  <2>1. s \in Int /\ s * b = a * b - (k * p) * b
    BY <1>1, <1>3
  <2>2. (k * p) * b = k * (p * b)
    BY <1>1, <1>3
  <2>3. k * (a * q) = a * (q * k)
    BY <1>1, <1>3
  <2>4. a * (q * k) = a * (b - r)
    <3>1. q * k \in Int
      BY <1>3
    <3>2. q * k = b - r
      BY <1>1, <1>3, <3>1
    <3>3. QED
      BY <3>2
  <2>5. a * (b - r) = a * b - a * r
    BY <1>1, <1>3
  <2>6. s * b = a * b - (a * b - a * r)
    BY <1>2, <2>1, <2>2, <2>3, <2>4, <2>5
  <2>7. a * b \in Int /\ a * r \in Int
    BY <1>1, <1>3
  <2>8. QED
    BY <2>1, <2>6, <2>7
<1>5. a = k * p + s
  <2>1. k * p \in Int
    BY <1>3
  <2>2. QED
    BY <1>1, <2>1
<1> HIDE DEF s
<1>6. r = 0
  <2>1. r > 0 => q <= r
    BY <1>2, <1>3, <1>4
  <2>2. QED
    BY <1>3, <2>1
<1>7. s = 0
  <2>1. s * b = 0
    BY <1>1, <1>4, <1>6
  <2>2. QED
    BY <1>1, <1>4, <2>1
<1>8. a = k * p /\ b = k * q
  <2>1. q * k = k * q /\ k * p \in Int /\ q * k \in Int
    BY <1>3
  <2>2. QED
    BY <1>1, <1>3, <1>5, <1>6, <1>7, <2>1
<1>9. k = 1
  <2>1. k # 0
    BY <1>1, <1>3, <1>8
  <2>2. k \in Nat \ {0}
    BY <1>3, <2>1
  <2>3. QED
    BY <1>2, <1>8, <2>2
<1>10. a = p /\ b = q
  BY <1>8, <1>9
<1>11. QED
  BY <1>10 DEF a, b

\* Equal numbers have equal fractions in lowest terms.
LEMMA LowestUnique ==
  ASSUME NEW x \in Lowest, NEW y \in Lowest, x[1] * y[2] = y[1] * x[2]
  PROVE  x = y
<1> DEFINE a == x[1]
           b == x[2]
           c == y[1]
           d == y[2]
           E == {q \in Nat \ {0} : \E p \in Int : p * b = a * q}
           F == {E}
<1>1. /\ a \in Int /\ b \in Nat \ {0} /\ c \in Int /\ d \in Nat \ {0}
      /\ x = <<a, b>> /\ y = <<c, d>> /\ a * d = c * b
  BY SharesAreFractions DEF Lowest
<1> HIDE DEF a, b, c, d
<1>2. PICK q \in E : \A e \in E : q <= e
  <2>1. b \in E
    BY <1>1
  <2>2. E \subseteq Nat
    OBVIOUS
  <2> DEFINE below == {e \in E : e \in 1..b}
  <2>3. below \in SUBSET (1..b) /\ b \in below
    BY <1>1, <2>1
  <2>4. IsFiniteSet(below) /\ \A e \in below : e \in Int
    <3>1. IsFiniteSet(1..b)
      <4>1. b \in Int
        BY <1>1
      <4>2. QED
        BY <4>1, FS_Interval
    <3>2. IsFiniteSet(below)
      <4> HIDE DEF below
      <4>1. QED
        BY <2>3, <3>1, FS_Subset
    <3>3. QED
      BY <3>2
  <2>5. \A e \in E : e \in Nat \ {0} /\ (e \in below \/ e > b)
    BY <1>1
  <2>6. \A e \in below : e \in E /\ e <= b
    BY <1>1
  <2> HIDE DEF below, E
  <2>7. Min(below) \in below /\ \A e \in below : Min(below) <= e
    BY <2>3, <2>4, FiniteExtremes
  <2>8. \A e \in E : Min(below) <= e
    BY <1>1, <2>5, <2>6, <2>7
  <2>9. QED
    BY <2>6, <2>7, <2>8
<1>3. PICK p \in Int : p * b = a * q
  BY <1>2
<1>4. q \in Nat \ {0}
  BY <1>2
<1>5. \A u \in Int, e \in Nat \ {0} : u * b = a * e => q <= e
  BY <1>2
<1> HIDE DEF E
<1>6. \A u \in Int, e \in Nat \ {0} : u * b = a * e <=> u * d = c * e
  <2>1. TAKE u \in Int, e \in Nat \ {0}
  <2>2. (u * b) * d = (u * d) * b /\ (a * e) * d = (a * d) * e /\ (c * e) * b = (c * b) * e
    BY <1>1
  <2> DEFINE ub == u * b
             ud == u * d
             ae == a * e
             ce == c * e
  <2>3. ub \in Int /\ ud \in Int /\ ae \in Int /\ ce \in Int
    BY <1>1
  <2>4. ub * d = ud * b /\ ae * d = ce * b
    BY <1>1, <2>2
  <2> HIDE DEF ub, ud, ae, ce
  <2>5. ub = ae => ud = ce
    <3>1. ub = ae => ud * b = ce * b
      BY <2>4
    <3>2. QED
      BY <1>1, <2>3, <3>1
  <2>6. ud = ce => ub = ae
    <3>1. ud = ce => ub * d = ae * d
      BY <2>4
    <3>2. QED
      BY <1>1, <2>3, <3>1
  <2>7. QED
    BY <2>5, <2>6 DEF ub, ud, ae, ce
<1>7. a = p /\ b = q
  BY <1>3, <1>4, <1>5, LowestDivides DEF a, b
<1>8. c = p /\ d = q
  <2>1. p * d = c * q /\ \A u \in Int, e \in Nat \ {0} : u * d = c * e => q <= e
    BY <1>3, <1>4, <1>5, <1>6
  <2>2. QED
    BY <1>4, <2>1, LowestDivides DEF c, d
<1>9. QED
  BY <1>1, <1>7, <1>8

\* A common factor may be taken out.
LEMMA Cancel ==
  ASSUME NEW u \in Int, NEW v \in Int, NEW k \in Nat \ {0}, u * k = v * k
  PROVE  u = v
OBVIOUS

\* The fraction of a number is the fraction of an equal one.
LEMMA FracEqual ==
  ASSUME NEW n \in Int, NEW d \in Nat \ {0}, NEW m \in Int, NEW e \in Nat \ {0}, n * e = m * d
  PROVE  Frac(n, d) = Frac(m, e)
<1> DEFINE x == Frac(n, d)
           y == Frac(m, e)
           a == x[1]
           b == x[2]
           f == y[1]
           g == y[2]
<1>1. x \in Lowest /\ y \in Lowest /\ a * d = n * b /\ f * e = m * g
  BY FracLowest
<1>2. a \in Int /\ b \in Nat \ {0} /\ f \in Int /\ g \in Nat \ {0}
  BY <1>1, SharesAreFractions DEF Lowest
<1> HIDE DEF a, b, f, g
<1>3. (a * g) * (d * e) = (f * b) * (d * e)
  <2>1. (a * g) * (d * e) = (a * d) * (g * e)
    BY <1>2
  <2>2. (n * b) * (g * e) = (n * e) * (b * g)
    BY <1>2
  <2>3. (m * d) * (b * g) = (m * g) * (b * d)
    BY <1>2
  <2>4. (f * e) * (b * d) = (f * b) * (d * e)
    BY <1>2
  <2>5. QED
    BY <1>1, <2>1, <2>2, <2>3, <2>4
<1>4. a * g = f * b
  <2>1. a * g \in Int /\ f * b \in Int /\ d * e \in Nat \ {0}
    BY <1>2
  <2>2. QED
    BY <1>3, <2>1, Cancel
<1>5. QED
  <2>1. x[1] * y[2] = y[1] * x[2]
    BY <1>4 DEF a, b, f, g
  <2> HIDE DEF x, y
  <2>2. x = y
    BY <1>1, <2>1, LowestUnique
  <2>3. QED
    BY <2>2 DEF x, y

\* A fraction in lowest terms is that of its numbers, whatever the denominator.
LEMMA LowestIs ==
  ASSUME NEW x \in Lowest
  PROVE  /\ x = Frac(x[1], x[2])
         /\ \A n \in Int, d \in Nat \ {0} : x[1] * d = n * x[2] => x = Frac(n, d)
<1>1. x[1] \in Int /\ x[2] \in Nat \ {0}
  BY SharesAreFractions DEF Lowest
<1>2. x = Frac(x[1], x[2])
  <2> DEFINE y == Frac(x[1], x[2])
  <2>1. y \in Lowest /\ y[1] * x[2] = x[1] * y[2]
    BY <1>1, FracLowest
  <2> HIDE DEF y
  <2>2. x = y
    BY <2>1, LowestUnique
  <2>3. QED
    BY <2>2 DEF y
<1>3. ASSUME NEW n \in Int, NEW d \in Nat \ {0}, x[1] * d = n * x[2]
      PROVE  x = Frac(n, d)
  <2>1. Frac(x[1], x[2]) = Frac(n, d)
    BY <1>1, <1>3, FracEqual
  <2>2. QED
    BY <1>2, <2>1
<1>4. QED
  BY <1>2, <1>3

\* Fractions with a denominator in common are their numerators.
LEMMA SameDenominator ==
  ASSUME NEW a \in Int, NEW b \in Int, NEW N \in Nat \ {0}
  PROVE  /\ Plus(Frac(a, N), Frac(b, N)) = Frac(a + b, N)
         /\ Minus(Frac(a, N), Frac(b, N)) = Frac(a - b, N)
         /\ Less(Frac(a, N), Frac(b, N)) <=> a < b
         /\ b > 0 => Over(Frac(a, N), Frac(b, N)) = Frac(a, b)
<1> DEFINE x == Frac(a, N)
           y == Frac(b, N)
           p == x[1]
           q == x[2]
           r == y[1]
           s == y[2]
           ps == p * s
           rq == r * q
           qs == q * s
<1>1. x \in Lowest /\ y \in Lowest /\ p * N = a * q /\ r * N = b * s
  BY FracLowest
<1>2. p \in Int /\ q \in Nat \ {0} /\ r \in Int /\ s \in Nat \ {0}
  BY <1>1, SharesAreFractions DEF Lowest
<1>3. /\ Plus(x, y) = Frac(ps + rq, qs) /\ Minus(x, y) = Frac(ps - rq, qs)
      /\ Less(x, y) <=> ps < rq
      /\ Over(x, y) = Frac(ps, q * r)
  BY DEF Plus, Minus, Less, Over
<1> HIDE DEF x, y, p, q, r, s
<1>4. ps \in Int /\ rq \in Int /\ qs \in Nat \ {0}
  BY <1>2
<1>5. ps * N = a * qs /\ rq * N = b * qs
  <2>1. ps * N = (p * N) * s /\ (a * q) * s = a * qs
    BY <1>2
  <2>2. rq * N = (r * N) * q /\ (b * s) * q = b * qs
    BY <1>2
  <2>3. QED
    BY <1>1, <2>1, <2>2
<1> HIDE DEF ps, rq, qs
<1>6. (ps + rq) * N = (a + b) * qs /\ (ps - rq) * N = (a - b) * qs
  <2>1. (ps + rq) * N = ps * N + rq * N /\ (ps - rq) * N = ps * N - rq * N
    BY <1>4
  <2>2. (a + b) * qs = a * qs + b * qs /\ (a - b) * qs = a * qs - b * qs
    BY <1>4
  <2>3. QED
    BY <1>5, <2>1, <2>2
<1>7. Plus(x, y) = Frac(a + b, N)
  <2>1. ps + rq \in Int /\ a + b \in Int
    BY <1>4
  <2>2. QED
    BY <1>3, <1>4, <1>6, <2>1, FracEqual
<1>8. Minus(x, y) = Frac(a - b, N)
  <2>1. ps - rq \in Int /\ a - b \in Int
    BY <1>4
  <2>2. QED
    BY <1>3, <1>4, <1>6, <2>1, FracEqual
<1>9. Less(x, y) <=> a < b
  <2>1. ps < rq => a * qs < b * qs
    <3>1. ps < rq => ps * N < rq * N
      BY <1>4
    <3>2. QED
      BY <1>5, <3>1
  <2>2. a * qs < b * qs => a < b
    BY <1>4
  <2>3. a < b => a * qs < b * qs
    BY <1>4
  <2>4. ps * N < rq * N => ps < rq
    BY <1>4
  <2>5. QED
    BY <1>3, <1>5, <2>1, <2>2, <2>3, <2>4
<1>10. b > 0 => Over(x, y) = Frac(a, b)
  <2>1. HAVE b > 0
  <2> DEFINE qr == q * r
  <2>2. r > 0
    <3>1. b * s > 0
      BY <1>2, <2>1
    <3>2. r <= 0 => r * N <= 0
      BY <1>2
    <3>3. QED
      BY <1>1, <1>2, <3>1, <3>2
  <2>3. qr \in Nat \ {0}
    BY <1>2, <2>2
  <2>4. qr = rq
    BY <1>2 DEF rq
  <2> HIDE DEF qr
  <2>5. ps * b = a * qr
    <3>1. (ps * b) * qs = (a * qr) * qs
      <4>1. (ps * b) * qs = ps * (b * qs) /\ ps * (rq * N) = (ps * N) * rq
            /\ (a * qs) * rq = (a * rq) * qs
        BY <1>4
      <4>2. QED
        BY <1>5, <2>4, <4>1
    <3>2. ps * b \in Int /\ a * qr \in Int
      BY <1>4, <2>3
    <3>3. QED
      BY <1>4, <3>1, <3>2, Cancel
  <2>6. Frac(ps, qr) = Frac(a, b)
    <3>1. b \in Nat \ {0}
      BY <2>1
    <3>2. QED
      BY <1>4, <2>3, <2>5, <3>1, FracEqual
  <2>7. QED
    BY <1>3, <2>6 DEF qr
<1>11. QED
  BY <1>7, <1>8, <1>9, <1>10 DEF x, y

\* The product of two fractions.
LEMMA Product ==
  ASSUME NEW a \in Int, NEW N \in Nat \ {0}, NEW b \in Int, NEW M \in Nat \ {0}
  PROVE  Times(Frac(a, N), Frac(b, M)) = Frac(a * b, N * M)
<1> DEFINE x == Frac(a, N)
           y == Frac(b, M)
           p == x[1]
           q == x[2]
           r == y[1]
           s == y[2]
           pr == p * r
           qs == q * s
           ab == a * b
           NM == N * M
<1>1. x \in Lowest /\ y \in Lowest /\ p * N = a * q /\ r * M = b * s
  BY FracLowest
<1>2. p \in Int /\ q \in Nat \ {0} /\ r \in Int /\ s \in Nat \ {0}
  BY <1>1, SharesAreFractions DEF Lowest
<1>3. Times(x, y) = Frac(pr, qs)
  BY DEF Times
<1> HIDE DEF x, y, p, q, r, s
<1>4. pr \in Int /\ qs \in Nat \ {0} /\ ab \in Int /\ NM \in Nat \ {0}
  BY <1>2
<1>5. pr * NM = ab * qs
  <2>1. (p * r) * (N * M) = (p * N) * (r * M)
    BY <1>2
  <2>2. (a * q) * (b * s) = (a * b) * (q * s)
    BY <1>2
  <2>3. QED
    BY <1>1, <2>1, <2>2
<1> HIDE DEF pr, qs, ab, NM
<1>6. Frac(pr, qs) = Frac(ab, NM)
  BY <1>4, <1>5, FracEqual
<1>7. QED
  BY <1>3, <1>6 DEF x, y, ab, NM

\* Numerator and denominator may be multiplied by the same number.
LEMMA Scaled ==
  ASSUME NEW a \in Int, NEW N \in Nat \ {0}, NEW k \in Nat \ {0}
  PROVE  Frac(a * k, N * k) = Frac(a, N)
<1>1. (a * k) * N = a * (N * k)
  OBVIOUS
<1>2. a * k \in Int /\ N * k \in Nat \ {0}
  OBVIOUS
<1> DEFINE x == a * k
           y == N * k
<1> HIDE DEF x, y
<1>3. x \in Int /\ y \in Nat \ {0} /\ x * N = a * y
  BY <1>1, <1>2 DEF x, y
<1>4. Frac(x, y) = Frac(a, N)
  BY <1>3, FracEqual
<1>5. QED
  BY <1>4 DEF x, y

\* Of two fractions in lowest terms one is less, or they are the same.
LEMMA LowestCompare ==
  ASSUME NEW x \in Lowest, NEW y \in Lowest
  PROVE  Less(x, y) \/ Less(y, x) \/ x = y
<1> DEFINE a == x[1] * y[2]
           b == y[1] * x[2]
<1>1. a \in Int /\ b \in Int
  <2>1. x[1] \in Int /\ x[2] \in Int /\ y[1] \in Int /\ y[2] \in Int
    BY SharesAreFractions DEF Lowest
  <2>2. QED
    BY <2>1
<1>2. (Less(x, y) <=> a < b) /\ (Less(y, x) <=> b < a)
  BY DEF Less
<1>3. a = b => x = y
  BY LowestUnique
<1> HIDE DEF a, b
<1>4. QED
  BY <1>1, <1>2, <1>3

\* A sum of shares is the value of a fold.
LEMMA SumOverFolds ==
  ASSUME NEW S, IsFiniteSet(S), NEW f, \A x \in S : f[x] \in Shares
  PROVE  /\ SumOver(S, f) \in Shares
         /\ SumOver(S, f) =
              IF S = {} THEN <<0, 1>>
              ELSE Plus(f[Pick(S)], SumOver(S \ {Pick(S)}, f))
<1> DEFINE V == Shares
           zero == <<0, 1>>
           step == [x \in S |-> [v \in V |-> Plus(f[x], v)]]
           pick == [T \in SUBSET S |-> Pick(T)]
           fold(T) == CHOOSE g : g = [U \in SUBSET T |->
                        IF U = {} THEN zero ELSE Plus(f[Pick(U)], g[U \ {Pick(U)}])]
<1>1. \A T : SumOver(T, f) = fold(T)[T]
  BY DEF SumOver, FoldFunctionOnSet, MapThenFoldSet, Pick
<1>2. (\A x \in S : \A v \in V : step[x][v] \in V) /\ zero \in V
  <2>1. \A x \in S, v \in V : Plus(f[x], v) \in V
    BY FractionsClosed
  <2>2. QED
    BY <2>1, SharesAreFractions
<1>3. PICK g \in [SUBSET S -> V] : Folds(S, pick, zero, step, g)
  <2>1. Picks(S, pick)
    BY DEF Picks, Pick
  <2> HIDE DEF step, zero, V, pick
  <2>2. QED
    BY <1>2, <2>1, FoldExists
<1> HIDE DEF zero
<1>4. \A T \in SUBSET S : T # {} => Pick(T) \in T /\ T \ {Pick(T)} \in SUBSET S
  BY DEF Pick
<1>5. \A T \in SUBSET S :
        g[T] = IF T = {} THEN zero ELSE Plus(f[Pick(T)], g[T \ {Pick(T)}])
  <2>1. \A x \in S, v \in V : step[x][v] = Plus(f[x], v)
    OBVIOUS
  <2> HIDE DEF step, V
  <2>2. QED
    BY <1>3, <1>4, <2>1 DEF Folds
<1>6. \A T \in SUBSET S : fold(T)[T] = g[T]
  <2>1. TAKE T \in SUBSET S
  <2> DEFINE gT == [U \in SUBSET T |-> g[U]]
  <2>2. gT = [U \in SUBSET T |->
               IF U = {} THEN zero ELSE Plus(f[Pick(U)], gT[U \ {Pick(U)}])]
    BY <1>4, <1>5
  <2>3. fold(T) = [U \in SUBSET T |->
               IF U = {} THEN zero ELSE Plus(f[Pick(U)], fold(T)[U \ {Pick(U)}])]
    <3> HIDE DEF gT
    <3>1. QED
      BY <2>2
  <2> DEFINE F == {U \in SUBSET T : fold(T)[U] # g[U]}
  <2> HIDE DEF fold
  <2>4. F \in SUBSET SUBSET T /\ IsFiniteSet(T)
    BY FS_Subset
  <2> HIDE DEF F
  <2>5. ASSUME F # {} PROVE FALSE
    <3>1. PICK U \in F : \A W \in F : W \subseteq U => W = U
      BY <2>4, <2>5, SmallestSubset
    <3>2. U \in SUBSET T /\ U \in SUBSET S /\ fold(T)[U] # g[U]
      BY <3>1 DEF F
    <3>3. U # {}
      BY <1>5, <2>3, <3>2
    <3>4. Pick(U) \in U /\ U \ {Pick(U)} \notin F /\ U \ {Pick(U)} \in SUBSET T
      BY <1>4, <3>1, <3>2, <3>3
    <3>5. fold(T)[U \ {Pick(U)}] = g[U \ {Pick(U)}]
      BY <3>4 DEF F
    <3>6. QED
      BY <1>5, <2>3, <3>2, <3>3, <3>5
  <2>6. T \in SUBSET T
    OBVIOUS
  <2>7. QED
    BY <2>5, <2>6 DEF F
<1>7. QED
  <2> HIDE DEF fold, step
  <2>1. S \in SUBSET S
    OBVIOUS
  <2>2. SumOver(S, f) = g[S] /\ (S # {} => SumOver(S \ {Pick(S)}, f) = g[S \ {Pick(S)}])
    BY <1>1, <1>4, <1>6, <2>1
  <2>3. QED
    BY <1>5, <2>1, <2>2 DEF zero

\* Zero, one and fractions of numbers that are not negative.
LEMMA FracFacts ==
  /\ \A N \in Nat \ {0} : Frac(0, N) = <<0, 1>> /\ Frac(N, N) = <<1, 1>>
  /\ \A a \in Nat, N \in Nat \ {0} : Frac(a, N) \in Shares /\ Frac(a, N) \in Lowest
<1>1. ASSUME NEW N \in Nat \ {0} PROVE Frac(0, N) = <<0, 1>> /\ Frac(N, N) = <<1, 1>>
  <2>1. <<1, 1>> \in Lowest
    <3> DEFINE q == <<1, 1>>
    <3>1. q \in Fractions /\ q[1] = 1 /\ q[2] = 1
      BY SharesAreFractions
    <3> HIDE DEF q
    <3>2. ASSUME NEW k \in Nat \ {0}, NEW a \in Int, 1 = k * a PROVE k = 1
      <4>1. a >= 1
        BY <3>2
      <4>2. k * a >= k
        BY <4>1
      <4>3. QED
        BY <3>2, <4>2
    <3>3. q \in Lowest
      BY <3>1, <3>2 DEF Lowest
    <3>4. QED
      BY <3>3 DEF q
  <2>2. <<1, 1>> = Frac(N, N)
    <3>1. <<1, 1>>[1] * N = N * <<1, 1>>[2]
      OBVIOUS
    <3>2. QED
      BY <2>1, <3>1, LowestIs
  <2>3. QED
    BY <2>2, FracReduces
<1>2. ASSUME NEW a \in Nat, NEW N \in Nat \ {0}
      PROVE  Frac(a, N) \in Shares /\ Frac(a, N) \in Lowest
  BY FracReduces, FracLowest
<1>3. QED
  BY <1>1, <1>2

\* With a denominator in common the sum is that of the numerators.
LEMMA SumOfNumerators ==
  ASSUME NEW S, IsFiniteSet(S), NEW f, NEW a, NEW N \in Nat \ {0},
         \A x \in S : a[x] \in Nat /\ f[x] = Frac(a[x], N)
  PROVE  SumOver(S, f) = Frac(SumFunctionOnSet(a, S), N)
<1> DEFINE sum(T) == SumFunctionOnSet(a, T)
           F == {T \in SUBSET S : SumOver(T, f) # Frac(sum(T), N)}
<1>1. F \in SUBSET SUBSET S
  OBVIOUS
<1>2. \A T \in SUBSET S :
        /\ sum(T) \in Int
        /\ sum(T) = IF T = {} THEN 0 ELSE a[Pick(T)] + sum(T \ {Pick(T)})
        /\ SumOver(T, f) = IF T = {} THEN <<0, 1>>
                           ELSE Plus(f[Pick(T)], SumOver(T \ {Pick(T)}, f))
        /\ T # {} => Pick(T) \in T
  <2>1. TAKE T \in SUBSET S
  <2>2. IsFiniteSet(T)
    BY FS_Subset
  <2>3. \A x \in T : a[x] \in Int /\ f[x] \in Shares
    BY FracFacts
  <2>4. /\ sum(T) \in Int
        /\ sum(T) = IF T = {} THEN 0 ELSE a[Pick(T)] + sum(T \ {Pick(T)})
    BY <2>2, <2>3, SumFolds
  <2>5. SumOver(T, f) = IF T = {} THEN <<0, 1>>
                        ELSE Plus(f[Pick(T)], SumOver(T \ {Pick(T)}, f))
    BY <2>2, <2>3, SumOverFolds
  <2>6. QED
    BY <2>4, <2>5 DEF Pick
<1> HIDE DEF F, sum
<1>3. ASSUME F # {} PROVE FALSE
  <2>1. PICK T \in F : \A U \in F : U \subseteq T => U = T
    BY <1>1, <1>3, SmallestSubset
  <2>2. T \in SUBSET S /\ SumOver(T, f) # Frac(sum(T), N)
    BY <2>1 DEF F
  <2>3. T # {} /\ Pick(T) \in T
    <3>1. T = {} => sum(T) = 0 /\ SumOver(T, f) = <<0, 1>>
      BY <1>2, <2>2
    <3>2. Frac(0, N) = <<0, 1>>
      BY FracFacts
    <3>3. QED
      BY <1>2, <2>2, <3>1, <3>2
  <2> DEFINE x == Pick(T)
             U == T \ {x}
  <2>4. U \in SUBSET S /\ U \notin F
    BY <2>1, <2>2, <2>3
  <2>5. sum(T) = a[x] + sum(U) /\ SumOver(T, f) = Plus(f[x], SumOver(U, f))
    BY <1>2, <2>2, <2>3
  <2>6. sum(U) \in Int /\ SumOver(U, f) = Frac(sum(U), N) /\ a[x] \in Int /\ f[x] = Frac(a[x], N)
    <3>1. x \in S
      BY <2>2, <2>3
    <3>2. sum(U) \in Int
      BY <1>2, <2>4
    <3>3. SumOver(U, f) = Frac(sum(U), N)
      BY <2>4 DEF F
    <3> HIDE DEF x, U
    <3>4. a[x] \in Nat /\ f[x] = Frac(a[x], N)
      BY <3>1
    <3>5. QED
      BY <3>2, <3>3, <3>4
  <2> HIDE DEF x, U
  <2>7. Plus(Frac(a[x], N), Frac(sum(U), N)) = Frac(a[x] + sum(U), N)
    BY <2>6, SameDenominator
  <2>8. QED
    BY <2>2, <2>5, <2>6, <2>7
<1>4. S \in SUBSET S /\ S \notin F
  BY <1>3
<1>5. QED
  BY <1>4 DEF F, sum

\* Fractions of the members of S with s times some number as the denominator.
InCommon(S, f, s) ==
  \E m \in Nat \ {0} : \E a \in [S -> Nat] : \A x \in S : f[x] = Frac(a[x], s * m)

\* Finitely many shares have a denominator in common, a multiple of any number.
LEMMA CommonDenominator ==
  ASSUME NEW S, IsFiniteSet(S), NEW f, NEW s \in Nat \ {0},
         \A x \in S : f[x] \in Shares /\ f[x] \in Lowest
  PROVE  InCommon(S, f, s)
<1> DEFINE common(T, m) == \E a \in [T -> Nat] : \A x \in T : f[x] = Frac(a[x], s * m)
           F == {T \in SUBSET S : \A m \in Nat \ {0} : ~common(T, m)}
<1>1. F \in SUBSET SUBSET S
  OBVIOUS
<1>2. ASSUME F # {} PROVE FALSE
  <2>1. PICK T \in F : \A U \in F : U \subseteq T => U = T
    <3> HIDE DEF F
    <3>1. QED
      BY <1>1, <1>2, SmallestSubset
  <2>2. T \in SUBSET S /\ \A m \in Nat \ {0} : ~common(T, m)
    BY <2>1
  <2>3. T # {}
    <3>1. T = {} => common(T, 1)
      <4>1. [x \in {} |-> 0] \in [{} -> Nat]
        OBVIOUS
      <4>2. QED
        BY <4>1
    <3>2. QED
      BY <2>2, <3>1
  <2>4. PICK y \in T : TRUE
    BY <2>3
  <2> DEFINE U == T \ {y}
             p == f[y][1]
             q == f[y][2]
  <2>5. U \in SUBSET S /\ U \notin F
    BY <2>1, <2>2, <2>4
  <2>6. PICK m \in Nat \ {0} : common(U, m)
    BY <2>5
  <2>7. PICK a \in [U -> Nat] : \A x \in U : f[x] = Frac(a[x], s * m)
    BY <2>6
  <2>8. p \in Nat /\ q \in Nat \ {0} /\ f[y] = Frac(p, q)
    <3>1. f[y] \in Shares /\ f[y] \in Lowest
      BY <2>2, <2>4
    <3>2. p \in Int /\ p >= 0 /\ q \in Nat \ {0}
      BY <3>1, SharesAreFractions
    <3>3. QED
      BY <3>1, <3>2, LowestIs
  <2> HIDE DEF p, q
  <2> DEFINE sm == s * m
             mq == m * q
             psm == p * sm
             b == [x \in T |-> IF x = y THEN psm ELSE a[x] * q]
  <2>9. sm \in Nat \ {0} /\ mq \in Nat \ {0} /\ psm \in Nat /\ s * mq = sm * q /\ s * mq = q * sm
    <3>1. sm \in Nat \ {0}
      OBVIOUS
    <3>2. mq \in Nat \ {0}
      BY <2>8
    <3>3. psm \in Nat
      <4> HIDE DEF sm
      <4>1. QED
        BY <2>8, <3>1
    <3>4. s * (m * q) = (s * m) * q /\ s * (m * q) = q * (s * m)
      BY <2>8
    <3>5. QED
      BY <3>1, <3>2, <3>3, <3>4
  <2>10. \A x \in T : b[x] \in Nat /\ f[x] = Frac(b[x], s * mq)
    <3>1. TAKE x \in T
    <3>2. CASE x = y
      <4>1. b[x] = psm
        BY <3>2
      <4>2. Frac(psm, q * sm) = Frac(p, q)
        <5> HIDE DEF sm, b
        <5>1. QED
          BY <2>8, <2>9, Scaled
      <4> HIDE DEF b, psm, mq, sm
      <4>3. QED
        BY <2>8, <2>9, <3>2, <4>1, <4>2
    <3>3. CASE x # y
      <4>1. b[x] = a[x] * q /\ a[x] \in Nat /\ f[x] = Frac(a[x], sm)
        BY <2>7, <3>3
      <4> HIDE DEF b, psm, mq, sm
      <4>2. Frac(a[x] * q, sm * q) = Frac(a[x], sm)
        BY <2>8, <2>9, <4>1, Scaled
      <4>3. a[x] * q \in Nat
        BY <2>8, <4>1
      <4>4. QED
        BY <2>9, <4>1, <4>2, <4>3
    <3>4. QED
      BY <3>2, <3>3
  <2>11. b \in [T -> Nat]
    BY <2>10
  <2> HIDE DEF b, mq
  <2>12. common(T, mq)
    BY <2>10, <2>11
  <2>13. QED
    BY <2>2, <2>9, <2>12
<1>3. S \in SUBSET S /\ S \notin F
  BY <1>2
<1>4. QED
  BY <1>3 DEF InCommon

\* A sum of shares is a share, and of nothing nothing.
LEMMA SumsOfShares ==
  ASSUME NEW S, IsFiniteSet(S), NEW f, \A x \in S : f[x] \in Shares
  PROVE  /\ SumOver(S, f) \in Shares
         /\ (\A x \in S : f[x] = <<0, 1>>) => SumOver(S, f) = <<0, 1>>
<1>1. SumOver(S, f) \in Shares
  BY SumOverFolds
<1>2. ASSUME \A x \in S : f[x] = <<0, 1>> PROVE SumOver(S, f) = <<0, 1>>
  <2> DEFINE none == [x \in S |-> 0]
  <2>1. Frac(0, 1) = <<0, 1>>
    BY FracFacts
  <2>2. \A x \in S : none[x] = 0 /\ none[x] \in Nat /\ f[x] = Frac(none[x], 1)
    BY <1>2, <2>1
  <2> HIDE DEF none
  <2>3. SumOver(S, f) = Frac(SumFunctionOnSet(none, S), 1)
    BY <2>2, SumOfNumerators
  <2>4. SumFunctionOnSet(none, S) = 0
    <3>1. SumFunctionOnSet(none, S) = 0 * Cardinality(S) /\ Cardinality(S) \in Nat
      BY <2>2, EqualSums, FS_CardinalityType
    <3>2. QED
      BY <3>1
  <2>5. QED
    BY <2>1, <2>3, <2>4
<1>3. QED
  BY <1>1, <1>2

\* Of finitely many shares one is not less than any.
LEMMA SomeShareLeads ==
  ASSUME NEW S, IsFiniteSet(S), S # {}, NEW f, \A x \in S : f[x] \in Fractions
  PROVE  \E c \in S : \A d \in S : ~Less(f[c], f[d])
<1> DEFINE ahead(c) == {d \in S : Less(f[c], f[d])}
           F == {ahead(c) : c \in S}
<1>1. F \in SUBSET SUBSET S /\ F # {}
  OBVIOUS
<1>2. \E T \in F : \A U \in F : U \subseteq T => U = T
  <2> HIDE DEF F
  <2>1. QED
    BY <1>1, SmallestSubset
<1>3. PICK c \in S : \A d \in S : ahead(d) \subseteq ahead(c) => ahead(d) = ahead(c)
  <2>1. PICK T \in F : \A U \in F : U \subseteq T => U = T
    BY <1>2
  <2>2. PICK c \in S : T = ahead(c)
    BY <2>1
  <2>3. \A d \in S : ahead(d) \in F
    OBVIOUS
  <2> HIDE DEF F, ahead
  <2>4. QED
    BY <2>1, <2>2, <2>3
<1>4. ASSUME NEW d \in S, Less(f[c], f[d]) PROVE FALSE
  <2>1. d \in ahead(c) /\ d \notin ahead(d)
    BY <1>4, LessOrders
  <2>2. ahead(d) \subseteq ahead(c)
    BY <1>4, LessOrders
  <2>3. QED
    BY <1>3, <2>1, <2>2
<1>5. QED
  BY <1>4

\* Of finitely many fractions one is the least.
LEMMA SomeShareTrails ==
  ASSUME NEW S, IsFiniteSet(S), S # {}, NEW f, \A x \in S : f[x] \in Fractions
  PROVE  \E c \in S : \A d \in S : ~Less(f[d], f[c])
<1> DEFINE g == [x \in S |-> <<-f[x][1], f[x][2]>>]
<1>1. \A x \in S : f[x][1] \in Int /\ f[x][2] \in Nat \ {0} /\ (f[x][1] = 0 => f[x][2] = 1)
  BY SharesAreFractions
<1>2. \A x \in S : g[x] \in Fractions
  <2>1. TAKE x \in S
  <2> DEFINE p == f[x][1]
             q == f[x][2]
  <2>2. p \in Int /\ q \in Nat \ {0} /\ (p = 0 => q = 1) /\ g[x] = <<-p, q>>
    BY <1>1
  <2> HIDE DEF p, q, g
  <2>3. QED
    BY <2>2 DEF Fractions
<1>3. \A x, y \in S : Less(g[x], g[y]) <=> Less(f[y], f[x])
  <2>1. TAKE x, y \in S
  <2> DEFINE p == f[x][1]
             q == f[x][2]
             r == f[y][1]
             s == f[y][2]
  <2>2. p \in Int /\ q \in Int /\ r \in Int /\ s \in Int
    BY <1>1
  <2>3. (Less(g[x], g[y]) <=> (-p) * s < (-r) * q) /\ (Less(f[y], f[x]) <=> r * q < p * s)
    BY DEF Less
  <2> HIDE DEF p, q, r, s, g
  <2>4. (-p) * s = -(p * s) /\ (-r) * q = -(r * q) /\ p * s \in Int /\ r * q \in Int
    BY <2>2
  <2>5. QED
    BY <2>3, <2>4
<1> HIDE DEF g
<1>4. PICK c \in S : \A d \in S : ~Less(g[c], g[d])
  BY <1>2, SomeShareLeads
<1>5. QED
  BY <1>3, <1>4

------------------------------------------------------------------------------
(* The inductive invariant. *)

\* The race and the ballots that count.
TallyInv == IsRace(race) /\ IsTally(race, tally)

\* The seats and the candidates who are left.
SeatInv ==
  /\ elected \in Seq(Cands(race)) /\ Len(elected) <= race.seats
  /\ Lists(race, remaining)

\* Bloc methods: who is elected is left out of the rounds to come, and the first
\* round is the one of the whole list.
BlocInv ==
  race.method \in Bloc =>
    /\ Distinct(elected)
    /\ ToSet(elected) \cap ToSet(remaining) = {}
    /\ ToSet(elected) \cup ToSet(remaining) = Cands(race)
    /\ LET won == SingleWinner(race, tally, PreSorted(race, tally))
       IN IF elected = <<>> THEN remaining = PreSorted(race, tally)
          ELSE elected[1] = won.winner /\ (race.seats = 1 => tieBreak = won.tie)

\* IRV and STV: the counts are numbers; nobody is elected twice.
CountInv ==
  race.method \in {"IRV", "STV"} =>
    /\ AreRounds(race, sums)
    /\ DOMAIN weight = DOMAIN tally /\ \A i \in DOMAIN tally : weight[i] \in Int
    /\ DOMAIN pile = DOMAIN tally
    /\ Distinct(elected)
    /\ Len(elected) < race.seats => ToSet(elected) \cap ToSet(remaining) = {}

\* STV: there are candidates for the seats that are left.
StvInv ==
  race.method = "STV" /\ Len(elected) < race.seats =>
    Len(elected) + Len(remaining) >= race.seats

\* IRV: every ballot weighs one vote and is with a candidate who is left, or
\* with none; nobody is left only when the last one had no ballot.
IrvInv ==
  race.method = "IRV" =>
    /\ \A i \in DOMAIN tally : weight[i] = Unit /\ pile[i] \in ToSet(remaining) \cup {0}
    /\ Len(elected) < race.seats /\ remaining = <<>> =>
         sums # <<>> /\ \A c \in Cands(race) : Last(sums)[c] = 0

\* STAR_PR: the weights are shares; who was elected wins again only when all
\* totals of the round are zero.
ShareInv ==
  race.method = "STAR_PR" =>
    /\ DOMAIN weight = DOMAIN tally /\ \A i \in DOMAIN tally : weight[i] \in Shares
    /\ sums \in Seq([Cands(race) -> Shares]) /\ Len(sums) = Len(elected)
    /\ \A i, j \in DOMAIN elected :
         i < j /\ elected[i] = elected[j] =>
           \A c \in Cands(race) : sums[j][c] = <<0, 1>>

\* The inductive invariant of Tabulation, for every method.
TabulationInv ==
  TallyInv /\ SeatInv /\ BlocInv /\ CountInv /\ StvInv /\ IrvInv /\ ShareInv

\* The filter leaves ballots with a mark within bounds for every candidate.
LEMMA TallyVotesTallies ==
  ASSUME NEW poll \in Polls, NEW e \in poll
  PROVE  /\ IsRace(e.race)
         /\ IsTally(e.race, TallyVotes(e.race, e.votes))
<1> DEFINE r == e.race
           I == {i \in DOMAIN e.votes : Counts(r, e.votes[i])}
           counted == Counted(r, e.votes)
<1>1. /\ IsRace(r)
      /\ e.votes \in Seq(ToSet(e.votes))
      /\ \A v \in ToSet(e.votes) : DOMAIN v.marks \subseteq Cands(r)
  BY TabulationAssumption DEF PollsAssumption, IsRace
<1>2. DOMAIN e.votes = 1..Len(e.votes) /\ Len(e.votes) \in Nat
  BY <1>1
<1>3. IsFiniteSet(I) /\ \A i \in I : i \in Int
  <2> DEFINE D == 1..Len(e.votes)
  <2>1. IsFiniteSet(D) /\ \A i \in D : i \in Int
    BY <1>2, FS_Interval
  <2>2. I \in SUBSET D
    BY <1>2
  <2> HIDE DEF D, I
  <2>3. QED
    BY <2>1, <2>2, FS_Subset
<1>4. /\ DOMAIN counted = 1..Cardinality(I) /\ Cardinality(I) \in Nat
      /\ \A k \in DOMAIN counted : counted[k] \in I
  <2>1. counted = Ascending(I)
    BY DEF Counted
  <2> HIDE DEF I, counted
  <2>2. QED
    BY <1>3, <2>1, AscendingSorts, FS_CardinalityType DEF ToSet
<1>5. TopMark(r) \in Nat
  <2>1. r.maxRank \in Nat
    BY <1>1 DEF IsRace
  <2>2. QED
    BY <2>1 DEF TopMark
<1>6. ASSUME NEW i \in I PROVE Filled(r, e.votes[i]) \in [Cands(r) -> 0..TopMark(r)]
  <2> DEFINE v == e.votes[i]
  <2>1. \A c \in DOMAIN v.marks : v.marks[c] \in 0..TopMark(r)
    BY <1>6 DEF Counts, OutOfBounds
  <2>2. QED
    BY <1>5, <2>1 DEF Filled
<1>7. TallyVotes(r, e.votes) = [k \in 1..Cardinality(I) |-> Filled(r, e.votes[counted[k]])]
  BY <1>4 DEF TallyVotes
<1>8. IsTally(r, TallyVotes(r, e.votes))
  <2>1. \A k \in 1..Cardinality(I) :
          Filled(r, e.votes[counted[k]]) \in [Cands(r) -> 0..TopMark(r)]
    BY <1>4, <1>6
  <2> HIDE DEF I, counted, r
  <2>2. QED
    BY <1>4, <1>7, <2>1 DEF IsTally
<1>9. QED
  BY <1>1, <1>8

\* A tabulation starts with ballots, a list of all candidates and no seat taken.
LEMMA InitInv ==
  ASSUME Init
  PROVE  TabulationInv
<1>0. PICK poll \in Polls : \E e \in poll :
        /\ race = e.race
        /\ tally = TallyVotes(race, e.votes)
        /\ remaining = PreSorted(e.race, TallyVotes(e.race, e.votes))
        /\ elected = <<>> /\ sums = <<>> /\ tieBreak = "none"
        /\ pile = IF race.method \in {"IRV", "STV"}
                  THEN [i \in DOMAIN tally |->
                         Receiver(race, remaining, tally[i], over[i])]
                  ELSE <<>>
        /\ weight = CASE race.method \in {"IRV", "STV"} -> [i \in DOMAIN tally |-> Unit]
                      [] race.method = "STAR_PR" -> [i \in DOMAIN tally |-> <<1, 1>>]
                      [] OTHER -> <<>>
  BY DEF Init
<1>1. PICK e \in poll :
        /\ race = e.race
        /\ tally = TallyVotes(race, e.votes)
        /\ remaining = PreSorted(e.race, TallyVotes(e.race, e.votes))
        /\ elected = <<>> /\ sums = <<>> /\ tieBreak = "none"
        /\ pile = IF race.method \in {"IRV", "STV"}
                  THEN [i \in DOMAIN tally |->
                         Receiver(race, remaining, tally[i], over[i])]
                  ELSE <<>>
        /\ weight = CASE race.method \in {"IRV", "STV"} -> [i \in DOMAIN tally |-> Unit]
                      [] race.method = "STAR_PR" -> [i \in DOMAIN tally |-> <<1, 1>>]
                      [] OTHER -> <<>>
  BY <1>0
<1>2. TallyInv
  BY <1>1, TallyVotesTallies DEF TallyInv
<1>3. /\ Lists(race, remaining) /\ ToSet(remaining) = Cands(race)
      /\ Len(remaining) = race.cands /\ remaining = PreSorted(race, tally)
  BY <1>1, <1>2, PreSortedLists DEF TallyInv
<1>4. ToSet(elected) = {} /\ Distinct(elected) /\ Len(elected) = 0
  BY <1>1 DEF ToSet, Distinct
<1>5. SeatInv
  BY <1>1, <1>2, <1>3, <1>4 DEF SeatInv, TallyInv, IsRace
<1>6. BlocInv
  BY <1>1, <1>3, <1>4 DEF BlocInv
<1>7. Unit \in Nat \ {0}
  BY TabulationAssumption
<1>8. CountInv
  BY <1>1, <1>4, <1>7 DEF CountInv, AreRounds
<1>9. StvInv
  BY <1>2, <1>3, <1>4 DEF StvInv, TallyInv, IsRace
<1>10. remaining # <<>>
  BY <1>2, <1>3, CandsFinite DEF TallyInv
<1>11. IrvInv
  <2>1. SUFFICES ASSUME race.method = "IRV" PROVE IrvInv
    BY DEF IrvInv
  <2>2. ASSUME NEW i \in DOMAIN tally
        PROVE  weight[i] = Unit /\ pile[i] \in ToSet(remaining) \cup {0}
    <3>1. \A c \in Cands(race) : tally[i][c] \in 0..TopMark(race)
      BY <1>2, <2>2 DEF TallyInv, IsTally
    <3>2. Receiver(race, remaining, tally[i], over[i]) \in ToSet(remaining) \cup {0}
      BY <1>2, <1>3, <2>1, <3>1, ReceiverListed DEF TallyInv
    <3>3. QED
      BY <1>1, <2>1, <3>2
  <2>3. QED
    BY <1>10, <2>2 DEF IrvInv
<1>12. ShareInv
  BY <1>1, <1>4 DEF ShareInv, Shares
<1>13. QED
  BY <1>2, <1>5, <1>6, <1>8, <1>9, <1>11, <1>12 DEF TabulationInv

\* Nobody is left only when everybody is elected.
LEMMA SomebodyLeft ==
  ASSUME NEW r, IsRace(r), NEW s \in Seq(Cands(r)), Distinct(s), Len(s) < r.seats,
         NEW cs, ToSet(s) \cup ToSet(cs) = Cands(r)
  PROVE  cs # <<>>
<1>1. SUFFICES ASSUME cs = <<>> PROVE FALSE
  OBVIOUS
<1>2. ToSet(cs) = {}
  BY <1>1 DEF ToSet
<1>3. Cardinality(Cands(r)) = Len(s)
  BY <1>2, ListLength
<1>4. QED
  BY <1>3, CandsFinite DEF IsRace

\* A round of a bloc tabulator.
LEMMA BlocRoundInv ==
  ASSUME TabulationInv, BlocRound
  PROVE  TabulationInv'
<1> DEFINE won == SingleWinner(race, tally, remaining)
           w == won.winner
<1>1. /\ race.method \in Bloc /\ Len(elected) < race.seats
      /\ elected' = Append(elected, w) /\ remaining' = Without(remaining, {w})
      /\ tieBreak' = IF Len(elected') = race.seats THEN won.tie ELSE tieBreak
      /\ race' = race /\ tally' = tally
  BY DEF BlocRound
<1>2. /\ IsRace(race) /\ IsTally(race, tally)
      /\ elected \in Seq(Cands(race)) /\ Distinct(elected)
      /\ Lists(race, remaining) /\ remaining \in Seq(Cands(race)) /\ Distinct(remaining)
      /\ ToSet(elected) \cap ToSet(remaining) = {}
      /\ ToSet(elected) \cup ToSet(remaining) = Cands(race)
  BY <1>1 DEF TabulationInv, TallyInv, SeatInv, BlocInv, Lists
<1>3. w \in ToSet(remaining) /\ w \in Cands(race) /\ w \notin ToSet(elected)
  BY <1>1, <1>2, SomebodyLeft, SingleWinnerListed
<1> HIDE DEF w
<1>4. /\ elected' \in Seq(Cands(race)) /\ Len(elected') = Len(elected) + 1
      /\ ToSet(elected') = ToSet(elected) \cup {w} /\ Distinct(elected')
      /\ elected'[Len(elected) + 1] = w
      /\ \A i \in 1..Len(elected) : elected'[i] = elected[i]
  BY <1>1, <1>2, <1>3, Appended
<1>5. /\ Lists(race, remaining') /\ ToSet(remaining') = ToSet(remaining) \ {w}
  BY <1>1, <1>2, WithoutKeeps DEF Lists
<1>6. TallyInv'
  BY <1>1, <1>2 DEF TallyInv
<1>7. Len(elected) \in Nat /\ race.seats \in Nat
  BY <1>2 DEF IsRace
<1>8. SeatInv'
  BY <1>1, <1>4, <1>5, <1>7 DEF SeatInv
<1>9. BlocInv'
  <2>1. elected' # <<>>
    BY <1>4, <1>7
  <2>2. LET first == SingleWinner(race, tally, PreSorted(race, tally))
        IN elected'[1] = first.winner /\ (race.seats = 1 => tieBreak' = first.tie)
    <3>1. CASE elected = <<>>
      <4>1. remaining = PreSorted(race, tally)
        BY <1>1, <3>1 DEF TabulationInv, BlocInv
      <4>2. elected'[1] = w /\ Len(elected') = 1
        BY <1>4, <3>1
      <4>3. QED
        BY <1>1, <4>1, <4>2 DEF w
    <3>2. CASE elected # <<>>
      <4>1. Len(elected) >= 1 /\ race.seats # 1 /\ elected'[1] = elected[1]
        BY <1>1, <1>2, <1>4, <1>7, <3>2
      <4>2. elected[1] = SingleWinner(race, tally, PreSorted(race, tally)).winner
        BY <1>1, <3>2 DEF TabulationInv, BlocInv
      <4>3. QED
        BY <4>1, <4>2
    <3>3. QED
      BY <3>1, <3>2
  <2>3. ToSet(elected') \cap ToSet(remaining') = {}
    BY <1>2, <1>4, <1>5
  <2>4. ToSet(elected') \cup ToSet(remaining') = Cands(race)
    BY <1>2, <1>3, <1>4, <1>5
  <2>5. QED
    BY <1>1, <1>4, <2>1, <2>2, <2>3, <2>4 DEF BlocInv
<1>10. CountInv' /\ StvInv' /\ IrvInv' /\ ShareInv'
  BY <1>1 DEF CountInv, StvInv, IrvInv, ShareInv, Bloc
<1>11. QED
  BY <1>6, <1>8, <1>9, <1>10 DEF TabulationInv

\* What a round of IRV or STV starts with: every candidate has a count, and the
\* candidates who are left are in an order that begins with the highest.
LEMMA RoundStarts ==
  ASSUME TabulationInv, Counting
  PROVE  /\ IsRace(race) /\ IsTally(race, tally)
         /\ \A c \in Cands(race) : IsFiniteSet(PileOf(c)) /\ Hare[c] \in Int
         /\ DOMAIN Hare = Cands(race)
         /\ AreRounds(race, Rounds) /\ Rounds # <<>> /\ Last(Rounds) = Hare
         /\ Lists(race, Order) /\ Order # <<>> /\ Len(Order) = Len(remaining)
         /\ ToSet(Order) = ToSet(remaining)
         /\ race' = race /\ tally' = tally /\ sums' = Rounds
<1> DEFINE C == Cands(race)
<1>1. /\ race.method \in {"IRV", "STV"} /\ remaining # <<>>
      /\ race' = race /\ tally' = tally /\ sums' = Rounds
  BY DEF Counting
<1>2. /\ IsRace(race) /\ IsTally(race, tally) /\ Lists(race, remaining)
      /\ AreRounds(race, sums) /\ DOMAIN pile = DOMAIN tally
      /\ \A i \in DOMAIN tally : weight[i] \in Int
  BY <1>1 DEF TabulationInv, TallyInv, SeatInv, CountInv
<1>3. \A c \in C : IsFiniteSet(PileOf(c)) /\ PileOf(c) \in SUBSET DOMAIN tally
  BY <1>2, BallotsFinite DEF PileOf
<1>4. \A c \in C : SumFunctionOnSet(weight, PileOf(c)) \in Int
  <2>1. TAKE c \in C
  <2>2. \A i \in PileOf(c) : weight[i] \in Int
    BY <1>2, <1>3
  <2>3. QED
    BY <1>3, <2>2, SumFolds
<1>5. Hare \in [C -> Int]
  BY <1>4 DEF Hare
<1>6. AreRounds(race, Rounds) /\ Rounds # <<>> /\ Last(Rounds) = Hare
  <2>1. sums \in Seq([C -> Int])
    BY <1>2 DEF AreRounds
  <2>2. /\ Append(sums, Hare) \in Seq([C -> Int])
        /\ Len(Append(sums, Hare)) = Len(sums) + 1 /\ Len(sums) \in Nat
        /\ Append(sums, Hare)[Len(sums) + 1] = Hare
    BY <1>5, <2>1
  <2>3. QED
    BY <2>2 DEF AreRounds, Rounds, Last
<1>7. /\ Lists(race, Order) /\ Len(Order) = Len(remaining)
      /\ ToSet(Order) = ToSet(remaining)
  BY <1>2, <1>6, ByHareSorts DEF Order
<1>8. Order # <<>>
  BY <1>1, <1>2, <1>7 DEF Lists
<1>9. QED
  BY <1>1, <1>2, <1>3, <1>5, <1>6, <1>7, <1>8

\* A ballot that is handed on goes to a candidate who is left, or to none.
LEMMA HandedOn ==
  ASSUME TallyInv, race.method \in {"IRV", "STV"}, NEW cs, Lists(race, cs),
         NEW bs, NEW piles, DOMAIN piles = DOMAIN tally
  PROVE  /\ DOMAIN Distribute(cs, bs, piles) = DOMAIN tally
         /\ \A i \in DOMAIN tally :
              IF i \in bs THEN Distribute(cs, bs, piles)[i] \in ToSet(cs) \cup {0}
              ELSE Distribute(cs, bs, piles)[i] = piles[i]
<1>1. \A i \in DOMAIN tally : Receiver(race, cs, tally[i], over[i]) \in ToSet(cs) \cup {0}
  <2>1. TAKE i \in DOMAIN tally
  <2>2. \A c \in Cands(race) : tally[i][c] \in 0..TopMark(race)
    BY DEF TallyInv, IsTally
  <2>3. QED
    BY <2>2, ReceiverListed DEF TallyInv
<1>2. QED
  BY <1>1 DEF Distribute

\* The winner of the round takes a seat.
LEMMA SeatTaken ==
  ASSUME TabulationInv, Counting, elected' = Append(elected, Order[1])
  PROVE  /\ elected' \in Seq(Cands(race)) /\ Len(elected') = Len(elected) + 1
         /\ Len(elected) \in Nat /\ race.seats \in Nat /\ Len(elected) < race.seats
         /\ ToSet(elected') = ToSet(elected) \cup {Order[1]} /\ Distinct(elected')
         /\ Order[1] \in ToSet(remaining) /\ Order[1] \in Cands(race)
         /\ ToSet(elected) \cap ToSet(remaining) = {}
<1> DEFINE w == Order[1]
<1>1. /\ race.method \in {"IRV", "STV"} /\ Len(elected) < race.seats
  BY DEF Counting
<1>2. /\ elected \in Seq(Cands(race)) /\ Distinct(elected) /\ IsRace(race)
      /\ ToSet(elected) \cap ToSet(remaining) = {}
  BY <1>1 DEF TabulationInv, TallyInv, SeatInv, CountInv
<1>3. w \in ToSet(remaining) /\ w \in Cands(race)
  <2>1. Lists(race, Order) /\ Order # <<>> /\ ToSet(Order) = ToSet(remaining)
    BY RoundStarts
  <2>2. QED
    BY <2>1, <1>2, ShorterLists, ListFacts
<1> HIDE DEF w
<1>4. /\ elected' \in Seq(Cands(race)) /\ Len(elected') = Len(elected) + 1
      /\ ToSet(elected') = ToSet(elected) \cup {w} /\ Distinct(elected')
  <2>1. w \notin ToSet(elected)
    BY <1>2, <1>3
  <2>2. elected' = Append(elected, w)
    BY DEF w
  <2>3. QED
    BY <1>2, <1>3, <2>1, <2>2, Appended
<1>5. Len(elected) \in Nat /\ race.seats \in Nat
  BY <1>2 DEF IsRace
<1>6. QED
  BY <1>1, <1>2, <1>3, <1>4, <1>5 DEF w

\* STV: the surplus of the winner is transferred.
LEMMA ElectStvInv ==
  ASSUME TabulationInv, Elect, Proportional
  PROVE  TabulationInv'
<1> DEFINE w == Order[1]
<1>1. /\ Counting /\ Reached /\ elected' = Append(elected, w) /\ race.method = "STV"
      /\ remaining' = Tail(Order) /\ weight' = Surplus(w)
      /\ pile' = Distribute(remaining', PileOf(w), pile)
  BY DEF Elect, TransferSurplus, Proportional
<1>2. /\ elected' \in Seq(Cands(race)) /\ Len(elected') = Len(elected) + 1
      /\ Len(elected) \in Nat /\ race.seats \in Nat /\ Len(elected) < race.seats
      /\ ToSet(elected') = ToSet(elected) \cup {w} /\ Distinct(elected')
      /\ w \in Cands(race) /\ ToSet(elected) \cap ToSet(remaining) = {}
  BY <1>1, SeatTaken
<1>3. /\ IsRace(race) /\ IsTally(race, tally) /\ Hare[w] \in Int
      /\ AreRounds(race, Rounds)
      /\ Lists(race, Order) /\ Order # <<>> /\ Len(Order) = Len(remaining)
      /\ ToSet(Order) = ToSet(remaining)
      /\ race' = race /\ tally' = tally /\ sums' = Rounds
  BY <1>1, <1>2, RoundStarts
<1>4. /\ Lists(race, remaining') /\ Len(remaining') = Len(remaining) - 1
      /\ ToSet(remaining') = ToSet(remaining) \ {w}
  BY <1>1, <1>3, ShorterLists
<1>5. /\ DOMAIN weight = DOMAIN tally /\ \A i \in DOMAIN tally : weight[i] \in Int
      /\ DOMAIN pile = DOMAIN tally
      /\ Len(elected) + Len(remaining) >= race.seats
  BY <1>1, <1>2 DEF TabulationInv, CountInv, StvInv
<1>6. TallyInv'
  BY <1>3 DEF TallyInv
<1>7. SeatInv'
  BY <1>2, <1>3, <1>4 DEF SeatInv
<1>8. DOMAIN weight' = DOMAIN tally /\ \A i \in DOMAIN tally : weight'[i] \in Int
  <2> DEFINE q == Quota(0)
             h == Hare[w]
             seatsOver == race.seats + 1
  <2>1. Len(tally) \in Nat
    BY <1>3, BallotsFinite
  <2>2. seatsOver \in Nat \ {0}
    BY <1>2
  <2>3. q \in Int /\ q >= 1
    <3>1. q = Len(tally) \div seatsOver + 1
      BY DEF Quota
    <3> HIDE DEF seatsOver, q
    <3>2. Len(tally) \div seatsOver \in Nat
      BY <2>1, <2>2
    <3>3. QED
      BY <3>1, <3>2
  <2>4. h >= Unit * q
    BY <1>1 DEF Reached, Quota, Proportional
  <2>5. Unit \in Nat \ {0}
    BY TabulationAssumption
  <2>6. h \in Int /\ h > 0
    <3>1. h \in Int
      BY <1>3
    <3> HIDE DEF q, h
    <3>2. Unit * q \in Int /\ Unit * q >= 1
      BY <2>3, <2>5
    <3>3. QED
      BY <2>4, <3>1, <3>2
  <2>7. \A i \in DOMAIN tally : (weight[i] * (h - q * Unit)) \div h \in Int
    <3>1. TAKE i \in DOMAIN tally
    <3> DEFINE a == weight[i] * (h - q * Unit)
    <3> HIDE DEF q, h
    <3>2. weight[i] \in Int /\ h - q * Unit \in Int
      BY <1>5, <2>3, <2>5, <2>6
    <3>3. a \in Int
      BY <3>2
    <3> HIDE DEF a
    <3>4. a \div h \in Int
      BY <2>6, <3>3
    <3>5. QED
      BY <3>4 DEF a
  <2>8. weight' = [i \in DOMAIN tally |->
                    IF i \in PileOf(w) THEN (weight[i] * (h - q * Unit)) \div h
                    ELSE weight[i]]
    BY <1>1, <1>5 DEF Surplus
  <2> HIDE DEF h, q, w
  <2>9. QED
    BY <1>5, <2>7, <2>8
<1>9. DOMAIN pile' = DOMAIN tally
  BY <1>1, <1>5 DEF Distribute
<1>10. CountInv'
  <2>1. ToSet(elected') \cap ToSet(remaining') = {}
    BY <1>2, <1>4
  <2>2. QED
    BY <1>2, <1>3, <1>8, <1>9, <2>1 DEF CountInv
<1>11. StvInv'
  <2>1. Len(remaining) \in Nat
    BY DEF TabulationInv, SeatInv, Lists
  <2>2. QED
    BY <1>2, <1>3, <1>4, <1>5, <2>1 DEF StvInv
<1>12. BlocInv' /\ IrvInv' /\ ShareInv'
  BY <1>1, <1>3 DEF BlocInv, IrvInv, ShareInv, Bloc
<1>13. QED
  BY <1>6, <1>7, <1>10, <1>11, <1>12 DEF TabulationInv

\* IRV: the next seat starts over with everybody who is not elected.
LEMMA ElectIrvInv ==
  ASSUME TabulationInv, Elect, ~Proportional
  PROVE  TabulationInv'
<1> DEFINE w == Order[1]
           none == [i \in DOMAIN pile |-> 0]
<1>1. /\ Counting /\ elected' = Append(elected, w) /\ race.method = "IRV"
      /\ remaining' = Without(PreSorted(race, tally), ToSet(elected'))
      /\ pile' = Distribute(remaining', pool, none)
      /\ weight' = weight
  BY DEF Elect, StartOver, Proportional, Counting
<1>2. /\ elected' \in Seq(Cands(race)) /\ Len(elected') = Len(elected) + 1
      /\ Len(elected) \in Nat /\ race.seats \in Nat /\ Len(elected) < race.seats
      /\ Distinct(elected')
  BY <1>1, SeatTaken
<1>3. /\ IsRace(race) /\ IsTally(race, tally) /\ AreRounds(race, Rounds)
      /\ race' = race /\ tally' = tally /\ sums' = Rounds
  BY <1>1, RoundStarts
<1>4. /\ Lists(race, remaining') /\ ToSet(remaining') = Cands(race) \ ToSet(elected')
  <2>1. Lists(race, PreSorted(race, tally)) /\ ToSet(PreSorted(race, tally)) = Cands(race)
    BY <1>3, PreSortedLists
  <2>2. QED
    BY <1>1, <2>1, WithoutKeeps DEF Lists
<1>5. /\ DOMAIN weight = DOMAIN tally /\ \A i \in DOMAIN tally : weight[i] \in Int
      /\ DOMAIN pile = DOMAIN tally /\ \A i \in DOMAIN tally : weight[i] = Unit
  BY <1>1 DEF TabulationInv, CountInv, IrvInv
<1>6. TallyInv'
  BY <1>3 DEF TallyInv
<1>7. SeatInv'
  BY <1>2, <1>3, <1>4 DEF SeatInv
<1>8. /\ DOMAIN pile' = DOMAIN tally
      /\ \A i \in DOMAIN tally : pile'[i] \in ToSet(remaining') \cup {0}
  <2>1. DOMAIN none = DOMAIN tally /\ \A i \in DOMAIN tally : none[i] = 0
    BY <1>5
  <2> HIDE DEF none
  <2>2. TallyInv
    BY DEF TabulationInv
  <2> DEFINE left == remaining'
  <2>3. Lists(race, left) /\ pile' = Distribute(left, pool, none)
    BY <1>1, <1>4
  <2> HIDE DEF left
  <2>4. /\ DOMAIN Distribute(left, pool, none) = DOMAIN tally
        /\ \A i \in DOMAIN tally :
             IF i \in pool THEN Distribute(left, pool, none)[i] \in ToSet(left) \cup {0}
             ELSE Distribute(left, pool, none)[i] = none[i]
    BY <1>1, <2>1, <2>2, <2>3, HandedOn
  <2>5. QED
    BY <2>1, <2>3, <2>4 DEF left
<1>9. CountInv'
  <2>1. ToSet(elected') \cap ToSet(remaining') = {}
    BY <1>4
  <2>2. QED
    BY <1>2, <1>3, <1>5, <1>1, <1>8, <2>1 DEF CountInv
<1>10. ASSUME Len(elected') < race.seats PROVE remaining' # <<>>
  <2> DEFINE s == elected'
             cs == remaining'
  <2>1. ToSet(s) \cup ToSet(cs) = Cands(race)
    <3>1. ToSet(s) \subseteq Cands(race)
      BY <1>2 DEF ToSet
    <3>2. QED
      BY <1>4, <3>1
  <2>2. s \in Seq(Cands(race)) /\ Distinct(s) /\ Len(s) < race.seats
    BY <1>2, <1>10
  <2> HIDE DEF s, cs
  <2>3. cs # <<>>
    BY <1>3, <2>1, <2>2, SomebodyLeft
  <2>4. QED
    BY <2>3 DEF cs
<1>11. IrvInv'
  BY <1>1, <1>3, <1>5, <1>8, <1>10 DEF IrvInv
<1>12. BlocInv' /\ StvInv' /\ ShareInv'
  BY <1>1, <1>3 DEF BlocInv, StvInv, ShareInv, Bloc
<1>13. QED
  BY <1>6, <1>7, <1>9, <1>11, <1>12 DEF TabulationInv

\* STV: the candidates who are left take the last seats.
LEMMA FillInv ==
  ASSUME TabulationInv, Fill
  PROVE  TabulationInv'
<1> DEFINE n == Len(elected)
           m == Len(Order)
<1>1. /\ Counting /\ LastSeats /\ elected' = elected \o Order
      /\ remaining' = remaining /\ pile' = pile /\ weight' = weight
      /\ race.method = "STV" /\ Len(elected) < race.seats
  BY DEF Fill, LastSeats, Proportional, Counting
<1>2. /\ IsRace(race) /\ IsTally(race, tally) /\ AreRounds(race, Rounds)
      /\ Lists(race, Order) /\ m = Len(remaining)
      /\ ToSet(Order) = ToSet(remaining)
      /\ race' = race /\ tally' = tally /\ sums' = Rounds
  BY <1>1, RoundStarts
<1>3. /\ elected \in Seq(Cands(race)) /\ Distinct(elected) /\ Lists(race, remaining)
      /\ ToSet(elected) \cap ToSet(remaining) = {}
      /\ DOMAIN weight = DOMAIN tally /\ \A i \in DOMAIN tally : weight[i] \in Int
      /\ DOMAIN pile = DOMAIN tally
      /\ n + Len(remaining) >= race.seats
  BY <1>1 DEF TabulationInv, SeatInv, CountInv, StvInv
<1>4. n \in Nat /\ m \in Nat /\ race.seats \in Nat
  BY <1>2, <1>3 DEF IsRace, Lists
<1>5. n + m = race.seats
  <2>1. m <= race.seats - n /\ n + m >= race.seats
    BY <1>1, <1>2, <1>3 DEF LastSeats
  <2> HIDE DEF n, m
  <2>2. QED
    BY <1>4, <2>1
<1>6. /\ elected' \in Seq(Cands(race)) /\ Len(elected') = n + m
      /\ \A i \in 1..n : elected'[i] = elected[i]
      /\ \A i \in 1..m : elected'[n + i] = Order[i]
  <2> DEFINE C == Cands(race)
             s == elected
             t == Order
  <2>1. s \in Seq(C) /\ t \in Seq(C)
    BY <1>2, <1>3 DEF Lists
  <2>2. elected' = s \o t
    BY <1>1
  <2> HIDE DEF C, s, t
  <2>3. /\ s \o t \in Seq(C) /\ Len(s \o t) = Len(s) + Len(t)
        /\ \A i \in 1..Len(s) : (s \o t)[i] = s[i]
        /\ \A i \in 1..Len(t) : (s \o t)[Len(s) + i] = t[i]
    BY <2>1
  <2>4. QED
    BY <2>2, <2>3 DEF C, s, t
<1>7. Distinct(elected')
  <2> DEFINE s == elected'
  <2>1. DOMAIN s = 1..(n + m) /\ DOMAIN elected = 1..n /\ DOMAIN Order = 1..m
    BY <1>2, <1>3, <1>6 DEF Lists
  <2>2. \A i \in 1..n : s[i] = elected[i] /\ s[i] \in ToSet(elected)
    BY <1>6, <2>1 DEF ToSet
  <2>3. \A i \in 1..(n + m) : i \notin 1..n =>
          i - n \in 1..m /\ s[i] = Order[i - n] /\ s[i] \in ToSet(remaining)
    <3>1. TAKE i \in 1..(n + m)
    <3>2. HAVE i \notin 1..n
    <3>3. i - n \in 1..m /\ n + (i - n) = i
      <4> HIDE DEF n, m
      <4>1. QED
        BY <1>4, <3>2
    <3>4. s[i] = Order[i - n]
      BY <1>6, <3>3
    <3>5. Order[i - n] \in ToSet(remaining)
      BY <1>2, <2>1, <3>3 DEF ToSet
    <3>6. QED
      BY <3>3, <3>4, <3>5
  <2> HIDE DEF n, m, s
  <2>4. SUFFICES ASSUME NEW i \in 1..(n + m), NEW j \in 1..(n + m), s[i] = s[j]
                 PROVE  i = j
    BY <2>1 DEF Distinct, s
  <2>5. CASE i \in 1..n /\ j \in 1..n
    BY <1>3, <2>1, <2>2, <2>4, <2>5 DEF Distinct
  <2>6. CASE i \notin 1..n /\ j \notin 1..n
    <3>1. i - n = j - n
      BY <1>2, <2>1, <2>3, <2>4, <2>6 DEF Lists, Distinct
    <3>2. QED
      BY <1>4, <3>1
  <2>7. CASE (i \in 1..n) # (j \in 1..n)
    BY <1>3, <2>2, <2>3, <2>4, <2>7
  <2>8. QED
    BY <2>5, <2>6, <2>7
<1>8. TallyInv'
  BY <1>2 DEF TallyInv
<1>9. SeatInv'
  BY <1>1, <1>2, <1>3, <1>4, <1>5, <1>6 DEF SeatInv
<1>10. ~(Len(elected') < race.seats)
  BY <1>4, <1>5, <1>6
<1>11. CountInv' /\ StvInv'
  BY <1>1, <1>2, <1>3, <1>7, <1>10 DEF CountInv, StvInv
<1>12. BlocInv' /\ IrvInv' /\ ShareInv'
  BY <1>1, <1>2 DEF BlocInv, IrvInv, ShareInv, Bloc
<1>13. QED
  BY <1>8, <1>9, <1>11, <1>12 DEF TabulationInv

\* IRV: a count is the ballots of the candidate, and whoever is not left has none.
LEMMA IrvCounts ==
  ASSUME TabulationInv, Counting, race.method = "IRV"
  PROVE  /\ \A c \in Cands(race) : /\ Cardinality(PileOf(c)) \in Nat
                                   /\ Hare[c] = Unit * Cardinality(PileOf(c))
         /\ \A c \in Cands(race) \ ToSet(remaining) : Hare[c] = 0
<1>1. Unit \in Nat \ {0}
  BY TabulationAssumption
<1>2. \A i \in DOMAIN tally : weight[i] = Unit /\ pile[i] \in ToSet(remaining) \cup {0}
  BY DEF TabulationInv, IrvInv
<1>3. DOMAIN pile = DOMAIN tally /\ \A c \in Cands(race) : c \in 1..race.cands
  BY DEF TabulationInv, CountInv, Cands
<1>4. \A c \in Cands(race) : /\ IsFiniteSet(PileOf(c)) /\ Cardinality(PileOf(c)) \in Nat
                             /\ Hare[c] = Unit * Cardinality(PileOf(c))
  <2>1. TAKE c \in Cands(race)
  <2>2. IsFiniteSet(PileOf(c))
    BY RoundStarts
  <2>3. \A i \in PileOf(c) : weight[i] = Unit
    BY <1>2, <1>3 DEF PileOf
  <2>4. SumFunctionOnSet(weight, PileOf(c)) = Unit * Cardinality(PileOf(c))
    BY <1>1, <2>2, <2>3, EqualSums
  <2>5. QED
    BY <2>2, <2>4, FS_CardinalityType DEF Hare
<1>5. \A c \in Cands(race) \ ToSet(remaining) : Hare[c] = 0
  <2>1. TAKE c \in Cands(race) \ ToSet(remaining)
  <2>2. c # 0
    BY <1>3
  <2>3. PileOf(c) = {}
    BY <1>2, <1>3, <2>2 DEF PileOf
  <2>4. Cardinality(PileOf(c)) = 0
    BY <2>3, FS_EmptySet
  <2>5. QED
    BY <1>1, <1>4, <2>4
<1>6. QED
  BY <1>4, <1>5

\* The last candidate of IRV is eliminated only without any ballot.
LEMMA LastHasNone ==
  ASSUME TabulationInv, Counting, ~Reached, race.method = "IRV", Len(Order) = 1
  PROVE  \A c \in Cands(race) : Hare[c] = 0
<1> DEFINE w == Order[1]
           n == Cardinality(PileOf(w))
<1>1. /\ Lists(race, Order) /\ Order # <<>> /\ ToSet(Order) = ToSet(remaining)
      /\ IsRace(race)
  BY RoundStarts
<1>2. ToSet(remaining) = {w} /\ w \in Cands(race)
  <2>1. DOMAIN Order = 1..1
    BY <1>1 DEF Lists
  <2>2. ToSet(Order) = {w}
    BY <2>1 DEF ToSet
  <2>3. QED
    BY <1>1, <2>2, ListFacts
<1>3. n \in Nat /\ Hare[w] = Unit * n /\ \A c \in Cands(race) \ {w} : Hare[c] = 0
  BY <1>2, IrvCounts
<1>4. Unit \in Nat \ {0}
  BY TabulationAssumption
<1>5. Unit * n \in Int /\ (Unit * n) \div Unit = n
  <2> HIDE DEF n
  <2>1. QED
    BY <1>3, <1>4
<1>6. SumFunctionOnSet(Hare, ToSet(remaining)) = Hare[w]
  BY <1>2, <1>3, <1>5, SingleSum
<1>7. ~(Unit * n >= Unit * (n \div 2 + 1))
  <2>1. ~Proportional
    BY DEF Proportional
  <2>2. Quota(Unit * n) = n \div 2 + 1
    BY <1>5, <2>1 DEF Quota
  <2> HIDE DEF n
  <2>3. QED
    BY <1>3, <1>6, <2>2 DEF Reached
<1>8. n = 0
  <2> HIDE DEF n
  <2> DEFINE h == n \div 2 + 1
  <2>1. h \in Nat /\ (n # 0 => n >= h)
    BY <1>3
  <2> HIDE DEF h
  <2>2. n >= h => Unit * n >= Unit * h
    BY <1>3, <1>4, <2>1
  <2>3. QED
    BY <1>7, <2>1, <2>2 DEF h
<1>9. QED
  BY <1>3, <1>4, <1>8

\* The last of the order is eliminated.
LEMMA EliminateInv ==
  ASSUME TabulationInv, Eliminate
  PROVE  TabulationInv'
<1> DEFINE l == Last(Order)
<1>1. /\ Counting /\ ~Reached /\ ~LastSeats
      /\ remaining' = Front(Order) /\ pile' = Distribute(remaining', PileOf(l), pile)
      /\ elected' = elected /\ weight' = weight
      /\ race.method \in {"IRV", "STV"} /\ Len(elected) < race.seats
  BY DEF Eliminate, Counting
<1>2. /\ IsRace(race) /\ IsTally(race, tally) /\ AreRounds(race, Rounds)
      /\ Rounds # <<>> /\ Last(Rounds) = Hare
      /\ Lists(race, Order) /\ Order # <<>> /\ Len(Order) = Len(remaining)
      /\ ToSet(Order) = ToSet(remaining)
      /\ race' = race /\ tally' = tally /\ sums' = Rounds
  BY <1>1, RoundStarts
<1>3. /\ elected \in Seq(Cands(race)) /\ Len(elected) <= race.seats
      /\ Distinct(elected) /\ ToSet(elected) \cap ToSet(remaining) = {}
      /\ DOMAIN weight = DOMAIN tally /\ \A i \in DOMAIN tally : weight[i] \in Int
      /\ DOMAIN pile = DOMAIN tally
  BY <1>1 DEF TabulationInv, SeatInv, CountInv
<1>4. /\ Lists(race, remaining') /\ Len(remaining') = Len(remaining) - 1
      /\ ToSet(remaining') = ToSet(remaining) \ {l}
  BY <1>1, <1>2, ShorterLists
<1>5. /\ DOMAIN pile' = DOMAIN tally
      /\ \A i \in DOMAIN tally :
           IF i \in PileOf(l) THEN pile'[i] \in ToSet(remaining') \cup {0}
           ELSE pile'[i] = pile[i]
  <2> DEFINE left == remaining'
             bs == PileOf(l)
  <2>1. Lists(race, left) /\ pile' = Distribute(left, bs, pile) /\ TallyInv
    BY <1>1, <1>4 DEF TabulationInv
  <2> HIDE DEF left, bs
  <2>2. /\ DOMAIN Distribute(left, bs, pile) = DOMAIN tally
        /\ \A i \in DOMAIN tally :
             IF i \in bs THEN Distribute(left, bs, pile)[i] \in ToSet(left) \cup {0}
             ELSE Distribute(left, bs, pile)[i] = pile[i]
    BY <1>1, <1>3, <2>1, HandedOn
  <2>3. QED
    BY <2>1, <2>2 DEF left, bs
<1> HIDE DEF l
<1>6. TallyInv'
  BY <1>2 DEF TallyInv
<1>7. SeatInv'
  BY <1>1, <1>2, <1>3, <1>4 DEF SeatInv
<1>8. CountInv'
  BY <1>1, <1>2, <1>3, <1>4, <1>5 DEF CountInv
<1>9. Len(elected) \in Nat /\ Len(remaining) \in Nat /\ race.seats \in Nat
  BY <1>2, <1>3 DEF TabulationInv, SeatInv, Lists, IsRace
<1>10. StvInv'
  <2>1. race.method = "STV" => Len(remaining) > race.seats - Len(elected)
    BY <1>1, <1>9 DEF LastSeats, Proportional
  <2>2. QED
    BY <1>1, <1>2, <1>4, <1>9, <2>1 DEF StvInv
<1>11. IrvInv'
  <2>1. SUFFICES ASSUME race.method = "IRV" PROVE IrvInv'
    BY <1>2 DEF IrvInv
  <2>2. \A i \in DOMAIN tally : weight[i] = Unit /\ pile[i] \in ToSet(remaining) \cup {0}
    BY <2>1 DEF TabulationInv, IrvInv
  <2>3. \A i \in DOMAIN tally : pile'[i] \in ToSet(remaining') \cup {0}
    <3>1. TAKE i \in DOMAIN tally
    <3>2. i \notin PileOf(l) => pile[i] # l
      BY <1>3 DEF PileOf
    <3>3. QED
      BY <1>4, <1>5, <2>2, <3>2
  <2>4. ASSUME remaining' = <<>> PROVE \A c \in Cands(race) : Hare[c] = 0
    <3>1. Len(remaining') = 0
      BY <2>4
    <3> DEFINE m == Len(remaining)
    <3>2. Len(Order) = 1
      <4>1. m - 1 = 0 /\ m \in Nat /\ Len(Order) = m
        BY <1>2, <1>4, <1>9, <3>1
      <4> HIDE DEF m
      <4>2. QED
        BY <4>1
    <3>3. QED
      BY <1>1, <2>1, <3>2, LastHasNone
  <2>5. QED
    BY <1>1, <1>2, <2>2, <2>3, <2>4 DEF IrvInv
<1>12. BlocInv' /\ ShareInv'
  BY <1>1, <1>2 DEF BlocInv, ShareInv, Bloc
<1>13. QED
  BY <1>6, <1>7, <1>8, <1>10, <1>11, <1>12 DEF TabulationInv

\* The ballots keep shares of their vote.
LEMMA SpentShares ==
  ASSUME TallyInv, \A i \in DOMAIN tally : weight[i] \in Shares,
         NEW worth, DOMAIN worth = DOMAIN tally, \A i \in DOMAIN tally : worth[i] \in Shares
  PROVE  DOMAIN Spent(worth) = DOMAIN tally /\ \A i \in DOMAIN tally : Spent(worth)[i] \in Shares
<1> DEFINE split == SplitPoint(worth)
           above == {i \in DOMAIN worth : Less(split, worth[i])}
           at == {i \in DOMAIN worth : worth[i] = split}
           share == Over(Minus(Seat, SumOver(above, weight)), SumOver(at, weight))
           kept == Minus(<<1, 1>>, share)
           new(i) == CASE i \in above -> <<0, 1>>
                       [] i \in at /\ SumOver(at, weight)[1] > 0 ->
                            Clamped(Times(weight[i], kept))
                       [] OTHER -> weight[i]
<1>1. Spent(worth) = [i \in DOMAIN tally |-> new(i)]
  BY DEF Spent
<1>2. above \in SUBSET DOMAIN tally /\ at \in SUBSET DOMAIN tally
  OBVIOUS
<1>3. \A i \in at : i \notin above
  BY SharesAreFractions, LessOrders
<1> HIDE DEF above, at, split
<1>4. \A S \in SUBSET DOMAIN tally : SumOver(S, weight) \in Shares
  <2>1. TAKE S \in SUBSET DOMAIN tally
  <2>2. IsFiniteSet(S)
    BY BallotsFinite DEF TallyInv
  <2>3. \A x \in S : weight[x] \in Shares
    OBVIOUS
  <2>4. QED
    BY <2>2, <2>3, SumsOfShares
<1>5. Seat \in Fractions
  <2>1. Len(tally) \in Int /\ race.seats \in Nat \ {0}
    BY BallotsFinite DEF TallyInv, IsRace
  <2>2. QED
    BY <2>1, FracReduces DEF Seat
<1>6. SumOver(at, weight)[1] > 0 => kept \in Fractions
  <2>1. SumOver(above, weight) \in Fractions /\ SumOver(at, weight) \in Fractions
        /\ <<1, 1>> \in Fractions
    BY <1>2, <1>4, SharesAreFractions
  <2>2. Minus(Seat, SumOver(above, weight)) \in Fractions
    BY <1>5, <2>1, FractionsClosed
  <2>3. SumOver(at, weight)[1] > 0 => share \in Fractions
    BY <2>1, <2>2, FractionsClosed
  <2> HIDE DEF share
  <2>4. QED
    BY <2>1, <2>3, FractionsClosed
<1> HIDE DEF kept
<1>7. ASSUME NEW q \in Fractions PROVE Clamped(q) \in Shares
  <2> DEFINE a == q[1]
             b == q[2]
  <2>1. a \in Int /\ b \in Nat \ {0} /\ (Less(<<1, 1>>, q) <=> b < a)
    BY SharesAreFractions DEF Less
  <2>2. CASE a < 0
    <3>1. ~Less(<<1, 1>>, q)
      BY <2>1, <2>2
    <3>2. Clamped(q) = <<0, 1>>
      BY <2>2, <3>1 DEF Clamped
    <3>3. QED
      BY <3>2, SharesAreFractions
  <2>3. CASE a >= 0 /\ b < a
    <3>1. Less(<<1, 1>>, q) /\ ~(q[1] < 0)
      BY <2>1, <2>3
    <3>2. Clamped(q) = <<1, 1>>
      BY <3>1 DEF Clamped
    <3>3. QED
      BY <3>2, SharesAreFractions
  <2>4. CASE a >= 0 /\ ~(b < a)
    <3>1. ~Less(<<1, 1>>, q) /\ ~(q[1] < 0)
      BY <2>1, <2>4
    <3>2. Clamped(q) = q
      BY <3>1 DEF Clamped
    <3>3. QED
      BY <2>4, <3>2, SharesAreFractions
  <2>5. QED
    BY <2>1, <2>2, <2>3, <2>4
<1>8. ASSUME NEW i \in DOMAIN tally PROVE new(i) \in Shares
  <2>1. CASE i \in above
    <3>1. i \notin at
      BY <1>3, <2>1
    <3>2. QED
      BY <2>1, <3>1, SharesAreFractions
  <2>2. CASE i \notin above /\ i \in at /\ SumOver(at, weight)[1] > 0
    <3>1. weight[i] \in Fractions
      BY SharesAreFractions
    <3>2. Clamped(Times(weight[i], kept)) \in Shares
      BY <1>6, <1>7, <2>2, <3>1, FractionsClosed
    <3>3. new(i) = Clamped(Times(weight[i], kept))
      BY <2>2
    <3>4. QED
      BY <3>2, <3>3
  <2>3. CASE i \notin above /\ ~(i \in at /\ SumOver(at, weight)[1] > 0)
    BY <2>3
  <2>4. QED
    BY <2>1, <2>2, <2>3
<1>9. QED
  <2> HIDE DEF new
  <2>1. QED
    BY <1>1, <1>8

\* STAR_PR: a seat is allocated.
LEMMA AllocateInv ==
  ASSUME TabulationInv, Allocate
  PROVE  TabulationInv'
<1> DEFINE C == Cands(race)
           values(c) == [i \in DOMAIN tally |-> Worth(i, c)]
           total == [c \in C |-> SumOver(DOMAIN tally, values(c))]
           ties == {c \in C : \A d \in C : ~Less(total[c], total[d])}
           w == Min(ties)
<1>1. /\ race.method = "STAR_PR" /\ Len(elected) < race.seats
      /\ sums' = Append(sums, total) /\ elected' = Append(elected, w)
      /\ remaining' = Without(remaining, {w}) /\ weight' = Spent(values(w))
      /\ race' = race /\ tally' = tally
  BY DEF Allocate
<1>2. /\ IsRace(race) /\ IsTally(race, tally) /\ TallyInv
      /\ elected \in Seq(C) /\ Lists(race, remaining)
      /\ DOMAIN weight = DOMAIN tally /\ \A i \in DOMAIN tally : weight[i] \in Shares
      /\ sums \in Seq([C -> Shares]) /\ Len(sums) = Len(elected)
      /\ \A i, j \in DOMAIN elected :
           i < j /\ elected[i] = elected[j] => \A c \in C : sums[j][c] = <<0, 1>>
  BY <1>1 DEF TabulationInv, TallyInv, SeatInv, ShareInv
<1>3. \A i \in DOMAIN tally, c \in C :
        /\ Worth(i, c) \in Shares
        /\ c \in ToSet(elected) => Worth(i, c) = <<0, 1>>
  <2>1. TAKE i \in DOMAIN tally, c \in C
  <2>2. tally[i][c] \in Nat
    <3>1. TopMark(race) \in Nat
      BY <1>2 DEF TopMark, IsRace
    <3>2. tally[i][c] \in 0..TopMark(race)
      BY <1>2 DEF IsTally
    <3>3. QED
      BY <3>1, <3>2
  <2> DEFINE score == IF c \in ToSet(elected) THEN 0 ELSE tally[i][c]
  <2>3. score \in Nat /\ Worth(i, c) = Times(<<score, 1>>, weight[i])
    BY <2>2 DEF Worth
  <2>4. <<score, 1>> \in Fractions /\ <<score, 1>> \in Shares
    <3> HIDE DEF score
    <3>1. QED
      BY <2>3 DEF Fractions, Shares
  <2>5. QED
    BY <1>2, <2>3, <2>4, FractionsClosed
<1>4. IsFiniteSet(DOMAIN tally) /\ IsFiniteSet(C) /\ C # {} /\ \A c \in C : c \in Int
  <2>1. Cardinality(C) # 0
    BY <1>2, CandsFinite
  <2>2. QED
    BY <1>2, <2>1, BallotsFinite, CandsFinite, FS_EmptySet
<1>5. \A c \in C :
        /\ SumOver(DOMAIN tally, values(c)) \in Shares
        /\ c \in ToSet(elected) => SumOver(DOMAIN tally, values(c)) = <<0, 1>>
  <2>1. TAKE c \in C
  <2>2. \A i \in DOMAIN tally :
          /\ values(c)[i] \in Shares
          /\ c \in ToSet(elected) => values(c)[i] = <<0, 1>>
    BY <1>3
  <2> HIDE DEF values
  <2>3. QED
    BY <1>4, <2>2, SumsOfShares
<1>6. \A c \in C : /\ total[c] \in Shares /\ total[c] \in Fractions
                   /\ c \in ToSet(elected) => total[c] = <<0, 1>>
  BY <1>5, SharesAreFractions
<1>7. DOMAIN values(w) = DOMAIN tally
  OBVIOUS
<1> DEFINE table == [C -> Shares]
<1>8. total \in table
  BY <1>6
<1> HIDE DEF total, table
<1>9. w \in ties
  <2>1. ties # {}
    BY <1>4, <1>6, SomeShareLeads
  <2>2. ties \in SUBSET C /\ \A c \in ties : c \in Int
    BY <1>4
  <2> HIDE DEF ties
  <2>3. IsFiniteSet(ties)
    BY <1>4, <2>2, FS_Subset
  <2>4. QED
    BY <2>1, <2>2, <2>3, FiniteExtremes
<1>10. w \in C /\ \A d \in C : ~Less(total[w], total[d])
  BY <1>9
<1>11. \A i \in DOMAIN tally : values(w)[i] \in Shares
  BY <1>3, <1>10
<1> HIDE DEF w, ties
<1>12. w \in ToSet(elected) => \A d \in C : total[d] = <<0, 1>>
  <2>1. HAVE w \in ToSet(elected)
  <2>2. TAKE d \in C
  <2>3. total[w] = <<0, 1>> /\ ~Less(total[w], total[d])
    BY <1>6, <1>10, <2>1
  <2> DEFINE q == total[d]
  <2>4. q \in Shares
    BY <1>6
  <2> HIDE DEF q
  <2>5. q = <<q[1], q[2]>> /\ q[1] \in Int /\ q[1] >= 0 /\ q[2] \in Nat \ {0}
        /\ (q[1] = 0 => q[2] = 1)
    BY <2>4, SharesAreFractions
  <2>6. ~(0 * q[2] < q[1] * 1)
    BY <2>3 DEF q, Less
  <2>7. q[1] = 0
    BY <2>5, <2>6
  <2>8. q = <<0, 1>>
    BY <2>5, <2>7
  <2>9. QED
    BY <2>8 DEF q
<1> HIDE DEF values
<1>13. DOMAIN weight' = DOMAIN tally /\ \A i \in DOMAIN tally : weight'[i] \in Shares
  <2> DEFINE worth == values(w)
  <2>1. DOMAIN worth = DOMAIN tally /\ \A i \in DOMAIN tally : worth[i] \in Shares
    BY <1>7, <1>11
  <2> HIDE DEF worth
  <2>2. DOMAIN Spent(worth) = DOMAIN tally /\ \A i \in DOMAIN tally : Spent(worth)[i] \in Shares
    BY <1>2, <2>1, SpentShares
  <2>3. QED
    BY <1>1, <2>2 DEF worth
<1>14. /\ elected' \in Seq(C) /\ Len(elected') = Len(elected) + 1
       /\ elected'[Len(elected) + 1] = w
       /\ \A i \in 1..Len(elected) : elected'[i] = elected[i]
  BY <1>1, <1>2, <1>10, Appended
<1>15. /\ sums' \in Seq([C -> Shares]) /\ Len(sums') = Len(sums) + 1
       /\ sums'[Len(sums) + 1] = total
       /\ \A i \in 1..Len(sums) : sums'[i] = sums[i]
  <2>1. sums \in Seq(table)
    BY <1>2 DEF table
  <2>2. sums' \in Seq(table) /\ Len(sums') = Len(sums) + 1
        /\ sums'[Len(sums) + 1] = total
        /\ \A i \in 1..Len(sums) : sums'[i] = sums[i]
    BY <1>1, <1>8, <2>1
  <2>3. QED
    BY <2>2 DEF table
<1>16. TallyInv'
  BY <1>1, <1>2 DEF TallyInv
<1>17. SeatInv'
  <2>1. Lists(race, remaining')
    BY <1>1, <1>2, WithoutKeeps DEF Lists
  <2>2. Len(elected) \in Nat /\ race.seats \in Nat
    BY <1>2 DEF IsRace
  <2>3. QED
    BY <1>1, <1>14, <2>1, <2>2 DEF SeatInv
<1>18. ShareInv'
  <2> DEFINE n == Len(elected)
  <2>1. n \in Nat /\ DOMAIN elected = 1..n /\ DOMAIN elected' = 1..(n + 1)
    BY <1>2, <1>14
  <2>2. ASSUME NEW i \in DOMAIN elected', NEW j \in DOMAIN elected',
               i < j, elected'[i] = elected'[j], NEW c \in C
        PROVE  sums'[j][c] = <<0, 1>>
    <3>1. i \in 1..n
      <4> HIDE DEF n
      <4>1. QED
        BY <2>1, <2>2
    <3>2. CASE j \in 1..n
      BY <1>2, <1>14, <1>15, <2>1, <2>2, <3>1, <3>2
    <3>3. CASE j = n + 1
      <4>1. elected[i] = w
        BY <1>14, <2>2, <3>1, <3>3
      <4>2. w \in ToSet(elected)
        BY <2>1, <3>1, <4>1 DEF ToSet
      <4>3. sums'[j] = total
        BY <1>2, <1>15, <3>3
      <4>4. QED
        BY <1>12, <4>2, <4>3
    <3>4. QED
      BY <2>1, <2>2, <3>2, <3>3
  <2>3. sums' \in Seq([C -> Shares]) /\ Len(sums') = Len(elected')
    BY <1>2, <1>14, <1>15
  <2>4. QED
    BY <1>1, <1>13, <2>2, <2>3 DEF ShareInv
<1>19. BlocInv' /\ CountInv' /\ StvInv' /\ IrvInv'
  BY <1>1 DEF BlocInv, CountInv, StvInv, IrvInv, Bloc
<1>20. QED
  BY <1>16, <1>17, <1>18, <1>19 DEF TabulationInv

\* Every step of a tabulation preserves the invariant.
LEMMA StepInv ==
  ASSUME TabulationInv, [Next]_vars
  PROVE  TabulationInv'
<1>1. CASE BlocRound
  BY <1>1, BlocRoundInv
<1>2. CASE Elect
  BY <1>2, ElectStvInv, ElectIrvInv
<1>3. CASE Fill
  BY <1>3, FillInv
<1>4. CASE Eliminate
  BY <1>4, EliminateInv
<1>5. CASE Allocate
  BY <1>5, AllocateInv
<1>6. CASE Return \/ UNCHANGED vars
  <2>1. UNCHANGED vars
    BY <1>6 DEF Return
  <2>2. /\ race' = race /\ tally' = tally /\ remaining' = remaining
        /\ elected' = elected /\ tieBreak' = tieBreak /\ sums' = sums
        /\ pile' = pile /\ weight' = weight
    BY <2>1 DEF vars
  <2>3. TallyInv' /\ SeatInv' /\ BlocInv'
    BY <2>2 DEF TabulationInv, TallyInv, SeatInv, BlocInv
  <2>4. CountInv' /\ StvInv' /\ IrvInv' /\ ShareInv'
    BY <2>2 DEF TabulationInv, CountInv, StvInv, IrvInv, ShareInv
  <2>5. QED
    BY <2>3, <2>4 DEF TabulationInv
<1>7. QED
  BY <1>1, <1>2, <1>3, <1>4, <1>5, <1>6 DEF Next

------------------------------------------------------------------------------
(* IRV on plain ranks. *)

\* The case HeadToHeadRespected speaks of.
PlainIrv == race.method = "IRV" /\ PlainRanks /\ race.cands > 1

\* A ballot is with the best of those who are left, or ranks none of them.
PilesBest ==
  \A i \in DOMAIN tally :
    IF pile[i] = 0 THEN \A c \in ToSet(remaining) : tally[i][c] = 0
    ELSE /\ tally[i][pile[i]] # 0
         /\ \A d \in ToSet(remaining) \ {pile[i]} :
              Place(tally[i][pile[i]]) < Place(tally[i][d])

\* IRV with plain ranks, first seat: the ballots are with their best; the last one
\* left lost to somebody's ballots.
PlainInv ==
  race.method = "IRV" /\ PlainRanks /\ race.cands > 1 =>
    IF elected = <<>>
    THEN /\ PilesBest
         /\ Len(remaining) = 1 =>
              \E d \in Cands(race) \ {remaining[1]} : ~Beats(d, remaining[1])
    ELSE \E d \in Cands(race) \ {elected[1]} : ~Beats(d, elected[1])

\* With plain ranks a ballot goes to the only best of the list.
LEMMA PlainReceiver ==
  ASSUME TallyInv, race.method \in {"IRV", "STV"}, PlainRanks, NEW cs, Lists(race, cs),
         NEW i \in DOMAIN tally
  PROVE  LET c == Receiver(race, cs, tally[i], over[i])
         IN IF c = 0 THEN \A d \in ToSet(cs) : tally[i][d] = 0
            ELSE /\ tally[i][c] # 0
                 /\ \A d \in ToSet(cs) \ {c} : Place(tally[i][c]) < Place(tally[i][d])
<1> DEFINE marks == tally[i]
           I == {k \in DOMAIN cs :
                   \A c \in ToSet(cs) : Place(marks[cs[k]]) <= Place(marks[c])}
           best == cs[Max(I)]
           rank == marks[best]
           below == {marks[c] : c \in {d \in Cands(race) : marks[d] < rank}}
           before == Max({0} \cup below)
           top == TopMark(race)
<1>1. CASE cs = <<>>
  <2>1. Receiver(race, cs, marks, over[i]) = 0 /\ ToSet(cs) = {}
    BY <1>1 DEF Receiver, ToSet
  <2>2. QED
    BY <2>1
<1>2. CASE cs # <<>>
  <2>1. IsRace(race) /\ top = race.maxRank /\ top \in Nat /\ top <= 999
    BY RanksBounded DEF TallyInv
  <2>2. \A c \in Cands(race) : marks[c] \in 0..top
    BY DEF TallyInv, IsTally
  <2> HIDE DEF top, marks
  <2>3. Max(I) \in I
    <3>1. \A c \in Cands(race) : marks[c] \in 0..TopMark(race)
      BY <2>2 DEF top
    <3> HIDE DEF I
    <3>2. Max(I) \in I
      BY <1>2, <2>1, <3>1, BestPlaced DEF I
    <3>3. QED
      BY <3>2
  <2>4. best \in ToSet(cs) /\ \A c \in ToSet(cs) : Place(rank) <= Place(marks[c])
    BY <2>3 DEF ToSet
  <2>5. ToSet(cs) \subseteq Cands(race)
    BY <2>1, ListFacts
  <2>6. best \in Cands(race) /\ rank \in 0..top /\ best # 0
    BY <2>2, <2>4, <2>5 DEF Cands
  <2> HIDE DEF I, best
  <2>7. over[i] = 0 /\ race.skips >= top /\ race.skips \in Nat
        /\ \A a, b \in Cands(race) : a # b /\ marks[a] = marks[b] => marks[a] = 0
    BY <2>1 DEF PlainRanks, marks, IsRace
  <2>8. before \in 0..top
    <3> DEFINE S == {0} \cup below
               C == Cands(race)
    <3>1. S \in SUBSET (0..top)
      BY <2>1, <2>2
    <3>2. IsFiniteSet(0..top) /\ \A x \in 0..top : x \in Int
      BY <2>1, FS_Interval
    <3>3. 0 \in S
      OBVIOUS
    <3> HIDE DEF S
    <3>4. IsFiniteSet(S) /\ S # {} /\ \A x \in S : x \in Int
      BY <3>1, <3>2, <3>3, FS_Subset
    <3>5. Max(S) \in S
      BY <3>4, FiniteExtremes
    <3>6. QED
      BY <3>1, <3>5 DEF S
  <2>9. ~(rank - before > race.skips)
    <3> HIDE DEF before
    <3>1. QED
      BY <2>1, <2>6, <2>7, <2>8
  <2>10. Receiver(race, cs, marks, over[i]) = IF rank = 0 THEN 0 ELSE best
    <3> HIDE DEF before, rank
    <3>1. Receiver(race, cs, marks, over[i]) =
            IF rank = 0 \/ rank - before > race.skips THEN 0 ELSE best
      BY <1>2, <2>7 DEF Receiver, I, best, before, below, rank
    <3>2. QED
      BY <2>9, <3>1
  <2>11. CASE rank = 0
    <3>1. Receiver(race, cs, marks, over[i]) = 0
      BY <2>10, <2>11
    <3>2. ASSUME NEW d \in ToSet(cs) PROVE marks[d] = 0
      <4>1. 1000 <= Place(marks[d]) /\ marks[d] \in 0..top
        BY <2>2, <2>4, <2>5, <2>11, <3>2 DEF Place
      <4>2. QED
        BY <2>1, <4>1 DEF Place
    <3>3. QED
      BY <3>1, <3>2 DEF marks
  <2>12. CASE rank # 0
    <3>1. Receiver(race, cs, marks, over[i]) = best
      BY <2>10, <2>12
    <3>2. ASSUME NEW d \in ToSet(cs) \ {best} PROVE Place(rank) < Place(marks[d])
      <4>1. Place(rank) <= Place(marks[d]) /\ marks[d] \in 0..top /\ d \in Cands(race)
        BY <2>2, <2>4, <2>5, <3>2
      <4>2. marks[d] # rank
        BY <2>6, <2>7, <2>12, <3>2, <4>1
      <4>3. Place(rank) # Place(marks[d])
        BY <2>1, <2>6, <2>12, <4>1, <4>2 DEF Place
      <4>4. QED
        BY <2>6, <4>1, <4>3 DEF Place
    <3>3. QED
      BY <2>6, <2>12, <3>1, <3>2 DEF marks
  <2>13. QED
    BY <2>11, <2>12
<1>3. QED
  BY <1>1, <1>2

\* Handing on the ballots of one who is no longer left keeps every ballot with its best.
LEMMA BestHandedOn ==
  ASSUME TallyInv, race.method \in {"IRV", "STV"}, PlainRanks, PilesBest,
         DOMAIN pile = DOMAIN tally, tally' = tally,
         NEW left, Lists(race, left), NEW l, ToSet(left) = ToSet(remaining) \ {l},
         remaining' = left, pile' = Distribute(left, PileOf(l), pile)
  PROVE  PilesBest'
<1> SUFFICES ASSUME NEW i \in DOMAIN tally
             PROVE  IF pile'[i] = 0 THEN \A c \in ToSet(left) : tally[i][c] = 0
                    ELSE /\ tally[i][pile'[i]] # 0
                         /\ \A d \in ToSet(left) \ {pile'[i]} :
                              Place(tally[i][pile'[i]]) < Place(tally[i][d])
  BY DEF PilesBest
<1>1. CASE pile[i] = l
  <2>1. pile'[i] = Receiver(race, left, tally[i], over[i])
    BY <1>1 DEF Distribute, PileOf
  <2>2. LET c == Receiver(race, left, tally[i], over[i])
        IN IF c = 0 THEN \A d \in ToSet(left) : tally[i][d] = 0
           ELSE /\ tally[i][c] # 0
                /\ \A d \in ToSet(left) \ {c} : Place(tally[i][c]) < Place(tally[i][d])
    BY PlainReceiver
  <2>3. QED
    BY <2>1, <2>2
<1>2. CASE pile[i] # l
  <2>1. pile'[i] = pile[i]
    BY <1>2 DEF Distribute, PileOf
  <2>2. IF pile[i] = 0 THEN \A c \in ToSet(remaining) : tally[i][c] = 0
        ELSE /\ tally[i][pile[i]] # 0
             /\ \A d \in ToSet(remaining) \ {pile[i]} :
                  Place(tally[i][pile[i]]) < Place(tally[i][d])
    BY DEF PilesBest
  <2>3. QED
    BY <2>1, <2>2
<1>3. QED
  BY <1>1, <1>2

\* The counts of some candidates are the ballots that are with them.
LEMMA CountsOfSet ==
  ASSUME TabulationInv, Counting, race.method = "IRV",
         NEW R \in SUBSET Cands(race)
  PROVE  /\ Cardinality({i \in DOMAIN pile : pile[i] \in R}) \in Nat
         /\ SumFunctionOnSet(Hare, R) =
              Unit * Cardinality({i \in DOMAIN pile : pile[i] \in R})
<1> DEFINE C == Cands(race)
           held(T) == {i \in DOMAIN pile : pile[i] \in T}
           F == {T \in SUBSET C : SumFunctionOnSet(Hare, T) # Unit * Cardinality(held(T))}
<1>1. /\ IsFiniteSet(C) /\ IsFiniteSet(DOMAIN pile) /\ Unit \in Nat \ {0}
      /\ \A c \in C : Hare[c] \in Int
      /\ \A c \in C : Cardinality(PileOf(c)) \in Nat /\ Hare[c] = Unit * Cardinality(PileOf(c))
      /\ \A c \in C : PileOf(c) = held({c})
  <2>1. IsFiniteSet(DOMAIN pile)
    BY BallotsFinite DEF TabulationInv, TallyInv, CountInv
  <2>2. \A c \in C : PileOf(c) = held({c})
    BY DEF PileOf
  <2>3. QED
    BY <2>1, <2>2, RoundStarts, IrvCounts, CandsFinite, TabulationAssumption
<1>2. \A T \in SUBSET C : IsFiniteSet(held(T)) /\ Cardinality(held(T)) \in Nat
  <2>1. TAKE T \in SUBSET C
  <2>2. held(T) \in SUBSET DOMAIN pile
    OBVIOUS
  <2> HIDE DEF held
  <2>3. QED
    BY <1>1, <2>2, FS_Subset, FS_CardinalityType
<1>3. ASSUME NEW T \in SUBSET C, T # {}
      PROVE  /\ Pick(T) \in T
             /\ Cardinality(held(T)) =
                  Cardinality(held(T \ {Pick(T)})) + Cardinality(PileOf(Pick(T)))
             /\ SumFunctionOnSet(Hare, T) =
                  Hare[Pick(T)] + SumFunctionOnSet(Hare, T \ {Pick(T)})
  <2> DEFINE x == Pick(T)
             U == T \ {x}
  <2>1. x \in T /\ x \in C
    BY <1>3 DEF Pick
  <2>2. held(T) = held(U) \cup held({x}) /\ held(U) \cap held({x}) = {}
    BY <2>1
  <2>3. U \in SUBSET C /\ {x} \in SUBSET C
    BY <2>1
  <2>4. Cardinality(held(T)) = Cardinality(held(U)) + Cardinality(held({x}))
    <3> HIDE DEF held, U, x
    <3>1. Cardinality(held(T)) =
            Cardinality(held(U)) + Cardinality(held({x})) - Cardinality({})
      BY <1>2, <2>2, <2>3, FS_Union
    <3>2. QED
      BY <1>2, <2>3, <3>1, FS_EmptySet
  <2>5. SumFunctionOnSet(Hare, T) = Hare[x] + SumFunctionOnSet(Hare, U)
    <3>1. IsFiniteSet(T) /\ \A c \in T : Hare[c] \in Int
      BY <1>1, FS_Subset
    <3>2. QED
      BY <1>3, <3>1, SumFolds
  <2>6. PileOf(x) = held({x})
    BY <1>1, <2>1
  <2> HIDE DEF held
  <2>7. QED
    BY <2>1, <2>4, <2>5, <2>6
<1>4. F \in SUBSET SUBSET C
  OBVIOUS
<1>5. SumFunctionOnSet(Hare, {}) = 0 /\ held({}) = {}
  <2>1. SumFunctionOnSet(Hare, {}) = 0
    BY FS_EmptySet, SumFolds
  <2>2. QED
    BY <2>1
<1> HIDE DEF F, held, C
<1>6. ASSUME F # {} PROVE FALSE
  <2>1. PICK T \in F : \A U \in F : U \subseteq T => U = T
    BY <1>1, <1>4, <1>6, SmallestSubset
  <2>2. T \in SUBSET C /\ SumFunctionOnSet(Hare, T) # Unit * Cardinality(held(T))
    BY <2>1 DEF F
  <2>3. T # {}
    <3>1. Unit * 0 = 0 /\ Cardinality({}) = 0
      BY <1>1, FS_EmptySet
    <3>2. QED
      BY <1>5, <2>2, <3>1
  <2> DEFINE x == Pick(T)
             U == T \ {x}
             n == Cardinality(held(U))
             m == Cardinality(PileOf(x))
  <2>4. /\ x \in T /\ x \in C /\ Cardinality(held(T)) = n + m
        /\ SumFunctionOnSet(Hare, T) = Hare[x] + SumFunctionOnSet(Hare, U)
    BY <1>3, <2>2, <2>3
  <2>5. U \in SUBSET C /\ U \notin F
    BY <2>1, <2>2, <2>4
  <2>6. SumFunctionOnSet(Hare, U) = Unit * n /\ n \in Nat /\ m \in Nat /\ Hare[x] = Unit * m
    BY <1>1, <1>2, <2>4, <2>5 DEF F
  <2> HIDE DEF n, m
  <2>7. Unit * (n + m) = Unit * m + Unit * n
    BY <1>1, <2>6
  <2>8. QED
    BY <2>2, <2>4, <2>6, <2>7
<1>7. R \in SUBSET C /\ R \notin F
  BY <1>6 DEF C
<1>8. SumFunctionOnSet(Hare, R) = Unit * Cardinality(held(R)) /\ Cardinality(held(R)) \in Nat
  BY <1>2, <1>7 DEF F
<1>9. QED
  BY <1>8 DEF held

\* A ballot with a candidate prefers that candidate, one with none prefers nobody.
LEMMA PilesPrefer ==
  ASSUME TabulationInv, PlainInv, PlainIrv, Counting, elected = <<>>,
         NEW i \in DOMAIN tally, NEW c \in ToSet(remaining), NEW d \in ToSet(remaining),
         c # d
  PROVE  /\ pile[i] = c => Prefers(race, tally[i], c, d)
         /\ Prefers(race, tally[i], c, d) => pile[i] \in ToSet(remaining) \ {d}
<1>1. /\ c \in Cands(race) /\ d \in Cands(race) /\ IsRace(race)
      /\ \A x \in Cands(race) : x # 0
  <2>1. IsRace(race) /\ Lists(race, remaining)
    BY DEF TabulationInv, TallyInv, SeatInv
  <2>2. \A x \in Cands(race) : x # 0
    BY DEF Cands
  <2>3. QED
    BY <2>1, <2>2, ListFacts
<1>2. \A a, b \in Cands(race) :
        Prefers(race, tally[i], a, b) <=> Place(tally[i][a]) < Place(tally[i][b])
  BY DEF Prefers, Ordinal, PlainIrv
<1>3. pile[i] \in ToSet(remaining) \cup {0}
  BY DEF TabulationInv, IrvInv, PlainIrv
<1>4. IF pile[i] = 0 THEN \A x \in ToSet(remaining) : tally[i][x] = 0
      ELSE \A x \in ToSet(remaining) \ {pile[i]} :
             Place(tally[i][pile[i]]) < Place(tally[i][x])
  BY DEF PlainInv, PlainIrv, PilesBest
<1>5. \A x \in Cands(race) : Place(tally[i][x]) \in Int
  <2>1. TopMark(race) \in Nat
    BY <1>1, RanksBounded DEF PlainIrv
  <2>2. \A x \in Cands(race) : tally[i][x] \in 0..TopMark(race)
    BY DEF TabulationInv, TallyInv, IsTally
  <2>3. QED
    BY <2>1, <2>2 DEF Place
<1>6. pile[i] = c => Prefers(race, tally[i], c, d)
  BY <1>1, <1>2, <1>4
<1>7. ASSUME Prefers(race, tally[i], c, d) PROVE pile[i] \in ToSet(remaining) \ {d}
  <2>1. Place(tally[i][c]) < Place(tally[i][d])
    BY <1>1, <1>2, <1>7
  <2>2. pile[i] # 0
    <3>1. SUFFICES ASSUME pile[i] = 0 PROVE FALSE
      OBVIOUS
    <3>2. tally[i][c] = tally[i][d]
      BY <1>4, <3>1
    <3>3. QED
      BY <1>1, <1>5, <2>1, <3>2
  <2>3. pile[i] # d
    <3>1. SUFFICES ASSUME pile[i] = d PROVE FALSE
      OBVIOUS
    <3>2. Place(tally[i][d]) < Place(tally[i][c])
      BY <1>4, <2>2, <3>1
    <3>3. QED
      BY <1>1, <1>5, <2>1, <3>2
  <2>4. QED
    BY <1>3, <2>2, <2>3
<1>8. QED
  BY <1>6, <1>7

\* Who holds as many ballots as all others who are left is beaten by none of them.
LEMMA MajorityNotBeaten ==
  ASSUME TabulationInv, PlainInv, PlainIrv, Counting, elected = <<>>,
         NEW w \in ToSet(remaining), NEW d \in ToSet(remaining) \ {w},
         Cardinality({i \in DOMAIN pile : pile[i] \in ToSet(remaining) \ {w}})
           <= Cardinality(PileOf(w))
  PROVE  d \in Cands(race) \ {w} /\ ~Beats(d, w)
<1> DEFINE rest == {i \in DOMAIN pile : pile[i] \in ToSet(remaining) \ {w}}
           forD == {i \in DOMAIN tally : Prefers(race, tally[i], d, w)}
           forW == {i \in DOMAIN tally : Prefers(race, tally[i], w, d)}
           held == PileOf(w)
<1>1. DOMAIN pile = DOMAIN tally /\ d \in Cands(race)
  <2>1. IsRace(race) /\ Lists(race, remaining)
    BY DEF TabulationInv, TallyInv, SeatInv
  <2>2. QED
    BY <2>1, ListFacts DEF TabulationInv, CountInv, PlainIrv
<1>2. forD \subseteq rest
  BY <1>1, PilesPrefer
<1>3. held \subseteq forW
  BY <1>1, PilesPrefer DEF PileOf
<1>4. \A B \in SUBSET DOMAIN tally : IsFiniteSet(B) /\ Cardinality(B) \in Nat
  BY BallotsFinite DEF TabulationInv, TallyInv
<1>5. /\ rest \in SUBSET DOMAIN tally /\ forD \in SUBSET DOMAIN tally
      /\ forW \in SUBSET DOMAIN tally /\ held \in SUBSET DOMAIN tally
  BY <1>1 DEF PileOf
<1>6. Cardinality(rest) <= Cardinality(held)
  OBVIOUS
<1>7. Beats(d, w) => Cardinality(forD) > Cardinality(forW)
  BY DEF Beats, WinsAgainst, PreferredOver
<1> HIDE DEF rest, forD, forW, held
<1>8. Cardinality(forD) <= Cardinality(rest) /\ Cardinality(held) <= Cardinality(forW)
  BY <1>2, <1>3, <1>4, <1>5, FS_Subset
<1>9. QED
  BY <1>1, <1>4, <1>5, <1>6, <1>7, <1>8

\* The order of a round begins with the highest count and ends with the lowest.
LEMMA OrderEnds ==
  ASSUME TabulationInv, Counting
  PROVE  \A c \in ToSet(remaining) : /\ Hare[c] \in Int
                                      /\ Hare[Order[1]] \in Int /\ Hare[Last(Order)] \in Int
                                      /\ Hare[Order[1]] >= Hare[c]
                                      /\ Hare[c] >= Hare[Last(Order)]
<1> DEFINE n == Len(remaining)
<1>1. /\ Lists(race, Order) /\ Len(Order) = n /\ ToSet(Order) = ToSet(remaining)
      /\ AreRounds(race, Rounds) /\ Rounds # <<>> /\ Last(Rounds) = Hare
      /\ IsRace(race) /\ Lists(race, remaining) /\ Order # <<>>
      /\ \A c \in Cands(race) : Hare[c] \in Int
  BY RoundStarts DEF TabulationInv, SeatInv
<1>2. /\ DOMAIN Order = 1..n /\ n \in Nat \ {0} /\ Last(Order) = Order[n]
      /\ \A i \in 1..n : Hare[Order[i]] \in Int
  BY <1>1 DEF Lists, Last
<1>3. \A i, j \in 1..n : i < j => Hare[Order[i]] >= Hare[Order[j]]
  BY <1>1, ByHareSorts DEF Order
<1> HIDE DEF n
<1>4. ASSUME NEW i \in 1..n
      PROVE  Hare[Order[1]] >= Hare[Order[i]] /\ Hare[Order[i]] >= Hare[Order[n]]
  <2>1. 1 \in 1..n /\ n \in 1..n /\ (i = 1 \/ 1 < i) /\ (i = n \/ i < n)
    BY <1>2, <1>4
  <2>2. Hare[Order[1]] \in Int /\ Hare[Order[i]] \in Int /\ Hare[Order[n]] \in Int
    BY <1>2, <2>1
  <2>3. QED
    BY <1>3, <2>1, <2>2
<1>5. TAKE c \in ToSet(remaining)
<1>6. PICK i \in 1..n : Order[i] = c
  BY <1>1, <1>2, <1>5 DEF ToSet
<1>7. 1 \in 1..n /\ n \in 1..n
  BY <1>2
<1>8. QED
  BY <1>2, <1>4, <1>6, <1>7

\* Of two who are left, the one with the lower count does not beat the other.
LEMMA LastOfTwo ==
  ASSUME TabulationInv, PlainInv, PlainIrv, Counting, elected = <<>>, Len(remaining) = 2
  PROVE  Order[2] \in Cands(race) \ {Order[1]} /\ ~Beats(Order[2], Order[1])
<1> DEFINE w == Order[1]
           d == Order[2]
<1>1. /\ Lists(race, Order) /\ Len(Order) = 2 /\ ToSet(Order) = ToSet(remaining)
      /\ AreRounds(race, Rounds) /\ Rounds # <<>> /\ Last(Rounds) = Hare
      /\ IsRace(race) /\ Lists(race, remaining)
  BY RoundStarts DEF TabulationInv, SeatInv
<1>2. ToSet(remaining) = {w, d} /\ w # d
  <2>1. DOMAIN Order = 1..2 /\ Distinct(Order)
    BY <1>1 DEF Lists
  <2>2. ToSet(Order) = {w, d}
    BY <2>1 DEF ToSet
  <2>3. QED
    BY <1>1, <2>1, <2>2 DEF Distinct
<1>3. w \in Cands(race) /\ d \in Cands(race)
  BY <1>1, <1>2, ListFacts
<1>4. Hare[w] >= Hare[d]
  <2>1. \A i, j \in 1..Len(remaining) : i < j => Hare[Order[i]] >= Hare[Order[j]]
    BY <1>1, ByHareSorts DEF Order
  <2>2. 1 \in 1..Len(remaining) /\ 2 \in 1..Len(remaining) /\ 1 < 2
    OBVIOUS
  <2>3. QED
    BY <2>1, <2>2
<1> HIDE DEF w, d
<1> DEFINE n == Cardinality(PileOf(w))
           m == Cardinality(PileOf(d))
<1>5. n \in Nat /\ m \in Nat /\ Hare[w] = Unit * n /\ Hare[d] = Unit * m
  BY <1>3, IrvCounts DEF PlainIrv
<1>6. m <= n
  <2>1. Unit \in Nat \ {0}
    BY TabulationAssumption
  <2> HIDE DEF n, m
  <2>2. Unit * n >= Unit * m
    BY <1>4, <1>5
  <2>3. QED
    BY <1>5, <2>1, <2>2
<1>7. {i \in DOMAIN pile : pile[i] \in ToSet(remaining) \ {w}} = PileOf(d)
  BY <1>2 DEF PileOf
<1>8. d \in Cands(race) \ {w} /\ ~Beats(d, w)
  BY <1>2, <1>6, <1>7, MajorityNotBeaten
<1>9. QED
  BY <1>8 DEF w, d

\* The quota of IRV is a majority of the ballots that are with somebody.
LEMMA QuotaIsMajority ==
  ASSUME TabulationInv, PlainIrv, Counting
  PROVE  LET active == {i \in DOMAIN pile : pile[i] \in ToSet(remaining)}
             n == Cardinality(PileOf(Order[1]))
             k == Cardinality(active)
         IN n \in Nat /\ k \in Nat /\ (Reached <=> 2 * n > k)
<1> DEFINE w == Order[1]
           active == {i \in DOMAIN pile : pile[i] \in ToSet(remaining)}
           n == Cardinality(PileOf(w))
           k == Cardinality(active)
<1>1. /\ Lists(race, Order) /\ Order # <<>> /\ ToSet(Order) = ToSet(remaining)
      /\ IsRace(race) /\ Lists(race, remaining)
  BY RoundStarts DEF TabulationInv, SeatInv
<1>2. w \in Cands(race)
  BY <1>1, ShorterLists, ListFacts
<1>3. ToSet(remaining) \subseteq Cands(race)
  BY <1>1, ListFacts
<1>4. k \in Nat /\ SumFunctionOnSet(Hare, ToSet(remaining)) = Unit * k
  BY <1>3, CountsOfSet DEF PlainIrv
<1>5. n \in Nat /\ Hare[w] = Unit * n
  BY <1>2, IrvCounts DEF PlainIrv
<1>6. Unit \in Nat \ {0}
  BY TabulationAssumption
<1>7. ~Proportional
  BY DEF Proportional, PlainIrv
<1> HIDE DEF n, k
<1> DEFINE q == k \div 2 + 1
<1>8. Reached <=> Unit * n >= Unit * q
  <2>1. (Unit * k) \div Unit = k
    BY <1>4, <1>6
  <2>2. Quota(Unit * k) = q
    BY <1>7, <2>1 DEF Quota
  <2>3. QED
    BY <1>4, <1>5, <2>2 DEF Reached
<1>9. q \in Int /\ (n >= q <=> 2 * n > k)
  BY <1>4, <1>5
<1> HIDE DEF q
<1>10. Unit * n >= Unit * q <=> n >= q
  BY <1>5, <1>6, <1>9
<1>11. QED
  BY <1>4, <1>5, <1>8, <1>9, <1>10 DEF n, k

\* Who reaches the quota is not beaten by everybody.
LEMMA ReachedNotBeaten ==
  ASSUME TabulationInv, PlainInv, PlainIrv, Counting, Reached, elected = <<>>
  PROVE  \E d \in Cands(race) \ {Order[1]} : ~Beats(d, Order[1])
<1> DEFINE w == Order[1]
<1>1. /\ Lists(race, Order) /\ Order # <<>> /\ Len(Order) = Len(remaining)
      /\ ToSet(Order) = ToSet(remaining)
      /\ IsRace(race) /\ Lists(race, remaining)
  BY RoundStarts DEF TabulationInv, SeatInv
<1>2. w \in ToSet(remaining)
  BY <1>1, ShorterLists
<1>3. ToSet(remaining) \subseteq Cands(race)
  BY <1>1, ListFacts
<1>4. CASE Len(remaining) = 1
  <2>1. DOMAIN Order = 1..1 /\ DOMAIN remaining = 1..1
    BY <1>1, <1>4 DEF Lists
  <2>2. w = remaining[1]
    BY <1>2, <2>1 DEF ToSet
  <2>3. \E d \in Cands(race) \ {remaining[1]} : ~Beats(d, remaining[1])
    BY <1>4 DEF PlainInv, PlainIrv
  <2>4. QED
    BY <2>2, <2>3
<1>5. CASE Len(remaining) # 1
  <2>1. PICK d \in ToSet(remaining) : d # w
    <3>1. ToSet(remaining) # {w}
      <4>1. IsFiniteSet(ToSet(remaining)) /\ Cardinality(ToSet(remaining)) = Len(remaining)
        BY <1>1, ListLength DEF Lists
      <4>2. Cardinality({w}) = 1
        BY FS_Singleton
      <4>3. QED
        BY <1>5, <4>1, <4>2
    <3>2. QED
      BY <1>2, <3>1
  <2> HIDE DEF w
  <2> DEFINE all == {i \in DOMAIN pile : pile[i] \in ToSet(remaining)}
             rest == {i \in DOMAIN pile : pile[i] \in ToSet(remaining) \ {w}}
             n == Cardinality(PileOf(w))
             m == Cardinality(rest)
             k == Cardinality(all)
  <2>2. k \in Nat /\ SumFunctionOnSet(Hare, ToSet(remaining)) = Unit * k
    BY <1>3, CountsOfSet DEF PlainIrv
  <2>3. n \in Nat /\ Hare[w] = Unit * n
    BY <1>2, <1>3, IrvCounts DEF PlainIrv
  <2>4. m \in Nat /\ k = n + m
    <3>1. all = PileOf(w) \cup rest /\ PileOf(w) \cap rest = {}
      BY <1>2 DEF PileOf
    <3>2. PileOf(w) \in SUBSET DOMAIN pile /\ rest \in SUBSET DOMAIN pile
      BY DEF PileOf
    <3>3. IsFiniteSet(DOMAIN pile)
      BY BallotsFinite DEF TabulationInv, TallyInv, CountInv, PlainIrv
    <3> HIDE DEF all, rest
    <3>4. IsFiniteSet(PileOf(w)) /\ IsFiniteSet(rest)
      BY <3>2, <3>3, FS_Subset
    <3>5. Cardinality(all) = Cardinality(PileOf(w)) + Cardinality(rest) - Cardinality({})
      BY <3>1, <3>4, FS_Union
    <3>6. QED
      BY <3>4, <3>5, FS_EmptySet, FS_CardinalityType
  <2>5. Unit \in Nat \ {0}
    BY TabulationAssumption
  <2>6. Unit * n >= Unit * (k \div 2 + 1)
    <3>1. ~Proportional
      BY DEF Proportional, PlainIrv
    <3> HIDE DEF k
    <3>2. (Unit * k) \div Unit = k
      BY <2>2, <2>5
    <3>3. Quota(Unit * k) = k \div 2 + 1
      BY <3>1, <3>2 DEF Quota
    <3>4. QED
      BY <2>2, <2>3, <3>3 DEF Reached, w
  <2>7. m <= n
    <3> HIDE DEF n, m, k
    <3> DEFINE q == k \div 2 + 1
    <3>1. q \in Int /\ 2 * q > k
      BY <2>2
    <3>2. n >= q
      <4> HIDE DEF q
      <4>1. Unit * n >= Unit * q
        BY <2>6 DEF q
      <4>2. QED
        BY <2>3, <2>5, <3>1, <4>1
    <3> HIDE DEF q
    <3>3. QED
      BY <2>3, <2>4, <3>1, <3>2
  <2>8. d \in Cands(race) \ {w} /\ ~Beats(d, w)
    BY <1>2, <2>1, <2>7, MajorityNotBeaten
  <2>9. QED
    BY <2>8 DEF w
<1>6. QED
  BY <1>4, <1>5

\* The ballots start with the best of all candidates.
LEMMA PlainInit ==
  ASSUME Init
  PROVE  PlainInv
<1>1. SUFFICES ASSUME PlainIrv PROVE PlainInv
  BY DEF PlainInv, PlainIrv
<1>2. /\ elected = <<>>
      /\ remaining = PreSorted(race, tally)
      /\ pile = [i \in DOMAIN tally |-> Receiver(race, remaining, tally[i], over[i])]
  BY <1>1 DEF Init, PlainIrv
<1>3. TallyInv /\ Lists(race, remaining) /\ Len(remaining) = race.cands
  BY <1>2, InitInv, PreSortedLists DEF TabulationInv, TallyInv
<1>4. Len(remaining) # 1
  BY <1>1, <1>3 DEF PlainIrv
<1>5. PilesBest
  BY <1>1, <1>2, <1>3, PlainReceiver DEF PlainIrv, PilesBest
<1>6. QED
  BY <1>2, <1>4, <1>5 DEF PlainInv

\* An elimination leaves every ballot with its best.
LEMMA PlainEliminate ==
  ASSUME TabulationInv, PlainInv, Eliminate, PlainIrv, elected = <<>>
  PROVE  /\ PilesBest'
         /\ Len(remaining') = 1 =>
              \E d \in Cands(race) \ {remaining'[1]} : ~Beats(d, remaining'[1])
<1> DEFINE l == Last(Order)
           left == Front(Order)
<1>1. /\ Counting /\ remaining' = left /\ pile' = Distribute(left, PileOf(l), pile)
  BY DEF Eliminate
<1>2. /\ Lists(race, Order) /\ Order # <<>> /\ Len(Order) = Len(remaining)
      /\ ToSet(Order) = ToSet(remaining)
  BY <1>1, RoundStarts
<1>3. /\ Lists(race, left) /\ Len(left) = Len(remaining) - 1
      /\ ToSet(left) = ToSet(remaining) \ {l}
  BY <1>2, ShorterLists
<1>4. TallyInv /\ DOMAIN pile = DOMAIN tally
  BY DEF TabulationInv, CountInv, PlainIrv
<1>5. PilesBest'
  <2> HIDE DEF l, left
  <2>1. tally' = tally /\ PilesBest
    BY <1>1 DEF Counting, PlainInv, PlainIrv
  <2>2. QED
    BY <1>1, <1>3, <1>4, <2>1, BestHandedOn DEF PlainIrv
<1>6. ASSUME Len(left) = 1
      PROVE  \E d \in Cands(race) \ {left[1]} : ~Beats(d, left[1])
  <2>1. Len(remaining) = 2
    <3> DEFINE n == Len(remaining)
    <3>1. n \in Nat /\ n - 1 = 1
      <4>1. n = Len(Order) /\ n - 1 = 1
        BY <1>2, <1>3, <1>6
      <4>2. Len(Order) \in Nat
        BY <1>2 DEF Lists
      <4>3. QED
        BY <4>1, <4>2
    <3> HIDE DEF n
    <3>2. n = 2
      BY <3>1
    <3>3. QED
      BY <3>2 DEF n
  <2>2. Order[2] \in Cands(race) \ {Order[1]} /\ ~Beats(Order[2], Order[1])
    BY <1>1, <2>1, LastOfTwo
  <2>3. left[1] = Order[1]
    <3> DEFINE s == Order
               C == Cands(race)
    <3>1. s \in Seq(C) /\ Len(s) = 2 /\ left = Front(s)
      BY <1>2, <2>1 DEF Lists
    <3> HIDE DEF s, C
    <3>2. Front(s)[1] = s[1]
      BY <3>1 DEF Front
    <3>3. QED
      BY <3>1, <3>2 DEF s
  <2>4. QED
    BY <2>2, <2>3
<1>7. QED
  BY <1>1, <1>5, <1>6

\* Every step preserves it.
LEMMA PlainStep ==
  ASSUME TabulationInv, PlainInv, [Next]_vars
  PROVE  PlainInv'
<1>1. SUFFICES ASSUME PlainIrv' PROVE PlainInv'
  BY DEF PlainInv, PlainIrv
<1>2. race' = race /\ tally' = tally /\ over' = over
  BY DEF Next, BlocRound, Elect, Fill, Eliminate, Allocate, Return, Counting, vars
<1>3. PlainIrv /\ \A a, b : (Beats(a, b))' <=> Beats(a, b)
  BY <1>1, <1>2 DEF PlainIrv, PlainRanks, Beats
<1>4. race.method = "IRV" /\ race.method \notin Bloc \cup {"STAR_PR"} /\ ~Proportional
  BY <1>3 DEF PlainIrv, Bloc, Proportional
<1>5. elected # <<>> => \E d \in Cands(race) \ {elected[1]} : ~Beats(d, elected[1])
  BY <1>3 DEF PlainInv, PlainIrv
<1>6. CASE Elect
  <2>1. Counting /\ Reached /\ elected' = Append(elected, Order[1])
    BY <1>6 DEF Elect
  <2>2. elected \in Seq(Cands(race)) /\ Order[1] \in Cands(race)
    BY <2>1, SeatTaken DEF TabulationInv, SeatInv
  <2>3. elected' # <<>>
    BY <2>1, <2>2
  <2>4. CASE elected = <<>>
    <3>1. elected'[1] = Order[1]
      BY <2>1, <2>4
    <3>2. \E d \in Cands(race) \ {Order[1]} : ~Beats(d, Order[1])
      BY <1>3, <2>1, <2>4, ReachedNotBeaten
    <3>3. QED
      BY <1>2, <1>3, <2>3, <3>1, <3>2 DEF PlainInv
  <2>5. CASE elected # <<>>
    <3>1. elected'[1] = elected[1]
      BY <2>1, <2>2, <2>5
    <3>2. QED
      BY <1>2, <1>3, <1>5, <2>3, <2>5, <3>1 DEF PlainInv
  <2>6. QED
    BY <2>4, <2>5
<1>7. CASE Eliminate
  <2>1. elected' = elected
    BY <1>7 DEF Eliminate
  <2>2. CASE elected = <<>>
    BY <1>2, <1>3, <1>7, <2>1, <2>2, PlainEliminate DEF PlainInv
  <2>3. CASE elected # <<>>
    BY <1>2, <1>3, <1>5, <2>1, <2>3 DEF PlainInv
  <2>4. QED
    BY <2>2, <2>3
<1>8. CASE Return \/ UNCHANGED vars
  <2>1. elected' = elected /\ remaining' = remaining /\ pile' = pile
    BY <1>8 DEF Return, vars
  <2>2. QED
    BY <1>2, <1>3, <2>1 DEF PlainInv, PlainIrv, PilesBest
<1>9. ~BlocRound /\ ~Fill /\ ~Allocate
  BY <1>4 DEF BlocRound, Fill, Allocate, LastSeats
<1>10. QED
  BY <1>6, <1>7, <1>8, <1>9 DEF Next

------------------------------------------------------------------------------
(* Coalitions in IRV. *)

\* The ballots that rank the candidates of S above all others.
Solid(S) ==
  {i \in DOMAIN tally :
    \A a \in S, b \in Cands(race) \ S : Place(tally[i][a]) < Place(tally[i][b])}

\* IRV with plain ranks: a majority for S keeps one of S in the count until one
\* of S has the first seat.
CoalitionInv ==
  race.method = "IRV" /\ PlainRanks /\ race.cands > 1 =>
    \A S \in (SUBSET Cands(race)) \ {{}, Cands(race)} :
      2 * Cardinality(Solid(S)) > Len(tally) =>
        IF elected = <<>> THEN S \cap ToSet(remaining) # {} ELSE elected[1] \in S

\* A ballot is with somebody who is left or with nobody.
PilesLeft == \A i \in DOMAIN tally : pile[i] \in ToSet(remaining) \cup {0}

\* While one of S is left, the ballots for S are with those of S who are.
LEMMA SolidStays ==
  ASSUME TallyInv, SeatInv, race.method \in {"IRV", "STV"}, PilesBest, PilesLeft,
         NEW S \in SUBSET Cands(race), S # Cands(race), S \cap ToSet(remaining) # {},
         NEW i \in Solid(S)
  PROVE  i \in DOMAIN tally /\ pile[i] \in S \cap ToSet(remaining)
<1>1. i \in DOMAIN tally
  BY DEF Solid
<1>2. PICK c \in S \cap ToSet(remaining) : TRUE
  OBVIOUS
<1>3. PICK b \in Cands(race) \ S : TRUE
  OBVIOUS
<1>4. /\ IsRace(race) /\ Lists(race, remaining)
      /\ \A x \in Cands(race) : tally[i][x] \in 0..TopMark(race)
  BY <1>1 DEF TallyInv, SeatInv, IsTally
<1>5. \A x \in Cands(race) : Place(tally[i][x]) \in Int /\ Place(tally[i][x]) <= 1000
  <2>1. TopMark(race) \in Nat /\ TopMark(race) <= 999
    BY <1>4, RanksBounded
  <2>2. QED
    BY <1>4, <2>1 DEF Place
<1>6. pile[i] \in ToSet(remaining) \cup {0}
  BY <1>1 DEF PilesLeft
<1>7. IF pile[i] = 0 THEN \A x \in ToSet(remaining) : tally[i][x] = 0
      ELSE \A x \in ToSet(remaining) \ {pile[i]} :
             Place(tally[i][pile[i]]) < Place(tally[i][x])
  BY <1>1 DEF PilesBest
<1>8. \A x \in Cands(race) \ S : Place(tally[i][c]) < Place(tally[i][x])
  BY <1>2 DEF Solid
<1>9. ToSet(remaining) \subseteq Cands(race)
  BY <1>4, ListFacts
<1>10. pile[i] # 0
  <2>1. SUFFICES ASSUME pile[i] = 0 PROVE FALSE
    OBVIOUS
  <2>2. Place(tally[i][c]) = 1000
    BY <1>2, <1>7, <2>1 DEF Place
  <2>3. QED
    BY <1>3, <1>5, <1>8, <2>2
<1>11. pile[i] \in S
  <2>1. SUFFICES ASSUME pile[i] \notin S PROVE FALSE
    OBVIOUS
  <2>2. /\ pile[i] \in Cands(race) \ S /\ pile[i] # c
        /\ c \in ToSet(remaining) \ {pile[i]} /\ c \in Cands(race)
    BY <1>2, <1>6, <1>9, <1>10, <2>1
  <2>3. Place(tally[i][c]) < Place(tally[i][pile[i]])
    BY <1>8, <2>2
  <2>4. Place(tally[i][pile[i]]) < Place(tally[i][c])
    BY <1>7, <1>10, <2>2
  <2>5. QED
    BY <1>5, <2>2, <2>3, <2>4
<1>12. QED
  BY <1>1, <1>6, <1>10, <1>11

\* A majority for S has more ballots than half of those that are with somebody,
\* wherever they are.
LEMMA SolidOutnumbers ==
  ASSUME TabulationInv, PlainInv, PlainIrv, elected = <<>>,
         NEW S \in SUBSET Cands(race), S # Cands(race), S \cap ToSet(remaining) # {},
         2 * Cardinality(Solid(S)) > Len(tally)
  PROVE  LET active == {i \in DOMAIN pile : pile[i] \in ToSet(remaining)}
         IN /\ Cardinality(active) \in Nat /\ Cardinality(active) <= Len(tally)
            /\ \A c \in ToSet(remaining) \ S :
                 Cardinality(PileOf(c)) + Cardinality(Solid(S)) <= Cardinality(active)
            /\ \A c : S \cap ToSet(remaining) = {c} =>
                 Cardinality(Solid(S)) <= Cardinality(PileOf(c))
<1> DEFINE active == {i \in DOMAIN pile : pile[i] \in ToSet(remaining)}
<1>1. /\ DOMAIN pile = DOMAIN tally /\ DOMAIN tally = 1..Len(tally) /\ Len(tally) \in Nat
      /\ \A B \in SUBSET DOMAIN tally : IsFiniteSet(B) /\ Cardinality(B) \in Nat
  BY BallotsFinite DEF TabulationInv, TallyInv, CountInv, PlainIrv
<1>2. \A B \in SUBSET DOMAIN tally : Cardinality(B) <= Len(tally)
  BY <1>1, Places
<1>3. active \in SUBSET DOMAIN tally /\ Solid(S) \in SUBSET DOMAIN tally
  BY <1>1 DEF Solid
<1>4. \A c : PileOf(c) \in SUBSET DOMAIN tally
  BY <1>1 DEF PileOf
<1>5. \A i \in Solid(S) : i \in DOMAIN pile /\ pile[i] \in S \cap ToSet(remaining)
  <2>1. PilesBest /\ PilesLeft
    BY DEF PlainInv, PlainIrv, PilesLeft, TabulationInv, IrvInv
  <2>2. QED
    BY <1>1, <2>1, SolidStays DEF TabulationInv, PlainIrv
<1>6. Cardinality(active) \in Nat /\ Cardinality(active) <= Len(tally)
  BY <1>1, <1>2, <1>3
<1>7. ASSUME NEW c \in ToSet(remaining) \ S
      PROVE  Cardinality(PileOf(c)) + Cardinality(Solid(S)) <= Cardinality(active)
  <2>1. PileOf(c) \cup Solid(S) \subseteq active /\ PileOf(c) \cap Solid(S) = {}
    BY <1>5 DEF PileOf
  <2> HIDE DEF active
  <2>2. IsFiniteSet(PileOf(c)) /\ IsFiniteSet(Solid(S)) /\ IsFiniteSet(active)
    BY <1>1, <1>3, <1>4
  <2>3. Cardinality(PileOf(c) \cup Solid(S))
          = Cardinality(PileOf(c)) + Cardinality(Solid(S)) - Cardinality({})
    BY <2>1, <2>2, FS_Union
  <2>4. Cardinality(PileOf(c) \cup Solid(S)) <= Cardinality(active)
    BY <2>1, <2>2, FS_Subset
  <2>5. Cardinality({}) = 0
    BY FS_EmptySet
  <2>6. Cardinality(PileOf(c)) \in Nat /\ Cardinality(Solid(S)) \in Nat
    BY <2>2, FS_CardinalityType
  <2>7. QED
    BY <2>3, <2>4, <2>5, <2>6
<1>8. ASSUME NEW c, S \cap ToSet(remaining) = {c}
      PROVE  Cardinality(Solid(S)) <= Cardinality(PileOf(c))
  <2>1. Solid(S) \subseteq PileOf(c)
    BY <1>5, <1>8 DEF PileOf
  <2>2. IsFiniteSet(PileOf(c))
    BY <1>1, <1>4
  <2>3. QED
    BY <2>1, <2>2, FS_Subset
<1>9. QED
  BY <1>6, <1>7, <1>8

\* Whoever reaches the quota is one of S.
LEMMA CoalitionElects ==
  ASSUME TabulationInv, PlainInv, PlainIrv, Counting, Reached, elected = <<>>,
         NEW S \in SUBSET Cands(race), S # Cands(race), S \cap ToSet(remaining) # {},
         2 * Cardinality(Solid(S)) > Len(tally)
  PROVE  Order[1] \in S
<1> DEFINE active == {i \in DOMAIN pile : pile[i] \in ToSet(remaining)}
           n == Cardinality(PileOf(Order[1]))
           k == Cardinality(active)
           m == Cardinality(Solid(S))
<1>1. SUFFICES ASSUME Order[1] \notin S PROVE FALSE
  OBVIOUS
<1>2. Order[1] \in ToSet(remaining) \ S
  BY <1>1, RoundStarts, ShorterLists
<1>3. n \in Nat /\ k \in Nat /\ 2 * n > k
  BY QuotaIsMajority
<1>4. k <= Len(tally) /\ n + m <= k
  BY <1>2, SolidOutnumbers
<1>5. m \in Nat /\ Len(tally) \in Nat
  BY BallotsFinite DEF TabulationInv, TallyInv, Solid
<1>6. 2 * m > Len(tally)
  OBVIOUS
<1> HIDE DEF n, k, m
<1>7. QED
  BY <1>3, <1>4, <1>5, <1>6

\* Nor is the last one of S eliminated: with these ballots the quota is reached.
LEMMA CoalitionStays ==
  ASSUME TabulationInv, PlainInv, PlainIrv, Eliminate, elected = <<>>,
         NEW S \in SUBSET Cands(race), S # Cands(race), S \cap ToSet(remaining) # {},
         2 * Cardinality(Solid(S)) > Len(tally)
  PROVE  S \cap ToSet(remaining') # {}
<1> DEFINE w == Order[1]
           l == Last(Order)
           active == {i \in DOMAIN pile : pile[i] \in ToSet(remaining)}
           n == Cardinality(PileOf(w))
           o == Cardinality(PileOf(l))
           k == Cardinality(active)
           m == Cardinality(Solid(S))
<1>1. Counting /\ ~Reached /\ remaining' = Front(Order)
  BY DEF Eliminate
<1>2. /\ Lists(race, Order) /\ Order # <<>> /\ Len(Order) = Len(remaining)
      /\ ToSet(Order) = ToSet(remaining)
      /\ AreRounds(race, Rounds) /\ Rounds # <<>> /\ Last(Rounds) = Hare
      /\ IsRace(race) /\ Lists(race, remaining)
  BY <1>1, RoundStarts DEF TabulationInv, SeatInv
<1>3. ToSet(remaining') = ToSet(remaining) \ {l}
  BY <1>1, <1>2, ShorterLists
<1>4. SUFFICES ASSUME S \cap ToSet(remaining) = {l} PROVE FALSE
  BY <1>3
<1>5. w \in Cands(race) /\ l \in Cands(race)
  BY <1>2, ShorterLists, ListFacts
<1>6. Hare[w] >= Hare[l]
  <2> DEFINE len == Len(remaining)
  <2>1. len \in Nat \ {0} /\ l = Order[len]
    BY <1>2 DEF Lists, Last
  <2>2. \A i, j \in 1..len : i < j => Hare[Order[i]] >= Hare[Order[j]]
    BY <1>2, ByHareSorts DEF Order
  <2>3. Hare[w] \in Int
    BY <1>1, <1>5, RoundStarts
  <2> HIDE DEF len
  <2>4. CASE len = 1
    BY <2>1, <2>3, <2>4
  <2>5. CASE len # 1
    <3>1. 1 \in 1..len /\ len \in 1..len /\ 1 < len
      BY <2>1, <2>5
    <3>2. QED
      BY <2>1, <2>2, <3>1
  <2>6. QED
    BY <2>4, <2>5
<1>7. n \in Nat /\ o \in Nat /\ Hare[w] = Unit * n /\ Hare[l] = Unit * o
  BY <1>1, <1>5, IrvCounts DEF PlainIrv
<1>8. k \in Nat /\ ~(2 * n > k)
  BY <1>1, QuotaIsMajority
<1>9. k <= Len(tally) /\ m <= o
  BY <1>4, SolidOutnumbers
<1>10. m \in Nat /\ Len(tally) \in Nat
  BY BallotsFinite DEF TabulationInv, TallyInv, Solid
<1>11. 2 * m > Len(tally)
  OBVIOUS
<1> HIDE DEF w, l, n, o, k, m
<1>12. n >= o
  <2>1. Unit \in Nat \ {0}
    BY TabulationAssumption
  <2>2. Unit * n >= Unit * o
    BY <1>6, <1>7
  <2>3. QED
    BY <1>7, <2>1, <2>2
<1>13. QED
  BY <1>7, <1>8, <1>9, <1>10, <1>11, <1>12

\* The ballots and the candidates who are left are all when counting starts.
LEMMA CoalitionInit ==
  ASSUME Init
  PROVE  CoalitionInv
<1>1. SUFFICES ASSUME PlainIrv PROVE CoalitionInv
  BY DEF CoalitionInv, PlainIrv
<1>2. elected = <<>> /\ remaining = PreSorted(race, tally)
  BY DEF Init
<1>3. ToSet(remaining) = Cands(race)
  BY <1>2, InitInv, PreSortedLists DEF TabulationInv, TallyInv
<1>4. ASSUME NEW S \in (SUBSET Cands(race)) \ {{}, Cands(race)}
      PROVE  S \cap ToSet(remaining) # {}
  <2>1. S \subseteq Cands(race) /\ S # {}
    OBVIOUS
  <2>2. QED
    BY <1>3, <2>1
<1>5. QED
  BY <1>2, <1>4 DEF CoalitionInv

LEMMA CoalitionStep ==
  ASSUME TabulationInv, PlainInv, CoalitionInv, [Next]_vars
  PROVE  CoalitionInv'
<1>1. SUFFICES ASSUME PlainIrv', NEW S \in (SUBSET Cands(race)') \ {{}, Cands(race)'},
                      2 * Cardinality(Solid(S)') > Len(tally')
               PROVE  IF elected' = <<>> THEN S \cap ToSet(remaining') # {}
                      ELSE elected'[1] \in S
  BY DEF CoalitionInv, PlainIrv
<1>2. race' = race /\ tally' = tally
  BY DEF Next, BlocRound, Elect, Fill, Eliminate, Allocate, Return, Counting, vars
<1>3. /\ PlainIrv /\ S \in (SUBSET Cands(race)) \ {{}, Cands(race)}
      /\ 2 * Cardinality(Solid(S)) > Len(tally)
  <2>1. over' = over
    BY DEF Next, BlocRound, Elect, Fill, Eliminate, Allocate, Return, Counting, vars
  <2>2. QED
    BY <1>1, <1>2, <2>1 DEF PlainIrv, PlainRanks, Solid
<1>4. IF elected = <<>> THEN S \cap ToSet(remaining) # {} ELSE elected[1] \in S
  BY <1>3 DEF CoalitionInv, PlainIrv
<1>5. CASE Elect
  <2>1. Counting /\ Reached /\ elected' = Append(elected, Order[1])
    BY <1>5 DEF Elect
  <2>2. elected \in Seq(Cands(race)) /\ Order[1] \in Cands(race)
    BY <2>1, SeatTaken DEF TabulationInv, SeatInv
  <2>3. elected' # <<>>
    BY <2>1, <2>2
  <2>4. CASE elected = <<>>
    <3>1. elected'[1] = Order[1]
      BY <2>1, <2>4
    <3>2. S \in SUBSET Cands(race) /\ S # Cands(race) /\ S \cap ToSet(remaining) # {}
      BY <1>3, <1>4, <2>4
    <3>3. Order[1] \in S
      BY <1>3, <2>1, <2>4, <3>2, CoalitionElects
    <3>4. QED
      BY <2>3, <3>1, <3>3
  <2>5. CASE elected # <<>>
    <3>1. elected'[1] = elected[1]
      BY <2>1, <2>2, <2>5
    <3>2. QED
      BY <1>4, <2>3, <2>5, <3>1
  <2>6. QED
    BY <2>4, <2>5
<1>6. CASE Eliminate
  <2>1. elected' = elected
    BY <1>6 DEF Eliminate
  <2>2. CASE elected = <<>>
    <3>1. S \in SUBSET Cands(race) /\ S # Cands(race) /\ S \cap ToSet(remaining) # {}
      BY <1>3, <1>4, <2>2
    <3>2. S \cap ToSet(remaining') # {}
      BY <1>3, <1>6, <2>2, <3>1, CoalitionStays
    <3>3. QED
      BY <2>1, <2>2, <3>2
  <2>3. CASE elected # <<>>
    BY <1>4, <2>1, <2>3
  <2>4. QED
    BY <2>2, <2>3
<1>7. CASE Return \/ UNCHANGED vars
  <2>1. elected' = elected /\ remaining' = remaining
    BY <1>7 DEF Return, vars
  <2>2. QED
    BY <1>4, <2>1
<1>8. ~BlocRound /\ ~Fill /\ ~Allocate
  BY <1>3 DEF BlocRound, Fill, Allocate, LastSeats, PlainIrv, Bloc, Proportional
<1>9. QED
  BY <1>5, <1>6, <1>7, <1>8 DEF Next

------------------------------------------------------------------------------
(* Coalitions in STV. *)

\* Division rounds down by less than one.
LEMMA RoundedDown ==
  ASSUME NEW m \in Nat, NEW h \in Nat \ {0}
  PROVE  m \div h \in Nat /\ (m \div h) * h <= m /\ m <= (m \div h) * h + h
<1>1. m \div h \in Nat
  OBVIOUS
<1>2. m = h * (m \div h) + (m % h) /\ m % h \in 0..(h - 1)
  OBVIOUS
<1>3. (m \div h) * h = h * (m \div h) /\ h * (m \div h) \in Int
  BY <1>1
<1>4. QED
  BY <1>1, <1>2, <1>3

\* A factor can be left out of a comparison.
LEMMA ScaledOrder ==
  ASSUME NEW a \in Int, NEW b \in Int, NEW h \in Nat \ {0}, a * h <= b * h
  PROVE  a <= b
  OBVIOUS

\* Each member of P keeps the share (h - q) / h, rounded down, of what it has: h
\* being what P has, the sum falls by q at least, and nobody loses more
\* than q and one for each member of P.
LEMMA SurplusSums ==
  ASSUME NEW D, IsFiniteSet(D), NEW f, \A x \in D : f[x] \in Nat,
         NEW P \in SUBSET D, NEW h, h = SumFunctionOnSet(f, P),
         NEW q \in Nat \ {0}, h >= q,
         NEW g, \A x \in D : g[x] = IF x \in P THEN (f[x] * (h - q)) \div h ELSE f[x]
  PROVE  /\ \A x \in D : g[x] \in Nat
         /\ SumFunctionOnSet(g, D) + q <= SumFunctionOnSet(f, D)
         /\ \A T \in SUBSET D : SumFunctionOnSet(f, T)
                                  <= SumFunctionOnSet(g, T) + q + Cardinality(P)
<1> DEFINE sum(m, T) == SumFunctionOnSet(m, T)
           a == h - q
           n == Cardinality(P)
           scaled == [x \in P |-> g[x] * h]
           exact == [x \in P |-> f[x] * a]
           one == [x \in P |-> h]
           above == [x \in P |-> scaled[x] + one[x]]
<1>1. IsFiniteSet(P) /\ n \in Nat
  BY FS_Subset, FS_CardinalityType
<1>2. h \in Nat \ {0} /\ a \in Nat /\ a <= h /\ q = h - a
  <2>1. \A x \in P : f[x] \in Nat
    OBVIOUS
  <2>2. sum(f, P) \in Nat
    BY <1>1, <2>1, SumBounds
  <2>3. QED
    BY <2>2
<1>3. ASSUME NEW x \in D
      PROVE  /\ f[x] \in Int /\ g[x] \in Nat /\ g[x] \in Int /\ g[x] <= f[x]
             /\ x \in P => g[x] * h <= f[x] * a /\ f[x] * a <= g[x] * h + h
             /\ x \notin P => g[x] = f[x]
  <2>1. CASE x \in P
    <3> DEFINE m == f[x] * a
    <3>1. f[x] \in Nat /\ m \in Nat /\ m <= f[x] * h
      BY <1>2
    <3>2. g[x] = m \div h
      BY <2>1
    <3> HIDE DEF m
    <3>3. g[x] \in Nat /\ g[x] * h <= m /\ m <= g[x] * h + h
      BY <1>2, <3>1, <3>2, RoundedDown
    <3>4. g[x] <= f[x]
      <4>1. g[x] * h <= f[x] * h
        BY <1>2, <3>1, <3>3
      <4>2. QED
        BY <1>2, <3>1, <3>3, <4>1, ScaledOrder
    <3>5. QED
      BY <2>1, <3>1, <3>3, <3>4 DEF m
  <2>2. CASE x \notin P
    BY <2>2
  <2>3. QED
    BY <2>1, <2>2
<1>4. \A T \in SUBSET D :
        /\ IsFiniteSet(T) /\ sum(f, T) \in Int /\ sum(g, T) \in Int
        /\ sum(g, T) <= sum(f, T)
        /\ \A A \in SUBSET T : /\ sum(f, T) = sum(f, A) + sum(f, T \ A)
                               /\ sum(g, T) = sum(g, A) + sum(g, T \ A)
        /\ T \cap P = {} => sum(f, T) = sum(g, T)
  <2>1. TAKE T \in SUBSET D
  <2>2. IsFiniteSet(T)
    BY FS_Subset
  <2>3. \A x \in T : f[x] \in Int /\ g[x] \in Int /\ g[x] <= f[x]
    BY <1>3
  <2>4. sum(f, T) \in Int /\ sum(g, T) \in Int
    BY <2>2, <2>3, SumFolds
  <2>5. sum(g, T) <= sum(f, T)
    BY <2>2, <2>3, SumCompares
  <2>6. ASSUME NEW A \in SUBSET T
        PROVE  /\ sum(f, T) = sum(f, A) + sum(f, T \ A)
               /\ sum(g, T) = sum(g, A) + sum(g, T \ A)
    BY <2>2, <2>3, SumSplits
  <2>7. ASSUME T \cap P = {} PROVE sum(f, T) = sum(g, T)
    <3>1. \A x \in T : f[x] \in Int /\ f[x] = g[x]
      BY <1>3, <2>7
    <3>2. QED
      BY <2>2, <3>1, SameSums
  <2>8. QED
    BY <2>2, <2>4, <2>5, <2>6, <2>7
<1>5. /\ \A x \in P : exact[x] = f[x] * a /\ scaled[x] = g[x] * h /\ one[x] = h
      /\ \A x \in P : above[x] = scaled[x] + one[x]
      /\ \A x \in P : f[x] \in Int /\ g[x] \in Int /\ a \in Int /\ h \in Int
  BY <1>2, <1>3
<1> HIDE DEF exact, scaled, one, above
<1>6. \A x \in P : /\ exact[x] \in Int /\ scaled[x] \in Int /\ one[x] \in Int /\ above[x] \in Int
                   /\ scaled[x] <= exact[x] /\ exact[x] <= above[x]
  <2>1. TAKE x \in P
  <2>2. f[x] * a \in Int /\ g[x] * h \in Int
    BY <1>5
  <2>3. QED
    BY <1>3, <1>5, <2>2
<1> HIDE DEF a, n
<1>7. /\ sum(exact, P) = h * a /\ sum(scaled, P) = sum(g, P) * h
      /\ sum(above, P) = sum(g, P) * h + h * n
  <2>1. sum(exact, P) = h * a
    <3>1. a \in Int /\ \A x \in P : f[x] \in Int /\ exact[x] = f[x] * a
      BY <1>2, <1>5
    <3>2. sum(exact, P) = sum(f, P) * a
      BY <1>1, <3>1, SumScaled
    <3>3. QED
      BY <3>2
  <2>2. sum(scaled, P) = sum(g, P) * h
    <3>1. h \in Int /\ \A x \in P : g[x] \in Int /\ scaled[x] = g[x] * h
      BY <1>2, <1>5
    <3>2. QED
      BY <1>1, <3>1, SumScaled
  <2>3. sum(one, P) = h * n
    <3>1. h \in Int
      BY <1>2
    <3>2. QED
      BY <1>1, <1>5, <3>1, EqualSums DEF n
  <2>4. sum(above, P) = sum(scaled, P) + sum(one, P)
    BY <1>1, <1>5, <1>6, SumAdds
  <2>5. QED
    BY <2>1, <2>2, <2>3, <2>4
<1>8. sum(scaled, P) <= sum(exact, P) /\ sum(exact, P) <= sum(above, P)
  BY <1>1, <1>6, SumCompares
<1> HIDE DEF sum
<1> DEFINE G == sum(g, P)
<1>9. G \in Int /\ G <= a /\ a <= G + n
  <2>1. G \in Int
    BY <1>4
  <2>2. G * h <= h * a /\ h * a <= G * h + h * n
    BY <1>7, <1>8
  <2> HIDE DEF G
  <2>3. G <= a
    <3>1. a * h = h * a /\ a \in Int
      BY <1>2
    <3>2. G * h <= a * h
      BY <2>2, <3>1
    <3>3. QED
      BY <1>2, <2>1, <3>1, <3>2, ScaledOrder
  <2>4. a <= G + n
    <3>1. a * h <= (G + n) * h /\ G + n \in Int /\ a \in Int
      <4>1. (G + n) * h = G * h + h * n /\ a * h = h * a
        BY <1>1, <1>2, <2>1
      <4>2. QED
        BY <1>1, <1>2, <2>1, <2>2, <4>1
    <3>2. QED
      BY <1>2, <3>1, ScaledOrder
  <2>5. QED
    BY <2>1, <2>3, <2>4
<1>10. h = sum(f, P)
  BY DEF sum
<1>11. sum(g, D) + q <= sum(f, D)
  <2>1. /\ sum(f, D) = h + sum(f, D \ P) /\ sum(g, D) = G + sum(g, D \ P)
        /\ sum(f, D \ P) = sum(g, D \ P) /\ sum(f, D \ P) \in Int
    BY <1>4, <1>10
  <2>2. QED
    BY <1>2, <1>9, <2>1
<1>12. ASSUME NEW T \in SUBSET D PROVE sum(f, T) <= sum(g, T) + q + n
  <2> DEFINE A == T \cap P
             B == P \ A
             C == T \ A
  <2>1. A \in SUBSET D /\ B \in SUBSET D /\ C \in SUBSET D /\ C \cap P = {}
        /\ A \in SUBSET P /\ A \in SUBSET T
    OBVIOUS
  <2>2. /\ sum(f, T) = sum(f, A) + sum(f, C) /\ sum(g, T) = sum(g, A) + sum(g, C)
        /\ h = sum(f, A) + sum(f, B) /\ G = sum(g, A) + sum(g, B)
    BY <1>4, <1>10, <2>1
  <2>3. /\ sum(f, C) = sum(g, C) /\ sum(g, B) <= sum(f, B)
        /\ sum(f, A) \in Int /\ sum(f, B) \in Int /\ sum(f, C) \in Int
        /\ sum(g, A) \in Int /\ sum(g, B) \in Int
    BY <1>4, <2>1
  <2> HIDE DEF A, B, C, G
  <2>4. QED
    BY <1>1, <1>2, <1>9, <2>2, <2>3
<1>13. QED
  BY <1>3, <1>11, <1>12 DEF sum, n

\* With the last seat taken a coalition that is one seat short would hold a whole
\* quota more than there is.
LEMMA NoQuotaIsLeft ==
  ASSUME NEW s \in Nat \ {0}, NEW ballots \in Nat, NEW u \in Nat, s * s * ballots < u,
         NEW q \in Nat, q * (s + 1) >= ballots + 1,
         NEW e \in Nat, e <= s, NEW k \in Nat, e < k, NEW solid \in Nat, solid >= k * q,
         NEW w \in Nat, w + e * (u * q + ballots) >= u * solid,
         NEW t \in Nat, w <= t, t + s * (u * q) <= u * ballots
  PROVE  FALSE
<1> DEFINE d == u * q
<1>1. d \in Nat
  OBVIOUS
<1>2. u * solid >= k * d
  <2>1. u * solid >= u * (k * q)
    OBVIOUS
  <2>2. u * (k * q) = k * d
    OBVIOUS
  <2>3. QED
    BY <2>1, <2>2
<1>3. (s + 1) * d >= u * ballots + u
  <2>1. u * (q * (s + 1)) >= u * (ballots + 1)
    OBVIOUS
  <2>2. u * (q * (s + 1)) = (s + 1) * d /\ u * (ballots + 1) = u * ballots + u
    OBVIOUS
  <2>3. QED
    BY <2>1, <2>2
<1>4. w + e * d + e * ballots >= k * d
  <2>1. e * (d + ballots) = e * d + e * ballots
    BY <1>1
  <2>2. QED
    BY <1>1, <1>2, <2>1
<1>5. k * d >= e * d + d
  <2>1. k * d >= (e + 1) * d
    BY <1>1
  <2>2. (e + 1) * d = e * d + d
    BY <1>1
  <2>3. QED
    BY <1>1, <2>1, <2>2
<1>6. e * ballots <= s * s * ballots
  <2>1. e * ballots <= s * ballots
    OBVIOUS
  <2>2. s * ballots <= s * (s * ballots)
    OBVIOUS
  <2>3. s * (s * ballots) = s * s * ballots
    OBVIOUS
  <2>4. QED
    BY <2>1, <2>2, <2>3
<1>7. t + s * d <= u * ballots
  OBVIOUS
<1>8. (s + 1) * d = s * d + d
  BY <1>1
<1> HIDE DEF d
<1> DEFINE ed == e * d
           kd == k * d
           sd == s * d
           eb == e * ballots
           ub == u * ballots
           ssb == s * s * ballots
<1>9. ed \in Nat /\ kd \in Nat /\ sd \in Nat /\ eb \in Nat /\ ub \in Nat /\ ssb \in Nat
  BY <1>1
<1>10. /\ w + ed + eb >= kd /\ kd >= ed + d /\ eb <= ssb /\ ssb < u /\ w <= t
       /\ t + sd <= ub /\ sd + d >= ub + u
  BY <1>3, <1>4, <1>5, <1>6, <1>7, <1>8
<1> HIDE DEF ed, kd, sd, eb, ub, ssb
<1>11. QED
  BY <1>1, <1>9, <1>10

\* A coalition with no candidate to spare for its quotas does not have the lowest of
\* those who are left when nobody has a quota.
LEMMA NoneToSpare ==
  ASSUME NEW s \in Nat \ {0}, NEW ballots \in Nat, NEW u \in Nat, s * s * ballots < u,
         NEW q \in Nat, q * (s + 1) >= ballots + 1,
         NEW e \in Nat, NEW taken \in Nat, e <= taken, taken < s,
         NEW r \in Nat \ {0}, NEW k \in Nat, e + r <= k, NEW solid \in Nat, solid >= k * q,
         NEW w \in Nat, w + e * (u * q + ballots) >= u * solid,
         NEW low \in Nat, w <= (r - 1) * (u * q) + low,
         NEW n \in Nat, n > s - taken,
         NEW t \in Nat, n * low <= t, t + taken * (u * q) <= u * ballots
  PROVE  FALSE
<1> DEFINE d == u * q
           m == s - taken + 1
           eb == e * ballots
<1>1. d \in Nat /\ m \in Nat /\ eb \in Nat /\ m <= n /\ e <= s
  OBVIOUS
<1>2. u * solid >= k * d
  <2>1. u * solid >= u * (k * q)
    OBVIOUS
  <2>2. u * (k * q) = k * d
    OBVIOUS
  <2>3. QED
    BY <2>1, <2>2
<1>3. (s + 1) * d >= u * ballots + u
  <2>1. u * (q * (s + 1)) >= u * (ballots + 1)
    OBVIOUS
  <2>2. u * (q * (s + 1)) = (s + 1) * d /\ u * (ballots + 1) = u * ballots + u
    OBVIOUS
  <2>3. QED
    BY <2>1, <2>2
<1>4. m * eb < u
  <2>1. CASE e = 0
    <3>1. eb = 0 /\ u > 0
      <4>1. s * s * ballots \in Nat
        OBVIOUS
      <4>2. QED
        BY <2>1, <4>1
    <3> HIDE DEF m, eb
    <3>2. QED
      BY <1>1, <3>1
  <2>2. CASE e # 0
    <3>1. m <= s
      BY <2>2
    <3>2. eb <= s * ballots /\ s * ballots \in Nat
      BY <1>1
    <3> DEFINE sb == s * ballots
    <3>3. s * sb = s * s * ballots
      OBVIOUS
    <3> HIDE DEF m, eb, sb
    <3>4. m * eb <= s * sb
      <4>1. m * eb <= s * eb
        BY <1>1, <3>1
      <4>2. s * eb <= s * sb
        BY <1>1, <3>2 DEF sb
      <4>3. sb \in Nat
        BY <3>2 DEF sb
      <4>4. m * eb \in Int /\ s * eb \in Int /\ s * sb \in Int
        BY <1>1, <4>3
      <4>5. QED
        BY <4>1, <4>2, <4>4
    <3>5. m * eb \in Int
      BY <1>1
    <3>6. s * s * ballots \in Int
      OBVIOUS
    <3>7. QED
      BY <3>3, <3>4, <3>5, <3>6
  <2>3. QED
    BY <2>1, <2>2
<1>5. low >= d - eb
  <2>1. e * (d + ballots) = e * d + eb
    BY <1>1
  <2>2. k * d >= e * d + r * d
    <3>1. k * d >= (e + r) * d
      BY <1>1
    <3>2. (e + r) * d = e * d + r * d
      BY <1>1
    <3>3. QED
      BY <3>1, <3>2
  <2>3. r * d = (r - 1) * d + d
    BY <1>1
  <2>4. w + (e * d + eb) >= u * solid
    BY <2>1
  <2> DEFINE ed == e * d
             kd == k * d
             rd == r * d
             pd == (r - 1) * d
             us == u * solid
  <2>5. ed \in Int /\ kd \in Int /\ rd \in Int /\ pd \in Int /\ us \in Int
    BY <1>1
  <2>6. /\ w + (ed + eb) >= us /\ us >= kd /\ kd >= ed + rd /\ rd = pd + d
        /\ w <= pd + low
    BY <1>2, <2>2, <2>3, <2>4
  <2> HIDE DEF ed, kd, rd, pd, us, d, eb
  <2>7. QED
    BY <1>1, <2>5, <2>6
<1>6. m * d - m * eb <= t
  <2> HIDE DEF d, m, eb
  <2>1. m * low >= m * (d - eb)
    BY <1>1, <1>5
  <2>2. n * low >= m * low
    BY <1>1
  <2>3. m * (d - eb) = m * d - m * eb
    BY <1>1
  <2>4. m * low \in Int /\ n * low \in Int /\ m * d \in Int /\ m * eb \in Int
    BY <1>1
  <2>5. QED
    BY <2>1, <2>2, <2>3, <2>4
<1>7. m * d + taken * d = (s + 1) * d
  <2>1. m + taken = s + 1
    OBVIOUS
  <2> HIDE DEF m, d
  <2>2. m * d + taken * d = (m + taken) * d
    BY <1>1
  <2>3. QED
    BY <2>1, <2>2
<1>8. t + taken * d <= u * ballots
  OBVIOUS
<1> DEFINE md == m * d
           me == m * eb
           td == taken * d
           sd == (s + 1) * d
           ub == u * ballots
<1>9. md \in Int /\ me \in Int /\ td \in Int /\ sd \in Int /\ ub \in Int
  <2> HIDE DEF m, d, eb
  <2>1. QED
    BY <1>1
<1>10. /\ md - me <= t /\ me < u /\ md + td = sd /\ t + td <= ub /\ sd >= ub + u
  BY <1>3, <1>4, <1>6, <1>7, <1>8
<1> HIDE DEF md, me, td, sd, ub
<1>11. QED
  BY <1>9, <1>10

\* What a seat takes from the ballots, in units of the count.
Dues == Unit * Quota(0)

\* So few ballots that what all transfers round away is less than one vote.
FewBallots == race.seats * race.seats * Len(tally) < Unit

Total == SumFunctionOnSet(weight, DOMAIN tally)

Backing(S) == SumFunctionOnSet(weight, Solid(S))

SeatedOf(S) == Cardinality(S \cap ToSet(elected))

LeftOf(S) == Cardinality(S \cap ToSet(remaining))

\* The voters for S fill k quotas.
Entitled(S, k) ==
  /\ S \in (SUBSET Cands(race)) \ {{}, Cands(race)}
  /\ k \in 1..Cardinality(S)
  /\ Cardinality(Solid(S)) >= k * Quota(0)

\* S has k candidates who are seated or left, and while one is left, the ballots
\* for S have paid for the seats of S only, and a unit each at most for every transfer.
Kept(S, k) ==
  IF Len(elected) < race.seats
  THEN /\ SeatedOf(S) + LeftOf(S) >= k
       /\ LeftOf(S) > 0 =>
            Backing(S) + SeatedOf(S) * (Dues + Len(tally)) >= Unit * Cardinality(Solid(S))
  ELSE SeatedOf(S) >= k

PlainStv == race.method = "STV" /\ PlainRanks

\* STV on plain ranks: the ballots are with their best, each seat has taken its
\* dues, and coalitions keep what they are entitled to.
DroopInv ==
  race.method = "STV" /\ PlainRanks =>
    /\ PilesBest /\ PilesLeft
    /\ \A i \in DOMAIN tally : weight[i] \in Nat
    /\ Len(elected) < race.seats => Total + Len(elected) * Dues <= Unit * Len(tally)
    /\ FewBallots => \A S, k : Entitled(S, k) => Kept(S, k)

\* As many quotas as there are seats, and one more, are more than there are ballots.
LEMMA QuotaIsDroop ==
  ASSUME TallyInv, race.method = "STV"
  PROVE  /\ Quota(0) \in Nat \ {0} /\ Quota(0) * (race.seats + 1) >= Len(tally) + 1
         /\ \A n : Quota(n) = Quota(0)
         /\ Dues \in Nat \ {0} /\ Dues = Unit * Quota(0)
         /\ Unit \in Nat \ {0} /\ race.seats \in Nat \ {0} /\ Len(tally) \in Nat
<1> DEFINE s == race.seats
           m == Len(tally)
           q == m \div (s + 1) + 1
<1>1. s \in Nat \ {0} /\ m \in Nat
  BY BallotsFinite DEF TallyInv, IsRace
<1>2. \A n : Quota(n) = q
  BY DEF Quota, Proportional
<1>3. m \div (s + 1) \in Nat /\ m < (m \div (s + 1)) * (s + 1) + (s + 1)
  <2> DEFINE d == s + 1
  <2>1. d \in Nat \ {0}
    BY <1>1
  <2> HIDE DEF d, m
  <2>2. m \div d \in Nat /\ m < (m \div d) * d + d
    <3>1. m \div d \in Nat /\ m = d * (m \div d) + (m % d) /\ m % d \in 0..(d - 1)
      BY <1>1, <2>1
    <3>2. d * (m \div d) = (m \div d) * d /\ d * (m \div d) \in Int
      BY <2>1, <3>1
    <3>3. QED
      BY <1>1, <2>1, <3>1, <3>2
  <2>3. QED
    BY <2>2 DEF d
<1>4. q \in Nat \ {0} /\ q * (s + 1) >= m + 1
  <2> DEFINE p == m \div (s + 1)
  <2>1. p \in Nat /\ m < p * (s + 1) + (s + 1) /\ q = p + 1
    BY <1>3
  <2> HIDE DEF p, q, m, s
  <2>2. q * (s + 1) = p * (s + 1) + (s + 1) /\ p * (s + 1) \in Int
    BY <1>1, <2>1
  <2>3. QED
    BY <1>1, <2>1, <2>2
<1>5. Unit \in Nat \ {0}
  BY TabulationAssumption
<1>6. Quota(0) = q
  BY <1>2
<1>7. Unit * Quota(0) \in Nat \ {0}
  <2> HIDE DEF q
  <2>1. QED
    BY <1>4, <1>5, <1>6
<1>8. QED
  BY <1>1, <1>2, <1>4, <1>5, <1>6, <1>7 DEF Dues

\* The counts of some candidates are the weight of the ballots that are with them.
LEMMA WeightOfPiles ==
  ASSUME TabulationInv, race.method = "STV", \A i \in DOMAIN tally : weight[i] \in Nat,
         NEW R \in SUBSET Cands(race)
  PROVE  /\ \A c \in R : Hare[c] \in Nat
         /\ SumFunctionOnSet(Hare, R)
              = SumFunctionOnSet(weight, {i \in DOMAIN tally : pile[i] \in R})
<1> DEFINE H == {i \in DOMAIN tally : pile[i] \in R}
           with(c) == {i \in H : pile[i] = c}
           by == [c \in R |-> SumFunctionOnSet(weight, with(c))]
<1>1. /\ DOMAIN pile = DOMAIN tally
      /\ \A B \in SUBSET DOMAIN tally : IsFiniteSet(B) /\ Cardinality(B) \in Nat
  BY BallotsFinite DEF TabulationInv, TallyInv, CountInv
<1>2. IsFiniteSet(R) /\ R \subseteq Cands(race)
  BY CandsFinite, FS_Subset DEF TabulationInv, TallyInv
<1>3. H \in SUBSET DOMAIN tally /\ \A i \in H : pile[i] \in R /\ weight[i] \in Int
  OBVIOUS
<1>4. IsFiniteSet(H)
  BY <1>1, <1>3
<1>5. ASSUME NEW c \in R PROVE Hare[c] = by[c] /\ Hare[c] \in Nat
  <2>1. with(c) = PileOf(c)
    BY <1>1, <1>5 DEF PileOf
  <2>2. Hare[c] = SumFunctionOnSet(weight, PileOf(c))
    BY <1>2, <1>5 DEF Hare
  <2>3. PileOf(c) \in SUBSET DOMAIN tally
    BY <1>1 DEF PileOf
  <2>4. IsFiniteSet(PileOf(c)) /\ \A i \in PileOf(c) : weight[i] \in Nat
    BY <1>1, <2>3
  <2>5. SumFunctionOnSet(weight, PileOf(c)) \in Nat
    BY <2>4, SumBounds
  <2>6. by[c] = SumFunctionOnSet(weight, with(c))
    BY <1>5
  <2> HIDE DEF with, by
  <2>7. QED
    BY <2>1, <2>2, <2>5, <2>6
<1>6. SumFunctionOnSet(by, R) = SumFunctionOnSet(weight, H)
  <2> HIDE DEF H
  <2>1. QED
    BY <1>2, <1>3, <1>4, SumByKey
<1> HIDE DEF by, H
<1>7. SumFunctionOnSet(Hare, R) = SumFunctionOnSet(by, R)
  <2>1. \A c \in R : Hare[c] \in Int /\ Hare[c] = by[c]
    BY <1>5
  <2>2. QED
    BY <1>2, <2>1, SameSums
<1>8. QED
  BY <1>5, <1>6, <1>7 DEF H

\* Handing on the ballots of one who is no longer left leaves none with him.
LEMMA LeftHandedOn ==
  ASSUME TallyInv, race.method \in {"IRV", "STV"}, PilesLeft,
         DOMAIN pile = DOMAIN tally, tally' = tally,
         NEW left, Lists(race, left), NEW l, ToSet(left) = ToSet(remaining) \ {l},
         remaining' = left, pile' = Distribute(left, PileOf(l), pile)
  PROVE  PilesLeft'
<1>1. \A i \in DOMAIN tally :
        IF i \in PileOf(l) THEN pile'[i] \in ToSet(left) \cup {0} ELSE pile'[i] = pile[i]
  <2> DEFINE bs == PileOf(l)
  <2>1. pile' = Distribute(left, bs, pile)
    OBVIOUS
  <2> HIDE DEF bs
  <2>2. \A i \in DOMAIN tally :
          IF i \in bs THEN Distribute(left, bs, pile)[i] \in ToSet(left) \cup {0}
          ELSE Distribute(left, bs, pile)[i] = pile[i]
    BY HandedOn
  <2>3. QED
    BY <2>1, <2>2 DEF bs
<1>2. ASSUME NEW i \in DOMAIN tally PROVE pile'[i] \in ToSet(left) \cup {0}
  <2>1. i \notin PileOf(l) => pile[i] # l
    BY DEF PileOf
  <2>2. pile[i] \in ToSet(remaining) \cup {0}
    BY DEF PilesLeft
  <2>3. QED
    BY <1>1, <2>1, <2>2
<1>3. QED
  BY <1>2 DEF PilesLeft

\* What the election of w costs: a quota at least in all, a quota and a unit for
\* each ballot at most for whoever pays.
LEMMA SeatCosts ==
  ASSUME TabulationInv, PlainStv, Counting, Reached, weight' = Surplus(Order[1]),
         \A i \in DOMAIN tally : weight[i] \in Nat, tally' = tally
  PROVE  /\ \A i \in DOMAIN tally :
              weight'[i] \in Nat /\ (pile[i] # Order[1] => weight'[i] = weight[i])
         /\ SumFunctionOnSet(weight', DOMAIN tally) + Dues <= Total
         /\ \A T \in SUBSET DOMAIN tally :
              SumFunctionOnSet(weight, T)
                <= SumFunctionOnSet(weight', T) + Dues + Len(tally)
<1> DEFINE w == Order[1]
           D == DOMAIN tally
           P == PileOf(w)
           h == Hare[w]
           q == Dues
<1>1. /\ IsFiniteSet(D) /\ DOMAIN pile = D /\ DOMAIN weight = D /\ Len(tally) \in Nat
      /\ \A B \in SUBSET D : IsFiniteSet(B) /\ Cardinality(B) \in Nat
                            /\ Cardinality(B) <= Len(tally)
  BY BallotsFinite, Places DEF TabulationInv, TallyInv, CountInv, PlainStv
<1>2. P \in SUBSET D /\ \A i \in D : i \in P <=> pile[i] = w
  BY <1>1 DEF PileOf
<1>3. w \in Cands(race) /\ h = SumFunctionOnSet(weight, P)
  <2>1. w \in Cands(race)
    BY RoundStarts, ShorterLists, ListFacts
  <2>2. QED
    BY <2>1 DEF Hare
<1>4. q \in Nat \ {0} /\ Quota(0) \in Nat /\ Unit \in Nat /\ q = Unit * Quota(0)
      /\ \A n : Quota(n) = Quota(0)
  BY QuotaIsDroop DEF TabulationInv, PlainStv
<1>5. h >= q
  BY <1>4 DEF Reached
<1>6. \A x \in D : weight'[x] = IF x \in P THEN (weight[x] * (h - q)) \div h ELSE weight[x]
  <2>1. Quota(0) * Unit = q
    BY <1>4
  <2>2. QED
    BY <1>1, <2>1 DEF Surplus
<1> HIDE DEF P, h, q, w, D
<1>7. /\ \A x \in D : weight[x] \in Nat
      /\ q \in Nat \ {0} /\ P \in SUBSET D /\ IsFiniteSet(D)
  BY <1>1, <1>2, <1>4 DEF D
<1>8. /\ \A x \in D : weight'[x] \in Nat
      /\ SumFunctionOnSet(weight', D) + q <= SumFunctionOnSet(weight, D)
      /\ \A T \in SUBSET D : SumFunctionOnSet(weight, T)
                               <= SumFunctionOnSet(weight', T) + q + Cardinality(P)
  BY <1>3, <1>5, <1>6, <1>7, SurplusSums
<1>9. ASSUME NEW T \in SUBSET D
      PROVE  SumFunctionOnSet(weight, T) <= SumFunctionOnSet(weight', T) + q + Len(tally)
  <2>1. IsFiniteSet(T) /\ Cardinality(P) \in Nat /\ Cardinality(P) <= Len(tally)
    BY <1>1, <1>2
  <2>2. (\A x \in T : weight[x] \in Int) /\ (\A x \in T : weight'[x] \in Int)
    BY <1>7, <1>8
  <2>3. SumFunctionOnSet(weight, T) \in Int /\ SumFunctionOnSet(weight', T) \in Int
    BY <2>1, <2>2, SumFolds
  <2>4. SumFunctionOnSet(weight, T) <= SumFunctionOnSet(weight', T) + q + Cardinality(P)
    BY <1>8
  <2>5. q \in Nat /\ Len(tally) \in Nat
    BY <1>1, <1>4
  <2> DEFINE before == SumFunctionOnSet(weight, T)
             after == SumFunctionOnSet(weight', T)
             n == Cardinality(P)
             k == Len(tally)
  <2>6. before \in Int /\ after \in Int /\ n \in Nat /\ n <= k /\ before <= after + q + n
    BY <2>1, <2>3, <2>4
  <2> HIDE DEF before, after, n, k
  <2>7. before <= after + q + k
    <3>1. k \in Nat
      BY <2>5 DEF k
    <3>2. QED
      BY <2>5, <2>6, <3>1
  <2>8. QED
    BY <2>7 DEF before, after, k
<1>10. QED
  BY <1>2, <1>6, <1>8, <1>9 DEF Total, D, q, w

\* The ballots for S, as numbers.
LEMMA SolidFacts ==
  ASSUME TallyInv, SeatInv, race.method \in {"IRV", "STV"}, NEW S \in SUBSET Cands(race)
  PROVE  /\ Solid(S) \in SUBSET DOMAIN tally /\ IsFiniteSet(Solid(S))
         /\ Cardinality(Solid(S)) \in Nat /\ IsFiniteSet(S)
         /\ IsFiniteSet(S \cap ToSet(elected)) /\ SeatedOf(S) \in Nat
         /\ IsFiniteSet(S \cap ToSet(remaining)) /\ LeftOf(S) \in Nat
         /\ LeftOf(S) > 0 <=> S \cap ToSet(remaining) # {}
<1>1. IsFiniteSet(S)
  BY CandsFinite, FS_Subset DEF TallyInv
<1>2. \A B : IsFiniteSet(S \cap B) /\ Cardinality(S \cap B) \in Nat
  <2>1. TAKE B
  <2>2. S \cap B \subseteq S
    OBVIOUS
  <2>3. IsFiniteSet(S \cap B)
    BY <1>1, <2>2, FS_Subset
  <2>4. QED
    BY <2>3, FS_CardinalityType
<1>3. Solid(S) \in SUBSET DOMAIN tally
  BY DEF Solid
<1>4. IsFiniteSet(Solid(S)) /\ Cardinality(Solid(S)) \in Nat
  BY <1>3, BallotsFinite DEF TallyInv
<1>5. LeftOf(S) > 0 <=> S \cap ToSet(remaining) # {}
  BY <1>2, FS_EmptySet DEF LeftOf
<1>6. QED
  BY <1>1, <1>2, <1>3, <1>4, <1>5 DEF SeatedOf, LeftOf

\* After an election S has as many candidates seated or left as before, and its
\* ballots have paid for its own seats only.
LEMMA CoalitionPays ==
  ASSUME TabulationInv, DroopInv, PlainStv, FewBallots, Elect,
         NEW S, NEW k, Entitled(S, k)
  PROVE  /\ SeatedOf(S)' \in Nat /\ SeatedOf(S)' <= Len(elected) + 1
         /\ LeftOf(S)' \in Nat /\ SeatedOf(S)' + LeftOf(S)' >= k
         /\ Backing(S)' \in Nat
         /\ LeftOf(S)' > 0 =>
              Backing(S)' + SeatedOf(S)' * (Dues + Len(tally)) >= Unit * Cardinality(Solid(S))
<1> DEFINE w == Order[1]
           m == Len(tally)
           seated == S \cap ToSet(elected)
           left == S \cap ToSet(remaining)
           seated2 == S \cap ToSet(elected')
           left2 == S \cap ToSet(remaining')
<1>1. /\ Counting /\ Reached /\ elected' = Append(elected, w) /\ Len(elected) < race.seats
      /\ remaining' = Tail(Order) /\ weight' = Surplus(w)
      /\ race' = race /\ tally' = tally
  BY DEF Elect, TransferSurplus, Proportional, PlainStv, Counting
<1>2. /\ TallyInv /\ SeatInv /\ race.method \in {"IRV", "STV"} /\ S \in SUBSET Cands(race)
      /\ S # Cands(race) /\ k \in Nat
  BY DEF TabulationInv, PlainStv, Entitled
<1>3. /\ PilesBest /\ PilesLeft /\ \A i \in DOMAIN tally : weight[i] \in Nat
      /\ Kept(S, k)
  BY DEF DroopInv, PlainStv
<1>4. /\ SeatedOf(S) + LeftOf(S) >= k
      /\ LeftOf(S) > 0 =>
           Backing(S) + SeatedOf(S) * (Dues + m) >= Unit * Cardinality(Solid(S))
  BY <1>1, <1>3 DEF Kept
<1>5. /\ ToSet(elected') = ToSet(elected) \cup {w} /\ w \in ToSet(remaining)
      /\ w \notin ToSet(elected) /\ ToSet(remaining') = ToSet(remaining) \ {w}
      /\ elected' \in Seq(Cands(race)) /\ Distinct(elected') /\ Len(elected') = Len(elected) + 1
  <2>1. Lists(race, Order) /\ Order # <<>> /\ ToSet(Order) = ToSet(remaining)
    BY <1>1, RoundStarts
  <2>2. ToSet(remaining') = ToSet(remaining) \ {w}
    BY <1>1, <2>1, ShorterLists
  <2>3. QED
    BY <1>1, <2>2, SeatTaken
<1>6. /\ IsFiniteSet(seated) /\ SeatedOf(S) = Cardinality(seated) /\ SeatedOf(S) \in Nat
      /\ IsFiniteSet(left) /\ LeftOf(S) = Cardinality(left) /\ LeftOf(S) \in Nat
      /\ LeftOf(S) > 0 <=> left # {}
  BY <1>2, SolidFacts DEF SeatedOf, LeftOf
<1>7. SeatedOf(S)' = Cardinality(seated2) /\ LeftOf(S)' = Cardinality(left2)
  BY DEF SeatedOf, LeftOf
<1>8. SeatedOf(S)' \in Nat /\ SeatedOf(S)' <= Len(elected) + 1
  <2>1. IsFiniteSet(ToSet(elected')) /\ Cardinality(ToSet(elected')) = Len(elected) + 1
    BY <1>5, ListLength
  <2>2. seated2 \subseteq ToSet(elected')
    OBVIOUS
  <2> HIDE DEF seated2
  <2>3. IsFiniteSet(seated2) /\ Cardinality(seated2) <= Cardinality(ToSet(elected'))
    BY <2>1, <2>2, FS_Subset
  <2>4. QED
    BY <1>7, <2>1, <2>3, FS_CardinalityType
<1>9. Solid(S)' = Solid(S)
  BY <1>1 DEF Solid
<1>10. Backing(S) \in Nat /\ Backing(S)' \in Nat /\ Backing(S) <= Backing(S)' + Dues + m
       /\ (w \notin S /\ left # {} => Backing(S)' = Backing(S))
  <2> DEFINE B == Solid(S)
  <2>1. B \in SUBSET DOMAIN tally /\ IsFiniteSet(B)
    BY <1>2, SolidFacts
  <2>2. \A i \in DOMAIN tally :
          weight'[i] \in Nat /\ (pile[i] # w => weight'[i] = weight[i])
    BY <1>1, <1>3, SeatCosts
  <2>3. SumFunctionOnSet(weight, B) <= SumFunctionOnSet(weight', B) + Dues + m
    BY <1>1, <1>3, <2>1, SeatCosts
  <2>4. ASSUME w \notin S, left # {}
        PROVE  SumFunctionOnSet(weight', B) = SumFunctionOnSet(weight, B)
    <3>1. \A i \in B : pile[i] \in S
      BY <1>2, <1>3, <2>4, SolidStays
    <3>2. \A i \in B : weight'[i] \in Int /\ weight'[i] = weight[i]
      BY <2>1, <2>2, <2>4, <3>1
    <3> HIDE DEF B
    <3>3. QED
      BY <2>1, <3>2, SameSums
  <2>5. Backing(S) = SumFunctionOnSet(weight, B) /\ Backing(S)' = SumFunctionOnSet(weight', B)
    BY <1>9 DEF Backing
  <2>6. (\A i \in B : weight[i] \in Nat) /\ (\A i \in B : weight'[i] \in Nat)
    BY <1>3, <2>1, <2>2
  <2> HIDE DEF B, left
  <2>7. SumFunctionOnSet(weight, B) \in Nat /\ SumFunctionOnSet(weight', B) \in Nat
    BY <2>1, <2>6, SumBounds
  <2>8. QED
    BY <2>3, <2>4, <2>5, <2>7
<1>11. Dues \in Nat /\ m \in Nat /\ Unit * Cardinality(Solid(S)) \in Nat
  <2>1. Unit \in Nat /\ Cardinality(Solid(S)) \in Nat
    BY <1>2, SolidFacts, TabulationAssumption
  <2>2. QED
    BY <1>2, <2>1, QuotaIsDroop DEF PlainStv
<1> DEFINE e == SeatedOf(S)
           r == LeftOf(S)
           e2 == SeatedOf(S)'
           r2 == LeftOf(S)'
           b == Backing(S)
           b2 == Backing(S)'
           d == Dues + m
           v == Unit * Cardinality(Solid(S))
<1>12. /\ r2 \in Nat /\ e2 + r2 >= k /\ (r2 > 0 => b2 + e2 * d >= v)
  <2>1. CASE w \in S
    <3>1. seated2 = seated \cup {w} /\ w \notin seated /\ left2 = left \ {w} /\ w \in left
      BY <1>5, <2>1
    <3> HIDE DEF seated, seated2, left, left2
    <3>2. e2 = e + 1
      BY <1>6, <1>7, <3>1, FS_AddElement
    <3>3. r2 = r - 1 /\ r > 0
      BY <1>6, <1>7, <3>1, FS_RemoveElement
    <3>4. b + e * d >= v /\ e + r >= k /\ b <= b2 + d /\ b \in Nat /\ b2 \in Nat
      BY <1>4, <1>10, <1>11, <3>3
    <3>5. d \in Nat /\ e \in Nat /\ r \in Nat /\ v \in Nat
      BY <1>6, <1>11
    <3> HIDE DEF e, r, e2, r2, b, b2, d, v
    <3>6. e2 * d = e * d + d /\ e * d \in Int
      BY <3>2, <3>5
    <3>7. QED
      BY <1>2, <3>2, <3>3, <3>4, <3>5, <3>6
  <2>2. CASE w \notin S
    <3>1. seated2 = seated /\ left2 = left
      BY <1>5, <2>2
    <3> HIDE DEF seated, seated2, left, left2
    <3>2. e2 = e /\ r2 = r
      BY <1>6, <1>7, <3>1
    <3>3. r > 0 => b2 = b
      BY <1>6, <1>10, <2>2
    <3>4. QED
      BY <1>4, <1>6, <3>2, <3>3
  <2>3. QED
    BY <2>1, <2>2
<1>13. QED
  BY <1>8, <1>10, <1>12

\* Elect keeps the invariant; with the last seat, every coalition has its seats.
LEMMA DroopElect ==
  ASSUME TabulationInv, DroopInv, PlainStv, Elect
  PROVE  DroopInv'
<1> DEFINE w == Order[1]
           m == Len(tally)
           s == race.seats
           n == Len(elected)
           t == SumFunctionOnSet(weight', DOMAIN tally)
<1>1. /\ Counting /\ Reached /\ elected' = Append(elected, w) /\ n < s
      /\ remaining' = Tail(Order) /\ weight' = Surplus(w)
      /\ pile' = Distribute(remaining', PileOf(w), pile)
      /\ race' = race /\ tally' = tally /\ over' = over
  BY DEF Elect, TransferSurplus, Proportional, PlainStv, Counting
<1>2. TallyInv /\ SeatInv /\ race.method \in {"IRV", "STV"} /\ DOMAIN pile = DOMAIN tally
  BY DEF TabulationInv, PlainStv, CountInv
<1>3. /\ PilesBest /\ PilesLeft /\ \A i \in DOMAIN tally : weight[i] \in Nat
      /\ Total + n * Dues <= Unit * m
  BY <1>1 DEF DroopInv, PlainStv
<1>4. PilesBest' /\ PilesLeft'
  <2>1. Lists(race, Order) /\ Order # <<>> /\ ToSet(Order) = ToSet(remaining)
    BY <1>1, RoundStarts
  <2> DEFINE left == Tail(Order)
  <2>2. Lists(race, left) /\ ToSet(left) = ToSet(remaining) \ {w}
    BY <2>1, ShorterLists
  <2>3. remaining' = left /\ pile' = Distribute(left, PileOf(w), pile)
    BY <1>1
  <2> HIDE DEF w, left
  <2>4. QED
    BY <1>1, <1>2, <1>3, <2>2, <2>3, BestHandedOn, LeftHandedOn DEF PlainStv
<1>5. \A i \in DOMAIN tally' : weight'[i] \in Nat
  BY <1>1, <1>3, SeatCosts
<1>6. /\ t + Dues <= Total /\ t \in Nat /\ Total \in Nat
      /\ \A T \in SUBSET DOMAIN tally : SumFunctionOnSet(weight', T) \in Nat
                                      /\ SumFunctionOnSet(weight', T) <= t
  <2>1. t + Dues <= Total
    BY <1>1, <1>3, SeatCosts
  <2>2. IsFiniteSet(DOMAIN tally)
    BY <1>2, BallotsFinite DEF TallyInv
  <2>3. \A i \in DOMAIN tally : weight'[i] \in Nat
    BY <1>1, <1>5
  <2>4. \A T \in SUBSET DOMAIN tally :
          /\ SumFunctionOnSet(weight', T) \in Nat /\ SumFunctionOnSet(weight', T) <= t
          /\ t \in Nat
    BY <2>2, <2>3, SumOfFewer
  <2>5. Total \in Nat
    BY <1>3, <2>2, SumBounds DEF Total
  <2>6. QED
    BY <2>1, <2>4, <2>5
<1>7. /\ Dues \in Nat /\ Dues = Unit * Quota(0) /\ Quota(0) \in Nat /\ Unit \in Nat
      /\ Quota(0) * (s + 1) >= m + 1 /\ m \in Nat /\ s \in Nat \ {0}
  BY <1>2, QuotaIsDroop DEF PlainStv
<1>8. n \in Nat /\ Len(elected') = n + 1
  BY <1>1, SeatTaken
<1>9. t + (n + 1) * Dues <= Unit * m
  <2> DEFINE d == Dues
             um == Unit * m
             all == Total
  <2>1. t + d <= all /\ all + n * d <= um /\ d \in Nat /\ um \in Nat /\ all \in Nat /\ t \in Nat
    BY <1>3, <1>6, <1>7
  <2> HIDE DEF d, um, all, t, n
  <2>2. (n + 1) * d = n * d + d /\ n * d \in Nat
    BY <1>8, <2>1
  <2>3. t + (n + 1) * d <= um
    BY <2>1, <2>2
  <2>4. QED
    BY <2>3 DEF d, um
<1>10. /\ Quota(0)' = Quota(0) /\ Dues' = Dues /\ (FewBallots' <=> FewBallots)
       /\ Total' = t /\ \A S : Solid(S)' = Solid(S)
       /\ \A S, k : Entitled(S, k)' <=> Entitled(S, k)
  <2>1. Quota(0)' = Quota(0)
    BY <1>1 DEF Quota, Proportional
  <2>2. \A S : Solid(S)' = Solid(S)
    BY <1>1 DEF Solid
  <2>3. QED
    BY <1>1, <2>1, <2>2 DEF Dues, FewBallots, Total, Entitled
<1>11. ASSUME FewBallots, NEW S, NEW k, Entitled(S, k) PROVE Kept(S, k)'
  <2>1. /\ SeatedOf(S)' \in Nat /\ SeatedOf(S)' <= n + 1
        /\ LeftOf(S)' \in Nat /\ SeatedOf(S)' + LeftOf(S)' >= k
        /\ Backing(S)' \in Nat
        /\ LeftOf(S)' > 0 =>
             Backing(S)' + SeatedOf(S)' * (Dues + m) >= Unit * Cardinality(Solid(S))
    BY <1>11, CoalitionPays
  <2>2. /\ k \in Nat /\ S \in SUBSET Cands(race) /\ Cardinality(Solid(S)) >= k * Quota(0)
        /\ Cardinality(Solid(S)) \in Nat /\ Solid(S) \in SUBSET DOMAIN tally
    <3>1. k \in Nat /\ S \in SUBSET Cands(race) /\ Cardinality(Solid(S)) >= k * Quota(0)
      BY <1>11 DEF Entitled
    <3>2. QED
      BY <1>2, <3>1, SolidFacts
  <2>3. CASE n + 1 < s
    BY <1>1, <1>8, <1>10, <2>1, <2>3 DEF Kept
  <2>4. CASE ~(n + 1 < s)
    <3> DEFINE e == SeatedOf(S)'
               b == Backing(S)'
               solid == Cardinality(Solid(S))
               q == Quota(0)
    <3>1. s = n + 1
      BY <1>1, <1>7, <1>8, <2>4
    <3>2. e >= k
      <4>1. SUFFICES ASSUME e < k PROVE FALSE
        BY <2>1, <2>2
      <4>2. b + e * (Unit * q + m) >= Unit * solid
        <5>1. LeftOf(S)' > 0
          BY <2>1, <2>2, <4>1
        <5>2. QED
          BY <1>7, <2>1, <5>1
      <4>3. b \in Nat /\ b <= t
        <5>1. b = SumFunctionOnSet(weight', Solid(S))
          BY <1>10 DEF Backing
        <5>2. QED
          BY <1>6, <2>2, <5>1
      <4>4. t + s * (Unit * q) <= Unit * m
        BY <1>7, <1>9, <3>1
      <4>5. s * s * m < Unit
        BY <1>11 DEF FewBallots
      <4>6. /\ s \in Nat \ {0} /\ m \in Nat /\ Unit \in Nat /\ q \in Nat /\ q * (s + 1) >= m + 1
            /\ e \in Nat /\ e <= s /\ k \in Nat /\ solid \in Nat /\ solid >= k * q /\ t \in Nat
        BY <1>6, <1>7, <2>1, <2>2, <3>1
      <4> HIDE DEF s, m, q, e, solid, b, t
      <4>7. QED
        BY <4>1, <4>2, <4>3, <4>4, <4>5, <4>6, NoQuotaIsLeft
    <3>3. QED
      BY <1>1, <1>8, <2>4, <3>2 DEF Kept
  <2>5. QED
    BY <2>3, <2>4
<1>12. Total' + Len(elected') * Dues' <= Unit * Len(tally')
  BY <1>1, <1>8, <1>9, <1>10
<1>13. FewBallots' => \A S, k : Entitled(S, k)' => Kept(S, k)'
  BY <1>10, <1>11
<1>14. QED
  BY <1>4, <1>5, <1>12, <1>13 DEF DroopInv

\* Fill seats everybody who is left, so a coalition loses nobody.
LEMMA DroopFill ==
  ASSUME TabulationInv, DroopInv, PlainStv, Fill
  PROVE  DroopInv'
<1> DEFINE n == Len(elected)
           o == Len(Order)
<1>1. /\ Counting /\ LastSeats /\ elected' = elected \o Order /\ n < race.seats
      /\ remaining' = remaining /\ pile' = pile /\ weight' = weight
      /\ race' = race /\ tally' = tally /\ over' = over
  BY DEF Fill, Counting
<1>2. /\ TallyInv /\ SeatInv /\ race.method \in {"IRV", "STV"}
      /\ elected \in Seq(Cands(race)) /\ Order \in Seq(Cands(race))
      /\ ToSet(Order) = ToSet(remaining) /\ o = Len(remaining)
      /\ ToSet(elected) \cap ToSet(remaining) = {}
      /\ n + Len(remaining) >= race.seats /\ race.seats \in Nat
  BY <1>1, RoundStarts DEF TabulationInv, TallyInv, PlainStv, SeatInv, CountInv, StvInv, Lists, IsRace
<1>3. ToSet(elected') = ToSet(elected) \cup ToSet(remaining) /\ Len(elected') >= race.seats
      /\ Len(elected') \in Nat
  <2> DEFINE a == elected
             b == Order
             C == Cands(race)
  <2>1. a \in Seq(C) /\ b \in Seq(C) /\ elected' = a \o b
    BY <1>1, <1>2
  <2>2. /\ Len(a \o b) = Len(a) + Len(b) /\ ToSet(a \o b) = ToSet(a) \cup ToSet(b)
        /\ Len(a) \in Nat /\ Len(b) \in Nat
    <3> HIDE DEF a, b, C
    <3>1. /\ Len(a) \in Nat /\ Len(b) \in Nat /\ DOMAIN a = 1..Len(a) /\ DOMAIN b = 1..Len(b)
          /\ Len(a \o b) = Len(a) + Len(b) /\ DOMAIN (a \o b) = 1..(Len(a) + Len(b))
          /\ \A i \in 1..(Len(a) + Len(b)) :
               (a \o b)[i] = IF i <= Len(a) THEN a[i] ELSE b[i - Len(a)]
      BY <2>1
    <3> DEFINE l == Len(a)
               m == Len(b)
               c == a \o b
    <3>2. /\ \A i \in 1..l : i \in 1..(l + m) /\ c[i] = a[i]
          /\ \A i \in 1..m : l + i \in 1..(l + m) /\ c[l + i] = b[i]
          /\ \A i \in 1..(l + m) : i \in 1..l \/ (i - l \in 1..m /\ c[i] = b[i - l])
          /\ DOMAIN c = 1..(l + m) /\ DOMAIN a = 1..l /\ DOMAIN b = 1..m
      BY <3>1
    <3> HIDE DEF l, m, c
    <3>3. ToSet(c) = ToSet(a) \cup ToSet(b)
      <4>1. ToSet(c) \subseteq ToSet(a) \cup ToSet(b)
        BY <3>2 DEF ToSet
      <4>2. ToSet(a) \subseteq ToSet(c) /\ ToSet(b) \subseteq ToSet(c)
        BY <3>2 DEF ToSet
      <4>3. QED
        BY <4>1, <4>2
    <3>4. QED
      BY <3>1, <3>3 DEF c
  <2>3. QED
    BY <1>2, <2>1, <2>2
<1>4. ~(Len(elected') < race.seats)
  BY <1>2, <1>3
<1>5. /\ PilesBest /\ PilesLeft /\ \A i \in DOMAIN tally : weight[i] \in Nat
  BY DEF DroopInv, PlainStv
<1>6. /\ PilesBest' /\ PilesLeft' /\ \A i \in DOMAIN tally' : weight'[i] \in Nat
  BY <1>1, <1>5 DEF PilesBest, PilesLeft
<1>7. /\ Quota(0)' = Quota(0) /\ (FewBallots' <=> FewBallots)
      /\ \A S, k : Entitled(S, k)' <=> Entitled(S, k)
  <2>1. Quota(0)' = Quota(0)
    BY <1>1 DEF Quota, Proportional
  <2>2. \A S : Solid(S)' = Solid(S)
    BY <1>1 DEF Solid
  <2>3. QED
    BY <1>1, <2>1, <2>2 DEF FewBallots, Entitled
<1>8. ASSUME FewBallots, NEW S, NEW k, Entitled(S, k) PROVE Kept(S, k)'
  <2>1. Kept(S, k) /\ S \in SUBSET Cands(race) /\ k \in Nat
    BY <1>8 DEF DroopInv, PlainStv, Entitled
  <2>2. SeatedOf(S) + LeftOf(S) >= k
    BY <1>1, <2>1 DEF Kept
  <2> DEFINE A == S \cap ToSet(elected)
             B == S \cap ToSet(remaining)
  <2>3. SeatedOf(S)' = Cardinality(A \cup B)
    <3>1. S \cap ToSet(elected') = A \cup B
      BY <1>3
    <3>2. QED
      BY <3>1 DEF SeatedOf
  <2>4. /\ IsFiniteSet(A) /\ IsFiniteSet(B) /\ A \cap B = {}
        /\ SeatedOf(S) = Cardinality(A) /\ LeftOf(S) = Cardinality(B)
        /\ SeatedOf(S) \in Nat /\ LeftOf(S) \in Nat
    BY <1>2, <2>1, SolidFacts DEF SeatedOf, LeftOf
  <2> HIDE DEF A, B
  <2>5. Cardinality(A \cup B) = Cardinality(A) + Cardinality(B) - Cardinality({})
    BY <2>4, FS_Union
  <2>6. SeatedOf(S)' >= k
    BY <2>2, <2>3, <2>4, <2>5, FS_EmptySet
  <2>7. QED
    BY <1>1, <1>4, <2>6 DEF Kept
<1>9. QED
  BY <1>1, <1>4, <1>6, <1>7, <1>8 DEF DroopInv

\* What the candidates of S who are left have, and what all who are left have.
LEMMA CountsWithin ==
  ASSUME TabulationInv, PlainStv, Counting, ~Reached, PilesBest, PilesLeft,
         \A i \in DOMAIN tally : weight[i] \in Nat,
         NEW S \in SUBSET Cands(race), S # Cands(race), Last(Order) \in S
  PROVE  LET low == Hare[Last(Order)]
         IN /\ low \in Nat /\ Backing(S) \in Nat /\ Total \in Nat
            /\ Backing(S) <= (LeftOf(S) - 1) * Dues + low
            /\ Len(remaining) * low <= Total
<1> DEFINE l == Last(Order)
           low == Hare[l]
           R == ToSet(remaining)
           T == S \cap R
           held(X) == {i \in DOMAIN tally : pile[i] \in X}
<1>1. /\ Lists(race, Order) /\ Order # <<>> /\ ToSet(Order) = R
      /\ IsRace(race) /\ Lists(race, remaining) /\ TallyInv /\ SeatInv
      /\ race.method \in {"IRV", "STV"}
  BY RoundStarts DEF TabulationInv, TallyInv, SeatInv, PlainStv
<1>2. l \in R /\ l \in T /\ R \in SUBSET Cands(race) /\ T \in SUBSET Cands(race)
  BY <1>1, ShorterLists, ListFacts
<1>3. /\ IsFiniteSet(R) /\ Cardinality(R) = Len(remaining) /\ Len(remaining) \in Nat
      /\ IsFiniteSet(T) /\ Cardinality(T) = LeftOf(S) /\ LeftOf(S) \in Nat
  <2>1. IsFiniteSet(R) /\ Cardinality(R) = Len(remaining)
    BY <1>1, ListLength DEF Lists
  <2>2. QED
    BY <1>1, <2>1, SolidFacts, FS_CardinalityType DEF LeftOf
<1>4. Dues \in Nat /\ \A c \in R : Hare[c] \in Nat /\ Hare[c] <= Dues /\ Hare[c] >= low
  <2>1. Dues \in Nat /\ \A n : Dues = Unit * Quota(n)
    BY <1>1, QuotaIsDroop DEF PlainStv
  <2>2. Hare[Order[1]] \in Int /\ ~(Hare[Order[1]] >= Dues)
    BY <1>2, <2>1, OrderEnds DEF Reached
  <2>3. \A c \in R : Hare[c] \in Nat
    BY <1>2, WeightOfPiles DEF PlainStv
  <2>4. \A c \in R : Hare[Order[1]] >= Hare[c] /\ Hare[c] >= low
    BY OrderEnds
  <2>5. QED
    BY <2>1, <2>2, <2>3, <2>4
<1>5. /\ SumFunctionOnSet(Hare, R) = SumFunctionOnSet(weight, held(R))
      /\ SumFunctionOnSet(Hare, T) = SumFunctionOnSet(weight, held(T))
  BY <1>2, WeightOfPiles DEF PlainStv
<1> HIDE DEF R, T, l, low
<1>6. low \in Nat
  BY <1>2, <1>4 DEF low
<1>7. /\ IsFiniteSet(DOMAIN tally)
      /\ held(R) \in SUBSET DOMAIN tally /\ held(T) \in SUBSET DOMAIN tally
      /\ Solid(S) \in SUBSET held(T)
  <2>1. IsFiniteSet(DOMAIN tally)
    BY <1>1, BallotsFinite DEF TallyInv
  <2>2. \A i \in Solid(S) : i \in DOMAIN tally /\ pile[i] \in T
    <3>1. S \cap ToSet(remaining) # {}
      BY <1>2 DEF T, R
    <3>2. QED
      BY <1>1, <3>1, SolidStays DEF T, R
  <2>3. QED
    BY <2>1, <2>2
<1>8. /\ Backing(S) \in Nat /\ Total \in Nat
      /\ Backing(S) <= SumFunctionOnSet(Hare, T) /\ SumFunctionOnSet(Hare, R) <= Total
  <2>1. IsFiniteSet(held(T)) /\ (\A i \in held(T) : weight[i] \in Nat)
    BY <1>7, FS_Subset
  <2> DEFINE A == held(T)
             B == held(R)
  <2>2. A \in SUBSET DOMAIN tally /\ B \in SUBSET DOMAIN tally /\ IsFiniteSet(A)
        /\ Solid(S) \in SUBSET A /\ \A i \in A : weight[i] \in Nat
    BY <1>7, <2>1
  <2>3. SumFunctionOnSet(weight, B) <= Total /\ Total \in Nat
    <3> HIDE DEF A, B
    <3>1. QED
      BY <1>7, <2>2, SumOfFewer DEF Total
  <2>4. Backing(S) <= SumFunctionOnSet(weight, A) /\ Backing(S) \in Nat
    <3> HIDE DEF A, B
    <3>1. QED
      BY <2>2, SumOfFewer DEF Backing
  <2>5. QED
    BY <1>5, <2>3, <2>4
<1>9. Len(remaining) * low <= SumFunctionOnSet(Hare, R)
  <2>1. (\A c \in R : Hare[c] \in Int) /\ (\A c \in R : Hare[c] >= low) /\ low \in Int
    BY <1>4, <1>6
  <2>2. SumFunctionOnSet(Hare, R) >= low * Cardinality(R)
    BY <1>3, <2>1, SumWithin
  <2>3. low * Cardinality(R) = Len(remaining) * low
    BY <1>3, <1>6
  <2>4. QED
    BY <2>2, <2>3
<1>10. SumFunctionOnSet(Hare, T) <= (LeftOf(S) - 1) * Dues + low
  <2> DEFINE U == T \ {l}
  <2>1. IsFiniteSet(U) /\ Cardinality(U) = LeftOf(S) - 1 /\ U \subseteq R
    BY <1>2, <1>3, FS_RemoveElement DEF T
  <2>2. T \subseteq R
    BY DEF T
  <2>3. SumFunctionOnSet(Hare, T) = low + SumFunctionOnSet(Hare, U)
    <3>1. \A c \in T : Hare[c] \in Int
      BY <1>4, <2>2
    <3>2. QED
      BY <1>2, <1>3, <3>1, SumWithout DEF low
  <2> HIDE DEF U
  <2>4. (\A c \in U : Hare[c] \in Int) /\ (\A c \in U : Hare[c] <= Dues) /\ Dues \in Int
    BY <1>4, <2>1
  <2>5. SumFunctionOnSet(Hare, U) <= Dues * Cardinality(U)
    BY <2>1, <2>4, SumWithin
  <2>6. SumFunctionOnSet(Hare, U) \in Int
    BY <2>1, <2>4, SumFolds
  <2>7. Dues * Cardinality(U) = (LeftOf(S) - 1) * Dues /\ (LeftOf(S) - 1) * Dues \in Int
    BY <1>3, <1>4, <2>1
  <2>8. QED
    BY <1>6, <2>3, <2>5, <2>6, <2>7
<1>11. SumFunctionOnSet(Hare, T) \in Int /\ SumFunctionOnSet(Hare, R) \in Int
  <2>1. (\A c \in R : Hare[c] \in Int) /\ (\A c \in T : Hare[c] \in Int)
    BY <1>4 DEF T
  <2>2. QED
    BY <1>3, <2>1, SumFolds
<1>12. Len(remaining) * low \in Int /\ (LeftOf(S) - 1) * Dues + low \in Int
  BY <1>3, <1>4, <1>6
<1> HIDE DEF held
<1>13. Backing(S) <= (LeftOf(S) - 1) * Dues + low
  BY <1>8, <1>10, <1>11, <1>12
<1>14. Len(remaining) * low <= Total
  BY <1>8, <1>9, <1>11, <1>12
<1>15. QED
  BY <1>6, <1>8, <1>13, <1>14 DEF low, l

\* An elimination takes from no coalition a candidate it needs.
LEMMA DroopEliminate ==
  ASSUME TabulationInv, DroopInv, PlainStv, Eliminate
  PROVE  DroopInv'
<1> DEFINE l == Last(Order)
           n == Len(elected)
           left == Front(Order)
<1>1. /\ Counting /\ ~Reached /\ ~LastSeats /\ elected' = elected /\ n < race.seats
      /\ remaining' = left /\ pile' = Distribute(left, PileOf(l), pile) /\ weight' = weight
      /\ race' = race /\ tally' = tally /\ over' = over
  BY DEF Eliminate, Counting
<1>2. /\ TallyInv /\ SeatInv /\ race.method \in {"IRV", "STV"} /\ DOMAIN pile = DOMAIN tally
      /\ elected \in Seq(Cands(race)) /\ Distinct(elected)
  BY DEF TabulationInv, PlainStv, SeatInv, CountInv
<1>3. /\ PilesBest /\ PilesLeft /\ \A i \in DOMAIN tally : weight[i] \in Nat
      /\ Total + n * Dues <= Unit * Len(tally)
  BY <1>1 DEF DroopInv, PlainStv
<1>4. Lists(race, left) /\ ToSet(left) = ToSet(remaining) \ {l}
  BY <1>1, RoundStarts, ShorterLists
<1>5. PilesBest' /\ PilesLeft'
  <2> HIDE DEF l, left
  <2>1. QED
    BY <1>1, <1>2, <1>3, <1>4, BestHandedOn, LeftHandedOn DEF PlainStv
<1>6. /\ Quota(0)' = Quota(0) /\ Dues' = Dues /\ (FewBallots' <=> FewBallots)
      /\ Total' = Total /\ \A S : Solid(S)' = Solid(S)
      /\ \A S : Backing(S)' = Backing(S) /\ SeatedOf(S)' = SeatedOf(S)
      /\ \A S, k : Entitled(S, k)' <=> Entitled(S, k)
  <2>1. Quota(0)' = Quota(0)
    BY <1>1 DEF Quota, Proportional
  <2>2. \A S : Solid(S)' = Solid(S)
    BY <1>1 DEF Solid
  <2>3. QED
    BY <1>1, <2>1, <2>2 DEF Dues, FewBallots, Total, Entitled, Backing, SeatedOf
<1>7. ASSUME FewBallots, NEW S, NEW k, Entitled(S, k) PROVE Kept(S, k)'
  <2> DEFINE e == SeatedOf(S)
             r == LeftOf(S)
             r2 == LeftOf(S)'
             T == S \cap ToSet(remaining)
             m == Len(tally)
             s == race.seats
             solid == Cardinality(Solid(S))
             b == Backing(S)
             q == Quota(0)
             o == Len(remaining)
             low == Hare[l]
  <2>1. /\ Kept(S, k) /\ S \in SUBSET Cands(race) /\ S # Cands(race) /\ k \in Nat
        /\ solid >= k * q
    BY <1>7 DEF DroopInv, PlainStv, Entitled
  <2>2. e + r >= k /\ (r > 0 => b + e * (Dues + m) >= Unit * solid)
    BY <1>1, <2>1 DEF Kept
  <2>3. /\ IsFiniteSet(T) /\ r = Cardinality(T) /\ r \in Nat /\ e \in Nat /\ solid \in Nat
    BY <1>2, <2>1, SolidFacts DEF LeftOf
  <2>4. r2 = Cardinality(T \ {l})
    <3>1. S \cap ToSet(remaining') = T \ {l}
      BY <1>1, <1>4
    <3>2. QED
      BY <3>1 DEF LeftOf
  <2>5. CASE l \notin S
    <3>1. T \ {l} = T
      BY <2>5
    <3>2. r2 = r
      BY <2>3, <2>4, <3>1
    <3>3. QED
      BY <1>1, <1>6, <2>2, <3>2 DEF Kept
  <2>6. CASE l \in S
    <3>1. l \in T
      BY <1>1, <2>6, RoundStarts, ShorterLists
    <3>2. r2 = r - 1 /\ r # 0
      <4> HIDE DEF T
      <4>1. Cardinality(T \ {l}) = Cardinality(T) - 1 /\ T # {}
        BY <2>3, <3>1, FS_RemoveElement
      <4>2. Cardinality(T) # 0
        BY <2>3, <4>1, FS_EmptySet
      <4>3. QED
        BY <2>3, <2>4, <4>1, <4>2
    <3>3. /\ low \in Nat /\ b \in Nat /\ Total \in Nat
          /\ b <= (r - 1) * Dues + low /\ o * low <= Total
      BY <1>1, <1>3, <2>1, <2>6, CountsWithin
    <3>4. /\ Dues = Unit * q /\ q \in Nat /\ q * (s + 1) >= m + 1 /\ Unit \in Nat
          /\ s \in Nat \ {0} /\ m \in Nat
      BY <1>2, QuotaIsDroop DEF PlainStv
    <3>5. e <= n /\ n \in Nat
      <4>1. IsFiniteSet(ToSet(elected)) /\ Cardinality(ToSet(elected)) = n /\ n \in Nat
        BY <1>2, ListLength
      <4>2. S \cap ToSet(elected) \subseteq ToSet(elected)
        OBVIOUS
      <4>3. e = Cardinality(S \cap ToSet(elected))
        BY DEF SeatedOf
      <4> HIDE DEF e
      <4>4. QED
        BY <4>1, <4>2, <4>3, FS_Subset
    <3>6. o \in Nat /\ o > s - n
      <4>1. o \in Nat
        BY <1>2, ListFacts DEF TallyInv, SeatInv
      <4>2. ~(o <= s - n)
        BY <1>1 DEF LastSeats, Proportional, PlainStv
      <4>3. QED
        BY <3>4, <3>5, <4>1, <4>2
    <3>7. e + r2 >= k
      <4>1. SUFFICES ASSUME e + r <= k PROVE FALSE
        BY <2>1, <2>2, <2>3, <3>2
      <4>2. /\ b + e * (Unit * q + m) >= Unit * solid
            /\ b <= (r - 1) * (Unit * q) + low
            /\ Total + n * (Unit * q) <= Unit * m
        BY <1>3, <2>2, <2>3, <3>2, <3>3, <3>4
      <4>3. s * s * m < Unit
        BY <1>7 DEF FewBallots
      <4>4. r \in Nat \ {0} /\ n < s
        BY <1>1, <2>3, <3>2
      <4> HIDE DEF s, m, q, e, n, r, solid, b, low, o
      <4>5. QED
        BY <2>1, <2>3, <3>3, <3>4, <3>5, <3>6, <4>1, <4>2, <4>3, <4>4, NoneToSpare
    <3>8. r2 > 0 => b + e * (Dues + m) >= Unit * solid
      BY <2>2, <2>3, <3>2
    <3>9. QED
      BY <1>1, <1>6, <3>7, <3>8 DEF Kept
  <2>7. QED
    BY <2>5, <2>6
<1>8. \A i \in DOMAIN tally' : weight'[i] \in Nat
  BY <1>1, <1>3
<1>9. Total' + Len(elected') * Dues' <= Unit * Len(tally')
  BY <1>1, <1>3, <1>6
<1>10. FewBallots' => \A S, k : Entitled(S, k)' => Kept(S, k)'
  BY <1>6, <1>7
<1>11. QED
  BY <1>5, <1>8, <1>9, <1>10 DEF DroopInv

\* No seat is taken, every ballot weighs a vote and everybody is left.
LEMMA DroopInit ==
  ASSUME Init
  PROVE  DroopInv
<1>1. SUFFICES ASSUME PlainStv PROVE DroopInv
  BY DEF DroopInv, PlainStv
<1>2. /\ elected = <<>> /\ remaining = PreSorted(race, tally)
      /\ pile = [i \in DOMAIN tally |-> Receiver(race, remaining, tally[i], over[i])]
      /\ weight = [i \in DOMAIN tally |-> Unit]
  BY <1>1 DEF Init, PlainStv
<1>3. /\ TallyInv /\ SeatInv /\ race.method \in {"IRV", "STV"} /\ IsRace(race)
      /\ Lists(race, remaining) /\ ToSet(remaining) = Cands(race)
  BY <1>1, <1>2, InitInv, PreSortedLists DEF TabulationInv, TallyInv, PlainStv
<1>4. PilesBest
  BY <1>1, <1>2, <1>3, PlainReceiver DEF PlainStv, PilesBest
<1>5. PilesLeft
  <2>1. \A i \in DOMAIN tally : \A c \in Cands(race) : tally[i][c] \in 0..TopMark(race)
    BY <1>3 DEF TallyInv, IsTally
  <2>2. QED
    BY <1>2, <1>3, <2>1, ReceiverListed DEF PilesLeft
<1>6. /\ Unit \in Nat \ {0} /\ race.seats \in Nat \ {0} /\ Dues \in Nat /\ Len(tally) \in Nat
  BY <1>1, <1>3, QuotaIsDroop DEF PlainStv
<1>7. \A i \in DOMAIN tally : weight[i] = Unit
  BY <1>2
<1>8. \A B \in SUBSET DOMAIN tally : SumFunctionOnSet(weight, B) = Unit * Cardinality(B)
  <2>1. TAKE B \in SUBSET DOMAIN tally
  <2>2. IsFiniteSet(B)
    BY <1>3, BallotsFinite DEF TallyInv
  <2>3. Unit \in Int /\ \A i \in B : weight[i] = Unit
    BY <1>6, <1>7
  <2>4. QED
    BY <2>2, <2>3, EqualSums
<1>9. Total = Unit * Len(tally)
  <2>1. DOMAIN tally = 1..Len(tally)
    BY <1>3, BallotsFinite DEF TallyInv
  <2>2. Cardinality(1..Len(tally)) = Len(tally)
    <3> DEFINE m == Len(tally)
    <3>1. m \in Nat
      BY <1>6
    <3> HIDE DEF m
    <3>2. Cardinality(1..m) = m
      BY <3>1, FS_Interval
    <3>3. QED
      BY <3>2 DEF m
  <2>3. QED
    BY <1>8, <2>1, <2>2 DEF Total
<1>10. Len(elected) = 0
  BY <1>2
<1>11. ASSUME NEW S, NEW k, Entitled(S, k) PROVE Kept(S, k)
  <2>1. S \in SUBSET Cands(race) /\ k \in 1..Cardinality(S)
    BY <1>11 DEF Entitled
  <2>2. SeatedOf(S) = 0 /\ LeftOf(S) = Cardinality(S)
    <3>1. ToSet(elected) = {}
      BY <1>2 DEF ToSet
    <3>2. S \cap ToSet(elected) = {} /\ S \cap ToSet(remaining) = S
      BY <1>3, <2>1, <3>1
    <3>3. QED
      BY <3>2, FS_EmptySet DEF SeatedOf, LeftOf
  <2>3. IsFiniteSet(S) /\ Cardinality(S) \in Nat /\ Solid(S) \in SUBSET DOMAIN tally
        /\ Cardinality(Solid(S)) \in Nat
    BY <1>3, <2>1, SolidFacts, FS_CardinalityType
  <2>4. Backing(S) = Unit * Cardinality(Solid(S)) /\ Unit * Cardinality(Solid(S)) \in Nat
    BY <1>6, <1>8, <2>3 DEF Backing
  <2>5. SeatedOf(S) * (Dues + Len(tally)) = 0
    BY <1>6, <2>2
  <2>6. QED
    BY <1>6, <1>10, <2>1, <2>2, <2>3, <2>4, <2>5 DEF Kept
<1>12. Total + Len(elected) * Dues <= Unit * Len(tally)
  <2>1. Unit * Len(tally) \in Nat /\ 0 * Dues = 0
    BY <1>6
  <2>2. QED
    BY <1>9, <1>10, <2>1
<1>13. \A i \in DOMAIN tally : weight[i] \in Nat
  BY <1>6, <1>7
<1>14. QED
  BY <1>4, <1>5, <1>11, <1>12, <1>13 DEF DroopInv

LEMMA DroopStep ==
  ASSUME TabulationInv, DroopInv, [Next]_vars
  PROVE  DroopInv'
<1>1. SUFFICES ASSUME PlainStv' PROVE DroopInv'
  BY DEF DroopInv, PlainStv
<1>2. race' = race /\ tally' = tally /\ over' = over
  BY DEF Next, BlocRound, Elect, Fill, Eliminate, Allocate, Return, Counting, vars
<1>3. PlainStv
  BY <1>1, <1>2 DEF PlainStv, PlainRanks
<1>4. CASE Elect
  BY <1>3, <1>4, DroopElect
<1>5. CASE Fill
  BY <1>3, <1>5, DroopFill
<1>6. CASE Eliminate
  BY <1>3, <1>6, DroopEliminate
<1>7. CASE Return \/ UNCHANGED vars
  <2>1. UNCHANGED <<elected, remaining, pile, weight>>
    BY <1>7 DEF Return, vars
  <2>2. QED
    BY <1>2, <1>3, <2>1 DEF DroopInv, PlainStv, PilesBest, PilesLeft, Total, Dues, Quota,
      Proportional, FewBallots, Entitled, Kept, Solid, Backing, SeatedOf, LeftOf
<1>8. ~BlocRound /\ ~Allocate
  BY <1>3 DEF BlocRound, Allocate, PlainStv, Bloc
<1>9. QED
  BY <1>4, <1>5, <1>6, <1>7, <1>8 DEF Next

\* The coalition of all candidates: their quotas are at most the seats.
LEMMA AllAreSeated ==
  ASSUME TabulationInv, PlainStv, Len(elected) = race.seats,
         NEW k \in Nat, Len(tally) >= k * Quota(0)
  PROVE  Cardinality(Cands(race) \cap ToSet(elected)) >= k
<1> DEFINE s == race.seats
           m == Len(tally)
           q == Quota(0)
<1>1. elected \in Seq(Cands(race)) /\ Distinct(elected) /\ TallyInv
  BY DEF TabulationInv, SeatInv, CountInv, PlainStv
<1>2. Cardinality(ToSet(elected)) = s
  BY <1>1, ListLength
<1>3. Cands(race) \cap ToSet(elected) = ToSet(elected)
  BY <1>1 DEF ToSet
<1>4. q \in Nat \ {0} /\ q * (s + 1) >= m + 1 /\ s \in Nat /\ m \in Nat /\ m >= k * q
  BY <1>1, QuotaIsDroop DEF PlainStv
<1> HIDE DEF s, m, q
<1>5. k < s + 1
  <2>1. SUFFICES ASSUME k >= s + 1 PROVE FALSE
    BY <1>4
  <2>2. k * q >= (s + 1) * q
    BY <1>4, <2>1
  <2>3. (s + 1) * q = q * (s + 1) /\ k * q \in Int /\ q * (s + 1) \in Int
    BY <1>4
  <2>4. QED
    BY <1>4, <2>2, <2>3
<1>6. Cardinality(Cands(race) \cap ToSet(elected)) = s
  BY <1>2, <1>3
<1>7. QED
  BY <1>4, <1>5, <1>6

------------------------------------------------------------------------------
(* The quotas of STAR_PR. *)

\* The ballots above the split point and those on it.
Above(worth) == {i \in DOMAIN worth : Less(SplitPoint(worth), worth[i])}

OnSplit(worth) == {i \in DOMAIN worth : worth[i] = SplitPoint(worth)}

\* The ballots above the split point weigh less than a quota; with those on it
\* they weigh one at least.
LEMMA SplitPointSplits ==
  ASSUME NEW worth, IsFiniteSet(DOMAIN worth), DOMAIN worth # {},
         \A i \in DOMAIN worth : worth[i] \in Lowest /\ weight[i] \in Shares,
         Less(<<0, 1>>, Seat), ~Less(SumOver(DOMAIN worth, weight), Seat)
  PROVE  /\ Above(worth) \cap OnSplit(worth) = {}
         /\ Less(SumOver(Above(worth), weight), Seat)
         /\ ~Less(SumOver(Above(worth) \cup OnSplit(worth), weight), Seat)
<1> DEFINE S == DOMAIN worth
           above == Above(worth)
           at == OnSplit(worth)
           split == SplitPoint(worth)
           least(v) == {i \in S : ~Less(worth[i], v)}
           reaches(v) == ~Less(SumOver(least(v), weight), Seat)
           values == {worth[i] : i \in S}
           full == {v \in values : reaches(v)}
           same == [v \in full |-> v]
<1>1. \A i \in S : worth[i] \in Fractions /\ worth[i] \in values
  BY DEF Lowest
<1>2. full # {}
  <2>1. PICK i \in S : \A j \in S : ~Less(worth[j], worth[i])
    BY <1>1, SomeShareTrails
  <2>2. least(worth[i]) = S
    BY <2>1
  <2>3. reaches(worth[i])
    BY <2>2
  <2> HIDE DEF reaches
  <2>4. QED
    BY <2>3
<1>3. \E v \in full : \A u \in full : ~Less(v, u)
  <2>1. IsFiniteSet(values)
    <3>1. IsFiniteSet(S)
      OBVIOUS
    <3> DEFINE to == [i \in S |-> worth[i]]
    <3>2. to \in Surjection(S, values)
      BY DEF Surjection
    <3> HIDE DEF to, values
    <3>3. QED
      BY <3>1, <3>2, FS_Surjection
  <2>2. full \in SUBSET values
    OBVIOUS
  <2>3. \A v \in full : same[v] = v /\ same[v] \in Fractions
    BY <1>1
  <2> HIDE DEF full, values
  <2>4. IsFiniteSet(full)
    BY <2>1, <2>2, FS_Subset
  <2> HIDE DEF same
  <2>5. \E c \in full : \A d \in full : ~Less(same[c], same[d])
    BY <1>2, <2>3, <2>4, SomeShareLeads
  <2>6. QED
    BY <2>3, <2>5
<1>4. split \in full /\ \A u \in full : ~Less(split, u)
  <2>1. values # {}
    OBVIOUS
  <2>2. split = CHOOSE v \in full : \A u \in full : ~Less(v, u)
    BY <1>2, <2>1 DEF SplitPoint
  <2> HIDE DEF split, full
  <2>3. QED
    BY <1>3, <2>2
<1>5. split \in values /\ split \in Lowest /\ split \in Fractions /\ reaches(split)
  BY <1>4 DEF Lowest
<1>6. \A i \in S : worth[i] \in values /\ (reaches(worth[i]) => ~Less(split, worth[i]))
  BY <1>4
<1>7. above = {i \in S : Less(split, worth[i])} /\ at = {i \in S : worth[i] = split}
  BY DEF Above, OnSplit
<1> HIDE DEF split, full, values, above, at
<1>8. above \cap at = {}
  BY <1>5, <1>7, LessOrders
<1>9. least(split) = above \cup at
  <2>1. \A i \in S : ~Less(worth[i], split) <=> Less(split, worth[i]) \/ worth[i] = split
    BY <1>1, <1>5, LowestCompare, LessOrders
  <2>2. QED
    BY <1>7, <2>1
<1>10. ~Less(SumOver(above \cup at, weight), Seat)
  BY <1>5, <1>9
<1>11. Less(SumOver(above, weight), Seat)
  <2>1. CASE above = {}
    <3>1. IsFiniteSet({})
      BY FS_EmptySet
    <3>2. SumOver({}, weight) = <<0, 1>>
      BY <3>1, SumsOfShares
    <3>3. QED
      BY <2>1, <3>2
  <2>2. CASE above # {}
    <3>1. IsFiniteSet(above) /\ \A i \in above : worth[i] \in Fractions
      <4>1. above \in SUBSET S
        BY <1>7
      <4>2. QED
        BY <1>1, <4>1, FS_Subset
    <3>2. PICK i \in above : \A j \in above : ~Less(worth[j], worth[i])
      BY <2>2, <3>1, SomeShareTrails
    <3>3. i \in S /\ Less(split, worth[i])
      BY <1>7
    <3>4. \A j \in S : ~Less(worth[j], worth[i]) <=> j \in above
      <4>1. TAKE j \in S
      <4>2. ASSUME j \notin above PROVE Less(worth[j], worth[i])
        <5>1. worth[j] = split \/ Less(worth[j], split)
          BY <1>5, <1>7, <4>2, LowestCompare
        <5>2. QED
          BY <1>1, <1>5, <3>3, <5>1, LessOrders
      <4>3. QED
        BY <3>2, <4>2
    <3>5. least(worth[i]) = above
      BY <1>7, <3>4
    <3>6. ~reaches(worth[i])
      BY <1>6, <3>3
    <3>7. QED
      BY <3>5, <3>6
  <2>3. QED
    BY <2>1, <2>2
<1>12. QED
  BY <1>8, <1>10, <1>11 DEF above, at

\* Shares of a vote, in lowest terms, not more than the vote.
Weights == {q \in Shares : q \in Lowest /\ ~Less(<<1, 1>>, q)}

\* A fraction is not more than a vote when its numerator is not above the other.
LEMMA WeightOf ==
  ASSUME NEW a \in Nat, NEW N \in Nat \ {0}
  PROVE  /\ Frac(a, N) \in Weights <=> a <= N
         /\ a <= N => Clamped(Frac(a, N)) = Frac(a, N)
<1> DEFINE q == Frac(a, N)
<1>1. q \in Shares /\ q \in Lowest /\ Frac(N, N) = <<1, 1>>
  BY FracFacts
<1>2. Less(<<1, 1>>, q) <=> N < a
  <2>1. Less(Frac(N, N), Frac(a, N)) <=> N < a
    <3>1. N \in Int /\ a \in Int
      OBVIOUS
    <3>2. QED
      BY <3>1, SameDenominator
  <2>2. QED
    BY <1>1, <2>1
<1>3. ~(q[1] < 0)
  <2>1. q[1] \in Int /\ q[1] >= 0
    BY <1>1, SharesAreFractions
  <2>2. QED
    BY <2>1
<1> HIDE DEF q
<1>4. q \in Weights <=> a <= N
  BY <1>1, <1>2 DEF Weights
<1>5. a <= N => Clamped(q) = q
  BY <1>2, <1>3 DEF Clamped
<1>6. QED
  BY <1>4, <1>5 DEF q

\* Fractions with the same denominator are equal when the numerators are.
LEMMA SameNumerators ==
  ASSUME NEW a \in Int, NEW b \in Int, NEW N \in Nat \ {0}, Frac(a, N) = Frac(b, N)
  PROVE  a = b
<1>1. ~Less(Frac(a, N), Frac(a, N))
  BY FracReduces, LessOrders
<1>2. ~(a < b) /\ ~(b < a)
  <2>1. (Less(Frac(a, N), Frac(b, N)) <=> a < b) /\ (Less(Frac(b, N), Frac(a, N)) <=> b < a)
    BY SameDenominator
  <2>2. QED
    BY <1>1, <2>1
<1>3. QED
  BY <1>2

\* A seat takes a quota from the ballots, j quotas that are left become j - 1.
LEMMA SpentQuota ==
  ASSUME TallyInv, DOMAIN weight = DOMAIN tally,
         \A i \in DOMAIN tally : weight[i] \in Weights,
         NEW worth, DOMAIN worth = DOMAIN tally, \A i \in DOMAIN tally : worth[i] \in Lowest,
         NEW j \in Nat \ {0},
         SumOver(DOMAIN tally, weight) = Frac(Len(tally) * j, race.seats)
  PROVE  /\ \A i \in DOMAIN tally : Spent(worth)[i] \in Weights
         /\ SumOver(DOMAIN tally, Spent(worth)) = Frac(Len(tally) * (j - 1), race.seats)
<1> DEFINE S == DOMAIN worth
           L == Len(tally)
           s == race.seats
           new == Spent(worth)
<1>1. /\ S = DOMAIN tally /\ IsFiniteSet(S) /\ L \in Nat /\ s \in Nat \ {0}
      /\ L = 0 <=> S = {}
      /\ Seat = Frac(L, s) /\ SumOver(S, weight) = Frac(L * j, s)
  <2>1. tally \in Seq([Cands(race) -> 0..TopMark(race)])
    BY DEF TallyInv, IsTally
  <2>2. DOMAIN tally = 1..L /\ L \in Nat
    BY <2>1
  <2>3. IsFiniteSet(DOMAIN tally)
    BY BallotsFinite DEF TallyInv
  <2> HIDE DEF L
  <2>4. L = 0 <=> S = {}
    BY <2>2
  <2>5. QED
    BY <2>2, <2>3, <2>4 DEF TallyInv, IsRace, Seat, L
<1>2. \A i \in S : worth[i] \in Lowest /\ weight[i] \in Weights
                   /\ weight[i] \in Shares /\ weight[i] \in Lowest
  BY <1>1 DEF Weights
<1>3. CASE S = {}
  <2>1. SumOver(S, new) = <<0, 1>>
    <3>1. \A i \in S : new[i] \in Shares
      BY <1>3
    <3> HIDE DEF new, S
    <3>2. QED
      BY <1>1, <1>3, <3>1, SumsOfShares
  <2>2. L = 0 /\ 0 * (j - 1) = 0
    BY <1>1, <1>3
  <2>3. Frac(0, s) = <<0, 1>>
    BY <1>1, FracFacts
  <2>4. QED
    BY <1>1, <1>3, <2>1, <2>2, <2>3
<1>4. CASE S # {}
  <2>1. InCommon(S, weight, s)
    <3> HIDE DEF S, s
    <3>1. IsFiniteSet(S) /\ s \in Nat \ {0}
          /\ \A i \in S : weight[i] \in Shares /\ weight[i] \in Lowest
      BY <1>1, <1>2
    <3>2. QED
      BY <3>1, CommonDenominator
  <2>19. PICK m \in Nat \ {0} : \E a \in [S -> Nat] : \A i \in S : weight[i] = Frac(a[i], s * m)
    <3> HIDE DEF S, s
    <3>1. QED
      BY <2>1 DEF InCommon
  <2>2. PICK a \in [S -> Nat] : \A i \in S : weight[i] = Frac(a[i], s * m)
    BY <2>19
  <2> DEFINE split == SplitPoint(worth)
             above == {i \in S : Less(split, worth[i])}
             at == {i \in S : worth[i] = split}
             below == (S \ above) \ at
             N == s * m
             Q == L * m
             sum(T) == SumFunctionOnSet(a, T)
             u == sum(above)
             v == sum(at)
             w == sum(below)
             k == u + v - Q
  <2>3. N \in Nat \ {0} /\ Q \in Nat /\ L \in Nat \ {0} /\ Q > 0
    <3>1. N \in Nat \ {0}
      BY <1>1
    <3>2. L \in Nat \ {0}
      BY <1>1, <1>4
    <3> HIDE DEF L
    <3>3. QED
      BY <3>1, <3>2
  <2>4. \A T \in SUBSET S :
          /\ IsFiniteSet(T) /\ sum(T) \in Nat /\ \A i \in T : a[i] <= sum(T)
          /\ SumOver(T, weight) = Frac(sum(T), N)
    <3>1. TAKE T \in SUBSET S
    <3>2. IsFiniteSet(T)
      BY <1>1, FS_Subset
    <3> HIDE DEF S
    <3>3. \A i \in T : a[i] \in Nat /\ weight[i] = Frac(a[i], N)
      BY <2>2
    <3> HIDE DEF N
    <3>4. SumOver(T, weight) = Frac(sum(T), N)
      BY <2>3, <3>2, <3>3, SumOfNumerators
    <3>5. sum(T) \in Nat /\ \A i \in T : a[i] <= sum(T)
      BY <3>2, <3>3, SumBounds
    <3>6. QED
      BY <3>2, <3>4, <3>5
  <2>5. above \in SUBSET S /\ at \in SUBSET S /\ below \in SUBSET S /\ S \in SUBSET S
        /\ above \cup at \in SUBSET S
    OBVIOUS
  <2>6. u \in Nat /\ v \in Nat /\ w \in Nat /\ sum(S) \in Nat
    BY <2>4, <2>5
  <2>7. Seat = Frac(Q, N) /\ sum(S) = Q * j
    <3>1. Frac(L * m, s * m) = Frac(L, s)
      <4> HIDE DEF L, s
      <4>1. QED
        BY <1>1, Scaled
    <3>2. Frac((L * j) * m, s * m) = Frac(L * j, s)
      <4> DEFINE Lj == L * j
      <4>1. Lj \in Int
        BY <1>1
      <4> HIDE DEF L, s, Lj
      <4>2. Frac(Lj * m, s * m) = Frac(Lj, s)
        BY <1>1, <4>1, Scaled
      <4>3. QED
        BY <4>2 DEF Lj
    <3>3. (L * j) * m = Q * j /\ Q * j \in Int
      BY <1>1
    <3>4. Frac(sum(S), N) = Frac(Q * j, N)
      BY <1>1, <2>4, <2>5, <3>2, <3>3
    <3> HIDE DEF S, N, Q
    <3>5. sum(S) = Q * j
      BY <2>3, <2>6, <3>3, <3>4, SameNumerators
    <3>6. QED
      BY <1>1, <3>1, <3>5 DEF Q, N
  <2>8. above \cap at = {} /\ u < Q /\ u + v >= Q /\ u + v + w = sum(S)
    <3>1. Less(<<0, 1>>, Seat)
      <4>1. Less(Frac(0, N), Frac(Q, N))
        <5> HIDE DEF N, Q
        <5>1. QED
          BY <2>3, SameDenominator
      <4>2. Frac(0, N) = <<0, 1>>
        BY <2>3, FracFacts
      <4>3. QED
        BY <2>7, <4>1, <4>2
    <3>2. ~Less(SumOver(S, weight), Seat)
      <4>1. Q * j >= Q /\ Q * j \in Int
        <5> HIDE DEF Q
        <5>1. QED
          BY <2>3
      <4>2. ~(sum(S) < Q)
        <5> HIDE DEF Q, sum
        <5>1. QED
          BY <2>3, <2>6, <2>7, <4>1
      <4> HIDE DEF N, Q, sum, S
      <4>3. ~Less(Frac(sum(S), N), Frac(Q, N))
        <5>1. sum(S) \in Int /\ Q \in Int
          BY <2>3, <2>6
        <5>2. QED
          BY <2>3, <4>2, <5>1, SameDenominator
      <4>4. QED
        BY <2>4, <2>5, <2>7, <4>3
    <3>3. /\ above \cap at = {} /\ Less(SumOver(above, weight), Seat)
          /\ ~Less(SumOver(above \cup at, weight), Seat)
      <4>1. above = Above(worth) /\ at = OnSplit(worth)
        BY DEF Above, OnSplit
      <4>2. /\ IsFiniteSet(DOMAIN worth) /\ DOMAIN worth # {}
            /\ \A i \in DOMAIN worth : worth[i] \in Lowest /\ weight[i] \in Shares
            /\ ~Less(SumOver(DOMAIN worth, weight), Seat)
        BY <1>1, <1>2, <1>4, <3>2
      <4> HIDE DEF above, at, split
      <4>3. QED
        BY <3>1, <4>1, <4>2, SplitPointSplits
    <3> HIDE DEF S, N, Q, above, at
    <3>4. \A i \in S : a[i] \in Int
      BY <2>2
    <3>5. sum(above \cup at) = u + v
      <4>1. (above \cup at) \ above = at /\ above \in SUBSET (above \cup at)
        BY <3>3
      <4>2. IsFiniteSet(above \cup at) /\ \A i \in above \cup at : a[i] \in Int
        BY <2>4, <2>5, <3>4
      <4>3. SumFunctionOnSet(a, above \cup at)
              = SumFunctionOnSet(a, above) + SumFunctionOnSet(a, (above \cup at) \ above)
        BY <4>1, <4>2, SumSplits
      <4>4. QED
        BY <4>1, <4>3
    <3>6. sum(S) = u + sum(S \ above)
      BY <1>1, <2>5, <3>4, SumSplits
    <3>7. sum(S \ above) = v + w
      <4>1. IsFiniteSet(S \ above) /\ at \in SUBSET (S \ above)
        BY <2>4, <2>5, <3>3
      <4>2. QED
        BY <3>4, <4>1, SumSplits
    <3> HIDE DEF below, sum, u, v, w
    <3>8. u < Q
      <4>1. Less(Frac(u, N), Frac(Q, N))
        BY <2>4, <2>5, <2>7, <3>3 DEF u
      <4>2. QED
        BY <2>3, <2>6, <4>1, SameDenominator
    <3>9. ~(u + v < Q)
      <4>1. ~Less(Frac(u + v, N), Frac(Q, N))
        BY <2>4, <2>5, <2>7, <3>3, <3>5
      <4> DEFINE z == u + v
      <4>2. z \in Int /\ Q \in Int
        BY <2>3, <2>6
      <4> HIDE DEF z
      <4>3. ~Less(Frac(z, N), Frac(Q, N)) => ~(z < Q)
        BY <2>3, <4>2, SameDenominator
      <4>4. QED
        BY <4>1, <4>3 DEF z
    <3>10. QED
      BY <2>3, <2>6, <3>3, <3>6, <3>7, <3>8, <3>9
  <2>9. k \in Nat /\ k < v /\ v \in Nat \ {0}
    <3> HIDE DEF Q, u, v
    <3>1. QED
      BY <2>3, <2>6, <2>8
  <2> DEFINE D == N * v
             b == [i \in S |-> IF i \in above THEN 0
                               ELSE IF i \in at THEN a[i] * k ELSE a[i] * v]
  <2>10. D \in Nat \ {0}
    <3> HIDE DEF N, v
    <3>1. QED
      BY <2>3, <2>9
  <2>11. \A i \in S : a[i] <= N /\ a[i] \in Nat
    <3>1. TAKE i \in S
    <3> HIDE DEF S
    <3>2. Frac(a[i], N) \in Weights /\ a[i] \in Nat
      BY <1>2, <2>2
    <3> HIDE DEF N
    <3>3. QED
      BY <2>3, <3>2, WeightOf
  <2>12. \A i \in S : b[i] \in Nat /\ b[i] <= D
    <3>1. TAKE i \in S
    <3> DEFINE x == a[i]
    <3>2. x \in Nat /\ x <= N
      BY <2>11
    <3>3. b[i] = IF i \in above THEN 0 ELSE IF i \in at THEN x * k ELSE x * v
      OBVIOUS
    <3> HIDE DEF x, b, N, v, k
    <3>4. x * v \in Nat /\ x * v <= N * v
      BY <2>3, <2>9, <3>2
    <3>5. x * k \in Nat /\ x * k <= x * v
      BY <2>9, <3>2
    <3>6. D = N * v
      OBVIOUS
    <3> HIDE DEF D
    <3>7. QED
      BY <2>10, <3>3, <3>4, <3>5, <3>6
  <2>13. \A i \in S : new[i] = Frac(b[i], D)
    <3> DEFINE weightOf(T) == SumOver(T, weight)
               share == Over(Minus(Seat, weightOf(above)), weightOf(at))
               kept == Minus(<<1, 1>>, share)
    <3>1. kept = Frac(k, v)
      <4>1. Minus(Seat, weightOf(above)) = Frac(Q - u, N)
        <5>1. weightOf(above) = Frac(u, N)
          BY <2>4, <2>5
        <5> HIDE DEF N, Q, u, weightOf
        <5>2. QED
          BY <2>3, <2>6, <2>7, <5>1, SameDenominator
      <4>2. share = Frac(Q - u, v)
        <5>1. weightOf(at) = Frac(v, N)
          BY <2>4, <2>5
        <5> HIDE DEF N, Q, u, v, weightOf
        <5>2. Q - u \in Int
          BY <2>3, <2>6
        <5>3. QED
          BY <2>3, <2>9, <4>1, <5>1, <5>2, SameDenominator
      <4> HIDE DEF share, N, Q, u, v, k
      <4>3. Q - u \in Int /\ v - (Q - u) = k
        BY <2>3, <2>6 DEF k
      <4>4. Minus(Frac(v, v), Frac(Q - u, v)) = Frac(v - (Q - u), v)
        <5> DEFINE z == Q - u
        <5>1. z \in Int /\ v \in Int
          BY <2>9, <4>3
        <5> HIDE DEF z
        <5>2. Minus(Frac(v, v), Frac(z, v)) = Frac(v - z, v)
          BY <2>9, <5>1, SameDenominator
        <5>3. QED
          BY <5>2 DEF z
      <4>5. Frac(v, v) = <<1, 1>>
        BY <2>9, FracFacts
      <4>6. QED
        BY <4>2, <4>3, <4>4, <4>5
    <3>2. weightOf(at)[1] > 0
      <4>1. weightOf(at) = Frac(v, N)
        BY <2>4, <2>5
      <4> DEFINE q == Frac(v, N)
      <4> HIDE DEF v, N
      <4>2. q \in Shares /\ q[1] * N = v * q[2]
        BY <2>3, <2>9, FracFacts, FracLowest
      <4>3. q[1] \in Int /\ q[1] >= 0 /\ q[2] \in Nat \ {0}
        BY <4>2, SharesAreFractions
      <4> HIDE DEF q
      <4>4. v * q[2] > 0
        BY <2>9, <4>3
      <4>5. q[1] # 0
        BY <2>3, <4>2, <4>4
      <4>6. QED
        BY <4>1, <4>3, <4>5 DEF q
    <3>3. TAKE i \in S
    <3>4. new[i] = CASE i \in above -> <<0, 1>>
                     [] i \in at /\ weightOf(at)[1] > 0 -> Clamped(Times(weight[i], kept))
                     [] OTHER -> weight[i]
      BY DEF Spent
    <3>5. weight[i] = Frac(a[i], N) /\ a[i] \in Nat
      BY <2>2
    <3>6. CASE i \in above
      <4>1. i \notin at
        BY <2>8, <3>6
      <4> HIDE DEF above, at
      <4>2. new[i] = <<0, 1>>
        <5> HIDE DEF new, kept, weightOf
        <5>1. QED
          BY <3>4, <3>6, <4>1
      <4>3. b[i] = 0
        BY <3>6
      <4> HIDE DEF D, new, b
      <4>4. Frac(0, D) = <<0, 1>>
        BY <2>10, FracFacts
      <4>5. QED
        BY <4>2, <4>3, <4>4
    <3>7. CASE i \notin above /\ i \in at
      <4> HIDE DEF above, at
      <4>1. new[i] = Clamped(Times(weight[i], kept))
        <5> HIDE DEF new, kept, weightOf
        <5>1. QED
          BY <3>2, <3>4, <3>7
      <4>2. b[i] = a[i] * k
        BY <3>7
      <4> HIDE DEF new, kept, b, N, k, v
      <4>3. Times(Frac(a[i], N), Frac(k, v)) = Frac(a[i] * k, N * v)
        BY <2>3, <2>9, <3>5, Product
      <4>4. Times(weight[i], kept) = Frac(b[i], D)
        BY <3>1, <3>5, <4>2, <4>3
      <4> HIDE DEF D
      <4>5. Clamped(Frac(b[i], D)) = Frac(b[i], D)
        BY <2>10, <2>12, WeightOf
      <4>6. QED
        BY <4>1, <4>4, <4>5
    <3>8. CASE i \notin above /\ i \notin at
      <4> HIDE DEF above, at
      <4>1. new[i] = weight[i]
        <5> HIDE DEF new, kept, weightOf
        <5>1. QED
          BY <3>4, <3>8
      <4>2. b[i] = a[i] * v
        BY <3>8
      <4> HIDE DEF new, b, N, v
      <4>3. Frac(a[i] * v, N * v) = Frac(a[i], N)
        BY <2>3, <2>9, <3>5, Scaled
      <4>4. QED
        BY <3>5, <4>1, <4>2, <4>3
    <3>9. QED
      BY <3>6, <3>7, <3>8
  <2>14. SumFunctionOnSet(b, S) = (w + k) * v
    <3> DEFINE total(T) == SumFunctionOnSet(b, T)
    <3>1. /\ \A i \in above : b[i] = 0
          /\ \A i \in at : b[i] = a[i] * k
          /\ \A i \in below : b[i] = a[i] * v
      BY <2>8
    <3>2. \A i \in S : a[i] \in Int /\ b[i] \in Int
      <4>1. TAKE i \in S
      <4> DEFINE x == a[i]
                 y == b[i]
      <4>2. x \in Nat /\ y \in Nat
        BY <2>11, <2>12
      <4> HIDE DEF x, y
      <4>3. x \in Int /\ y \in Int
        BY <4>2
      <4>4. QED
        BY <4>3 DEF x, y
    <3>3. above \cap at = {} /\ below = (S \ above) \ at /\ k \in Int /\ v \in Int
      BY <2>8, <2>9
    <3> HIDE DEF S, above, at, below, b, k
    <3>4. total(above) = 0 * Cardinality(above)
      BY <2>4, <2>5, <3>1, EqualSums
    <3>5. total(at) = v * k
      <4>1. IsFiniteSet(at) /\ \A i \in at : a[i] \in Int /\ b[i] = a[i] * k
        BY <2>4, <2>5, <3>1, <3>2
      <4>2. QED
        BY <3>3, <4>1, SumScaled
    <3>6. total(below) = w * v
      <4>1. IsFiniteSet(below) /\ \A i \in below : a[i] \in Int /\ b[i] = a[i] * v
        BY <2>4, <2>5, <3>1, <3>2
      <4> HIDE DEF v
      <4>2. SumFunctionOnSet(b, below) = SumFunctionOnSet(a, below) * v
        BY <3>3, <4>1, SumScaled
      <4>3. QED
        BY <4>2
    <3>7. total(S) = total(above) + total(S \ above)
      BY <1>1, <2>5, <3>2, SumSplits
    <3>8. total(S \ above) = total(at) + total(below)
      <4>1. IsFiniteSet(S \ above) /\ at \in SUBSET (S \ above)
        BY <2>4, <2>5, <3>3
      <4>2. QED
        BY <3>2, <3>3, <4>1, SumSplits
    <3>9. 0 * Cardinality(above) = 0
      <4>1. Cardinality(above) \in Nat
        BY <2>4, <2>5, FS_CardinalityType
      <4>2. QED
        BY <4>1
    <3> HIDE DEF total, v, w
    <3>10. (w + k) * v = w * v + v * k /\ w * v \in Int /\ v * k \in Int
      BY <2>6, <3>3
    <3>11. QED
      BY <3>4, <3>5, <3>6, <3>7, <3>8, <3>9, <3>10 DEF total
  <2>15. SumOver(S, new) = Frac((w + k) * v, D)
    <3> HIDE DEF S, new, b, D
    <3>1. SumOver(S, new) = Frac(SumFunctionOnSet(b, S), D)
      BY <1>1, <2>10, <2>12, <2>13, SumOfNumerators
    <3>2. QED
      BY <2>14, <3>1
  <2>16. Frac((w + k) * v, D) = Frac(L * (j - 1), s)
    <3>1. w + k = Q * (j - 1)
      <4>1. Q * (j - 1) = Q * j - Q /\ Q * j \in Int
        <5> HIDE DEF Q
        <5>1. QED
          BY <2>3
      <4> HIDE DEF Q, u, v, w, sum
      <4>2. QED
        BY <2>3, <2>6, <2>7, <2>8, <4>1
    <3>2. Q * (j - 1) = (L * (j - 1)) * m
      BY <1>1
    <3> DEFINE x == L * (j - 1)
    <3>3. x \in Int
      BY <1>1
    <3>4. w + k = x * m /\ w + k \in Int
      <4>1. x * m \in Int
        BY <3>3
      <4>2. QED
        BY <3>1, <3>2, <4>1
    <3>5. Frac((w + k) * v, N * v) = Frac(w + k, N)
      <4> DEFINE y == w + k
      <4>1. y \in Int
        BY <3>4
      <4> HIDE DEF y, N, v
      <4>2. Frac(y * v, N * v) = Frac(y, N)
        BY <2>3, <2>9, <4>1, Scaled
      <4>3. QED
        BY <4>2 DEF y
    <3>6. Frac(x * m, s * m) = Frac(x, s)
      <4> HIDE DEF x, s
      <4>1. QED
        BY <1>1, <3>3, Scaled
    <3>7. QED
      BY <3>4, <3>5, <3>6
  <2>17. \A i \in S : new[i] \in Weights
    <3> HIDE DEF S, new, b, D
    <3>1. QED
      BY <2>10, <2>12, <2>13, WeightOf
  <2>18. QED
    BY <1>1, <2>15, <2>16, <2>17
<1>5. QED
  BY <1>3, <1>4

\* STAR_PR: the ballots weigh a vote at most, together the quotas of the seats
\* that are left.  A seat takes its quota only because no weight leaves the
\* interval the clamp cuts off, and because the weights add up to a quota more
\* than the seats after it need.
QuotaInv ==
  race.method = "STAR_PR" =>
    /\ \A i \in DOMAIN tally : weight[i] \in Weights
    /\ QuotasSpent

\* The first seat: every ballot weighs one vote.
LEMMA QuotaInit ==
  ASSUME Init
  PROVE  QuotaInv
<1> SUFFICES ASSUME race.method = "STAR_PR" PROVE QuotaInv
  BY DEF QuotaInv
<1> DEFINE S == DOMAIN tally
           L == Len(tally)
           s == race.seats
           one == [i \in S |-> 1]
<1>1. TabulationInv /\ elected = <<>> /\ weight = [i \in S |-> <<1, 1>>]
  <2>1. \E poll \in Polls : \E e \in poll :
          /\ elected = <<>>
          /\ weight = CASE race.method \in {"IRV", "STV"} -> [i \in S |-> Unit]
                        [] race.method = "STAR_PR" -> [i \in S |-> <<1, 1>>]
                        [] OTHER -> <<>>
    BY DEF Init
  <2>2. QED
    BY <2>1, InitInv
<1>2. IsFiniteSet(S) /\ Cardinality(S) = L /\ L \in Nat /\ s \in Nat \ {0}
  <2>1. tally \in Seq([Cands(race) -> 0..TopMark(race)])
    BY <1>1 DEF TabulationInv, TallyInv, IsTally
  <2>2. S = 1..L /\ L \in Nat
    BY <2>1
  <2>3. s \in Nat \ {0}
    BY <1>1 DEF TabulationInv, TallyInv, IsRace
  <2> HIDE DEF S, L, s
  <2>4. IsFiniteSet(1..L) /\ Cardinality(1..L) = L
    <3>1. L >= 1 => L - 1 + 1 = L
      BY <2>2
    <3>2. QED
      BY <2>2, <3>1, FS_Interval
  <2>5. QED
    BY <2>2, <2>3, <2>4
<1>3. Frac(1, 1) = <<1, 1>>
  BY FracFacts
<1>4. \A i \in S : one[i] = 1 /\ weight[i] = Frac(one[i], 1)
  BY <1>1, <1>3
<1>5. \A i \in S : weight[i] \in Weights
  <2>1. Frac(1, 1) \in Weights
    BY WeightOf
  <2>2. QED
    BY <1>4, <2>1
<1>6. SumOver(S, weight) = Frac(L * s, s)
  <2> HIDE DEF S, one, L, s
  <2>1. SumFunctionOnSet(one, S) = L
    <3>1. SumFunctionOnSet(one, S) = 1 * Cardinality(S)
      BY <1>2, <1>4, EqualSums
    <3>2. QED
      BY <1>2, <3>1
  <2>2. SumOver(S, weight) = Frac(L, 1)
    <3>1. \A i \in S : one[i] \in Nat /\ weight[i] = Frac(one[i], 1)
      BY <1>4
    <3>2. SumOver(S, weight) = Frac(SumFunctionOnSet(one, S), 1)
      BY <1>2, <3>1, SumOfNumerators
    <3>3. QED
      BY <2>1, <3>2
  <2>3. Frac(L * s, 1 * s) = Frac(L, 1) /\ 1 * s = s
    BY <1>2, Scaled
  <2>4. QED
    BY <2>2, <2>3
<1>7. Len(elected) = 0
  BY <1>1
<1>8. QuotasSpent
  <2>1. s - Len(elected) = s
    BY <1>2, <1>7
  <2>2. QED
    BY <1>6, <2>1 DEF QuotasSpent
<1>9. QED
  BY <1>5, <1>8 DEF QuotaInv

\* Every later seat.
LEMMA QuotaAllocate ==
  ASSUME TabulationInv, QuotaInv, Allocate
  PROVE  QuotaInv'
<1> DEFINE total == [c \in Cands(race) |->
                      SumOver(DOMAIN tally, [i \in DOMAIN tally |-> Worth(i, c)])]
           ties == {c \in Cands(race) : \A d \in Cands(race) : ~Less(total[c], total[d])}
           winner == Min(ties)
           worth == [i \in DOMAIN tally |-> Worth(i, winner)]
           L == Len(tally)
           s == race.seats
           j == s - Len(elected)
<1>1. /\ race.method = "STAR_PR" /\ Len(elected) < s
      /\ elected' = Append(elected, winner) /\ weight' = Spent(worth)
      /\ race' = race /\ tally' = tally
  BY DEF Allocate
<1> HIDE DEF total, ties, winner
<1>2. TabulationInv'
  BY AllocateInv
<1>3. TallyInv /\ IsTally(race, tally) /\ s \in Nat \ {0} /\ elected \in Seq(Cands(race))
      /\ DOMAIN weight = DOMAIN tally /\ \A i \in DOMAIN tally : weight[i] \in Weights
  BY <1>1 DEF TabulationInv, TallyInv, IsRace, SeatInv, ShareInv, QuotaInv
<1>4. Len(elected) \in Nat /\ Len(elected') = Len(elected) + 1 /\ winner \in Cands(race)
  <2>1. elected' \in Seq(Cands(race))
    BY <1>1, <1>2 DEF TabulationInv, SeatInv, Cands
  <2>2. Len(elected') = Len(elected) + 1 /\ elected'[Len(elected) + 1] = winner
    BY <1>1, <1>3
  <2>3. Len(elected) \in Nat
    BY <1>3
  <2>4. elected'[Len(elected) + 1] \in Cands(race)
    BY <2>1, <2>2, <2>3
  <2>5. QED
    BY <2>2, <2>3, <2>4
<1>5. \A i \in DOMAIN tally : worth[i] \in Lowest
  <2>1. TAKE i \in DOMAIN tally
  <2> DEFINE score == IF winner \in ToSet(elected) THEN 0 ELSE tally[i][winner]
             p == weight[i][1]
             q == weight[i][2]
  <2>2. score \in Int
    <3>1. tally[i][winner] \in 0..TopMark(race)
      BY <1>3, <1>4 DEF IsTally
    <3>2. QED
      BY <3>1
  <2>3. p \in Int /\ q \in Nat \ {0}
    <3>1. weight[i] \in Shares
      BY <1>3 DEF Weights
    <3>2. QED
      BY <3>1, SharesAreFractions
  <2>4. worth[i] = Frac(score * p, 1 * q)
    BY DEF Worth, Times
  <2> HIDE DEF score, p, q, worth
  <2>5. score * p \in Int /\ 1 * q \in Nat \ {0}
    BY <2>2, <2>3
  <2>6. QED
    BY <2>4, <2>5, FracLowest
<1>6. DOMAIN worth = DOMAIN tally
  OBVIOUS
<1>7. j \in Nat \ {0} /\ s - Len(elected') = j - 1
  BY <1>1, <1>3, <1>4
<1>8. SumOver(DOMAIN tally, weight) = Frac(L * j, s)
  <2>1. race.method = "STAR_PR"
    BY <1>1, Zenon
  <2>2. QuotasSpent
    BY <2>1, Zenon DEF QuotaInv
  <2>3. SumOver(DOMAIN tally, weight)
          = Frac(Len(tally) * (race.seats - Len(elected)), race.seats)
    BY <2>1, <2>2, Zenon DEF QuotasSpent
  <2>4. QED
    BY <2>3, Zenon
<1> HIDE DEF worth, L, j, s
<1>9. /\ \A i \in DOMAIN tally : Spent(worth)[i] \in Weights
      /\ SumOver(DOMAIN tally, Spent(worth)) = Frac(L * (j - 1), s)
  <2>1. SumOver(DOMAIN tally, weight) = Frac(Len(tally) * j, race.seats)
    BY <1>8 DEF L, s
  <2>2. /\ \A i \in DOMAIN tally : Spent(worth)[i] \in Weights
        /\ SumOver(DOMAIN tally, Spent(worth)) = Frac(Len(tally) * (j - 1), race.seats)
    BY <1>3, <1>5, <1>6, <1>7, <2>1, SpentQuota
  <2>3. QED
    BY <2>2 DEF L, s
<1>10. \A i \in DOMAIN tally' : weight'[i] \in Weights
  BY <1>1, <1>9
<1>11. QuotasSpent'
  <2>1. SumOver(DOMAIN tally, weight') = Frac(L * (s - Len(elected')), s)
    BY <1>1, <1>7, <1>9
  <2>2. SumOver(DOMAIN tally, weight)' = SumOver(DOMAIN tally, weight')
    BY <1>1 DEF SumOver
  <2>3. QED
    BY <1>1, <2>1, <2>2 DEF QuotasSpent, L, s
<1>12. QED
  BY <1>10, <1>11 DEF QuotaInv

------------------------------------------------------------------------------
(* The theorems. *)

\* Whatever the ballots, every state of a tabulation satisfies the invariant: the
\* tables are numbers, the lists name each candidate once, no operator is applied
\* where it has no value.
THEOREM TabulationInvariant == Spec => []TabulationInv
<1>1. Init => TabulationInv
  BY InitInv
<1>2. TabulationInv /\ [Next]_vars => TabulationInv'
  BY StepInv
<1>3. QED
  BY <1>1, <1>2, PTL DEF Spec

\* runBlocTabulator, IrvParent and AllocatedScore fill every seat, each by a
\* candidate of its own, but for the two cases SeatsFilled names.
THEOREM EverySeatFilled == Spec => []SeatsFilled
<1>1. TabulationInv => SeatsFilled
  <2>1. HAVE TabulationInv
  <2>2. /\ IsRace(race) /\ elected \in Seq(Cands(race)) /\ Len(elected) <= race.seats
        /\ Lists(race, remaining)
    BY <2>1 DEF TabulationInv, TallyInv, SeatInv
  <2>3. race.method \in Bloc \cup {"IRV", "STV", "STAR_PR"}
        /\ Len(elected) \in Nat /\ race.seats \in Nat
    BY <2>2 DEF IsRace
  <2>4. ASSUME NEW i \in DOMAIN elected, NEW j \in DOMAIN elected,
               i < j, elected[i] = elected[j]
        PROVE  race.method = "STAR_PR" /\ \A c \in Cands(race) : sums[j][c] = <<0, 1>>
    <3>1. DOMAIN elected = 1..Len(elected)
      BY <2>2
    <3>2. i # j
      BY <2>3, <2>4, <3>1
    <3>3. ~Distinct(elected)
      BY <2>4, <3>2 DEF Distinct
    <3>4. race.method = "STAR_PR"
      BY <2>1, <2>3, <3>3 DEF TabulationInv, BlocInv, CountInv
    <3>5. QED
      BY <2>1, <2>4, <3>4 DEF TabulationInv, ShareInv
  <2>5. ASSUME Done, Len(elected) # race.seats
        PROVE  race.method = "IRV" /\ \A c \in Cands(race) : Last(sums)[c] = 0
    <3>1. Len(elected) < race.seats
      BY <2>2, <2>3, <2>5
    <3>2. race.method \in {"IRV", "STV"} /\ remaining = <<>>
      BY <2>3, <2>5, <3>1 DEF Done
    <3>3. race.method # "STV"
      <4>1. Len(remaining) = 0
        BY <3>2
      <4>2. race.method = "STV" => Len(elected) + Len(remaining) >= race.seats
        BY <2>1, <3>1 DEF TabulationInv, StvInv
      <4>3. QED
        BY <2>3, <3>1, <4>1, <4>2
    <3>4. QED
      BY <2>1, <3>1, <3>2, <3>3 DEF TabulationInv, IrvInv
  <2>6. QED
    BY <2>2, <2>4, <2>5 DEF SeatsFilled
<1>2. QED
  BY <1>1, TabulationInvariant, PTL

\* Who wins the first seat of STAR: a finalist who may win against another.
LEMMA FirstStarSeat ==
  ASSUME TabulationInv, race.method = "STAR", race.cands > 1, elected # <<>>
  PROVE  \E x \in Cands(race) \ {elected[1]} :
           /\ elected[1] \in Cands(race)
           /\ MayWin(race, tally, elected[1], x)
           /\ \A f \in {elected[1], x}, y \in Cands(race) \ {elected[1], x} :
                MayAdvance(race, tally, Cands(race), f, y)
<1> DEFINE w == SingleWinner(race, tally, PreSorted(race, tally)).winner
<1>1. IsRace(race) /\ IsTally(race, tally)
  BY DEF TabulationInv, TallyInv
<1>2. elected[1] = w
  BY DEF TabulationInv, BlocInv, Bloc
<1>3. \E x \in Cands(race) \ {w} :
        /\ w \in Cands(race)
        /\ MayWin(race, tally, w, x)
        /\ \A f \in {w, x}, y \in Cands(race) \ {w, x} :
             MayAdvance(race, tally, Cands(race), f, y)
  BY <1>1, StarSeat
<1> HIDE DEF w
<1>4. QED
  BY <1>2, <1>3

\* Star.ts decides the first seat as docs/help/ties.md says, whatever the ballots.
THEOREM ProtocolFollowed == Spec => []StarFollowsProtocol
<1>1. TabulationInv => StarFollowsProtocol
  <2>1. HAVE TabulationInv
  <2>2. SUFFICES ASSUME race.method = "STAR", race.cands > 1, elected # <<>>
                 PROVE  StarFollowsProtocol
    BY DEF StarFollowsProtocol
  <2>3. PICK x \in Cands(race) \ {elected[1]} :
           /\ MayWin(race, tally, elected[1], x)
           /\ \A f \in {elected[1], x}, y \in Cands(race) \ {elected[1], x} :
                MayAdvance(race, tally, Cands(race), f, y)
    BY <2>1, <2>2, FirstStarSeat
  <2>4. QED
    BY <2>3 DEF StarFollowsProtocol, MayWin, MayAdvance, Beats
<1>2. QED
  BY <1>1, TabulationInvariant, PTL

\* Ranked Robin: who beats every other wins the first seat.
LEMMA CondorcetWins ==
  ASSUME TabulationInv, race.method = "RankedRobin", elected # <<>>,
         NEW c \in Cands(race) \ {elected[1]}
  PROVE  \E d \in Cands(race) \ {c} : ~Beats(c, d)
<1>1. SUFFICES ASSUME \A d \in Cands(race) \ {c} : Beats(c, d) PROVE FALSE
  OBVIOUS
<1>2. IsRace(race) /\ IsTally(race, tally)
  BY DEF TabulationInv, TallyInv
<1>3. \A x \in Cands(race) \ {c} : Copeland(race, tally, x) < Copeland(race, tally, c)
  BY <1>1, <1>2, BeatsAllLeads DEF Beats
<1>4. LeadsWins(race, tally, c)
  BY <1>3 DEF LeadsWins
<1>5. SingleWinner(race, tally, PreSorted(race, tally)).winner = c
  BY <1>2, <1>4, WinsSeat
<1>6. elected[1] = c
  BY <1>5 DEF TabulationInv, BlocInv, Bloc
<1>7. QED
  BY <1>6

\* STAR: the other finalist does not beat who wins the first seat.
LEMMA StarWinnerNotBeatenByAll ==
  ASSUME TabulationInv, race.method = "STAR", race.cands > 1, elected # <<>>
  PROVE  \E d \in Cands(race) \ {elected[1]} : ~Beats(d, elected[1])
<1>1. IsRace(race) /\ IsTally(race, tally)
  BY DEF TabulationInv, TallyInv
<1>2. PICK x \in Cands(race) \ {elected[1]} :
        elected[1] \in Cands(race) /\ MayWin(race, tally, elected[1], x)
  BY FirstStarSeat
<1>3. ~WinsAgainst(race, tally, x, elected[1])
  BY <1>1, <1>2, WinsAsymmetric DEF MayWin
<1>4. QED
  BY <1>2, <1>3 DEF Beats

\* RankedRobin.ts elects first whoever beats all others; Star.ts, and IRV.ts on
\* ballots with plain ranks, elect first nobody whom all others beat.
THEOREM HeadToHeadKept == Spec => []HeadToHeadRespected
<1>1. TabulationInv /\ PlainInv => HeadToHeadRespected
  <2>1. HAVE TabulationInv /\ PlainInv
  <2>2. SUFFICES ASSUME race.cands > 1, elected # <<>> PROVE HeadToHeadRespected
    BY DEF HeadToHeadRespected
  <2>3. ASSUME race.method = "RankedRobin", NEW c \in Cands(race) \ {elected[1]}
        PROVE  \E d \in Cands(race) \ {c} : ~Beats(c, d)
    BY <2>1, <2>2, <2>3, CondorcetWins
  <2>4. ASSUME race.method = "STAR"
        PROVE  \E d \in Cands(race) \ {elected[1]} : ~Beats(d, elected[1])
    BY <2>1, <2>2, <2>4, StarWinnerNotBeatenByAll
  <2>5. ASSUME race.method = "IRV", PlainRanks
        PROVE  \E d \in Cands(race) \ {elected[1]} : ~Beats(d, elected[1])
    BY <2>1, <2>2, <2>5 DEF PlainInv
  <2>6. QED
    BY <2>3, <2>4, <2>5 DEF HeadToHeadRespected
<1>2. Init => TabulationInv /\ PlainInv
  BY InitInv, PlainInit
<1>3. TabulationInv /\ PlainInv /\ [Next]_vars => TabulationInv' /\ PlainInv'
  BY StepInv, PlainStep
<1>4. QED
  BY <1>1, <1>2, <1>3, PTL DEF Spec

\* setTieBreak and the tabulators of the bloc methods: a result that does not say
\* "random" is the one every order of the candidates gives.
THEOREM TiesAreReported == Spec => []TiesReported
<1>1. TabulationInv => TiesReported
  <2>1. HAVE TabulationInv
  <2>2. SUFFICES ASSUME race.method \in Bloc, race.seats = 1, elected # <<>>,
                        tieBreak # "random",
                        NEW p \in Bijection(Cands(race), Cands(race))
                 PROVE  LET shuffled == [i \in DOMAIN tally |->
                                          [c \in Cands(race) |-> tally[i][p[c]]]]
                        IN p[SingleWinner(race, shuffled, PreSorted(race, shuffled)).winner]
                             = elected[1]
    BY DEF TiesReported
  <2> DEFINE s == Shuffled(race, tally, p)
             won == SingleWinner(race, tally, PreSorted(race, tally))
  <2>3. IsRace(race) /\ IsTally(race, tally)
    BY <2>1 DEF TabulationInv, TallyInv
  <2>4. elected[1] = won.winner /\ tieBreak = won.tie
    BY <2>1, <2>2 DEF TabulationInv, BlocInv
  <2>5. won.tie # "random"
    BY <2>2, <2>4
  <2>6. s = Shuffled(race, tally, p)
    OBVIOUS
  <2> HIDE DEF s
  <2>7. p[SingleWinner(race, s, PreSorted(race, s)).winner] = won.winner
    BY <2>2, <2>3, <2>5, <2>6, FirstSeatUnshuffled
  <2>8. QED
    BY <2>4, <2>7 DEF s, Shuffled
<1>2. QED
  BY <1>1, TabulationInvariant, PTL

\* AllocatedScore: whatever the ballots, each seat takes exactly one quota of
\* weight from them.
THEOREM QuotaPerSeat == Spec => []QuotasSpent
<1>1. Init => QuotaInv
  BY QuotaInit
<1>2. TabulationInv /\ QuotaInv /\ [Next]_vars => QuotaInv'
  <2>1. SUFFICES ASSUME TabulationInv, QuotaInv, [Next]_vars PROVE QuotaInv'
    OBVIOUS
  <2>2. CASE Allocate
    BY <2>1, <2>2, QuotaAllocate
  <2>3. CASE BlocRound \/ Elect \/ Fill \/ Eliminate
    <3>1. race.method # "STAR_PR" /\ race' = race
      BY <2>3 DEF BlocRound, Elect, Fill, Eliminate, Counting, Bloc
    <3>2. QED
      BY <3>1 DEF QuotaInv
  <2>4. CASE Return \/ UNCHANGED vars
    <3>1. UNCHANGED <<race, tally, weight, elected>>
      BY <2>4 DEF Return, vars
    <3>2. QED
      BY <2>1, <3>1 DEF QuotaInv, QuotasSpent, SumOver
  <2>5. QED
    BY <2>1, <2>2, <2>3, <2>4 DEF Next
<1>3. QuotaInv => QuotasSpent
  BY DEF QuotaInv, QuotasSpent
<1>4. QED
  BY <1>1, <1>2, <1>3, TabulationInvariant, PTL DEF Spec

\* Voters who rank some candidates above all others get them the first IRV seat if
\* they are a majority, and an STV seat for each quota they fill: for any ballots
\* in IRV, and in STV for so few that all transfers together cannot round a vote
\* away.
THEOREM CoalitionsAreSeated ==
  Spec => []((race.method = "STV" => FewBallots) => CoalitionsSeated)
<1>1. TabulationInv /\ PlainInv /\ CoalitionInv /\ DroopInv =>
        ((race.method = "STV" => FewBallots) => CoalitionsSeated)
  <2> SUFFICES ASSUME TabulationInv, PlainInv, CoalitionInv, DroopInv,
                      race.method = "STV" => FewBallots,
                      race.method \in {"IRV", "STV"}, PlainRanks, elected # <<>>,
                      NEW S \in (SUBSET Cands(race)) \ {{}}
               PROVE  IF Proportional
                      THEN Len(elected) = race.seats =>
                             \A k \in 1..Cardinality(S) :
                               Cardinality(Solid(S)) >= k * Quota(0) =>
                                 Cardinality(S \cap ToSet(elected)) >= k
                      ELSE 2 * Cardinality(Solid(S)) > Len(tally) => elected[1] \in S
    BY DEF CoalitionsSeated, Solid
  <2>1. TallyInv /\ SeatInv /\ S \in SUBSET Cands(race) /\ S # {}
    BY DEF TabulationInv
  <2>2. CASE race.method = "IRV"
    <3>1. ~Proportional
      BY <2>2 DEF Proportional
    <3>2. CASE S = Cands(race)
      <4>1. elected \in Seq(Cands(race))
        BY <2>1 DEF SeatInv
      <4>2. elected[1] \in Cands(race)
        BY <4>1
      <4>3. QED
        BY <3>1, <3>2, <4>2
    <3>3. CASE S # Cands(race)
      <4>1. race.cands > 1
        <5>1. race.cands \in Nat /\ race.cands # 0
          BY <2>1, CandsFinite DEF TallyInv
        <5>2. race.cands # 1
          <6>1. SUFFICES ASSUME race.cands = 1 PROVE FALSE
            OBVIOUS
          <6>2. Cands(race) = {1}
            BY <6>1 DEF Cands
          <6>3. QED
            BY <2>1, <3>3, <6>2
        <5>3. QED
          BY <5>1, <5>2
      <4>2. S \in (SUBSET Cands(race)) \ {{}, Cands(race)}
        BY <2>1, <3>3
      <4>3. 2 * Cardinality(Solid(S)) > Len(tally) => elected[1] \in S
        BY <2>2, <4>1, <4>2 DEF CoalitionInv
      <4>4. QED
        BY <3>1, <4>3
    <3>4. QED
      BY <3>2, <3>3
  <2>3. CASE race.method = "STV"
    <3>1. PlainStv /\ Proportional /\ FewBallots
      BY <2>3 DEF PlainStv, Proportional
    <3>2. SUFFICES ASSUME Len(elected) = race.seats, NEW k \in 1..Cardinality(S),
                          Cardinality(Solid(S)) >= k * Quota(0)
                   PROVE  Cardinality(S \cap ToSet(elected)) >= k
      BY <3>1
    <3>3. race.seats \in Nat /\ k \in Nat /\ Quota(0) \in Nat
      <4>1. k \in Nat
        BY <3>2
      <4>2. QED
        BY <2>1, <2>3, <4>1, QuotaIsDroop
    <3>4. CASE S = Cands(race)
      <4>1. Len(tally) >= k * Quota(0)
        <5>1. /\ Solid(S) \in SUBSET (1..Len(tally)) /\ Len(tally) \in Nat
          BY <2>1, <2>3, SolidFacts, BallotsFinite DEF TallyInv
        <5>2. Cardinality(Solid(S)) \in Nat /\ Cardinality(Solid(S)) <= Len(tally)
          BY <5>1, Places
        <5> DEFINE need == k * Quota(0)
        <5>3. need \in Int /\ Cardinality(Solid(S)) >= need
          BY <3>2, <3>3
        <5> HIDE DEF need
        <5>4. Len(tally) >= need
          BY <5>1, <5>2, <5>3
        <5>5. QED
          BY <5>4 DEF need
      <4>2. QED
        BY <3>1, <3>2, <3>3, <3>4, <4>1, AllAreSeated
    <3>5. CASE S # Cands(race)
      <4>1. Entitled(S, k)
        BY <2>1, <3>2, <3>5 DEF Entitled
      <4>2. Kept(S, k)
        BY <3>1, <4>1 DEF DroopInv, PlainStv
      <4>3. ~(Len(elected) < race.seats)
        BY <3>2, <3>3
      <4>4. QED
        BY <4>2, <4>3 DEF Kept, SeatedOf
    <3>6. QED
      BY <3>4, <3>5
  <2>4. QED
    BY <2>2, <2>3
<1>2. Init => PlainInv /\ CoalitionInv /\ DroopInv
  BY PlainInit, CoalitionInit, DroopInit
<1>3. TabulationInv /\ PlainInv /\ CoalitionInv /\ DroopInv /\ [Next]_vars =>
        PlainInv' /\ CoalitionInv' /\ DroopInv'
  BY PlainStep, CoalitionStep, DroopStep
<1>4. QED
  BY <1>1, <1>2, <1>3, TabulationInvariant, PTL DEF Spec

=============================================================================
