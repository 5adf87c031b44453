---------------------------- MODULE TabulationMC ----------------------------
(***************************************************************************)
(* Small electorates for Tabulation: for each race every collection of so  *)
(* many ballots of the kinds given.  The order of the ballots does not     *)
(* matter to the tabulators, so a collection is listed once.               *)
(***************************************************************************)
EXTENDS Tabulation, TLC

CONSTANTS Few, Many

Ballot(marks, o) == [marks |-> marks, over |-> o]

Complete(n, S) == {Ballot(m, 0) : m \in [1..n -> S]}

\* All orders of three candidates, with the last ones left out or not.
Rankings ==
  {Ballot([c \in 1..3 |-> IF p[c] > k THEN 0 ELSE p[c]], 0) :
     p \in Permutations(1..3), k \in 1..3}

\* Equal and skipped ranks, an overvote found by an upload, an empty ballot, a
\* ballot that does not mention the last candidate, a mark out of bounds.
Odd == {Ballot(<<1, 1, 2>>, 0), Ballot(<<2, 1, 2>>, 2), Ballot(<<3, 0, 0>>, 0),
        Ballot(<<0, 0, 0>>, 0), Ballot(<<0, 1>>, 0), Ballot(<<1, 9, 2>>, 0)}

\* An order of the kinds.
Code(b) == FoldLeft(LAMBDA n, m : 10 * n + m, b.over, b.marks)

Collections(n, kinds) ==
  LET F[m \in 0..n] ==
        IF m = 0 THEN {<<>>}
        ELSE UNION {{Append(s, k) : k \in {b \in kinds :
                       s = <<>> \/ Code(b) >= Code(Last(s))}} : s \in F[m - 1]}
  IN F[n]

Poll(method, cands, seats, skips, n, kinds) ==
  {[race |-> [method |-> method, cands |-> cands, seats |-> seats,
              maxRank |-> 3, skips |-> skips],
    votes |-> v] : v \in Collections(n, kinds)}

Electorates ==
  {Poll("STAR", 4, 1, 9, Few + 1, Complete(4, {0, 5}))}
    \cup {Poll("STAR", 3, s, 9, Few, Complete(3, {0, 2, 5}) \cup Odd) : s \in 1..2}
    \cup {Poll(m, 3, s, 9, Few, Complete(3, {0, 1}) \cup Odd) :
            m \in {"Approval", "Plurality"}, s \in 1..2}
    \cup {Poll(m, 3, s, 9, Few, Rankings \cup Odd) :
            m \in {"RankedRobin", "IRV", "STV"}, s \in 1..2}
    \cup {Poll("IRV", 3, 2, 1, Few, Rankings \cup Odd)}
    \cup {Poll("IRV", 3, 1, 9, Many, Rankings), Poll("STV", 3, 2, 9, Many, Rankings)}
    \cup {Poll("STAR_PR", 3, 2, 9, Few, Complete(3, {0, 2, 5}))}
    \cup {Poll("STAR_PR", 3, s, 9, Many, Complete(3, {0, 5})) : s \in 2..3}

=============================================================================
