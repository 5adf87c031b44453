----------------------------- MODULE Tabulation -----------------------------
(***************************************************************************)
(* The seven tabulators of the backend (Tabulators/*.ts), from the raw     *)
(* votes of one race to the elected candidates: the filter on the ballots, *)
(* the tables every method shares, and the rounds.  A behaviour is one     *)
(* tabulation; a step is one round.                                        *)
(*                                                                         *)
(* A candidate is its place in the random tie-break order, which           *)
(* shuffleCandidatesForRandomTiebreak makes its tieBreakOrder.  The marks  *)
(* of a ballot are a function on the candidates the ballot mentions; a     *)
(* mark of null counts as 0 everywhere and is 0 here.                      *)
(***************************************************************************)
EXTENDS Integers, Sequences, FiniteSets, SequencesExt, FiniteSetsExt, Arrays

CONSTANTS
  Polls,      \* sets of elections: what one may tabulate, a race and its raw votes
  Unit        \* one vote, in the steps a weight of STV is rounded down to

VARIABLES
  race,       \* [method, cands, seats, maxRank, skips]
  tally,      \* the marks of the ballots that count, one function per ballot
  over,       \* their overvote_rank, 0 when it is not set
  remaining,  \* remainingCandidates, in the order of the array
  elected,    \* results.elected
  tieBreak,   \* results.tieBreakType
  sums,       \* per round: hareScores (IRV, STV), weighted_sums (STAR_PR)
  pile,       \* the candidate that holds the ballot, 0: none (IRV, STV)
  pool,       \* the ballots in weightedVotes (IRV, STV)
  weight      \* weight of each ballot: units (STV), a fraction (STAR_PR)

vars ==
  <<race, tally, over, remaining, elected, tieBreak, sums, pile, pool, weight>>

Bloc == {"STAR", "Approval", "Plurality", "RankedRobin"}

Cands(r) == 1..r.cands

\* The race editor refuses more seats than candidates, the settings page more
\* than eight ranks, or as many as it is built for; Place needs fewer than 1000.
PollsAssumption ==
  \A poll \in Polls : \A e \in poll :
    /\ e.race \in [method : Bloc \cup {"IRV", "STV", "STAR_PR"}, cands : Nat,
                   seats : Nat \ {0}, maxRank : Nat, skips : Nat]
    /\ e.race.seats <= e.race.cands /\ e.race.maxRank < 1000
    /\ e.votes \in Seq(ToSet(e.votes))
    /\ \A v \in ToSet(e.votes) :
         /\ DOMAIN v.marks \subseteq Cands(e.race)
         /\ \A c \in DOMAIN v.marks : v.marks[c] \in Int
         /\ v.over \in Nat

ASSUME TabulationAssumption == PollsAssumption /\ Unit \in Nat \ {0}

------------------------------------------------------------------------------
(* Arrays in order. *)

\* filter: the entries that are not in S, in their order (SelectSeq, of which
\* nothing can be proved, is recursive).
Without(cs, S) ==
  LET kept == Ascending({i \in DOMAIN cs : cs[i] \notin S})
  IN [k \in DOMAIN kept |-> cs[kept[k]]]

------------------------------------------------------------------------------
(* The ballots that count. *)

TopMark(r) ==
  CASE r.method \in {"STAR", "STAR_PR"} -> 5
    [] r.method \in {"Approval", "Plurality"} -> 1
    [] OTHER -> r.maxRank

OutOfBounds(r, v) == \E c \in DOMAIN v.marks : v.marks[c] \notin 0..TopMark(r)

\* Only the candidates the ballot mentions are compared.
Abstains(r, v) ==
  \A c, d \in DOMAIN v.marks :
    v.marks[c] = (IF r.method \in {"STAR", "STAR_PR"} THEN v.marks[d] ELSE 0)

Overvotes(r, v) ==
  /\ r.method = "Plurality"
  /\ MapThenSumSet(LAMBDA c : v.marks[c], DOMAIN v.marks) > 1

Counts(r, v) == ~OutOfBounds(r, v) /\ ~Abstains(r, v) /\ ~Overvotes(r, v)

Filled(r, v) ==
  [c \in Cands(r) |-> IF c \in DOMAIN v.marks THEN v.marks[c] ELSE 0]

Counted(r, votes) == Ascending({i \in DOMAIN votes : Counts(r, votes[i])})

TallyVotes(r, votes) ==
  LET counted == Counted(r, votes)
  IN [i \in DOMAIN counted |-> Filled(r, votes[counted[i]])]

------------------------------------------------------------------------------
(* The tables of getSummaryData. *)

Ordinal(r) == r.method \in {"RankedRobin", "IRV", "STV"}

\* remapZero: no rank is the last place.
Place(rank) == IF rank = 0 THEN 1000 ELSE rank

Prefers(r, marks, a, b) ==
  IF Ordinal(r) THEN Place(marks[a]) < Place(marks[b]) ELSE marks[a] > marks[b]

PreferredOver(r, t, a, b) == Cardinality({i \in DOMAIN t : Prefers(r, t[i], a, b)})

WinsAgainst(r, t, a, b) == PreferredOver(r, t, a, b) > PreferredOver(r, t, b, a)

Score(t, c) == SumFunction([i \in DOMAIN t |-> t[i][c]])

FiveStars(t, c) == Cardinality({i \in DOMAIN t : t[i][c] = 5})

\* Twice the Copeland score, to stay with integers.
Copeland(r, t, c) ==
  LET others == Cands(r) \ {c}
  IN Cardinality({o \in others : WinsAgainst(r, t, c, o)})
     + Cardinality({o \in others : ~WinsAgainst(r, t, o, c)})

\* sortCandidates: higher first, then the tie-break order.
Sorted(S, field) ==
  InOrder(S, [c \in S |-> {d \in S :
    field[d] > field[c] \/ (field[d] = field[c] /\ d < c)}])

\* Mistake: no field to sort by.
PreSortedByLot(r, t) == [c \in Cands(r) |-> c]

PreSorted(r, t) ==
  CASE r.method \in {"STAR", "Approval", "Plurality"} ->
         Sorted(Cands(r), [c \in Cands(r) |-> Score(t, c)])
    [] r.method = "RankedRobin" ->
         Sorted(Cands(r), [c \in Cands(r) |-> Copeland(r, t, c)])
    [] OTHER -> [c \in Cands(r) |-> c]

------------------------------------------------------------------------------
(* One seat of a bloc tabulator: the winner and how ties were broken. *)

Won(c, tie) == [winner |-> c, tie |-> tie]

\* singleWinnerApproval and singleWinnerPlurality
MostScore(t, cs) ==
  Won(cs[1], IF \E c \in ToSet(Tail(cs)) : Score(t, c) = Score(t, cs[1])
             THEN "random" ELSE "none")

MostWins(r, t, cs) ==
  LET tied == {c \in ToSet(cs) : Copeland(r, t, c) = Copeland(r, t, cs[1])}
      better == {c \in tied : \E d \in tied : WinsAgainst(r, t, c, d)}
  IN CASE Cardinality(tied) = 1 -> Won(cs[1], "none")
       [] Cardinality(tied) = 2 /\ better # {} ->
            Won(CHOOSE c \in better : TRUE, "none")
       [] OTHER -> Won(Min(tied), "random")

\* The five-star tiebreak takes from the head of the tied candidates while it
\* leads strictly; the random one fills what is left.
FiveStarFinalists(t, first, tied) ==
  LET five == Sorted(tied, [c \in tied |-> FiveStars(t, c)])
      leads(i) == FiveStars(t, five[i]) > FiveStars(t, five[i + 1])
      need == 2 - Len(first)
  IN [pair |-> first \o SubSeq(five, 1, need),
      tie  |-> IF \A i \in 1..need : leads(i) THEN "five_star" ELSE "random"]

\* getScoringRoundFinalists
Finalists(r, t, cs) ==
  LET second == Score(t, cs[2])
      tied == {c \in ToSet(cs) : Score(t, c) = second}
      better == {c \in tied : \E d \in tied : WinsAgainst(r, t, c, d)}
      first == IF Score(t, cs[1]) > second THEN <<cs[1]>> ELSE <<>>
      clear == Len(cs) = 2 \/ Score(t, cs[3]) # second
  IN CASE clear -> [pair |-> SubSeq(cs, 1, 2), tie |-> "none"]
       [] ~clear /\ Cardinality(tied) = 2 /\ better # {} ->
            [pair |-> <<cs[1], CHOOSE c \in better : TRUE>>, tie |-> "head_to_head"]
       [] OTHER -> FiveStarFinalists(t, first, tied)

\* Mistake: the later tie break replaces the earlier one.
MoreExtremeLast(a, b) == b

\* setTieBreak keeps the more extreme of two tie breaks.
MoreExtreme(a, b) ==
  LET priority == <<"none", "score", "head_to_head", "five_star", "random">>
      at(x) == CHOOSE i \in DOMAIN priority : priority[i] = x
  IN IF at(a) > at(b) THEN a ELSE b

\* Mistake: the higher score wins the runoff.
RunoffByScore(r, t, pair, tie) ==
  Won(IF Score(t, pair[1]) >= Score(t, pair[2]) THEN pair[1] ELSE pair[2], tie)

\* getRunoffResults
Runoff(r, t, pair, tie) ==
  LET l == pair[1]
      h == pair[2]
      higher(Field(_)) == IF Field(l) > Field(h) THEN l ELSE h
      differ(Field(_)) == Field(l) # Field(h)
      score(c) == Score(t, c)
      five(c) == FiveStars(t, c)
  IN CASE WinsAgainst(r, t, l, h) -> Won(l, tie)
       [] WinsAgainst(r, t, h, l) -> Won(h, tie)
       [] OTHER ->
            CASE differ(score) -> Won(higher(score), MoreExtreme(tie, "score"))
              [] ~differ(score) /\ differ(five) ->
                   Won(higher(five), MoreExtreme(tie, "five_star"))
              [] OTHER -> Won(Min({l, h}), "random")

StarWinner(r, t, cs) ==
  LET f == Finalists(r, t, cs) IN Runoff(r, t, f.pair, f.tie)

SingleWinner(r, t, cs) ==
  CASE r.method \in {"Approval", "Plurality"} -> MostScore(t, cs)
    [] r.method = "STAR" ->
         IF Len(cs) = 1 THEN Won(cs[1], "none") ELSE StarWinner(r, t, cs)
    [] r.method = "RankedRobin" -> MostWins(r, t, cs)

\* runBlocTabulator: the tie of the last seat only is kept.
BlocRound ==
  LET won == SingleWinner(race, tally, remaining)
  IN /\ race.method \in Bloc
     /\ Len(elected) < race.seats
     /\ elected' = Append(elected, won.winner)
     /\ remaining' = Without(remaining, {won.winner})
     /\ tieBreak' = IF Len(elected') = race.seats THEN won.tie ELSE tieBreak
     /\ UNCHANGED <<race, tally, over, sums, pile, pool, weight>>

------------------------------------------------------------------------------
(* IRV and STV. *)

Proportional == race.method = "STV"

\* The candidate a ballot goes to, 0 when it is exhausted.  Of equal ranks the
\* last in the array is taken, and a rank after the overvote counts as it.
Receiver(r, cs, marks, o) ==
  LET best == cs[Max({i \in DOMAIN cs :
                \A c \in ToSet(cs) : Place(marks[cs[i]]) <= Place(marks[c])})]
      rank == IF o # 0 /\ marks[best] > o THEN o ELSE marks[best]
      before == Max({0} \cup {marks[c] : c \in {d \in Cands(r) : marks[d] < rank}})
  IN IF cs = <<>> THEN 0
     ELSE IF rank = 0 \/ rank - before > r.skips \/ (o # 0 /\ rank = o)
     THEN 0 ELSE best

\* distributeVotes for the ballots of bs, to the candidates cs.
Distribute(cs, bs, piles) ==
  [i \in DOMAIN piles |->
    IF i \in bs THEN Receiver(race, cs, tally[i], over[i]) ELSE piles[i]]

PileOf(c) == {i \in DOMAIN pile : pile[i] = c}

Hare == [c \in Cands(race) |-> SumFunctionOnSet(weight, PileOf(c))]

\* Lexicographic, the latest round first, then the tie-break order.
ByHare(cs, rounds) ==
  LET before(a, b) ==
        \/ \E k \in DOMAIN rounds :
             /\ rounds[k][a] > rounds[k][b]
             /\ \A l \in DOMAIN rounds : l > k => rounds[l][a] = rounds[l][b]
        \/ a < b /\ \A k \in DOMAIN rounds : rounds[k][a] = rounds[k][b]
  IN InOrder(ToSet(cs), [c \in ToSet(cs) |-> {d \in ToSet(cs) : before(d, c)}])

Quota(active) ==
  IF Proportional THEN Len(tally) \div (race.seats + 1) + 1
                  ELSE (active \div Unit) \div 2 + 1

\* What every round starts with: the counts, the order, the quota.
Rounds == Append(sums, Hare)

Order == ByHare(remaining, Rounds)

Reached ==
  Hare[Order[1]] >= Unit * Quota(SumFunctionOnSet(Hare, ToSet(remaining)))

Counting ==
  /\ race.method \in {"IRV", "STV"}
  /\ Len(elected) < race.seats
  /\ remaining # <<>>
  /\ sums' = Rounds
  /\ UNCHANGED <<race, tally, over>>

FirstTwoTied == Len(Order) > 1 /\ Hare[Order[1]] = Hare[Order[2]]

\* Mistake: the ballots of a winner are used up.
SurplusLost(c) == [i \in DOMAIN weight |-> IF i \in PileOf(c) THEN 0 ELSE weight[i]]

\* The ballots of the winner keep the share of their weight above the quota.
Surplus(c) ==
  LET above == Hare[c] - Quota(0) * Unit
  IN [i \in DOMAIN weight |->
       IF i \in PileOf(c) THEN (weight[i] * above) \div Hare[c] ELSE weight[i]]

TransferSurplus(top) ==
  /\ remaining' = Tail(Order)
  /\ weight' = Surplus(top)
  /\ pile' = Distribute(remaining', PileOf(top), pile)
  /\ pool' = pool

\* The next seat starts over with everybody who is not elected.
StartOver ==
  /\ remaining' = Without(PreSorted(race, tally), ToSet(elected'))
  /\ pile' = Distribute(remaining', pool, [i \in DOMAIN pile |-> 0])
  /\ pool' = {i \in pool : pile'[i] # 0}
  /\ weight' = weight

Elect ==
  /\ Counting
  /\ Reached
  /\ elected' = Append(elected, Order[1])
  /\ tieBreak' = IF FirstTwoTied THEN "random" ELSE tieBreak
  /\ IF Proportional THEN TransferSurplus(Order[1]) ELSE StartOver

\* Mistake: off by one.
LastSeatsLate == Proportional /\ Len(remaining) < race.seats - Len(elected)

LastSeats == Proportional /\ Len(remaining) <= race.seats - Len(elected)

Fill ==
  /\ Counting
  /\ ~Reached
  /\ LastSeats
  /\ elected' = elected \o Order
  /\ UNCHANGED <<remaining, tieBreak, pile, pool, weight>>

Eliminate ==
  /\ Counting
  /\ ~Reached
  /\ ~LastSeats
  /\ remaining' = Front(Order)
  /\ tieBreak' = IF Len(Order) = 2 /\ FirstTwoTied THEN "random" ELSE tieBreak
  /\ pile' = Distribute(remaining', PileOf(Last(Order)), pile)
  /\ UNCHANGED <<elected, pool, weight>>

------------------------------------------------------------------------------
(* STAR_PR.  Weights are exact fractions <<numerator, denominator>>. *)

Frac(n, d) ==
  LET common == Max({k \in 1..d : n % k = 0 /\ d % k = 0})
  IN <<n \div common, d \div common>>

Plus(x, y) == Frac(x[1] * y[2] + y[1] * x[2], x[2] * y[2])

Minus(x, y) == Frac(x[1] * y[2] - y[1] * x[2], x[2] * y[2])

Times(x, y) == Frac(x[1] * y[1], x[2] * y[2])

Over(x, y) == Frac(x[1] * y[2], x[2] * y[1])

Less(x, y) == x[1] * y[2] < y[1] * x[2]

SumOver(S, value) == FoldFunctionOnSet(Plus, <<0, 1>>, value, S)

\* The score a ballot gives c, none once c is elected.
Worth(i, c) ==
  Times(<<IF c \in ToSet(elected) THEN 0 ELSE tally[i][c], 1>>, weight[i])

Seat == Frac(Len(tally), race.seats)

\* findSplitPoint: the highest worth such that the ballots worth as much or
\* more weigh a quota, else the lowest.
SplitPoint(worth) ==
  LET reaches(s) ==
        ~Less(SumOver({i \in DOMAIN worth : ~Less(worth[i], s)}, weight), Seat)
      values == {worth[i] : i \in DOMAIN worth}
      full == {s \in values : reaches(s)}
  IN CASE values = {} -> <<0, 1>>
       [] full # {} -> CHOOSE s \in full : \A u \in full : ~Less(s, u)
       [] OTHER -> CHOOSE s \in values : \A u \in values : ~Less(u, s)

Clamped(x) ==
  CASE x[1] < 0 -> <<0, 1>> [] Less(<<1, 1>>, x) -> <<1, 1>> [] OTHER -> x

\* Mistake: the ballots on the split point are used up too.
SpentOnSplit(worth) ==
  LET split == SplitPoint(worth)
  IN [i \in DOMAIN worth |-> IF Less(worth[i], split) THEN weight[i] ELSE <<0, 1>>]

\* updateBallotWeights: the ballots above the split point are used up, those on
\* it pay the rest of the quota together.
Spent(worth) ==
  LET split == SplitPoint(worth)
      above == {i \in DOMAIN worth : Less(split, worth[i])}
      at == {i \in DOMAIN worth : worth[i] = split}
      weightOf(S) == SumOver(S, weight)
      share == Over(Minus(Seat, weightOf(above)), weightOf(at))
      kept == Minus(<<1, 1>>, share)
  IN [i \in DOMAIN worth |->
       CASE i \in above -> <<0, 1>>
         [] i \in at /\ weightOf(at)[1] > 0 ->
              Clamped(Times(weight[i], kept))
         [] OTHER -> weight[i]]

\* The tie list of a round, which always has its winner, is collected; at the
\* end the result is a random tie if the list has an elected candidate.
Allocate ==
  LET total == [c \in Cands(race) |->
                 SumOver(DOMAIN tally, [i \in DOMAIN tally |-> Worth(i, c)])]
      ties == {c \in Cands(race) : \A d \in Cands(race) : ~Less(total[c], total[d])}
      winner == Min(ties)
  IN /\ race.method = "STAR_PR"
     /\ Len(elected) < race.seats
     /\ sums' = Append(sums, total)
     /\ elected' = Append(elected, winner)
     /\ remaining' = Without(remaining, {winner})
     /\ weight' = Spent([i \in DOMAIN tally |-> Worth(i, winner)])
     /\ tieBreak' = IF winner \in ties THEN "random" ELSE tieBreak
     /\ UNCHANGED <<race, tally, over, pile, pool>>

------------------------------------------------------------------------------

\* The tabulator is called: the ballots are filtered, IRV and STV hand each to
\* its first candidate.
Init ==
  \E poll \in Polls : \E e \in poll :
    LET counted == Counted(e.race, e.votes)
        first == PreSorted(e.race, TallyVotes(e.race, e.votes))
    IN /\ race = e.race
       /\ tally = TallyVotes(race, e.votes)
       /\ over = [i \in DOMAIN tally |-> e.votes[counted[i]].over]
       /\ remaining = first
       /\ elected = <<>> /\ sums = <<>> /\ tieBreak = "none"
       /\ pile = IF race.method \in {"IRV", "STV"}
                 THEN [i \in DOMAIN tally |->
                        Receiver(race, remaining, tally[i], over[i])]
                 ELSE <<>>
       /\ pool = {i \in DOMAIN pile : pile[i] # 0}
       /\ weight = CASE race.method \in {"IRV", "STV"} -> [i \in DOMAIN tally |-> Unit]
                     [] race.method = "STAR_PR" -> [i \in DOMAIN tally |-> <<1, 1>>]
                     [] OTHER -> <<>>

Done ==
  \/ Len(elected) >= race.seats
  \/ race.method \in {"IRV", "STV"} /\ remaining = <<>>

\* The result is returned.
Return == Done /\ UNCHANGED vars

Next == BlocRound \/ Elect \/ Fill \/ Eliminate \/ Allocate \/ Return

Spec == Init /\ [][Next]_vars

------------------------------------------------------------------------------
(* Properties. *)

Beats(a, b) == WinsAgainst(race, tally, a, b)

\* Every seat is filled by a candidate of its own; STAR_PR elects someone twice
\* only when no ballot has support left, IRV leaves a seat empty only when no
\* ballot is active.
SeatsFilled ==
  /\ Len(elected) <= race.seats
  /\ \A i, j \in DOMAIN elected :
       i < j /\ elected[i] = elected[j] =>
         race.method = "STAR_PR" /\ \A c \in Cands(race) : sums[j][c] = <<0, 1>>
  /\ Done =>
       \/ Len(elected) = race.seats
       \/ race.method = "IRV" /\ \A c \in Cands(race) : Last(sums)[c] = 0

\* The first STAR seat is decided as docs/help/ties.md says: two finalists whom
\* no other candidate should have replaced, and the one who wins the runoff.
StarFollowsProtocol ==
  LET S(c) == Score(tally, c)
      F(c) == FiveStars(tally, c)
      mayAdvance(f, x) ==
        LET level == {c \in Cands(race) : S(c) = S(f)}
        IN \/ S(f) > S(x)
           \/ S(f) = S(x) /\ IF /\ Cardinality(level) = 2
                              /\ \E a, b \in level : Beats(a, b)
                           THEN Beats(f, x) ELSE F(f) >= F(x)
      mayWin(w, r) ==
        \/ Beats(w, r)
        \/ ~Beats(r, w) /\ (S(w) > S(r) \/ (S(w) = S(r) /\ F(w) >= F(r)))
  IN race.method = "STAR" /\ race.cands > 1 /\ elected # <<>> =>
       \E r \in Cands(race) \ {elected[1]} :
         /\ mayWin(elected[1], r)
         /\ \A f \in {elected[1], r}, x \in Cands(race) \ {elected[1], r} :
              mayAdvance(f, x)

\* Ranked ballots as the instructions ask for: no rank twice, nothing skipped
\* that exhausts.
PlainRanks ==
  /\ race.skips >= race.maxRank
  /\ \A i \in DOMAIN tally :
       /\ over[i] = 0
       /\ \A a, b \in Cands(race) :
            a # b /\ tally[i][a] = tally[i][b] => tally[i][a] = 0

\* A candidate who beats every other wins the first Ranked Robin seat; one whom
\* every other beats wins no first seat in STAR, nor in IRV with plain ranks.
HeadToHeadRespected ==
  race.cands > 1 /\ elected # <<>> =>
    LET others(c) == Cands(race) \ {c}
    IN /\ race.method = "RankedRobin" =>
            \A c \in others(elected[1]) : \E d \in others(c) : ~Beats(c, d)
       /\ race.method = "STAR" \/ (race.method = "IRV" /\ PlainRanks) =>
            \E d \in others(elected[1]) : ~Beats(d, elected[1])

\* Voters who rank the candidates of S above all others get as many of S
\* elected as they fill quotas (STV), the first seat if they are a majority
\* (IRV), whatever is eliminated and however weights are rounded.
CoalitionsSeated ==
  LET solid(S) ==
        Cardinality({i \in DOMAIN tally :
          \A a \in S, b \in Cands(race) \ S :
            Place(tally[i][a]) < Place(tally[i][b])})
      seated(S) == Cardinality(S \cap ToSet(elected))
  IN race.method \in {"IRV", "STV"} /\ PlainRanks /\ elected # <<>> =>
       \A S \in (SUBSET Cands(race)) \ {{}} :
         IF Proportional
         THEN Len(elected) = race.seats =>
                \A k \in 1..Cardinality(S) :
                  solid(S) >= k * Quota(0) => seated(S) >= k
         ELSE 2 * solid(S) > Len(tally) => elected[1] \in S

\* Each Proportional STAR seat takes exactly one quota of weight from the
\* ballots, whatever the split point.
QuotasSpent ==
  race.method = "STAR_PR" =>
    SumOver(DOMAIN tally, weight)
      = Frac(Len(tally) * (race.seats - Len(elected)), race.seats)

\* Unless the result says "random", the only seat of a bloc method does not
\* depend on the shuffled order: any other order elects the same candidate.
TiesReported ==
  race.method \in Bloc /\ race.seats = 1 /\ elected # <<>> /\ tieBreak # "random" =>
    \A p \in Bijection(Cands(race), Cands(race)) :
      LET shuffled == [i \in DOMAIN tally |-> [c \in Cands(race) |-> tally[i][p[c]]]]
      IN p[SingleWinner(race, shuffled, PreSorted(race, shuffled)).winner] = elected[1]

\* "... won after tiebreaker": a Proportional STAR result that says random has a
\* round in which two candidates led together.
RandomMeansTied ==
  race.method = "STAR_PR" /\ tieBreak = "random" =>
    \E k \in DOMAIN sums : \E c, d \in Cands(race) :
      c # d /\ \A x \in Cands(race) :
        ~Less(sums[k][c], sums[k][x]) /\ ~Less(sums[k][d], sums[k][x])

=============================================================================
