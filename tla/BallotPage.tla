------------------------------ MODULE BallotPage ------------------------------
(* The page a voter fills in (VotePage and the ballot views of each voting   *)
(* method): one page for each race, with the candidates in a shuffled order, *)
(* toggled bubbles or dragged cards, write-ins, the review dialog and the    *)
(* post, answered after the server's validation of the ballot.               *)
(* Candidates are ids; the id of a write-in is its name, which is what       *)
(* makeWriteInCandidateId makes of it. Confirming the instructions only lifts*)
(* the blur, the bubbles answer without it: it is left out.                  *)
EXTENDS Integers, FiniteSets, SequencesExt, Arrays

CONSTANTS
  Offered,       \* the elections a voter may open
  WriteInNames,  \* write-in names
  LongNames,     \* those of more than 100 characters
  NormalForm,    \* the trimmed lower-case form of each name
  NotaId,        \* the id of "none of the above"
  MaxWriteIns,   \* MAX_WRITE_INS of the page
  DefaultRanks,  \* REACT_APP_DEFAULT_BALLOT_RANKS and DEFAULT_BALLOT_RANKS
  MostRanks,     \* REACT_APP_MAX_BALLOT_RANKS
  Unmarked       \* null, less than every score

Ranked == {"RankedRobin", "IRV", "STV"}
Scored == {"STAR", "STAR_PR"}
RaceOnPage ==
  [method : Ranked \cup Scored \cup {"Approval", "Plurality"},
   candidates : Seq(STRING), writeIns : BOOLEAN]

(* A candidate has an id of its own, which is not that of a write-in; the    *)
(* page takes fewer write-ins than ballotValidation.                         *)
ElectionsAssumption ==
  /\ \A e \in Offered :
       /\ e \in [state : STRING, shuffle : BOOLEAN, drag : BOOLEAN, max : Nat,
                races : Seq(RaceOnPage)]
       /\ e.races # <<>>
       /\ \A r \in DOMAIN e.races :
            LET candidates == e.races[r].candidates IN
            /\ IsInjective(candidates)
            /\ Range(candidates) \cap WriteInNames = {}
  /\ WriteInNames \subseteq STRING
  /\ MaxWriteIns \in 0..10 /\ DefaultRanks \in Nat /\ MostRanks \in Nat
  /\ Unmarked \in Int
ASSUME PageAssumption == ElectionsAssumption

VARIABLES
  election,  \* the election, as the server sent it
  pages,     \* one page for each race
  current,   \* the race shown
  view,      \* the mounted ballot view and its own state
  popup,     \* is the review dialog open?
  sent,      \* the votes in flight, or stored
  answer,    \* how the last post ended
  given      \* what the voter marked, by race and candidate (history)
pageVars == <<election, pages, current, view, popup, sent, answer, given>>

Unset == 0  \* max_rankings was never chosen
DefaultMax(e) == IF e.state = "draft" \/ e.max # Unset THEN e
                 ELSE [e EXCEPT !.max = DefaultRanks]
Race(r) == election.races[r]
RaceIds == DOMAIN election.races
IsWriteIn(c) == c \in WriteInNames
Row(c, score) == [id |-> c, score |-> score]
-----------------------------------------------------------------------------
(* The pages: special candidates keep the last places. *)
Shuffles(e, race) ==
  LET specials == Cardinality({c \in Range(race.candidates) : c = NotaId \/ IsWriteIn(c)})
      front == SubSeq(race.candidates, 1, Len(race.candidates) - specials)
      back == SubSeq(race.candidates, Len(front) + 1, Len(race.candidates))
  IN IF e.shuffle THEN {order \o back : order \in SetToSeqs(Range(front))}
     ELSE {race.candidates}

NewPage(order) == [rows |-> [i \in DOMAIN order |-> Row(order[i], Unmarked)],
                   skipped |-> {}, alerts |-> {}]
MakePages(e) ==
  {[r \in DOMAIN e.races |-> NewPage(order[r])] : order \in
     {f \in [DOMAIN e.races -> UNION {Shuffles(e, e.races[r]) : r \in DOMAIN e.races}] :
        \A r \in DOMAIN f : f[r] \in Shuffles(e, e.races[r])}}

IdsOf(rows) == [i \in DOMAIN rows |-> rows[i].id]
ScoresOf(rows) == [i \in DOMAIN rows |-> rows[i].score]
NoMarks(race) == [c \in Range(race.candidates) |-> Unmarked]

(* Which view draws a race: IRV with the setting on is dragged. Two pages in *)
(* a row drawn by the same view share the mounted component and its state.   *)
Kind(e, race) ==
  IF race.method = "IRV" /\ e.drag THEN "drag"
  ELSE IF race.method \in Ranked THEN "ranked" ELSE race.method
Mounted(e, r, page) ==
  [kind |-> Kind(e, e.races[r]),
   unranked |-> IF Kind(e, e.races[r]) # "drag" THEN <<>>
                ELSE IdsOf(Selected(page.rows, {i \in DOMAIN page.rows : ~page.rows[i].score > 0}))]
Crashed == [kind |-> "crashed", unranked |-> <<>>]

(* RankedBallotView returns the dragged view before its other hooks run:     *)
(* going from one to the other changes the number of hooks, a React error.   *)
ViewOf(r) ==
  LET kind == Kind(election, Race(r)) IN
  IF {kind, view.kind} = {"drag", "ranked"} THEN Crashed
  ELSE IF kind = view.kind THEN view
  ELSE Mounted(election, r, pages[r])

Loaded(e) ==
  /\ pages \in MakePages(e)
  /\ current = 1
  /\ view = Mounted(e, 1, pages[1])
  /\ popup = FALSE
  /\ sent = <<>>
  /\ answer = "none"
  /\ given = [r \in DOMAIN e.races |-> NoMarks(e.races[r])]
PageInit == \E e \in Offered : election = DefaultMax(e) /\ Loaded(DefaultMax(e))

(* The voter can act: the page stands and neither the popup nor an accepted *)
(* ballot has taken its place.                                               *)
CanMark == view.kind # "crashed" /\ ~popup /\ answer # "thanks"
Here == pages[current]
-----------------------------------------------------------------------------
(* Marks *)
MaxRankings == IF election.max = Unset THEN DefaultRanks
               ELSE Min({election.max, MostRanks})
Columns ==
  CASE view.kind = "ranked" -> 1..Min({Len(Here.rows), MaxRankings})
    [] Race(current).method \in Scored -> 0..5
    [] OTHER -> {1}

(* What a click on column v does to a list or map of scores at place i. *)
Toggled(scores, i, v) ==
  IF scores[i] = v THEN [scores EXCEPT ![i] = Unmarked]
  ELSE IF Race(current).method = "Plurality"
  THEN [j \in DOMAIN scores |-> IF j = i THEN v ELSE Unmarked]
  ELSE [scores EXCEPT ![i] = v]

FindSkipped(scores) ==
  {k \in 1..MaxRankings : k \notin Range(scores) /\ \E s \in Range(scores) : s > k}
FindMatching(scores) ==
  {<<i, scores[i]>> : i \in {j \in DOMAIN scores : scores[j] > 0 /\
                               \E k \in DOMAIN scores \ {j} : scores[k] = scores[j]}}

OnUpdate(page, scores) ==
  [page EXCEPT !.rows = [i \in DOMAIN page.rows |-> Row(page.rows[i].id, scores[i])]]
WarnOf(page, scores) ==
  IF view.kind # "ranked" THEN page
  ELSE [page EXCEPT !.skipped = FindSkipped(scores),
                    !.alerts = IF Race(current).method = "IRV"
                               THEN FindMatching(scores) ELSE {}]

Commit(i, v) ==
  LET scores == Toggled(ScoresOf(Here.rows), i, v) IN
  /\ pages' = [pages EXCEPT ![current] = OnUpdate(WarnOf(Here, scores), scores)]
  /\ given' = [given EXCEPT ![current] = Toggled(given[current], Here.rows[i].id, v)]
  /\ UNCHANGED <<election, current, view, popup, sent, answer>>

Click(i, v) ==
  /\ CanMark /\ view.kind # "drag"
  /\ i \in DOMAIN Here.rows /\ v \in Columns
  /\ Commit(i, v)

(* The keyboard: an arrow moves to the next bubble around, Home and End to   *)
(* the first and last one, and only scored methods select on the move.       *)
KeyTarget(key, v) ==
  LET top == Max(Columns) bottom == Min(Columns) IN
  CASE key = "right" -> IF v = top THEN bottom ELSE v + 1
    [] key = "left" -> IF v = bottom THEN top ELSE v - 1
    [] key = "home" -> bottom
    [] key = "end" -> top
PressKey(i, v, key) ==
  /\ CanMark /\ Race(current).method \in Scored
  /\ i \in DOMAIN Here.rows /\ v \in Columns
  /\ Commit(i, KeyTarget(key, v))

(* Dragging: both lists show the page's candidates, the left one only those  *)
(* the component took note of when it was mounted or when they were dropped  *)
(* back on it.                                                               *)
RankedRows ==
  LET ranks == {i \in DOMAIN Here.rows : Here.rows[i].score > 0}
      ahead == [i \in ranks |-> {j \in ranks : Here.rows[j].score < Here.rows[i].score}]
  IN Entries(Here.rows, InOrder(ranks, ahead))
RankedIds == IdsOf(RankedRows)
UnrankedIds ==
  LET unranked == {row.id : row \in {w \in Range(Here.rows) : ~w.score > 0}}
  IN Selected(view.unranked, {k \in DOMAIN view.unranked : view.unranked[k] \in unranked})
Without(list, c) == Selected(list, {k \in DOMAIN list : list[k] # c})
PutIn(list, k, c) == InsertAt(list, Min({k, Len(list)}) + 1, c)

RankOf(order, c) == IF c \in Range(order)
                    THEN CHOOSE k \in DOMAIN order : order[k] = c ELSE Unmarked
CommitOrder(order) ==
  /\ pages' = [pages EXCEPT ![current] =
                 OnUpdate(Here, [i \in DOMAIN Here.rows |-> RankOf(order, Here.rows[i].id)])]
  /\ given' = [given EXCEPT ![current] = [c \in DOMAIN @ |-> RankOf(order, c)]]

Drag(c, to, k) ==
  /\ CanMark /\ view.kind = "drag"
  /\ c \in Range(RankedIds) \cup Range(UnrankedIds)
  /\ LET rest == Without(view.unranked, c) IN
     view' = [view EXCEPT !.unranked = IF to = "unranked" THEN PutIn(rest, k, c) ELSE rest]
  /\ IF to = "ranked" THEN CommitOrder(PutIn(Without(RankedIds, c), k, c))
     ELSE IF c \in Range(RankedIds) THEN CommitOrder(Without(RankedIds, c))
     ELSE UNCHANGED <<pages, given>>
  /\ UNCHANGED <<election, current, popup, sent, answer>>
-----------------------------------------------------------------------------
(* Write-ins *)
WriteInsOf(rows) == {row.id : row \in {w \in Range(rows) : IsWriteIn(w.id)}}
CanAdd(n) ==
  /\ Race(current).writeIns
  /\ \A row \in Range(Here.rows) : NormalForm[row.id] # NormalForm[n]
  /\ Cardinality(WriteInsOf(Here.rows)) < MaxWriteIns

AddWriteIn(n) ==
  /\ CanMark /\ CanAdd(n)
  /\ pages' = [pages EXCEPT ![current].rows = Append(@, Row(n, Unmarked))]
  /\ given' = [given EXCEPT ![current] =
                 [c \in DOMAIN @ \cup {n} |-> IF c = n THEN Unmarked ELSE @[c]]]
  /\ UNCHANGED <<election, current, view, popup, sent, answer>>

RemoveWriteIn(n) ==
  /\ CanMark /\ Race(current).writeIns /\ n \in WriteInsOf(Here.rows)
  /\ pages' = [pages EXCEPT ![current].rows = Selected(Here.rows, {i \in DOMAIN Here.rows : Here.rows[i].id # n})]
  /\ given' = [given EXCEPT ![current] = [c \in DOMAIN @ \ {n} |-> @[c]]]
  /\ UNCHANGED <<election, current, view, popup, sent, answer>>
-----------------------------------------------------------------------------
(* Paging, review and submission *)
GoTo(r) ==
  /\ CanMark /\ r # current /\ r \in RaceIds
  /\ current' = r
  /\ view' = ViewOf(r)
  /\ UNCHANGED <<election, pages, popup, sent, answer, given>>

OpenReview ==
  /\ CanMark /\ current = Len(pages) /\ election.state # "archived"
  /\ popup' = TRUE
  /\ UNCHANGED <<election, pages, current, view, sent, answer, given>>

CloseReview ==
  /\ popup /\ answer # "thanks"
  /\ popup' = FALSE
  /\ UNCHANGED <<election, pages, current, view, sent, answer, given>>

VoteAsShown(r) == pages[r].rows  \* mutant: the rows as they are shown
(* The listed candidates go out in the race's order, write-ins after them. *)
VoteOf(r) ==
  LET candidates == Race(r).candidates
      rows == pages[r].rows
      row(c) == CHOOSE w \in Range(rows) : w.id = c
      listed == Selected(candidates, {k \in DOMAIN candidates : ~IsWriteIn(candidates[k])})
  IN [i \in DOMAIN listed |-> row(listed[i])]
       \o Selected(rows, {k \in DOMAIN rows : IsWriteIn(rows[k].id)})

SubmitBallot ==
  /\ popup /\ answer \notin {"pending", "thanks"}
  /\ sent' = [r \in RaceIds |-> VoteOf(r)]
  /\ answer' = "pending"
  /\ UNCHANGED <<election, pages, current, view, popup, given>>

(* ballotValidation, which a draft election skips. *)
OutOfBounds(e, race, score) ==
  /\ score # Unmarked
  /\ \/ race.method \in Ranked /\ e.max # Unset /\ score > e.max
     \/ race.method \in Scored /\ score > 5
     \/ race.method \in {"Approval", "Plurality"} /\ score > 1
BadWriteIns(race, scores) ==
  LET names == {s.id : s \in {t \in Range(scores) : IsWriteIn(t.id)}} IN
  \/ names # {} /\ ~race.writeIns
  \/ Cardinality(names) > 10
  \/ names \cap LongNames # {}
Invalid(votes) ==
  \E r \in RaceIds : \/ \E s \in Range(votes[r]) : OutOfBounds(election, Race(r), s.score)
                     \/ BadWriteIns(Race(r), votes[r])

Accepted ==
  /\ answer = "pending"
  /\ election.state = "draft" \/ ~Invalid(sent)
  /\ answer' = "thanks"
  /\ UNCHANGED <<election, pages, current, view, popup, sent, given>>

(* Any other failure of the post leaves the page as it is. *)
NotStored(end) ==
  /\ answer = "pending"
  /\ answer' = end
  /\ sent' = <<>>
  /\ UNCHANGED <<election, pages, current, view, popup, given>>
BallotRefused == NotStored("refused") /\ election.state # "draft" /\ Invalid(sent)
PostFails == NotStored("none")

(* Loading the page again starts from an empty ballot. *)
Reload ==
  /\ answer \notin {"pending", "thanks"}
  /\ pages' \in MakePages(election)
  /\ current' = 1 /\ view' = Mounted(election, 1, pages'[1])
  /\ popup' = FALSE /\ sent' = <<>> /\ answer' = "none"
  /\ given' = [r \in RaceIds |-> NoMarks(Race(r))]
  /\ UNCHANGED election

(* After the thanks page nothing more happens here. *)
Left == answer = "thanks" /\ UNCHANGED pageVars

PageNext ==
  \/ \E i \in DOMAIN Here.rows, v \in Columns : Click(i, v)
  \/ \E i \in DOMAIN Here.rows, v \in Columns, key \in {"left", "right", "home", "end"} :
       PressKey(i, v, key)
  \/ \E c \in Range(IdsOf(Here.rows)), to \in {"ranked", "unranked"}, k \in 0..Len(Here.rows) :
       Drag(c, to, k)
  \/ \E n \in WriteInNames : AddWriteIn(n) \/ RemoveWriteIn(n)
  \/ \E r \in RaceIds : GoTo(r)
  \/ OpenReview \/ CloseReview \/ SubmitBallot \/ Accepted \/ BallotRefused \/ PostFails \/ Reload \/ Left
PageSpec == PageInit /\ [][PageNext]_pageVars
-----------------------------------------------------------------------------
(* The votes that go out are the marks the voter gave: listed candidates in  *)
(* the race's order, each with its own mark, then exactly the write-ins that *)
(* were not removed (submit and onUpdate work by position). And the server   *)
(* refuses what the page lets through only in two cases: a dragged race,     *)
(* where nothing stops the voter at max_rankings, and a write-in name that is*)
(* too long (ballotValidation against the columns of the page).              *)
AsMarked(r, vote) ==
  LET listed == Race(r).candidates IN
  /\ IdsOf(SubSeq(vote, 1, Len(listed))) = listed
  /\ Range(IdsOf(vote)) = DOMAIN given[r]
  /\ Cardinality(DOMAIN given[r]) = Len(vote)
  /\ \A s \in Range(vote) : s.score = given[r][s.id]
Unchecked(r) ==
  \/ Kind(election, Race(r)) = "drag" /\ \E s \in Range(sent[r]) : s.score > election.max
  \/ Range(IdsOf(sent[r])) \cap LongNames # {}
SentAsMarked ==
  [][/\ sent' \notin {sent, <<>>} => \A r \in RaceIds : AsMarked(r, sent'[r])
     /\ answer' = "refused" /\ answer # "refused" => \E r \in RaceIds : Unchecked(r)
    ]_<<sent, answer>>
=============================================================================
