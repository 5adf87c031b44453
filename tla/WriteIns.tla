------------------------------- MODULE WriteIns -------------------------------
(* From stored ballots to the tabulator's input: the page on which admins    *)
(* approve write-ins, the controller that stores their list, and the         *)
(* projection of the ballots a request for the results makes of one race.    *)
(* A written name and its spellings are ids with one Norm; the admins' page  *)
(* gives every entry the one alias Norm[name], so an entry is found by it.   *)
EXTENDS Integers, FiniteSets, SequencesExt

CONSTANTS
  Candidates,     \* race.candidates, in order
  Names, Norm,    \* written names, and the trimmed lower-case form of each
  Votes,          \* the votes a ballot may hold: a sequence of scores each
  Admins,
  BlockBallots,   \* BLOCK_BALLOTS of the store
  MaxBallots, MaxWrites,  \* bounds of the model
  NoScore,        \* null
  Absent          \* MARK_ABSENT

(* A name is not the id of a candidate; the ids of a race differ             *)
(* (Race.ts:54); a mark that was given is not taken for one that was not.    *)
WriteInAssumption ==
  /\ Candidates \in Seq(Range(Candidates)) /\ IsFiniteSet(Names)
  /\ \A i, j \in DOMAIN Candidates : Candidates[i] = Candidates[j] => i = j
  /\ \A n \in Names : n \notin Range(Candidates) /\ Norm[n] \notin Range(Candidates)
  /\ \A vote \in Votes :
       /\ vote \in Seq(Range(vote))
       /\ \A i \in DOMAIN vote :
            vote[i].id \in Names \cup Range(Candidates) /\ vote[i].score # Absent
ASSUME ScoresAssumption == WriteInAssumption

VARIABLES
  ballots,   \* the votes of the race, in the order they were stored
  row,       \* the election row: the list of write-ins and its update_date
  page,      \* each admin's page (and what was unchecked on it, a history)
  reading,   \* the list a request for results has read, or none
  result     \* the last results
writeInVars == <<ballots, row, page, reading, result>>

NoResult == [set |-> FALSE]
NameKeys == {Norm[n] : n \in Names}
Entry(n, approved) == [name |-> n, approved |-> approved]
WrittenOf(vote) == {s.id : s \in {t \in Range(vote) : t.id \in Names}}
KeysOf(votes) == {Norm[n] : n \in UNION {WrittenOf(votes[i]) : i \in DOMAIN votes}}
EntryOf(list, k) == {e \in list : Norm[e.name] = k}
NotOpen == [phase |-> "closed", list |-> {}, rows |-> <<>>, read |-> 0,
           unchecked |-> {}]

WriteInInit ==
  /\ ballots = <<>>
  /\ row = [list |-> {}, date |-> 0]
  /\ page = [a \in Admins |-> NotOpen]
  /\ reading = NoResult
  /\ result = NoResult

Cast(vote) ==
  /\ Len(ballots) < MaxBallots
  /\ ballots' = Append(ballots, vote)
  /\ UNCHANGED <<row, page, reading, result>>
-----------------------------------------------------------------------------
(* The approval page: the election first, the names on the ballots later. *)
OpenPage(a) ==
  /\ page[a].phase = "closed"
  /\ page' = [page EXCEPT ![a] = [NotOpen EXCEPT !.phase = "loading", !.list = row.list]]
  /\ UNCHANGED <<ballots, row, reading, result>>

RowsUnapproved(list, votes) ==  \* mutant: the list's approvals are forgotten
  [k \in KeysOf(votes) |->
     Entry(CHOOSE n \in UNION {WrittenOf(votes[i]) : i \in DOMAIN votes} : Norm[n] = k,
           FALSE)]
(* buildRows: one row for each key; an entry of the list keeps its name and  *)
(* approval, a new key gets the first spelling and is not approved.          *)
Rows(list, votes) ==
  [k \in KeysOf(votes) |->
     IF EntryOf(list, k) # {} THEN CHOOSE e \in EntryOf(list, k) : TRUE
     ELSE Entry(CHOOSE n \in UNION {WrittenOf(votes[i]) : i \in DOMAIN votes} :
                  Norm[n] = k, FALSE)]
FetchNames(a) ==
  /\ page[a].phase = "loading"
  /\ page' = [page EXCEPT ![a].phase = "idle",
                          ![a].rows = Rows(page[a].list, ballots)]
  /\ UNCHANGED <<ballots, row, reading, result>>

CheckApproved(a, k) ==
  /\ page[a].phase = "idle" /\ k \in DOMAIN page[a].rows
  /\ page' = [page EXCEPT ![a].rows[k].approved = ~@,
                          ![a].unchecked = IF page[a].rows[k].approved
                                           THEN @ \cup {k} ELSE @ \ {k}]
  /\ UNCHANGED <<ballots, row, reading, result>>

EditName(a, k, n) ==
  /\ page[a].phase = "idle" /\ k \in DOMAIN page[a].rows
  /\ Norm[n] = k  \* else the page reports an error and sends nothing
  /\ page' = [page EXCEPT ![a].rows[k].name = n]
  /\ UNCHANGED <<ballots, row, reading, result>>

Leave(a) ==
  /\ page[a].phase = "idle"
  /\ page' = [page EXCEPT ![a] = NotOpen]
  /\ UNCHANGED <<ballots, row, reading, result>>

(* setWriteInResults: the update_date it expects is the one it has just read,*)
(* not the one the page was built from.                                      *)
SetRead(a) ==
  /\ page[a].phase = "idle"
  /\ page' = [page EXCEPT ![a].phase = "sent", ![a].read = row.date]
  /\ UNCHANGED <<ballots, row, reading, result>>

SetWrite(a) ==
  /\ page[a].phase = "sent" /\ page[a].read = row.date /\ row.date < MaxWrites
  /\ LET list == Range(page[a].rows) IN
     /\ row' = [list |-> list, date |-> row.date + 1]
     /\ page' = [page EXCEPT ![a] = NotOpen]  \* it fetches both again
  /\ UNCHANGED <<ballots, reading, result>>

SetRefused(a) ==
  /\ page[a].phase = "sent" /\ page[a].read # row.date
  /\ page' = [page EXCEPT ![a].phase = "idle"]
  /\ UNCHANGED <<ballots, row, reading, result>>
-----------------------------------------------------------------------------
(* The projection. The store keeps one row of marks for each ballot, in      *)
(* blocks; a mark's place in the row is its candidate's place in candidateIds*)
CandidateIds(list) ==
  Candidates \o SetToSeq({e.name : e \in {f \in list : f.approved}})
PlaceOf(ids, c) == CHOOSE i \in DOMAIN ids : ids[i] = c

(* addVote, for one score: the first mark of a candidate stays. *)
AddScore(list, acc, score) ==
  LET ids == CandidateIds(list)
      mark(c) == LET i == PlaceOf(ids, c) IN
        IF acc.marks[i] = Absent THEN [acc EXCEPT !.marks[i] = score.score] ELSE acc
      entries == EntryOf(list, Norm[score.id])
  IN IF score.id \in Range(Candidates) THEN mark(score.id)
     ELSE IF entries = {}
     THEN [acc EXCEPT !.unprocessed = @ + 1, !.excluded = @ + 1]
     ELSE IF \E e \in entries : e.approved
     THEN mark((CHOOSE e \in entries : e.approved).name)
     ELSE [acc EXCEPT !.excluded = @ + 1]

CommitRow(store, marks) ==
  IF store # <<>> /\ Len(Last(store)) < BlockBallots
  THEN [store EXCEPT ![Len(store)] = Append(@, marks)]
  ELSE Append(store, <<marks>>)

AddScores(list, blank, vote) ==
  FoldLeft(LAMBDA acc, score : AddScore(list, acc, score), blank, vote)
AddVote(list, projection, vote) ==
  LET blank == [projection EXCEPT !.marks = [i \in DOMAIN CandidateIds(list) |-> Absent]]
      added == AddScores(list, blank, vote)
  IN [added EXCEPT !.store = CommitRow(@, added.marks)]
Projected(list, votes) ==
  FoldLeft(LAMBDA projection, vote : AddVote(list, projection, vote),
           [store |-> <<>>, marks |-> <<>>, unprocessed |-> 0, excluded |-> 0], votes)

ConsumeMarks(store) == FoldLeft(LAMBDA rows, block : rows \o block, <<>>, store)
RawVotesByShuffle(store, ids) ==  \* mutant: places in another order of the ids
  LET rows == ConsumeMarks(store) shuffled == Reverse(ids) IN
  [b \in DOMAIN rows |->
     [c \in {ids[i] : i \in {j \in DOMAIN ids : rows[b][j] # Absent}} |->
        rows[b][PlaceOf(shuffled, c)]]]
(* takeRawVotes: absent marks leave no key; the ids are those the store was  *)
(* built with, whatever order the tie-break has put the candidates in.       *)
RawVotes(store, ids) ==
  LET rows == ConsumeMarks(store) IN
  [b \in DOMAIN rows |->
     [c \in {ids[i] : i \in {j \in DOMAIN ids : rows[b][j] # Absent}} |->
        rows[b][PlaceOf(ids, c)]]]

(* getElectionResults: the election is read before the ballots are streamed. *)
ReadElection ==
  /\ reading = NoResult
  /\ reading' = [set |-> TRUE, list |-> row.list]
  /\ result' = NoResult
  /\ UNCHANGED <<ballots, row, page>>

StreamBallots ==
  /\ reading # NoResult
  /\ LET list == reading.list
         projection == Projected(list, ballots) IN
     result' = [set |-> TRUE, list |-> list, votes |-> ballots,
                cvr |-> RawVotes(projection.store, CandidateIds(list)),
                unprocessed |-> projection.unprocessed,
                excluded |-> projection.excluded]
  /\ reading' = NoResult
  /\ UNCHANGED <<ballots, row, page>>

WriteInNext ==
  \/ \E vote \in Votes : Cast(vote)
  \/ \E a \in Admins :
       \/ OpenPage(a) \/ FetchNames(a) \/ Leave(a)
       \/ SetRead(a) \/ SetWrite(a) \/ SetRefused(a)
       \/ \E k \in NameKeys : CheckApproved(a, k) \/ \E n \in Names : EditName(a, k, n)
  \/ ReadElection \/ StreamBallots
WriteInSpec == WriteInInit /\ [][WriteInNext]_writeInVars
-----------------------------------------------------------------------------
(* Every score of every ballot is either counted, for the candidate it names *)
(* or the approved entry that has its key, with the mark the voter gave (the *)
(* first one, if a ballot holds several for one candidate), or it is one of  *)
(* the scores the results report as left out.                                *)
IdKey(c) == IF c \in Names THEN Norm[c] ELSE c
ScoreKey(s) == IdKey(s.id)
IsCounted(list, s) ==
  s.id \in Range(Candidates) \/ \E e \in EntryOf(list, Norm[s.id]) : e.approved
Accounted(r) ==
  LET counted(b) == {i \in DOMAIN r.votes[b] : IsCounted(r.list, r.votes[b][i])}
      left == UNION {{<<b, i>> : i \in DOMAIN r.votes[b] \ counted(b)} : b \in DOMAIN r.votes}
      unknown == {p \in left : EntryOf(r.list, Norm[r.votes[p[1]][p[2]].id]) = {}}
      for(b, c) == {i \in counted(b) : ScoreKey(r.votes[b][i]) = IdKey(c)}
  IN /\ DOMAIN r.cvr = DOMAIN r.votes
     /\ \A b \in DOMAIN r.votes :
          /\ {IdKey(c) : c \in DOMAIN r.cvr[b]} = {ScoreKey(r.votes[b][i]) : i \in counted(b)}
          /\ \A c \in DOMAIN r.cvr[b] : r.cvr[b][c] = r.votes[b][Min(for(b, c))].score
     /\ r.excluded = Cardinality(left)
     /\ r.unprocessed = Cardinality(unknown)
ScoresAccounted == result # NoResult => Accounted(result)

(* An approval is withdrawn only by an admin whose page was built from a list*)
(* without it, or who unchecked the box. (The first case is a lost update the*)
(* update_date does not catch: the controller reads it afresh.)              *)
Withdrawn ==
  {e \in row.list : e.approved /\ ~\E f \in row'.list : f.approved /\ Norm[f.name] = Norm[e.name]}
WithdrawnOrStale ==
  [][row' # row =>
       \A e \in Withdrawn : \E a \in Admins :
         /\ page[a].phase = "sent"
         /\ \/ ~\E f \in page[a].list : f.approved /\ Norm[f.name] = Norm[e.name]
            \/ Norm[e.name] \in page[a].unchecked]_row
=============================================================================
