-------------------------- MODULE VoterRollProofs --------------------------
(* Theorems about VoterRoll, for every value of its constants.             *)
EXTENDS VoterRoll, FiniteSetTheorems, TLAPS

-----------------------------------------------------------------------------
(* The inductive invariant.                                                *)

\* A line of an upload, and a line that has its voter id.
Line == [voter: VoterIds \cup {None}, key: Keys \cup {None}]

Entry == [voter: VoterIds, key: Keys \cup {None}]

Job == [pc: {"idle", "insert", "clear", "write"}, batch: SUBSET Entry,
        row: Row \cup {None}, stale: BOOLEAN]

Visit == [pc: {"idle", "create", "vote"}, key: Keys \cup VoterIds \cup {None},
          row: Row \cup {None}, stale: BOOLEAN]

VisitModes == OpenModes \ {"open_open"}

\* The mode finds this row for a visitor known by k.
KnownAs(row, k) == IF mode = "open_unique_cookie" THEN row.voter = k ELSE row.key = k

RollType ==
  /\ mode \in OpenModes \cup ClosedModes
  /\ draft \in BOOLEAN /\ raced \in BOOLEAN
  /\ rolls \subseteq Row /\ IsFiniteSet(rolls)
  /\ seen \in [Admins -> BOOLEAN]
  /\ open \in [Admins -> Row \cup {None}]
  /\ jobs \in [Admins -> Job]
  /\ visits \in [Visits -> Visit]
  /\ votes \subseteq [key: Keys \cup VoterIds, voter: VoterIds]

\* What a request is about to store, whatever has changed since it read.
Prepared ==
  /\ \A a \in Admins : jobs[a].pc = "write" => jobs[a].row \in Row
  /\ \A a \in Admins : jobs[a].pc = "insert" =>
       /\ IsFiniteSet(jobs[a].batch)
       /\ \A e, f \in jobs[a].batch : e.key = f.key => e = f
  /\ \A x \in Visits : visits[x].pc # "idle" =>
       ~draft /\ mode \in VisitModes /\ visits[x].key \in KnownBy
  /\ \A x \in Visits : visits[x].pc = "vote" =>
       visits[x].row \in Row /\ KnownAs(visits[x].row, visits[x].key)

UniqueIds == \A a, b \in rolls : a.voter = b.voter => a = b

UniqueKeys == \A a, b \in rolls : a.key = b.key /\ a.key # None => a = b

WithinLimit == draft \/ mode \in ClosedModes => Cardinality(rolls) <= Limit

\* An upload that nothing has outdated still passes its checks.
UploadFits(job) ==
  /\ \A entry \in job.batch, row \in rolls : entry.key # None => entry.key # row.key
  /\ Cardinality(rolls) + Cardinality(job.batch) <= Limit

\* An edit that nothing has outdated replaces the row it was made from.
EditFits(job) == \E row \in rolls : row.voter = job.row.voter /\ row.key = job.row.key

JobsFresh ==
  \A a \in Admins : ~jobs[a].stale /\ jobs[a].pc \in {"insert", "write"} =>
    /\ mode \in ClosedModes
    /\ jobs[a].pc = "insert" => UploadFits(jobs[a])
    /\ jobs[a].pc = "write" => EditFits(jobs[a])

\* A first visit that nothing has outdated is still a first visit.
VisitsFresh ==
  \A x \in Visits : visits[x].pc = "create" /\ ~visits[x].stale =>
    \A row \in rolls : ~KnownAs(row, visits[x].key)

\* Votes are cast in an election whose mode no longer changes.
VotesFinal == votes # {} => ~draft /\ mode \in VisitModes

\* Whoever voted is found again, as somebody who has voted.
VotesMarked ==
  \A v \in votes : /\ v.key \in KnownBy
                   /\ \E row \in rolls :
                        row.voter = v.voter /\ row.submitted /\ KnownAs(row, v.key)

OneVoteEach == \A v, w \in votes : v.key = w.key => v = w

RollInv ==
  /\ RollType /\ Prepared /\ UniqueIds /\ VotesFinal
  /\ ~raced => /\ UniqueKeys /\ WithinLimit /\ JobsFresh /\ VisitsFresh
               /\ VotesMarked /\ OneVoteEach

-----------------------------------------------------------------------------
(* Helpers.                                                                *)

LEMMA IdleTypes ==
  NoJob \in Job /\ NoJob.pc = "idle" /\ NoVisit \in Visit /\ NoVisit.pc = "idle"
BY DEF NoJob, Job, NoVisit, Visit

LEMMA OutdatedJobs ==
  ASSUME RollType
  PROVE  /\ Outdated(jobs) \in [Admins -> Job]
         /\ \A a \in Admins :
              /\ Outdated(jobs)[a].pc = jobs[a].pc /\ Outdated(jobs)[a].batch = jobs[a].batch
              /\ Outdated(jobs)[a].row = jobs[a].row
              /\ Outdated(jobs)[a].stale = (jobs[a].stale \/ jobs[a].pc # "idle")
<1>1. ASSUME NEW a \in Admins
      PROVE  jobs[a] \in Job /\ (jobs[a].stale \/ jobs[a].pc # "idle") \in BOOLEAN
  BY DEF RollType, Job
<1>2. QED
  BY <1>1 DEF Outdated, RollType, Job

LEMMA OutdatedVisits ==
  ASSUME RollType
  PROVE  /\ Outdated(visits) \in [Visits -> Visit]
         /\ \A x \in Visits :
              /\ Outdated(visits)[x].pc = visits[x].pc /\ Outdated(visits)[x].key = visits[x].key
              /\ Outdated(visits)[x].row = visits[x].row
              /\ Outdated(visits)[x].stale = (visits[x].stale \/ visits[x].pc # "idle")
<1>1. ASSUME NEW x \in Visits
      PROVE  visits[x] \in Visit /\ (visits[x].stale \/ visits[x].pc # "idle") \in BOOLEAN
  BY DEF RollType, Visit
<1>2. QED
  BY <1>1 DEF Outdated, RollType, Visit

\* What is made of a finite set one by one is finite and no larger.
LEMMA ImageBound ==
  ASSUME NEW S, IsFiniteSet(S), NEW f, DOMAIN f = S, f = [x \in S |-> f[x]]
  PROVE  /\ IsFiniteSet({f[x] : x \in S})
         /\ Cardinality({f[x] : x \in S}) <= Cardinality(S)
<1> DEFINE T == {f[x] : x \in S}
<1>1. f \in Surjection(S, T)
  BY DEF Surjection
<1>2. QED
  BY <1>1, FS_Surjection

LEMMA NewRowType ==
  ASSUME NEW entry \in Entry
  PROVE  /\ NewRow(entry) \in Row /\ NewRow(entry).voter = entry.voter
         /\ NewRow(entry).key = entry.key /\ ~NewRow(entry).submitted
BY DEF NewRow, Entry, Row, RollState

\* Nothing the invariant speaks of changes.
LEMMA Quiet ==
  ASSUME RollInv, UNCHANGED <<mode, draft, rolls, jobs, visits, votes, raced>>,
         seen' \in [Admins -> BOOLEAN], open' \in [Admins -> Row \cup {None}]
  PROVE  RollInv'
BY DEF RollInv, RollType, Prepared, UniqueIds, UniqueKeys, WithinLimit, JobsFresh, VisitsFresh,
       VotesFinal, VotesMarked, OneVoteEach, UploadFits, EditFits, KnownAs, KnownBy

LEMMA QuietSteps ==
  ASSUME RollInv,
         \/ \E a \in Admins :
              \/ FetchList(a) \/ \E row \in rolls : Inspect(a, row)
              \/ \E op \in Buttons : RefuseClick(a, op)
         \/ UNCHANGED rollVars
  PROVE  RollInv'
<1>1. seen \in [Admins -> BOOLEAN] /\ open \in [Admins -> Row \cup {None}] /\ rolls \subseteq Row
  BY DEF RollInv, RollType
<1>2. ASSUME NEW a \in Admins, FetchList(a) PROVE RollInv'
  BY <1>1, <1>2, Quiet DEF FetchList
<1>3. ASSUME NEW a \in Admins, NEW row \in rolls, Inspect(a, row) PROVE RollInv'
  BY <1>1, <1>3, Quiet DEF Inspect
<1>4. ASSUME NEW a \in Admins, NEW op \in Buttons, RefuseClick(a, op) PROVE RollInv'
  BY <1>1, <1>4, Quiet DEF RefuseClick
<1>5. CASE UNCHANGED rollVars
  BY <1>1, <1>5, Quiet DEF rollVars
<1>6. QED
  BY <1>2, <1>3, <1>4, <1>5

-----------------------------------------------------------------------------
(* Steps that read the list.                                               *)

\* A request of an administrator begins or is given up.
LEMMA JobStep ==
  ASSUME RollInv, UNCHANGED <<mode, draft, rolls, seen, open, visits, votes, raced>>,
         NEW a \in Admins, NEW job \in Job, jobs' = [jobs EXCEPT ![a] = job],
         job.pc = "write" => job.row \in Row,
         job.pc = "insert" => /\ IsFiniteSet(job.batch)
                              /\ \A e, f \in job.batch : e.key = f.key => e = f,
         ~raced /\ ~job.stale /\ job.pc \in {"insert", "write"} =>
           /\ mode \in ClosedModes
           /\ job.pc = "insert" => UploadFits(job)
           /\ job.pc = "write" => EditFits(job)
  PROVE  RollInv'
<1>1. jobs'[a] = job /\ \A b \in Admins : b # a => jobs'[b] = jobs[b]
  BY DEF RollInv, RollType
<1>2. RollType'
  BY DEF RollInv, RollType
<1>3. Prepared'
  BY <1>1 DEF RollInv, Prepared, KnownBy, KnownAs
<1>4. ASSUME ~raced PROVE JobsFresh'
  BY <1>1, <1>4 DEF RollInv, JobsFresh, UploadFits, EditFits
<1>5. QED
  BY <1>2, <1>3, <1>4 DEF RollInv, UniqueIds, UniqueKeys, WithinLimit, VisitsFresh, VotesFinal,
                          VotesMarked, OneVoteEach, KnownAs, KnownBy

\* A visit finds its row, misses it or ends.
LEMMA VisitReads ==
  ASSUME RollInv, UNCHANGED <<mode, draft, rolls, seen, open, jobs, votes, raced>>,
         NEW x \in Visits, NEW visit \in Visit, visits' = [visits EXCEPT ![x] = visit],
         visit.pc # "idle" => ~draft /\ mode \in VisitModes /\ visit.key \in KnownBy,
         visit.pc = "vote" => visit.row \in Row /\ KnownAs(visit.row, visit.key),
         visit.pc = "create" /\ ~visit.stale => \A row \in rolls : ~KnownAs(row, visit.key)
  PROVE  RollInv'
<1>1. visits'[x] = visit /\ \A y \in Visits : y # x => visits'[y] = visits[y]
  BY DEF RollInv, RollType
<1>2. RollType'
  BY DEF RollInv, RollType
<1>3. Prepared'
  BY <1>1 DEF RollInv, Prepared, KnownBy, KnownAs
<1>4. ASSUME ~raced PROVE VisitsFresh'
  BY <1>1, <1>4 DEF RollInv, VisitsFresh, KnownAs
<1>5. QED
  BY <1>2, <1>3, <1>4 DEF RollInv, UniqueIds, UniqueKeys, WithinLimit, JobsFresh, VotesFinal,
                          VotesMarked, OneVoteEach, KnownAs, KnownBy, UploadFits, EditFits

LEMMA VisitReadSteps ==
  ASSUME RollInv, NEW x \in Visits,
         (\E k \in Keys \cup VoterIds : FindRow(x, k) \/ MissRow(x, k)) \/ EndVisit(x)
  PROVE  RollInv'
<1>1. rolls \subseteq Row
  BY DEF RollInv, RollType
<1>2. ASSUME NEW k \in Keys \cup VoterIds, FindRow(x, k) PROVE RollInv'
  <2>1. PICK row \in Matches(k) :
          visits' = [visits EXCEPT ![x] = [pc |-> "vote", key |-> k, row |-> row, stale |-> FALSE]]
    BY <1>2 DEF FindRow
  <2>2. row \in Row /\ KnownAs(row, k)
    BY <1>1, <2>1 DEF Matches, KnownAs
  <2>3. [pc |-> "vote", key |-> k, row |-> row, stale |-> FALSE] \in Visit
    BY <2>2 DEF Visit
  <2>4. QED
    BY <1>2, <2>1, <2>2, <2>3, VisitReads DEF FindRow, Visiting, VisitModes
<1>3. ASSUME NEW k \in Keys \cup VoterIds, MissRow(x, k) PROVE RollInv'
  <2> DEFINE visit == [pc |-> "create", key |-> k, row |-> None, stale |-> Matches(k) # {}]
  <2>1. /\ visit \in Visit /\ visit.pc = "create" /\ visit.key = k
        /\ visit.stale = (Matches(k) # {})
    BY DEF Visit
  <2>2. visits' = [visits EXCEPT ![x] = visit]
    BY <1>3 DEF MissRow
  <2> HIDE DEF visit
  <2>3. ~visit.stale => \A row \in rolls : ~KnownAs(row, k)
    BY <2>1 DEF Matches, KnownAs
  <2>4. /\ ~draft /\ mode \in VisitModes /\ k \in KnownBy
        /\ UNCHANGED <<mode, draft, rolls, seen, open, jobs, votes, raced>>
    BY <1>3 DEF MissRow, Visiting, VisitModes
  <2>5. QED
    BY <2>1, <2>2, <2>3, <2>4, VisitReads
<1>4. ASSUME EndVisit(x) PROVE RollInv'
  BY <1>4, IdleTypes, VisitReads DEF EndVisit
<1>5. QED
  BY <1>2, <1>3, <1>4

\* What an upload sends has each email once, also with ids filled in.
LEMMA SentOnce ==
  ASSUME NEW batch \in Seq(Line)
  PROVE  /\ Sent(batch) \subseteq Line
         /\ IsFiniteSet(Sent(batch))
         /\ \A e, f \in Sent(batch) : e.key = f.key => e = f
<1> DEFINE S == DOMAIN batch \ Duplicates(batch)
<1>1. DOMAIN batch = 1..Len(batch) /\ Len(batch) \in Nat /\ \A i \in DOMAIN batch : batch[i] \in Line
  OBVIOUS
<1>2. IsFiniteSet(S)
  <2>1. IsFiniteSet(1..Len(batch))
    BY <1>1, FS_Interval
  <2>2. S \subseteq 1..Len(batch)
    BY <1>1
  <2>3. QED
    BY <2>1, <2>2, FS_Subset
<1>3. IsFiniteSet(Sent(batch))
  <2> DEFINE f == [i \in S |-> batch[i]]
  <2>1. IsFiniteSet({f[i] : i \in S})
    BY <1>2, ImageBound
  <2>2. {f[i] : i \in S} = Sent(batch)
    BY DEF Sent
  <2>3. QED
    BY <2>1, <2>2
<1>4. ASSUME NEW i \in S, NEW j \in S, batch[i].key = batch[j].key PROVE i = j
  <2>1. i \in 1..Len(batch) /\ j \in 1..Len(batch)
    BY <1>1
  <2>2. ~(j \in 1..(i - 1)) /\ ~(i \in 1..(j - 1))
    BY <1>4 DEF Duplicates
  <2>3. QED
    BY <1>1, <2>1, <2>2
<1>5. QED
  BY <1>1, <1>3, <1>4 DEF Sent

LEMMA LinesTyped ==
  ASSUME NEW batch \in SeqOf(Lines, Rows)
  PROVE  batch \in Seq(Line)
<1>1. PICK m \in 0..Rows : batch \in [1..m -> Lines]
  BY DEF SeqOf
<1>2. m \in Nat
  BY RollAssumption
<1>3. Lines \subseteq Line
  BY DEF Lines, Line
<1>4. batch \in [1..m -> Line]
  BY <1>1, <1>3
<1>5. QED
  BY <1>2, <1>4

LEMMA SubmitStep ==
  ASSUME RollInv, NEW a \in Admins, NEW batch \in SeqOf(Lines, Rows), Submit(a, batch)
  PROVE  RollInv'
<1> DEFINE sent == Sent(batch)
<1>1. /\ sent \subseteq Line /\ IsFiniteSet(sent)
      /\ \A e, f \in sent : e.key = f.key => e = f
  BY LinesTyped, SentOnce
<1>2. mode \in ClosedModes /\ Acceptable(sent)
  BY DEF Submit
<1>3. PICK ids \in Injection(sent, VoterIds \ (UsedIds \cup Pending)) :
        jobs' = [jobs EXCEPT ![a] =
          [pc |-> "insert", batch |-> {WithId(entry, ids[entry]) : entry \in sent},
           row |-> None, stale |-> FALSE]]
  BY DEF Submit
<1> HIDE DEF sent
<1> DEFINE f == [entry \in sent |-> WithId(entry, ids[entry])]
           filled == {f[entry] : entry \in sent}
           job == [pc |-> "insert", batch |-> filled, row |-> None, stale |-> FALSE]
<1>4. \A entry \in sent : ids[entry] \in VoterIds
  BY <1>3 DEF Injection
<1>5. \A entry \in sent : f[entry] \in Entry /\ f[entry].key = entry.key
  BY <1>1, <1>4 DEF WithId, Line, Entry
<1>6. filled = {WithId(entry, ids[entry]) : entry \in sent}
  OBVIOUS
<1>7. IsFiniteSet(filled) /\ Cardinality(filled) <= Cardinality(sent)
  BY <1>1, ImageBound
<1> HIDE DEF f
<1>8. filled \subseteq Entry /\ \A e, g \in filled : e.key = g.key => e = g
  BY <1>1, <1>5
<1>9. \A entry \in filled, row \in rolls : entry.key # None => entry.key # row.key
  BY <1>2, <1>5 DEF Acceptable, Clash
<1>10. Cardinality(rolls) + Cardinality(filled) <= Limit
  <2>1. Cardinality(rolls) + Cardinality(sent) <= Limit
    BY <1>2 DEF Acceptable
  <2>2. /\ Cardinality(rolls) \in Nat /\ Cardinality(sent) \in Nat /\ Cardinality(filled) \in Nat
        /\ Limit \in Nat
    BY <1>1, <1>7, RollAssumption, FS_CardinalityType DEF RollInv, RollType
  <2>3. QED
    BY <1>7, <2>1, <2>2
<1>11. jobs' = [jobs EXCEPT ![a] = job]
  BY <1>3, <1>6
<1> HIDE DEF filled
<1>12. /\ job \in Job /\ job.pc = "insert" /\ job.batch = filled
  BY <1>8 DEF Job
<1> HIDE DEF job
<1>13. UploadFits(job)
  BY <1>9, <1>10, <1>12 DEF UploadFits
<1>14. UNCHANGED <<mode, draft, rolls, seen, open, visits, votes, raced>>
  BY DEF Submit
<1>15. QED
  BY <1>2, <1>7, <1>8, <1>11, <1>12, <1>13, <1>14, JobStep

LEMMA ClickStep ==
  ASSUME RollInv, NEW a \in Admins, NEW op \in Buttons, Click(a, op)
  PROVE  RollInv'
<1>1. PICK copy \in Copies(a, op, open[a]) :
        jobs' = [jobs EXCEPT ![a].pc = "write", ![a].row = copy]
  BY DEF Click
<1>2. /\ rolls \subseteq Row /\ jobs[a] \in Job /\ jobs[a].pc = "idle" /\ mode \in ClosedModes
      /\ UNCHANGED <<mode, draft, rolls, seen, open, visits, votes, raced>>
  BY DEF Click, RollInv, RollType
<1>3. PICK h \in rolls : copy \in Row /\ h.voter = copy.voter /\ h.key = copy.key
  <2>1. \A o : o \in DOMAIN NewState => NewState[o] \in RollState
    BY DEF NewState, RollState
  <2>2. op # "reveal" => op \in DOMAIN NewState
    BY DEF Buttons, Shown, NewState
  <2>3. CASE op = "reveal"
    BY <1>1, <1>2, <2>3 DEF Copies, Found
  <2>4. CASE op # "reveal"
    <3>1. PICK h \in Found(op, open[a]) : copy = [h EXCEPT !.state = NewState[op]]
      BY <1>1, <2>4 DEF Copies
    <3>2. h \in rolls /\ h \in Row
      BY <1>2, <3>1 DEF Found
    <3>3. QED
      BY <2>1, <2>2, <2>4, <3>1, <3>2 DEF Row
  <2>5. QED
    BY <2>3, <2>4
<1> DEFINE job == [jobs[a] EXCEPT !.pc = "write", !.row = copy]
<1>4. job \in Job /\ job.pc = "write" /\ job.row = copy
  BY <1>2, <1>3 DEF Job
<1>5. jobs' = [jobs EXCEPT ![a] = job]
  BY <1>1
<1> HIDE DEF job
<1>6. EditFits(job)
  BY <1>3, <1>4 DEF EditFits
<1>7. QED
  BY <1>2, <1>3, <1>4, <1>5, <1>6, JobStep

LEMMA AskToClearStep ==
  ASSUME RollInv, NEW a \in Admins, AskToClear(a)
  PROVE  RollInv'
<1> DEFINE job == [jobs[a] EXCEPT !.pc = "clear"]
<1>1. /\ job \in Job /\ job.pc = "clear" /\ jobs' = [jobs EXCEPT ![a] = job]
      /\ UNCHANGED <<mode, draft, rolls, seen, open, visits, votes, raced>>
  BY DEF AskToClear, RollInv, RollType, Job
<1> HIDE DEF job
<1>2. QED
  BY <1>1, JobStep

-----------------------------------------------------------------------------
(* Steps that change the election.                                         *)

LEMMA ChangeModeStep ==
  ASSUME RollInv, NEW a \in Admins, NEW m \in OpenModes \cup ClosedModes, ChangeMode(a, m)
  PROVE  RollInv'
<1>1. /\ draft /\ mode' = m /\ jobs' = Outdated(jobs)
      /\ UNCHANGED <<draft, rolls, seen, open, visits, votes, raced>>
  BY DEF ChangeMode
<1>2. RollType'
  BY <1>1, OutdatedJobs DEF RollInv, RollType
<1>3. votes = {} /\ \A x \in Visits : visits[x].pc = "idle"
  BY <1>1 DEF RollInv, VotesFinal, Prepared
<1>4. Prepared'
  BY <1>1, <1>3, OutdatedJobs DEF RollInv, Prepared
<1>5. JobsFresh'
  BY <1>1, OutdatedJobs DEF RollInv, JobsFresh
<1>6. QED
  BY <1>1, <1>2, <1>3, <1>4, <1>5 DEF RollInv, UniqueIds, UniqueKeys, WithinLimit, VisitsFresh,
                                      VotesFinal, VotesMarked, OneVoteEach

LEMMA FinalizeStep ==
  ASSUME RollInv, Finalize
  PROVE  RollInv'
<1>1. /\ draft /\ draft' = FALSE
      /\ UNCHANGED <<mode, rolls, seen, open, jobs, visits, votes, raced>>
  BY DEF Finalize
<1>2. votes = {} /\ \A x \in Visits : visits[x].pc = "idle"
  BY <1>1 DEF RollInv, VotesFinal, Prepared
<1>3. RollType' /\ Prepared'
  BY <1>1, <1>2 DEF RollInv, RollType, Prepared
<1>4. JobsFresh => JobsFresh'
  BY <1>1 DEF JobsFresh, UploadFits, EditFits
<1>5. QED
  BY <1>1, <1>2, <1>3, <1>4 DEF RollInv, UniqueIds, UniqueKeys, WithinLimit, VisitsFresh, VotesFinal,
                                VotesMarked, OneVoteEach

-----------------------------------------------------------------------------
(* Steps that write the list.                                              *)

\* After a write the other requests of administrators are outdated.
LEMMA OthersOutdated ==
  ASSUME RollInv, NEW a \in Admins, jobs' = [Outdated(jobs) EXCEPT ![a] = NoJob]
  PROVE  /\ jobs' \in [Admins -> Job] /\ JobsFresh'
         /\ \A b \in Admins : jobs'[b].pc = "write" => jobs'[b].row \in Row
         /\ \A b \in Admins : jobs'[b].pc = "insert" =>
              /\ IsFiniteSet(jobs'[b].batch)
              /\ \A e, f \in jobs'[b].batch : e.key = f.key => e = f
<1>1. jobs'[a].pc = "idle" /\ \A b \in Admins : b # a => jobs'[b] = Outdated(jobs)[b]
  BY OutdatedJobs, IdleTypes DEF RollInv
<1>2. jobs' \in [Admins -> Job]
  BY OutdatedJobs, IdleTypes DEF RollInv
<1>3. JobsFresh'
  BY <1>1, OutdatedJobs DEF RollInv, JobsFresh
<1>4. \A b \in Admins : jobs'[b].pc # "idle" =>
        jobs'[b].pc = jobs[b].pc /\ jobs'[b].row = jobs[b].row /\ jobs'[b].batch = jobs[b].batch
  BY <1>1, OutdatedJobs DEF RollInv
<1>5. QED
  BY <1>2, <1>3, <1>4 DEF RollInv, Prepared

LEMMA InsertStep ==
  ASSUME RollInv, NEW a \in Admins, InsertBatch(a)
  PROVE  RollInv'
<1> DEFINE batch == jobs[a].batch
           f == [entry \in batch |-> NewRow(entry)]
           new == {f[entry] : entry \in batch}
<1>1. /\ jobs[a] \in Job /\ jobs[a].pc = "insert" /\ batch \subseteq Entry /\ IsFiniteSet(batch)
      /\ \A e, g \in batch : e.key = g.key => e = g
      /\ UNCHANGED <<mode, draft, seen, open, votes>>
  BY DEF InsertBatch, RollInv, RollType, Job, Prepared
<1>2. new = {NewRow(entry) : entry \in jobs[a].batch}
  OBVIOUS
<1>3. CASE UNCHANGED <<rolls, visits, raced>> /\ jobs' = [jobs EXCEPT ![a] = NoJob]
  BY <1>1, <1>3, IdleTypes, JobStep
<1>4. CASE /\ \A e, g \in batch : e.voter = g.voter => e = g
           /\ \A row \in new : row.voter \notin UsedIds
           /\ rolls' = rolls \cup new
           /\ raced' = (raced \/ jobs[a].stale)
           /\ jobs' = [Outdated(jobs) EXCEPT ![a] = NoJob]
           /\ visits' = Outdated(visits)
  <2>1. \A entry \in batch : /\ f[entry] \in Row /\ f[entry].voter = entry.voter
                             /\ f[entry].key = entry.key /\ ~f[entry].submitted
    BY <1>1, NewRowType
  <2>2. IsFiniteSet(new) /\ Cardinality(new) <= Cardinality(batch)
    BY <1>1, ImageBound
  <2> HIDE DEF f, batch
  <2>3. /\ new \subseteq Row
        /\ \A r, q \in new : r.voter = q.voter => r = q
        /\ \A r, q \in new : r.key = q.key => r = q
        /\ \A r \in new : \E entry \in batch : r.key = entry.key
    BY <1>1, <1>4, <2>1
  <2> HIDE DEF new
  <2>4. UniqueIds'
    BY <1>4, <2>3 DEF RollInv, UniqueIds, UsedIds
  <2>5. RollType'
    <3>1. IsFiniteSet(rolls')
      BY <1>4, <2>2, FS_Union DEF RollInv, RollType
    <3>2. raced' \in BOOLEAN
      BY <1>1, <1>4 DEF RollInv, RollType, Job
    <3>3. QED
      BY <1>1, <1>4, <2>3, <3>1, <3>2, OthersOutdated, OutdatedVisits DEF RollInv, RollType
  <2>6. Prepared'
    BY <1>1, <1>4, OthersOutdated, OutdatedVisits DEF RollInv, Prepared, KnownBy, KnownAs
  <2>7. ASSUME ~raced'
        PROVE  /\ ~raced /\ mode \in ClosedModes /\ UploadFits(jobs[a])
               /\ UniqueKeys /\ WithinLimit /\ VotesMarked /\ OneVoteEach
    BY <1>1, <1>4, <2>7 DEF RollInv, JobsFresh, RollType
  <2>8. ASSUME ~raced' PROVE UniqueKeys'
    <3>1. \A r \in new, row \in rolls : r.key # None => r.key # row.key
      BY <2>3, <2>7, <2>8 DEF UploadFits, batch
    <3>2. QED
      BY <1>4, <2>3, <2>7, <2>8, <3>1 DEF UniqueKeys
  <2>9. ASSUME ~raced' PROVE WithinLimit'
    <3>1. Cardinality(rolls') = Cardinality(rolls) + Cardinality(new) - Cardinality(rolls \cap new)
      BY <1>4, <2>2, FS_Union DEF RollInv, RollType
    <3>2. /\ Cardinality(rolls) \in Nat /\ Cardinality(new) \in Nat
          /\ Cardinality(batch) \in Nat /\ Cardinality(rolls \cap new) \in Nat
      <4>1. IsFiniteSet(rolls \cap new)
        BY <2>2, FS_Subset
      <4>2. QED
        BY <1>1, <2>2, <4>1, FS_CardinalityType DEF RollInv, RollType
    <3>3. Cardinality(rolls) + Cardinality(batch) <= Limit
      BY <2>7, <2>9 DEF UploadFits, batch
    <3>4. Limit \in Nat
      BY RollAssumption
    <3>5. Cardinality(rolls') <= Limit
      BY <2>2, <3>1, <3>2, <3>3, <3>4
    <3>6. QED
      BY <3>5 DEF WithinLimit
  <2>10. VisitsFresh'
    BY <1>1, <1>4, OutdatedVisits DEF RollInv, VisitsFresh
  <2>11. VotesFinal' /\ (~raced' => VotesMarked' /\ OneVoteEach')
    BY <1>1, <1>4, <2>7 DEF RollInv, VotesFinal, VotesMarked, OneVoteEach, KnownBy, KnownAs
  <2>12. JobsFresh'
    BY <1>4, OthersOutdated
  <2>13. QED
    BY <2>4, <2>5, <2>6, <2>8, <2>9, <2>10, <2>11, <2>12 DEF RollInv
<1>5. QED
  BY <1>2, <1>3, <1>4 DEF InsertBatch

LEMMA ClearStep ==
  ASSUME RollInv, NEW a \in Admins, Clear(a)
  PROVE  RollInv'
<1>1. /\ rolls' = {} /\ raced' = (raced \/ ~draft)
      /\ jobs' = [Outdated(jobs) EXCEPT ![a] = NoJob]
      /\ UNCHANGED <<mode, draft, seen, open, visits, votes>>
  BY DEF Clear
<1>2. Cardinality(rolls') = 0 /\ IsFiniteSet(rolls') /\ 0 <= Limit
  BY <1>1, FS_EmptySet, RollAssumption
<1>3. RollType' /\ Prepared'
  BY <1>1, <1>2, OthersOutdated DEF RollInv, RollType, Prepared, KnownBy, KnownAs
<1>4. ~raced' => votes = {} /\ ~raced
  BY <1>1 DEF RollInv, VotesFinal
<1>5. QED
  BY <1>1, <1>2, <1>3, <1>4, OthersOutdated
     DEF RollInv, UniqueIds, UniqueKeys, WithinLimit, VisitsFresh, VotesFinal, VotesMarked, OneVoteEach

LEMMA WriteBackStep ==
  ASSUME RollInv, NEW a \in Admins, WriteBack(a)
  PROVE  RollInv'
<1> DEFINE copy == jobs[a].row
<1>1. /\ jobs[a] \in Job /\ jobs[a].pc = "write" /\ copy \in Row
      /\ rolls' = {h \in rolls : h.voter # copy.voter} \cup {copy}
      /\ raced' = (raced \/ jobs[a].stale)
      /\ jobs' = [Outdated(jobs) EXCEPT ![a] = NoJob]
      /\ UNCHANGED <<mode, draft, seen, open, visits, votes>>
  BY DEF WriteBack, RollInv, RollType, Prepared
<1> HIDE DEF copy
<1>2. UniqueIds'
  BY <1>1 DEF RollInv, UniqueIds
<1>3. RollType'
  <2>1. {h \in rolls : h.voter # copy.voter} \subseteq rolls
    OBVIOUS
  <2>2. IsFiniteSet(rolls')
    BY <1>1, <2>1, FS_Subset, FS_AddElement DEF RollInv, RollType
  <2>3. raced' \in BOOLEAN
    BY <1>1 DEF RollInv, RollType, Job
  <2>4. QED
    BY <1>1, <2>2, <2>3, OthersOutdated DEF RollInv, RollType
<1>4. Prepared' /\ JobsFresh'
  BY <1>1, OthersOutdated DEF RollInv, Prepared, KnownBy, KnownAs
<1>5. VotesFinal'
  BY <1>1 DEF RollInv, VotesFinal
<1>6. ASSUME ~raced' PROVE UniqueKeys' /\ WithinLimit' /\ VisitsFresh' /\ VotesMarked' /\ OneVoteEach'
  <2>1. /\ ~raced /\ mode \in ClosedModes
        /\ \E h \in rolls : h.voter = copy.voter /\ h.key = copy.key
    BY <1>1, <1>6 DEF RollInv, RollType, Job, JobsFresh, EditFits, copy
  <2>2. mode \notin VisitModes
    BY <2>1 DEF ClosedModes, VisitModes, OpenModes
  <2>3. votes = {} /\ \A x \in Visits : visits[x].pc = "idle"
    BY <2>2 DEF RollInv, VotesFinal, Prepared
  <2>4. PICK h \in rolls : h.voter = copy.voter /\ h.key = copy.key
    BY <2>1
  <2>5. rolls' = (rolls \ {h}) \cup {copy}
    BY <1>1, <2>4 DEF RollInv, UniqueIds
  <2>6. UniqueKeys'
    BY <2>1, <2>4, <2>5 DEF RollInv, UniqueKeys
  <2>7. WithinLimit'
    <3>1. IsFiniteSet(rolls) /\ IsFiniteSet(rolls \ {h}) /\ Cardinality(rolls \ {h}) = Cardinality(rolls) - 1
      BY FS_RemoveElement DEF RollInv, RollType
    <3>2. Cardinality(rolls') <= Cardinality(rolls \ {h}) + 1
      <4>1. Cardinality(rolls') = IF copy \in rolls \ {h} THEN Cardinality(rolls \ {h})
                                  ELSE Cardinality(rolls \ {h}) + 1
        BY <2>5, <3>1, FS_AddElement
      <4>2. Cardinality(rolls \ {h}) \in Nat
        BY <3>1, FS_CardinalityType
      <4>3. QED
        BY <4>1, <4>2
    <3>3. Cardinality(rolls) \in Nat /\ Cardinality(rolls') \in Nat /\ Limit \in Nat
      BY <1>3, <3>1, FS_CardinalityType, RollAssumption DEF RollType
    <3>4. Cardinality(rolls) <= Limit
      BY <2>1 DEF RollInv, WithinLimit
    <3>5. Cardinality(rolls') <= Limit
      BY <3>1, <3>2, <3>3, <3>4
    <3>6. QED
      BY <3>5 DEF WithinLimit
  <2>8. QED
    BY <1>1, <2>3, <2>6, <2>7 DEF VisitsFresh, VotesMarked, OneVoteEach
<1>7. QED
  BY <1>2, <1>3, <1>4, <1>5, <1>6 DEF RollInv

LEMMA CreateStep ==
  ASSUME RollInv, NEW x \in Visits, NEW id \in VoterIds, CreateRow(x, id)
  PROVE  RollInv'
<1> DEFINE k == visits[x].key
           entry == [voter |-> id, key |-> IF mode = "open_unique_cookie" THEN None ELSE k]
           row == NewRow(entry)
           visit == [Outdated(visits)[x] EXCEPT !.pc = "vote", !.row = row]
<1>1. /\ visits[x] \in Visit /\ visits[x].pc = "create" /\ ~draft /\ mode \in VisitModes
      /\ k \in KnownBy /\ id \notin UsedIds /\ (mode = "open_unique_cookie" => id = k)
  BY DEF CreateRow, RollInv, RollType, Prepared
<1>2. entry \in Entry
  BY <1>1 DEF Entry, KnownBy
<1>3. /\ row \in Row /\ row.voter = id /\ KnownAs(row, k)
      /\ row.key = IF mode = "open_unique_cookie" THEN None ELSE k
  BY <1>1, <1>2, NewRowType DEF KnownAs
<1>4. /\ rolls' = rolls \cup {row}
      /\ visits' = [Outdated(visits) EXCEPT ![x] = visit]
      /\ jobs' = Outdated(jobs) /\ raced' = (raced \/ visits[x].stale)
      /\ UNCHANGED <<mode, draft, seen, open, votes>>
  BY DEF CreateRow
<1>5. visit \in Visit /\ visit.pc = "vote" /\ visit.row = row /\ visit.key = k
  BY <1>3, OutdatedVisits DEF RollInv, Visit
<1> HIDE DEF entry, row, visit
<1>6. /\ visits'[x] = visit /\ \A y \in Visits : y # x => visits'[y] = Outdated(visits)[y]
      /\ visits' \in [Visits -> Visit]
  BY <1>4, <1>5, OutdatedVisits DEF RollInv
<1>7. RollType'
  <2>1. IsFiniteSet(rolls')
    BY <1>4, FS_AddElement DEF RollInv, RollType
  <2>2. raced' \in BOOLEAN
    BY <1>1, <1>4 DEF RollInv, RollType, Visit
  <2>3. QED
    BY <1>3, <1>4, <1>6, <2>1, <2>2, OutdatedJobs DEF RollInv, RollType
<1>8. Prepared'
  <2>1. \A y \in Visits : y # x => /\ visits'[y].pc = visits[y].pc /\ visits'[y].key = visits[y].key
                                  /\ visits'[y].row = visits[y].row
    BY <1>6, OutdatedVisits DEF RollInv
  <2>2. QED
    BY <1>1, <1>3, <1>4, <1>5, <1>6, <2>1, OutdatedJobs DEF RollInv, Prepared, KnownBy, KnownAs
<1>9. UniqueIds'
  BY <1>1, <1>3, <1>4 DEF RollInv, UniqueIds, UsedIds
<1>10. JobsFresh'
  BY <1>4, OutdatedJobs DEF RollInv, JobsFresh
<1>11. VisitsFresh'
  BY <1>5, <1>6, OutdatedVisits DEF RollInv, VisitsFresh
<1>12. WithinLimit' /\ VotesFinal'
  <2>1. mode \notin ClosedModes
    BY <1>1 DEF ClosedModes, VisitModes, OpenModes
  <2>2. QED
    BY <1>1, <1>4, <2>1 DEF RollInv, WithinLimit, VotesFinal
<1>13. ASSUME ~raced' PROVE UniqueKeys'
  <2>1. ~raced /\ ~visits[x].stale
    BY <1>1, <1>4, <1>13 DEF RollInv, RollType, Visit
  <2>2. \A r \in rolls : ~KnownAs(r, k)
    BY <1>1, <2>1 DEF RollInv, VisitsFresh
  <2>3. \A r \in rolls : row.key # None => r.key # row.key
    BY <1>3, <2>2 DEF KnownAs
  <2>4. QED
    BY <1>4, <2>1, <2>3 DEF RollInv, UniqueKeys
<1>14. ASSUME ~raced' PROVE VotesMarked' /\ OneVoteEach'
  <2>1. ~raced
    BY <1>4, <1>14
  <2>2. QED
    BY <1>4, <2>1 DEF RollInv, VotesMarked, OneVoteEach, KnownBy, KnownAs
<1>15. QED
  BY <1>7, <1>8, <1>9, <1>10, <1>11, <1>12, <1>13, <1>14 DEF RollInv

LEMMA VoteStep ==
  ASSUME RollInv, NEW x \in Visits, Vote(x)
  PROVE  RollInv'
<1> DEFINE row == visits[x].row
           marked == [row EXCEPT !.submitted = TRUE]
           k == visits[x].key
           vote == [key |-> k, voter |-> row.voter]
<1>1. /\ visits[x].pc = "vote" /\ row \in rolls /\ row \in Row /\ ~row.submitted
      /\ rolls' = (rolls \ {row}) \cup {marked} /\ votes' = votes \cup {vote}
      /\ visits' = [visits EXCEPT ![x] = NoVisit]
      /\ UNCHANGED <<mode, draft, seen, open, jobs, raced>>
      /\ KnownAs(row, k) /\ k \in KnownBy /\ ~draft /\ mode \in VisitModes
  BY DEF Vote, RollInv, RollType, Prepared
<1>2. /\ marked \in Row /\ marked.voter = row.voter /\ marked.key = row.key /\ marked.submitted
      /\ KnownAs(marked, k)
  BY <1>1 DEF Row, KnownAs
<1>3. vote \in [key: Keys \cup VoterIds, voter: VoterIds] /\ vote.key = k /\ vote.voter = row.voter
  BY <1>1 DEF KnownBy, Row
<1> HIDE DEF row, marked, vote, k
<1>4. visits'[x].pc = "idle" /\ \A y \in Visits : y # x => visits'[y] = visits[y]
  BY <1>1, IdleTypes DEF RollInv, RollType
<1>5. RollType'
  <2>1. IsFiniteSet(rolls')
    BY <1>1, FS_RemoveElement, FS_AddElement DEF RollInv, RollType
  <2>2. QED
    BY <1>1, <1>2, <1>3, <2>1, IdleTypes DEF RollInv, RollType
<1>6. Prepared'
  BY <1>1, <1>4 DEF RollInv, Prepared, KnownBy, KnownAs
<1>7. UniqueIds' /\ VotesFinal'
  BY <1>1, <1>2 DEF RollInv, UniqueIds, VotesFinal
<1>8. mode \notin ClosedModes
  BY <1>1 DEF ClosedModes, VisitModes, OpenModes
<1>9. ASSUME ~raced
      PROVE  UniqueKeys' /\ WithinLimit' /\ JobsFresh' /\ VisitsFresh' /\ VotesMarked' /\ OneVoteEach'
  <2>1. UniqueKeys'
    BY <1>1, <1>2, <1>9 DEF RollInv, UniqueKeys
  <2>2. WithinLimit' /\ JobsFresh'
    BY <1>1, <1>8, <1>9 DEF RollInv, WithinLimit, JobsFresh
  <2>3. VisitsFresh'
    BY <1>1, <1>2, <1>4, <1>9 DEF RollInv, VisitsFresh, KnownAs
  <2>4. ASSUME NEW v \in votes
        PROVE  \E r \in rolls \ {row} : r.voter = v.voter /\ r.submitted /\ KnownAs(r, v.key)
    BY <1>1, <1>9 DEF RollInv, VotesMarked
  <2>5. VotesMarked'
    BY <1>1, <1>2, <1>3, <1>9, <2>4 DEF RollInv, VotesMarked, KnownAs, KnownBy
  <2>6. ASSUME NEW v \in votes PROVE v.key # k
    <3>1. SUFFICES ASSUME v.key = k PROVE FALSE
      OBVIOUS
    <3>2. PICK r \in rolls \ {row} : KnownAs(r, k)
      BY <2>4, <3>1
    <3>3. CASE mode = "open_unique_cookie"
      BY <1>1, <3>2, <3>3 DEF RollInv, UniqueIds, KnownAs
    <3>4. CASE mode # "open_unique_cookie"
      <4>1. r.key = k /\ row.key = k /\ k # None
        BY <1>1, <3>2, <3>4, RollAssumption DEF KnownAs, KnownBy
      <4>2. QED
        BY <1>1, <1>9, <3>2, <4>1 DEF RollInv, UniqueKeys
    <3>5. QED
      BY <3>3, <3>4
  <2>7. OneVoteEach'
    BY <1>1, <1>3, <1>9, <2>6 DEF RollInv, OneVoteEach
  <2>8. QED
    BY <2>1, <2>2, <2>3, <2>5, <2>7
<1>10. QED
  BY <1>1, <1>5, <1>6, <1>7, <1>9 DEF RollInv

-----------------------------------------------------------------------------
(* The theorems.                                                           *)

LEMMA InitRollInv == Init => RollInv
<1> SUFFICES ASSUME Init PROVE RollInv
  OBVIOUS
<1>1. /\ rolls = {} /\ votes = {} /\ IsFiniteSet(rolls) /\ Cardinality(rolls) = 0 /\ 0 <= Limit
      /\ \A a \in Admins : jobs[a].pc = "idle"
      /\ \A x \in Visits : visits[x].pc = "idle"
  BY IdleTypes, FS_EmptySet, RollAssumption DEF Init
<1>2. RollType
  BY <1>1, IdleTypes, RollAssumption DEF Init, RollType
<1>3. QED
  BY <1>1, <1>2 DEF RollInv, Prepared, UniqueIds, UniqueKeys, WithinLimit, JobsFresh, VisitsFresh,
                    VotesFinal, VotesMarked, OneVoteEach

LEMMA RollInvStep == RollInv /\ [Next]_rollVars => RollInv'
<1> SUFFICES ASSUME RollInv, [Next]_rollVars PROVE RollInv'
  OBVIOUS
<1>1. ASSUME NEW a \in Admins, AdminStep(a) PROVE RollInv'
  BY <1>1, QuietSteps, InsertStep, ClearStep, WriteBackStep, ChangeModeStep, AskToClearStep,
     SubmitStep, ClickStep DEF AdminStep
<1>2. ASSUME NEW x \in Visits, VisitStep(x) PROVE RollInv'
  BY <1>2, VisitReadSteps, CreateStep, VoteStep DEF VisitStep
<1>3. QED
  BY <1>1, <1>2, FinalizeStep, QuietSteps DEF Next

\* What ties the list, the requests under way and the votes together, for any
\* numbers of voters, administrators and visits.
THEOREM RollInvariant == Spec => []RollInv
BY InitRollInv, RollInvStep, PTL DEF Spec

\* Every reachable state is well typed.
THEOREM RollTypeCorrect == Spec => []TypeOK
<1>1. RollInv => TypeOK
  BY DEF RollInv, RollType, TypeOK, Job, Visit
<1>2. QED
  BY <1>1, RollInvariant, PTL

\* One head row per voter id always; the limit and unique emails or addresses
\* unless a write rested on a list that had changed.
THEOREM ListSound == Spec => []ListSoundOrRace
<1>1. RollInv => ListSoundOrRace
  BY DEF RollInv, UniqueIds, UniqueKeys, WithinLimit, ListSoundOrRace
<1>2. QED
  BY <1>1, RollInvariant, PTL

\* One vote per email, address or cookie, unless such a write happened.
THEOREM OneVote == Spec => []OneVoteOrRace
<1>1. RollInv => OneVoteOrRace
  BY DEF RollInv, OneVoteEach, OneVoteOrRace
<1>2. QED
  BY <1>1, RollInvariant, PTL

\* Whatever the roles are, up-to-date clicks are refused only for the reasons
\* that RefusalsExplained lists.
THEOREM Refusals == Spec => []RefusalsExplained
<1>1. Init => RefusalsExplained
  BY DEF Init, RefusalsExplained
<1>2. ASSUME RollInv, RefusalsExplained, [Next]_rollVars PROVE RefusalsExplained'
  <2>1. ASSUME NEW a \in Admins, NEW op \in Buttons, RefuseClick(a, op) PROVE RefusalsExplained'
    <3> DEFINE row == open[a]
    <3>1. /\ refused' = [op |-> op, role |-> Role[a], mode |-> mode]
          /\ row \in rolls /\ MayClick(a, op, row) /\ Copies(a, op, row) = {}
      BY <2>1 DEF RefuseClick
    <3>2. row \in Row
      BY <1>2, <3>1 DEF RollInv, RollType
    <3> HIDE DEF row
    <3>3. CASE mode = "closed_bv_managed_ids"
      BY <3>1, <3>3 DEF RefusalsExplained
    <3>4. CASE op = "reveal"
      BY <3>1, <3>3, <3>4 DEF MayClick
    <3>5. CASE mode # "closed_bv_managed_ids" /\ op # "reveal"
      <4>1. /\ row \in Found(op, row) /\ Role[a] \in Shown[op] /\ ShownIn(op, row.state)
        BY <3>1, <3>5 DEF Found, MayClick
      <4>2. ~(Role[a] \in Accepted[op] /\ row.state \in AcceptedIn[op])
        BY <3>1, <3>5, <4>1 DEF Copies
      <4>3. row.state \in {"approved", "flagged", "registered", "invalid"}
        BY <3>2 DEF Row, RollState
      <4>4. op \in {"approve", "flag"} => /\ Role[a] \in Accepted[op]
                                         /\ row.state \in AcceptedIn[op]
        <5>1. CASE op = "approve"
          BY <4>1, <5>1 DEF Shown, Accepted, AcceptedIn, ShownIn
        <5>2. CASE op = "flag"
          BY <4>1, <4>3, <5>2 DEF Shown, Accepted, AcceptedIn, ShownIn
        <5>3. QED
          BY <5>1, <5>2
      <4>5. op = "invalidate" => Role[a] = "admin"
        BY <4>1, <4>2, <4>3 DEF Shown, Accepted, AcceptedIn, ShownIn, Managers
      <4>6. op \in {"approve", "flag", "unflag", "invalidate"}
        BY <3>5 DEF Buttons, Shown
      <4>7. QED
        BY <3>1, <4>2, <4>4, <4>5, <4>6 DEF RefusalsExplained
    <3>6. QED
      BY <3>3, <3>4, <3>5
  <2>2. CASE UNCHANGED refused
    BY <1>2, <2>2 DEF RefusalsExplained
  <2>3. QED
    BY <1>2, <2>1, <2>2
       DEF Next, AdminStep, VisitStep, FetchList, InsertBatch, Clear, WriteBack, ChangeMode,
           AskToClear, Submit, Inspect, Click, FindRow, MissRow, CreateRow, Vote, EndVisit, Finalize,
           rollVars
<1>3. QED
  BY <1>1, <1>2, RollInvariant, PTL DEF Spec

=============================================================================
