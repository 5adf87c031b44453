------------------------------ MODULE CastVote ------------------------------
(***************************************************************************)
(* Casting a ballot in an open election, and the administrators' edits of  *)
(* the voter roll that run beside it.                                      *)
(*                                                                         *)
(* electionRollDB and ballotDB are versioned tables: a write demotes the   *)
(* row with head = true and inserts a new head whose version (update_date) *)
(* is Date.now().  Versions are only ever compared for equality, so Times  *)
(* is an unordered set and a write may pick any member of it: server       *)
(* clocks that disagree or step back are included.  The two tables enforce *)
(* a primary key that holds the version and a unique index over the heads. *)
(*                                                                         *)
(* A request is the handler castVoteController between its awaits; one     *)
(* member of uploadBallotsController's batch takes the same steps.  An     *)
(* editor is any handler that reads a roll row, awaits something, and      *)
(* writes its copy back with ElectionRollDB.update.                        *)
(***************************************************************************)
EXTENDS Naturals, FiniteSets

CONSTANTS
  Voters,         \* voter_id values
  BallotIds,      \* ballot_id values makeUniqueID can return
  Times,          \* values of Date.now()
  Requests,       \* cast requests the servers can have in flight
  Editors,        \* roll edits the servers can have in flight
  Access,         \* voter_access and voter_authentication, see below
  BallotUpdates,  \* settings.ballot_updates
  EditKinds,      \* the handlers the editors run
  None            \* absent value

(***************************************************************************)
(* "closed": the roll is made by the administrators (voter_id, closed);    *)
(* "device": open, one vote per user.sub, the roll row is made on demand;  *)
(* "anyone": open without authentication fields, the roll row is only      *)
(* written with the ballot.  settingsCompatiblityValidation allows ballot  *)
(* updates in closed elections only.                                       *)
(***************************************************************************)
RollState == {"approved", "flagged", "registered", "invalid"}

StateEdits == {"approve", "flag", "invalidate", "unflag"}

ASSUME SettingsAssumption ==
  /\ Access \in {"closed", "device", "anyone"}
  /\ BallotUpdates \in BOOLEAN
  /\ BallotUpdates => Access = "closed"
  /\ EditKinds \subseteq StateEdits \cup {"email"}

RollRow ==
  [voter: Voters, version: Times, head: BOOLEAN, submitted: BOOLEAN,
   ballot: BallotIds \cup {None}, state: RollState, emailed: BOOLEAN,
   casts: Nat]

BallotRow == [ballot: BallotIds, version: Times, head: BOOLEAN, voter: Voters]

ASSUME NoneAssumption ==
  None \notin Voters \cup BallotIds \cup Times \cup RollRow

VARIABLES
  rolls,    \* rows of electionRollDB for this election
  ballots,  \* rows of ballotDB for this election
  reqs,     \* the local state of each cast request
  edits     \* the row each roll edit is about to write back

vars == <<rolls, ballots, reqs, edits>>

Results ==
  {"none", "accepted", "unauthorized", "alreadyVoted", "conflict", "error"}

Request ==
  [pc: {"done", "create", "ready", "submit"}, voter: Voters \cup {None},
   copy: RollRow \cup {None}, ballot: BallotIds \cup {None},
   target: Times \cup {None}, result: Results]

TypeOK ==
  /\ rolls \subseteq RollRow
  /\ ballots \subseteq BallotRow
  /\ reqs \in [Requests -> Request]
  /\ edits \in [Editors -> RollRow \cup {None}]
  /\ \A r \in Requests :
       /\ reqs[r].pc # "done" => reqs[r].voter \in Voters
       /\ reqs[r].pc \in {"ready", "submit"} => reqs[r].copy \in RollRow
       /\ reqs[r].pc = "submit" => reqs[r].ballot \in BallotIds

-----------------------------------------------------------------------------
(* The two tables.                                                         *)

HeadRolls(v) == {row \in rolls : row.head /\ row.voter = v}

HeadBallots(b) == {row \in ballots : row.head /\ row.ballot = b}

\* The ballots of voter v that tabulation counts.
VotesOf(v) == {row \in ballots : row.head /\ row.voter = v}

CountedIds(v) == {row.ballot : row \in VotesOf(v)}

\* Mistake: the superseded rows are deleted, not kept for the audit.
DemoteByDelete(table, selected) == table \ selected

\* UPDATE ... SET head = false WHERE <selected> AND head.
Demote(table, selected) ==
  {IF row \in selected THEN [row EXCEPT !.head = FALSE] ELSE row : row \in table}

\* Mistake: the schema before the unique index on (election_id, voter_id)
\* WHERE head, with the primary key alone.
RollFitsKeyOnly(table, row) ==
  \A old \in table : old.voter = row.voter => old.version # row.version

\* The constraints of electionRollDB allow the insert of row into table.
RollFits(table, row) ==
  \A old \in table :
    old.voter = row.voter => old.version # row.version /\ ~old.head

\* Mistake: the same for ballotDB.
BallotFitsKeyOnly(table, row) ==
  \A old \in table : old.ballot = row.ballot => old.version # row.version

\* The constraints of ballotDB allow the insert of row into table.
BallotFits(table, row) ==
  \A old \in table :
    old.ballot = row.ballot => old.version # row.version /\ ~old.head

NewRoll(v, t) ==
  [voter |-> v, version |-> t, head |-> TRUE, submitted |-> FALSE,
   ballot |-> None, state |-> "approved", emailed |-> FALSE, casts |-> 0]

-----------------------------------------------------------------------------
(* makeBallotEvent: find or create the roll, decide whether to go on.      *)

Idle(result, v) ==
  [pc |-> "done", voter |-> v, copy |-> None, ballot |-> None,
   target |-> None, result |-> result]

Finish(r, result) ==
  reqs' = [reqs EXCEPT ![r] = Idle(result, reqs[r].voter)]

Holding(pc, v, row) ==
  [Idle("none", v) EXCEPT !.pc = pc, !.copy = row]

\* getOrCreateElectionRoll found the head row, assertVoterMayVote let it pass.
ReadRoll(r, v) ==
  /\ reqs[r].pc = "done"
  /\ Access # "anyone"
  /\ \E row \in HeadRolls(v) :
       /\ row.submitted => BallotUpdates
       /\ reqs' = [reqs EXCEPT ![r] = Holding("ready", v, row)]
  /\ UNCHANGED <<rolls, ballots, edits>>

RefuseVoted(r, v) ==
  /\ reqs[r].pc = "done"
  /\ Access # "anyone"
  /\ ~BallotUpdates
  /\ \E row \in HeadRolls(v) : row.submitted
  /\ reqs' = [reqs EXCEPT ![r] = Idle("alreadyVoted", v)]
  /\ UNCHANGED <<rolls, ballots, edits>>

\* getElectionRoll answers null when no row matches and also when the query
\* fails: this and the next action do not depend on HeadRolls(v).
RefuseUnknown(r, v) ==
  /\ reqs[r].pc = "done"
  /\ Access = "closed"
  /\ reqs' = [reqs EXCEPT ![r] = Idle("unauthorized", v)]
  /\ UNCHANGED <<rolls, ballots, edits>>

MissRoll(r, v) ==
  /\ reqs[r].pc = "done"
  /\ Access = "device"
  /\ reqs' = [reqs EXCEPT ![r] = Holding("create", v, None)]
  /\ UNCHANGED <<rolls, ballots, edits>>

\* submitElectionRoll inserts and returns the row the database wrote.
CreateRoll(r, t) ==
  /\ reqs[r].pc = "create"
  /\ LET row == NewRoll(reqs[r].voter, t) IN
       /\ RollFits(rolls, row)
       /\ rolls' = rolls \cup {row}
       /\ reqs' = [reqs EXCEPT ![r] = Holding("ready", row.voter, row)]
  /\ UNCHANGED <<ballots, edits>>

\* Mistake: the generated voter id is not checked against those in use.
MakeUpRollAnyId(r, v, t) ==
  /\ reqs[r].pc = "done"
  /\ Access = "anyone"
  /\ reqs' = [reqs EXCEPT ![r] = Holding("ready", v, NewRoll(v, t))]
  /\ UNCHANGED <<rolls, ballots, edits>>

\* Without authentication fields the row is made up, not stored.  Random
\* voter ids of requests in flight are taken to differ; left out is an id in
\* use whose lookup fails, for which getElectionRoll answers null as well.
MakeUpRoll(r, v, t) ==
  /\ reqs[r].pc = "done"
  /\ Access = "anyone"
  /\ HeadRolls(v) = {}
  /\ \A q \in Requests : reqs[q].pc # "done" => reqs[q].voter # v
  /\ reqs' = [reqs EXCEPT ![r] = Holding("ready", v, NewRoll(v, t))]
  /\ UNCHANGED <<rolls, ballots, edits>>

(* makeBallotEvent: the ballot id.                                         *)

\* getBallotByVoterID joins ballots with every version of the voter's roll.
PriorBallots(v) ==
  {row \in ballots : /\ row.head
                     /\ \E roll \in rolls : roll.voter = v /\ roll.ballot = row.ballot}

\* target is the row version the UPDATE of submitBallotEvent sees when the
\* statement starts; a statement that waits for a lock re-checks that row.
ReuseBallot(r) ==
  /\ reqs[r].pc = "ready"
  /\ BallotUpdates
  /\ \E row \in PriorBallots(reqs[r].voter) :
       reqs' = [reqs EXCEPT ![r].pc = "submit", ![r].ballot = row.ballot,
                            ![r].target = row.version]
  /\ UNCHANGED <<rolls, ballots, edits>>

\* makeUniqueID asks getBallotByID whether b is taken; null, also the answer
\* to a failed query, means free, so that b may be a ballot that exists.
PickBallot(r, b) ==
  /\ reqs[r].pc = "ready"
  /\ BallotUpdates => PriorBallots(reqs[r].voter) = {}
  /\ reqs' = [reqs EXCEPT ![r].pc = "submit", ![r].ballot = b]
  /\ UNCHANGED <<rolls, ballots, edits>>

-----------------------------------------------------------------------------
(* submitBallotEvent: one transaction.                                     *)

IsUpdate(r) == reqs[r].target # None

\* The UPDATE's snapshot is taken when the transaction starts, which may be
\* long after ReuseBallot: another update may have committed in between.
StartUpdate(r) ==
  /\ reqs[r].pc = "submit"
  /\ IsUpdate(r)
  /\ \E row \in HeadBallots(reqs[r].ballot) :
       /\ row.version # reqs[r].target
       /\ reqs' = [reqs EXCEPT ![r].target = row.version]
  /\ UNCHANGED <<rolls, ballots, edits>>

TargetHeld(r) ==
  IsUpdate(r) =>
    \E row \in HeadBallots(reqs[r].ballot) : row.version = reqs[r].target

BallotsAfter(r) ==
  IF IsUpdate(r) THEN Demote(ballots, HeadBallots(reqs[r].ballot)) ELSE ballots

BallotToInsert(r, t) ==
  [ballot |-> reqs[r].ballot, version |-> t, head |-> TRUE,
   voter |-> reqs[r].voter]

\* Mistake: the roll row does not learn the ballot id.
RollWithoutBallot(r, t) ==
  [reqs[r].copy EXCEPT !.version = t, !.head = TRUE, !.submitted = TRUE,
                       !.casts = @ + 1]

RollToInsert(r, t) ==
  [reqs[r].copy EXCEPT !.version = t, !.head = TRUE, !.submitted = TRUE,
                       !.ballot = reqs[r].ballot, !.casts = @ + 1]

\* Mistake: no WHERE update_date = ..., the last writer wins.
UnchangedAnyVersion(r) == HeadRolls(reqs[r].voter)

\* The head row the optimistic check of the roll's UPDATE selects.
Unchanged(r) ==
  {row \in HeadRolls(reqs[r].voter) : row.version = reqs[r].copy.version}

\* The OCC check hit, or there is no head at all (a made-up roll).
RollFree(r) == Unchanged(r) # {} \/ HeadRolls(reqs[r].voter) = {}

CommitVote(r, t) ==
  /\ reqs[r].pc = "submit"
  /\ TargetHeld(r)
  /\ BallotFits(BallotsAfter(r), BallotToInsert(r, t))
  /\ RollFree(r)
  /\ RollFits(Demote(rolls, Unchanged(r)), RollToInsert(r, t))
  /\ ballots' = BallotsAfter(r) \cup {BallotToInsert(r, t)}
  /\ rolls' = Demote(rolls, Unchanged(r)) \cup {RollToInsert(r, t)}
  /\ Finish(r, "accepted")
  /\ UNCHANGED edits

\* CONCURRENT_BALLOT_UPDATE_DETECTED
RejectBallotUpdate(r) ==
  /\ reqs[r].pc = "submit"
  /\ ~TargetHeld(r)
  /\ Finish(r, "conflict")
  /\ UNCHANGED <<rolls, ballots, edits>>

\* Mistake: every miss of the optimistic check is taken for a second vote.
RejectAsVoted(r, t) ==
  /\ reqs[r].pc = "submit"
  /\ TargetHeld(r)
  /\ BallotFits(BallotsAfter(r), BallotToInsert(r, t))
  /\ ~RollFree(r)
  /\ Finish(r, "alreadyVoted")
  /\ UNCHANGED <<rolls, ballots, edits>>

\* The ballot went in, the roll's UPDATE found no row: everything is undone.
RejectStaleRoll(r, t) ==
  /\ reqs[r].pc = "submit"
  /\ TargetHeld(r)
  /\ BallotFits(BallotsAfter(r), BallotToInsert(r, t))
  /\ ~RollFree(r)
  /\ \E winningHead \in HeadRolls(reqs[r].voter) :
       Finish(r, IF winningHead.submitted THEN "alreadyVoted" ELSE "conflict")
  /\ UNCHANGED <<rolls, ballots, edits>>

\* A constraint, or the connection, fails at any statement: the transaction
\* rolls back and the error handler answers.
FailRequest(r) ==
  /\ reqs[r].pc # "done"
  /\ Finish(r, "error")
  /\ UNCHANGED <<rolls, ballots, edits>>

-----------------------------------------------------------------------------
(* Roll edits: read, modify, write back without a version check.           *)

ValidStates(kind) ==
  CASE kind = "approve"    -> {"registered", "flagged"}
    [] kind = "flag"       -> {"approved", "registered", "invalid"}
    [] kind = "invalidate" -> {"flagged"}
    [] kind = "unflag"     -> {"invalid"}
    [] OTHER               -> RollState

NewState(kind, state) ==
  CASE kind = "approve"              -> "approved"
    [] kind \in {"flag", "unflag"}   -> "flagged"
    [] kind = "invalidate"           -> "invalid"
    [] OTHER                         -> state

ReadForEdit(e, v, kind) ==
  /\ edits[e] = None
  /\ \E row \in HeadRolls(v) :
       /\ row.state \in ValidStates(kind)
       /\ edits' = [edits EXCEPT ![e] =
            [row EXCEPT !.state = NewState(kind, @),
                        !.emailed = @ \/ kind = "email"]]
  /\ UNCHANGED <<rolls, ballots, reqs>>

WriteEdit(e, t) ==
  /\ edits[e] # None
  /\ LET row == [edits[e] EXCEPT !.version = t, !.head = TRUE]
         demoted == Demote(rolls, HeadRolls(row.voter))
     IN /\ RollFits(demoted, row)
        /\ rolls' = demoted \cup {row}
  /\ edits' = [edits EXCEPT ![e] = None]
  /\ UNCHANGED <<ballots, reqs>>

\* ElectionRollDB.update catches every error and answers null.
FailEdit(e) ==
  /\ edits[e] # None
  /\ edits' = [edits EXCEPT ![e] = None]
  /\ UNCHANGED <<rolls, ballots, reqs>>

-----------------------------------------------------------------------------
\* In a closed election the administrators have put some voters on the roll.
Init ==
  /\ \E invited \in SUBSET Voters, t \in Times :
       /\ Access # "closed" => invited = {}
       /\ rolls = {NewRoll(v, t) : v \in invited}
  /\ ballots = {}
  /\ reqs = [r \in Requests |-> Idle("none", None)]
  /\ edits = [e \in Editors |-> None]

Lookup(r) ==
  \E v \in Voters : \/ ReadRoll(r, v)
                    \/ RefuseVoted(r, v)
                    \/ RefuseUnknown(r, v)
                    \/ MissRoll(r, v)

Cast(r) ==
  \/ Lookup(r)
  \/ \E v \in Voters, t \in Times : MakeUpRoll(r, v, t)
  \/ ReuseBallot(r)
  \/ \E b \in BallotIds : PickBallot(r, b)
  \/ StartUpdate(r)
  \/ RejectBallotUpdate(r)
  \/ FailRequest(r)
  \/ \E t \in Times : \/ CreateRoll(r, t)
                      \/ CommitVote(r, t)
                      \/ RejectStaleRoll(r, t)

Edit(e) ==
  \/ \E v \in Voters, kind \in EditKinds : ReadForEdit(e, v, kind)
  \/ \E t \in Times : WriteEdit(e, t)
  \/ FailEdit(e)

Next ==
  \/ \E r \in Requests : Cast(r)
  \/ \E e \in Editors : Edit(e)

Spec == Init /\ [][Next]_vars

-----------------------------------------------------------------------------
(* Properties.                                                             *)

\* No voter has two ballots that tabulation reads (head rows of ballotDB).
OneVotePerVoter ==
  \A a, b \in ballots : a.head /\ b.head /\ a.voter = b.voter => a = b

\* The roll and the ballot box agree: the ballots counted for a voter are
\* exactly the one the voter's head roll row names once it is submitted, and
\* the history of that row records every ballot version ever stored for them.
RollMatchesBallots ==
  /\ \A v \in Voters :
       CountedIds(v) =
         {row.ballot : row \in {h \in HeadRolls(v) : h.submitted}}
  /\ \A row \in rolls :
       row.head => row.casts = Cardinality({b \in ballots : b.voter = row.voter})

\* Every counted ballot is named by some version of its voter's roll row, so
\* getBallotByVoterID finds it whatever the edits did to the head.
VotesTraceable ==
  \A b \in ballots :
    \E row \in rolls :
      row.voter = b.voter /\ row.ballot = b.ballot /\ row.submitted

\* Whoever is told "User has already voted" has a ballot that is counted.
AlreadyVotedIsTrue ==
  \A r \in Requests :
    reqs[r].result = "alreadyVoted" => VotesOf(reqs[r].voter) # {}

\* A cast never adds a ballot for a voter whose roll row, at the commit, says
\* that the voter has voted: the check made before the awaits still holds.
NoVoteOnSubmittedRoll ==
  [][\A v \in Voters :
       (\A row \in HeadRolls(v) : ~row.submitted)
         \/ CountedIds(v)' \subseteq CountedIds(v)]_vars

\* A stored ballot never undoes an administrator's edit of the roll row that
\* was written while the ballot was on its way.
CastKeepsEdits ==
  [][ballots' # ballots =>
       \A old \in rolls, new \in rolls' :
         old.head /\ new.head /\ old.voter = new.voter =>
           old.state = new.state /\ old.emailed = new.emailed]_vars

-----------------------------------------------------------------------------
(* The inductive invariant behind these properties.                        *)

\* What a change of head leaves of a roll row.
SameRow(x, y) ==
  /\ x.voter = y.voter /\ x.version = y.version
  /\ x.submitted = y.submitted /\ x.ballot = y.ballot

RollTableInv ==
  /\ \A x, y \in rolls :
       x.voter = y.voter /\ (x.version = y.version \/ (x.head /\ y.head)) => x = y
  /\ \A x \in rolls : \E h \in rolls : h.voter = x.voter /\ h.head

BallotTableInv ==
  /\ \A a, b \in ballots : a.head /\ b.head /\ a.ballot = b.ballot => a = b
  /\ \A a, b \in ballots : a.ballot = b.ballot => a.voter = b.voter
  /\ \A a \in ballots : \E h \in ballots : h.ballot = a.ballot /\ h.head

CrossInv ==
  /\ \A x \in rolls : ~x.submitted => x.ballot = None
  /\ \A x \in rolls :
       x.submitted => \E b \in ballots : b.ballot = x.ballot /\ b.voter = x.voter
  /\ \A b \in ballots :
       \E x \in rolls : x.voter = b.voter /\ x.ballot = b.ballot /\ x.submitted
  /\ BallotUpdates =>
       \A a, b \in ballots : a.voter = b.voter => a.ballot = b.ballot

\* Without roll edits the head row keeps naming the counted ballot.
HeadInv ==
  Editors = {} =>
    \A b \in ballots : b.head =>
      \E x \in rolls : /\ x.head /\ x.voter = b.voter
                       /\ x.submitted /\ x.ballot = b.ballot

\* The copy a request holds is, up to head, a row that is still stored.
CopyInv(r) ==
  /\ reqs[r].copy.voter = reqs[r].voter
  /\ reqs[r].copy.submitted => BallotUpdates
  /\ Access # "anyone" => \E x \in rolls : SameRow(x, reqs[r].copy)
  /\ Access = "anyone" =>
       ~reqs[r].copy.submitted /\ \A x \in rolls : x.voter # reqs[r].voter

\* What ReuseBallot or PickBallot found still decides the submit, or the
\* roll row has moved on and the OCC check will notice.
SubmitInv(r) ==
  IF IsUpdate(r)
  THEN /\ BallotUpdates
       /\ \E b \in ballots : b.ballot = reqs[r].ballot /\ b.voter = reqs[r].voter
  ELSE /\ ~reqs[r].copy.submitted
       /\ BallotUpdates =>
            \/ \A b \in ballots : b.voter # reqs[r].voter
            \/ \A x \in rolls : x.head /\ x.voter = reqs[r].voter =>
                 x.version # reqs[r].copy.version

RequestInv ==
  /\ \A r \in Requests :
       /\ reqs[r].pc = "create" => Access = "device"
       /\ reqs[r].pc = "ready" => ~IsUpdate(r)
       /\ reqs[r].pc \in {"ready", "submit"} => CopyInv(r)
       /\ reqs[r].pc = "submit" => SubmitInv(r)
  /\ Access = "anyone" =>
       \A r, q \in Requests :
         reqs[r].pc # "done" /\ reqs[q].pc # "done" /\ r # q =>
           reqs[r].voter # reqs[q].voter

EditInv ==
  \A e \in Editors : edits[e] # None => \E x \in rolls : SameRow(x, edits[e])

CastInv ==
  /\ RollTableInv /\ BallotTableInv /\ CrossInv /\ HeadInv
  /\ RequestInv /\ EditInv

\* The versions of ballots stored for v.
BallotsOf(v) == {b \in ballots : b.voter = v}

\* If the row a request has read is still there, it says what the copy says.
CopyTrue(r) ==
  /\ \A x \in rolls :
       x.voter = reqs[r].voter /\ x.version = reqs[r].copy.version =>
         /\ x.state = reqs[r].copy.state /\ x.emailed = reqs[r].copy.emailed
         /\ x.casts = reqs[r].copy.casts
  /\ Access = "anyone" => reqs[r].copy.casts = 0

\* No version of a ballot is lost or merged, and the head of a roll row that
\* nobody edits behind the casts counts them.
RecordInv ==
  /\ IsFiniteSet(ballots)
  /\ \A a, b \in ballots : a.ballot = b.ballot /\ a.version = b.version => a = b
  /\ \A r \in Requests : reqs[r].pc \in {"ready", "submit"} => CopyTrue(r)
  /\ Editors = {} =>
       \A x \in rolls : x.head => x.casts = Cardinality(BallotsOf(x.voter))

-----------------------------------------------------------------------------
\* Casting implements the ballot box.
Box == INSTANCE BallotBox WITH
  Versions <- Times,
  box <- {[voter |-> row.voter, ballot |-> row.ballot, version |-> row.version] :
            row \in {b \in ballots : b.head}}

ImplementsBallotBox == Box!Spec

=============================================================================
