--------------------------- MODULE ElectionAdmin ---------------------------
(***************************************************************************)
(* The life of one election: its versioned row in electionDB, the requests *)
(* that read and rewrite it, and the administrators' browser tabs.         *)
(*                                                                         *)
(* Every request under /Election/:id first reads the head row, and         *)
(* electionPostAuthMiddleware may move the state along the schedule before *)
(* the handler runs.  Every write is updateElection, which replaces the    *)
(* head row if its update_date is still the expected one.  The handlers    *)
(* differ in where the expected date and the new contents come from: the   *)
(* tab that sent the request or the row the server read.                   *)
(*                                                                         *)
(* update_date is compared for equality only, and the primary key keeps a  *)
(* stored date from being used again: a write takes any version that the   *)
(* head, a tab or a request does not hold.                                 *)
(*                                                                         *)
(* Ballots come in two ways: voters cast theirs one by one, which needs an *)
(* open election, and administrators upload them, which needs no state at  *)
(* all.  Who may do so, and what a ballot needs besides (its roll row, its *)
(* validation), is left out here.                                          *)
(***************************************************************************)
EXTENDS Naturals, FiniteSets

CONSTANTS
  Versions,  \* values of update_date
  Requests,  \* requests the servers can have in flight
  Tabs,      \* browser tabs with ElectionContextProvider
  TabOps,    \* TabOps[t]: the writes tab t makes
  OtherOps,  \* what is asked of the server without such a tab
  Ballots,   \* ballots that are ever cast or uploaded
  HasStart,  \* the election has a start_time
  HasEnd,    \* the election has an end_time
  None

State == {"draft", "finalized", "open", "closed", "archived"}

\* Parts of the row that are written independently: everything editElection
\* covers, and the fields of the handlers that write one field.
Fields == {"setup", "roles", "publicResults", "owner", "campaigns", "writeIns"}

TabWrites ==
  {"edit", "roles", "publicResults", "finalize", "open", "close", "archive"}

\* claimElection, sendEmailsController and setWriteInResults.
ServerWrites == {"owner", "campaigns", "writeIns"}

Ops ==
  TabWrites \cup ServerWrites \cup {"view", "vote", "upload", "deleteBallots"}

ASSUME OpsAssumption ==
  /\ TabOps \in [Tabs -> SUBSET TabWrites]
  /\ OtherOps \subseteq Ops \ TabWrites
  /\ HasStart \in BOOLEAN /\ HasEnd \in BOOLEAN

Row == [version: Versions, state: State, on: SUBSET Fields]

ASSUME NoneAssumption == None \notin Row \cup Tabs \cup Ops

VARIABLES
  head,      \* the head row of electionDB
  tabs,      \* tabs[t]: the election a tab holds, and latestUpdateDate
  reqs,      \* the local state of each request
  phase,     \* 0: before start_time, 1: started, 2: past end_time
  tests,     \* ballots stored by requests that saw a draft
  stored,    \* ballots stored by requests that saw a later state
  accepted,  \* ballots of the second kind that were ever stored
  cast       \* those of them that a voter cast, not uploaded

vars == <<head, tabs, reqs, phase, tests, stored, accepted, cast>>

boxes == <<tests, stored, accepted, cast>>

Request ==
  [pc: {"done", "auth", "reread", "handle", "clear"}, op: Ops \cup {None},
   row: Row \cup {None},   \* req.election
   sent: Row \cup {None},  \* req.body
   tab: Tabs \cup {None}]  \* who waits for the answer

TypeOK ==
  /\ head \in Row
  /\ tabs \in [Tabs -> Row]
  /\ reqs \in [Requests -> Request]
  /\ phase \in 0..2
  /\ tests \subseteq Ballots /\ stored \subseteq Ballots
  /\ accepted \subseteq Ballots /\ cast \subseteq Ballots
  /\ \A r \in Requests : reqs[r].pc # "done" =>
       /\ reqs[r].op \in Ops /\ reqs[r].row \in Row
       /\ reqs[r].op \in TabWrites <=> reqs[r].sent \in Row
       /\ reqs[r].pc = "clear" => reqs[r].op = "finalize"

Done == [pc |-> "done", op |-> None, row |-> None, sent |-> None, tab |-> None]

\* Versions somebody still knows.
Held ==
  {head.version} \cup {tabs[t].version : t \in Tabs}
    \cup UNION {{row.version : row \in {reqs[r].row, reqs[r].sent} \ {None}} :
                  r \in Requests}

Toggle(set, f) == (set \ {f}) \cup ({f} \ set)

-----------------------------------------------------------------------------
(* A request comes in; getElectionByID reads the head row.                 *)

Arrive(r, op) ==
  /\ reqs[r].pc = "done"
  /\ op \in OtherOps
  /\ reqs' = [reqs EXCEPT ![r] = [Done EXCEPT !.pc = "auth", !.op = op, !.row = head]]
  /\ UNCHANGED <<head, tabs, phase, boxes>>

\* enqueueWrite lets one write of a tab be in flight.  updateElection changes
\* the tab's own copy before it sends it.
Send(r, t, op) ==
  /\ reqs[r].pc = "done"
  /\ op \in TabOps[t]
  /\ \A q \in Requests : reqs[q].tab # t
  /\ tabs' = IF op = "edit" THEN [tabs EXCEPT ![t].on = Toggle(@, "setup")] ELSE tabs
  /\ reqs' = [reqs EXCEPT ![r] = [pc |-> "auth", op |-> op, row |-> head,
                                  sent |-> tabs'[t], tab |-> t]]
  /\ UNCHANGED <<head, phase, boxes>>

\* refreshElection
Refresh(t) ==
  /\ \A q \in Requests : reqs[q].tab # t
  /\ tabs' = [tabs EXCEPT ![t] = head]
  /\ UNCHANGED <<head, reqs, phase, boxes>>

\* The connection breaks: the tab gives up, the server goes on.
Disconnect(r) ==
  /\ reqs[r].tab # None
  /\ reqs' = [reqs EXCEPT ![r].tab = None]
  /\ UNCHANGED <<head, tabs, phase, boxes>>

-----------------------------------------------------------------------------
(* updateElectionStateIfNeeded                                             *)

Started == HasStart => phase >= 1

Ended == HasEnd /\ phase = 2

\* Mistake: the second of the two conditions is forgotten.
ScheduledToOpenOnly(state) ==
  IF state = "finalized" /\ Started THEN "open" ELSE state

Scheduled(state) ==
  LET opened == IF state = "finalized" /\ Started THEN "open" ELSE state
  IN IF opened = "open" /\ Ended THEN "closed" ELSE opened

\* setWriteInResults reads the row once more before it writes.
AfterAuth(r) == IF reqs[r].op = "writeIns" THEN "reread" ELSE "handle"

KeepState(r) ==
  /\ reqs[r].pc = "auth"
  /\ Scheduled(reqs[r].row.state) = reqs[r].row.state
  /\ reqs' = [reqs EXCEPT ![r].pc = AfterAuth(r)]
  /\ UNCHANGED <<head, tabs, phase, boxes>>

\* The write of the new state, with the row's own date as the expected one.
Transit(r, v) ==
  /\ reqs[r].pc = "auth"
  /\ Scheduled(reqs[r].row.state) # reqs[r].row.state
  /\ reqs[r].row.version = head.version
  /\ head' = [reqs[r].row EXCEPT !.state = Scheduled(@), !.version = v]
  /\ reqs' = [reqs EXCEPT ![r].pc = AfterAuth(r), ![r].row = head']
  /\ UNCHANGED <<tabs, phase, boxes>>

\* Conflict; the local row already has the new state.
LoseTransit(r) ==
  /\ reqs[r].pc = "auth"
  /\ Scheduled(reqs[r].row.state) # reqs[r].row.state
  /\ reqs[r].row.version # head.version
  /\ reqs' = [reqs EXCEPT ![r].pc = "reread", ![r].row.state = Scheduled(@)]
  /\ UNCHANGED <<head, tabs, phase, boxes>>

\* Mistake: only the date is read again, as if it were the lock.
RereadDate(r) ==
  /\ reqs[r].pc = "reread"
  /\ reqs' = [reqs EXCEPT ![r].pc = "handle", ![r].row.version = head.version]
  /\ UNCHANGED <<head, tabs, phase, boxes>>

\* The second getElectionByID, of the loser and of setWriteInResults.
Reread(r) ==
  /\ reqs[r].pc = "reread"
  /\ reqs' = [reqs EXCEPT ![r].pc = "handle", ![r].row = head]
  /\ UNCHANGED <<head, tabs, phase, boxes>>

-----------------------------------------------------------------------------
(* The handlers.                                                           *)

\* Mistake: the handler relies on the page to offer the right buttons.
AllowedAlways(r) == TRUE

\* The handler's own conditions on the state.
Allowed(r) ==
  CASE reqs[r].op = "edit"     -> reqs[r].sent.state = "draft"
    [] reqs[r].op = "finalize" -> reqs[r].row.state = "draft"
    [] reqs[r].op = "open"     -> reqs[r].row.state = "closed" /\ ~HasStart /\ ~HasEnd
    [] reqs[r].op = "close"    -> reqs[r].row.state = "open" /\ ~HasStart /\ ~HasEnd
    [] reqs[r].op = "archive"  -> reqs[r].row.state # "archived"
    [] reqs[r].op = "vote"     -> reqs[r].row.state \in {"draft", "open"}
    [] reqs[r].op = "deleteBallots" -> reqs[r].row.state = "draft"
    [] OTHER                   -> TRUE

Target == [finalize |-> "finalized", open |-> "open", close |-> "closed",
           archive |-> "archived"]

\* The row a write stores, but for its version.
NewRow(r) ==
  CASE reqs[r].op = "edit"         -> reqs[r].sent
    [] reqs[r].op \in DOMAIN Target -> [reqs[r].row EXCEPT !.state = Target[reqs[r].op]]
    [] OTHER                       -> [reqs[r].row EXCEPT !.on = Toggle(@, reqs[r].op)]

\* Mistake: the server's own date is used for the tab's contents.
ExpectedByServer(r) == reqs[r].row.version

\* expected_update_date
Expected(r) ==
  IF reqs[r].op \in TabWrites THEN reqs[r].sent.version ELSE reqs[r].row.version

Writes(r) ==
  reqs[r].pc = "handle" /\ reqs[r].op \in TabWrites \cup ServerWrites /\ Allowed(r)

\* enqueueWrite moves latestUpdateDate, and the update_date of the tab's
\* copy, to the version in the answer; the rest of the copy stays.
Answer(r, v) ==
  /\ reqs' = [reqs EXCEPT ![r] = Done]
  /\ tabs' = IF reqs[r].tab = None THEN tabs
             ELSE [tabs EXCEPT ![reqs[r].tab].version = v]

\* updateElection.  finalizeElection goes on to delete the ballots, with the
\* draft row still in req.election.
Write(r, v) ==
  /\ Writes(r)
  /\ Expected(r) = head.version
  /\ head' = [NewRow(r) EXCEPT !.version = v]
  /\ IF reqs[r].op = "finalize"
     THEN /\ reqs' = [reqs EXCEPT ![r].pc = "clear", ![r].sent.version = v]
          /\ UNCHANGED tabs
     ELSE Answer(r, v)
  /\ UNCHANGED <<phase, boxes>>

Conflict(r) ==
  /\ Writes(r)
  /\ Expected(r) # head.version
  /\ reqs' = [reqs EXCEPT ![r] = Done]
  /\ UNCHANGED <<head, tabs, phase, boxes>>

Refuse(r) ==
  /\ reqs[r].pc = "handle"
  /\ ~Allowed(r)
  /\ reqs' = [reqs EXCEPT ![r] = Done]
  /\ UNCHANGED <<head, tabs, phase, boxes>>

\* returnElection
View(r) ==
  /\ reqs[r].pc = "handle"
  /\ reqs[r].op = "view"
  /\ reqs' = [reqs EXCEPT ![r] = Done]
  /\ UNCHANGED <<head, tabs, phase, boxes>>

\* innerDeleteAllBallotsForElectionID after finalizing: every ballot of the
\* election goes.
ClearAfterFinalize(r) ==
  /\ reqs[r].pc = "clear"
  /\ tests' = {} /\ stored' = {}
  /\ Answer(r, reqs[r].sent.version)
  /\ UNCHANGED <<head, phase, accepted, cast>>

DeleteBallots(r) ==
  /\ reqs[r].pc = "handle" /\ reqs[r].op = "deleteBallots" /\ Allowed(r)
  /\ tests' = {} /\ stored' = {}
  /\ reqs' = [reqs EXCEPT ![r] = Done]
  /\ UNCHANGED <<head, tabs, phase, accepted, cast>>

\* castVoteController decides by the state of the row it was given.
CastTest(r, b) ==
  /\ reqs[r].pc = "handle" /\ reqs[r].op = "vote" /\ reqs[r].row.state = "draft"
  /\ b \notin tests \cup accepted
  /\ tests' = tests \cup {b}
  /\ reqs' = [reqs EXCEPT ![r] = Done]
  /\ UNCHANGED <<head, tabs, phase, stored, accepted, cast>>

\* Mistake: everything but a closed election takes votes.
CastUnlessClosed(r, b) ==
  /\ reqs[r].pc = "handle" /\ reqs[r].op = "vote"
  /\ reqs[r].row.state \notin {"draft", "closed", "archived"}
  /\ b \notin tests \cup accepted
  /\ stored' = stored \cup {b} /\ accepted' = accepted \cup {b} /\ cast' = cast \cup {b}
  /\ reqs' = [reqs EXCEPT ![r] = Done]
  /\ UNCHANGED <<head, tabs, phase, tests>>

CastReal(r, b) ==
  /\ reqs[r].pc = "handle" /\ reqs[r].op = "vote" /\ reqs[r].row.state = "open"
  /\ b \notin tests \cup accepted
  /\ stored' = stored \cup {b} /\ accepted' = accepted \cup {b} /\ cast' = cast \cup {b}
  /\ reqs' = [reqs EXCEPT ![r] = Done]
  /\ UNCHANGED <<head, tabs, phase, tests>>

\* uploadBallotsController does not look at the state, but for
\* makeBallotEvent, which takes the ballots of a draft for tests.  They are
\* stored one by one; one that is refused or fails does not stop the others.
UploadBallot(r, b) ==
  /\ reqs[r].pc = "handle" /\ reqs[r].op = "upload"
  /\ b \notin tests \cup accepted
  /\ IF reqs[r].row.state = "draft"
     THEN tests' = tests \cup {b} /\ UNCHANGED <<stored, accepted>>
     ELSE /\ stored' = stored \cup {b} /\ accepted' = accepted \cup {b}
          /\ UNCHANGED tests
  /\ UNCHANGED <<head, tabs, reqs, phase, cast>>

EndUpload(r) ==
  /\ reqs[r].pc = "handle" /\ reqs[r].op = "upload"
  /\ reqs' = [reqs EXCEPT ![r] = Done]
  /\ UNCHANGED <<head, tabs, phase, boxes>>

\* A query fails or the server stops, at any point.
Fail(r) ==
  /\ reqs[r].pc # "done"
  /\ reqs' = [reqs EXCEPT ![r] = Done]
  /\ UNCHANGED <<head, tabs, phase, boxes>>

Tick ==
  /\ HasStart \/ HasEnd
  /\ phase < 2
  /\ phase' = phase + 1
  /\ UNCHANGED <<head, tabs, reqs, boxes>>

-----------------------------------------------------------------------------
\* A new election is a draft, or finalized already (a quick poll).
Init ==
  /\ \E v \in Versions, state \in {"draft", "finalized"} :
       head = [version |-> v, state |-> state, on |-> {}]
  /\ tabs = [t \in Tabs |-> head]
  /\ reqs = [r \in Requests |-> Done]
  /\ phase = 0
  /\ tests = {} /\ stored = {} /\ accepted = {} /\ cast = {}

Step(r) ==
  \/ Disconnect(r) \/ KeepState(r) \/ LoseTransit(r) \/ Reread(r)
  \/ Conflict(r) \/ Refuse(r) \/ View(r) \/ ClearAfterFinalize(r) \/ DeleteBallots(r)
  \/ EndUpload(r) \/ Fail(r)
  \/ \E v \in Versions \ Held : Transit(r, v) \/ Write(r, v)
  \/ \E b \in Ballots : CastTest(r, b) \/ CastReal(r, b) \/ UploadBallot(r, b)

Next ==
  \/ \E r \in Requests : \/ \E op \in OtherOps : Arrive(r, op)
                         \/ \E t \in Tabs, op \in TabWrites : Send(r, t, op)
                         \/ Step(r)
  \/ \E t \in Tabs : Refresh(t)
  \/ Tick

Spec == Init /\ [][Next]_vars

\* Somebody keeps visiting the election page, a request does not hang for
\* ever, and the write of a due transition does not fail every single time.
Fairness ==
  \A r \in Requests :
    /\ WF_vars(Arrive(r, "view"))
    /\ WF_vars(Step(r))
    /\ SF_vars(\E v \in Versions \ Held : Transit(r, v))

-----------------------------------------------------------------------------
(* Properties.                                                             *)

\* Writes are atomic and lose nothing: seen from the head row, every write of
\* a request that read, waited and wrote back is one step on the current row.
Life == INSTANCE ElectionLife WITH state <- head.state, on <- head.on

ImplementsLife == Life!Spec

\* A finalized election never becomes a draft again, whose setup could be
\* edited while ballots come in.
NeverBackToDraft == [][head.state # "draft" => head'.state # "draft"]_vars

\* A ballot a voter cast counts only once the election has opened, and no
\* ballot, uploaded ones included, counts while the setup can be edited.
\* Uploads may be there before the opening: nothing looks at the state.
VotesFollowOpening ==
  /\ cast # {} => head.state \in {"open", "closed", "archived"}
  /\ accepted # {} => head.state # "draft"

\* A ballot that was stored as a vote stays stored.
VotesKept == accepted \subseteq stored

\* An election past its end_time does not stay open.
ClosesAtEnd ==
  (Ended /\ head.state \in {"finalized", "open"})
    ~> head.state \in {"closed", "archived"}

-----------------------------------------------------------------------------
(* The inductive invariant behind NeverBackToDraft and ImplementsLife.     *)

\* A version names one row: a request that would pass the check of
\* updateElection holds the head row itself.
RequestInv(r) ==
  /\ reqs[r].pc \in {"auth", "handle"} /\ reqs[r].row.version = head.version
       => reqs[r].row = head
  /\ reqs[r].pc \in {"auth", "handle"} /\ reqs[r].op \in TabWrites
       /\ reqs[r].sent.version = head.version
       => reqs[r].row.version = head.version

\* No tab moves its version forward by another write than an edit.
EditorsOnlyEdit == \A t \in Tabs : "edit" \in TabOps[t] => TabOps[t] = {"edit"}

\* If row has the version of the head it has the head's contents, but for
\* the setup, which may hold an edit that was not stored.
Agrees(row) ==
  row.version = head.version =>
    row.state = head.state /\ row.on \ {"setup"} = head.on \ {"setup"}

InFlightInv ==
  /\ \A r \in Requests : reqs[r].tab # None =>
       /\ reqs[r].pc # "done" /\ reqs[r].op \in TabOps[reqs[r].tab]
       /\ reqs[r].op = "edit" => reqs[r].sent = tabs[reqs[r].tab]
  /\ \A q, r \in Requests : reqs[q].tab = reqs[r].tab /\ reqs[r].tab # None => q = r

EditInv ==
  /\ \A t \in Tabs : "edit" \in TabOps[t] => Agrees(tabs[t])
  /\ \A r \in Requests :
       reqs[r].pc # "done" /\ reqs[r].op = "edit" => Agrees(reqs[r].sent)

AdminInv ==
  /\ \A r \in Requests : RequestInv(r)
  /\ InFlightInv
  /\ EditorsOnlyEdit => EditInv

=============================================================================
