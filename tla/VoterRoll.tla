----------------------------- MODULE VoterRoll ------------------------------
(***************************************************************************)
(* The voter list of one election: the administrators' pages that fill,    *)
(* inspect and clear it, and the visits of an open election that find or   *)
(* make the visitor's row.                                                 *)
(*                                                                         *)
(* The mode names what a voter is known by: a voter id, the login's email  *)
(* or the network address.  The last two are the key of a row; voter ids   *)
(* are then generated.  The only constraint of the table is one head row   *)
(* per voter id, so every other uniqueness rests on a read made before the *)
(* insert.  CastVote has the details of storing the ballot itself.         *)
(***************************************************************************)
EXTENDS Naturals, FiniteSets, Sequences, SequencesExt

CONSTANTS
  VoterIds,  \* voter ids, typed in or generated
  Keys,      \* emails and network addresses
  Admins,    \* administrators, each with one page and one request at a time
  Visits,    \* visits that are looking up or creating a row
  Modes,     \* modes the election is created in
  Limit,     \* FREE_TIER_PRIVATE_VOTER_LIMIT or its override
  Role,      \* Role[a]: the role of administrator a
  Duties,    \* who does what: functions from Admins to sets of tasks
  Rows,      \* the most rows an administrator enters at once
  CanFail,   \* a lookup query may fail
  None

OpenModes ==
  {"open_unique_cookie", "open_unique_keycloak", "open_unique_ip_address", "open_open"}

ClosedModes == {"closed_admin_managed_ids", "closed_bv_managed_ids"}

RollState == {"approved", "flagged", "registered", "invalid"}

ASSUME RollAssumption ==
  /\ Modes \subseteq OpenModes \cup ClosedModes
  /\ Limit \in Nat /\ Rows \in Nat
  /\ CanFail \in BOOLEAN
  /\ Duties \subseteq [Admins -> SUBSET {"settings", "list", "inspect"}]
  /\ None \notin VoterIds \cup Keys

Row == [voter: VoterIds, key: Keys \cup {None}, state: RollState,
        submitted: BOOLEAN]

VARIABLES
  tasks,   \* the member of Duties at hand, chosen once
  mode,    \* getVoterAuthenticationMode of the settings
  draft,   \* the election is a draft; otherwise it is open
  rolls,   \* head rows of electionRollDB for this election
  seen,    \* seen[a]: the page of a shows voters, as of its last fetch
  open,    \* open[a]: the voter inspected on that page, as it was shown
  jobs,    \* jobs[a]: what the server is doing for a
  visits,  \* visits[x]: what the server is doing for a visit
  votes,   \* who has voted: [key, voter] pairs
  refused, \* the last click the server refused although the page was up to date
  raced    \* some write rested on a list that had changed since it was read

rollVars == <<tasks, mode, draft, rolls, seen, open, jobs, visits, votes, refused, raced>>

UsedIds == {row.voter : row \in rolls}

NoJob == [pc |-> "idle", batch |-> {}, row |-> None, stale |-> FALSE]

NoVisit == [pc |-> "idle", key |-> None, row |-> None, stale |-> FALSE]

\* What the requests under way have read is out of date.
Outdated(requests) ==
  [r \in DOMAIN requests |-> [requests[r] EXCEPT !.stale = @ \/ requests[r].pc # "idle"]]

TypeOK ==
  /\ mode \in OpenModes \cup ClosedModes
  /\ draft \in BOOLEAN /\ raced \in BOOLEAN
  /\ rolls \subseteq Row
  /\ seen \in [Admins -> BOOLEAN]
  /\ open \in [Admins -> Row \cup {None}]
  /\ \A a \in Admins : jobs[a].pc \in {"idle", "insert", "clear", "write"}
  /\ \A x \in Visits : visits[x].pc \in {"idle", "create", "vote"}
  /\ votes \subseteq [key: Keys \cup VoterIds, voter: VoterIds]

-----------------------------------------------------------------------------
(* What the settings and the roles allow.                                  *)

\* The tab "Restricted", the tab "Email list" and ElectionAuthForm.
Offered(a) ==
  {m \in {"closed_bv_managed_ids", "open_unique_cookie"} : ~seen[a]}
    \cup {m \in ClosedModes : mode \in ClosedModes /\ ~seen[a]}
    \cup {m \in OpenModes : mode \in OpenModes}

ChangeMode(a, m) ==
  /\ draft
  /\ m \in Offered(a)
  /\ mode' = m
  /\ jobs' = Outdated(jobs)
  /\ UNCHANGED <<draft, rolls, seen, open, visits, votes, refused, raced>>

Managers == {"owner", "admin"}

\* The roles PermissionHandler shows a button of EditElectionRoll to.
Shown ==
  [approve |-> Managers \cup {"credentialer"}, flag |-> Managers \cup {"auditor", "credentialer"},
   unflag |-> Managers, invalidate |-> Managers]

\* The roles the handler of that button accepts.
Accepted == [Shown EXCEPT !.unflag = {"owner"}, !.invalidate = {"owner"}]

\* The states EditElectionRoll shows a button in.
ShownIn(op, state) ==
  CASE op = "approve" -> state = "registered"
    [] op = "flag"    -> state # "flagged"
    [] OTHER          -> state = "flagged"

\* Mistake: the transition from invalid is forgotten.
AcceptedInFew ==
  [approve |-> {"registered", "flagged"}, flag |-> {"approved", "registered"},
   unflag |-> {"invalid"}, invalidate |-> {"flagged"}]

\* The states changeElectionRollState accepts.
AcceptedIn ==
  [approve |-> {"registered", "flagged"}, flag |-> {"approved", "registered", "invalid"},
   unflag |-> {"invalid"}, invalidate |-> {"flagged"}]

NewState ==
  [approve |-> "approved", flag |-> "flagged", unflag |-> "flagged",
   invalidate |-> "invalid"]

-----------------------------------------------------------------------------
(* Filling and clearing the list.                                          *)

\* fetchRolls: open elections have no list to show.
FetchList(a) ==
  /\ mode \in ClosedModes
  /\ seen' = [seen EXCEPT ![a] = rolls # {}]
  /\ UNCHANGED <<mode, draft, rolls, open, jobs, visits, votes, refused, raced>>

\* The page reads one voter per line, by email or by voter id.
Lines ==
  IF mode = "closed_bv_managed_ids"
  THEN [voter: {None}, key: Keys]
  ELSE [voter: VoterIds, key: Keys \cup {None}]

\* duplicatesExist: the email of an earlier line comes again; lines without
\* an email share the empty one.
Duplicates(batch) ==
  {i \in DOMAIN batch : \E j \in 1..(i - 1) : batch[j].key = batch[i].key}

\* The lines that are sent, without what removeDuplicates takes out.
Sent(batch) == {batch[i] : i \in DOMAIN batch \ Duplicates(batch)}

\* A line of the upload names somebody who is on the list.
Clash(entry, row) ==
  \/ entry.key # None /\ entry.key = row.key
  \/ entry.voter # None /\ entry.voter = row.voter

\* Mistake: the limit is compared with the list as it was before.
AcceptableBefore(entries) ==
  /\ \A entry \in entries, row \in rolls : ~Clash(entry, row)
  /\ mode \in ClosedModes => Cardinality(rolls) <= Limit

\* addElectionRoll's checks against the rows it has read.
Acceptable(entries) ==
  /\ \A entry \in entries, row \in rolls : ~Clash(entry, row)
  /\ mode \in ClosedModes => Cardinality(rolls) + Cardinality(entries) <= Limit

\* Ids some request is about to insert; random ids are taken to differ.
Pending == UNION {{entry.voter : entry \in jobs[a].batch} : a \in Admins}

\* A line with its own id, or the one makeUniqueID finds for it.
WithId(entry, id) == [entry EXCEPT !.voter = IF @ = None THEN id ELSE @]

Submit(a, batch) ==
  /\ mode \in ClosedModes
  /\ jobs[a].pc = "idle"
  /\ LET sent == Sent(batch) IN
       /\ Acceptable(sent)
       /\ \E ids \in Injection(sent, VoterIds \ (UsedIds \cup Pending)) :
            jobs' = [jobs EXCEPT ![a] =
              [pc |-> "insert", batch |-> {WithId(entry, ids[entry]) : entry \in sent},
               row |-> None, stale |-> FALSE]]
  /\ UNCHANGED <<mode, draft, rolls, seen, open, visits, votes, refused, raced>>

NewRow(entry) ==
  [voter |-> entry.voter, key |-> entry.key, state |-> "approved",
   submitted |-> FALSE]

\* One INSERT for the whole list; a voter id that is taken fails all of it.
InsertBatch(a) ==
  /\ jobs[a].pc = "insert"
  /\ LET new == {NewRow(entry) : entry \in jobs[a].batch} IN
       IF /\ \A e, f \in jobs[a].batch : e.voter = f.voter => e = f
          /\ \A row \in new : row.voter \notin UsedIds
       THEN /\ rolls' = rolls \cup new
            /\ raced' = (raced \/ jobs[a].stale)
            /\ jobs' = [Outdated(jobs) EXCEPT ![a] = NoJob]
            /\ visits' = Outdated(visits)
       ELSE /\ jobs' = [jobs EXCEPT ![a] = NoJob]
            /\ UNCHANGED <<rolls, visits, raced>>
  /\ UNCHANGED <<mode, draft, seen, open, votes, refused>>

\* clearElectionRoll, its check and then its UPDATE.
AskToClear(a) ==
  /\ draft
  /\ seen[a]
  /\ jobs[a].pc = "idle"
  /\ jobs' = [jobs EXCEPT ![a].pc = "clear"]
  /\ UNCHANGED <<mode, draft, rolls, seen, open, visits, votes, refused, raced>>

Clear(a) ==
  /\ jobs[a].pc = "clear"
  /\ rolls' = {}
  /\ jobs' = [Outdated(jobs) EXCEPT ![a] = NoJob]
  /\ raced' = (raced \/ ~draft)
  /\ UNCHANGED <<mode, draft, seen, open, visits, votes, refused>>

Finalize ==
  /\ draft
  /\ draft' = FALSE
  /\ UNCHANGED <<mode, rolls, seen, open, jobs, visits, votes, refused, raced>>

-----------------------------------------------------------------------------
(* Inspecting one voter: a row as it was when the page fetched it.         *)

\* The head row the server finds for a row of the page.  Email lists show no
\* voter id: only revealVoterIdByEmail finds the row, by its email.
Found(op, row) ==
  IF mode = "closed_bv_managed_ids"
  THEN {h \in rolls : op = "reveal" /\ h.key = row.key}
  ELSE {h \in rolls : op # "reveal" /\ h.voter = row.voter}

MayClick(a, op, row) ==
  IF op = "reveal" THEN mode = "closed_bv_managed_ids"
  ELSE Role[a] \in Shown[op] /\ ShownIn(op, row.state)

\* The copy that will be written back, if the server accepts the click.
Copies(a, op, row) ==
  IF op = "reveal" THEN Found(op, row)
  ELSE {[h EXCEPT !.state = NewState[op]] :
          h \in {f \in Found(op, row) : /\ Role[a] \in Accepted[op]
                                        /\ f.state \in AcceptedIn[op]}}

\* onOpen; the dialog shows the row until it is closed or fetched again.
Inspect(a, row) ==
  /\ mode \in ClosedModes
  /\ open' = [open EXCEPT ![a] = row]
  /\ UNCHANGED <<mode, draft, rolls, seen, jobs, visits, votes, refused, raced>>

Buttons == DOMAIN Shown \cup {"reveal"}

Click(a, op) ==
  /\ mode \in ClosedModes
  /\ jobs[a].pc = "idle" /\ open[a] # None
  /\ MayClick(a, op, open[a])
  /\ \E copy \in Copies(a, op, open[a]) :
       jobs' = [jobs EXCEPT ![a].pc = "write", ![a].row = copy]
  /\ UNCHANGED <<mode, draft, rolls, seen, open, visits, votes, refused, raced>>

RefuseClick(a, op) ==
  /\ mode \in ClosedModes
  /\ jobs[a].pc = "idle" /\ open[a] # None
  /\ MayClick(a, op, open[a])
  /\ Copies(a, op, open[a]) = {}
  /\ open[a] \in rolls
  /\ refused' = [op |-> op, role |-> Role[a], mode |-> mode]
  /\ UNCHANGED <<mode, draft, rolls, seen, open, jobs, visits, votes, raced>>

\* ElectionRollDB.update, which asks nothing of the row it replaces.
WriteBack(a) ==
  /\ jobs[a].pc = "write"
  /\ LET copy == jobs[a].row
     IN /\ rolls' = {h \in rolls : h.voter # copy.voter} \cup {copy}
        /\ raced' = (raced \/ jobs[a].stale)
  /\ jobs' = [Outdated(jobs) EXCEPT ![a] = NoJob]
  /\ UNCHANGED <<mode, draft, seen, open, visits, votes, refused>>

-----------------------------------------------------------------------------
(* Visits of an open election.                                             *)

\* Mistake: only rows that have not voted are looked up.
MatchesUnsubmitted(k) ==
  {h \in rolls : ~h.submitted
     /\ IF mode = "open_unique_cookie" THEN h.voter = k ELSE h.key = k}

\* getElectionRoll, by the one thing the mode knows a voter by.
Matches(k) ==
  {h \in rolls : IF mode = "open_unique_cookie" THEN h.voter = k ELSE h.key = k}

KnownBy == IF mode = "open_unique_cookie" THEN VoterIds ELSE Keys

Visiting(x, k) ==
  /\ ~draft
  /\ mode \in OpenModes \ {"open_open"}
  /\ visits[x].pc = "idle"
  /\ k \in KnownBy

FindRow(x, k) ==
  /\ Visiting(x, k)
  /\ Cardinality(Matches(k)) = 1
  /\ \E row \in Matches(k) :
       visits' = [visits EXCEPT ![x] = [pc |-> "vote", key |-> k, row |-> row, stale |-> FALSE]]
  /\ UNCHANGED <<mode, draft, rolls, seen, open, jobs, votes, refused, raced>>

\* No row, or a query that failed, which answers null as well.
MissRow(x, k) ==
  /\ Visiting(x, k)
  /\ Matches(k) = {} \/ CanFail
  /\ visits' = [visits EXCEPT ![x] = [pc |-> "create", key |-> k, row |-> None,
                                      stale |-> Matches(k) # {}]]
  /\ UNCHANGED raced
  /\ UNCHANGED <<mode, draft, rolls, seen, open, jobs, votes, refused>>

CreateRow(x, id) ==
  /\ visits[x].pc = "create"
  /\ IF mode = "open_unique_cookie" THEN id = visits[x].key
     ELSE id \notin {visits[y].key : y \in Visits}
  /\ id \notin UsedIds
  /\ LET row == NewRow([voter |-> id, key |-> IF mode = "open_unique_cookie" THEN None
                                              ELSE visits[x].key])
     IN /\ rolls' = rolls \cup {row}
        /\ visits' = [Outdated(visits) EXCEPT ![x] = [@ EXCEPT !.pc = "vote", !.row = row]]
        /\ jobs' = Outdated(jobs)
  /\ raced' = (raced \/ visits[x].stale)
  /\ UNCHANGED <<mode, draft, seen, open, votes, refused>>

\* The insert hits the unique index, or the visitor goes away.
EndVisit(x) ==
  /\ visits[x].pc # "idle"
  /\ visits' = [visits EXCEPT ![x] = NoVisit]
  /\ UNCHANGED <<mode, draft, rolls, seen, open, jobs, votes, refused, raced>>

\* submitBallotEvent, which stores the ballot if the row is still the head.
Vote(x) ==
  /\ visits[x].pc = "vote"
  /\ visits[x].row \in rolls /\ ~visits[x].row.submitted
  /\ LET row == visits[x].row IN
       /\ rolls' = (rolls \ {row}) \cup {[row EXCEPT !.submitted = TRUE]}
       /\ votes' = votes \cup {[key |-> visits[x].key, voter |-> row.voter]}
  /\ visits' = [visits EXCEPT ![x] = NoVisit]
  /\ UNCHANGED <<mode, draft, seen, open, jobs, refused, raced>>

-----------------------------------------------------------------------------
Init ==
  /\ tasks \in Duties
  /\ open = [a \in Admins |-> None]
  /\ mode \in Modes
  /\ draft \in BOOLEAN
  /\ rolls = {}
  /\ seen = [a \in Admins |-> FALSE]
  /\ jobs = [a \in Admins |-> NoJob]
  /\ visits = [x \in Visits |-> NoVisit]
  /\ votes = {} /\ refused = None /\ raced = FALSE

AdminStep(a) ==
  \/ FetchList(a) \/ InsertBatch(a) \/ Clear(a) \/ WriteBack(a)
  \/ /\ "settings" \in tasks[a]
     /\ \E m \in OpenModes \cup ClosedModes : ChangeMode(a, m)
  \/ /\ "list" \in tasks[a]
     /\ \/ AskToClear(a)
        \/ \E batch \in SeqOf(Lines, Rows) : batch # <<>> /\ Submit(a, batch)
  \/ /\ "inspect" \in tasks[a]
     /\ \/ \E row \in rolls : Inspect(a, row)
        \/ \E op \in Buttons : Click(a, op) \/ RefuseClick(a, op)

VisitStep(x) ==
  \/ \E k \in Keys \cup VoterIds : FindRow(x, k) \/ MissRow(x, k)
  \/ \E id \in VoterIds : CreateRow(x, id)
  \/ Vote(x) \/ EndVisit(x)

Next ==
  /\ UNCHANGED tasks
  /\ \/ \E a \in Admins : AdminStep(a)
     \/ \E x \in Visits : VisitStep(x)
     \/ Finalize

Spec == Init /\ [][Next]_rollVars

-----------------------------------------------------------------------------
(* Properties.                                                             *)

\* Two head rows of one voter id never coexist, whatever requests overlap. A
\* closed list outgrows its limit, and the same email or network address is
\* on a list twice, only when an upload or a first visit was checked against a
\* list that another request then changed.
ListSoundOrRace ==
  /\ \A a, b \in rolls : a.voter = b.voter => a = b
  /\ ~raced =>
    /\ mode \in ClosedModes => Cardinality(rolls) <= Limit
    /\ \A a, b \in rolls : a.key = b.key /\ a.key # None => a = b

\* One email or address votes once, unless two first visits overlapped or the
\* lookup failed.
OneVoteOrRace == ~raced => \A v, w \in votes : v.key = w.key => v = w

\* One email or address votes once.
OneVotePerKey == \A v, w \in votes : v.key = w.key => v = w


\* A click on a voter that is still as shown is refused only where the page
\* and the server disagree: Unflag, an admin's Invalidate, and every change
\* in an email list.
RefusalsExplained ==
  refused # None =>
    \/ refused.mode = "closed_bv_managed_ids" \/ refused.op = "unflag"
    \/ refused.op = "invalidate" /\ refused.role = "admin"

=============================================================================
