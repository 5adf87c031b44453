------------------------------- MODULE IssueBot -------------------------------
(* The scheduled job that looks after the repository's own issues: it lists  *)
(* the open ones, audits their labels and their place on the project board,  *)
(* and warns about and labels the assigned ones nobody has touched.          *)
(* A run takes minutes and ages are counted in weeks: time does not pass in a*)
(* run, and there is a run at every age.  The tracker is external: a comment,*)
(* a label or an assignment makes an issue young again, a card's move not.   *)
EXTENDS Integers, FiniteSets, SequencesExt

CONSTANTS
  Issues,
  WarningWeeks, UnassignWeeks,  \* WARNING_WEEKS and UNASSIGN_WEEKS
  CommentPage,                  \* the comments one listComments returns
  MaxAge, MaxComments           \* bounds of the model

(* The weeks of the scheduled job are 1 and 2 (issue-management.yml); a run  *)
(* started by hand may have others. The rest are bounds of the model.        *)
ASSUME WeeksAssumption ==
  /\ WarningWeeks \in Nat \ {0} /\ UnassignWeeks \in Nat
  /\ WarningWeeks < UnassignWeeks
  /\ CommentPage \in Nat /\ MaxAge \in Nat

VARIABLES
  dryRun,   \* the configuration of the job
  issue,    \* the tracker's issues
  card,     \* the status of each issue on the board, or that it has none
  run,      \* the job: its phase, the issues still to visit, its listing, and
            \* whether it knows the project board
  touched,  \* issues people changed since the listing (history)
  failed    \* issues some call of the job failed for (history)
botVars == <<dryRun, issue, card, run, touched, failed>>

Statuses == {"none", "In Progress", "Prioritized Backlog"}
Young(i) == [issue EXCEPT ![i].age = 0]
Idle == [phase |-> "idle", todo |-> {}, listing |-> <<>>, board |-> FALSE,
         at |-> "none", status |-> "none"]

BotInit ==
  /\ dryRun \in BOOLEAN
  /\ issue \in [Issues -> [open : {TRUE}, assigned : BOOLEAN, labels : {{}},
                          age : 0..WarningWeeks, comments : {<<>>}]]
  /\ card \in [Issues -> Statuses]
  /\ run = [Idle EXCEPT !.phase = "due"]
  /\ touched = {} /\ failed = {}
-----------------------------------------------------------------------------
(* People and time *)
Touch(i, new) ==
  /\ issue[i].open
  /\ issue' = [issue EXCEPT ![i] = new]
  /\ touched' = touched \cup {i}
Assign(i) ==
  /\ Touch(i, [issue[i] EXCEPT !.assigned = ~@, !.age = 0])
  /\ UNCHANGED <<dryRun, card, run, failed>>
Comment(i) ==
  /\ Len(issue[i].comments) < MaxComments
  /\ Touch(i, [issue[i] EXCEPT !.comments = Append(@, "human"), !.age = 0])
  /\ UNCHANGED <<dryRun, card, run, failed>>
Label(i, label) ==
  /\ label \notin issue[i].labels
  /\ Touch(i, [issue[i] EXCEPT !.labels = @ \cup {label}, !.age = 0])
  /\ UNCHANGED <<dryRun, card, run, failed>>
Close(i) ==
  /\ Touch(i, [issue[i] EXCEPT !.open = FALSE])
  /\ UNCHANGED <<dryRun, card, run, failed>>
MoveCard(i, status) ==
  /\ card' = [card EXCEPT ![i] = status]
  /\ touched' = touched \cup {i}
  /\ UNCHANGED <<dryRun, issue, run, failed>>

Tick ==
  /\ run.phase = "idle"
  /\ issue' = [i \in Issues |-> [issue[i] EXCEPT !.age = Min({@ + 1, MaxAge})]]
  /\ run' = [run EXCEPT !.phase = "due"]
  /\ UNCHANGED <<dryRun, card, touched, failed>>
-----------------------------------------------------------------------------
(* A run: initializeProjectInfo, getAllOpenIssues, auditAllIssues and        *)
(* checkStaleIssues. What it decides on is the listing, except the board and *)
(* the comments, which it reads. Without a board (no number is configured,   *)
(* neither an organization nor a user has it, or an error) it goes on, and   *)
(* leaves the cards alone.                                                   *)
InitializeProjectInfo(found) ==
  /\ run.phase = "due"
  /\ run' = [Idle EXCEPT !.phase = "list", !.board = found]
  /\ UNCHANGED <<dryRun, issue, card, touched, failed>>
List ==
  /\ run.phase = "list"
  /\ run' = [run EXCEPT !.phase = "audit", !.listing = issue,
                         !.todo = {i \in Issues : issue[i].open}]
  /\ touched' = {}
  /\ UNCHANGED <<dryRun, issue, card, failed>>
(* An error of the listing ends the whole run. *)
ListFails ==
  /\ run.phase = "list"
  /\ run' = Idle /\ failed' = Issues
  /\ UNCHANGED <<dryRun, issue, card, touched>>

HasPrefix(i, labels) == run.listing[i].labels \cap labels # {}
MissingLabels(i) ==
  (IF HasPrefix(i, {"Complexity: Missing", "Complexity: 1", "good first issue"})
   THEN {} ELSE {"Complexity: Missing"})
   \cup (IF HasPrefix(i, {"Role: Missing", "Role: Frontend"}) THEN {} ELSE {"Role: Missing"})

(* addLabel for each: nothing in a dry run, and an error is only logged. *)
AddLabels(i, labels) ==
  \E added \in IF dryRun THEN {{}} ELSE SUBSET labels :
    /\ issue' = IF added = {} THEN issue
                ELSE [Young(i) EXCEPT ![i].labels = @ \cup added]
    /\ failed' = IF dryRun \/ added = labels THEN failed ELSE failed \cup {i}

AuditLabels(i) ==
  /\ run.phase = "audit" /\ i \in run.todo
  /\ AddLabels(i, MissingLabels(i))
  /\ run' = [run EXCEPT !.phase = IF run.board THEN "board" ELSE "audit",
                         !.todo = @ \ {i}, !.at = IF run.board THEN i ELSE "none"]
  /\ UNCHANGED <<dryRun, card, touched>>
(* A board that cannot be read counts as one without the issue.              *)
GetStatus(i, readable) ==
  /\ run.phase = "board" /\ run.at = i
  /\ run' = [run EXCEPT !.phase = "status", !.status = IF readable THEN card[i] ELSE "none"]
  /\ failed' = IF readable THEN failed ELSE failed \cup {i}
  /\ UNCHANGED <<dryRun, issue, card, touched>>

RightStatusOneWay(assigned, status) ==  \* mutant: unassigned cards stay
  IF status # "none" /\ assigned THEN "In Progress" ELSE status
(* auditProjectStatus for the issue just audited: the status is the one read *)
(* before, whether somebody is assigned is the listing's.                    *)
RightStatus(assigned, status) ==
  CASE status # "none" /\ assigned /\ status # "In Progress" -> "In Progress"
    [] ~assigned /\ status = "In Progress" -> "Prioritized Backlog"
    [] OTHER -> status
AuditStatus(i) ==
  LET right == RightStatus(run.listing[i].assigned, run.status) IN
  /\ run.phase = "status" /\ run.at = i
  /\ run' = [run EXCEPT !.phase = "audit", !.at = "none", !.status = "none"]
  /\ \/ /\ right = run.status \/ dryRun
        /\ UNCHANGED <<card, failed>>
     \/ /\ right # run.status /\ ~dryRun
        /\ card' = [card EXCEPT ![i] = right]
        /\ UNCHANGED failed
     \/ /\ right # run.status /\ ~dryRun
        /\ failed' = failed \cup {i}
        /\ UNCHANGED card
  /\ UNCHANGED <<dryRun, issue, touched>>

CheckStale ==
  /\ run.phase = "audit" /\ run.todo = {}
  /\ run' = [run EXCEPT !.phase = "stale",
               !.todo = {i \in Issues : run.listing[i].open /\ run.listing[i].assigned}]
  /\ UNCHANGED <<dryRun, issue, card, touched, failed>>

TimeSinceRounded(i) == run.listing[i].age + 1  \* mutant: rounded up
TimeSince(i) == run.listing[i].age
HasWarning(i) ==
  LET seen == Min({CommentPage, Len(issue[i].comments)})
  IN "warning" \in Range(SubSeq(issue[i].comments, 1, seen))

Visited(i) == run' = [run EXCEPT !.todo = @ \ {i}]
Inactive(i) ==
  /\ run.phase = "stale" /\ i \in run.todo
  /\ TimeSince(i) >= UnassignWeeks
  /\ AddLabels(i, IF "2 weeks inactive" \in run.listing[i].labels THEN {}
                  ELSE {"2 weeks inactive"})
  /\ Visited(i)
  /\ UNCHANGED <<dryRun, card, touched>>

Warn(i) ==
  /\ run.phase = "stale" /\ i \in run.todo
  /\ TimeSince(i) \in WarningWeeks..(UnassignWeeks - 1)
  /\ Len(issue[i].comments) <= MaxComments
  /\ issue' = IF HasWarning(i) \/ dryRun THEN issue
              ELSE [Young(i) EXCEPT ![i].comments = Append(@, "warning"),
                                    ![i].labels = @ \cup {"To Update !"}]
  /\ Visited(i)
  /\ UNCHANGED <<dryRun, card, touched, failed>>

Active(i) ==
  /\ run.phase = "stale" /\ i \in run.todo
  /\ TimeSince(i) < WarningWeeks
  /\ Visited(i)
  /\ UNCHANGED <<dryRun, issue, card, touched, failed>>

(* Listing or posting comments is not guarded: an error ends the whole run.  *)
Abort(i) ==
  /\ run.phase = "stale" /\ i \in run.todo
  /\ TimeSince(i) \in WarningWeeks..(UnassignWeeks - 1)
  /\ run' = Idle
  /\ failed' = failed \cup run.todo
  /\ UNCHANGED <<dryRun, issue, card, touched>>

Finish ==
  /\ run.phase = "stale" /\ run.todo = {}
  /\ run' = Idle
  /\ UNCHANGED <<dryRun, issue, card, touched, failed>>

BotNext ==
  \/ \E i \in Issues :
       \/ Assign(i) \/ Comment(i) \/ Close(i)
       \/ Label(i, "Role: Frontend")
       \/ \E status \in Statuses : MoveCard(i, status)
       \/ AuditLabels(i) \/ AuditStatus(i) \/ \E yes \in BOOLEAN : GetStatus(i, yes)
       \/ Inactive(i) \/ Warn(i) \/ Active(i) \/ Abort(i)
  \/ \E yes \in BOOLEAN : InitializeProjectInfo(yes)
  \/ Tick \/ List \/ ListFails \/ CheckStale \/ Finish
BotSpec == BotInit /\ [][BotNext]_botVars
-----------------------------------------------------------------------------
(* Once a run has audited a board it found, every card nobody touched meanwhile is  *)
(* where its assignment wants it: in progress exactly if somebody is assigned*)
(* (cards without a status stay out), whatever the audits read when.         *)
BoardFollows ==
  run.phase = "stale" /\ run.board /\ ~dryRun =>
    \A i \in Issues \ (touched \cup failed) :
      run.listing[i].open /\ card[i] # "none" =>
        (card[i] = "In Progress") = issue[i].assigned

(* Nobody's issue is called inactive who was not warned first, unless a call *)
(* failed: the clock starts again at every assignment and comment, and there *)
(* is a run in each week of it.                                              *)
InactiveOnlyWarned ==
  \A i \in Issues : "2 weeks inactive" \in issue[i].labels =>
    "warning" \in Range(issue[i].comments) \/ i \in failed

=============================================================================
