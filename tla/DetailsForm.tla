------------------------------ MODULE DetailsForm ------------------------------
(* The form for an election's title and schedule on an administrator's page: *)
(* it edits a copy of the election (useEditElectionDetails), checks it and   *)
(* writes it into the election the page holds, which is then posted whole.   *)
(* A time that came from the server is a string, one that was entered a Date,*)
(* and a comparison of the two is false either way.                          *)
EXTENDS Integers, FiniteSets

CONSTANTS
  Titles,      \* titles one may type; "" is refused by the form
  MaxClock,     \* bound on the clock and the times one may enter
  MaxNewest,  \* bound on the versions of the election
  MaxEntries     \* bound on the edits of the form

VARIABLES
  clock,
  schedule, newest,  \* the server's election and its update_date
  tabHolds, tracked,   \* data.election of the page and latestUpdateDate
  copy,           \* editedElection
  panel,             \* whether it is shown, enableStartEndTime, default times
  post,          \* the election being posted, or NoPost
  changed,          \* fields changed since the form was opened (history)
  known,            \* the election as the page last read or saved it (history)
  stale,            \* the form was opened on a copy that differs (history)
  entries
detailsVars == <<clock, schedule, newest, tabHolds, tracked, copy, panel, post,
                 changed, known, stale, entries>>

Fields == {"title", "start", "end"}
NoTime == [at |-> 0, entered |-> FALSE]     \* undefined
Instant(at, entered) == [at |-> at, entered |-> entered]
Instants == {Instant(at, FALSE) : at \in 1..MaxClock}
DetailsOf(title, start, end) == [title |-> title, start |-> start, end |-> end]
(* Reading the election turns its times into strings.                        *)
AsRead(details) ==
  DetailsOf(details.title, Instant(details.start.at, FALSE), Instant(details.end.at, FALSE))
NoPost == [details |-> DetailsOf("", NoTime, NoTime), version |-> 0]
GivenTitles == Titles \ {""}
Valid == {DetailsOf(title, NoTime, NoTime) : title \in GivenTitles}
         \cup {DetailsOf(title, start, end) :
                 title \in GivenTitles, start \in Instants, end \in Instants}
Sane(details) == details.end = NoTime \/ details.start.at < details.end.at

DetailsInit ==
  /\ clock = 0 /\ schedule \in {d \in Valid : Sane(d)} /\ newest = 0
  /\ tabHolds = schedule /\ tracked = 0 /\ copy = tabHolds
  /\ panel = [open |-> FALSE, enabled |-> FALSE, start |-> NoTime, end |-> NoTime]
  /\ post = NoPost /\ changed = {} /\ known = tabHolds /\ stale = FALSE
  /\ entries = 0
-----------------------------------------------------------------------------
ClockTicks ==
  /\ clock < MaxClock /\ clock' = clock + 1
  /\ UNCHANGED <<schedule, newest, tabHolds, tracked, copy, panel, post, changed,
                 known, stale, entries>>

(* Another administrator edits the election; this page may read it anew.     *)
EditedElsewhere(details) ==
  /\ newest < MaxNewest /\ details # schedule
  /\ schedule' = details /\ newest' = newest + 1
  /\ UNCHANGED <<clock, tabHolds, tracked, copy, panel, post, changed, known,
                 stale, entries>>
BeingPosted == post # NoPost
Refresh ==
  /\ ~BeingPosted /\ tabHolds' = schedule /\ tracked' = newest
  /\ known' = tabHolds' /\ stale' = (stale \/ (panel.open /\ tabHolds' # known))
  /\ UNCHANGED <<clock, schedule, newest, copy, panel, post, changed, entries>>

(* Opening mounts the form on whatever the copy holds; Cancel only hides it. *)
Default(time, otherwise) ==
  IF time # NoTime THEN time ELSE Instant(otherwise, TRUE)
OpenForm ==
  /\ ~panel.open /\ ~BeingPosted
  /\ panel' = [open |-> TRUE, enabled |-> copy.start # NoTime \/ copy.end # NoTime,
              start |-> Default(copy.start, clock), end |-> Default(copy.end, clock + 1)]
  /\ changed' = {} /\ stale' = (AsRead(copy) # known)
  /\ UNCHANGED <<clock, schedule, newest, tabHolds, tracked, copy, post, known,
                 entries>>
Cancel ==
  /\ panel.open /\ ~BeingPosted /\ panel' = [panel EXCEPT !.open = FALSE]
  /\ UNCHANGED <<clock, schedule, newest, tabHolds, tracked, copy, post, changed,
                 known, stale, entries>>

ApplyUpdate(fields, details) ==
  /\ panel.open /\ ~BeingPosted /\ entries < MaxEntries /\ entries' = entries + 1
  /\ copy' = details /\ changed' = changed \cup fields
  /\ UNCHANGED <<clock, schedule, newest, tabHolds, tracked, post, known, stale>>
TypeTitle(title) ==
  /\ ApplyUpdate({"title"}, [copy EXCEPT !.title = title])
  /\ UNCHANGED panel
EnableTimes(on) ==
  /\ on # panel.enabled /\ panel' = [panel EXCEPT !.enabled = on]
  /\ ApplyUpdate({"start", "end"},
       [copy EXCEPT !.start = IF on THEN panel.start ELSE NoTime,
                      !.end = IF on THEN panel.end ELSE NoTime])
EnterTime(field, time) ==
  /\ panel.enabled /\ ApplyUpdate({field}, [copy EXCEPT ![field] = time])
  /\ panel' = IF time = NoTime THEN panel ELSE [panel EXCEPT ![field] = time]
-----------------------------------------------------------------------------
(* validatePage.                                                             *)
SameKind(a, b) == a.entered = b.entered
EndIsPast(end) == end.entered /\ end.at < clock
(* Only an end before the start is refused, not one at the start (checking). *)
EndBeforeStartOnly(start, end) ==
  start # NoTime /\ SameKind(start, end) /\ start.at > end.at
EndBeforeStart(start, end) ==
  start # NoTime /\ SameKind(start, end) /\ start.at >= end.at
ValidPage ==
  /\ copy.title # ""
  /\ copy.end # NoTime =>
       ~EndIsPast(copy.end) /\ ~EndBeforeStart(copy.start, copy.end)

(* onSave: the update goes into the page's election before it is posted.     *)
Update(details) ==
  [details EXCEPT !.title = copy.title, !.start = copy.start, !.end = copy.end]
Save ==
  /\ panel.open /\ ~BeingPosted /\ ValidPage
  /\ tabHolds' = Update(tabHolds)
  /\ post' = [details |-> Update(tabHolds), version |-> 0]
  /\ UNCHANGED <<clock, schedule, newest, tracked, copy, panel, changed, known,
                 stale, entries>>
AcceptDetails ==
  /\ BeingPosted /\ post.version = 0 /\ tracked = newest /\ newest < MaxNewest
  /\ schedule' = AsRead(post.details) /\ newest' = newest + 1
  /\ post' = [post EXCEPT !.version = newest + 1]
  /\ UNCHANGED <<clock, tabHolds, tracked, copy, panel, changed, known, stale, entries>>
(* A save that went well reads the election again, and closes the form even  *)
(* if that reading fails.                                                    *)
DetailsSaved(read) ==
  /\ post.version > 0 /\ post' = NoPost /\ panel' = [panel EXCEPT !.open = FALSE]
  /\ tracked' = IF read THEN newest ELSE post.version
  /\ tabHolds' = (IF read THEN schedule ELSE tabHolds) /\ known' = AsRead(tabHolds')
  /\ UNCHANGED <<clock, schedule, newest, copy, changed, stale, entries>>
(* After a refusal or a lost answer the form stays, for another try.         *)
SaveFailed ==
  /\ BeingPosted /\ post' = NoPost
  /\ UNCHANGED <<clock, schedule, newest, tabHolds, tracked, copy, panel, changed, known,
                 stale, entries>>

DetailsNext ==
  \/ ClockTicks \/ Refresh \/ OpenForm \/ Cancel \/ Save \/ AcceptDetails \/ SaveFailed
  \/ \E d \in {v \in Valid : Sane(v)} : EditedElsewhere(d)
  \/ \E title \in Titles : TypeTitle(title)
  \/ \E on \in BOOLEAN : EnableTimes(on) \/ DetailsSaved(on)
  \/ \E field \in {"start", "end"}, at \in 0..MaxClock :
       EnterTime(field, IF at = 0 THEN NoTime ELSE Instant(at, TRUE))
DetailsSpec == DetailsInit /\ [][DetailsNext]_detailsVars
-----------------------------------------------------------------------------
DetailsTypeOK ==
  /\ clock \in 0..MaxClock /\ newest \in 0..MaxNewest /\ tracked \in 0..newest
  /\ changed \subseteq Fields /\ stale \in BOOLEAN

Changed == {f \in Fields : AsRead(schedule)[f] # AsRead(schedule')[f]}
Posted == schedule' # schedule /\ post'.version > post.version
(* A save changes only what was edited since the form was opened, unless the *)
(* form was opened on a copy that was not the page's election: cancelled     *)
(* edits linger, and the copy ignores newer readings. What it schedules ends *)
(* after it starts, unless only one of the two was entered                   *)
(* (useEditElectionDetails.ts:33-41, 83-88; ElectionDetailsInlineForm.tsx).  *)
SavesAreMeant ==
  [][Posted => /\ Changed \subseteq changed \/ stale
               /\ Sane(schedule') \/ ~SameKind(post.details.start, post.details.end)]_detailsVars
=============================================================================
