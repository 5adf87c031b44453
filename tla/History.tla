-------------------------------- MODULE History --------------------------------
(* The public record of an election, derived on request from every version   *)
(* of its row, every version of its ballots and the head row of a voter on   *)
(* the roll, whose history array each roll update is to carry on.            *)
EXTENDS Integers, FiniteSets, SequencesExt

CONSTANTS
  Ballots,       \* identifiers of ballots
  Clerks,        \* requests of administrators on the voter's roll row
  CountLadder, EditLadder,  \* the milestones told, ascending
  DayLength,     \* a voter's act is told to the day
  Gap,           \* UPLOAD_BATCH_GAP_MS
  MaxTime,       \* bound on the clock
  MaxRows        \* bound on the ballots and entries stored or in hand

VARIABLES
  now,        \* the clock
  elections,  \* electionDB rows of the election, oldest first
  ballots,    \* ballotDB rows of the election
  roll,       \* times of the reveals in the history of the voter's head row
  held,       \* what each clerk has read of it and is about to write
  upload,     \* ballots of the upload in progress
  phase,      \* of that upload: "making" its events or "storing" them
  past,       \* what happened since the election was finalized (history)
  raced       \* a roll row was overwritten from an old reading, or a reveal
              \* was answered although its entry could not be written (history)
historyVars == <<now, elections, ballots, roll, held, upload, phase, past, raced>>

Nothing == [row |-> <<>>, reveals |-> FALSE, stamp |-> -1]
State == Last(elections).state
WasFinalized == \E i \in DOMAIN elections : elections[i].state = "finalized"
Act(what, about, at) == [what |-> what, about |-> about, at |-> at]
Happens(act) == past' = IF WasFinalized THEN Append(past, act) ELSE past

Busy == {c \in Clerks : held[c] # Nothing}
Room == Len(ballots) + Len(upload) + Len(roll) + Cardinality(Busy) < MaxRows

Init ==
  /\ now = 0 /\ elections = <<[state |-> "draft", public |-> FALSE, at |-> 0]>>
  /\ ballots = <<>> /\ roll = <<>> /\ held = [c \in Clerks |-> Nothing]
  /\ upload = <<>> /\ phase = "making" /\ past = <<>> /\ raced = FALSE
-----------------------------------------------------------------------------
Tick ==
  /\ now < MaxTime /\ now' = now + 1
  /\ UNCHANGED <<elections, ballots, roll, held, upload, phase, past, raced>>

(* A row of the election; each write of it has a time of its own.            *)
WriteElection(state, public) ==
  /\ now < MaxTime /\ now' = now + 1
  /\ elections' = Append(elections, [state |-> state, public |-> public, at |-> now + 1])

(* Test ballots go when the election is finalized, unless that fails.        *)
Finalize(cleared) ==
  /\ State = "draft"
  /\ WriteElection("finalized", Last(elections).public)
  /\ ballots' = IF cleared THEN <<>> ELSE ballots
  /\ past' = <<Act("state", "finalized", now + 1)>>
  /\ UNCHANGED <<roll, held, upload, phase, raced>>

Moves == {<<"finalized", "open">>, <<"open", "closed">>, <<"closed", "open">>}
SetState(to) ==
  /\ <<State, to>> \in Moves
  /\ WriteElection(to, Last(elections).public)
  /\ Happens(Act("state", to, now + 1))
  /\ UNCHANGED <<ballots, roll, held, upload, phase, raced>>

SetPublicResults ==
  /\ WriteElection(State, ~Last(elections).public)
  /\ Happens(Act("public", ~Last(elections).public, now + 1))
  /\ UNCHANGED <<ballots, roll, held, upload, phase, raced>>
-----------------------------------------------------------------------------
(* A version of a ballot; a ballot made in a draft has no roll row. An update*)
(* starts a history of its own, whatever the versions before it hold.        *)
Row(b, via, stamp, test) ==
  [id |-> b, at |-> now, via |-> via, stamp |-> stamp, test |-> test]
Versions(b) == {i \in DOMAIN ballots : ballots[i].id = b}
Unused(b) == Versions(b) = {} /\ \A i \in DOMAIN upload : upload[i].id # b

Cast(b) ==
  /\ State \in {"draft", "open"} /\ Unused(b) /\ Room
  /\ ballots' = Append(ballots, Row(b, "browser", now, State = "draft"))
  /\ Happens(Act("cast", b, now))
  /\ UNCHANGED <<now, elections, roll, held, upload, phase, raced>>

Update(b) ==
  /\ State = "open" /\ \E i \in Versions(b) : ~ballots[i].test
  /\ Room
  /\ ballots' = Append(ballots, Row(b, "browser", now, FALSE))
  /\ Happens(Act("edit", b, now))
  /\ UNCHANGED <<now, elections, roll, held, upload, phase, raced>>

(* uploadBallots makes the event of each ballot, then stores one by one.     *)
MakeEvent(b) ==
  /\ phase = "making" /\ Unused(b) /\ Room
  /\ upload' = Append(upload, [id |-> b, stamp |-> now, test |-> State = "draft"])
  /\ UNCHANGED <<now, elections, ballots, roll, held, phase, past, raced>>
EventsMade ==
  /\ phase = "making" /\ upload # <<>> /\ phase' = "storing"
  /\ UNCHANGED <<now, elections, ballots, roll, held, upload, past, raced>>
Store ==
  /\ phase = "storing"
  /\ LET made == Head(upload) IN
       /\ ballots' = Append(ballots, Row(made.id, "admin", made.stamp, made.test))
       /\ Happens(Act("upload", made.id, now))
  /\ upload' = Tail(upload)
  /\ phase' = IF Len(upload) = 1 THEN "making" ELSE phase
  /\ UNCHANGED <<now, elections, roll, held, raced>>
-----------------------------------------------------------------------------
(* revealVoterIdByEmail and the other handlers that edit a roll row read it, *)
(* add to its history and write it, heedless of what was written meanwhile;  *)
(* a reveal is answered even when its write failed.                          *)
Edit(reveals) == [row |-> roll, reveals |-> reveals, stamp |-> now]
ReadRoll(c, reveals) ==
  /\ held[c] = Nothing /\ Room /\ Len(past) < MaxRows + 2
  /\ held' = [held EXCEPT ![c] = Edit(reveals)]
  /\ UNCHANGED <<now, elections, ballots, roll, upload, phase, past, raced>>
Entry(edit) == IF edit.reveals THEN <<edit.stamp>> ELSE <<>>
RevealIsPublic(edit) == WasFinalized /\ edit.reveals /\ edit.stamp >= past[1].at
Answer(c, stored) ==
  /\ held[c] # Nothing
  /\ roll' = IF stored THEN held[c].row \o Entry(held[c]) ELSE roll
  /\ raced' = (raced \/ (stored /\ held[c].row # roll) \/ (~stored /\ held[c].reveals))
  /\ past' = IF RevealIsPublic(held[c]) THEN Append(past, Act("reveal", "voter", held[c].stamp))
             ELSE past
  /\ held' = [held EXCEPT ![c] = Nothing]
  /\ UNCHANGED <<now, elections, ballots, upload, phase>>

Next ==
  \/ Tick \/ SetPublicResults \/ EventsMade \/ Store
  \/ \E cleared \in BOOLEAN : Finalize(cleared)
  \/ \E to \in {"open", "closed"} : SetState(to)
  \/ \E b \in Ballots : Cast(b) \/ Update(b) \/ MakeEvent(b)
  \/ \E c \in Clerks, yes \in BOOLEAN : ReadRoll(c, yes) \/ Answer(c, yes)
Spec == Init /\ [][Next]_historyVars
-----------------------------------------------------------------------------
(* buildHistory. *)
Ascending(times) == SortSeq(times, <)
FinalizedAt ==
  elections[SelectInSeq(elections, LAMBDA r : r.state = "finalized")].at
Day(time) == (time \div DayLength) * DayLength
Told(type, what, time, raw) == [type |-> type, what |-> what, time |-> time, raw |-> raw]

Later == [i \in 1..(Len(elections) - 1) |-> i + 1]
Transitions ==
  LET Moved(i) == elections[i].state # elections[i - 1].state IN
  [k \in DOMAIN SelectSeq(Later, Moved) |->
     LET i == SelectSeq(Later, Moved)[k]
     IN Told("state", elections[i].state, elections[i].at, elections[i].at)]
PublicChanges ==
  LET Moved(i) == elections[i].public # elections[i - 1].public IN
  [k \in DOMAIN SelectSeq(Later, Moved) |->
     LET i == SelectSeq(Later, Moved)[k]
     IN Told("public", elections[i].public, elections[i].at, elections[i].at)]

(* The latest version of a ballot taken for its cast (for checking).         *)
IsCastLast(i) ==
  \A j \in Versions(ballots[i].id) :
    ballots[i].at > ballots[j].at \/ (ballots[i].at = ballots[j].at /\ i >= j)
IsCast(i) ==
  \A j \in Versions(ballots[i].id) :
    ballots[i].at < ballots[j].at \/ (ballots[i].at = ballots[j].at /\ i <= j)
Rows == [i \in DOMAIN ballots |-> i]
TimesOf(rows) == Ascending([k \in DOMAIN rows |-> ballots[rows[k]].at])
CastTimes == TimesOf(SelectSeq(Rows, IsCast))
EditTimes == TimesOf(SelectSeq(Rows, LAMBDA i : ~IsCast(i)))
EmitMilestones(type, ladder, times) ==
  LET reached == SelectSeq(ladder, LAMBDA m : Len(times) >= m) IN
  [k \in DOMAIN reached |->
     Told(type, reached[k], Day(times[reached[k]]), times[reached[k]])]

AdminSubmitTimes ==
  LET rows == SelectSeq(ballots, LAMBDA r : r.via = "admin")
  IN Ascending([k \in DOMAIN rows |-> rows[k].stamp])
ClusterUploads(times) ==
  LET Join(batches, time) ==
        IF batches # <<>> /\ time - Last(batches).start <= Gap
        THEN [batches EXCEPT ![Len(batches)].count = @ + 1]
        ELSE Append(batches, [start |-> time, count |-> 1])
  IN FoldLeft(Join, <<>>, times)
UploadsTold ==
  LET batches == ClusterUploads(AdminSubmitTimes) IN
  [k \in DOMAIN batches |->
     Told("upload", batches[k].count, Day(batches[k].start), batches[k].start)]
RevealsTold == [k \in DOMAIN roll |-> Told("reveal", "voter", Day(roll[k]), roll[k])]

Published(event) == event.raw >= FinalizedAt
Events ==
  LET pairs == SelectSeq(Transitions \o PublicChanges
                 \o EmitMilestones("cast", CountLadder, CastTimes)
                 \o EmitMilestones("edit", EditLadder, EditTimes)
                 \o UploadsTold \o RevealsTold, Published)
      Before(i, j) ==
        pairs[i].raw < pairs[j].raw \/ (pairs[i].raw = pairs[j].raw /\ i < j)
      order == SortSeq([i \in DOMAIN pairs |-> i], Before)
  IN [k \in DOMAIN order |-> pairs[order[k]]]
-----------------------------------------------------------------------------
TypeOK ==
  /\ now \in 0..MaxTime /\ phase \in {"making", "storing"} /\ raced \in BOOLEAN
  /\ \A i \in DOMAIN elections : elections[i].at \in 0..now
  /\ \A c \in Clerks : held[c].stamp \in -1..now

Of(told, type) == SelectSeq(told, LAMBDA e : e.type = type)
Acts(whats) == SelectSeq(past, LAMBDA a : a.what \in whats)
(* Every change of the state and of the results' visibility is told, in      *)
(* order and at its time, so that none can be hidden by undoing it.          *)
ChangesTold(told, type) ==
  [k \in DOMAIN Of(told, type) |-> [about |-> Of(told, type)[k].what, at |-> Of(told, type)[k].time]]
    = [k \in DOMAIN Acts({type}) |-> [about |-> Acts({type})[k].about, at |-> Acts({type})[k].at]]

(* Each rung of a ladder that was reached is told, with the day on which it  *)
(* was. A test ballot that outlived the draft shifts the rungs of the casts. *)
RungsTold(told, type, ladder, acts) ==
  LET reached == SelectSeq(ladder, LAMBDA m : m <= Len(acts)) IN
  /\ [k \in DOMAIN Of(told, type) |-> Of(told, type)[k].what] = reached
  /\ \A k \in DOMAIN reached : Of(told, type)[k].time = Day(acts[reached[k]].at)
LeftOver == \E i \in DOMAIN ballots : ballots[i].test

(* No uploaded ballot is missing from the counts of the uploads, or in two.  *)
UploadsCounted(told) ==
  FoldLeft(LAMBDA sum, e : sum + e.what, 0, Of(told, "upload")) = Len(Acts({"upload"}))

(* Every voter whose identity was revealed shows in the record, unless a     *)
(* stale write of the roll row dropped the entry or it was never written.    *)
RevealsShown(told) == Len(Of(told, "reveal")) = Len(Acts({"reveal"})) \/ raced

(* The published record is what happened since the election was finalized    *)
(* (getElectionHistoryController.ts:96-104,212-214: "everything before it is *)
(* drafting", and milestones of first-time-reached counts), in order of time.*)
HistoryTrue ==
  LET told == Events IN
  WasFinalized =>
    /\ ChangesTold(told, "state") /\ ChangesTold(told, "public")
    /\ LeftOver \/ (RungsTold(told, "cast", CountLadder, Acts({"cast", "upload"}))
                    /\ UploadsCounted(told))
    /\ RungsTold(told, "edit", EditLadder, Acts({"edit"}))
    /\ RevealsShown(told)
    /\ \A i \in 2..Len(told) : told[i - 1].raw <= told[i].raw
=============================================================================
