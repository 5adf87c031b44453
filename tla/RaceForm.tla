------------------------------- MODULE RaceForm -------------------------------
(* The form in which a draft's race is made: candidates in a list with an    *)
(* empty last row, photos that arrive later, and the steps that lead to a    *)
(* voting method. It stands in the creation wizard, in the dialog of a race  *)
(* and in the dialog that adds one (a race like Blank). Titles of other races*)
(* are left out. Every update is applied to a copy of the race as it was when*)
(* its handler was made, and the last update of a handler wins. Descriptions,*)
(* links and precincts are fields like the title, and a name is typed in one *)
(* step: the field hands it over when it loses focus.                        *)
EXTENDS Integers, FiniteSets, SequencesExt

CONSTANTS
  Saved,           \* races an election may already have
  Names, Methods,  \* candidate names and voting methods
  Numbers,         \* what may be typed as the number of winners
  MaxCandidates,   \* bound of the model
  MaxEdits         \* bound of the model: edits of a new and of a saved race

VARIABLES
  form,    \* where the form stands: "wizard", or the "dialog" of a race
  phase,   \* of the form: "closed", "open", "saving", "ended"
  race,    \* the race of the election it edits
  edited,  \* editedRace
  step, timers, family, number,  \* state of the method selector
  upload,  \* photos on their way, with the race of their handler, or none
  asked,   \* what the last action was meant to make of the race (history)
  edits    \* how many edits and photos were begun (bound)
formVars == <<form, phase, race, edited, step, timers, family, number,
              upload, asked, edits>>
selector == <<step, timers, family, number>>

Unset == 0
Nota == 0  \* NOTA_ID; other candidates have positive ids
Cand(id, name) == [id |-> id, name |-> name, photo |-> FALSE]
Blank == [title |-> "", method |-> "none", winners |-> Unset, writeIn |-> FALSE,
          cands |-> <<Cand(1, "")>>]
NoUpload == [set |-> FALSE]
IdsIn(r) == {c.id : c \in Range(r.cands)}
UsedIds == IdsIn(edited) \cup IdsIn(asked)
             \cup IF upload.set THEN {upload.cand.id} \cup IdsIn(upload.base) ELSE {}
NewId == Max(UsedIds) + 1
FamilyOf(r) == CASE r.method = "none" -> "none"
                 [] r.winners = 1 -> "single_winner"
                 [] r.method \in {"STV", "STAR_PR"} -> "proportional_multi_winner"
                 [] OTHER -> "bloc_multi_winner"

Init ==
  /\ form \in {"wizard", "dialog"}
  /\ race \in IF form = "wizard" THEN {Blank} ELSE {Blank} \cup Saved
  /\ phase = IF form = "wizard" THEN "open" ELSE "closed"
  /\ edited = race /\ asked = race
  /\ step = IF race.method = "none" THEN "unset" ELSE "done"
  /\ timers = <<>> /\ family = FamilyOf(race) /\ number = race.winners
  /\ upload = NoUpload /\ edits = 0
-----------------------------------------------------------------------------
(* ephemeralCandidates: the rows shown, by kind. *)
IsNota(c) == c.id = Nota
Notas(r) == SelectSeq(r.cands, IsNota)
Others(r) == SelectSeq(r.cands, LAMBDA c : ~IsNota(c))
WriteInRow == Cand(-1, "Write-in")
Rows(r) == Others(r) \o <<Cand(NewId, "")>>
             \o (IF r.writeIn THEN <<WriteInRow>> ELSE <<>>) \o Notas(r)
Specials(r) == Len(Notas(r)) + (IF r.writeIn THEN 1 ELSE 0)
NewIndex(r) == Len(Rows(r)) - Specials(r)
ActualIndexPlain(r, j) ==  \* mutant: the write-in row is not counted
  IF j > NewIndex(r) THEN j - 1 ELSE j
ActualIndex(r, j) ==
  IF j > NewIndex(r) THEN j - 1 - (IF r.writeIn THEN 1 ELSE 0) ELSE j

Splice(list, j) == IF j \in DOMAIN list THEN RemoveAt(list, j) ELSE list
(* onEditCandidate for the row j of the race r *)
EditAt(r, j, cand) ==
  IF j = NewIndex(r) THEN [r EXCEPT !.cands = InsertAt(@, Min({j, Len(@) + 1}), cand)]
  ELSE [r EXCEPT !.cands = [@ EXCEPT ![ActualIndex(r, j)] = cand]]

(* What an admin means: the candidate of the row, not its place. *)
Meant(r, cand) ==
  IF cand.id \in IdsIn(r)
  THEN [r EXCEPT !.cands = [k \in DOMAIN @ |-> IF @[k].id = cand.id THEN cand ELSE @[k]]]
  ELSE IF IsNota(cand) THEN [r EXCEPT !.cands = Append(@, cand)]
  ELSE [r EXCEPT !.cands = Others(r) \o <<cand>> \o Notas(r)]
MeantGone(r, cand) == [r EXCEPT !.cands = SelectSeq(@, LAMBDA c : c.id # cand.id)]

CanEdit == phase = "open" /\ edits < MaxEdits[race # Blank]
Edit(result, meant) ==
  /\ CanEdit /\ Len(result.cands) <= MaxCandidates
  /\ edited' = result /\ asked' = meant /\ edits' = edits + 1
  /\ UNCHANGED <<form, phase, race, upload>>
EditOnly(result, meant) == Edit(result, meant) /\ UNCHANGED selector

TypeTitle == \E t \in {"", "X"} \ {edited.title} :
  LET result == [edited EXCEPT !.title = t] IN EditOnly(result, result)

TypeName(j, name) ==
  LET row == Rows(edited)[j]
      cand == [row EXCEPT !.name = name] IN
  /\ j <= NewIndex(edited) /\ row.name # name
  /\ EditOnly(EditAt(edited, j, cand), Meant(edited, cand))

(* The button is there for every row with a name, the special ones too. *)
DeleteCandidate(j) ==
  LET row == Rows(edited)[j] IN
  /\ row.name # ""
  /\ IF row = WriteInRow
     THEN LET result == [edited EXCEPT !.writeIn = FALSE] IN EditOnly(result, result)
     ELSE /\ Len(edited.cands) >= 2
          /\ EditOnly([edited EXCEPT !.cands = Splice(@, ActualIndex(edited, j))],
                      MeantGone(edited, row))

(* Backspace in a field that is (or was made) empty: the row goes without a  *)
(* question, by its place on the screen.                                     *)
Backspace(j) ==
  /\ j > 1 /\ j <= NewIndex(edited)
  /\ EditOnly([edited EXCEPT !.cands = Splice(@, j)], MeantGone(edited, Rows(edited)[j]))

MoveTo(list, j, k) == InsertAt(RemoveAt(list, j), k, list[j])
DragCandidate(j, k) ==
  LET moved == MoveTo(Rows(edited), j, k)
      kept == RemoveAt(moved, NewIndex(edited)) IN
  /\ j # k /\ j < NewIndex(edited) /\ k < NewIndex(edited) /\ Rows(edited)[j].name # ""
  /\ EditOnly([edited EXCEPT !.cands = SelectSeq(kept, LAMBDA c : c # WriteInRow)],
              [edited EXCEPT !.cands = MoveTo(@, j, k)])

AddWriteIn ==
  /\ ~edited.writeIn
  /\ LET result == [edited EXCEPT !.writeIn = TRUE] IN EditOnly(result, result)
AddNota ==
  /\ Notas(edited) = <<>>
  /\ LET cand == Cand(Nota, "None of the Above") IN
     EditOnly(EditAt(edited, NewIndex(edited), cand), Meant(edited, cand))
-----------------------------------------------------------------------------
(* Photos: when they have been stored, the handler that waited for them      *)
(* updates the race it knows, that of the moment they were picked.           *)
Photo == "photo"  \* the name of the file
StartDrop ==
  /\ CanEdit /\ ~upload.set /\ edits' = edits + 1
  /\ upload' = [set |-> TRUE, base |-> edited, row |-> 0,
                cand |-> [Cand(NewId, Photo) EXCEPT !.photo = TRUE]]
  /\ UNCHANGED <<form, phase, race, edited, selector, asked>>
StartPhoto(j) ==
  /\ CanEdit /\ ~upload.set /\ edits' = edits + 1
  /\ j < NewIndex(edited) /\ Rows(edited)[j].name # ""
  /\ upload' = [set |-> TRUE, base |-> edited, row |-> j,
                cand |-> [Rows(edited)[j] EXCEPT !.photo = TRUE]]
  /\ UNCHANGED <<form, phase, race, edited, selector, asked>>

WithDropped(r, cand) ==
  IF Len(r.cands) = 1 /\ r.cands[1].name = "" THEN [r EXCEPT !.cands = <<cand>>]
  ELSE [r EXCEPT !.cands = Append(@, cand)]
Landed(r) == IF upload.row = 0 THEN WithDropped(r, upload.cand)
             ELSE EditAt(r, upload.row, upload.cand)
UploadLands ==
  /\ upload.set /\ phase # "ended"
  /\ Len(Landed(upload.base).cands) <= MaxCandidates
  /\ edited' = Landed(upload.base)
  /\ asked' = IF upload.row = 0 THEN WithDropped(edited, upload.cand)
              ELSE Meant(edited, upload.cand)
  /\ upload' = NoUpload
  /\ UNCHANGED <<form, phase, race, selector, edits>>
UploadFails ==
  /\ upload.set
  /\ upload' = NoUpload
  /\ UNCHANGED <<form, phase, race, edited, selector, asked, edits>>
-----------------------------------------------------------------------------
(* The method selector. setMethodStep resets what the later steps will ask   *)
(* and shows the step a moment later; the page that leaves still answers.    *)
ResetFor(r, s) ==
  CASE s \in {"unset", "family"} -> [r EXCEPT !.winners = Unset, !.method = "none"]
    [] s \in {"num_winners", "method"} -> [r EXCEPT !.method = "none"]
    [] OTHER -> r
SetMethodStep(s) ==
  /\ Len(timers) < 2
  /\ timers' = Append(timers, s)
  /\ UNCHANGED step
FamilyAfter(s) == IF s \in {"unset", "family"} THEN "none" ELSE family
NumberAfter(s) == IF s \in {"unset", "family"} THEN Unset ELSE number

GoToStep(s) ==
  /\ SetMethodStep(s)
  /\ family' = FamilyAfter(s) /\ number' = NumberAfter(s)
  /\ Edit(ResetFor(edited, s), ResetFor(edited, s))
SelectMethod == step \in {"unset", "done"} /\ GoToStep("family")
NumberBack == step = "num_winners" /\ GoToStep("family")
NumberNext == step = "num_winners" /\ number >= 1 /\ GoToStep("method")
MethodBack ==
  /\ step = "method"
  /\ GoToStep(IF family = "single_winner" THEN "family" ELSE "num_winners")

(* The reset comes first, the number of winners replaces its update. *)
FamilyPicked(r, f) == [r EXCEPT !.winners = IF f = "single_winner" THEN 1 ELSE 2]
PickFamily(f) ==
  LET s == IF f = "single_winner" THEN "method" ELSE "num_winners"
      result == FamilyPicked(edited, f) IN
  /\ step = "family" /\ family # f
  /\ SetMethodStep(s)
  /\ family' = f /\ number' = result.winners
  /\ Edit(result, FamilyPicked(ResetFor(edited, s), f))

TypeNumber(n) ==
  LET result == IF n < 1 THEN edited ELSE [edited EXCEPT !.winners = n] IN
  /\ step = "num_winners" /\ n # number
  /\ number' = n
  /\ Edit(result, result)
  /\ UNCHANGED <<step, timers, family>>

MethodsOf(f) ==
  Methods \cap IF f = "proportional_multi_winner" THEN {"STAR_PR", "STV"}
               ELSE {"STAR", "RankedRobin", "Approval", "Plurality", "IRV"}
PickMethod(m) ==
  LET result == [edited EXCEPT !.method = m] IN
  /\ step = "method" /\ m \in MethodsOf(family)
  /\ SetMethodStep("done")
  /\ Edit(result, result)
  /\ UNCHANGED <<family, number>>

ShowStep ==
  /\ timers # <<>>
  /\ step' = Head(timers) /\ timers' = Tail(timers)
  /\ UNCHANGED <<form, phase, race, edited, family, number, upload, asked, edits>>
-----------------------------------------------------------------------------
(* The form around it *)
Start(r) == edited' = r /\ asked' = r

Open ==
  /\ phase = "closed" /\ Len(timers) < 2
  /\ phase' = "open"
  /\ Start(race)
  /\ LET s == IF edited.method = "none" THEN "unset" ELSE "done" IN
     SetMethodStep(s) /\ family' = FamilyAfter(s) /\ number' = NumberAfter(s)
  /\ UNCHANGED <<form, race, upload, edits>>
Cancel ==
  /\ phase = "open" /\ form # "wizard"
  /\ phase' = "closed"
  /\ Start(race)
  /\ UNCHANGED <<form, race, selector, upload, edits>>

(* The wizard's other questions replace the election the race belongs to,    *)
(* and useEditRace starts again from the race in it.                         *)
ChangeTerm ==
  /\ phase = "open" /\ form = "wizard" /\ edited # race
  /\ edited' = race /\ asked' = edited
  /\ UNCHANGED <<form, phase, race, selector, upload, edits>>

Named(r) == SelectSeq(r.cands, LAMBDA c : c.name # "")
ValidRace ==
  /\ edited.title # ""
  /\ edited.method # "none"
  /\ Len(Named(edited)) >= 2 /\ edited.winners <= Len(Named(edited))
  /\ Cardinality({c.name : c \in Range(Named(edited))}) = Len(Named(edited))
  /\ \A c \in Range(edited.cands) : c.name # ""
Save ==
  /\ phase = "open" /\ ValidRace
  /\ phase' = "saving"
  /\ UNCHANGED <<form, race, edited, selector, upload, asked, edits>>

SaveDone ==
  /\ phase = "saving"
  /\ phase' = "ended"
  /\ race' = edited
  /\ UNCHANGED <<form, edited, selector, upload, asked, edits>>

(* A refused update of a race fetches the election again, and the edits go;  *)
(* the other forms keep them.                                                *)
SaveRefused ==
  /\ phase = "saving"
  /\ phase' = "open"
  /\ IF race # Blank THEN Start(race) ELSE UNCHANGED <<edited, asked>>
  /\ UNCHANGED <<form, race, selector, upload, edits>>

(* The race is stored but the test ballots could not be deleted: the dialog  *)
(* stays (and one that added a race will be refused, its title being taken). *)
ClearFails ==
  /\ phase = "saving" /\ form # "wizard"
  /\ phase' = "open"
  /\ race' = IF race = Blank THEN Blank ELSE edited
  /\ UNCHANGED <<form, edited, selector, upload, asked, edits>>

Next ==
  \/ TypeTitle \/ AddWriteIn \/ AddNota
  \/ \E j \in 1..Len(Rows(edited)) :
       \/ \E name \in Names \cup {""} : TypeName(j, name)
       \/ DeleteCandidate(j) \/ Backspace(j) \/ StartPhoto(j)
       \/ \E k \in 1..Len(Rows(edited)) : DragCandidate(j, k)
  \/ StartDrop \/ UploadLands \/ UploadFails
  \/ SelectMethod \/ NumberBack \/ NumberNext \/ MethodBack \/ ShowStep
  \/ \E f \in {"single_winner", "bloc_multi_winner", "proportional_multi_winner"} : PickFamily(f)
  \/ \E n \in Numbers : TypeNumber(n)
  \/ \E m \in Methods : PickMethod(m)
  \/ Open \/ Cancel \/ ChangeTerm \/ Save \/ SaveDone \/ SaveRefused \/ ClearFails
Spec == Init /\ [][Next]_formVars
-----------------------------------------------------------------------------
(* Every action does to the race what the admin means by it and to nothing   *)
(* else, with six exceptions: photos that arrive after other edits undo them;*)
(* a method they bring back outlives the choice of a family; once photos were*)
(* dropped behind "none of the above" edits hit the wrong row; Backspace in  *)
(* the empty row removes "none of the above"; a page of the method selector  *)
(* may be used while it leaves; the wizard's other questions clear the form. *)
InPlace(r) ==
  /\ \A k \in DOMAIN r.cands : IsNota(r.cands[k]) => k = Len(r.cands)
  /\ Cardinality(IdsIn(r)) = Len(r.cands)
EditsApplied ==
  [][edited' # asked' =>
       \/ upload.set /\ ~upload'.set /\ upload.base # edited
       \/ step = "family" /\ asked' = [edited' EXCEPT !.method = "none"]
       \/ ~InPlace(edited)
       \/ edited'.cands = Others(edited) /\ Notas(edited) # <<>>
       \/ timers # <<>>
       \/ form = "wizard" /\ edited' = Blank]_<<edited, asked>>
=============================================================================
