------------------------------- MODULE Listings -------------------------------
(* The lists of elections a person sees: what the server puts on each list,  *)
(* the claim of an election created without an account, which precedes the   *)
(* list of one's own, and the table with its filters, order and pages        *)
(* (EnhancedTable). The choices of a group filter live in the column, which  *)
(* every table shares (headCellPool), and not in the table.                  *)
EXTENDS Integers, FiniteSets, SequencesExt, Arrays

CONSTANTS
  FirstListed,  \* elections to start with: from an identifier to its details
  TitleOrder,   \* the place of each election in the order of the titles
  Sizes,        \* rowsPerPageOptions
  MaxSteps      \* bound on the changes of the elections

States == {"draft", "finalized", "open", "closed", "archived"}
Details ==
  [owner : {"me", "temporary", "other"}, state : States, access : {"open", "closed"},
   public : BOOLEAN, archive : BOOLEAN, roll : {"none", "unsubmitted", "submitted"}]
ListIds == DOMAIN TitleOrder

ASSUME ListingsAssumption ==
  /\ IsFiniteSet(ListIds) /\ TitleOrder \in [ListIds -> Int] /\ IsInjective(TitleOrder)
  /\ FirstListed \subseteq [ListIds -> Details]
  /\ Sizes \subseteq Nat \ {0} /\ 2 \in Sizes

VARIABLES
  listed,     \* the head row of each election and the row of this person's
              \* email on its roll
  toClaim,    \* election_to_claim, or ""
  visit,      \* the page visited: its list, its progress and its rows
  pool,       \* filterGroups of the column election_state
  table,      \* the filters, order and page of the table, and filteredRows
  choices,    \* states ticked on this page, of all if none (history)
  grants,     \* elections whose claim was granted (history)
  steps
listingVars == <<listed, toClaim, visit, pool, table, choices, grants, steps>>

DefaultGroups == [s \in States |-> s # "archived"]
Pages == {"manage", "invited", "voted", "open", "archive", "created"}
NewTable == [search |-> "", order |-> "desc", size |-> 2, page |-> 0, rows |-> {}]

ListInit ==
  /\ listed \in FirstListed /\ toClaim = "" /\ pool = DefaultGroups
  /\ visit = [list |-> "open", at |-> "left", rows |-> {}]
  /\ table = NewTable /\ choices = DefaultGroups /\ grants = {} /\ steps = 0
-----------------------------------------------------------------------------
(* The server. An open election one was added to by opening it is no         *)
(* invitation.                                                               *)
OnRoll(list, e) == e.roll = IF list = "invited" THEN "unsubmitted" ELSE "submitted"
OnList(list, e) ==
  CASE list = "manage" -> e.owner = "me"
    [] list = "invited" -> OnRoll(list, e) /\ e.access # "open"
    [] list = "voted" -> OnRoll(list, e)
    [] list = "open" -> e.state = "open" /\ e.public /\ e.access = "open"
    [] list = "archive" -> e.archive
    [] list = "created" -> ~e.archive
Listed(list) ==
  {[id |-> i, state |-> listed[i].state] : i \in {j \in ListIds : OnList(list, listed[j])}}

Change(i, e) ==
  /\ steps < MaxSteps /\ steps' = steps + 1
  /\ listed' = [listed EXCEPT ![i] = e]
  /\ UNCHANGED <<toClaim, visit, pool, table, choices, grants>>
After(state) ==
  CASE state = "draft" -> {"open"} [] state = "open" -> {"closed"}
    [] state = "closed" -> {"open", "archived"} [] OTHER -> {}
MoveOn(i) == \E s \in After(listed[i].state) :
               Change(i, [listed[i] EXCEPT !.state = s])
VoteIn(i) ==
  /\ listed[i].state = "open" /\ listed[i].roll = "unsubmitted"
  /\ Change(i, [listed[i] EXCEPT !.roll = "submitted"])
-----------------------------------------------------------------------------
(* A visit mounts a table anew; only the pool stays as it was left.          *)
MountTable(list, at) ==
  /\ visit' = [list |-> list, at |-> at, rows |-> {}]
  /\ table' = NewTable /\ choices' = DefaultGroups
VisitList(list) ==
  /\ visit.at \in {"left", "shown"}
  /\ MountTable(list, "loading")
  /\ UNCHANGED <<listed, toClaim, pool, grants, steps>>
(* Someone with a temporary identity logs in, which lands on the own list.   *)
LogInAndClaim(i) ==
  /\ visit.at \in {"left", "shown"} /\ listed[i].owner = "temporary"
  /\ toClaim' = i /\ MountTable("manage", "claiming")
  /\ UNCHANGED <<listed, pool, grants, steps>>

(* claimElection; the list is asked for when the claim has been answered.    *)
Granted ==
  /\ visit.at = "claiming" /\ toClaim # "" /\ steps < MaxSteps
  /\ listed' = [listed EXCEPT ![toClaim].owner = "me"]
  /\ grants' = grants \cup {toClaim} /\ steps' = steps + 1
  /\ toClaim' = "" /\ visit' = [visit EXCEPT !.at = "loading"]
  /\ UNCHANGED <<pool, table, choices>>
Refused ==
  /\ visit.at = "claiming"
  /\ toClaim' = "" /\ visit' = [visit EXCEPT !.at = "loading"]
  /\ UNCHANGED <<listed, pool, table, choices, grants, steps>>

(* filterData: a search in the titles, and the states that are ticked.       *)
HasState(list) == list \in {"manage", "invited", "voted", "created"}
Passes(list, row, search, groups) ==
  /\ search \in {"", row.id}
  /\ HasState(list) => groups[row.state]
Filtered(list, rows, search, groups) ==
  {r \in rows : Passes(list, r, search, groups)}
(* A table that keeps its page when the filters change (for checking).       *)
RefilterInPlace(list, rows, search, groups) ==
  table' = [table EXCEPT !.search = search,
                         !.rows = Filtered(list, rows, search, groups)]
(* filteredRows is computed anew, and shown from its first page, when the    *)
(* filters or the data change.                                               *)
Refilter(list, rows, search, groups) ==
  table' = [table EXCEPT !.search = search, !.page = 0,
                         !.rows = Filtered(list, rows, search, groups)]
LoadRows ==
  /\ visit.at = "loading"
  /\ visit' = [visit EXCEPT !.at = "shown", !.rows = Listed(visit.list)]
  /\ Refilter(visit.list, Listed(visit.list), table.search, pool)
  /\ UNCHANGED <<listed, toClaim, pool, choices, grants, steps>>

RowsShown == visit.at = "shown"
Search(text) ==
  /\ RowsShown /\ text # table.search
  /\ Refilter(visit.list, visit.rows, text, pool)
  /\ UNCHANGED <<listed, toClaim, visit, pool, choices, grants, steps>>
(* handleGroupFilterChange sets every group of the column, in place.         *)
TickState(s) ==
  /\ RowsShown /\ HasState(visit.list)
  /\ pool' = [pool EXCEPT ![s] = ~@]
  /\ choices' = [choices EXCEPT ![s] = ~@]
  /\ Refilter(visit.list, visit.rows, table.search, [pool EXCEPT ![s] = ~@])
  /\ UNCHANGED <<listed, toClaim, visit, grants, steps>>
RequestSort ==
  /\ RowsShown /\ table' = [table EXCEPT !.order = IF @ = "asc" THEN "desc" ELSE "asc"]
  /\ UNCHANGED <<listed, toClaim, visit, pool, choices, grants, steps>>

(* The pagination offers the pages that filteredRows fills.                  *)
ChangePage(page) ==
  /\ RowsShown /\ page # table.page /\ page * table.size < Cardinality(table.rows)
  /\ table' = [table EXCEPT !.page = page]
  /\ UNCHANGED <<listed, toClaim, visit, pool, choices, grants, steps>>
ChangeRowsPerPage(size) ==
  /\ RowsShown /\ size # table.size
  /\ table' = [table EXCEPT !.size = size, !.page = 0]
  /\ UNCHANGED <<listed, toClaim, visit, pool, choices, grants, steps>>

ListNext ==
  \/ Granted \/ Refused \/ LoadRows \/ RequestSort
  \/ \E i \in ListIds : MoveOn(i) \/ VoteIn(i) \/ LogInAndClaim(i)
  \/ \E text \in ListIds \cup {""} : Search(text)
  \/ \E list \in Pages : VisitList(list)
  \/ \E s \in {"draft", "open", "archived"} : TickState(s)
  \/ \E page \in 0..Cardinality(table.rows) : ChangePage(page)
  \/ \E size \in Sizes : ChangeRowsPerPage(size)
ListSpec == ListInit /\ [][ListNext]_listingVars
-----------------------------------------------------------------------------
(* stableSort and the slice of the current page.                             *)
Before(p, q) ==
  IF table.order = "asc" THEN TitleOrder[p.id] < TitleOrder[q.id]
  ELSE TitleOrder[p.id] > TitleOrder[q.id]
Sorted ==
  InOrder(table.rows, [q \in table.rows |-> {p \in table.rows : Before(p, q)}])
PageRows(page) ==
  {Sorted[k] : k \in {j \in DOMAIN Sorted :
     page * table.size < j /\ j <= (page + 1) * table.size}}

Leaked == pool # choices
(* The pages of the table hold the rows the visitor asked for on this page,  *)
(* unless a choice made on another page is still in the shared column; the   *)
(* page shown is not past the last; and a claimed election is on the list    *)
(* of one's own (ElectionsYouManage.tsx, "guarantee the correct sequence").  *)
TableShowsList ==
  RowsShown =>
    /\ UNION {PageRows(p) : p \in 0..Cardinality(table.rows)}
         = Filtered(visit.list, visit.rows, table.search, choices) \/ Leaked
    /\ table.rows # {} => PageRows(table.page) # {}
    /\ visit.list = "manage" => grants \subseteq {r.id : r \in visit.rows}
=============================================================================
