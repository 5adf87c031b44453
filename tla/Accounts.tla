------------------------------- MODULE Accounts -------------------------------
(* One person's browser: elections made without an account belong to a       *)
(* temporary identity kept in a cookie, and to whoever holds their claim key *)
(* (another cookie), until an account claims them. Cookies belong to the     *)
(* browser; a tab has what it read of them when its page was loaded.         *)
EXTENDS Naturals, Sequences

CONSTANTS
  Elections,   \* identifiers the server may give
  Tabs,
  TempIds,     \* a sequence of the identifiers makeID will return
  Legacy,      \* "0", which older versions left in temp_id
  MaxUpdates   \* bound on the versions of an election

Ids == {TempIds[n] : n \in DOMAIN TempIds}

(* makeID never returns the empty identity or the one of older versions,    *)
(* which are two different ones.                                             *)
ASSUME IdsAssumption ==
  TempIds \in Seq(Ids) /\ "" \notin Ids /\ Legacy \notin Ids /\ Legacy # ""

VARIABLES
  elections,  \* owner_id, version, and whether younger than
              \* TEMPORARY_ACCESS_HOURS, of each election
  jar,        \* the cookies temp_id and id_token, and the claim keys
  tabs,       \* page, session storage, and what the page read when loaded
  unused,     \* rest of TempIds
  claimed,    \* elections whose claim was granted (history)
  forgotten   \* elections the browser lost the cookies of (history): it was
              \* closed, a creation was answered in vain, or a page that was
              \* loaded with the legacy identity replaced the one in use
accountVars == <<elections, jar, tabs, unused, claimed, forgotten>>

Unborn == [owner |-> "unborn", version |-> 0, fresh |-> TRUE]
Born == {e \in Elections : elections[e] # Unborn}
Temporary(owner) == owner \notin {"unborn", "nobody", "me"}
OwnedBy(id) == {e \in Born : elections[e].owner = id}
Blank == [page |-> "left", temp |-> "", loggedIn |-> FALSE, about |-> "",
              hasKey |-> FALSE, copy |-> Unborn, toClaim |-> "", answer |-> FALSE]

AccountInit ==
  /\ elections = [e \in Elections |-> Unborn]
  /\ jar \in [temp : {"", Legacy}, token : {"none", "good"}, keys : {{}}]
  /\ tabs = [t \in Tabs |-> Blank]
  /\ unused = TempIds /\ claimed = {} /\ forgotten = {}
-----------------------------------------------------------------------------
(* The server. A cookie with a token that is past its time refuses every     *)
(* request, also one that needs no account.                                  *)
Heeded == jar.token # "stale"
TempUserAuth(e) ==
  /\ Temporary(elections[e].owner) /\ elections[e].owner = jar.temp
  /\ elections[e].fresh /\ e \in jar.keys
IsOwner(e) ==
  Heeded /\ ((elections[e].owner = "me" /\ jar.token = "good") \/ TempUserAuth(e))
-----------------------------------------------------------------------------
(* Loading a page: the header gives a visitor without an identity one, and   *)
(* replaces the legacy one, which the page itself has read by then.          *)
Resting(t) == tabs[t].page \in {"left", "wizard", "election", "manage"}
NewId == jar.temp \in {"", Legacy}
Load(t, page, e, token) ==
  /\ NewId => unused # <<>>
  /\ jar' = [jar EXCEPT !.temp = IF NewId THEN Head(unused) ELSE @, !.token = token]
  /\ unused' = IF NewId THEN Tail(unused) ELSE unused
  /\ tabs' = [tabs EXCEPT ![t] =
       [@ EXCEPT !.page = page, !.about = e,
                 !.temp = IF page = "manage" THEN "" ELSE
                          IF jar.temp = Legacy THEN Legacy ELSE jar'.temp,
                 !.loggedIn = token # "none",
                 !.hasKey = e \in jar.keys,
                 !.copy = IF e \in Born THEN elections[e] ELSE Unborn]]
Visit(t, page) ==
  /\ Resting(t) /\ page # tabs[t].page /\ Load(t, page, "", jar.token)
  /\ UNCHANGED <<elections, claimed, forgotten>>
VisitElection(t, e) ==
  /\ Resting(t) /\ Heeded /\ e \in Born /\ Load(t, "election", e, jar.token)
  /\ UNCHANGED <<elections, claimed, forgotten>>

(* The wizard. A page that still has the legacy identity makes its own; a    *)
(* poll that is published at once belongs to nobody.                         *)
SubmitTempId(t) == IF tabs[t].temp = Legacy THEN Head(unused) ELSE tabs[t].temp
Owner(t, published) ==
  IF published THEN "nobody" ELSE IF tabs[t].loggedIn THEN "me" ELSE SubmitTempId(t)
(* A page loaded before the identity was replaced goes on with the old one.  *)
Replaced(owner, e) == IF Temporary(owner) /\ owner # jar.temp THEN {e} ELSE {}
AddElection(t, e, published) ==
  /\ tabs[t].page = "wizard" /\ Heeded /\ e \notin Born
  /\ tabs[t].temp = Legacy => unused # <<>>
  /\ elections' = [elections EXCEPT ![e] =
       [owner |-> Owner(t, published), version |-> 1, fresh |-> TRUE]]
  /\ IF tabs[t].temp = Legacy
     THEN jar' = [jar EXCEPT !.temp = Head(unused)] /\ unused' = Tail(unused)
     ELSE UNCHANGED <<jar, unused>>
  /\ forgotten' = IF jar'.temp = jar.temp THEN forgotten \cup Replaced(Owner(t, published), e)
                  ELSE forgotten \cup OwnedBy(jar.temp)
  /\ tabs' = [tabs EXCEPT ![t] = [@ EXCEPT !.page = "posting", !.about = e]]
  /\ UNCHANGED claimed
ElectionAdded(t) ==
  /\ tabs[t].page = "posting"
  /\ jar' = [jar EXCEPT !.keys = @ \cup {tabs[t].about}]
  /\ tabs' = [tabs EXCEPT ![t] = [@ EXCEPT !.page = "election", !.hasKey = TRUE,
                                           !.copy = elections[tabs[t].about]]]
  /\ UNCHANGED <<elections, unused, claimed, forgotten>>
AnswerLost(t) ==
  /\ tabs[t].page = "posting"
  /\ forgotten' = forgotten \cup {tabs[t].about}
  /\ tabs' = [tabs EXCEPT ![t] = [@ EXCEPT !.page = "wizard", !.about = ""]]
  /\ UNCHANGED <<elections, jar, unused, claimed>>

(* A page that edits posts the whole election it holds, owner_id included.   *)
EditUnchecked(t) ==
  LET e == tabs[t].about IN
  /\ tabs[t].page = "election" /\ IsOwner(e) /\ elections[e].version < MaxUpdates
  /\ elections' = [elections EXCEPT ![e].owner = tabs[t].copy.owner, ![e].version = @ + 1]
  /\ tabs' = [tabs EXCEPT ![t].copy = elections'[e]]
  /\ UNCHANGED <<jar, unused, claimed, forgotten>>
Edit(t) ==
  LET e == tabs[t].about IN
  /\ tabs[t].page = "election" /\ IsOwner(e) /\ elections[e].version < MaxUpdates
  /\ tabs[t].copy.version = elections[e].version
  /\ elections' = [elections EXCEPT ![e].owner = tabs[t].copy.owner, ![e].version = @ + 1]
  /\ tabs' = [tabs EXCEPT ![t].copy = elections'[e]]
  /\ UNCHANGED <<jar, unused, claimed, forgotten>>
-----------------------------------------------------------------------------
(* Logging in leaves the site, with a note of what to claim in the storage   *)
(* of the tab; it comes back to one's elections. A page that finds a token   *)
(* in the jar, past its time or not, does not ask for another.               *)
TemporaryAccessWarning(t) ==
  /\ tabs[t].page = "election" /\ tabs[t].hasKey
  /\ tabs[t].copy.owner = tabs[t].temp /\ elections[tabs[t].about].fresh
OpenLogin(t, toClaim) ==
  /\ tabs' = [tabs EXCEPT ![t] = [Blank EXCEPT !.page = "login", !.toClaim = toClaim]]
  /\ UNCHANGED <<elections, jar, unused, claimed, forgotten>>
LogInToClaim(t) == TemporaryAccessWarning(t) /\ OpenLogin(t, tabs[t].about)
LogIn(t) == Resting(t) /\ tabs[t].page # "left" /\ ~tabs[t].loggedIn
            /\ OpenLogin(t, tabs[t].toClaim)
Token(given) == IF jar.token = "none" /\ given THEN "good" ELSE jar.token
RefreshSession(t, given) ==
  /\ tabs[t].page = "login" /\ Load(t, "manage", "", Token(given))
  /\ UNCHANGED <<elections, claimed, forgotten>>
OpenLogout(t) ==
  /\ Resting(t) /\ tabs[t].loggedIn
  /\ jar' = [jar EXCEPT !.token = "none"]
  /\ tabs' = [tabs EXCEPT ![t] = [Blank EXCEPT !.toClaim = tabs[t].toClaim]]
  /\ UNCHANGED <<elections, unused, claimed, forgotten>>

(* The list of one's elections claims what the storage notes, if the jar has *)
(* the key, and drops the note whatever the answer; the server may find the  *)
(* election changed since it read it.                                        *)
Claiming(t) == tabs[t].page = "manage" /\ tabs[t].loggedIn /\ tabs[t].toClaim # ""
NoClaimKey(t) ==
  /\ Claiming(t) /\ tabs[t].toClaim \notin jar.keys
  /\ tabs' = [tabs EXCEPT ![t].toClaim = ""]
  /\ UNCHANGED <<elections, jar, unused, claimed, forgotten>>
Claim(t, granted) ==
  LET e == tabs[t].toClaim IN
  /\ Claiming(t) /\ e \in jar.keys
  /\ granted => IsOwner(e) /\ jar.token = "good" /\ elections[e].version < MaxUpdates
  /\ IF granted
     THEN /\ elections' =
               IF elections[e].owner = "me" THEN elections
               ELSE [elections EXCEPT ![e].owner = "me", ![e].version = @ + 1]
          /\ claimed' = claimed \cup {e}
     ELSE UNCHANGED <<elections, claimed>>
  /\ tabs' = [tabs EXCEPT ![t] = [@ EXCEPT !.page = "claiming", !.answer = granted]]
  /\ UNCHANGED <<jar, unused, forgotten>>
ClaimAnswered(t, heard) ==
  /\ tabs[t].page = "claiming"
  /\ jar' = IF tabs[t].answer /\ heard THEN [jar EXCEPT !.keys = @ \ {tabs[t].toClaim}] ELSE jar
  /\ tabs' = [tabs EXCEPT ![t] =
       [@ EXCEPT !.page = "manage", !.toClaim = "", !.answer = FALSE]]
  /\ UNCHANGED <<elections, unused, claimed, forgotten>>
-----------------------------------------------------------------------------
(* The token has a life of its own, the cookies it is in another; the others *)
(* last as long as the browser is open.                                      *)
TokenExpires ==
  /\ jar.token = "good" /\ jar' = [jar EXCEPT !.token = "stale"]
  /\ UNCHANGED <<elections, tabs, unused, claimed, forgotten>>
CookiesExpire ==
  /\ jar.token # "none" /\ jar' = [jar EXCEPT !.token = "none"]
  /\ UNCHANGED <<elections, tabs, unused, claimed, forgotten>>
HoursPass(e) ==
  /\ e \in Born /\ elections[e].fresh
  /\ elections' = [elections EXCEPT ![e].fresh = FALSE]
  /\ UNCHANGED <<jar, tabs, unused, claimed, forgotten>>
CloseBrowser ==
  /\ jar' = [jar EXCEPT !.temp = "", !.keys = {}]
  /\ tabs' = [t \in Tabs |-> Blank]
  /\ forgotten' = Born
  /\ UNCHANGED <<elections, unused, claimed>>

AccountNext ==
  \/ TokenExpires \/ CookiesExpire \/ CloseBrowser
  \/ \E e \in Elections : HoursPass(e)
  \/ \E t \in Tabs :
       \/ ElectionAdded(t) \/ AnswerLost(t) \/ Edit(t) \/ LogInToClaim(t)
       \/ LogIn(t) \/ OpenLogout(t) \/ NoClaimKey(t)
       \/ \E page \in {"wizard", "manage"} : Visit(t, page)
       \/ \E e \in Elections : VisitElection(t, e)
       \/ \E e \in Elections, yes \in BOOLEAN : AddElection(t, e, yes)
       \/ \E yes \in BOOLEAN : RefreshSession(t, yes) \/ Claim(t, yes) \/ ClaimAnswered(t, yes)
AccountSpec == AccountInit /\ [][AccountNext]_accountVars
-----------------------------------------------------------------------------
AccountTypeOK ==
  /\ jar.token \in {"none", "good", "stale"} /\ jar.keys \subseteq Elections
  /\ claimed \subseteq Elections /\ forgotten \subseteq Elections

Posting == {tabs[t].about : t \in {u \in Tabs : tabs[u].page = "posting"}}
(* An election made without an account stays within reach of who made it,    *)
(* whatever the tabs do: the jar holds its identity and its key until its    *)
(* hours are over or an account owns it, and once claimed it stays claimed,  *)
(* although a tab that was open before posts the whole election it holds     *)
(* (TemporaryAccessWarning.tsx, claimElectionController.ts).                 *)
StaysWithItsMaker ==
  /\ claimed \subseteq OwnedBy("me")
  /\ \A e \in Born \ (Posting \cup forgotten) :
       Temporary(elections[e].owner) /\ elections[e].fresh => TempUserAuth(e)
=============================================================================
