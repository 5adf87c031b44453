----------------------------- MODULE SettingsPage -----------------------------
(* The settings page of one administrator. Switches answer a click at once   *)
(* (useOptimisticToggle) and the write follows: most settings post the whole *)
(* election the page holds (updateElection), public_results has an endpoint  *)
(* of its own. A write is accepted when the page knows the newest version.   *)
EXTENDS Integers, FiniteSets

CONSTANTS
  Texts,       \* values of the settings without a switch of their own
  MaxVersion,  \* bound on the versions of the election
  MaxGets      \* bound on the readings under way

ASSUME BoundAssumption == MaxVersion \in Nat

VARIABLES
  stored, version,  \* the election of the server and its update_date
  seen,             \* data.election of the page
  expected,         \* latestUpdateDate
  local, committed, \* of each switch: what it shows, what it takes for stored
  request,          \* the write in flight
  asked, replies,   \* readings not yet served, and served but not yet arrived
  dialog,           \* the draft of the contact email, while its dialog is open
  unrefreshed,      \* a reading failed (history)
  crossed           \* a write or a change of another while a reading was under
                    \* way, or a reading that arrived during a write (history)
settingsVars == <<stored, version, seen, expected, local, committed, request,
                  asked, replies, dialog, unrefreshed, crossed>>

Switches == {"ballot_updates", "public_results"}
Settings == [ballot_updates : BOOLEAN, public_results : BOOLEAN, text : Texts]
Write(kind, key, value, body) ==
  [kind |-> kind, key |-> key, value |-> value, body |-> body, version |-> 0]
Free == Write("none", "text", FALSE, <<>>)
Closed == [open |-> FALSE, draft |-> CHOOSE t \in Texts : TRUE]
Shown(settings) == [k \in Switches |-> settings[k]]

SettingsInit ==
  /\ stored \in Settings /\ version = 0
  /\ seen = stored /\ expected = version
  /\ local = Shown(seen) /\ committed = Shown(seen)
  /\ request = Free /\ asked = 0 /\ replies = {} /\ dialog = Closed
  /\ unrefreshed = FALSE /\ crossed = FALSE

InFlight == request.kind # "none"
Waiting == InFlight \/ asked > 0 \/ replies # {}
-----------------------------------------------------------------------------
(* Another administrator changes the election.                               *)
Elsewhere(settings) ==
  /\ version < MaxVersion /\ settings # stored
  /\ stored' = settings /\ version' = version + 1
  /\ crossed' = (crossed \/ Waiting)
  /\ UNCHANGED <<seen, expected, local, committed, request, asked, replies,
                 dialog, unrefreshed>>

(* updateElection changes the context before it posts it; the render that    *)
(* shows the write in flight has every switch take the new value for stored. *)
Send(key, value) ==
  LET body == [seen EXCEPT ![key] = value] IN
  /\ ~InFlight /\ request' = Write("edit", key, value, body)
  /\ seen' = body
  /\ committed' = [k \in Switches |-> IF body[k] # seen[k] THEN body[k] ELSE committed[k]]
  /\ crossed' = (crossed \/ Waiting)

(* The setter of useOptimisticToggle; the gate keeps clicks out meanwhile.   *)
Flip(k) ==
  LET value == ~local[k] IN
  /\ ~InFlight /\ ~dialog.open /\ local' = [local EXCEPT ![k] = value]
  /\ IF value = committed[k] THEN UNCHANGED <<seen, committed, request, crossed>>
     ELSE IF k = "public_results"
          THEN /\ request' = Write("public", k, value, <<>>)
               /\ crossed' = (crossed \/ Waiting)
               /\ UNCHANGED <<seen, committed>>
          ELSE Send(k, value)
  /\ UNCHANGED <<stored, version, expected, asked, replies, dialog, unrefreshed>>

(* The terms and the number of ranks: no switch, the context shows them.     *)
Choose(text) ==
  /\ ~dialog.open /\ text # seen.text /\ Send("text", text)
  /\ UNCHANGED <<stored, version, expected, local, asked, replies, dialog,
                 unrefreshed>>

(* DialogTextField. The dialog is outside the gate, and Enter saves again    *)
(* while a save is in flight: that write throws, and the dialog closes.      *)
OpenDialog ==
  /\ ~InFlight /\ ~dialog.open /\ dialog' = [open |-> TRUE, draft |-> seen.text]
  /\ UNCHANGED <<stored, version, seen, expected, local, committed, request,
                 asked, replies, unrefreshed, crossed>>
TypeDraft(text) ==
  /\ dialog.open /\ dialog.draft # text /\ dialog' = [dialog EXCEPT !.draft = text]
  /\ UNCHANGED <<stored, version, seen, expected, local, committed, request,
                 asked, replies, unrefreshed, crossed>>
SaveDialog ==
  /\ dialog.open /\ Send("text", dialog.draft)
  /\ UNCHANGED <<stored, version, expected, local, asked, replies, dialog,
                 unrefreshed>>
CloseDialog ==
  /\ dialog.open /\ dialog' = Closed
  /\ UNCHANGED <<stored, version, seen, expected, local, committed, request,
                 asked, replies, unrefreshed, crossed>>
-----------------------------------------------------------------------------
(* editElection and setPublicResults.                                        *)
Accept ==
  /\ InFlight /\ request.version = 0 /\ version < MaxVersion
  /\ expected = version
  /\ stored' = IF request.kind = "edit" THEN request.body
               ELSE [stored EXCEPT !.public_results = request.value]
  /\ version' = version + 1 /\ request' = [request EXCEPT !.version = version + 1]
  /\ UNCHANGED <<seen, expected, local, committed, asked, replies, dialog,
                 unrefreshed, crossed>>

IsSwitch == request.key \in Switches
Ends == request' = Free /\ dialog' = Closed
(* The answer brings the new version; public_results reads the rest again.   *)
Answered ==
  /\ request.version > 0 /\ Ends /\ expected' = request.version
  /\ committed' = IF IsSwitch THEN [committed EXCEPT ![request.key] = request.value]
                  ELSE committed
  /\ asked' = IF request.kind = "public" THEN asked + 1 ELSE asked
  /\ UNCHANGED <<stored, version, seen, local, replies, unrefreshed, crossed>>

(* A refusal, or an answer that never came: updateElection reads again and   *)
(* does not wait for it, the endpoint of public_results does not read.       *)
Failed ==
  /\ InFlight /\ Ends
  /\ local' = IF IsSwitch THEN [local EXCEPT ![request.key] = committed[request.key]]
              ELSE local
  /\ asked' = IF request.kind = "edit" THEN asked + 1 ELSE asked
  /\ asked' <= MaxGets
  /\ UNCHANGED <<stored, version, seen, expected, committed, replies,
                 unrefreshed, crossed>>

(* A reading of the election, which may arrive late or out of order.         *)
Serve ==
  /\ asked > 0 /\ asked' = asked - 1
  /\ replies' = replies \cup {[settings |-> stored, version |-> version]}
  /\ UNCHANGED <<stored, version, seen, expected, local, committed, request,
                 dialog, unrefreshed, crossed>>
GetFails ==
  /\ asked > 0 /\ asked' = asked - 1 /\ unrefreshed' = TRUE
  /\ UNCHANGED <<stored, version, seen, expected, local, committed, request,
                 replies, dialog, crossed>>
(* A switch that never follows the context (for checking).                   *)
FollowNot(shown, settings) == shown
(* A switch follows the context only where the context's value changed.      *)
Follow(shown, settings) ==
  [k \in Switches |-> IF settings[k] # seen[k] THEN settings[k] ELSE shown[k]]
Arrive(reply) ==
  /\ replies' = replies \ {reply}
  /\ seen' = reply.settings /\ expected' = reply.version
  /\ local' = Follow(local, reply.settings)
  /\ committed' = Follow(committed, reply.settings)
  /\ crossed' = (crossed \/ InFlight)
  /\ UNCHANGED <<stored, version, request, asked, dialog, unrefreshed>>

(* Bound: a page whose reading failed, or crossed a write, is not followed    *)
(* further: the property below promises nothing for it.                      *)
Followed == ~unrefreshed /\ ~crossed
Step ==
  \/ \E s \in Settings : Elsewhere(s)
  \/ \E k \in Switches : Flip(k)
  \/ \E t \in Texts : Choose(t) \/ TypeDraft(t)
  \/ OpenDialog \/ SaveDialog \/ CloseDialog
  \/ Accept \/ Answered \/ Failed \/ Serve \/ GetFails
  \/ \E r \in replies : Arrive(r)
SettingsNext == Followed /\ Step
SettingsSpec == SettingsInit /\ [][SettingsNext]_settingsVars
-----------------------------------------------------------------------------
SettingsTypeOK ==
  /\ stored \in Settings /\ seen \in Settings
  /\ version \in 0..MaxVersion /\ expected \in 0..version
  /\ local \in [Switches -> BOOLEAN] /\ committed \in [Switches -> BOOLEAN]

(* A page whose next write would be accepted shows what is stored, so that   *)
(* it never writes over a setting it does not show (useOptimisticToggle.ts:  *)
(* "reverts the local value if commit resolves false"; ElectionSettings.tsx  *)
(* 63-67), once its readings arrived, unless one failed or crossed a write.  *)
ShowsWhatItOverwrites ==
  ~Waiting /\ expected = version /\ ~unrefreshed /\ ~crossed =>
    seen = stored /\ local = Shown(stored)
=============================================================================
