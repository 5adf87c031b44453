------------------------- MODULE AdminPagesProofs --------------------------
(* Theorems about pages of an election's administrators: its settings, its   *)
(* details, the approval of write-ins with the ballots as the results read   *)
(* them, and the upload of cast vote records; the parts share no state here. *)
EXTENDS SettingsPage, DetailsForm, WriteIns, Upload, SetFacts, TLAPS
-----------------------------------------------------------------------------
(* SettingsPage.                                                             *)
(* The types of the whole state. *)
Request ==
  [kind : {"none", "edit", "public"}, key : Switches \cup {"text"},
   value : BOOLEAN \cup Texts, body : Settings \cup {<<>>}, version : Nat]
StateTypes ==
  /\ stored \in Settings /\ seen \in Settings
  /\ version \in Nat /\ version <= MaxVersion
  /\ expected \in Nat /\ expected <= version
  /\ local \in [Switches -> BOOLEAN] /\ committed \in [Switches -> BOOLEAN]
  /\ request \in Request /\ request.version <= version /\ asked \in Nat
  /\ request.kind = "none" => request = Free
  /\ \A r \in replies : r.settings \in Settings /\ r.version \in Nat /\ r.version <= version
  /\ dialog \in [open : BOOLEAN, draft : Texts]

(* A page at rest is what it was at its version, *)
RestInv ==
  /\ local = Shown(seen)
  /\ expected = version => seen = stored

(* one that reads will get what is stored, and shows it then. *)
ReadInv ==
  /\ replies \subseteq {[settings |-> stored, version |-> version]}
  /\ Follow(local, stored) = Shown(stored)

(* A page that writes the whole election shows what it writes, and what is   *)
(* stored once the write was accepted.                                       *)
EditInv ==
  /\ seen = request.body /\ local = Shown(seen) /\ committed = Shown(seen)
  /\ request.key \in Switches => request.value = seen[request.key]
  /\ request.version > 0 => stored = seen /\ request.version = version

(* A page that writes public_results shows it, and has seen the rest.        *)
PublicInv ==
  /\ request.key = "public_results" /\ request.value \in BOOLEAN
  /\ request.value # seen.public_results
  /\ committed = Shown(seen)
  /\ local = [committed EXCEPT !["public_results"] = request.value]
  /\ request.version = 0 /\ expected = version => seen = stored
  /\ request.version > 0 =>
       /\ stored = [seen EXCEPT !.public_results = request.value]
       /\ request.version = version /\ expected < version

(* The inductive invariant: at most one of the write and the readings is     *)
(* under way, and what each will do is known.                                *)
PageInv ==
  /\ InFlight => asked = 0 /\ replies = {}
  /\ ~InFlight => local = committed
  /\ ~Waiting => RestInv
  /\ asked > 0 \/ replies # {} => ReadInv
  /\ request.kind = "edit" => EditInv
  /\ request.kind = "public" => PublicInv
SettingsInv == Followed => PageInv
-----------------------------------------------------------------------------
(* What the switches show of the settings. *)
LEMMA ShownType ==
  ASSUME NEW s \in Settings
  PROVE  /\ Shown(s) \in [Switches -> BOOLEAN]
         /\ \A k \in Switches : Shown(s)[k] = s[k] /\ s[k] \in BOOLEAN
BY DEF Shown, Settings, Switches

LEMMA ShownSwitch ==
  ASSUME NEW s \in Settings, NEW v \in BOOLEAN, NEW k \in Switches
  PROVE  /\ [s EXCEPT ![k] = v] \in Settings
         /\ Shown([s EXCEPT ![k] = v]) = [Shown(s) EXCEPT ![k] = v]
         /\ [s EXCEPT ![k] = v][k] = v
BY DEF Settings, Shown, Switches

LEMMA ShownText ==
  ASSUME NEW s \in Settings, NEW t \in Texts
  PROVE  /\ [s EXCEPT !["text"] = t] \in Settings
         /\ Shown([s EXCEPT !["text"] = t]) = Shown(s)
BY DEF Settings, Shown, Switches

LEMMA ShownPublic ==
  ASSUME NEW s \in Settings, NEW v \in BOOLEAN
  PROVE  /\ [s EXCEPT !.public_results = v] \in Settings
         /\ Shown([s EXCEPT !.public_results = v]) = [Shown(s) EXCEPT !["public_results"] = v]
BY DEF Settings, Shown, Switches

LEMMA ShownEqual ==
  ASSUME NEW s \in Settings, NEW f \in [Switches -> BOOLEAN],
         \A k \in Switches : f[k] = s[k]
  PROVE  f = Shown(s)
BY DEF Shown

(* A switch that shows what the page has seen follows to what is read. *)
LEMMA FollowSeen ==
  ASSUME seen \in Settings, NEW s \in Settings
  PROVE  Follow(Shown(seen), s) = Shown(s)
<1>1. \A k \in Switches : Follow(Shown(seen), s)[k] = s[k]
  BY ShownType DEF Follow
<1>2. Follow(Shown(seen), s) \in [Switches -> BOOLEAN]
  BY ShownType DEF Follow
<1>3. QED
  BY <1>1, <1>2, ShownEqual

LEMMA FollowType ==
  ASSUME NEW f \in [Switches -> BOOLEAN], NEW s \in Settings
  PROVE  Follow(f, s) \in [Switches -> BOOLEAN]
BY ShownType DEF Follow

(* What the page knows when it writes the whole election. *)
LEMMA SendFacts ==
  ASSUME StateTypes, PageInv, NEW key, NEW value, Send(key, value),
         [seen EXCEPT ![key] = value] \in Settings,
         key \in Switches \cup {"text"}, value \in BOOLEAN \cup Texts,
         key \in Switches => [seen EXCEPT ![key] = value][key] = value,
         UNCHANGED <<stored, version, expected, asked, replies, dialog, unrefreshed>>,
         local' \in [Switches -> BOOLEAN],
         ~Waiting => local' = Shown([seen EXCEPT ![key] = value])
  PROVE  StateTypes' /\ SettingsInv'
<1> DEFINE body == [seen EXCEPT ![key] = value]
<1>1. /\ ~InFlight /\ seen' = body /\ request' = Write("edit", key, value, body)
      /\ crossed' = (crossed \/ Waiting)
      /\ committed' = [k \in Switches |-> IF body[k] # seen[k] THEN body[k] ELSE committed[k]]
  BY DEF Send
<1>2. body \in Settings /\ seen \in Settings /\ committed \in [Switches -> BOOLEAN]
  BY DEF StateTypes
<1>3. committed' \in [Switches -> BOOLEAN]
  BY <1>1, <1>2, ShownType
<1>4. Write("edit", key, value, body) \in Request
      /\ Write("edit", key, value, body).version = 0
      /\ Write("edit", key, value, body).kind = "edit"
      /\ Write("edit", key, value, body).key = key
      /\ Write("edit", key, value, body).value = value
      /\ Write("edit", key, value, body).body = body
  BY <1>2 DEF Write, Request
<1>5. ~Waiting => local' = Shown(body)
  OBVIOUS
<1> HIDE DEF body
<1>6. StateTypes'
  <2>1. request' \in Request /\ request'.version <= version'
    <3>1. version \in Nat /\ version' = version
      BY DEF StateTypes
    <3>2. 0 <= version'
      BY <3>1
    <3>3. QED
      BY <1>1, <1>4, <3>2
  <2>2. seen' \in Settings /\ committed' \in [Switches -> BOOLEAN]
    BY <1>1, <1>2, <1>3
  <2>3. request'.kind # "none"
    BY <1>1, <1>4
  <2>4. QED
    BY <2>1, <2>2, <2>3 DEF StateTypes
<1>7. ASSUME Followed' PROVE PageInv'
  <2>1. ~Waiting /\ asked' = 0 /\ replies' = {}
    <3>1. ~Waiting
      BY <1>1, <1>7 DEF Followed
    <3>2. asked \in Nat
      BY DEF StateTypes
    <3>3. QED
      BY <3>1, <3>2 DEF Waiting
  <2>2. local = committed /\ local = Shown(seen)
    BY <1>1, <2>1 DEF PageInv, RestInv
  <2>3. committed' = Shown(body)
    <3>1. \A k \in Switches : committed'[k] = body[k]
      BY <1>1, <1>2, <2>2, ShownType
    <3>2. QED
      BY <1>2, <1>3, <3>1, ShownEqual
  <2>4. EditInv'
    <3>1. key \in Switches => body[key] = value
      BY DEF body
    <3>2. QED
      BY <1>1, <1>4, <1>5, <2>1, <2>3, <3>1 DEF EditInv
  <2>5. InFlight' /\ request'.kind = "edit"
    BY <1>1, <1>4 DEF InFlight
  <2>6. QED
    BY <2>1, <2>4, <2>5 DEF PageInv, Waiting
<1>8. QED
  BY <1>6, <1>7 DEF SettingsInv

LEMMA TextSteps ==
  ASSUME StateTypes, PageInv,
         (\E t \in Texts : Choose(t)) \/ SaveDialog
  PROVE  StateTypes' /\ SettingsInv'
<1>1. PICK t \in Texts : /\ Send("text", t)
                         /\ UNCHANGED <<stored, version, expected, local, asked, replies,
                                         dialog, unrefreshed>>
  BY DEF Choose, SaveDialog, StateTypes
<1>2. /\ [seen EXCEPT !["text"] = t] \in Settings
      /\ Shown([seen EXCEPT !["text"] = t]) = Shown(seen)
  BY ShownText DEF StateTypes
<1>3. "text" \notin Switches
  BY DEF Switches
<1>4. ~Waiting => local' = Shown([seen EXCEPT !["text"] = t])
  BY <1>1, <1>2 DEF PageInv, RestInv
<1>5. local' \in [Switches -> BOOLEAN]
  BY <1>1 DEF StateTypes
<1>6. QED
  BY <1>1, <1>2, <1>3, <1>4, <1>5, SendFacts

(* A switch is flipped. *)
LEMMA FlipSteps ==
  ASSUME StateTypes, PageInv, NEW k \in Switches, Flip(k)
  PROVE  StateTypes' /\ SettingsInv'
<1> DEFINE v == ~local[k]
<1>1. /\ seen \in Settings /\ local \in [Switches -> BOOLEAN]
      /\ committed \in [Switches -> BOOLEAN] /\ v \in BOOLEAN
  BY DEF StateTypes
<1>2. /\ ~InFlight /\ local' = [local EXCEPT ![k] = v]
      /\ UNCHANGED <<stored, version, expected, asked, replies, dialog, unrefreshed>>
  BY DEF Flip
<1>3. local = committed /\ v # committed[k]
  BY <1>1, <1>2 DEF PageInv
<1>4. local' \in [Switches -> BOOLEAN]
  BY <1>1, <1>2
<1>5. ~Waiting => local = Shown(seen) /\ (expected = version => seen = stored)
  BY DEF PageInv, RestInv
<1>6. CASE k = "public_results"
  <2>1. /\ request' = Write("public", k, v, <<>>) /\ crossed' = (crossed \/ Waiting)
        /\ UNCHANGED <<seen, committed>>
    BY <1>3, <1>6 DEF Flip
  <2>2. /\ request' \in Request /\ request'.kind = "public" /\ request'.key = k
        /\ request'.value = v /\ request'.version = 0
    BY <1>1, <2>1 DEF Write, Request
  <2>3. StateTypes'
    <3>1. version \in Nat /\ version' = version
      BY <1>2 DEF StateTypes
    <3>2. 0 <= version'
      BY <3>1
    <3>3. QED
      BY <1>2, <1>4, <2>1, <2>2, <3>2 DEF StateTypes
  <2>4. ASSUME Followed' PROVE PageInv'
    <3>1. ~Waiting
      BY <2>1, <2>4 DEF Followed
    <3>2. asked \in Nat
      BY DEF StateTypes
    <3>3. asked' = 0 /\ replies' = {}
      BY <1>2, <3>1, <3>2 DEF Waiting
    <3>4. v # seen.public_results /\ committed = Shown(seen)
      <4>1. committed["public_results"] = seen.public_results
        BY <1>1, <1>3, <1>5, <3>1, <1>6, ShownType
      <4>2. QED
        BY <1>3, <1>5, <1>6, <3>1, <4>1
    <3>5. PublicInv'
      <4>1. local' = [committed' EXCEPT !["public_results"] = request'.value]
        BY <1>2, <1>3, <1>6, <2>1, <2>2
      <4>2. request'.version > 0 => FALSE
        BY <2>2
      <4>3. QED
        BY <1>1, <1>2, <1>5, <1>6, <2>1, <2>2, <3>1, <3>4, <4>1, <4>2 DEF PublicInv
    <3>6. InFlight' /\ request'.kind # "edit"
      BY <2>2 DEF InFlight
    <3>7. QED
      BY <3>3, <3>5, <3>6 DEF PageInv, Waiting
  <2>5. QED
    BY <2>3, <2>4 DEF SettingsInv
<1>7. CASE k # "public_results"
  <2>1. Send(k, v)
    BY <1>3, <1>7 DEF Flip
  <2>2. ~Waiting => local' = Shown([seen EXCEPT ![k] = v])
    <3>1. Shown([seen EXCEPT ![k] = v]) = [Shown(seen) EXCEPT ![k] = v]
      BY <1>1, ShownSwitch
    <3>2. QED
      BY <1>2, <1>5, <3>1
  <2>3. [seen EXCEPT ![k] = v] \in Settings /\ [seen EXCEPT ![k] = v][k] = v
    BY <1>1, ShownSwitch
  <2>4. QED
    BY <1>1, <1>2, <1>4, <2>1, <2>2, <2>3, SendFacts
<1>8. QED
  BY <1>6, <1>7

(* The dialog, and another administrator. *)
LEMMA DialogSteps ==
  ASSUME StateTypes, PageInv, OpenDialog \/ (\E t \in Texts : TypeDraft(t)) \/ CloseDialog
  PROVE  StateTypes' /\ SettingsInv'
<1>1. UNCHANGED <<stored, version, seen, expected, local, committed, request,
                 asked, replies, unrefreshed, crossed>>
  BY DEF OpenDialog, TypeDraft, CloseDialog
<1>2. dialog' \in [open : BOOLEAN, draft : Texts]
  <2>1. seen.text \in Texts /\ dialog \in [open : BOOLEAN, draft : Texts]
    BY DEF StateTypes, Settings
  <2>2. CASE OpenDialog
    BY <2>1, <2>2 DEF OpenDialog
  <2>3. CASE \E t \in Texts : TypeDraft(t)
    BY <2>1, <2>3 DEF TypeDraft
  <2>4. CASE CloseDialog
    <3>1. (CHOOSE t \in Texts : TRUE) \in Texts
      BY <2>1
    <3>2. QED
      BY <2>4, <3>1 DEF CloseDialog, Closed
  <2>5. QED
    BY <2>2, <2>3, <2>4
<1>3. StateTypes'
  BY <1>1, <1>2 DEF StateTypes
<1>4. PageInv'
  BY <1>1 DEF PageInv, InFlight, Waiting, RestInv, ReadInv, Follow, EditInv, PublicInv
<1>5. QED
  BY <1>3, <1>4 DEF SettingsInv

LEMMA ElsewhereSteps ==
  ASSUME StateTypes, PageInv, NEW s \in Settings, Elsewhere(s)
  PROVE  StateTypes' /\ SettingsInv'
<1>1. /\ version < MaxVersion /\ stored' = s /\ version' = version + 1
      /\ crossed' = (crossed \/ Waiting)
      /\ UNCHANGED <<seen, expected, local, committed, request, asked, replies,
                     dialog, unrefreshed>>
  BY DEF Elsewhere
<1>2. version \in Nat /\ expected \in Nat /\ expected <= version /\ MaxVersion \in Nat
      /\ request.version \in Nat /\ request.version <= version
      /\ \A r \in replies : r.settings \in Settings /\ r.version \in Nat /\ r.version <= version
  BY BoundAssumption DEF StateTypes, Request
<1>3. version' \in Nat /\ version' <= MaxVersion /\ expected < version'
      /\ request.version <= version' /\ expected <= version'
      /\ \A r \in replies : r.version <= version'
  BY <1>1, <1>2
<1>4. StateTypes'
  BY <1>1, <1>2, <1>3 DEF StateTypes
<1>5. ASSUME Followed' PROVE PageInv'
  <2>1. ~Waiting
    BY <1>1, <1>5 DEF Followed
  <2>2. ~Waiting' /\ ~InFlight' /\ request'.kind = "none"
    BY <1>1, <2>1 DEF Waiting, InFlight
  <2>3. RestInv' /\ local' = committed'
    <3>1. local = Shown(seen) /\ local = committed
      BY <2>1 DEF PageInv, RestInv, Waiting
    <3>2. expected' # version'
      BY <1>1, <1>2
    <3>3. QED
      BY <1>1, <3>1, <3>2 DEF RestInv
  <2>4. QED
    BY <2>2, <2>3 DEF PageInv, Waiting
<1>6. QED
  BY <1>4, <1>5 DEF SettingsInv

(* The server accepts a write, which is then what is stored. *)
LEMMA AcceptSteps ==
  ASSUME StateTypes, PageInv, ~crossed, Accept
  PROVE  StateTypes' /\ SettingsInv'
<1>1. /\ InFlight /\ request.version = 0 /\ version < MaxVersion /\ expected = version
      /\ version' = version + 1 /\ request' = [request EXCEPT !.version = version + 1]
      /\ UNCHANGED <<seen, expected, local, committed, asked, replies, dialog,
                     unrefreshed, crossed>>
      /\ stored' = IF request.kind = "edit" THEN request.body
                   ELSE [stored EXCEPT !.public_results = request.value]
  BY DEF Accept
<1>2. version \in Nat /\ expected \in Nat /\ MaxVersion \in Nat
      /\ request \in Request /\ stored \in Settings /\ seen \in Settings
  BY BoundAssumption DEF StateTypes
<1>3. asked = 0 /\ replies = {}
  BY <1>1 DEF PageInv
<1>4. /\ request' \in Request /\ request'.kind = request.kind /\ request'.key = request.key
      /\ request'.value = request.value /\ request'.body = request.body
      /\ request'.version = version'
  BY <1>1, <1>2 DEF Request
<1>5. version' \in Nat /\ version' <= MaxVersion /\ version' > 0 /\ expected < version'
      /\ expected <= version'
  BY <1>1, <1>2
<1>6. CASE request.kind = "edit"
  <2>1. EditInv /\ stored' = request.body /\ seen = request.body
    BY <1>1, <1>6 DEF PageInv, EditInv
  <2>2. StateTypes'
    <3>1. stored' \in Settings /\ request'.version <= version' /\ replies' = {}
      BY <1>1, <1>2, <1>3, <1>4, <1>5, <2>1
    <3>2. QED
      BY <1>1, <1>3, <1>4, <1>5, <1>6, <3>1 DEF StateTypes
  <2>3. EditInv'
    BY <1>1, <1>4, <2>1 DEF EditInv
  <2>4. InFlight' /\ request'.kind = "edit"
    BY <1>4, <1>6 DEF InFlight
  <2>5. QED
    BY <1>1, <1>3, <2>2, <2>3, <2>4 DEF SettingsInv, PageInv, Waiting
<1>7. CASE request.kind = "public"
  <2>1. PublicInv /\ seen = stored /\ stored' = [stored EXCEPT !.public_results = request.value]
    BY <1>1, <1>7 DEF PageInv, PublicInv
  <2>2. request.value \in BOOLEAN
    BY <2>1 DEF PublicInv
  <2>3. StateTypes'
    <3>1. stored' \in Settings
      BY <1>2, <2>1, <2>2, ShownPublic
    <3>2. request'.version <= version' /\ replies' = {}
      BY <1>1, <1>3, <1>4, <1>5
    <3>3. QED
      BY <1>1, <1>3, <1>4, <1>5, <1>7, <3>1, <3>2 DEF StateTypes
  <2>4. PublicInv'
    BY <1>1, <1>4, <1>5, <2>1 DEF PublicInv
  <2>5. InFlight' /\ request'.kind = "public"
    BY <1>4, <1>7 DEF InFlight
  <2>6. QED
    BY <1>1, <1>3, <2>3, <2>4, <2>5 DEF SettingsInv, PageInv, Waiting
<1>8. QED
  BY <1>1, <1>2, <1>6, <1>7 DEF InFlight, Request

(* Nothing is sent. *)
LEMMA FreeFacts ==
  ASSUME request' = Free, dialog' = Closed, StateTypes
  PROVE  /\ request' \in Request /\ request'.kind = "none" /\ request'.version = 0
         /\ request'.kind = "none" => request' = Free'
         /\ dialog' \in [open : BOOLEAN, draft : Texts] /\ ~InFlight'
<1>1. Free \in Request /\ Free.kind = "none" /\ Free.version = 0
  BY DEF Free, Write, Request
<1>2. Closed \in [open : BOOLEAN, draft : Texts]
  <2>1. seen.text \in Texts
    BY DEF StateTypes, Settings
  <2>2. (CHOOSE t \in Texts : TRUE) \in Texts
    BY <2>1
  <2>3. QED
    BY <2>2 DEF Closed
<1>3. Free' = Free
  BY DEF Free, Write
<1>4. QED
  BY <1>1, <1>2, <1>3 DEF InFlight

LEMMA AnsweredSteps ==
  ASSUME StateTypes, PageInv, Answered
  PROVE  StateTypes' /\ SettingsInv'
<1>1. /\ request.version > 0 /\ request' = Free /\ dialog' = Closed
      /\ expected' = request.version
      /\ committed' = IF IsSwitch THEN [committed EXCEPT ![request.key] = request.value]
                      ELSE committed
      /\ asked' = IF request.kind = "public" THEN asked + 1 ELSE asked
      /\ UNCHANGED <<stored, version, seen, local, replies, unrefreshed, crossed>>
  BY DEF Answered, Ends
<1>2. /\ request \in Request /\ request.version <= version /\ version \in Nat /\ asked \in Nat
      /\ request.version \in Nat /\ seen \in Settings /\ stored \in Settings
      /\ committed \in [Switches -> BOOLEAN] /\ local \in [Switches -> BOOLEAN]
  BY DEF StateTypes, Request
<1>3. /\ request' \in Request /\ request'.kind = "none" /\ request'.version = 0
      /\ dialog' \in [open : BOOLEAN, draft : Texts] /\ ~InFlight'
      /\ request'.kind = "none" => request' = Free'
  BY <1>1, FreeFacts
<1>4. request.kind \in {"edit", "public"} /\ InFlight /\ asked = 0 /\ replies = {}
  <2>1. request.kind # "none"
    <3>1. Free.version = 0
      BY DEF Free, Write
    <3>2. QED
      BY <1>1, <1>2, <3>1 DEF StateTypes
  <2>2. QED
    BY <1>2, <2>1 DEF InFlight, Request, PageInv
<1>5. ASSUME committed' = local, local \in [Switches -> BOOLEAN], asked' \in Nat
      PROVE  StateTypes'
  <2>1. 0 <= version' /\ expected' <= version' /\ expected' \in Nat /\ replies' = {}
    BY <1>1, <1>2, <1>4
  <2>2. QED
    BY <1>1, <1>2, <1>3, <1>5, <2>1 DEF StateTypes
<1>6. CASE request.kind = "edit"
  <2>1. /\ stored = seen /\ request.version = version
        /\ local = Shown(seen) /\ committed = Shown(seen)
        /\ request.key \in Switches => request.value = seen[request.key]
    BY <1>1, <1>6 DEF PageInv, EditInv
  <2>2. committed' = local /\ asked' = 0
    BY <1>1, <1>2, <1>4, <1>6, <2>1, ShownType DEF IsSwitch
  <2>3. StateTypes'
    BY <1>2, <1>5, <2>2
  <2>4. ~Waiting' /\ RestInv'
    BY <1>1, <1>3, <1>4, <2>1, <2>2 DEF Waiting, RestInv
  <2>5. QED
    BY <1>1, <1>3, <1>4, <2>2, <2>3, <2>4 DEF SettingsInv, PageInv, Waiting
<1>7. CASE request.kind = "public"
  <2>1. /\ request.key = "public_results" /\ request.value \in BOOLEAN
        /\ request.value # seen.public_results /\ committed = Shown(seen)
        /\ local = [committed EXCEPT !["public_results"] = request.value]
        /\ stored = [seen EXCEPT !.public_results = request.value]
    BY <1>1, <1>7 DEF PageInv, PublicInv
  <2>2. committed' = local
    BY <1>1, <2>1 DEF IsSwitch, Switches
  <2>3. StateTypes'
    BY <1>1, <1>2, <1>5, <2>2
  <2>4. local = Shown(stored)
    BY <1>2, <2>1, ShownPublic
  <2>5. ReadInv'
    <3>1. \A k \in Switches : Shown(stored)[k] = stored[k]
      BY <1>2, ShownType
    <3>2. Shown(stored) \in [Switches -> BOOLEAN]
      BY <1>2, ShownType
    <3>3. Follow(local, stored) = Shown(stored)
      BY <2>4, <3>1, <3>2 DEF Follow
    <3>4. QED
      BY <1>1, <1>4, <3>3 DEF ReadInv, Follow
  <2>6. QED
    BY <1>1, <1>3, <1>4, <1>7, <2>2, <2>3, <2>5 DEF SettingsInv, PageInv, Waiting
<1>8. QED
  BY <1>4, <1>6, <1>7

(* A write is refused, or its answer is lost. *)
LEMMA FailedSteps ==
  ASSUME StateTypes, PageInv, Failed
  PROVE  StateTypes' /\ SettingsInv'
<1>1. /\ InFlight /\ request' = Free /\ dialog' = Closed
      /\ local' = IF IsSwitch THEN [local EXCEPT ![request.key] = committed[request.key]]
                  ELSE local
      /\ asked' = IF request.kind = "edit" THEN asked + 1 ELSE asked
      /\ UNCHANGED <<stored, version, seen, expected, committed, replies, unrefreshed, crossed>>
  BY DEF Failed, Ends
<1>2. /\ request \in Request /\ version \in Nat /\ asked \in Nat
      /\ seen \in Settings /\ stored \in Settings
      /\ committed \in [Switches -> BOOLEAN] /\ local \in [Switches -> BOOLEAN]
  BY DEF StateTypes
<1>3. /\ request' \in Request /\ request'.kind = "none" /\ request'.version = 0
      /\ dialog' \in [open : BOOLEAN, draft : Texts] /\ ~InFlight'
      /\ request'.kind = "none" => request' = Free'
  BY <1>1, FreeFacts
<1>4. request.kind \in {"edit", "public"} /\ asked = 0 /\ replies = {}
  BY <1>1, <1>2 DEF InFlight, Request, PageInv
<1>5. ASSUME local' = committed
      PROVE  StateTypes'
  <2>1. 0 <= version' /\ asked' \in Nat /\ replies' = {}
    BY <1>1, <1>2, <1>4
  <2>2. QED
    BY <1>1, <1>2, <1>3, <1>5, <2>1 DEF StateTypes
<1>6. CASE request.kind = "edit"
  <2>1. local = Shown(seen) /\ committed = Shown(seen)
    BY <1>6 DEF PageInv, EditInv
  <2>2. local' = committed /\ asked' = 1
    BY <1>1, <1>2, <1>4, <1>6, <2>1 DEF IsSwitch
  <2>3. StateTypes'
    BY <1>5, <2>2
  <2>4. ReadInv'
    <3>1. Follow(Shown(seen), stored) = Shown(stored)
      BY <1>2, FollowSeen
    <3>2. QED
      BY <1>1, <1>4, <2>1, <2>2, <3>1 DEF ReadInv, Follow
  <2>5. QED
    BY <1>1, <1>3, <1>4, <2>2, <2>3, <2>4 DEF SettingsInv, PageInv, Waiting
<1>7. CASE request.kind = "public"
  <2>1. /\ request.key = "public_results" /\ committed = Shown(seen)
        /\ local = [committed EXCEPT !["public_results"] = request.value]
        /\ request.version = 0 /\ expected = version => seen = stored
        /\ request.version > 0 => expected < version
    BY <1>7 DEF PageInv, PublicInv
  <2>2. local' = committed /\ asked' = 0
    BY <1>1, <1>2, <1>4, <1>7, <2>1 DEF IsSwitch, Switches
  <2>3. StateTypes'
    BY <1>5, <2>2
  <2>4. expected = version => seen = stored
    <3>1. request.version \in Nat /\ expected \in Nat /\ version \in Nat
      BY DEF StateTypes, Request
    <3>2. QED
      BY <2>1, <3>1
  <2>5. ~Waiting' /\ RestInv'
    BY <1>1, <1>3, <1>4, <2>1, <2>2, <2>4 DEF Waiting, RestInv
  <2>6. QED
    BY <1>1, <1>3, <1>4, <2>2, <2>3, <2>5 DEF SettingsInv, PageInv, Waiting
<1>8. QED
  BY <1>4, <1>6, <1>7

(* The readings. *)
LEMMA ServeSteps ==
  ASSUME StateTypes, PageInv, Serve
  PROVE  StateTypes' /\ SettingsInv'
<1> DEFINE reply == [settings |-> stored, version |-> version]
<1>1. /\ asked > 0 /\ asked' = asked - 1 /\ replies' = replies \cup {reply}
      /\ UNCHANGED <<stored, version, seen, expected, local, committed, request,
                     dialog, unrefreshed, crossed>>
  BY DEF Serve
<1>2. asked \in Nat /\ version \in Nat /\ stored \in Settings
  BY DEF StateTypes
<1>3. /\ reply.settings \in Settings /\ reply.version \in Nat /\ reply.version <= version
      /\ asked' \in Nat
  BY <1>1, <1>2
<1> HIDE DEF reply
<1>4. StateTypes'
  BY <1>1, <1>3 DEF StateTypes
<1>5. ~InFlight /\ ReadInv
  BY <1>1 DEF PageInv
<1>6. request.kind = "none" /\ ~InFlight' /\ request'.kind = "none"
  BY <1>1, <1>5 DEF InFlight
<1>7. ReadInv'
  BY <1>1, <1>5 DEF ReadInv, Follow, reply
<1>8. local' = committed'
  BY <1>1, <1>5 DEF PageInv
<1>9. Waiting'
  BY <1>1 DEF Waiting
<1>10. QED
  BY <1>4, <1>6, <1>7, <1>8, <1>9 DEF SettingsInv, PageInv

LEMMA GetFailsSteps ==
  ASSUME StateTypes, PageInv, GetFails
  PROVE  StateTypes' /\ SettingsInv'
<1>1. /\ asked > 0 /\ asked' = asked - 1 /\ unrefreshed' = TRUE
      /\ UNCHANGED <<stored, version, seen, expected, local, committed, request,
                     replies, dialog, crossed>>
  BY DEF GetFails
<1>2. asked \in Nat
  BY DEF StateTypes
<1>3. asked' \in Nat
  BY <1>1, <1>2
<1>4. StateTypes'
  BY <1>1, <1>3 DEF StateTypes
<1>5. QED
  BY <1>1, <1>4 DEF SettingsInv, Followed

LEMMA ArriveSteps ==
  ASSUME StateTypes, PageInv, NEW reply \in replies, Arrive(reply)
  PROVE  StateTypes' /\ SettingsInv'
<1>1. /\ replies' = replies \ {reply}
      /\ seen' = reply.settings /\ expected' = reply.version
      /\ local' = Follow(local, reply.settings) /\ committed' = Follow(committed, reply.settings)
      /\ UNCHANGED <<stored, version, request, asked, dialog, unrefreshed>>
  BY DEF Arrive
<1>2. ReadInv /\ reply = [settings |-> stored, version |-> version]
  BY DEF PageInv, ReadInv
<1>3. ~InFlight /\ request.kind = "none" /\ local = committed
  BY DEF PageInv, InFlight
<1>4. reply.settings = stored /\ reply.version = version
  BY <1>2
<1>5. local' = Shown(stored) /\ committed' = Shown(stored)
  BY <1>1, <1>2, <1>3, <1>4 DEF ReadInv
<1>6. /\ stored \in Settings /\ Shown(stored) \in [Switches -> BOOLEAN]
      /\ version \in Nat /\ version <= version
  <2>1. version \in Nat
    BY DEF StateTypes
  <2>2. QED
    BY <2>1, ShownType DEF StateTypes
<1>7. StateTypes'
  <2>1. \A r \in replies' : r.settings \in Settings /\ r.version \in Nat /\ r.version <= version'
    BY <1>1 DEF StateTypes
  <2>2. seen' \in Settings /\ expected' \in Nat /\ expected' <= version'
    BY <1>1, <1>4, <1>6
  <2>3. QED
    BY <1>1, <1>5, <1>6, <2>1, <2>2 DEF StateTypes
<1>8. ~InFlight' /\ request'.kind = "none" /\ local' = committed'
  BY <1>1, <1>3, <1>5 DEF InFlight
<1>9. seen' = stored'
  BY <1>1, <1>4
<1>10. RestInv'
  BY <1>1, <1>5, <1>9 DEF RestInv
<1>11. ReadInv'
  <2>1. Follow(Shown(seen), stored)' = Shown(stored)'
    <3>1. seen' \in Settings /\ stored' \in Settings
      BY <1>1, <1>6, <1>9
    <3>2. \A k \in Switches : stored'[k] = seen'[k] /\ Shown(stored)'[k] = stored'[k]
      BY <1>9, <3>1, ShownType DEF Shown
    <3>3. QED
      BY <1>9, <3>2 DEF Follow, Shown
  <2>2. local' = Shown(seen)'
    BY <1>1, <1>5, <1>9 DEF Shown
  <2>3. replies' \subseteq {[settings |-> stored', version |-> version']}
    BY <1>1, <1>2 DEF ReadInv
  <2>4. QED
    BY <2>1, <2>2, <2>3 DEF ReadInv, Follow
<1>12. QED
  BY <1>7, <1>8, <1>10, <1>11 DEF SettingsInv, PageInv
-----------------------------------------------------------------------------
(* The theorems. *)
LEMMA SettingsStep ==
  ASSUME StateTypes, SettingsInv, SettingsNext
  PROVE  StateTypes' /\ SettingsInv'
<1>1. PageInv /\ Step /\ ~crossed
  BY DEF SettingsNext, SettingsInv, Followed
<1>2. ASSUME NEW s \in Settings, Elsewhere(s) PROVE StateTypes' /\ SettingsInv'
  BY <1>1, <1>2, ElsewhereSteps
<1>3. ASSUME NEW k \in Switches, Flip(k) PROVE StateTypes' /\ SettingsInv'
  BY <1>1, <1>3, FlipSteps
<1>4. CASE (\E t \in Texts : Choose(t)) \/ SaveDialog
  BY <1>1, <1>4, TextSteps
<1>5. CASE OpenDialog \/ (\E t \in Texts : TypeDraft(t)) \/ CloseDialog
  BY <1>1, <1>5, DialogSteps
<1>6. CASE Accept
  BY <1>1, <1>6, AcceptSteps
<1>7. CASE Answered \/ Failed \/ Serve \/ GetFails
  BY <1>1, <1>7, AnsweredSteps, FailedSteps, ServeSteps, GetFailsSteps
<1>8. ASSUME NEW r \in replies, Arrive(r) PROVE StateTypes' /\ SettingsInv'
  BY <1>1, <1>8, ArriveSteps
<1>9. QED
  BY <1>1, <1>2, <1>3, <1>4, <1>5, <1>6, <1>7, <1>8 DEF Step

(* The types, and the inductive invariant, hold of every behaviour. *)
THEOREM SettingsInvariant ==
  SettingsSpec => [](StateTypes /\ SettingsInv)
<1>1. SettingsInit => StateTypes /\ SettingsInv
  <2> SUFFICES ASSUME SettingsInit PROVE StateTypes /\ SettingsInv
    OBVIOUS
  <2>1. /\ stored \in Settings /\ seen = stored /\ version = 0 /\ expected = 0
        /\ local = Shown(stored) /\ committed = Shown(stored) /\ asked = 0 /\ replies = {}
        /\ request = Free /\ dialog = Closed
    BY DEF SettingsInit
  <2>2. Free \in Request /\ Free.kind = "none" /\ Free.version = 0
    BY DEF Free, Write, Request
  <2>3. Closed \in [open : BOOLEAN, draft : Texts]
    <3>1. stored.text \in Texts
      BY <2>1 DEF Settings
    <3>2. (CHOOSE t \in Texts : TRUE) \in Texts
      BY <3>1
    <3>3. QED
      BY <3>2 DEF Closed
  <2>4. StateTypes
    BY <2>1, <2>2, <2>3, ShownType, BoundAssumption DEF StateTypes
  <2>5. PageInv
    BY <2>1, <2>2 DEF PageInv, InFlight, Waiting, RestInv
  <2>6. QED
    BY <2>4, <2>5 DEF SettingsInv
<1>2. StateTypes /\ SettingsInv /\ [SettingsNext]_settingsVars => StateTypes' /\ SettingsInv'
  <2>1. CASE StateTypes /\ SettingsInv /\ UNCHANGED settingsVars
    <3>1. /\ UNCHANGED <<stored, version, seen, expected, local, committed, request>>
          /\ UNCHANGED <<asked, replies, dialog, unrefreshed, crossed>>
      BY <2>1 DEF settingsVars
    <3>2. StateTypes'
      BY <2>1, <3>1 DEF StateTypes
    <3>3. SettingsInv'
      BY <2>1, <3>1 DEF SettingsInv, Followed, PageInv, InFlight, Waiting, RestInv, ReadInv,
                        Follow, EditInv, PublicInv
    <3>4. QED
      BY <3>2, <3>3
  <2>2. CASE SettingsNext
    BY <2>2, SettingsStep
  <2>3. QED
    BY <2>1, <2>2
<1>3. QED
  BY <1>1, <1>2, PTL DEF SettingsSpec

(* The settings, their versions and the switches have their types. *)
THEOREM SettingsTypeCorrect ==
  SettingsSpec => []SettingsTypeOK
<1>1. StateTypes => SettingsTypeOK
  BY BoundAssumption DEF StateTypes, SettingsTypeOK
<1>2. QED
  BY <1>1, SettingsInvariant, PTL

(* A page whose next write would be accepted shows what it would overwrite:  *)
(* for any settings and any number of changes by others, wherever the writes, *)
(* their answers and the readings are (useOptimisticToggle.ts).              *)
THEOREM PageShowsStored ==
  SettingsSpec => []ShowsWhatItOverwrites
<1>1. StateTypes /\ SettingsInv => ShowsWhatItOverwrites
  <2> SUFFICES ASSUME PageInv, ~Waiting, expected = version
               PROVE  seen = stored /\ local = Shown(stored)
    BY DEF SettingsInv, Followed, ShowsWhatItOverwrites
  <2>1. QED
    BY DEF PageInv, RestInv
<1>2. QED
  BY <1>1, SettingsInvariant, PTL
-----------------------------------------------------------------------------
(* DetailsForm.                                                              *)
(* Times and details of an election: an end is not at the start of the clock.*)
IsTime(t) == t = Instant(t.at, t.entered) /\ t.at \in Nat /\ t.entered \in BOOLEAN
IsEnd(t) == IsTime(t) /\ (t.at = 0 => t = NoTime)
IsElected(d) ==
  d = DetailsOf(d.title, d.start, d.end) /\ IsTime(d.start) /\ IsEnd(d.end)
IsPanel(p) ==
  /\ p = [open |-> p.open, enabled |-> p.enabled, start |-> p.start, end |-> p.end]
  /\ p.open \in BOOLEAN /\ IsTime(p.start) /\ IsEnd(p.end)
IsPost(p) ==
  p = [details |-> p.details, version |-> p.version] /\ p.version \in Nat /\ IsElected(p.details)
DetailsTypes ==
  /\ clock \in Nat /\ newest \in Nat /\ tracked \in Nat /\ tracked <= newest
  /\ IsElected(schedule) /\ IsElected(tabHolds) /\ IsElected(copy) /\ IsElected(known)
  /\ IsPanel(panel) /\ IsPost(post) /\ post.version <= newest
  /\ changed \subseteq Fields /\ stale \in BOOLEAN

(* What the page has read last is stored, if it tracks the version stored.   *)
ReadIsStored ==
  /\ schedule = AsRead(schedule) /\ known = AsRead(known)
  /\ tracked = newest => schedule = known
(* What is posted is what the page holds, and stored when it was taken; until*)
(* then it is what the form holds, which is shown and checked.               *)
PostIsHeld ==
  BeingPosted =>
    /\ post.details = tabHolds
    /\ post.version > 0 /\ post.version = newest => schedule = AsRead(tabHolds)
    /\ post.version = 0 =>
         /\ post.details = copy /\ panel.open
         /\ copy.end # NoTime => ~EndBeforeStart(copy.start, copy.end)
(* The form differs from what was read only where it was changed, unless it  *)
(* was opened on something else.                                             *)
FormIsRead ==
  panel.open /\ ~stale => \A f \in Fields \ changed : AsRead(copy)[f] = known[f]
DetailsInv == DetailsTypes /\ ReadIsStored /\ PostIsHeld /\ FormIsRead

(* What a time holds; one that is not undefined may be an end.               *)
LEMMA TimesAre ==
  /\ \A n \in Nat, b \in BOOLEAN :
       /\ IsTime(Instant(n, b)) /\ Instant(n, b).at = n /\ Instant(n, b).entered = b
       /\ n # 0 \/ ~b => IsEnd(Instant(n, b))
  /\ NoTime = Instant(0, FALSE) /\ IsTime(NoTime) /\ IsEnd(NoTime)
  /\ NoTime.at = 0 /\ NoTime.entered = FALSE
<1>1. NoTime = Instant(0, FALSE)
  BY DEF NoTime, Instant
<1>2. \A n \in Nat, b \in BOOLEAN :
        IsTime(Instant(n, b)) /\ Instant(n, b).at = n /\ Instant(n, b).entered = b
  BY DEF IsTime, Instant
<1>3. \A n \in Nat, b \in BOOLEAN : n # 0 \/ ~b => IsEnd(Instant(n, b))
  <2>1. TAKE n \in Nat, b \in BOOLEAN
  <2>2. n = 0 /\ ~b => Instant(n, b) = NoTime
    BY <1>1
  <2>3. QED
    BY <1>2, <2>2 DEF IsEnd
<1>4. QED
  BY <1>1, <1>2, <1>3

(* Times that are read are strings.                                          *)
LEMMA ReadTimes ==
  ASSUME NEW n \in Nat
  PROVE  /\ IsTime(Instant(n, FALSE)) /\ IsEnd(Instant(n, FALSE))
         /\ Instant(n, FALSE).at = n /\ Instant(n, FALSE).entered = FALSE
BY TimesAre

(* What the details of an election hold.                                     *)
LEMMA DetailsAre ==
  ASSUME NEW title, NEW start, NEW end
  PROVE  /\ DetailsOf(title, start, end).title = title
         /\ DetailsOf(title, start, end).start = start
         /\ DetailsOf(title, start, end).end = end
         /\ IsTime(start) /\ IsEnd(end) => IsElected(DetailsOf(title, start, end))
         /\ DetailsOf(title, start, end)["title"] = title
         /\ DetailsOf(title, start, end)["start"] = start
         /\ DetailsOf(title, start, end)["end"] = end
BY DEF DetailsOf, IsElected

(* Reading turns times into strings, which stay as they are.                 *)
LEMMA AsReadTwice ==
  ASSUME NEW d, IsElected(d)
  PROVE  /\ AsRead(d) = DetailsOf(d.title, Instant(d.start.at, FALSE), Instant(d.end.at, FALSE))
         /\ AsRead(d).start = Instant(d.start.at, FALSE)
         /\ AsRead(d).end = Instant(d.end.at, FALSE)
         /\ IsElected(AsRead(d)) /\ AsRead(AsRead(d)) = AsRead(d)
<1> DEFINE start == Instant(d.start.at, FALSE)
           end == Instant(d.end.at, FALSE)
<1>1. d.start.at \in Nat /\ d.end.at \in Nat
  BY DEF IsElected, IsEnd, IsTime
<1>2. IsTime(start) /\ IsEnd(end) /\ start.at = d.start.at /\ end.at = d.end.at
  BY <1>1, TimesAre
<1>3. AsRead(d) = DetailsOf(d.title, start, end)
  BY DEF AsRead
<1> HIDE DEF start, end
<1>4. /\ AsRead(d).title = d.title /\ AsRead(d).start = start /\ AsRead(d).end = end
      /\ IsElected(AsRead(d))
  BY <1>2, <1>3, DetailsAre
<1>5. AsRead(AsRead(d)) = DetailsOf(AsRead(d).title, Instant(AsRead(d).start.at, FALSE),
                                    Instant(AsRead(d).end.at, FALSE))
  BY DEF AsRead
<1>6. AsRead(AsRead(d)) = DetailsOf(d.title, start, end)
  BY <1>2, <1>4, <1>5 DEF start, end
<1>7. QED
  BY <1>3, <1>4, <1>6 DEF start, end

(* Elections that come from a server have times that are strings.            *)
LEMMA ValidRead ==
  ASSUME NEW d \in Valid
  PROVE  IsElected(d) /\ d = AsRead(d)
<1>1. \A t \in Instants : IsTime(t) /\ IsEnd(t) /\ Instant(t.at, FALSE) = t
  <2>1. TAKE t \in Instants
  <2>2. PICK at \in 1..MaxClock : t = Instant(at, FALSE)
    BY DEF Instants
  <2>3. at \in Nat /\ at # 0
    OBVIOUS
  <2>4. QED
    BY <2>2, <2>3, TimesAre
<1>2. ASSUME NEW title, NEW start, NEW end, d = DetailsOf(title, start, end),
             IsTime(start), IsEnd(end), Instant(start.at, FALSE) = start,
             Instant(end.at, FALSE) = end
      PROVE  IsElected(d) /\ d = AsRead(d)
  <2>1. IsElected(d) /\ d.title = title /\ d.start = start /\ d.end = end
    BY <1>2, DetailsAre
  <2>2. QED
    BY <1>2, <2>1, AsReadTwice
<1>3. CASE d \in {DetailsOf(title, NoTime, NoTime) : title \in GivenTitles}
  <2>1. PICK title \in GivenTitles : d = DetailsOf(title, NoTime, NoTime)
    BY <1>3
  <2>2. IsTime(NoTime) /\ IsEnd(NoTime) /\ Instant(NoTime.at, FALSE) = NoTime
    BY TimesAre
  <2>3. QED
    BY <1>2, <2>1, <2>2
<1>4. CASE d \in {DetailsOf(title, start, end) :
                    title \in GivenTitles, start \in Instants, end \in Instants}
  <2>1. PICK title \in GivenTitles, start \in Instants, end \in Instants :
          d = DetailsOf(title, start, end)
    BY <1>4
  <2>2. /\ IsTime(start) /\ Instant(start.at, FALSE) = start
        /\ IsEnd(end) /\ Instant(end.at, FALSE) = end
    BY <1>1
  <2>3. QED
    BY <1>2, <2>1, <2>2
<1>5. QED
  BY <1>3, <1>4 DEF Valid

(* The page starts with what is stored.                                      *)
LEMMA DetailsStart == DetailsInit => DetailsInv
<1> SUFFICES ASSUME DetailsInit PROVE DetailsInv
  OBVIOUS
<1>1. IsElected(schedule) /\ schedule = AsRead(schedule)
  BY ValidRead DEF DetailsInit
<1>3. IsPanel(panel) /\ ~panel.open
  BY TimesAre DEF DetailsInit, IsPanel
<1>4. post = NoPost /\ IsPost(post) /\ post.version = 0
  BY TimesAre, DetailsAre DEF DetailsInit, NoPost, IsPost
<1>2. clock = 0 /\ newest = 0 /\ tracked = 0 /\ changed = {} /\ stale = FALSE
      /\ tabHolds = schedule /\ copy = schedule /\ known = schedule
  BY DEF DetailsInit
<1>5. DetailsTypes
  <2>1. IsElected(schedule) /\ IsElected(tabHolds) /\ IsElected(copy) /\ IsElected(known)
    BY <1>1, <1>2
  <2>2. /\ changed \subseteq Fields /\ clock \in Nat /\ newest \in Nat
        /\ tracked \in Nat /\ tracked <= newest /\ post.version <= newest
    BY <1>2, <1>4, SMT
  <2>4. stale \in BOOLEAN
    BY <1>2, Zenon
  <2>3. QED
    BY <1>3, <1>4, <2>1, <2>2, <2>4 DEF DetailsTypes
<1>6. ReadIsStored /\ PostIsHeld /\ FormIsRead
  BY <1>1, <1>3, <1>4 DEF DetailsInit, ReadIsStored, PostIsHeld, FormIsRead, BeingPosted
<1>7. QED
  BY <1>5, <1>6 DEF DetailsInv

(* The page reads the election again, *)
LEMMA RefreshDetails == DetailsInv /\ Refresh => DetailsInv'
<1> SUFFICES ASSUME DetailsInv, Refresh PROVE DetailsInv'
  OBVIOUS
<1>1. DetailsTypes'
  BY DEF DetailsInv, DetailsTypes, Refresh, ReadIsStored
<1>2. ReadIsStored'
  BY DEF DetailsInv, ReadIsStored, Refresh, AsRead
<1>3. PostIsHeld'
  BY DEF Refresh, PostIsHeld, BeingPosted
<1>4. FormIsRead'
  BY DEF DetailsInv, Refresh, FormIsRead, AsRead
<1>5. QED
  BY <1>1, <1>2, <1>3, <1>4 DEF DetailsInv

(* another administrator edits it,                                           *)
LEMMA ElsewhereDetails ==
  ASSUME DetailsInv, NEW d \in Valid, EditedElsewhere(d)
  PROVE  DetailsInv'
<1>1. IsElected(d) /\ d = AsRead(d)
  BY ValidRead
<1>7. /\ newest \in Nat /\ tracked \in Nat /\ tracked <= newest
      /\ post.version \in Nat /\ post.version <= newest
      /\ newest' = newest + 1 /\ schedule' = d
      /\ UNCHANGED <<clock, tabHolds, tracked, copy, panel, post, changed, known, stale>>
  BY DEF DetailsInv, DetailsTypes, IsPost, EditedElsewhere
<1>8. newest' \in Nat /\ tracked <= newest' /\ tracked # newest' /\ post.version <= newest'
  BY <1>7
<1>2. DetailsTypes'
  BY <1>1, <1>7, <1>8 DEF DetailsInv, DetailsTypes
<1>3. ReadIsStored'
  BY <1>1, <1>7, <1>8 DEF DetailsInv, ReadIsStored
<1>4. PostIsHeld'
  BY <1>7 DEF DetailsInv, PostIsHeld, BeingPosted, EndBeforeStart
<1>5. FormIsRead'
  BY DEF DetailsInv, EditedElsewhere, FormIsRead, AsRead
<1>6. QED
  BY <1>2, <1>3, <1>4, <1>5 DEF DetailsInv

(* the form is opened or hidden,                                             *)
LEMMA OpenDetails == DetailsInv /\ (OpenForm \/ Cancel) => DetailsInv'
<1> SUFFICES ASSUME DetailsInv, OpenForm \/ Cancel PROVE DetailsInv'
  OBVIOUS
<1>1. CASE OpenForm
  <2>1. IsTime(copy.start) /\ IsEnd(copy.end) /\ clock \in Nat /\ clock + 1 \in Nat \ {0}
    BY DEF DetailsInv, DetailsTypes, IsElected
  <2>2. IsTime(Default(copy.start, clock)) /\ IsEnd(Default(copy.end, clock + 1))
    BY <2>1, TimesAre DEF Default
  <2>3. IsPanel(panel')
    <3> DEFINE start == Default(copy.start, clock)
               end == Default(copy.end, clock + 1)
               enabled == copy.start # NoTime \/ copy.end # NoTime
    <3>1. panel' = [open |-> TRUE, enabled |-> enabled, start |-> start, end |-> end]
      BY <1>1 DEF OpenForm
    <3> HIDE DEF start, end, enabled
    <3>2. QED
      BY <2>2, <3>1 DEF IsPanel, start, end
  <2>4. DetailsTypes'
    BY <1>1, <2>3 DEF DetailsInv, DetailsTypes, OpenForm
  <2>5. ReadIsStored'
    BY <1>1 DEF DetailsInv, ReadIsStored, OpenForm, AsRead
  <2>6. PostIsHeld'
    BY <1>1 DEF OpenForm, PostIsHeld, BeingPosted
  <2>7. FormIsRead'
    BY <1>1 DEF OpenForm, FormIsRead, AsRead
  <2>8. QED
    BY <2>4, <2>5, <2>6, <2>7 DEF DetailsInv
<1>2. CASE Cancel
  <2>1. IsPanel(panel') /\ ~panel'.open
    BY <1>2 DEF DetailsInv, DetailsTypes, IsPanel, Cancel
  <2>5. DetailsTypes'
    BY <1>2, <2>1 DEF DetailsInv, DetailsTypes, Cancel
  <2>2. ReadIsStored'
    BY <1>2 DEF DetailsInv, ReadIsStored, Cancel, AsRead
  <2>3. PostIsHeld' /\ FormIsRead'
    BY <1>2, <2>1 DEF Cancel, PostIsHeld, BeingPosted, FormIsRead
  <2>4. QED
    BY <2>2, <2>3, <2>5 DEF DetailsInv
<1>3. QED
  BY <1>1, <1>2

(* or changes some fields of its copy,                                       *)
LEMMA UpdateDetails ==
  ASSUME DetailsInv, NEW fields \in SUBSET Fields, NEW d, IsElected(d),
         ApplyUpdate(fields, d),
         \A f \in Fields \ fields : AsRead(d)[f] = AsRead(copy)[f],
         IsPanel(panel'),
         panel'.open = panel.open
  PROVE  DetailsInv'
<1>1. DetailsTypes'
  BY DEF DetailsInv, DetailsTypes, ApplyUpdate
<1>2. ReadIsStored'
  BY DEF DetailsInv, ReadIsStored, ApplyUpdate, AsRead
<1>3. PostIsHeld'
  BY DEF ApplyUpdate, PostIsHeld, BeingPosted
<1>4. FormIsRead'
  <2>1. AsRead(copy)' = AsRead(d)
    BY DEF ApplyUpdate, AsRead
  <2>2. QED
    BY <2>1 DEF DetailsInv, FormIsRead, ApplyUpdate
<1>5. QED
  BY <1>1, <1>2, <1>3, <1>4 DEF DetailsInv

(* by typing a title, enabling the times or entering one,                    *)
LEMMA EditDetails ==
  ASSUME DetailsInv,
         \/ \E title \in Titles : TypeTitle(title)
         \/ \E on \in BOOLEAN : EnableTimes(on)
         \/ \E field \in {"start", "end"}, at \in 0..MaxClock :
              EnterTime(field, IF at = 0 THEN NoTime ELSE Instant(at, TRUE))
  PROVE  DetailsInv'
<1>1. IsElected(copy) /\ IsTime(copy.start) /\ IsEnd(copy.end)
      /\ copy = [title |-> copy.title, start |-> copy.start, end |-> copy.end]
  BY DEF DetailsInv, DetailsTypes, IsElected, DetailsOf
<1>2. IsPanel(panel) /\ IsTime(panel.start) /\ IsEnd(panel.end)
      /\ panel = [open |-> panel.open, enabled |-> panel.enabled, start |-> panel.start,
                  end |-> panel.end]
  BY DEF DetailsInv, DetailsTypes, IsPanel
<1>3. ASSUME NEW title, NEW start, NEW end, IsTime(start), IsEnd(end),
             NEW d, d = [title |-> title, start |-> start, end |-> end]
      PROVE  /\ IsElected(d)
             /\ copy.title = title => AsRead(d)["title"] = AsRead(copy)["title"]
             /\ copy.start = start => AsRead(d)["start"] = AsRead(copy)["start"]
             /\ copy.end = end => AsRead(d)["end"] = AsRead(copy)["end"]
  <2>1. d = DetailsOf(title, start, end)
    BY <1>3 DEF DetailsOf
  <2>2. IsElected(d) /\ d.title = title /\ d.start = start /\ d.end = end
    BY <1>3, <2>1, DetailsAre
  <2>3. /\ AsRead(d) = DetailsOf(title, Instant(start.at, FALSE), Instant(end.at, FALSE))
        /\ AsRead(copy) = DetailsOf(copy.title, Instant(copy.start.at, FALSE),
                                    Instant(copy.end.at, FALSE))
    BY <1>1, <2>2, AsReadTwice
  <2>4. /\ AsRead(d)["title"] = title /\ AsRead(copy)["title"] = copy.title
        /\ AsRead(d)["start"] = Instant(start.at, FALSE)
        /\ AsRead(copy)["start"] = Instant(copy.start.at, FALSE)
        /\ AsRead(d)["end"] = Instant(end.at, FALSE)
        /\ AsRead(copy)["end"] = Instant(copy.end.at, FALSE)
    BY <2>3 DEF DetailsOf
  <2>5. QED
    BY <2>2, <2>4
<1>4. ASSUME NEW title \in Titles, TypeTitle(title) PROVE DetailsInv'
  <2> DEFINE d == [title |-> title, start |-> copy.start, end |-> copy.end]
  <2>1. [copy EXCEPT !.title = title] = d
    BY <1>1
  <2>2. ApplyUpdate({"title"}, d) /\ panel' = panel
    BY <1>4, <2>1 DEF TypeTitle
  <2> HIDE DEF d
  <2>3. IsElected(d) /\ AsRead(d)["start"] = AsRead(copy)["start"]
        /\ AsRead(d)["end"] = AsRead(copy)["end"]
    BY <1>1, <1>3 DEF d
  <2>4. {"title"} \in SUBSET Fields /\ \A f \in Fields \ {"title"} : AsRead(d)[f] = AsRead(copy)[f]
    BY <2>3 DEF Fields
  <2>5. QED
    BY <1>2, <2>2, <2>3, <2>4, UpdateDetails
<1>5. ASSUME NEW on \in BOOLEAN, EnableTimes(on) PROVE DetailsInv'
  <2> DEFINE start == IF on THEN panel.start ELSE NoTime
             end == IF on THEN panel.end ELSE NoTime
             d == [title |-> copy.title, start |-> start, end |-> end]
  <2>1. IsTime(start) /\ IsEnd(end)
    BY <1>2, TimesAre
  <2>2. ApplyUpdate({"start", "end"}, [copy EXCEPT !.start = start, !.end = end])
        /\ panel' = [panel EXCEPT !.enabled = on]
    BY <1>5 DEF EnableTimes
  <2> HIDE DEF start, end
  <2>3. [copy EXCEPT !.start = start, !.end = end] = d
    <3>1. [copy EXCEPT !.start = start, !.end = end]
            = [[copy EXCEPT !.start = start] EXCEPT !.end = end]
      OBVIOUS
    <3>2. [copy EXCEPT !.start = start]
            = [title |-> copy.title, start |-> start, end |-> copy.end]
      BY <1>1
    <3>3. [[title |-> copy.title, start |-> start, end |-> copy.end] EXCEPT !.end = end] = d
      OBVIOUS
    <3>4. QED
      BY <3>1, <3>2, <3>3, Zenon
  <2>4. ApplyUpdate({"start", "end"}, d)
    BY <2>2, <2>3
  <2> HIDE DEF d
  <2>5. IsElected(d) /\ AsRead(d)["title"] = AsRead(copy)["title"]
    BY <1>3, <2>1 DEF d
  <2>6. /\ {"start", "end"} \in SUBSET Fields
        /\ \A f \in Fields \ {"start", "end"} : AsRead(d)[f] = AsRead(copy)[f]
    BY <2>5 DEF Fields
  <2>7. panel' = [open |-> panel.open, enabled |-> on, start |-> panel.start, end |-> panel.end]
    BY <1>2, <2>2
  <2>8. IsPanel(panel') /\ panel'.open = panel.open
    BY <1>2, <2>7 DEF IsPanel
  <2>9. QED
    BY <2>4, <2>5, <2>6, <2>8, UpdateDetails
<1>6. ASSUME NEW field \in {"start", "end"}, NEW at \in 0..MaxClock,
             EnterTime(field, IF at = 0 THEN NoTime ELSE Instant(at, TRUE))
      PROVE  DetailsInv'
  <2> DEFINE time == IF at = 0 THEN NoTime ELSE Instant(at, TRUE)
  <2>1. IsTime(time) /\ IsEnd(time)
    <3>1. at \in Nat
      OBVIOUS
    <3>2. QED
      BY <3>1, TimesAre
  <2>2. /\ ApplyUpdate({field}, [copy EXCEPT ![field] = time])
        /\ panel' = IF time = NoTime THEN panel ELSE [panel EXCEPT ![field] = time]
    BY <1>6 DEF EnterTime
  <2> HIDE DEF time
  <2>3. CASE field = "start"
    <3> DEFINE d == [title |-> copy.title, start |-> time, end |-> copy.end]
    <3>1. [copy EXCEPT !.start = time] = d
      BY <1>1
    <3>2. ApplyUpdate({"start"}, d)
      BY <2>2, <2>3, <3>1
    <3> HIDE DEF d
    <3>3. IsElected(d) /\ AsRead(d)["title"] = AsRead(copy)["title"]
          /\ AsRead(d)["end"] = AsRead(copy)["end"]
      BY <1>1, <1>3, <2>1 DEF d
    <3>4. {"start"} \in SUBSET Fields /\ \A f \in Fields \ {"start"} : AsRead(d)[f] = AsRead(copy)[f]
      BY <3>3 DEF Fields
    <3>5. [panel EXCEPT !.start = time]
            = [open |-> panel.open, enabled |-> panel.enabled, start |-> time, end |-> panel.end]
      BY <1>2
    <3>6. IsPanel([panel EXCEPT !.start = time]) /\ [panel EXCEPT !.start = time].open = panel.open
      BY <1>2, <2>1, <3>5 DEF IsPanel
    <3>7. IsPanel(panel') /\ panel'.open = panel.open
      BY <1>2, <2>2, <2>3, <3>6
    <3>8. QED
      BY <3>2, <3>3, <3>4, <3>7, UpdateDetails
  <2>4. CASE field = "end"
    <3> DEFINE d == [title |-> copy.title, start |-> copy.start, end |-> time]
    <3>1. [copy EXCEPT !.end = time] = d
      BY <1>1
    <3>2. ApplyUpdate({"end"}, d)
      BY <2>2, <2>4, <3>1
    <3> HIDE DEF d
    <3>3. IsElected(d) /\ AsRead(d)["title"] = AsRead(copy)["title"]
          /\ AsRead(d)["start"] = AsRead(copy)["start"]
      BY <1>1, <1>3, <2>1 DEF d
    <3>4. {"end"} \in SUBSET Fields /\ \A f \in Fields \ {"end"} : AsRead(d)[f] = AsRead(copy)[f]
      BY <3>3 DEF Fields
    <3>5. [panel EXCEPT !.end = time]
            = [open |-> panel.open, enabled |-> panel.enabled, start |-> panel.start, end |-> time]
      BY <1>2
    <3>6. IsPanel([panel EXCEPT !.end = time]) /\ [panel EXCEPT !.end = time].open = panel.open
      BY <1>2, <2>1, <3>5 DEF IsPanel
    <3>7. IsPanel(panel') /\ panel'.open = panel.open
      BY <1>2, <2>2, <2>4, <3>6
    <3>8. QED
      BY <3>2, <3>3, <3>4, <3>7, UpdateDetails
  <2>5. QED
    BY <2>3, <2>4
<1>7. QED
  BY <1>4, <1>5, <1>6

(* saves what it holds,                                                      *)
LEMMA SaveDetails == DetailsInv /\ Save => DetailsInv'
<1> SUFFICES ASSUME DetailsInv, Save PROVE DetailsInv'
  OBVIOUS
<1>1. /\ IsElected(copy) /\ IsElected(tabHolds)
      /\ copy = [title |-> copy.title, start |-> copy.start, end |-> copy.end]
      /\ tabHolds = [title |-> tabHolds.title, start |-> tabHolds.start, end |-> tabHolds.end]
  BY DEF DetailsInv, DetailsTypes, IsElected, DetailsOf
<1>2. Update(tabHolds) = copy
  <2>1. Update(tabHolds)
          = [[[tabHolds EXCEPT !.title = copy.title] EXCEPT !.start = copy.start] EXCEPT !.end = copy.end]
    BY DEF Update
  <2>2. [tabHolds EXCEPT !.title = copy.title]
          = [title |-> copy.title, start |-> tabHolds.start, end |-> tabHolds.end]
    BY <1>1
  <2>3. [[title |-> copy.title, start |-> tabHolds.start, end |-> tabHolds.end]
           EXCEPT !.start = copy.start]
          = [title |-> copy.title, start |-> copy.start, end |-> tabHolds.end]
    OBVIOUS
  <2>4. [[title |-> copy.title, start |-> copy.start, end |-> tabHolds.end]
           EXCEPT !.end = copy.end]
          = [title |-> copy.title, start |-> copy.start, end |-> copy.end]
    OBVIOUS
  <2>5. QED
    BY <1>1, <2>1, <2>2, <2>3, <2>4, Zenon
<1>3. tabHolds' = copy /\ post' = [details |-> copy, version |-> 0]
  BY <1>2 DEF Save
<1>4. DetailsTypes'
  <2>1. IsPost(post') /\ post'.version = 0
    BY <1>1, <1>3 DEF IsPost
  <2>2. QED
    BY <1>1, <1>3, <2>1 DEF DetailsInv, DetailsTypes, Save
<1>5. ReadIsStored'
  BY DEF DetailsInv, ReadIsStored, Save, AsRead
<1>6. PostIsHeld'
  <2>1. post'.details = tabHolds' /\ post'.version = 0 /\ copy' = copy /\ panel' = panel
        /\ panel.open
    BY <1>3 DEF Save
  <2>2. (copy.end # NoTime => ~EndBeforeStart(copy.start, copy.end))'
    BY <2>1 DEF Save, ValidPage, EndBeforeStart
  <2>3. QED
    BY <1>3, <2>1, <2>2 DEF PostIsHeld
<1>7. FormIsRead'
  BY DEF DetailsInv, FormIsRead, Save, AsRead
<1>8. QED
  BY <1>4, <1>5, <1>6, <1>7 DEF DetailsInv

(* and the save is taken, *)
LEMMA AcceptedDetails == DetailsInv /\ AcceptDetails => DetailsInv'
<1> SUFFICES ASSUME DetailsInv, AcceptDetails PROVE DetailsInv'
  OBVIOUS
<1>1. /\ IsElected(post.details)
      /\ post = [details |-> post.details, version |-> post.version]
      /\ newest \in Nat /\ tracked = newest
  BY DEF DetailsInv, DetailsTypes, IsPost, AcceptDetails
<1>2. post' = [details |-> post.details, version |-> newest + 1]
  BY <1>1 DEF AcceptDetails
<1>3. IsElected(schedule') /\ schedule' = AsRead(post.details) /\ AsRead(schedule') = schedule'
  BY <1>1, AsReadTwice DEF AcceptDetails
<1>4. post.details = tabHolds
  BY DEF DetailsInv, PostIsHeld, AcceptDetails
<1>5. DetailsTypes'
  <2>1. IsPost(post') /\ post'.version = newest'
    BY <1>1, <1>2 DEF IsPost, AcceptDetails
  <2>2. QED
    BY <1>1, <1>3, <2>1 DEF DetailsInv, DetailsTypes, AcceptDetails
<1>6. ReadIsStored'
  <2>1. tracked' # newest' /\ known' = known
    BY <1>1 DEF AcceptDetails
  <2>2. QED
    BY <1>3, <2>1 DEF DetailsInv, ReadIsStored
<1>7. PostIsHeld'
  BY <1>1, <1>2, <1>3, <1>4 DEF PostIsHeld, AcceptDetails, AsRead
<1>8. FormIsRead'
  BY DEF DetailsInv, FormIsRead, AcceptDetails, AsRead
<1>9. QED
  BY <1>5, <1>6, <1>7, <1>8 DEF DetailsInv

(* answered, or lost.                                                        *)
LEMMA AnsweredDetails ==
  ASSUME DetailsInv, SaveFailed \/ \E read \in BOOLEAN : DetailsSaved(read)
  PROVE  DetailsInv'
<1>1. IsPost(NoPost) /\ NoPost.version = 0
  BY TimesAre, DetailsAre DEF NoPost, IsPost
<1>2. CASE SaveFailed
  <2>1. DetailsTypes'
    BY <1>1, <1>2 DEF DetailsInv, DetailsTypes, SaveFailed
  <2>2. ReadIsStored'
    BY <1>2 DEF DetailsInv, ReadIsStored, SaveFailed, AsRead
  <2>3. PostIsHeld'
    BY <1>2 DEF SaveFailed, PostIsHeld, BeingPosted
  <2>4. FormIsRead'
    BY <1>2 DEF DetailsInv, FormIsRead, SaveFailed, AsRead
  <2>5. QED
    BY <2>1, <2>2, <2>3, <2>4 DEF DetailsInv
<1>3. ASSUME NEW read \in BOOLEAN, DetailsSaved(read) PROVE DetailsInv'
  <2>1. DetailsTypes /\ post.version > 0 /\ post.version <= newest /\ post.version \in Nat
    BY <1>3 DEF DetailsInv, DetailsTypes, IsPost, DetailsSaved
  <2>2. BeingPosted
    BY <1>1, <2>1 DEF BeingPosted
  <2>3. IsElected(tabHolds') /\ known' = AsRead(tabHolds')
    BY <1>3, <2>1 DEF DetailsSaved, DetailsTypes
  <2>4. IsElected(known') /\ AsRead(known') = known'
    BY <2>3, AsReadTwice
  <2>5. IsPanel(panel') /\ ~panel'.open
    BY <1>3, <2>1 DEF DetailsSaved, DetailsTypes, IsPanel
  <2>6. DetailsTypes'
    BY <1>1, <1>3, <2>1, <2>3, <2>4, <2>5 DEF DetailsTypes, DetailsSaved
  <2>7. tracked' = newest => schedule = known'
    <3>1. CASE read
      BY <1>3, <2>3, <3>1 DEF DetailsSaved, DetailsInv, ReadIsStored
    <3>2. CASE ~read
      BY <1>3, <2>1, <2>2, <2>3, <3>2 DEF DetailsSaved, DetailsInv, PostIsHeld
    <3>3. QED
      BY <3>1, <3>2
  <2>8. ReadIsStored'
    BY <1>3, <2>4, <2>7 DEF DetailsInv, ReadIsStored, DetailsSaved, AsRead
  <2>9. PostIsHeld' /\ FormIsRead'
    BY <1>3, <2>5 DEF DetailsSaved, PostIsHeld, BeingPosted, FormIsRead
  <2>10. QED
    BY <2>6, <2>8, <2>9 DEF DetailsInv
<1>4. QED
  BY <1>2, <1>3

(* Every step keeps the invariant.                                           *)
LEMMA DetailsStep ==
  ASSUME DetailsInv, [DetailsNext]_detailsVars
  PROVE  DetailsInv'
<1>1. ASSUME UNCHANGED <<schedule, newest, tabHolds, tracked, copy, panel, post, changed,
                         known, stale>>, clock' \in Nat
      PROVE  DetailsInv'
  <2>1. DetailsTypes'
    BY <1>1 DEF DetailsInv, DetailsTypes
  <2>2. ReadIsStored' /\ FormIsRead'
    BY <1>1 DEF DetailsInv, ReadIsStored, FormIsRead, AsRead
  <2>3. PostIsHeld'
    BY <1>1 DEF DetailsInv, PostIsHeld, BeingPosted, AsRead, EndBeforeStart
  <2>4. QED
    BY <2>1, <2>2, <2>3 DEF DetailsInv
<1>2. CASE ClockTicks
  BY <1>1, <1>2 DEF ClockTicks, DetailsInv, DetailsTypes
<1>3. CASE UNCHANGED detailsVars
  BY <1>1, <1>3 DEF detailsVars, DetailsInv, DetailsTypes
<1>4. CASE \E d \in {v \in Valid : Sane(v)} : EditedElsewhere(d)
  BY <1>4, ElsewhereDetails
<1>5. QED
  BY <1>2, <1>3, <1>4, RefreshDetails, OpenDetails, EditDetails, SaveDetails,
     AcceptedDetails, AnsweredDetails DEF DetailsNext

(* The page knows what is stored at the version it tracks, posts what it     *)
(* holds, and its form differs from what it read only where it was changed.  *)
THEOREM DetailsInvariant == DetailsSpec => []DetailsInv
<1>1. DetailsInv /\ [DetailsNext]_detailsVars => DetailsInv'
  BY DetailsStep
<1>2. QED
  BY <1>1, DetailsStart, PTL DEF DetailsSpec

(* A save of the details changes only what was edited since the form was     *)
(* opened, and schedules an end after the start, but for the cases the       *)
(* property names (useEditElectionDetails.ts:33-41, 83-88).                  *)
THEOREM SavesMeant == DetailsSpec => SavesAreMeant
<1>1. ASSUME DetailsInv, [DetailsNext]_detailsVars, Posted
      PROVE  /\ Changed \subseteq changed \/ stale
             /\ Sane(schedule') \/ ~SameKind(post.details.start, post.details.end)
  <2>1. post.version \in Nat
    BY <1>1 DEF DetailsInv, DetailsTypes, IsPost
  <2>2. AcceptDetails
    <3>1. schedule' # schedule /\ post' # post
      BY <1>1, <2>1 DEF Posted
    <3>2. /\ ~ClockTicks /\ ~Refresh /\ ~OpenForm /\ ~Cancel /\ ~Save /\ ~SaveFailed
          /\ ~UNCHANGED detailsVars
      BY <3>1 DEF ClockTicks, Refresh, OpenForm, Cancel, Save, SaveFailed, detailsVars
    <3>3. \A d : ~EditedElsewhere(d)
      BY <3>1 DEF EditedElsewhere
    <3>4. \A fields, d : ~ApplyUpdate(fields, d)
      BY <3>1 DEF ApplyUpdate
    <3>5. /\ \A title : ~TypeTitle(title)
          /\ \A on : ~EnableTimes(on)
          /\ \A field, time : ~EnterTime(field, time)
      BY <3>4 DEF TypeTitle, EnableTimes, EnterTime
    <3>6. \A on : ~DetailsSaved(on)
      BY <3>1 DEF DetailsSaved
    <3>7. QED
      BY <1>1, <3>2, <3>3, <3>5, <3>6 DEF DetailsNext
  <2>3. /\ post.details = copy /\ panel.open /\ schedule = known /\ schedule = AsRead(schedule)
        /\ copy.end # NoTime => ~EndBeforeStart(copy.start, copy.end)
        /\ schedule' = AsRead(copy) /\ IsElected(copy)
    BY <1>1, <2>2 DEF AcceptDetails, DetailsInv, ReadIsStored, PostIsHeld, DetailsTypes
  <2>4. AsRead(schedule)' = AsRead(copy)
    <3>1. AsRead(schedule)' = AsRead(schedule')
      BY DEF AsRead
    <3>2. QED
      BY <2>3, <3>1, AsReadTwice
  <2>5. ASSUME ~stale, NEW f \in Changed PROVE f \in changed
    BY <1>1, <2>3, <2>4, <2>5 DEF Changed, DetailsInv, FormIsRead
  <2>6. ASSUME SameKind(copy.start, copy.end) PROVE Sane(schedule')
    <3>1. IsTime(copy.start) /\ IsEnd(copy.end)
      BY <2>3 DEF IsElected
    <3>2. /\ schedule'.start = Instant(copy.start.at, FALSE)
          /\ schedule'.end = Instant(copy.end.at, FALSE)
      BY <2>3, AsReadTwice
    <3>3. CASE copy.end = NoTime
      <4>1. schedule'.end = NoTime
        BY <3>2, <3>3, TimesAre
      <4>2. QED
        BY <4>1 DEF Sane
    <3>4. CASE copy.end # NoTime
      <4>1. copy.start.at < copy.end.at
        <5>1. copy.start.at \in Nat /\ copy.end.at \in Nat /\ copy.end.at # 0
          BY <3>1, <3>4 DEF IsEnd, IsTime
        <5>2. copy.start = NoTime \/ ~(copy.start.at >= copy.end.at)
          BY <2>3, <2>6, <3>4 DEF EndBeforeStart
        <5>3. CASE copy.start = NoTime
          <6>1. copy.start.at = 0
            BY <5>3, TimesAre
          <6>2. QED
            BY <5>1, <6>1
        <5>4. CASE ~(copy.start.at >= copy.end.at)
          BY <5>1, <5>4
        <5>5. QED
          BY <5>2, <5>3, <5>4
      <4>2. schedule'.start.at = copy.start.at /\ schedule'.end.at = copy.end.at
        BY <3>1, <3>2, ReadTimes DEF IsEnd, IsTime
      <4>3. QED
        BY <4>1, <4>2 DEF Sane
    <3>5. QED
      BY <3>3, <3>4
  <2>7. QED
    BY <2>3, <2>5, <2>6
<1>2. DetailsInv /\ [DetailsNext]_detailsVars =>
        [Posted => /\ Changed \subseteq changed \/ stale
                   /\ Sane(schedule') \/ ~SameKind(post.details.start, post.details.end)]_detailsVars
  BY <1>1
<1>3. QED
  BY <1>2, DetailsInvariant, PTL DEF DetailsSpec, SavesAreMeant
-----------------------------------------------------------------------------
(* WriteIns.                                                                 *)
(* Lists: what they hold and which keys they approve.                        *)
IsEntry(e) == e = Entry(e.name, e.approved) /\ e.approved \in BOOLEAN /\ e.name \in Names
Approves(list, k) == \E f \in list : f.approved /\ Norm[f.name] = k
IsList(list) ==
  /\ \A e \in list : IsEntry(e) /\ Norm[e.name] \in KeysOf(ballots)
  /\ \A e, f \in list : Norm[e.name] = Norm[f.name] => e = f
(* The rows of a page have an entry for each key of the ballots they were    *)
(* built from.                                                               *)
AreRows(rows) ==
  /\ rows = [k \in DOMAIN rows |-> rows[k]]
  /\ DOMAIN rows \subseteq KeysOf(ballots)
  /\ \A k \in DOMAIN rows : IsEntry(rows[k]) /\ Norm[rows[k].name] = k

(* A page has a row for each approval of the list it was built from, still   *)
(* approved unless it was unchecked.                                         *)
PageKeeps(p) ==
  /\ p = [phase |-> p.phase, list |-> p.list, rows |-> p.rows, read |-> p.read,
          unchecked |-> p.unchecked]
  /\ p.phase \in {"closed", "loading", "idle", "sent"}
  /\ IsList(p.list)
  /\ p.phase \in {"idle", "sent"} =>
       /\ AreRows(p.rows)
       /\ \A k : Approves(p.list, k) =>
            k \in DOMAIN p.rows /\ (p.rows[k].approved \/ k \in p.unchecked)
WriteInInv ==
  /\ ballots \in Seq(Votes)
  /\ IsList(row.list)
  /\ page = [a \in Admins |-> page[a]]
  /\ \A a \in Admins : PageKeeps(page[a])

(* What changes of two fields make of a page.                                *)
IsPage(p) ==
  p = [phase |-> p.phase, list |-> p.list, rows |-> p.rows, read |-> p.read,
       unchecked |-> p.unchecked]
(* What a page holds after a change of two of its fields: its list,          *)
LEMMA ListChanges ==
  ASSUME NEW p, IsPage(p), NEW x, NEW y
  PROVE  [p EXCEPT !.phase = x, !.list = y]
           = [phase |-> x, list |-> y, rows |-> p.rows, read |-> p.read,
              unchecked |-> p.unchecked]
<1>1. [p EXCEPT !.phase = x]
        = [phase |-> x, list |-> p.list, rows |-> p.rows, read |-> p.read,
           unchecked |-> p.unchecked]
  BY DEF IsPage
<1>2. [p EXCEPT !.phase = x, !.list = y] = [[p EXCEPT !.phase = x] EXCEPT !.list = y]
  OBVIOUS
<1>3. [[phase |-> x, list |-> p.list, rows |-> p.rows, read |-> p.read,
        unchecked |-> p.unchecked] EXCEPT !.list = y]
        = [phase |-> x, list |-> y, rows |-> p.rows, read |-> p.read,
           unchecked |-> p.unchecked]
  OBVIOUS
<1>4. QED
  BY <1>1, <1>2, <1>3, Zenon

(* its rows,                                                                 *)
LEMMA RowsChange ==
  ASSUME NEW p, IsPage(p), NEW x, NEW y
  PROVE  [p EXCEPT !.phase = x, !.rows = y]
           = [phase |-> x, list |-> p.list, rows |-> y, read |-> p.read,
              unchecked |-> p.unchecked]
<1>1. [p EXCEPT !.phase = x]
        = [phase |-> x, list |-> p.list, rows |-> p.rows, read |-> p.read,
           unchecked |-> p.unchecked]
  BY DEF IsPage
<1>2. [p EXCEPT !.phase = x, !.rows = y] = [[p EXCEPT !.phase = x] EXCEPT !.rows = y]
  OBVIOUS
<1>3. [[phase |-> x, list |-> p.list, rows |-> p.rows, read |-> p.read,
        unchecked |-> p.unchecked] EXCEPT !.rows = y]
        = [phase |-> x, list |-> p.list, rows |-> y, read |-> p.read,
           unchecked |-> p.unchecked]
  OBVIOUS
<1>4. QED
  BY <1>1, <1>2, <1>3, Zenon

(* or the date it has read.                                                  *)
LEMMA ReadChanges ==
  ASSUME NEW p, IsPage(p), NEW x, NEW y
  PROVE  [p EXCEPT !.phase = x, !.read = y]
           = [phase |-> x, list |-> p.list, rows |-> p.rows, read |-> y,
              unchecked |-> p.unchecked]
<1>1. [p EXCEPT !.phase = x]
        = [phase |-> x, list |-> p.list, rows |-> p.rows, read |-> p.read,
           unchecked |-> p.unchecked]
  BY DEF IsPage
<1>2. [p EXCEPT !.phase = x, !.read = y] = [[p EXCEPT !.phase = x] EXCEPT !.read = y]
  OBVIOUS
<1>3. [[phase |-> x, list |-> p.list, rows |-> p.rows, read |-> p.read,
        unchecked |-> p.unchecked] EXCEPT !.read = y]
        = [phase |-> x, list |-> p.list, rows |-> p.rows, read |-> y,
           unchecked |-> p.unchecked]
  OBVIOUS
<1>4. QED
  BY <1>1, <1>2, <1>3, Zenon

(* What an entry holds.                                                      *)
LEMMA EntriesAre ==
  \A n \in Names : \A b \in BOOLEAN : IsEntry(Entry(n, b)) /\ Entry(n, b).name = n /\ Entry(n, b).approved = b
BY DEF IsEntry, Entry

(* A ballot more has its keys more.                                          *)
LEMMA KeysGrow ==
  ASSUME ballots \in Seq(Votes), NEW vote \in Votes, ballots' = Append(ballots, vote)
  PROVE  ballots' \in Seq(Votes) /\ KeysOf(ballots) \subseteq KeysOf(ballots)'
<1>1. ballots' \in Seq(Votes)
  OBVIOUS
<1>2. \A i \in DOMAIN ballots : i \in DOMAIN ballots' /\ ballots'[i] = ballots[i]
  OBVIOUS
<1>3. UNION {WrittenOf(ballots[i]) : i \in DOMAIN ballots}
        \subseteq UNION {WrittenOf(ballots'[i]) : i \in DOMAIN ballots'}
  BY <1>2
<1>4. QED
  BY <1>1, <1>3 DEF KeysOf

(* Names on ballots stay, so lists and pages stay of names on ballots.       *)
LEMMA ListsGrow ==
  ASSUME KeysOf(ballots) \subseteq KeysOf(ballots)'
  PROVE  /\ \A list : IsList(list) => IsList(list)'
         /\ \A p : PageKeeps(p) => PageKeeps(p)'
<1>1. \A list : IsList(list) => IsList(list)'
  BY DEF IsList, IsEntry
<1>2. \A rows : AreRows(rows) => AreRows(rows)'
  BY DEF AreRows, IsEntry
<1>3. \A p, k : Approves(p.list, k)' <=> Approves(p.list, k)
  BY DEF Approves
<1>4. \A p : PageKeeps(p) => PageKeeps(p)'
  BY <1>1, <1>2, <1>3 DEF PageKeeps
<1>5. QED
  BY <1>1, <1>4

(* A closed page keeps everything.                                           *)
LEMMA NotOpenKeeps ==
  /\ PageKeeps(NotOpen)
  /\ \A list : IsList(list) => PageKeeps([NotOpen EXCEPT !.phase = "loading", !.list = list])
<1>1. IsList({})
  BY DEF IsList
<1>2. PageKeeps(NotOpen)
  BY <1>1 DEF PageKeeps, NotOpen
<1>3. ASSUME NEW list, IsList(list)
      PROVE  PageKeeps([NotOpen EXCEPT !.phase = "loading", !.list = list])
  <2>1. [NotOpen EXCEPT !.phase = "loading", !.list = list]
          = [phase |-> "loading", list |-> list, rows |-> <<>>, read |-> 0, unchecked |-> {}]
    <3>1. IsPage(NotOpen)
      BY DEF IsPage, NotOpen
    <3>2. NotOpen.rows = <<>> /\ NotOpen.read = 0 /\ NotOpen.unchecked = {}
      BY DEF NotOpen
    <3>3. [NotOpen EXCEPT !.phase = "loading", !.list = list]
            = [phase |-> "loading", list |-> list, rows |-> NotOpen.rows,
               read |-> NotOpen.read, unchecked |-> NotOpen.unchecked]
      BY <3>1, ListChanges
    <3>4. QED
      BY <3>2, <3>3
  <2>2. QED
    BY <1>3, <2>1 DEF PageKeeps
<1>4. QED
  BY <1>2, <1>3

(* buildRows keeps the list's approvals.                                     *)
LEMMA RowsKeep ==
  ASSUME NEW p, PageKeeps(p), p.phase = "loading"
  PROVE  PageKeeps([p EXCEPT !.phase = "idle", !.rows = Rows(p.list, ballots)])
<1> DEFINE rows == Rows(p.list, ballots)
           q == [p EXCEPT !.phase = "idle", !.rows = rows]
           named(k) == CHOOSE n \in UNION {WrittenOf(ballots[i]) : i \in DOMAIN ballots} : Norm[n] = k
           old(k) == CHOOSE e \in EntryOf(p.list, k) : TRUE
<1>1. IsList(p.list)
  BY DEF PageKeeps
<1>2. DOMAIN rows = KeysOf(ballots) /\ rows = [k \in DOMAIN rows |-> rows[k]]
  BY DEF Rows
<1>3. \A k \in KeysOf(ballots) :
        rows[k] = IF EntryOf(p.list, k) # {} THEN old(k) ELSE Entry(named(k), FALSE)
  BY DEF Rows
<1>4. \A k \in KeysOf(ballots) : EntryOf(p.list, k) # {} => old(k) \in p.list /\ Norm[old(k).name] = k
  BY DEF EntryOf
<1>5. \A k \in KeysOf(ballots) : Norm[named(k)] = k /\ named(k) \in Names
  BY DEF KeysOf, WrittenOf
<1> HIDE DEF rows, old, named
<1>6. \A k \in DOMAIN rows : IsEntry(rows[k]) /\ Norm[rows[k].name] = k
  <2>1. TAKE k \in DOMAIN rows
  <2>2. CASE EntryOf(p.list, k) # {}
    BY <1>1, <1>2, <1>3, <1>4, <2>2 DEF IsList
  <2>3. CASE EntryOf(p.list, k) = {}
    <3>1. rows[k] = Entry(named(k), FALSE) /\ Norm[named(k)] = k /\ named(k) \in Names
      BY <1>2, <1>3, <1>5, <2>3
    <3>2. QED
      BY <3>1, EntriesAre
  <2>4. QED
    BY <2>2, <2>3
<1>7. AreRows(rows)
  BY <1>2, <1>6 DEF AreRows
<1>8. ASSUME NEW k, Approves(p.list, k)
      PROVE  k \in DOMAIN rows /\ rows[k].approved
  <2>1. PICK f \in p.list : f.approved /\ Norm[f.name] = k
    BY <1>8 DEF Approves
  <2>2. k \in KeysOf(ballots) /\ EntryOf(p.list, k) # {}
    BY <1>1, <2>1 DEF IsList, EntryOf
  <2>3. old(k) = f
    BY <1>1, <1>4, <2>1, <2>2 DEF IsList
  <2>4. QED
    BY <1>2, <1>3, <2>1, <2>2, <2>3
<1>9. /\ q = [phase |-> "idle", list |-> p.list, rows |-> rows, read |-> p.read,
              unchecked |-> p.unchecked]
  <2>1. IsPage(p)
    BY DEF PageKeeps, IsPage
  <2>2. QED
    BY <2>1, RowsChange
<1> HIDE DEF q
<1>10. PageKeeps(q)
  BY <1>1, <1>7, <1>8, <1>9 DEF PageKeeps
<1>11. QED
  BY <1>10 DEF q, rows

(* So does checking a box, with the note of what was unchecked,              *)
LEMMA CheckKeeps ==
  ASSUME NEW p, PageKeeps(p), p.phase = "idle", NEW k \in DOMAIN p.rows
  PROVE  PageKeeps([p EXCEPT !.rows[k].approved = ~@,
                             !.unchecked = IF p.rows[k].approved
                                           THEN @ \cup {k} ELSE @ \ {k}])
<1> DEFINE rows == [p.rows EXCEPT ![k] = Entry(p.rows[k].name, ~p.rows[k].approved)]
           unchecked == IF p.rows[k].approved THEN p.unchecked \cup {k} ELSE p.unchecked \ {k}
           q == [phase |-> "idle", list |-> p.list, rows |-> rows, read |-> p.read,
                 unchecked |-> unchecked]
<1>1. p = [phase |-> "idle", list |-> p.list, rows |-> p.rows, read |-> p.read,
           unchecked |-> p.unchecked]
  BY DEF PageKeeps
<1>2. AreRows(p.rows) /\ IsList(p.list)
  BY DEF PageKeeps
<1>3. p.rows[k] = Entry(p.rows[k].name, p.rows[k].approved) /\ p.rows[k].approved \in BOOLEAN
  BY <1>2 DEF AreRows, IsEntry
<1>4. [p.rows EXCEPT ![k].approved = ~@] = rows
  BY <1>3 DEF Entry
<1>5. [p EXCEPT !.rows[k].approved = ~@,
                !.unchecked = IF p.rows[k].approved THEN @ \cup {k} ELSE @ \ {k}] = q
  <2>1. [p EXCEPT !.rows[k].approved = ~@]
          = [phase |-> "idle", list |-> p.list,
             rows |-> [p.rows EXCEPT ![k].approved = ~@], read |-> p.read,
             unchecked |-> p.unchecked]
    BY <1>1
  <2>2. [p EXCEPT !.rows[k].approved = ~@, !.unchecked = unchecked] = q
    <3> DEFINE flipped == [p EXCEPT !.rows[k].approved = ~@]
    <3>1. [p EXCEPT !.rows[k].approved = ~@, !.unchecked = unchecked]
            = [flipped EXCEPT !.unchecked = unchecked]
      OBVIOUS
    <3>2. flipped = [phase |-> "idle", list |-> p.list, rows |-> rows, read |-> p.read,
                     unchecked |-> p.unchecked]
      BY <1>4, <2>1
    <3> HIDE DEF rows, unchecked, flipped
    <3>3. QED
      BY <3>1, <3>2
  <2>3. QED
    BY <2>2
<1>6. AreRows(rows)
  BY <1>2, <1>3 DEF AreRows, IsEntry, Entry
<1>7. ASSUME NEW j, Approves(p.list, j)
      PROVE  j \in DOMAIN rows /\ (rows[j].approved \/ j \in unchecked)
  <2>1. j \in DOMAIN p.rows /\ (p.rows[j].approved \/ j \in p.unchecked)
    BY <1>7 DEF PageKeeps
  <2>2. CASE j = k
    BY <1>3, <2>1, <2>2 DEF Entry
  <2>3. CASE j # k
    BY <2>1, <2>3
  <2>4. QED
    BY <2>2, <2>3
<1> HIDE DEF rows, unchecked
<1>8. PageKeeps(q)
  BY <1>2, <1>6, <1>7 DEF PageKeeps
<1>9. QED
  BY <1>5, <1>8

(* and editing a name.                                                       *)
LEMMA EditKeeps ==
  ASSUME NEW p, PageKeeps(p), p.phase = "idle", NEW k \in DOMAIN p.rows,
         NEW n \in Names, Norm[n] = k
  PROVE  PageKeeps([p EXCEPT !.rows[k].name = n])
<1> DEFINE rows == [p.rows EXCEPT ![k] = Entry(n, p.rows[k].approved)]
           q == [phase |-> "idle", list |-> p.list, rows |-> rows, read |-> p.read,
                 unchecked |-> p.unchecked]
<1>1. p = [phase |-> "idle", list |-> p.list, rows |-> p.rows, read |-> p.read,
           unchecked |-> p.unchecked]
  BY DEF PageKeeps
<1>2. AreRows(p.rows) /\ IsList(p.list)
  BY DEF PageKeeps
<1>3. p.rows[k] = Entry(p.rows[k].name, p.rows[k].approved) /\ p.rows[k].approved \in BOOLEAN
  BY <1>2 DEF AreRows, IsEntry
<1>4. [p.rows EXCEPT ![k].name = n] = rows
  BY <1>3 DEF Entry
<1>5. [p EXCEPT !.rows[k].name = n] = q
  <2> HIDE DEF rows
  <2>1. QED
    BY <1>1, <1>4
<1>6. AreRows(rows)
  BY <1>2, <1>3 DEF AreRows, IsEntry, Entry
<1>7. ASSUME NEW j, Approves(p.list, j)
      PROVE  j \in DOMAIN rows /\ (rows[j].approved \/ j \in p.unchecked)
  <2>1. j \in DOMAIN p.rows /\ (p.rows[j].approved \/ j \in p.unchecked)
    BY <1>7 DEF PageKeeps
  <2>2. QED
    BY <2>1 DEF Entry
<1> HIDE DEF rows
<1>8. PageKeeps(q)
  BY <1>2, <1>6, <1>7 DEF PageKeeps
<1>9. QED
  BY <1>5, <1>8

(* What a page saves is a list.                                              *)
LEMMA SavedIsList ==
  ASSUME NEW rows, AreRows(rows)
  PROVE  IsList(Range(rows))
<1>1. \A e \in Range(rows) : \E k \in DOMAIN rows : e = rows[k]
  BY DEF Range
<1>2. \A e \in Range(rows) : IsEntry(e) /\ Norm[e.name] \in KeysOf(ballots)
                               /\ e = rows[Norm[e.name]]
  BY <1>1 DEF AreRows
<1>3. QED
  BY <1>2 DEF IsList

(* A step of one page.                                                       *)
LEMMA PageStepKeeps ==
  ASSUME WriteInInv, NEW a \in Admins, NEW q, PageKeeps(q),
         page' = [page EXCEPT ![a] = q], UNCHANGED ballots, IsList(row'.list)
  PROVE  WriteInInv'
<1>1. page' = [b \in Admins |-> page'[b]]
  BY DEF WriteInInv
<1>2. \A b \in Admins : page'[b] = IF b = a THEN q ELSE page[b]
  BY DEF WriteInInv
<1>3. \A b \in Admins : PageKeeps(page'[b])
  BY <1>2 DEF WriteInInv
<1>4. \A p : PageKeeps(p)' <=> PageKeeps(p)
  BY DEF PageKeeps, IsList, AreRows, IsEntry, Approves
<1>5. IsList(row.list)'
  BY DEF IsList, IsEntry
<1>6. \A b \in Admins : PageKeeps(page[b])'
  BY <1>3, <1>4 DEF PageKeeps, IsList, AreRows, IsEntry, Approves
<1>7. QED
  BY <1>1, <1>5, <1>6 DEF WriteInInv

(* Every step keeps the invariant.                                           *)
LEMMA WriteInStep ==
  ASSUME WriteInInv, [WriteInNext]_writeInVars
  PROVE  WriteInInv'
<1>1. ASSUME NEW vote \in Votes, Cast(vote) PROVE WriteInInv'
  <2>1. ballots' \in Seq(Votes) /\ KeysOf(ballots) \subseteq KeysOf(ballots)'
    BY <1>1, KeysGrow DEF Cast, WriteInInv
  <2>2. IsList(row.list)' /\ \A a \in Admins : PageKeeps(page[a])'
    BY <1>1, <2>1, ListsGrow DEF Cast, WriteInInv, IsList, IsEntry, PageKeeps, AreRows, Approves
  <2>3. QED
    BY <1>1, <2>1, <2>2 DEF Cast, WriteInInv
<1>2. ASSUME NEW a \in Admins, OpenPage(a) \/ FetchNames(a) \/ Leave(a) PROVE WriteInInv'
  <2>1. UNCHANGED ballots /\ IsList(row'.list) /\ PageKeeps(page[a]) /\ IsList(row.list)
    BY <1>2 DEF OpenPage, FetchNames, Leave, WriteInInv
  <2>2. CASE OpenPage(a)
    BY <2>1, <2>2, NotOpenKeeps, PageStepKeeps DEF OpenPage
  <2>3. CASE FetchNames(a)
    <3> DEFINE q == [page[a] EXCEPT !.phase = "idle", !.rows = Rows(page[a].list, ballots)]
    <3>1. PageKeeps(q)
      BY <2>1, <2>3, RowsKeep DEF FetchNames
    <3>2. page' = [page EXCEPT ![a] = q]
      BY <2>3 DEF FetchNames
    <3>3. QED
      BY <2>1, <3>1, <3>2, PageStepKeeps
  <2>4. CASE Leave(a)
    BY <2>1, <2>4, NotOpenKeeps, PageStepKeeps DEF Leave
  <2>5. QED
    BY <1>2, <2>2, <2>3, <2>4
<1>3. ASSUME NEW a \in Admins, SetRead(a) \/ SetWrite(a) \/ SetRefused(a) PROVE WriteInInv'
  <2>1. UNCHANGED ballots /\ PageKeeps(page[a]) /\ IsList(row.list)
    BY <1>3 DEF SetRead, SetWrite, SetRefused, WriteInInv
  <2>2. CASE SetRead(a)
    <3> DEFINE q == [page[a] EXCEPT !.phase = "sent", !.read = row.date]
    <3>1. page[a].phase = "idle" /\ page' = [page EXCEPT ![a] = q] /\ IsList(row'.list)
      BY <2>1, <2>2 DEF SetRead
    <3>2. PageKeeps(q)
      <4>1. IsPage(page[a])
        BY <2>1 DEF PageKeeps, IsPage
      <4>2. q = [phase |-> "sent", list |-> page[a].list, rows |-> page[a].rows,
                 read |-> row.date, unchecked |-> page[a].unchecked]
        BY <4>1, ReadChanges
      <4> HIDE DEF q
      <4>3. QED
        BY <2>1, <3>1, <4>2 DEF PageKeeps
    <3>3. QED
      BY <2>1, <3>1, <3>2, PageStepKeeps
  <2>3. CASE SetWrite(a)
    <3>1. row'.list = Range(page[a].rows) /\ page' = [page EXCEPT ![a] = NotOpen]
      BY <2>3 DEF SetWrite
    <3>2. IsList(row'.list)
      BY <2>1, <2>3, <3>1, SavedIsList DEF PageKeeps, SetWrite
    <3>3. QED
      BY <2>1, <3>1, <3>2, NotOpenKeeps, PageStepKeeps
  <2>4. CASE SetRefused(a)
    <3> DEFINE q == [page[a] EXCEPT !.phase = "idle"]
    <3>1. page[a].phase = "sent" /\ page' = [page EXCEPT ![a] = q] /\ IsList(row'.list)
      BY <2>1, <2>4 DEF SetRefused
    <3>2. PageKeeps(q)
      <4>1. q = [phase |-> "idle", list |-> page[a].list, rows |-> page[a].rows,
                 read |-> page[a].read, unchecked |-> page[a].unchecked]
        BY <2>1 DEF PageKeeps
      <4> HIDE DEF q
      <4>2. QED
        BY <2>1, <3>1, <4>1 DEF PageKeeps
    <3>3. QED
      BY <2>1, <3>1, <3>2, PageStepKeeps
  <2>5. QED
    BY <1>3, <2>2, <2>3, <2>4
<1>4. ASSUME NEW a \in Admins, NEW k \in NameKeys, CheckApproved(a, k) PROVE WriteInInv'
  <2> DEFINE p == page[a]
             q == [p EXCEPT !.rows[k].approved = ~@,
                            !.unchecked = IF p.rows[k].approved
                                          THEN @ \cup {k} ELSE @ \ {k}]
  <2>1. UNCHANGED ballots /\ PageKeeps(p) /\ IsList(row'.list)
        /\ p.phase = "idle" /\ k \in DOMAIN p.rows
    BY <1>4 DEF CheckApproved, WriteInInv
  <2>2. PageKeeps(q)
    <3> HIDE DEF p
    <3>1. QED
      BY <2>1, CheckKeeps
  <2>3. page' = [page EXCEPT ![a] = q]
    BY <1>4 DEF CheckApproved
  <2> HIDE DEF q
  <2>4. QED
    BY <2>1, <2>2, <2>3, PageStepKeeps
<1>5. ASSUME NEW a \in Admins, NEW k \in NameKeys, NEW n \in Names, EditName(a, k, n)
      PROVE  WriteInInv'
  <2> DEFINE q == [page[a] EXCEPT !.rows[k].name = n]
  <2>1. UNCHANGED ballots /\ PageKeeps(page[a]) /\ IsList(row'.list)
        /\ page[a].phase = "idle" /\ k \in DOMAIN page[a].rows /\ Norm[n] = k
    BY <1>5 DEF EditName, WriteInInv
  <2>2. PageKeeps(q)
    BY <2>1, EditKeeps
  <2>3. page' = [page EXCEPT ![a] = q]
    BY <1>5 DEF EditName
  <2> HIDE DEF q
  <2>4. QED
    BY <2>1, <2>2, <2>3, PageStepKeeps
<1>6. ASSUME UNCHANGED <<ballots, row, page>> PROVE WriteInInv'
  BY <1>6 DEF WriteInInv, IsList, IsEntry, PageKeeps, AreRows, Approves, KeysOf
<1>7. QED
  BY <1>1, <1>2, <1>3, <1>4, <1>5, <1>6
     DEF WriteInNext, writeInVars, ReadElection, StreamBallots

(* The approval page and what it is built from are as described: every list  *)
(* has one entry for each key, all of them of names on ballots, and a page   *)
(* holds the approvals of its list but for those unchecked on it.            *)
THEOREM WriteInInvariant == WriteInSpec => []WriteInInv
<1>1. WriteInInit => WriteInInv
  <2>1. SUFFICES ASSUME WriteInInit PROVE WriteInInv
    OBVIOUS
  <2>2. IsList({})
    BY DEF IsList
  <2>3. ballots \in Seq(Votes) /\ row.list = {} /\ page = [a \in Admins |-> NotOpen]
    BY <2>1 DEF WriteInInit
  <2>4. QED
    BY <2>2, <2>3, NotOpenKeeps DEF WriteInInv
<1>2. WriteInInv /\ [WriteInNext]_writeInVars => WriteInInv'
  BY WriteInStep
<1>3. QED
  BY <1>1, <1>2, PTL DEF WriteInSpec

(* An approval of a write-in is withdrawn only by an administrator whose     *)
(* page was built from a list without it, or who unchecked it                *)
(* (setWriteInResultsController.ts, WriteInApproval.tsx).                    *)
THEOREM ApprovalsKept == WriteInSpec => WithdrawnOrStale
<1> DEFINE Kept(e) == \E a \in Admins :
             /\ page[a].phase = "sent"
             /\ \/ ~\E f \in page[a].list : f.approved /\ Norm[f.name] = Norm[e.name]
                \/ Norm[e.name] \in page[a].unchecked
<1>1. ASSUME WriteInInv, [WriteInNext]_writeInVars, row' # row
      PROVE  \A e \in Withdrawn : Kept(e)
  <2>1. PICK a \in Admins : SetWrite(a)
    BY <1>1 DEF WriteInNext, writeInVars, Cast, OpenPage, FetchNames, Leave, SetRead,
      SetRefused, CheckApproved, EditName, ReadElection, StreamBallots
  <2>2. /\ page[a].phase = "sent" /\ row'.list = Range(page[a].rows)
        /\ PageKeeps(page[a])
    BY <1>1, <2>1 DEF SetWrite, WriteInInv
  <2>3. TAKE e \in Withdrawn
  <2>4. ASSUME Approves(page[a].list, Norm[e.name]) PROVE Norm[e.name] \in page[a].unchecked
    <3> DEFINE k == Norm[e.name]
    <3>1. k \in DOMAIN page[a].rows /\ AreRows(page[a].rows)
          /\ (page[a].rows[k].approved \/ k \in page[a].unchecked)
      BY <2>2, <2>4 DEF PageKeeps
    <3>2. page[a].rows[k] \in row'.list /\ Norm[page[a].rows[k].name] = k
      BY <2>2, <3>1 DEF Range, AreRows
    <3>3. QED
      BY <3>1, <3>2 DEF Withdrawn
  <2>5. QED
    BY <2>2, <2>4 DEF Approves
<1>2. WriteInInv /\ [WriteInNext]_writeInVars => [row' # row => \A e \in Withdrawn : Kept(e)]_row
  BY <1>1
<1>3. QED
  BY <1>2, WriteInInvariant, PTL DEF WriteInSpec, WithdrawnOrStale

(* A list as it is stored: one entry for a key.                              *)
Listing(list) ==
  /\ \A e \in list : e.approved \in BOOLEAN /\ e.name \in Names
  /\ \A e, f \in list : Norm[e.name] = Norm[f.name] => e = f
ApprovedNames(list) == {e.name : e \in {f \in list : f.approved}}

(* A finite set in some order.                                               *)
LEMMA SetInSomeOrder ==
  ASSUME NEW S, IsFiniteSet(S)
  PROVE  SetToSeq(S) \in Seq(S) /\ Range(SetToSeq(S)) = S /\ IsInjective(SetToSeq(S))
<1> DEFINE n == Cardinality(S)
           s == SetToSeq(S)
<1>1. n \in Nat /\ IsFiniteSet(1..n) /\ Cardinality(1..n) = n
  BY FS_CardinalityType, FS_Interval
<1>2. ExistsBijection(1..n, S)
  BY FS_NatBijection, FS_CountingElements, FS_CardinalityType
<1>3. \E f \in [1..n -> S] : IsInjective(f)
  BY <1>2 DEF ExistsBijection, Bijection, Injection
<1>4. s \in [1..n -> S] /\ IsInjective(s)
  <2>1. s = CHOOSE f \in [1..n -> S] : IsInjective(f)
    BY DEF SetToSeq
  <2>2. QED
    BY <1>3, <2>1
<1>5. s \in Injection(1..n, S)
  BY <1>4 DEF Injection
<1>6. s \in Surjection(1..n, S)
  BY <1>1, <1>5, FS_Injection
<1>7. QED
  BY <1>1, <1>4, <1>6 DEF Surjection, Range

(* The columns of the store: the candidates and the approved names, each once.*)
LEMMA IdsAre ==
  ASSUME NEW list, Listing(list)
  PROVE  /\ CandidateIds(list) \in Seq(Range(Candidates) \cup Names)
         /\ Range(CandidateIds(list)) = Range(Candidates) \cup ApprovedNames(list)
         /\ IsInjective(CandidateIds(list))
         /\ \A c \in Range(CandidateIds(list)) :
              /\ PlaceOf(CandidateIds(list), c) \in DOMAIN CandidateIds(list)
              /\ CandidateIds(list)[PlaceOf(CandidateIds(list), c)] = c
<1> DEFINE A == ApprovedNames(list)
           t == SetToSeq(A)
           ids == CandidateIds(list)
           R == Range(Candidates) \cup Names
<1>1. A \in SUBSET Names /\ IsFiniteSet(A)
  <2>1. A \in SUBSET Names
    BY DEF ApprovedNames, Listing
  <2>2. QED
    BY <2>1, ScoresAssumption, FS_Subset DEF WriteInAssumption
<1> HIDE DEF A
<1>2. t \in Seq(A) /\ Range(t) = A /\ IsInjective(t)
  BY <1>1, SetInSomeOrder
<1>3. ids = Candidates \o t
  BY DEF CandidateIds, ApprovedNames, A
<1>4. /\ Candidates \in Seq(R) /\ t \in Seq(R)
  BY <1>1, <1>2, ScoresAssumption DEF WriteInAssumption
<1> HIDE DEF t, ids
<1> DEFINE m == Len(Candidates)
           k == Len(t)
<1>5. /\ m \in Nat /\ k \in Nat /\ DOMAIN Candidates = 1..m /\ DOMAIN t = 1..k
      /\ ids \in Seq(R) /\ DOMAIN ids = 1..(m + k)
      /\ \A i \in 1..(m + k) : ids[i] = IF i <= m THEN Candidates[i] ELSE t[i - m]
  BY <1>3, <1>4
<1> HIDE DEF m, k
<1>6. Range(ids) = Range(Candidates) \cup A
  <2>1. \A c \in Range(ids) : c \in Range(Candidates) \/ c \in A
    <3>1. TAKE c \in Range(ids)
    <3>2. PICK i \in 1..(m + k) : c = ids[i]
      BY <1>5, <3>1 DEF Range
    <3>3. CASE i <= m
      BY <1>5, <3>2, <3>3 DEF Range
    <3>4. CASE ~(i <= m)
      <4>1. i - m \in DOMAIN t
        BY <1>5, <3>2, <3>4
      <4>2. t[i - m] \in Range(t)
        BY <4>1 DEF Range
      <4>3. QED
        BY <1>2, <1>5, <3>2, <3>4, <4>2
    <3>5. QED
      BY <3>3, <3>4
  <2>2. \A c \in Range(Candidates) : c \in Range(ids)
    <3>1. TAKE c \in Range(Candidates)
    <3>2. PICK i \in 1..m : c = Candidates[i]
      BY <1>5 DEF Range
    <3>3. i \in DOMAIN ids /\ ids[i] = c
      BY <1>5, <3>2
    <3>4. QED
      BY <3>3 DEF Range
  <2>3. \A c \in A : c \in Range(ids)
    <3>1. TAKE c \in A
    <3>2. PICK i \in 1..k : c = t[i]
      BY <1>2, <1>5 DEF Range
    <3>3. i + m \in 1..(m + k) /\ ~(i + m <= m) /\ (i + m) - m = i
      BY <1>5, <3>2
    <3>4. i + m \in DOMAIN ids /\ ids[i + m] = c
      BY <1>5, <3>2, <3>3
    <3>5. QED
      BY <3>4 DEF Range
  <2>4. QED
    BY <2>1, <2>2, <2>3
<1>7. IsInjective(ids)
  <2>1. \A i \in 1..m : Candidates[i] \notin A
    <3>1. TAKE i \in 1..m
    <3>2. Candidates[i] \in Range(Candidates)
      BY <1>5 DEF Range
    <3>3. QED
      BY <1>1, <3>2, ScoresAssumption DEF WriteInAssumption
  <2>2. \A i \in 1..k : t[i] \in A
    BY <1>2, <1>5
  <2>3. SUFFICES ASSUME NEW i \in 1..(m + k), NEW j \in 1..(m + k), ids[i] = ids[j]
                 PROVE  i = j
    BY <1>5 DEF IsInjective
  <2>4. \A h \in 1..(m + k) : ~(h <= m) => h - m \in 1..k
    BY <1>5
  <2>5. CASE i <= m /\ j <= m
    <3>1. i \in 1..m /\ j \in 1..m /\ Candidates[i] = Candidates[j]
      BY <1>5, <2>3, <2>5
    <3>2. QED
      BY <1>5, <3>1, ScoresAssumption DEF WriteInAssumption
  <2>6. CASE i <= m /\ ~(j <= m)
    BY <1>5, <2>1, <2>2, <2>3, <2>4, <2>6
  <2>7. CASE ~(i <= m) /\ j <= m
    BY <1>5, <2>1, <2>2, <2>3, <2>4, <2>7
  <2>8. CASE ~(i <= m) /\ ~(j <= m)
    <3>1. i - m \in 1..k /\ j - m \in 1..k /\ t[i - m] = t[j - m]
      BY <1>5, <2>3, <2>4, <2>8
    <3>2. i - m = j - m
      BY <1>2, <1>5, <3>1 DEF IsInjective
    <3>3. QED
      BY <1>5, <2>3, <3>2
  <2>9. QED
    BY <2>5, <2>6, <2>7, <2>8
<1>8. ASSUME NEW c \in Range(ids) PROVE PlaceOf(ids, c) \in DOMAIN ids /\ ids[PlaceOf(ids, c)] = c
  <2>1. \E i \in DOMAIN ids : ids[i] = c
    BY <1>8 DEF Range
  <2>2. QED
    BY <2>1 DEF PlaceOf
<1>9. QED
  BY <1>5, <1>6, <1>7, <1>8 DEF ids, A

(* The column a counted score is for.                                        *)
Target(list, s) ==
  IF s.id \in Range(Candidates) THEN s.id
  ELSE (CHOOSE e \in EntryOf(list, Norm[s.id]) : e.approved).name
IsScore(s) == s.id \in Names \cup Range(Candidates) /\ s.score # Absent

LEMMA TargetIs ==
  ASSUME NEW list, Listing(list), NEW s, IsScore(s), IsCounted(list, s)
  PROVE  /\ Target(list, s) \in Range(CandidateIds(list))
         /\ \A c \in Range(CandidateIds(list)) :
              ScoreKey(s) = IdKey(c) <=> c = Target(list, s)
<1>1. /\ \A n \in Names : n \notin Range(Candidates) /\ Norm[n] \notin Range(Candidates)
      /\ Range(CandidateIds(list)) = Range(Candidates) \cup ApprovedNames(list)
  BY ScoresAssumption, IdsAre DEF WriteInAssumption
<1>2. \A c \in ApprovedNames(list) :
        c \in Names /\ \E e \in list : e.approved /\ e.name = c
  BY DEF ApprovedNames, Listing
<1>3. CASE s.id \in Range(Candidates)
  <2>1. ScoreKey(s) = s.id /\ Target(list, s) = s.id
    BY <1>1, <1>3 DEF ScoreKey, IdKey, Target
  <2>2. \A c \in Range(CandidateIds(list)) : s.id = IdKey(c) <=> c = s.id
    BY <1>1, <1>2, <1>3 DEF IdKey
  <2>3. QED
    BY <1>1, <1>3, <2>1, <2>2
<1>4. CASE s.id \notin Range(Candidates)
  <2>1. s.id \in Names /\ ScoreKey(s) = Norm[s.id]
    BY <1>4 DEF IsScore, ScoreKey, IdKey
  <2>2. PICK e \in EntryOf(list, Norm[s.id]) : e.approved
    BY <1>4 DEF IsCounted
  <2>3. e \in list /\ Norm[e.name] = Norm[s.id] /\ e.name \in Names
    BY <2>2 DEF EntryOf, Listing
  <2>4. \A f \in EntryOf(list, Norm[s.id]) : f = e
    BY <2>3 DEF EntryOf, Listing
  <2>5. Target(list, s) = e.name
    BY <1>4, <2>2, <2>4 DEF Target
  <2>6. e.name \in ApprovedNames(list)
    BY <2>2, <2>3 DEF ApprovedNames
  <2>7. \A c \in Range(CandidateIds(list)) : Norm[s.id] = IdKey(c) <=> c = e.name
    <3>1. TAKE c \in Range(CandidateIds(list))
    <3>2. CASE c \in Range(Candidates)
      <4>1. IdKey(c) = c
        BY <1>1, <3>2 DEF IdKey
      <4>2. QED
        BY <1>1, <2>1, <2>3, <3>2, <4>1
    <3>3. CASE c \in ApprovedNames(list)
      <4>1. PICK f \in list : f.approved /\ f.name = c
        BY <1>2, <3>3
      <4>2. IdKey(c) = Norm[c]
        BY <1>2, <3>3 DEF IdKey
      <4>3. Norm[s.id] = Norm[c] => f = e
        BY <2>3, <4>1 DEF Listing
      <4>4. QED
        BY <2>3, <4>1, <4>2, <4>3
    <3>4. QED
      BY <1>1, <3>2, <3>3
  <2>8. QED
    BY <1>1, <2>1, <2>5, <2>6, <2>7
<1>5. QED
  BY <1>3, <1>4

(* The row of marks, and what a score does to it.                            *)
Accum(store, marks, unprocessed, excluded) ==
  [store |-> store, marks |-> marks, unprocessed |-> unprocessed, excluded |-> excluded]
IsUnknown(list, s) == ~IsCounted(list, s) /\ EntryOf(list, Norm[s.id]) = {}
Marked(list, marks, s) ==
  LET p == PlaceOf(CandidateIds(list), Target(list, s))
  IN IF marks[p] = Absent THEN [marks EXCEPT ![p] = s.score] ELSE marks

LEMMA AddScoreIs ==
  ASSUME NEW list, Listing(list), NEW s, IsScore(s),
         NEW store, NEW marks, NEW u, NEW x
  PROVE  AddScore(list, Accum(store, marks, u, x), s) =
           IF IsCounted(list, s) THEN Accum(store, Marked(list, marks, s), u, x)
           ELSE IF IsUnknown(list, s) THEN Accum(store, marks, u + 1, x + 1)
           ELSE Accum(store, marks, u, x + 1)
<1> DEFINE ids == CandidateIds(list)
           acc == Accum(store, marks, u, x)
           p == PlaceOf(ids, Target(list, s))
           es == EntryOf(list, Norm[s.id])
           mark(c) == LET i == PlaceOf(ids, c) IN
             IF acc.marks[i] = Absent THEN [acc EXCEPT !.marks[i] = s.score] ELSE acc
<1>1. acc.marks = marks /\ acc.unprocessed = u /\ acc.excluded = x
  BY DEF Accum
<1>2. ASSUME NEW i PROVE [acc EXCEPT !.marks[i] = s.score]
                           = Accum(store, [marks EXCEPT ![i] = s.score], u, x)
  BY DEF Accum
<1>3. [acc EXCEPT !.unprocessed = @ + 1, !.excluded = @ + 1] = Accum(store, marks, u + 1, x + 1)
  <2>1. [acc EXCEPT !.unprocessed = @ + 1] = Accum(store, marks, u + 1, x)
    BY DEF Accum
  <2>2. [acc EXCEPT !.unprocessed = @ + 1, !.excluded = @ + 1]
          = [[acc EXCEPT !.unprocessed = @ + 1] EXCEPT !.excluded = @ + 1]
    OBVIOUS
  <2>3. [Accum(store, marks, u + 1, x) EXCEPT !.excluded = @ + 1]
          = Accum(store, marks, u + 1, x + 1)
    BY DEF Accum
  <2>4. QED
    BY <2>1, <2>2, <2>3, Zenon
<1>4. [acc EXCEPT !.excluded = @ + 1] = Accum(store, marks, u, x + 1)
  BY DEF Accum
<1>5. AddScore(list, acc, s) =
        IF s.id \in Range(Candidates) THEN mark(s.id)
        ELSE IF es = {} THEN [acc EXCEPT !.unprocessed = @ + 1, !.excluded = @ + 1]
        ELSE IF \E e \in es : e.approved THEN mark((CHOOSE e \in es : e.approved).name)
        ELSE [acc EXCEPT !.excluded = @ + 1]
  BY DEF AddScore
<1>6. mark(Target(list, s)) = Accum(store, Marked(list, marks, s), u, x)
  BY <1>1, <1>2 DEF Marked
<1> HIDE DEF mark, acc, p, ids
<1>7. CASE s.id \in Range(Candidates)
  BY <1>5, <1>6, <1>7 DEF Target, IsCounted, p, ids, acc
<1>8. CASE s.id \notin Range(Candidates) /\ es = {}
  <2>1. ~IsCounted(list, s) /\ IsUnknown(list, s)
    BY <1>8 DEF IsCounted, IsUnknown
  <2>2. QED
    BY <1>3, <1>5, <1>8, <2>1 DEF acc
<1>9. CASE s.id \notin Range(Candidates) /\ \E e \in es : e.approved
  <2>1. IsCounted(list, s) /\ es # {}
    BY <1>9 DEF IsCounted
  <2>2. Target(list, s) = (CHOOSE e \in es : e.approved).name
    BY <1>9 DEF Target
  <2> HIDE DEF es
  <2>3. QED
    BY <1>5, <1>6, <1>9, <2>1, <2>2 DEF acc, p, ids
<1>10. CASE s.id \notin Range(Candidates) /\ es # {} /\ ~\E e \in es : e.approved
  <2>1. ~IsCounted(list, s) /\ ~IsUnknown(list, s)
    BY <1>10 DEF IsCounted, IsUnknown
  <2>2. QED
    BY <1>4, <1>5, <1>10, <2>1 DEF acc
<1>11. QED
  BY <1>7, <1>8, <1>9, <1>10

Accums(list, store, W) ==
  {Accum(store, m, a, b) : m \in [DOMAIN CandidateIds(list) -> W], a \in Nat, b \in Nat}

LEMMA AddScoreKeeps ==
  ASSUME NEW list, Listing(list), NEW s, IsScore(s), NEW W, s.score \in W, NEW store,
         NEW v \in Accums(list, store, W)
  PROVE  AddScore(list, v, s) \in Accums(list, store, W)
<1> PICK marks \in [DOMAIN CandidateIds(list) -> W], u \in Nat, x \in Nat :
         v = Accum(store, marks, u, x)
  BY DEF Accums
<1> DEFINE D == DOMAIN CandidateIds(list)
           p == PlaceOf(CandidateIds(list), Target(list, s))
           new == Marked(list, marks, s)
<1>1. AddScore(list, Accum(store, marks, u, x), s) =
        IF IsCounted(list, s) THEN Accum(store, new, u, x)
        ELSE IF IsUnknown(list, s) THEN Accum(store, marks, u + 1, x + 1)
        ELSE Accum(store, marks, u, x + 1)
  BY AddScoreIs
<1>2. marks \in [D -> W]
  OBVIOUS
<1>3. new \in [D -> W]
  <2>1. new = IF marks[p] = Absent THEN [marks EXCEPT ![p] = s.score] ELSE marks
    BY DEF Marked
  <2> HIDE DEF D, p, new
  <2>2. [marks EXCEPT ![p] = s.score] \in [D -> W]
    BY <1>2
  <2>3. QED
    BY <1>2, <2>1, <2>2
<1> HIDE DEF D, new
<1>4. u + 1 \in Nat /\ x + 1 \in Nat
  OBVIOUS
<1>5. \E m \in [D -> W], a \in Nat, b \in Nat :
         AddScore(list, Accum(store, marks, u, x), s) = Accum(store, m, a, b)
  BY <1>1, <1>2, <1>3, <1>4
<1>6. QED
  BY <1>5 DEF D, Accums

(* Of the scores at the places T: those for one column, the marks they make, *)
(* and those that are left out.                                              *)
Given(list, vote, c, T) ==
  {i \in T : IsCounted(list, vote[i]) /\ ScoreKey(vote[i]) = IdKey(c)}
MarksOf(list, vote, T) ==
  [p \in DOMAIN CandidateIds(list) |->
     LET is == Given(list, vote, CandidateIds(list)[p], T)
     IN IF is = {} THEN Absent ELSE vote[Min(is)].score]
LeftOut(list, vote, T) == {i \in T : ~IsCounted(list, vote[i])}
Unknown(list, vote, T) == {i \in T : IsUnknown(list, vote[i])}
Scored(list, vote, T, store, u, x) ==
  Accum(store, MarksOf(list, vote, T), u + Cardinality(Unknown(list, vote, T)),
        x + Cardinality(LeftOut(list, vote, T)))

LEMMA VotesAre ==
  ASSUME NEW vote \in Votes
  PROVE  /\ Len(vote) \in Nat /\ DOMAIN vote = 1..Len(vote)
         /\ \A i \in DOMAIN vote : IsScore(vote[i])
BY ScoresAssumption DEF WriteInAssumption, IsScore

(* The first of some places stays the first.                                 *)
LEMMA FirstStays ==
  ASSUME NEW k \in Nat, NEW G \in SUBSET (1..(k - 1))
  PROVE  /\ G # {} => Min(G) \in G /\ Min(G \cup {k}) = Min(G)
         /\ Min({k}) = k
<1>1. IsFiniteSet(1..(k - 1)) /\ IsFiniteSet(G) /\ \A i \in G : i \in Int /\ i < k
  <2> DEFINE D == 1..(k - 1)
  <2>1. \A i \in D : i \in Int /\ i < k
    OBVIOUS
  <2>2. IsFiniteSet(D)
    BY FS_Interval
  <2> HIDE DEF D
  <2>3. IsFiniteSet(G)
    BY <2>2, FS_Subset DEF D
  <2>4. QED
    BY <2>1, <2>2, <2>3 DEF D
<1>2. Min({k}) = k
  BY DEF Min
<1>3. ASSUME G # {} PROVE Min(G) \in G /\ Min(G \cup {k}) = Min(G)
  <2>1. Min(G) \in G /\ \A i \in G : Min(G) <= i
    BY <1>1, <1>3, FiniteExtremes
  <2> DEFINE H == G \cup {k}
  <2>2. IsFiniteSet(H) /\ H # {} /\ \A i \in H : i \in Int
    BY <1>1, FS_AddElement
  <2>3. Min(H) \in H /\ \A i \in H : Min(H) <= i
    <3> HIDE DEF H
    <3>1. QED
      BY <2>2, FiniteExtremes
  <2>4. Min(G) \in H /\ Min(G) < k /\ Min(G) \in Int /\ Min(H) \in Int
    BY <1>1, <2>1, <2>2, <2>3
  <2>5. Min(H) <= Min(G) /\ Min(H) # k
    BY <2>3, <2>4
  <2>6. Min(H) \in G
    BY <2>3, <2>5
  <2>7. Min(H) = Min(G)
    BY <2>1, <2>4, <2>5, <2>6
  <2>8. QED
    BY <2>1, <2>7
<1>4. QED
  BY <1>2, <1>3

(* One score more.                                                           *)
LEMMA ScoreAdded ==
  ASSUME NEW list, Listing(list), NEW vote \in Votes, NEW k \in 1..Len(vote),
         NEW store, NEW u \in Nat, NEW x \in Nat
  PROVE  AddScore(list, Scored(list, vote, 1..(k - 1), store, u, x), vote[k])
           = Scored(list, vote, 1..k, store, u, x)
<1> DEFINE ids == CandidateIds(list)
           s == vote[k]
           p == PlaceOf(ids, Target(list, s))
           K == 1..(k - 1)
           marks == MarksOf(list, vote, K)
           lost == LeftOut(list, vote, K)
           odd == Unknown(list, vote, K)
           given(q) == Given(list, vote, ids[q], K)
<1>1. /\ k \in Nat /\ 1..k = K \cup {k} /\ k \notin K /\ IsFiniteSet(K)
      /\ \A i \in 1..k : i \in DOMAIN vote /\ IsScore(vote[i])
  <2>1. k \in Nat /\ 1..k = K \cup {k} /\ k \notin K /\ 1..k \subseteq 1..Len(vote)
    BY VotesAre
  <2>2. k - 1 \in Int
    BY <2>1
  <2>3. IsFiniteSet(K)
    BY <2>2, FS_Interval
  <2>4. \A i \in 1..k : i \in DOMAIN vote /\ IsScore(vote[i])
    <3> HIDE DEF K
    <3>1. QED
      BY <2>1, VotesAre
  <2>5. QED
    BY <2>1, <2>3, <2>4
<1>2. /\ lost \in SUBSET K /\ odd \in SUBSET K
      /\ IsFiniteSet(lost) /\ IsFiniteSet(odd)
      /\ Cardinality(lost) \in Nat /\ Cardinality(odd) \in Nat
      /\ Cardinality(lost \cup {k}) = Cardinality(lost) + 1
      /\ Cardinality(odd \cup {k}) = Cardinality(odd) + 1
  <2>1. lost \in SUBSET K /\ odd \in SUBSET K
    BY DEF LeftOut, Unknown
  <2> HIDE DEF lost, odd
  <2>2. IsFiniteSet(lost) /\ IsFiniteSet(odd) /\ k \notin lost /\ k \notin odd
    BY <1>1, <2>1, FS_Subset
  <2>3. QED
    BY <2>1, <2>2, FS_CardinalityType, FS_AddElement
<1>3. AddScore(list, Scored(list, vote, K, store, u, x), s) =
        IF IsCounted(list, s)
        THEN Accum(store, Marked(list, marks, s), u + Cardinality(odd), x + Cardinality(lost))
        ELSE IF IsUnknown(list, s)
             THEN Accum(store, marks, u + Cardinality(odd) + 1, x + Cardinality(lost) + 1)
             ELSE Accum(store, marks, u + Cardinality(odd), x + Cardinality(lost) + 1)
  <2>1. IsScore(s)
    BY <1>1
  <2> HIDE DEF s, K
  <2>2. QED
    BY <2>1, AddScoreIs DEF Scored
<1>4. \A q \in DOMAIN ids : given(q) \in SUBSET K
  BY DEF Given
<1>5. \A q \in DOMAIN ids :
        Given(list, vote, ids[q], 1..k)
          = IF IsCounted(list, s) /\ ScoreKey(s) = IdKey(ids[q]) THEN given(q) \cup {k}
            ELSE given(q)
  BY <1>1 DEF Given
<1>6. MarksOf(list, vote, 1..k)
        = [q \in DOMAIN ids |->
             LET is == Given(list, vote, ids[q], 1..k)
             IN IF is = {} THEN Absent ELSE vote[Min(is)].score]
      /\ marks = [q \in DOMAIN ids |-> IF given(q) = {} THEN Absent ELSE vote[Min(given(q))].score]
  BY DEF MarksOf
<1>7. CASE IsCounted(list, s)
  <2>1. /\ LeftOut(list, vote, 1..k) = lost /\ Unknown(list, vote, 1..k) = odd
    BY <1>1, <1>7 DEF LeftOut, Unknown, IsUnknown
  <2>2. /\ Target(list, s) \in Range(ids) /\ p \in DOMAIN ids /\ ids[p] = Target(list, s)
        /\ \A q \in DOMAIN ids : ScoreKey(s) = IdKey(ids[q]) <=> q = p
    <3>1. /\ Target(list, s) \in Range(ids)
          /\ \A c \in Range(ids) : ScoreKey(s) = IdKey(c) <=> c = Target(list, s)
      BY <1>1, <1>7, TargetIs
    <3>2. p \in DOMAIN ids /\ ids[p] = Target(list, s) /\ IsInjective(ids)
      BY <3>1, IdsAre
    <3>3. \A q \in DOMAIN ids : ids[q] \in Range(ids)
      BY DEF Range
    <3>4. \A q \in DOMAIN ids : ids[q] = Target(list, s) <=> q = p
      BY <3>2 DEF IsInjective
    <3>5. QED
      BY <3>1, <3>2, <3>3, <3>4
  <2> DEFINE new == IF marks[p] = Absent THEN [marks EXCEPT ![p] = s.score] ELSE marks
  <2>3. MarksOf(list, vote, 1..k) = new
    <3> DEFINE m == MarksOf(list, vote, 1..k)
    <3>1. \A q \in DOMAIN ids : q # p => m[q] = marks[q] /\ new[q] = marks[q]
      BY <1>5, <1>6, <2>2
    <3>2. m[p] = new[p]
      <4>1. Given(list, vote, ids[p], 1..k) = given(p) \cup {k}
        BY <1>5, <1>7, <2>2
      <4>2. m[p] = vote[Min(given(p) \cup {k})].score
        BY <1>6, <2>2, <4>1
      <4>3. given(p) \in SUBSET (1..(k - 1))
        BY <1>4, <2>2
      <4>4. CASE given(p) = {}
        <5>1. marks[p] = Absent /\ given(p) \cup {k} = {k}
          BY <1>6, <2>2, <4>4
        <5>2. m[p] = s.score
          <6>1. {} \in SUBSET (1..(k - 1))
            OBVIOUS
          <6>2. Min({k}) = k
            BY <1>1, <6>1, FirstStays
          <6>3. QED
            BY <4>2, <5>1, <6>2
        <5>3. new[p] = s.score
          BY <1>6, <2>2, <5>1
        <5>4. QED
          BY <5>2, <5>3
      <4>5. CASE given(p) # {}
        <5>1. Min(given(p)) \in given(p) /\ Min(given(p) \cup {k}) = Min(given(p))
          <6> DEFINE G == given(p)
          <6> HIDE DEF G
          <6>1. G \in SUBSET (1..(k - 1)) /\ G # {}
            BY <4>3, <4>5 DEF G
          <6>2. Min(G) \in G /\ Min(G \cup {k}) = Min(G)
            BY <1>1, <6>1, FirstStays
          <6>3. QED
            BY <6>2 DEF G
        <5>2. marks[p] = vote[Min(given(p))].score
          BY <1>6, <2>2, <4>5
        <5>3. marks[p] # Absent
          BY <1>1, <4>3, <5>1, <5>2 DEF IsScore
        <5>4. QED
          BY <4>2, <5>1, <5>2, <5>3
      <4>6. QED
        BY <4>4, <4>5
    <3>3. DOMAIN new = DOMAIN ids /\ m = [q \in DOMAIN ids |-> m[q]] /\ new = [q \in DOMAIN ids |-> new[q]]
      BY <1>6
    <3> HIDE DEF m, new
    <3>4. \A q \in DOMAIN ids : m[q] = new[q]
      BY <3>1, <3>2
    <3>5. m = new
      BY <3>3, <3>4
    <3>6. QED
      BY <3>5 DEF m
  <2>4. QED
    BY <1>3, <1>7, <2>1, <2>3 DEF Scored, Marked
<1>8. CASE ~IsCounted(list, s)
  <2>1. MarksOf(list, vote, 1..k) = marks
    BY <1>5, <1>6, <1>8
  <2>2. LeftOut(list, vote, 1..k) = lost \cup {k}
    BY <1>1, <1>8 DEF LeftOut
  <2>3. Unknown(list, vote, 1..k) = IF IsUnknown(list, s) THEN odd \cup {k} ELSE odd
    BY <1>1 DEF Unknown
  <2> HIDE DEF marks, lost, odd, s
  <2>4. u + Cardinality(odd) + 1 = u + (Cardinality(odd) + 1)
        /\ x + Cardinality(lost) + 1 = x + (Cardinality(lost) + 1)
    BY <1>2
  <2>5. QED
    BY <1>2, <1>3, <1>8, <2>1, <2>2, <2>3, <2>4 DEF Scored, s
<1>9. QED
  BY <1>7, <1>8

(* A whole vote.                                                             *)
LEMMA ScoresAdded ==
  ASSUME NEW list, Listing(list), NEW vote \in Votes,
         NEW store, NEW u \in Nat, NEW x \in Nat,
         NEW base, base = Scored(list, vote, {}, store, u, x)
  PROVE  AddScores(list, base, vote)
           = Scored(list, vote, DOMAIN vote, store, u, x)
<1> DEFINE n == Len(vote)
           W == {Absent} \cup {vote[i].score : i \in DOMAIN vote}
           V == Accums(list, store, W)
           step == [i \in DOMAIN vote |-> [v \in V |-> AddScore(list, v, vote[i])]]
           IsIter(g) == g = [T \in SUBSET (DOMAIN vote) |->
             IF T = {} THEN base
             ELSE LET i == Max(T) IN AddScore(list, g[T \ {i}], vote[i])]
           iter == CHOOSE g : IsIter(g)
<1>1. n \in Nat /\ DOMAIN vote = 1..n /\ \A i \in DOMAIN vote : IsScore(vote[i])
  BY VotesAre
<1>2. base \in V
  <2> DEFINE m == [q \in DOMAIN CandidateIds(list) |-> Absent]
  <2>1. MarksOf(list, vote, {}) = m
    BY DEF MarksOf, Given
  <2>2. Unknown(list, vote, {}) = {} /\ LeftOut(list, vote, {}) = {}
    BY DEF Unknown, LeftOut
  <2>3. base = Accum(store, m, u + 0, x + 0)
    BY <2>1, <2>2, FS_EmptySet DEF Scored
  <2>4. u + 0 \in Nat /\ x + 0 \in Nat /\ m \in [DOMAIN CandidateIds(list) -> W]
    OBVIOUS
  <2> HIDE DEF m, W
  <2>5. QED
    BY <2>3, <2>4 DEF Accums
<1>3. ASSUME NEW i \in 1..n, NEW v \in V PROVE AddScore(list, v, vote[i]) \in V
  <2> DEFINE e == vote[i]
  <2>1. IsScore(e) /\ e.score \in W
    BY <1>1
  <2> HIDE DEF W, e
  <2>2. AddScore(list, v, e) \in V
    BY <2>1, AddScoreKeeps
  <2>3. QED
    BY <2>2 DEF e
<1> HIDE DEF V, n
<1> DEFINE S == DOMAIN vote
<1>4. S = 1..n /\ \A i \in S : \A v \in V : step[i][v] \in V /\ step[i][v] = AddScore(list, v, vote[i])
  BY <1>1, <1>3
<1> HIDE DEF step, S
<1>5. \E g : IsIter(g)
  <2>1. PICK g \in [SUBSET S -> V] : LeftFolds(S, base, step, g)
    BY <1>1, <1>2, <1>4, LeftFoldExists
  <2>2. \A T \in SUBSET S : T # {} => Max(T) \in S /\ T \ {Max(T)} \in SUBSET S
    BY <1>1, <1>4, LastPlace
  <2>3. \A T \in SUBSET S :
          g[T] = IF T = {} THEN base ELSE AddScore(list, g[T \ {Max(T)}], vote[Max(T)])
    BY <1>4, <2>1, <2>2 DEF LeftFolds
  <2>4. g = [T \in SUBSET S |-> IF T = {} THEN base
               ELSE AddScore(list, g[T \ {Max(T)}], vote[Max(T)])]
    BY <2>3
  <2>5. IsIter(g)
    BY <2>4 DEF S
  <2>6. QED
    BY <2>5
<1>6. IsIter(iter)
  <2> HIDE DEF IsIter
  <2>1. QED
    BY <1>5
<1>7. AddScores(list, base, vote) = iter[DOMAIN vote]
  BY DEF AddScores, FoldLeft, MapThenFoldSet
<1> HIDE DEF iter
<1>8. ASSUME NEW i \in 1..n
      PROVE  iter[1..i] = AddScore(list, iter[1..(i - 1)], vote[i])
  <2>1. \A T \in SUBSET (1..n) : T # {} =>
          iter[T] = AddScore(list, iter[T \ {Max(T)}], vote[Max(T)])
    BY <1>1, <1>6
  <2>2. 1..i \in SUBSET (1..n) /\ 1..i # {} /\ Max(1..i) = i /\ (1..i) \ {Max(1..i)} = 1..(i - 1)
    BY <1>1, WithoutTheLast
  <2> HIDE DEF IsIter
  <2>3. QED
    BY <2>1, <2>2
<1> DEFINE P == {i \in 0..n : iter[1..i] = Scored(list, vote, 1..i, store, u, x)}
<1>9. 0 \in P
  <2>1. 1..0 = {} /\ 0 \in 0..n
    BY <1>1
  <2>2. iter[{}] = base
    BY <1>6
  <2>3. QED
    BY <2>1, <2>2
<1>10. ASSUME NEW i \in 1..n, i - 1 \in P PROVE i \in P
  <2>1. iter[1..(i - 1)] = Scored(list, vote, 1..(i - 1), store, u, x)
    BY <1>10
  <2>2. AddScore(list, Scored(list, vote, 1..(i - 1), store, u, x), vote[i])
          = Scored(list, vote, 1..i, store, u, x)
    BY ScoreAdded DEF n
  <2>3. i \in 0..n
    BY <1>1
  <2>4. QED
    BY <1>8, <2>1, <2>2, <2>3
<1> HIDE DEF P
<1>11. n \in P
  <2>1. \A i \in 0..n : i \in P
    BY <1>1, <1>9, <1>10, UpTo
  <2>2. n \in 0..n
    BY <1>1
  <2>3. QED
    BY <2>1, <2>2
<1>12. QED
  BY <1>1, <1>7, <1>11 DEF P

\* A vote adds one row of marks to the store.
LEMMA VoteAdded ==
  ASSUME NEW list, Listing(list), NEW vote \in Votes,
         NEW store, NEW marks, NEW u \in Nat, NEW x \in Nat
  PROVE  AddVote(list, Accum(store, marks, u, x), vote) =
           Accum(CommitRow(store, MarksOf(list, vote, DOMAIN vote)),
                 MarksOf(list, vote, DOMAIN vote),
                 u + Cardinality(Unknown(list, vote, DOMAIN vote)),
                 x + Cardinality(LeftOut(list, vote, DOMAIN vote)))
<1> DEFINE was == Accum(store, marks, u, x)
           none == [i \in DOMAIN CandidateIds(list) |-> Absent]
           blank == [was EXCEPT !.marks = none]
           added == AddScores(list, blank, vote)
<1>1. AddVote(list, was, vote) = [added EXCEPT !.store = CommitRow(@, added.marks)]
  BY DEF AddVote
<1>2. blank = Scored(list, vote, {}, store, u, x)
  <2>1. blank = Accum(store, none, u, x)
    BY DEF Accum
  <2>2. MarksOf(list, vote, {}) = none
    BY DEF MarksOf, Given
  <2>3. Unknown(list, vote, {}) = {} /\ LeftOut(list, vote, {}) = {}
    BY DEF Unknown, LeftOut
  <2>4. u + Cardinality({}) = u /\ x + Cardinality({}) = x
    BY FS_EmptySet
  <2> HIDE DEF none, blank
  <2>5. QED
    BY <2>1, <2>2, <2>3, <2>4 DEF Scored
<1> HIDE DEF blank
<1>3. added = Scored(list, vote, DOMAIN vote, store, u, x)
  BY <1>2, ScoresAdded
<1> HIDE DEF added, was
<1>4. AddVote(list, was, vote) = [added EXCEPT !.store = CommitRow(store, added.marks)]
  BY <1>1, <1>3 DEF Scored, Accum
<1>5. QED
  BY <1>3, <1>4 DEF Scored, Accum, was

(* The rows of the blocks, one block after the other.                        *)
Joined(store, h) ==
  /\ h[0] = <<>>
  /\ \A i \in 1..Len(store) : h[i] = h[i - 1] \o store[i]

LEMMA ConsumedIs ==
  ASSUME NEW M, NEW store \in Seq(Seq(M))
  PROVE  /\ ConsumeMarks(store) \in Seq(M)
         /\ \E h \in [0..Len(store) -> Seq(M)] :
              Joined(store, h) /\ ConsumeMarks(store) = h[Len(store)]
<1> DEFINE n == Len(store)
           S == DOMAIN store
           V == Seq(M)
           base == <<>>
           step == [i \in S |-> [v \in V |-> v \o store[i]]]
           IsIter(g) == g = [T \in SUBSET (DOMAIN store) |->
             IF T = {} THEN base ELSE LET i == Max(T) IN g[T \ {i}] \o store[i]]
           iter == CHOOSE g : IsIter(g)
           h == [i \in 0..n |-> iter[1..i]]
<1>1. n \in Nat /\ S = 1..n /\ \A i \in S : store[i] \in V
  OBVIOUS
<1>2. base \in V
  OBVIOUS
<1>3. \A v, w \in V : v \o w \in V
  OBVIOUS
<1> HIDE DEF V, n, base
<1>4. \A i \in S : \A v \in V : step[i][v] \in V /\ step[i][v] = v \o store[i]
  BY <1>1, <1>3
<1> HIDE DEF step
<1>5. \E g : IsIter(g)
  <2> HIDE DEF S
  <2>1. PICK g \in [SUBSET S -> V] : LeftFolds(S, base, step, g)
    BY <1>1, <1>2, <1>4, LeftFoldExists
  <2>2. \A T \in SUBSET S : T # {} => Max(T) \in S /\ T \ {Max(T)} \in SUBSET S
    BY <1>1, LastPlace
  <2>3. \A T \in SUBSET S : g[T] = IF T = {} THEN base ELSE g[T \ {Max(T)}] \o store[Max(T)]
    BY <1>4, <2>1, <2>2 DEF LeftFolds
  <2>4. g = [T \in SUBSET S |-> IF T = {} THEN base ELSE g[T \ {Max(T)}] \o store[Max(T)]]
    BY <2>3
  <2>5. IsIter(g)
    BY <2>4 DEF S
  <2>6. QED
    BY <2>5
<1>6. IsIter(iter)
  <2> HIDE DEF IsIter
  <2>1. QED
    BY <1>5
<1>7. ConsumeMarks(store) = iter[S]
  BY DEF ConsumeMarks, FoldLeft, MapThenFoldSet, base
<1> HIDE DEF iter
<1>8. \A T \in SUBSET S :
        iter[T] = IF T = {} THEN base ELSE iter[T \ {Max(T)}] \o store[Max(T)]
  BY <1>6
<1> HIDE DEF IsIter, S, h
<1>9. ASSUME NEW i \in 1..n PROVE iter[1..i] = iter[1..(i - 1)] \o store[i]
  <2>1. 1..i \in SUBSET (1..n) /\ 1..i # {} /\ Max(1..i) = i /\ (1..i) \ {Max(1..i)} = 1..(i - 1)
    BY <1>1, WithoutTheLast
  <2>2. QED
    BY <1>1, <1>8, <2>1
<1>10. iter[1..0] = base
  <2>1. 1..0 = {}
    OBVIOUS
  <2>2. QED
    BY <1>8, <2>1
<1> DEFINE P == {i \in 0..n : iter[1..i] \in V}
<1>11. 0 \in P
  BY <1>1, <1>2, <1>10
<1>12. ASSUME NEW i \in 1..n, i - 1 \in P PROVE i \in P
  <2>1. i \in 0..n /\ i \in S
    BY <1>1
  <2>2. QED
    BY <1>1, <1>3, <1>9, <1>12, <2>1
<1>13. \A i \in 0..n : iter[1..i] \in V
  <2> HIDE DEF P
  <2>1. \A i \in 0..n : i \in P
    BY <1>1, <1>11, <1>12, UpTo
  <2>2. QED
    BY <2>1 DEF P
<1>14. h \in [0..n -> V] /\ \A i \in 0..n : h[i] = iter[1..i]
  BY <1>13 DEF h
<1>15. h[0] = base /\ \A i \in 1..n : h[i] = h[i - 1] \o store[i]
  <2>1. 0 \in 0..n /\ \A i \in 1..n : i \in 0..n /\ i - 1 \in 0..n
    BY <1>1
  <2>2. QED
    BY <1>9, <1>10, <1>14, <2>1
<1>16. ConsumeMarks(store) = h[n] /\ h[n] \in V
  <2>1. n \in 0..n
    BY <1>1
  <2>2. QED
    BY <1>1, <1>7, <1>14, <2>1
<1>17. Joined(store, h)
  BY <1>15 DEF Joined, base, n
<1>18. QED
  BY <1>14, <1>16, <1>17 DEF n, V

LEMMA AppendBehind ==
  ASSUME NEW M, NEW s \in Seq(M), NEW t \in Seq(M), NEW m \in M
  PROVE  s \o Append(t, m) = Append(s \o t, m)
<1>1. /\ s \in Seq(M) /\ t \in Seq(M) /\ <<m>> \in Seq(M) /\ s \o t \in Seq(M)
  OBVIOUS
<1>2. Append(t, m) = t \o <<m>> /\ Append(s \o t, m) = (s \o t) \o <<m>>
  BY <1>1, AppendIsConcat
<1>3. (s \o t) \o <<m>> = s \o (t \o <<m>>)
  BY <1>1, ConcatAssociative
<1>4. QED
  BY <1>2, <1>3

SameUpTo(store, other, n) ==
  \A i \in 1..n : i \in 1..Len(store) /\ i \in 1..Len(other) /\ store[i] = other[i]

LEMMA JoinedAgree ==
  ASSUME NEW store, NEW other, NEW h, NEW k, Joined(store, h), Joined(other, k),
         NEW n \in Nat, SameUpTo(store, other, n)
  PROVE  h[n] = k[n]
<1> DEFINE P == {i \in 0..n : h[i] = k[i]}
<1>1. 0 \in P
  BY DEF Joined
<1>2. ASSUME NEW i \in 1..n, i - 1 \in P PROVE i \in P
  <2>1. i \in 1..Len(store) /\ i \in 1..Len(other) /\ store[i] = other[i] /\ i \in 0..n
    BY DEF SameUpTo
  <2>2. h[i] = h[i - 1] \o store[i] /\ k[i] = k[i - 1] \o other[i]
    BY <2>1 DEF Joined
  <2>3. QED
    BY <1>2, <2>1, <2>2
<1> HIDE DEF P
<1>3. \A i \in 0..n : i \in P
  BY <1>1, <1>2, UpTo
<1>4. n \in 0..n
  OBVIOUS
<1>5. QED
  BY <1>3, <1>4 DEF P

\* A row that is committed comes after all others.
LEMMA RowCommitted ==
  ASSUME NEW M, NEW store \in Seq(Seq(M)), NEW m \in M
  PROVE  /\ CommitRow(store, m) \in Seq(Seq(M))
         /\ ConsumeMarks(CommitRow(store, m)) = Append(ConsumeMarks(store), m)
<1> DEFINE n == Len(store)
           new == CommitRow(store, m)
<1>1. n \in Nat /\ \A i \in 1..n : store[i] \in Seq(M)
  OBVIOUS
<1>2. PICK h \in [0..n -> Seq(M)] : Joined(store, h) /\ ConsumeMarks(store) = h[n]
  BY ConsumedIs
<1>3. CASE store # <<>> /\ Len(Last(store)) < BlockBallots
  <2>1. n \in 1..n /\ new = [store EXCEPT ![n] = Append(@, m)]
    BY <1>3 DEF CommitRow
  <2>2. Append(store[n], m) \in Seq(M)
    BY <1>1, <2>1
  <2>3. /\ new \in Seq(Seq(M)) /\ Len(new) = n /\ new[n] = Append(store[n], m)
        /\ \A i \in 1..(n - 1) : new[i] = store[i]
    BY <2>1, <2>2
  <2> HIDE DEF new, n
  <2>4. PICK k \in [0..n -> Seq(M)] : Joined(new, k) /\ ConsumeMarks(new) = k[n]
    BY <2>3, ConsumedIs
  <2>5. n - 1 \in Nat /\ n - 1 \in 0..n /\ n - 1 <= n
    BY <1>1, <2>1
  <2>6. h[n - 1] = k[n - 1]
    <3>1. Len(store) = n /\ Len(new) = n
      BY <2>3 DEF n
    <3>2. SameUpTo(store, new, n - 1)
      BY <1>1, <2>3, <2>5, <3>1 DEF SameUpTo
    <3> DEFINE p == n - 1
    <3>3. p \in Nat /\ p \in 0..n /\ SameUpTo(store, new, p)
      BY <2>5, <3>2
    <3> HIDE DEF p
    <3>4. ASSUME NEW f, NEW g, NEW other, NEW i \in Nat,
                 Joined(store, f), Joined(other, g), SameUpTo(store, other, i)
          PROVE  f[i] = g[i]
      BY <3>4, JoinedAgree
    <3>5. h[p] = k[p]
      BY <1>2, <2>4, <3>3, <3>4
    <3>6. QED
      BY <3>5 DEF p
  <2>7. k[n] = k[n - 1] \o Append(store[n], m) /\ h[n] = h[n - 1] \o store[n]
    BY <1>2, <2>1, <2>3, <2>4 DEF Joined, n
  <2>8. h[n - 1] \in Seq(M) /\ store[n] \in Seq(M)
    BY <1>1, <2>1, <2>5
  <2>9. h[n - 1] \o Append(store[n], m) = Append(h[n - 1] \o store[n], m)
    <3> DEFINE s == h[n - 1]
               t == store[n]
    <3>1. s \in Seq(M) /\ t \in Seq(M)
      BY <2>8
    <3> HIDE DEF s, t
    <3>2. s \o Append(t, m) = Append(s \o t, m)
      BY <3>1, AppendBehind
    <3>3. QED
      BY <3>2 DEF s, t
  <2>10. QED
    BY <1>2, <2>3, <2>4, <2>6, <2>7, <2>9 DEF new
<1>4. CASE ~(store # <<>> /\ Len(Last(store)) < BlockBallots)
  <2>1. new = Append(store, <<m>>) /\ <<m>> \in Seq(M)
    BY <1>4 DEF CommitRow
  <2>2. /\ new \in Seq(Seq(M)) /\ Len(new) = n + 1 /\ new[n + 1] = <<m>>
        /\ \A i \in 1..n : new[i] = store[i]
    BY <2>1
  <2> HIDE DEF new, n
  <2>3. PICK k \in [0..(n + 1) -> Seq(M)] : Joined(new, k) /\ ConsumeMarks(new) = k[n + 1]
    BY <2>2, ConsumedIs
  <2>4. h[n] = k[n]
    <3>1. Len(store) = n
      BY DEF n
    <3>2. SameUpTo(store, new, n)
      BY <1>1, <2>2, <3>1 DEF SameUpTo
    <3>3. QED
      BY <1>1, <1>2, <2>3, <3>2, JoinedAgree
  <2>5. k[n + 1] = k[n] \o <<m>>
    <3>1. n + 1 \in 1..Len(new) /\ (n + 1) - 1 = n
      BY <1>1, <2>2
    <3>2. QED
      BY <2>2, <2>3, <3>1 DEF Joined
  <2>6. h[n] \in Seq(M)
    <3>1. n \in 0..n
      BY <1>1
    <3>2. QED
      BY <3>1
  <2>7. Append(h[n], m) = h[n] \o <<m>>
    BY <2>6, AppendIsConcat
  <2>8. QED
    BY <1>2, <2>2, <2>3, <2>4, <2>5, <2>7 DEF new
<1>5. QED
  BY <1>3, <1>4

(* The pairs of a number up to n and a member of its set: as many as the     *)
(* members there are.                                                        *)
PairsOf(F, n) == UNION {{<<b, i>> : i \in F[b]} : b \in 1..n}

LEMMA PairsAdded ==
  ASSUME NEW n \in Nat \ {0}, NEW F, IsFiniteSet(F[n]), IsFiniteSet(PairsOf(F, n - 1))
  PROVE  /\ IsFiniteSet(PairsOf(F, n))
         /\ Cardinality(PairsOf(F, n)) = Cardinality(PairsOf(F, n - 1)) + Cardinality(F[n])
<1> DEFINE old == PairsOf(F, n - 1)
           S == F[n]
           new == {<<n, i>> : i \in S}
           f == [i \in S |-> <<n, i>>]
<1>1. PairsOf(F, n) = old \cup new
  <2>1. 1..n = (1..(n - 1)) \cup {n}
    OBVIOUS
  <2>2. QED
    BY <2>1 DEF PairsOf
<1>2. old \cap new = {}
  <2>1. n \notin 1..(n - 1)
    OBVIOUS
  <2>2. \A p \in old : \E b \in 1..(n - 1) : \E i \in F[b] : p = <<b, i>>
    BY DEF PairsOf
  <2>3. \A p \in new : \E i \in S : p = <<n, i>>
    OBVIOUS
  <2> HIDE DEF old, new
  <2>4. QED
    BY <2>1, <2>2, <2>3
<1>3. ExistsBijection(S, new)
  <2>1. f \in [S -> new] /\ \A i \in S : f[i] = <<n, i>>
    OBVIOUS
  <2>2. \A p \in new : \E i \in S : p = <<n, i>>
    OBVIOUS
  <2> HIDE DEF f, new
  <2>3. f \in Injection(S, new)
    BY <2>1 DEF Injection, IsInjective
  <2>4. f \in Surjection(S, new)
    BY <2>1, <2>2 DEF Surjection
  <2>5. QED
    BY <2>3, <2>4 DEF Bijection, ExistsBijection
<1> HIDE DEF old, new, S
<1>4. IsFiniteSet(S) /\ IsFiniteSet(old)
  BY DEF S, old
<1>5. IsFiniteSet(new) /\ Cardinality(new) = Cardinality(S)
  BY <1>3, <1>4, FS_Bijection
<1>6. IsFiniteSet(old \cup new) /\ Cardinality(old \cup new) = Cardinality(old) + Cardinality(new)
  <2>1. Cardinality(old) \in Nat /\ Cardinality(new) \in Nat
    BY <1>4, <1>5, FS_CardinalityType
  <2>2. Cardinality({}) = 0
    BY FS_EmptySet
  <2>3. /\ IsFiniteSet(old \cup new)
        /\ Cardinality(old \cup new)
             = Cardinality(old) + Cardinality(new) - Cardinality(old \cap new)
    BY <1>4, <1>5, FS_Union
  <2>4. Cardinality(old \cap new) = 0
    BY <1>2, <2>2
  <2>5. QED
    BY <2>1, <2>3, <2>4
<1>7. QED
  BY <1>1, <1>5, <1>6 DEF old, S

(* What the store holds of some votes, and the scores it does not.           *)
RowOf(list, vote) == MarksOf(list, vote, DOMAIN vote)
LeftOuts(list, votes) == [b \in DOMAIN votes |-> LeftOut(list, votes[b], DOMAIN votes[b])]
Unknowns(list, votes) == [b \in DOMAIN votes |-> Unknown(list, votes[b], DOMAIN votes[b])]
Holds(list, votes, n, p) ==
  /\ ConsumeMarks(p.store) = [b \in 1..n |-> RowOf(list, votes[b])]
  /\ p.unprocessed = Cardinality(PairsOf(Unknowns(list, votes), n))
  /\ p.excluded = Cardinality(PairsOf(LeftOuts(list, votes), n))
Projections(M) ==
  [store : Seq(Seq(M)), marks : M \cup {<<>>}, unprocessed : Nat, excluded : Nat]

LEMMA VoteKeeps ==
  ASSUME NEW list, Listing(list), NEW vote \in Votes, NEW M, RowOf(list, vote) \in M,
         NEW p \in Projections(M)
  PROVE  /\ AddVote(list, p, vote) \in Projections(M)
         /\ ConsumeMarks(p.store) \in Seq(M)
         /\ LET q == AddVote(list, p, vote) IN
            /\ ConsumeMarks(q.store) = Append(ConsumeMarks(p.store), RowOf(list, vote))
            /\ q.unprocessed = p.unprocessed + Cardinality(Unknown(list, vote, DOMAIN vote))
            /\ q.excluded = p.excluded + Cardinality(LeftOut(list, vote, DOMAIN vote))
         /\ IsFiniteSet(Unknown(list, vote, DOMAIN vote))
         /\ IsFiniteSet(LeftOut(list, vote, DOMAIN vote))
<1> DEFINE store == p.store
           m == p.marks
           u == p.unprocessed
           x == p.excluded
<1>1. p = Accum(store, m, u, x) /\ store \in Seq(Seq(M)) /\ u \in Nat /\ x \in Nat
  <2> DEFINE A == Seq(Seq(M))
             B == M \cup {<<>>}
  <2> HIDE DEF A, B
  <2>1. p \in [store : A, marks : B, unprocessed : Nat, excluded : Nat]
    BY DEF Projections, A, B
  <2>2. QED
    BY <2>1 DEF Accum, A
<1> HIDE DEF store, m, u, x
<1>2. p.store = store /\ p.unprocessed = u /\ p.excluded = x
  BY DEF store, u, x
<1> DEFINE r == RowOf(list, vote)
           odd == Unknown(list, vote, DOMAIN vote)
           lost == LeftOut(list, vote, DOMAIN vote)
           new == CommitRow(store, r)
<1>3. AddVote(list, p, vote) = Accum(new, r, u + Cardinality(odd), x + Cardinality(lost))
  BY <1>1, VoteAdded DEF RowOf
<1>4. IsFiniteSet(odd) /\ IsFiniteSet(lost)
  <2> DEFINE D == DOMAIN vote
  <2>1. IsFiniteSet(D)
    BY VotesAre, FS_Interval
  <2>2. odd \in SUBSET D /\ lost \in SUBSET D
    BY DEF Unknown, LeftOut
  <2> HIDE DEF D, odd, lost
  <2>3. QED
    BY <2>1, <2>2, FS_Subset
<1>5. Cardinality(odd) \in Nat /\ Cardinality(lost) \in Nat
  BY <1>4, FS_CardinalityType
<1>6. /\ new \in Seq(Seq(M)) /\ ConsumeMarks(new) = Append(ConsumeMarks(store), r)
      /\ ConsumeMarks(store) \in Seq(M)
  BY <1>1, RowCommitted, ConsumedIs
<1>7. u + Cardinality(odd) \in Nat /\ x + Cardinality(lost) \in Nat /\ r \in M \cup {<<>>}
  BY <1>1, <1>5
<1> HIDE DEF r, odd, lost, new
<1>8. AddVote(list, p, vote) \in Projections(M)
  BY <1>3, <1>6, <1>7 DEF Projections, Accum
<1>9. QED
  BY <1>2, <1>3, <1>4, <1>6, <1>8 DEF Accum, r, odd, lost

\* The first votes and one more.
LEMMA OneMoreHeld ==
  ASSUME NEW list, Listing(list), NEW votes \in Seq(Votes), NEW i \in 1..Len(votes),
         NEW M, RowOf(list, votes[i]) \in M, NEW p \in Projections(M),
         Holds(list, votes, i - 1, p),
         IsFiniteSet(PairsOf(Unknowns(list, votes), i - 1)),
         IsFiniteSet(PairsOf(LeftOuts(list, votes), i - 1))
  PROVE  /\ Holds(list, votes, i, AddVote(list, p, votes[i]))
         /\ IsFiniteSet(PairsOf(Unknowns(list, votes), i))
         /\ IsFiniteSet(PairsOf(LeftOuts(list, votes), i))
<1> DEFINE v == votes[i]
           q == AddVote(list, p, v)
           U == Unknowns(list, votes)
           L == LeftOuts(list, votes)
           r == RowOf(list, v)
<1>1. /\ v \in Votes /\ i \in DOMAIN votes /\ i \in Nat \ {0}
      /\ U[i] = Unknown(list, v, DOMAIN v) /\ L[i] = LeftOut(list, v, DOMAIN v)
  BY DEF Unknowns, LeftOuts
<1>2. /\ ConsumeMarks(p.store) \in Seq(M)
      /\ ConsumeMarks(q.store) = Append(ConsumeMarks(p.store), r)
      /\ q.unprocessed = p.unprocessed + Cardinality(U[i])
      /\ q.excluded = p.excluded + Cardinality(L[i])
      /\ IsFiniteSet(U[i]) /\ IsFiniteSet(L[i])
  <2> HIDE DEF v, U, L
  <2>1. v \in Votes /\ RowOf(list, v) \in M
    BY <1>1 DEF v
  <2>2. QED
    BY <1>1, <2>1, VoteKeeps
<1> HIDE DEF U, L, v
<1>3. /\ IsFiniteSet(PairsOf(U, i)) /\ IsFiniteSet(PairsOf(L, i))
      /\ Cardinality(PairsOf(U, i)) = Cardinality(PairsOf(U, i - 1)) + Cardinality(U[i])
      /\ Cardinality(PairsOf(L, i)) = Cardinality(PairsOf(L, i - 1)) + Cardinality(L[i])
  <2>1. IsFiniteSet(PairsOf(U, i - 1)) /\ IsFiniteSet(PairsOf(L, i - 1))
    BY DEF U, L
  <2>2. QED
    BY <1>1, <1>2, <2>1, PairsAdded
<1>4. ConsumeMarks(q.store) = [b \in 1..i |-> RowOf(list, votes[b])]
  <2> DEFINE rows == ConsumeMarks(p.store)
             row_(b) == RowOf(list, votes[b])
  <2>1. rows = [b \in 1..(i - 1) |-> row_(b)]
    BY DEF Holds
  <2>2. i - 1 \in Nat /\ i \in Nat /\ i \in 1..i /\ r = row_(i)
    BY <1>1 DEF v
  <2>3. rows \in Seq(M) /\ r \in M
    BY <1>2 DEF v
  <2> HIDE DEF rows, row_, r
  <2>4. Len(rows) = i - 1
    BY <2>1, <2>2
  <2>5. Append(rows, r) \in Seq(M) /\ Len(Append(rows, r)) = i /\ Append(rows, r)[i] = r
        /\ \A b \in 1..(i - 1) : Append(rows, r)[b] = rows[b]
    BY <2>2, <2>3, <2>4
  <2>6. \A b \in 1..i : Append(rows, r)[b] = row_(b)
    BY <2>1, <2>2, <2>5
  <2>7. Append(rows, r) = [b \in 1..i |-> row_(b)]
    <3> DEFINE t == Append(rows, r)
    <3>1. t \in Seq(M) /\ Len(t) = i /\ \A b \in 1..i : t[b] = row_(b)
      BY <2>5, <2>6
    <3> HIDE DEF t
    <3>2. t = [b \in 1..i |-> t[b]]
      BY <3>1
    <3>3. QED
      BY <3>1, <3>2 DEF t
  <2>8. QED
    BY <1>2, <2>7 DEF rows, row_
<1>5. QED
  BY <1>2, <1>3, <1>4 DEF Holds, U, L, v

\* The whole projection.
LEMMA VotesProjected ==
  ASSUME NEW list, Listing(list), NEW votes \in Seq(Votes)
  PROVE  Holds(list, votes, Len(votes), Projected(list, votes))
<1> DEFINE n == Len(votes)
           S == DOMAIN votes
           M == {RowOf(list, v) : v \in Votes}
           V == Projections(M)
           base == [store |-> <<>>, marks |-> <<>>, unprocessed |-> 0, excluded |-> 0]
           step == [i \in S |-> [v \in V |-> AddVote(list, v, votes[i])]]
           U == Unknowns(list, votes)
           L == LeftOuts(list, votes)
           IsIter(g) == g = [T \in SUBSET (DOMAIN votes) |->
             IF T = {} THEN base ELSE LET i == Max(T) IN AddVote(list, g[T \ {i}], votes[i])]
           iter == CHOOSE g : IsIter(g)
<1>1. n \in Nat /\ S = 1..n /\ \A i \in S : votes[i] \in Votes /\ RowOf(list, votes[i]) \in M
  OBVIOUS
<1>2. base \in V
  BY DEF Projections
<1> HIDE DEF M
<1>3. ASSUME NEW i \in S, NEW v \in V PROVE AddVote(list, v, votes[i]) \in V
  BY <1>1, VoteKeeps
<1> HIDE DEF V, n, base
<1>4. \A i \in S : \A v \in V : step[i][v] \in V /\ step[i][v] = AddVote(list, v, votes[i])
  BY <1>1, <1>3
<1> HIDE DEF step
<1>5. \E g : IsIter(g)
  <2> HIDE DEF S
  <2>1. PICK g \in [SUBSET S -> V] : LeftFolds(S, base, step, g)
    BY <1>1, <1>2, <1>4, LeftFoldExists
  <2>2. \A T \in SUBSET S : T # {} => Max(T) \in S /\ T \ {Max(T)} \in SUBSET S
    BY <1>1, LastPlace
  <2>3. \A T \in SUBSET S :
          g[T] = IF T = {} THEN base ELSE AddVote(list, g[T \ {Max(T)}], votes[Max(T)])
    BY <1>4, <2>1, <2>2 DEF LeftFolds
  <2>4. g = [T \in SUBSET S |-> IF T = {} THEN base
               ELSE AddVote(list, g[T \ {Max(T)}], votes[Max(T)])]
    BY <2>3
  <2>5. IsIter(g)
    BY <2>4 DEF S
  <2>6. QED
    BY <2>5
<1>6. IsIter(iter)
  <2> HIDE DEF IsIter
  <2>1. QED
    BY <1>5
<1>7. Projected(list, votes) = iter[S]
  BY DEF Projected, FoldLeft, MapThenFoldSet, base
<1> HIDE DEF iter
<1>8. \A T \in SUBSET S :
        iter[T] = IF T = {} THEN base ELSE AddVote(list, iter[T \ {Max(T)}], votes[Max(T)])
  BY <1>6
<1> HIDE DEF IsIter, S
<1>9. ASSUME NEW i \in 1..n PROVE iter[1..i] = AddVote(list, iter[1..(i - 1)], votes[i])
  <2>1. 1..i \in SUBSET (1..n) /\ 1..i # {} /\ Max(1..i) = i /\ (1..i) \ {Max(1..i)} = 1..(i - 1)
    BY <1>1, WithoutTheLast
  <2>2. QED
    BY <1>1, <1>8, <2>1
<1> DEFINE Good(i) ==
      /\ iter[1..i] \in V /\ Holds(list, votes, i, iter[1..i])
      /\ IsFiniteSet(PairsOf(U, i)) /\ IsFiniteSet(PairsOf(L, i))
    P == {i \in 0..n : Good(i)}
<1>10. 0 \in P
  <2>1. 1..0 = {} /\ 0 \in 0..n
    BY <1>1
  <2>2. iter[1..0] = base
    BY <1>8, <2>1
  <2>3. PairsOf(U, 0) = {} /\ PairsOf(L, 0) = {}
    BY <2>1 DEF PairsOf
  <2>4. ConsumeMarks(<<>>) = <<>>
    <3>1. <<>> \in Seq(Seq(M)) /\ Len(<<>>) = 0
      OBVIOUS
    <3>2. QED
      BY <3>1, ConsumedIs DEF Joined
  <2>5. base.store = <<>> /\ base.unprocessed = 0 /\ base.excluded = 0
    BY DEF base
  <2>6. [b \in 1..0 |-> RowOf(list, votes[b])] = <<>>
    BY <2>1
  <2>7. Holds(list, votes, 0, base)
    BY <2>3, <2>4, <2>5, <2>6, FS_EmptySet DEF Holds, U, L
  <2> HIDE DEF U, L
  <2>8. Good(0)
    BY <1>2, <2>2, <2>3, <2>7, FS_EmptySet
  <2>9. QED
    BY <2>1, <2>8
<1>11. ASSUME NEW i \in 1..n, i - 1 \in P PROVE i \in P
  <2>1. i \in 0..n /\ i \in 1..Len(votes) /\ i \in S
    BY <1>1 DEF n
  <2>2. Good(i - 1)
    BY <1>11
  <2> DEFINE p == iter[1..(i - 1)]
  <2>3. p \in V /\ Holds(list, votes, i - 1, p)
    BY <2>2
  <2>4. AddVote(list, p, votes[i]) \in V
    BY <1>3, <2>1, <2>3
  <2>5. /\ Holds(list, votes, i, AddVote(list, p, votes[i]))
        /\ IsFiniteSet(PairsOf(U, i)) /\ IsFiniteSet(PairsOf(L, i))
    <3>1. IsFiniteSet(PairsOf(Unknowns(list, votes), i - 1))
          /\ IsFiniteSet(PairsOf(LeftOuts(list, votes), i - 1))
      BY <2>2
    <3>2. RowOf(list, votes[i]) \in M
      BY <1>1, <2>1
    <3> HIDE DEF p
    <3>3. p \in Projections(M)
      BY <2>3 DEF V
    <3>4. QED
      BY <2>1, <2>3, <3>1, <3>2, <3>3, OneMoreHeld
  <2>6. Good(i)
    BY <1>9, <2>4, <2>5
  <2>7. QED
    BY <2>1, <2>6
<1>12. Good(n)
  <2> HIDE DEF P
  <2>1. \A i \in 0..n : i \in P
    BY <1>1, <1>10, <1>11, UpTo
  <2>2. n \in 0..n
    BY <1>1
  <2>3. n \in P
    BY <2>1, <2>2
  <2>4. QED
    BY <2>3 DEF P
<1>13. QED
  BY <1>1, <1>7, <1>12 DEF n

\* What is read back of a row of marks.
Columns(list, vote) ==
  {CandidateIds(list)[i] : i \in
     {j \in DOMAIN CandidateIds(list) : RowOf(list, vote)[j] # Absent}}
MarkRead(list, vote, c) == RowOf(list, vote)[PlaceOf(CandidateIds(list), c)]

LEMMA RowRead ==
  ASSUME NEW list, Listing(list), NEW vote \in Votes
  PROVE  /\ {IdKey(c) : c \in Columns(list, vote)}
              = {ScoreKey(vote[i]) : i \in {j \in DOMAIN vote : IsCounted(list, vote[j])}}
         /\ \A c \in Columns(list, vote) :
              MarkRead(list, vote, c) = vote[Min(Given(list, vote, c, DOMAIN vote))].score
<1> DEFINE ids == CandidateIds(list)
           C == Columns(list, vote)
           D == DOMAIN vote
           r == RowOf(list, vote)
           given(c) == Given(list, vote, c, D)
<1>1. IsFiniteSet(D) /\ \A i \in D : i \in Int /\ IsScore(vote[i])
  <2>1. \A i \in D : i \in Int
    BY VotesAre
  <2>2. QED
    BY <2>1, VotesAre, FS_Interval
<1>2. \A c : given(c) = {i \in D : IsCounted(list, vote[i]) /\ ScoreKey(vote[i]) = IdKey(c)}
  BY DEF Given
<1>3. ASSUME NEW c, given(c) # {} PROVE vote[Min(given(c))].score # Absent
  <2> DEFINE G == given(c)
  <2>1. G \in SUBSET D
    BY <1>2
  <2> HIDE DEF G, D
  <2>2. IsFiniteSet(G) /\ G # {} /\ \A i \in G : i \in Int
    BY <1>1, <1>3, <2>1, FS_Subset DEF G
  <2>3. Min(G) \in G
    BY <2>2, FiniteExtremes
  <2>4. IsScore(vote[Min(G)])
    BY <1>1, <2>1, <2>3
  <2>5. QED
    BY <2>4 DEF IsScore, G
<1>4. \A q \in DOMAIN ids : r[q] = IF given(ids[q]) = {} THEN Absent ELSE vote[Min(given(ids[q]))].score
  BY DEF RowOf, MarksOf
<1> HIDE DEF given, r
<1>5. \A q \in DOMAIN ids : r[q] # Absent <=> given(ids[q]) # {}
  BY <1>3, <1>4
<1>6. \A c : c \in C <=> \E q \in DOMAIN ids : ids[q] = c /\ given(c) # {}
  <2>1. C = {ids[q] : q \in {j \in DOMAIN ids : r[j] # Absent}}
    BY DEF r, Columns
  <2> HIDE DEF ids, C
  <2>2. QED
    BY <1>5, <2>1
<1>7. \A c \in Range(ids) : PlaceOf(ids, c) \in DOMAIN ids /\ ids[PlaceOf(ids, c)] = c
  BY IdsAre
<1>8. \A c \in C : given(c) # {} /\ c \in Range(ids)
  BY <1>6 DEF Range
<1>9. ASSUME NEW c \in C PROVE r[PlaceOf(ids, c)] = vote[Min(given(c))].score
  <2> HIDE DEF ids
  <2>1. QED
    BY <1>4, <1>7, <1>8
<1> DEFINE I == {j \in D : IsCounted(list, vote[j])}
<1>10. \A c \in C : \E i \in I : IdKey(c) = ScoreKey(vote[i])
  BY <1>2, <1>8
<1>11. ASSUME NEW i \in I PROVE \E c \in C : IdKey(c) = ScoreKey(vote[i])
  <2> DEFINE c == Target(list, vote[i])
  <2>1. c \in Range(ids) /\ ScoreKey(vote[i]) = IdKey(c)
    <3> DEFINE s == vote[i]
    <3>1. IsScore(s) /\ IsCounted(list, s)
      BY <1>1
    <3> HIDE DEF s
    <3>2. Target(list, s) \in Range(ids) /\ ScoreKey(s) = IdKey(Target(list, s))
      BY <3>1, TargetIs
    <3>3. QED
      BY <3>2 DEF s
  <2> HIDE DEF c
  <2>2. i \in given(c)
    BY <1>2, <2>1
  <2>3. c \in C
    BY <1>6, <1>7, <2>1, <2>2
  <2>4. QED
    BY <2>1, <2>3
<1>12. {IdKey(c) : c \in C} = {ScoreKey(vote[i]) : i \in I}
  <2> HIDE DEF I, C
  <2>1. QED
    BY <1>10, <1>11
<1>13. QED
  BY <1>9, <1>12 DEF given, r, MarkRead

\* The results of a request account for every score.
LEMMA AnswerAccounted ==
  ASSUME NEW r, Listing(r.list), r.votes \in Seq(Votes),
         r.cvr = RawVotes(Projected(r.list, r.votes).store, CandidateIds(r.list)),
         r.unprocessed = Projected(r.list, r.votes).unprocessed,
         r.excluded = Projected(r.list, r.votes).excluded
  PROVE  Accounted(r)
<1> DEFINE list == r.list
           votes == r.votes
           n == Len(votes)
           p == Projected(list, votes)
           ids == CandidateIds(list)
           rows == ConsumeMarks(p.store)
           counted(b) == {i \in DOMAIN votes[b] : IsCounted(list, votes[b][i])}
           left == UNION {{<<b, i>> : i \in DOMAIN votes[b] \ counted(b)} : b \in DOMAIN votes}
           unknown == {q \in left : EntryOf(list, Norm[votes[q[1]][q[2]].id]) = {}}
           for(b, c) == {i \in counted(b) : ScoreKey(votes[b][i]) = IdKey(c)}
<1>1. Listing(list) /\ votes \in Seq(Votes) /\ r.cvr = RawVotes(p.store, ids)
      /\ r.unprocessed = p.unprocessed /\ r.excluded = p.excluded
  OBVIOUS
<1> HIDE DEF list, votes
<1>2. n \in Nat /\ DOMAIN votes = 1..n /\ \A b \in DOMAIN votes : votes[b] \in Votes
  BY <1>1
<1>3. Holds(list, votes, n, p)
  BY <1>1, VotesProjected
<1>4. rows = [b \in DOMAIN votes |-> RowOf(list, votes[b])]
  BY <1>2, <1>3 DEF Holds
<1>5. /\ DOMAIN r.cvr = DOMAIN votes
      /\ \A b \in DOMAIN votes :
           r.cvr[b] = [c \in Columns(list, votes[b]) |-> MarkRead(list, votes[b], c)]
  <2>1. r.cvr = [b \in DOMAIN rows |->
          [c \in {ids[i] : i \in {j \in DOMAIN ids : rows[b][j] # Absent}} |->
             rows[b][PlaceOf(ids, c)]]]
    BY <1>1 DEF RawVotes
  <2> HIDE DEF rows, ids
  <2>2. QED
    BY <1>4, <2>1 DEF Columns, MarkRead, ids
<1>6. ASSUME NEW b \in DOMAIN votes
      PROVE  /\ {IdKey(c) : c \in DOMAIN r.cvr[b]} = {ScoreKey(votes[b][i]) : i \in counted(b)}
             /\ \A c \in DOMAIN r.cvr[b] : r.cvr[b][c] = votes[b][Min(for(b, c))].score
  <2> DEFINE v == votes[b]
             C == Columns(list, v)
  <2>1. v \in Votes /\ r.cvr[b] = [c \in C |-> MarkRead(list, v, c)]
    BY <1>2, <1>5
  <2>2. \A c : Given(list, v, c, DOMAIN v) = for(b, c)
    BY DEF Given
  <2> HIDE DEF v, for
  <2>3. /\ {IdKey(c) : c \in C} = {ScoreKey(v[i]) : i \in {j \in DOMAIN v : IsCounted(list, v[j])}}
        /\ \A c \in C : MarkRead(list, v, c) = v[Min(Given(list, v, c, DOMAIN v))].score
    BY <1>1, <2>1, RowRead
  <2> HIDE DEF C
  <2>4. DOMAIN r.cvr[b] = C /\ \A c \in C : r.cvr[b][c] = v[Min(for(b, c))].score
    BY <2>1, <2>2, <2>3
  <2>5. QED
    BY <2>3, <2>4 DEF v
<1>7. left = PairsOf(LeftOuts(list, votes), n)
  <2>1. \A b \in DOMAIN votes : LeftOuts(list, votes)[b] = DOMAIN votes[b] \ counted(b)
    BY DEF LeftOuts, LeftOut
  <2> HIDE DEF counted
  <2>2. QED
    BY <1>2, <2>1 DEF PairsOf
<1>8. unknown = PairsOf(Unknowns(list, votes), n)
  <2> DEFINE odd(b) == Unknown(list, votes[b], DOMAIN votes[b])
  <2>1. \A b \in DOMAIN votes :
          odd(b) = {i \in DOMAIN votes[b] \ counted(b) : EntryOf(list, Norm[votes[b][i].id]) = {}}
    BY DEF Unknown, IsUnknown
  <2>2. unknown = UNION {{<<b, i>> : i \in odd(b)} : b \in DOMAIN votes}
    <3>1. \A q : q \in left <=>
            \E b \in DOMAIN votes : \E i \in DOMAIN votes[b] \ counted(b) : q = <<b, i>>
      OBVIOUS
    <3>2. \A q : q \in UNION {{<<b, i>> : i \in odd(b)} : b \in DOMAIN votes} <=>
            \E b \in DOMAIN votes : \E i \in odd(b) : q = <<b, i>>
      OBVIOUS
    <3> HIDE DEF left, odd, counted
    <3>3. ASSUME NEW q \in unknown PROVE q \in UNION {{<<b, i>> : i \in odd(b)} : b \in DOMAIN votes}
      <4>1. PICK b \in DOMAIN votes : \E i \in DOMAIN votes[b] \ counted(b) : q = <<b, i>>
        BY <3>1
      <4>2. PICK i \in DOMAIN votes[b] \ counted(b) : q = <<b, i>>
        BY <4>1
      <4>3. EntryOf(list, Norm[votes[b][i].id]) = {}
        BY <4>2
      <4> HIDE DEF unknown
      <4>4. i \in odd(b)
        BY <2>1, <4>3
      <4>5. QED
        BY <3>2, <4>2, <4>4
    <3>4. ASSUME NEW q \in UNION {{<<b, i>> : i \in odd(b)} : b \in DOMAIN votes}
          PROVE  q \in unknown
      <4>1. PICK b \in DOMAIN votes : \E i \in odd(b) : q = <<b, i>>
        BY <3>2
      <4>2. PICK i \in odd(b) : q = <<b, i>>
        BY <4>1
      <4>3. i \in DOMAIN votes[b] \ counted(b) /\ EntryOf(list, Norm[votes[b][i].id]) = {}
        BY <2>1, <4>2
      <4>4. q \in left
        BY <3>1, <4>2, <4>3
      <4>5. q[1] = b /\ q[2] = i
        BY <4>2
      <4>6. QED
        BY <4>3, <4>4, <4>5
    <3> HIDE DEF unknown
    <3>5. QED
      BY <3>3, <3>4
  <2>3. \A b \in DOMAIN votes : Unknowns(list, votes)[b] = odd(b)
    BY DEF Unknowns
  <2> HIDE DEF odd, unknown
  <2>4. QED
    BY <1>2, <2>2, <2>3 DEF PairsOf
<1>9. r.excluded = Cardinality(left) /\ r.unprocessed = Cardinality(unknown)
  BY <1>1, <1>3, <1>7, <1>8 DEF Holds
<1>10. QED
  <2> HIDE DEF left, unknown, for, counted
  <2>1. /\ DOMAIN r.cvr = DOMAIN votes
        /\ \A b \in DOMAIN votes :
             /\ {IdKey(c) : c \in DOMAIN r.cvr[b]} = {ScoreKey(votes[b][i]) : i \in counted(b)}
             /\ \A c \in DOMAIN r.cvr[b] : r.cvr[b][c] = votes[b][Min(for(b, c))].score
        /\ r.excluded = Cardinality(left)
        /\ r.unprocessed = Cardinality(unknown)
    BY <1>5, <1>6, <1>9
  <2>2. QED
    BY <2>1 DEF Accounted, left, unknown, for, counted, list, votes

(* What is needed of a request that has read the list, and of its answer.    *)
AnswerInv ==
  /\ reading # NoResult => Listing(reading.list)
  /\ ScoresAccounted

LEMMA AnswerStep ==
  ASSUME WriteInInv, AnswerInv, [WriteInNext]_writeInVars
  PROVE  AnswerInv'
<1>1. CASE ReadElection
  <2>1. reading' = [set |-> TRUE, list |-> row.list] /\ result' = NoResult
    BY <1>1 DEF ReadElection
  <2>2. Listing(reading'.list)
    BY <2>1 DEF WriteInInv, IsList, IsEntry, Listing
  <2>3. QED
    BY <2>1, <2>2 DEF AnswerInv, ScoresAccounted, Listing
<1>2. CASE StreamBallots
  <2> DEFINE list == reading.list
             p == Projected(list, ballots)
  <2>1. /\ reading' = NoResult /\ Listing(list) /\ ballots \in Seq(Votes)
        /\ result' = [set |-> TRUE, list |-> list, votes |-> ballots,
                      cvr |-> RawVotes(p.store, CandidateIds(list)),
                      unprocessed |-> p.unprocessed, excluded |-> p.excluded]
    BY <1>2 DEF StreamBallots, AnswerInv, WriteInInv
  <2> HIDE DEF list, p
  <2>2. /\ result'.list = list /\ result'.votes = ballots
        /\ result'.cvr = RawVotes(p.store, CandidateIds(list))
        /\ result'.unprocessed = p.unprocessed /\ result'.excluded = p.excluded
    BY <2>1
  <2>3. Accounted(result')
    BY <2>1, <2>2, AnswerAccounted DEF p
  <2>4. ScoresAccounted'
    BY <2>3 DEF ScoresAccounted, Accounted
  <2>5. QED
    BY <2>1, <2>4 DEF AnswerInv
<1>3. CASE UNCHANGED <<reading, result>>
  <2>1. reading' # NoResult => Listing(reading'.list)
    BY <1>3 DEF AnswerInv
  <2>2. result' # NoResult => Accounted(result')
    BY <1>3 DEF AnswerInv, ScoresAccounted
  <2>3. ScoresAccounted'
    BY <2>2 DEF ScoresAccounted, Accounted
  <2>4. QED
    BY <2>1, <2>3 DEF AnswerInv, Listing
<1>4. QED
  BY <1>1, <1>2, <1>3 DEF WriteInNext, writeInVars, Cast, OpenPage, FetchNames, Leave,
    SetRead, SetWrite, SetRefused, CheckApproved, EditName

(* Every score of every ballot is counted, with the mark the voter gave, for *)
(* the candidate it names or the approved write-in with its key, or is one   *)
(* of those the results report as left out (projectBallots, CvrStore.ts).    *)
THEOREM ScoresAreAccounted == WriteInSpec => []ScoresAccounted
<1>1. WriteInInit => AnswerInv
  BY DEF WriteInInit, AnswerInv, ScoresAccounted
<1>2. WriteInInv /\ AnswerInv /\ [WriteInNext]_writeInVars => AnswerInv'
  BY AnswerStep
<1>3. AnswerInv => ScoresAccounted
  BY DEF AnswerInv
<1>4. QED
  BY <1>1, <1>2, <1>3, WriteInInvariant, PTL DEF WriteInSpec
-----------------------------------------------------------------------------
(* Upload.                                                                   *)
(* What was stored as one of the ballots of the file, and once there is an   *)
(* order of the candidates, all there is.                                    *)
IsFile(f) == f.rows \in Seq(Seq(STRING) \cup {NoRow}) /\ f.index \in BOOLEAN
IsOrder ==
  /\ order \in [1..Cardinality(CandidateNames) -> CandidateNames]
  /\ \A i, j \in 1..Cardinality(CandidateNames) : i # j => order[i] # order[j]

(* The good rows, in the order of the file.                                  *)
LEMMA RowsListed ==
  ASSUME IsFile(file)
  PROVE  /\ Len(file.rows) \in Nat /\ DOMAIN file.rows = 1..Len(file.rows)
         /\ Len(GoodRows) \in Nat /\ DOMAIN GoodRows = 1..Len(GoodRows)
         /\ Range(GoodRows) = DOMAIN file.rows \ ErrorRows
         /\ \A k \in DOMAIN GoodRows : GoodRows[k] \in DOMAIN file.rows /\ GoodRows[k] \in Nat
         /\ \A i \in Range(GoodRows) : file.rows[i] \in Seq(STRING)
         /\ \A j, k \in DOMAIN GoodRows : j < k => GoodRows[j] < GoodRows[k]
         /\ \A j, k \in DOMAIN GoodRows : GoodRows[j] = GoodRows[k] => j = k
         /\ Len(GoodRows) <= Len(file.rows)
         /\ Len(GoodRows) = Len(file.rows) =>
              /\ ErrorRows = {}
              /\ Len(GoodRows) > 0 => GoodRows[Len(GoodRows)] = Len(file.rows)
<1> DEFINE D == DOMAIN file.rows
           I == D \ ErrorRows
           m == Len(file.rows)
           n == Cardinality(I)
<1>1. m \in Nat /\ D = 1..m
  BY DEF IsFile
<1>2. IsFiniteSet(D) /\ Cardinality(D) = m
  BY <1>1, FS_Interval
<1>3. IsFiniteSet(I) /\ n \in Nat /\ n <= m /\ (n = m => I = D)
  BY <1>1, <1>2, FS_Subset, FS_CardinalityType
<1>4. \A i \in I : i \in Int /\ i \in Nat
  BY <1>1
<1>5. /\ GoodRows \in Seq(I) /\ DOMAIN GoodRows = 1..n /\ ToSet(GoodRows) = I
      /\ \A j, k \in 1..n : j < k => GoodRows[j] < GoodRows[k]
  <2> HIDE DEF I
  <2>1. QED
    BY <1>3, <1>4, AscendingSorts DEF GoodRows, I
<1>6. Len(GoodRows) = n
  BY <1>3, <1>5
<1>7. Range(GoodRows) = I
  BY <1>5 DEF ToSet, Range
<1>8. \A k \in 1..n : GoodRows[k] \in I /\ GoodRows[k] \in Int
  BY <1>4, <1>5, <1>7 DEF Range
<1>9. \A j, k \in 1..n : GoodRows[j] = GoodRows[k] => j = k
  <2>1. TAKE j, k \in 1..n
  <2>2. HAVE GoodRows[j] = GoodRows[k]
  <2> HIDE DEF I, n
  <2>3. GoodRows[j] \in Int /\ j \in Int /\ k \in Int
    BY <1>3, <1>8
  <2>4. ~(j < k) /\ ~(k < j)
    BY <1>5, <2>2, <2>3
  <2>5. QED
    BY <2>3, <2>4
<1>10. ASSUME n = m PROVE ErrorRows = {} /\ (n > 0 => GoodRows[n] = m)
  <2>1. ErrorRows = {}
    BY <1>3, <1>10 DEF ErrorRows
  <2>2. ASSUME n > 0 PROVE GoodRows[n] = m
    <3>1. m \in I
      BY <1>1, <1>3, <1>10, <2>2
    <3>2. PICK j \in 1..n : GoodRows[j] = m
      BY <1>5, <1>7, <3>1 DEF Range
    <3>3. GoodRows[n] \in 1..m /\ n \in 1..n /\ j \in Int
      <4> HIDE DEF n
      <4>1. n \in 1..n
        BY <1>3, <2>2
      <4>2. QED
        BY <1>1, <1>3, <1>8, <4>1
    <3>4. j < n => m < GoodRows[n]
      BY <1>5, <3>2, <3>3
    <3>5. QED
      BY <1>1, <1>3, <3>2, <3>3, <3>4
  <2>3. QED
    BY <2>1, <2>2
<1>11. \A i \in I : file.rows[i] \in Seq(STRING)
  BY <1>1 DEF IsFile, ErrorRows
<1>12. \A k \in 1..n : GoodRows[k] \in D /\ GoodRows[k] \in Nat
  BY <1>4, <1>8
<1> HIDE DEF n, I
<1>13. Range(GoodRows) = D \ ErrorRows
  BY <1>7 DEF I
<1>14. QED
  BY <1>1, <1>3, <1>5, <1>6, <1>7, <1>9, <1>10, <1>11, <1>12, <1>13

(* The rank of a cell is the first column that holds it.                     *)
LEMMA FirstColumnRanks ==
  ASSUME NEW cells \in Seq(STRING), NEW cell
  PROVE  LET r == FirstColumn(cells, cell)
         IN /\ r \in Nat \cup {NoRank}
            /\ r = NoRank <=> cell \notin Range(cells)
            /\ cell \in Range(cells) =>
                 /\ r \in DOMAIN cells /\ cells[r] = cell
                 /\ \A k \in 1..(r - 1) : cells[k] # cell
<1> DEFINE S == {k \in DOMAIN cells : cells[k] = cell}
           r == FirstColumn(cells, cell)
<1>1. DOMAIN cells = 1..Len(cells) /\ Len(cells) \in Nat
  OBVIOUS
<1>2. CASE cell \in Range(cells)
  <2>1. S # {} /\ S \in SUBSET (1..Len(cells))
    BY <1>1, <1>2 DEF Range
  <2>2. IsFiniteSet(S) /\ \A k \in S : k \in Int
    <3> HIDE DEF S
    <3>1. QED
      BY <1>1, <2>1, Places
  <2>3. Min(S) \in S /\ \A k \in S : Min(S) <= k
    <3> HIDE DEF S
    <3>1. QED
      BY <2>1, <2>2, FiniteExtremes
  <2>4. r = Min(S)
    BY <1>2 DEF FirstColumn
  <2>5. r \in DOMAIN cells /\ cells[r] = cell /\ r \in Nat \ {0}
    BY <1>1, <2>3, <2>4
  <2>6. \A k \in 1..(r - 1) : cells[k] # cell
    <3>1. \A k \in S : r <= k
      BY <2>3, <2>4
    <3>2. QED
      BY <1>1, <2>5, <3>1
  <2>7. r # NoRank
    BY <2>5, UploadAssumption DEF FilesAssumption
  <2>8. QED
    BY <1>2, <2>5, <2>6, <2>7
<1>3. CASE cell \notin Range(cells)
  BY <1>3 DEF FirstColumn
<1>4. QED
  BY <1>2, <1>3

(* A name is repeated in a row if two columns hold it.                       *)
LEMMA DuplicatesAre ==
  ASSUME NEW cells \in Seq(STRING)
  PROVE  /\ HasDuplicate(cells) \in BOOLEAN
         /\ HasDuplicate(cells) <=>
              \E j, k \in DOMAIN cells : j < k /\ cells[j] = cells[k] /\ cells[j] # "skipped"
<1> DEFINE K == NonSkipped(cells)
           T == {cells[k] : k \in K}
           f == [k \in K |-> cells[k]]
<1>1. DOMAIN cells = 1..Len(cells) /\ Len(cells) \in Nat
  OBVIOUS
<1>2. IsFiniteSet(K) /\ K \in SUBSET DOMAIN cells
  <2>1. K \in SUBSET DOMAIN cells
    BY DEF NonSkipped
  <2> HIDE DEF K
  <2>2. QED
    BY <1>1, <2>1, Places
<1>3. f \in Surjection(K, T)
  BY DEF Surjection
<1>4. Cardinality(T) = Cardinality(K) <=> f \in Injection(K, T)
  <2> HIDE DEF K, T, f
  <2>1. QED
    BY <1>2, <1>3, FS_Surjection
<1>5. f \in Injection(K, T) <=> \A j, k \in K : cells[j] = cells[k] => j = k
  BY DEF Injection, IsInjective
<1>6. (\A j, k \in K : cells[j] = cells[k] => j = k)
        <=> ~\E j, k \in DOMAIN cells : j < k /\ cells[j] = cells[k] /\ cells[j] # "skipped"
  BY <1>1 DEF NonSkipped
<1>7. HasDuplicate(cells) <=> Cardinality(T) # Cardinality(K)
  BY DEF HasDuplicate
<1>8. HasDuplicate(cells) \in BOOLEAN
  BY DEF HasDuplicate
<1>9. QED
  BY <1>4, <1>5, <1>6, <1>7, <1>8, Zenon

(* Every candidate has a place in the order.                                 *)
LEMMA OrderIsFull ==
  ASSUME IsFile(file), IsOrder
  PROVE  /\ IsFiniteSet(CandidateNames) /\ Cardinality(CandidateNames) \in Nat
         /\ order \in Seq(CandidateNames) /\ Len(order) = Cardinality(CandidateNames)
         /\ DOMAIN order = 1..Cardinality(CandidateNames)
         /\ {order[j] : j \in DOMAIN order} = CandidateNames
         /\ \A i, j \in DOMAIN order : order[i] = order[j] => i = j
<1> DEFINE G == Range(GoodRows)
           R == {Range(file.rows[i]) : i \in G}
           N == Cardinality(CandidateNames)
<1>1. /\ G \in SUBSET DOMAIN file.rows /\ DOMAIN file.rows = 1..Len(file.rows)
      /\ Len(file.rows) \in Nat /\ \A i \in G : file.rows[i] \in Seq(STRING)
  BY RowsListed DEF IsFile
<1>2. IsFiniteSet(G)
  <2> HIDE DEF G
  <2>1. QED
    BY <1>1, Places
<1>3. \A i \in G : IsFiniteSet(Range(file.rows[i]))
  <2>1. TAKE i \in G
  <2>2. QED
    BY <1>1, FiniteRange
<1>4. IsFiniteSet(R)
  <2> DEFINE g == [i \in G |-> Range(file.rows[i])]
  <2>1. g \in Surjection(G, R)
    BY DEF Surjection
  <2> HIDE DEF g, G, R
  <2>2. QED
    BY <1>2, <2>1, FS_Surjection
<1>5. IsFiniteSet(UNION R)
  <2>1. \A T \in R : IsFiniteSet(T)
    BY <1>3
  <2> HIDE DEF R
  <2>2. QED
    BY <1>4, <2>1, FS_UNION
<1>6. IsFiniteSet(CandidateNames) /\ N \in Nat
  BY <1>5, FS_Subset, FS_CardinalityType DEF CandidateNames
<1>7. order \in [1..N -> CandidateNames] /\ \A i, j \in 1..N : order[i] = order[j] => i = j
  BY DEF IsOrder
<1> HIDE DEF N
<1>8. order \in Injection(1..N, CandidateNames)
  BY <1>7 DEF Injection, IsInjective
<1>9. Cardinality(1..N) = N
  BY <1>6, FS_Interval
<1>10. order \in Surjection(1..N, CandidateNames)
  BY <1>6, <1>8, <1>9, FS_Injection DEF N
<1>11. {order[j] : j \in DOMAIN order} = CandidateNames
  BY <1>7, <1>10 DEF Surjection
<1>12. order \in Seq(CandidateNames) /\ Len(order) = N /\ DOMAIN order = 1..N
  BY <1>6, <1>7
<1>13. QED
  BY <1>6, <1>7, <1>11, <1>12 DEF N

(* The encoded ballot of a row: the ranks of the candidates and the flags.   *)
LEMMA OrderedIs ==
  ASSUME IsFile(file), IsOrder, NEW cells \in Seq(STRING)
  PROVE  LET marks == Ordered(cells)
         IN /\ Len(marks) = Len(order) + 2
            /\ \A j \in DOMAIN order : marks[j] = FirstColumn(cells, order[j])
            /\ marks[Len(marks) - 1] = FirstColumn(cells, "overvote")
            /\ marks[Len(marks)] = HasDuplicate(cells)
<1> DEFINE V == Nat \cup {NoRank} \cup BOOLEAN
           a == [j \in DOMAIN order |-> FirstColumn(cells, order[j])]
           x == FirstColumn(cells, "overvote")
           y == HasDuplicate(cells)
<1>1. Len(order) \in Nat /\ DOMAIN order = 1..Len(order)
  BY OrderIsFull
<1>2. x \in V /\ \A j \in DOMAIN order : a[j] \in V
  BY FirstColumnRanks
<1>3. y \in V
  BY DuplicatesAre
<1>4. a \in Seq(V) /\ Len(a) = Len(order)
  <2>1. a \in [1..Len(order) -> V]
    BY <1>1, <1>2
  <2> HIDE DEF a, V
  <2>2. QED
    BY <1>1, <2>1
<1>5. \A j \in DOMAIN order : a[j] = FirstColumn(cells, order[j])
  OBVIOUS
<1>6. Ordered(cells) = a \o <<x, y>>
  BY DEF Ordered
<1> HIDE DEF a, x, y, V
<1>7. <<x, y>> \in Seq(V) /\ Len(<<x, y>>) = 2
  BY <1>2, <1>3
<1>8. /\ Len(a \o <<x, y>>) = Len(order) + 2
      /\ \A j \in 1..Len(order) : (a \o <<x, y>>)[j] = a[j]
      /\ (a \o <<x, y>>)[Len(order) + 1] = x /\ (a \o <<x, y>>)[Len(order) + 2] = y
  BY <1>1, <1>4, <1>7, ConcatProperties
<1>9. Len(order) + 2 - 1 = Len(order) + 1
  BY <1>1
<1>10. QED
  BY <1>1, <1>5, <1>6, <1>8, <1>9 DEF x, y

(* A stored ballot says what its row says.                                   *)
LEMMA BallotsTrue ==
  ASSUME IsFile(file), IsOrder, NEW k \in DOMAIN GoodRows
  PROVE  AsInFile(Ballot(k)) /\ Ballot(k).row = GoodRows[k]
<1> DEFINE cells == file.rows[GoodRows[k]]
           marks == Ordered(cells)
           rec(j) == [id |-> order[j], score |-> marks[j]]
           scores == {rec(j) : j \in DOMAIN order}
           b == Ballot(k)
<1>1. cells \in Seq(STRING)
  BY RowsListed DEF Range
<1>2. OrderedBallots[k] = marks
  BY DEF OrderedBallots
<1>3. /\ b.row = GoodRows[k] /\ b.vote.scores = scores
      /\ b.vote.overvote = marks[Len(marks) - 1] /\ b.vote.duplicate = marks[Len(marks)]
  BY <1>2 DEF Ballot, Verbose
<1>4. /\ \A j \in DOMAIN order : marks[j] = FirstColumn(cells, order[j])
      /\ marks[Len(marks) - 1] = FirstColumn(cells, "overvote")
      /\ marks[Len(marks)] = HasDuplicate(cells)
  <2> HIDE DEF cells
  <2>1. QED
    BY <1>1, OrderedIs
<1>5. /\ {order[j] : j \in DOMAIN order} = CandidateNames
      /\ \A i, j \in DOMAIN order : order[i] = order[j] => i = j
      /\ DOMAIN order = 1..Cardinality(CandidateNames)
      /\ Cardinality(CandidateNames) \in Nat
  BY OrderIsFull
<1> HIDE DEF cells, marks, b
<1>6. \A j \in DOMAIN order : rec(j).id = order[j] /\ rec(j).score = marks[j]
  OBVIOUS
<1>7. {s.id : s \in scores} = CandidateNames
  <2>1. {s.id : s \in scores} = {order[j] : j \in DOMAIN order}
    BY <1>6
  <2>2. QED
    BY <1>5, <2>1
<1>8. Cardinality(scores) = Cardinality(CandidateNames)
  <2> DEFINE f == [j \in DOMAIN order |-> rec(j)]
  <2>1. f \in Surjection(DOMAIN order, scores)
    BY DEF Surjection
  <2>2. f \in Injection(DOMAIN order, scores)
    <3>1. \A i, j \in DOMAIN order : f[i] = f[j] => i = j
      BY <1>5, <1>6
    <3>2. f \in [DOMAIN order -> scores]
      OBVIOUS
    <3>3. QED
      BY <3>1, <3>2 DEF Injection, IsInjective
  <2>3. IsFiniteSet(DOMAIN order) /\ Cardinality(DOMAIN order) = Cardinality(CandidateNames)
    BY <1>5, FS_Interval
  <2> HIDE DEF f, scores
  <2>4. QED
    BY <2>1, <2>2, <2>3, FS_Surjection
<1>9. ASSUME NEW s \in scores
      PROVE  IF s.score = NoRank THEN s.id \notin Range(cells)
             ELSE cells[s.score] = s.id /\ \A c \in 1..(s.score - 1) : cells[c] # s.id
  <2>1. PICK j \in DOMAIN order : s.id = order[j] /\ s.score = FirstColumn(cells, order[j])
    BY <1>4, <1>6
  <2>2. QED
    BY <1>1, <2>1, FirstColumnRanks
<1>10. (b.vote.overvote # NoRank) = ("overvote" \in Range(cells))
  BY <1>1, <1>3, <1>4, FirstColumnRanks
<1>11. b.vote.duplicate =
         \E i, j \in DOMAIN cells : i < j /\ cells[i] = cells[j] /\ cells[i] # "skipped"
  BY <1>1, <1>3, <1>4, DuplicatesAre, Zenon
<1>12. cells = file.rows[b.row]
  BY <1>3 DEF cells
<1> HIDE DEF scores
<1>13. QED
  BY <1>3, <1>7, <1>8, <1>9, <1>10, <1>11, <1>12 DEF AsInFile, b

(* The rows stored by now: a row behind nextIndex has no ballot yet, unless  *)
(* of a batch whose answer was lost; one before it has a ballot, and more    *)
(* than one only in that case.                                               *)
Ballots == {Ballot(k) : k \in DOMAIN GoodRows}
Counted ==
  \A k \in DOMAIN GoodRows :
    LET i == GoodRows[k] IN
    /\ k <= next => Copies(i) # 0
    /\ k > next => Copies(i) = 0 \/ i \in unheard
    /\ Copies(i) > 1 => i \in unheard /\ ~file.index

UploadInv ==
  /\ IsFile(file) /\ next \in Nat /\ batch \in Nat
  /\ process \in {"picked", "creating", "converting", "uploading", "posted", "stopped"}
  /\ process \in {"picked", "creating", "converting"} => kept = <<>> /\ next = 0
  /\ process \in {"converting", "uploading", "posted"} \/ kept # <<>> => IsOrder
  /\ kept \in Seq(Ballots)
  /\ process \in {"uploading", "posted"} \/ status = "Done" => Counted
  /\ status = "Done" => process = "stopped" /\ next + 1 >= Len(file.rows)

(* Where a row is in what is stored, when more is put behind.                *)
At(s, i) == {p \in DOMAIN s : s[p].row = i}
LEMMA Appended ==
  ASSUME NEW V, NEW s \in Seq(V), NEW t \in Seq(V), NEW i
  PROVE  /\ Cardinality(At(s, i)) \in Nat
         /\ (\A j \in DOMAIN t : t[j].row # i) => At(s \o t, i) = At(s, i)
         /\ \A j \in DOMAIN t : (\A l \in DOMAIN t : t[l].row = i <=> l = j) =>
              Cardinality(At(s \o t, i)) = Cardinality(At(s, i)) + 1
<1> DEFINE m == Len(s)
           n == Len(t)
           u == s \o t
<1>1. /\ m \in Nat /\ n \in Nat /\ DOMAIN s = 1..m /\ DOMAIN t = 1..n
      /\ DOMAIN u = 1..(m + n)
      /\ \A p \in 1..m : u[p] = s[p]
      /\ \A l \in 1..n : u[m + l] = t[l]
  <2>1. u \in Seq(V) /\ Len(u) = m + n
    BY ConcatProperties
  <2>2. \A p \in 1..(m + n) : u[p] = IF p <= m THEN s[p] ELSE t[p - m]
    BY ConcatProperties
  <2>3. m \in Nat /\ n \in Nat /\ DOMAIN s = 1..m /\ DOMAIN t = 1..n
    OBVIOUS
  <2>4. DOMAIN u = 1..(m + n)
    BY <2>1
  <2> HIDE DEF u, m, n
  <2>5. \A p \in 1..m : u[p] = s[p]
    BY <2>2, <2>3
  <2>6. \A l \in 1..n : u[m + l] = t[l]
    <3>1. TAKE l \in 1..n
    <3>2. m + l \in 1..(m + n) /\ ~(m + l <= m) /\ (m + l) - m = l
      BY <2>3
    <3>3. QED
      BY <2>2, <3>2
  <2>7. QED
    BY <2>3, <2>4, <2>5, <2>6
<1> HIDE DEF m, n, u
<1>2. IsFiniteSet(At(s, i)) /\ Cardinality(At(s, i)) \in Nat /\ At(s, i) \subseteq 1..m
  <2>1. At(s, i) \subseteq 1..m
    BY <1>1 DEF At
  <2>2. QED
    BY <1>1, <2>1, Places
<1>3. \A p \in 1..(m + n) : p \in 1..m \/ \E l \in 1..n : p = m + l
  <2>1. TAKE p \in 1..(m + n)
  <2>2. CASE p <= m
    BY <1>1, <2>2
  <2>3. CASE ~(p <= m)
    <3>1. p - m \in 1..n /\ p = m + (p - m)
      BY <1>1, <2>3
    <3>2. QED
      BY <3>1
  <2>4. QED
    BY <2>2, <2>3
<1>4. At(u, i) = At(s, i) \cup {m + l : l \in At(t, i)}
  <2>1. \A p \in At(u, i) : p \in At(s, i) \/ \E l \in At(t, i) : p = m + l
    BY <1>1, <1>3 DEF At
  <2>2. \A p \in At(s, i) : p \in At(u, i)
    BY <1>1 DEF At
  <2>3. \A l \in At(t, i) : m + l \in At(u, i)
    BY <1>1 DEF At
  <2>4. QED
    BY <2>1, <2>2, <2>3
<1>5. (\A j \in DOMAIN t : t[j].row # i) => At(u, i) = At(s, i)
  BY <1>4 DEF At
<1>6. ASSUME NEW j \in DOMAIN t, \A l \in DOMAIN t : t[l].row = i <=> l = j
      PROVE  Cardinality(At(u, i)) = Cardinality(At(s, i)) + 1
  <2>1. At(t, i) = {j}
    BY <1>6 DEF At
  <2>2. At(u, i) = At(s, i) \cup {m + j}
    BY <1>4, <2>1
  <2>3. m + j \notin At(s, i)
    BY <1>1, <1>2
  <2>4. QED
    BY <1>2, <2>2, <2>3, FS_AddElement
<1>7. QED
  BY <1>2, <1>5, <1>6 DEF u

(* The places of a slice follow nextIndex.                                   *)
LEMMA SliceIs ==
  ASSUME IsFile(file), next \in Nat, batch \in Nat
  PROVE  /\ Cardinality(Slice) \in Nat
         /\ \A k : k \in Slice <=> \E j \in 1..Cardinality(Slice) : k = next + j
         /\ Slice \subseteq DOMAIN GoodRows
<1> DEFINE n == Len(GoodRows)
<1>1. n \in Nat /\ DOMAIN GoodRows = 1..n
  BY RowsListed
<1> HIDE DEF n
<1>2. PICK h \in Nat : (h = n \/ h = next + batch) /\ h <= n /\ h <= next + batch
  <2>1. n <= next + batch \/ next + batch <= n
    BY <1>1
  <2>2. next + batch \in Nat
    OBVIOUS
  <2>3. QED
    BY <1>1, <2>1, <2>2
<1>3. Slice = (next + 1)..h
  BY <1>1, <1>2 DEF Slice
<1>4. Cardinality(Slice) = IF next + 1 > h THEN 0 ELSE h - (next + 1) + 1
  BY <1>2, <1>3, FS_Interval
<1>5. ASSUME NEW k \in Slice PROVE k - next \in 1..Cardinality(Slice) /\ k = next + (k - next)
  BY <1>2, <1>3, <1>4
<1>6. \A j \in 1..Cardinality(Slice) : next + j \in Slice
  BY <1>2, <1>3, <1>4
<1>7. Cardinality(Slice) \in Nat
  BY <1>2, <1>4
<1>8. QED
  BY <1>5, <1>6, <1>7 DEF Slice

(* A batch adds one copy of each row of its slice, and nothing else.         *)
LEMMA Inserts ==
  ASSUME UploadInv, process = "posted", Insert
  PROVE  /\ kept' \in Seq(Ballots)
         /\ \A k \in DOMAIN GoodRows :
              /\ Copies(GoodRows[k]) \in Nat
              /\ Cardinality(At(kept', GoodRows[k])) =
                   Copies(GoodRows[k]) + IF k \in Slice THEN 1 ELSE 0
<1> DEFINE c == Cardinality(Slice)
           new == [i \in 1..c |-> Ballot(next + i)]
<1>1. IsFile(file) /\ next \in Nat /\ batch \in Nat /\ kept \in Seq(Ballots) /\ IsOrder
  BY DEF UploadInv
<1>2. /\ c \in Nat /\ \A k : k \in Slice <=> \E j \in 1..c : k = next + j
      /\ Slice \subseteq DOMAIN GoodRows
  BY <1>1, SliceIs
<1>3. new \in Seq(Ballots) /\ DOMAIN new = 1..c
  <2>1. \A i \in 1..c : Ballot(next + i) \in Ballots
    BY <1>2 DEF Ballots
  <2> HIDE DEF c
  <2>2. new \in [1..c -> Ballots]
    BY <2>1
  <2>3. QED
    BY <1>2, <2>2
<1>4. \A i \in 1..c : new[i].row = GoodRows[next + i]
  BY DEF Ballot
<1>5. kept' = kept \o new
  BY DEF Insert
<1>6. kept' \in Seq(Ballots)
  <2> HIDE DEF new
  <2>1. QED
    BY <1>1, <1>3, <1>5, ConcatProperties
<1> HIDE DEF c, new
<1>7. ASSUME NEW k \in DOMAIN GoodRows
      PROVE  /\ Copies(GoodRows[k]) \in Nat
             /\ Cardinality(At(kept', GoodRows[k])) =
                  Copies(GoodRows[k]) + IF k \in Slice THEN 1 ELSE 0
  <2>1. Copies(GoodRows[k]) = Cardinality(At(kept, GoodRows[k]))
    BY DEF Copies, At
  <2>2. \A l \in 1..c : new[l].row = GoodRows[k] <=> next + l = k
    <3>1. TAKE l \in 1..c
    <3>2. next + l \in DOMAIN GoodRows
      BY <1>2
    <3>3. QED
      BY <1>1, <1>4, <3>2, RowsListed
  <2>3. /\ Cardinality(At(kept, GoodRows[k])) \in Nat
        /\ (\A j \in DOMAIN new : new[j].row # GoodRows[k]) =>
             At(kept \o new, GoodRows[k]) = At(kept, GoodRows[k])
        /\ \A j \in DOMAIN new :
             (\A l \in DOMAIN new : new[l].row = GoodRows[k] <=> l = j) =>
               Cardinality(At(kept \o new, GoodRows[k])) =
                 Cardinality(At(kept, GoodRows[k])) + 1
    <3> DEFINE i == GoodRows[k]
    <3> HIDE DEF i
    <3>1. /\ Cardinality(At(kept, i)) \in Nat
          /\ (\A j \in DOMAIN new : new[j].row # i) => At(kept \o new, i) = At(kept, i)
          /\ \A j \in DOMAIN new : (\A l \in DOMAIN new : new[l].row = i <=> l = j) =>
               Cardinality(At(kept \o new, i)) = Cardinality(At(kept, i)) + 1
      BY <1>1, <1>3, Appended, Zenon
    <3>2. QED
      BY <3>1 DEF i
  <2>4. CASE k \notin Slice
    <3>1. \A l \in 1..c : new[l].row # GoodRows[k]
      BY <1>2, <2>2, <2>4
    <3>2. At(kept \o new, GoodRows[k]) = At(kept, GoodRows[k])
      BY <1>3, <2>3, <3>1
    <3>3. QED
      BY <1>5, <2>1, <2>3, <2>4, <3>2
  <2>5. CASE k \in Slice
    <3>1. PICK j \in 1..c : k = next + j
      BY <1>2, <2>5
    <3>2. \A l \in 1..c : next + l = k <=> l = j
      BY <1>1, <1>2, <3>1
    <3>3. \A l \in DOMAIN new : new[l].row = GoodRows[k] <=> l = j
      BY <1>3, <2>2, <3>2
    <3>4. Cardinality(At(kept \o new, GoodRows[k])) = Cardinality(At(kept, GoodRows[k])) + 1
      BY <1>3, <2>3, <3>1, <3>3
    <3>5. QED
      BY <1>5, <2>1, <2>3, <2>5, <3>4
  <2>6. QED
    BY <2>4, <2>5
<1>8. QED
  BY <1>6, <1>7

LEMMA CopiesCount ==
  ASSUME kept \in Seq(Ballots), NEW i
  PROVE  Copies(i) \in Nat /\ (kept = <<>> => Copies(i) = 0)
<1>1. Len(kept) \in Nat /\ DOMAIN kept = 1..Len(kept)
  OBVIOUS
<1>2. Copies(i) \in Nat
  <2>1. {p \in DOMAIN kept : kept[p].row = i} \subseteq 1..Len(kept)
    BY <1>1
  <2>2. QED
    BY <1>1, <2>1, Places DEF Copies
<1>3. ASSUME kept = <<>> PROVE Copies(i) = 0
  <2>1. {p \in DOMAIN kept : kept[p].row = i} = {}
    BY <1>3
  <2>2. QED
    BY <2>1, FS_EmptySet DEF Copies
<1>4. QED
  BY <1>2, <1>3

(* While the file and the order stay, so does what its ballots are.          *)
LEMMA SameFile ==
  ASSUME UNCHANGED <<file, order>>
  PROVE  /\ GoodRows' = GoodRows /\ Ballots' = Ballots
         /\ IsFile(file)' = IsFile(file) /\ IsOrder' = IsOrder
<1>1. GoodRows' = GoodRows
  BY DEF GoodRows, ErrorRows
<1>2. IsOrder' = IsOrder
  BY <1>1 DEF IsOrder, CandidateNames
<1>3. Ballots' = Ballots
  BY <1>1 DEF Ballots, Ballot, Verbose, OrderedBallots, Ordered
<1>4. QED
  BY <1>1, <1>2, <1>3 DEF IsFile
LEMMA SameCount ==
  ASSUME UNCHANGED <<file, order, next, kept, unheard>>
  PROVE  Counted' = Counted
<1>1. GoodRows' = GoodRows
  BY SameFile
<1>2. QED
  BY <1>1 DEF Counted, Copies

LEMMA UploadStarts == UploadInit => UploadInv
<1>1. SUFFICES ASSUME UploadInit PROVE UploadInv
  OBVIOUS
<1>2. IsFile(file) /\ batch \in Nat
  BY <1>1, UploadAssumption DEF UploadInit, FilesAssumption, IsFile
<1>3. kept = <<>> /\ next = 0 /\ process = "picked" /\ status = "Pending"
  BY <1>1 DEF UploadInit
<1>4. kept \in Seq(Ballots)
  BY <1>3
<1>5. QED
  BY <1>2, <1>3, <1>4 DEF UploadInv

LEMMA UploadSteps == UploadInv /\ [UploadNext]_uploadVars => UploadInv'
<1>1. SUFFICES ASSUME UploadInv, [UploadNext]_uploadVars PROVE UploadInv'
  OBVIOUS
<1>2. /\ IsFile(file) /\ next \in Nat /\ batch \in Nat /\ kept \in Seq(Ballots)
      /\ Len(file.rows) \in Nat
  BY <1>1, RowsListed DEF UploadInv
<1>3. (3 * batch + 2) \div 4 \in Nat
  BY <1>2
<1>4. CASE UNCHANGED uploadVars
  BY <1>1, <1>4, SameFile, SameCount DEF UploadInv, uploadVars
<1>5. CASE Submit
  BY <1>1, <1>5, SameFile DEF UploadInv, Submit, Stop
<1>6. CASE CreateElection
  <2>1. IsOrder'
    <3>1. CandidateNames' = CandidateNames
      BY <1>6 DEF CreateElection, CandidateNames, GoodRows, ErrorRows
    <3>2. QED
      BY <1>6, <3>1 DEF CreateElection, IsOrder, SetToSeqs
  <2>2. kept' = <<>>
    BY <1>1, <1>6 DEF UploadInv, CreateElection
  <2>3. kept' \in Seq(Ballots')
    BY <2>2
  <2>4. QED
    BY <1>1, <1>6, <2>1, <2>2, <2>3 DEF UploadInv, CreateElection, IsFile
<1>7. CASE ElectionRefused
  BY <1>1, <1>7, SameFile DEF UploadInv, ElectionRefused, Stop
<1>8. CASE CreateFails
  BY <1>1, <1>8, SameFile DEF UploadInv, CreateFails, Stop
<1>9. CASE Convert
  <2>1. kept = <<>> /\ next = 0
    BY <1>1, <1>9 DEF UploadInv, Convert
  <2>2. Counted
    BY <1>2, <2>1, CopiesCount, RowsListed DEF Counted
  <2>3. Counted'
    BY <1>9, <2>2, SameCount DEF Convert
  <2>4. QED
    BY <1>1, <1>9, <2>3, SameFile DEF UploadInv, Convert, Stop
<1>10. CASE Post
  <2>1. Counted'
    BY <1>1, <1>10, SameCount DEF UploadInv, Post
  <2>2. QED
    BY <1>1, <1>10, <2>1, SameFile DEF UploadInv, Post
<1>11. CASE Done
  <2>1. Counted'
    BY <1>1, <1>11, SameCount DEF UploadInv, Done
  <2>2. next + 1 >= Len(file.rows)
    BY <1>2, <1>11 DEF Done, More
  <2>3. QED
    BY <1>1, <1>11, <2>1, <2>2, SameFile DEF UploadInv, Done, Stop
<1>12. CASE UploadFails
  <2>1. Counted'
    BY <1>1, <1>12, SameCount DEF UploadInv, UploadFails
  <2>2. QED
    BY <1>1, <1>3, <1>12, <2>1, SameFile DEF UploadInv, UploadFails, Retry, Stop
<1>13. CASE Uploaded
  <2>1. /\ process = "posted" /\ Insertable /\ Insert /\ next' = next + batch
        /\ process' = "uploading"
        /\ UNCHANGED <<file, archive, status, order, batch, unheard>>
    BY <1>13 DEF Uploaded
  <2>2. /\ kept' \in Seq(Ballots)
        /\ \A k \in DOMAIN GoodRows :
             /\ Copies(GoodRows[k]) \in Nat
             /\ Cardinality(At(kept', GoodRows[k])) =
                  Copies(GoodRows[k]) + IF k \in Slice THEN 1 ELSE 0
    BY <1>1, <2>1, Inserts
  <2>3. Counted /\ GoodRows' = GoodRows
    BY <1>1, <2>1, SameFile DEF UploadInv
  <2>4. ASSUME NEW k \in DOMAIN GoodRows
        PROVE  LET i == GoodRows[k] IN
               /\ k <= next' => Cardinality(At(kept', i)) # 0
               /\ k > next' => Cardinality(At(kept', i)) = 0 \/ i \in unheard
               /\ Cardinality(At(kept', i)) > 1 => i \in unheard /\ ~file.index
    <3> DEFINE i == GoodRows[k]
    <3>1. k \in Int
      BY <1>2, RowsListed
    <3>2. /\ k <= next => Copies(i) # 0
          /\ k > next => Copies(i) = 0 \/ i \in unheard
          /\ Copies(i) > 1 => i \in unheard /\ ~file.index
      BY <2>3 DEF Counted
    <3>3. k \in Slice <=> k > next /\ k <= next'
      BY <2>1 DEF Slice
    <3>4. k \in Slice /\ file.index => Copies(i) = 0
      <4>1. SUFFICES ASSUME k \in Slice, file.index PROVE Copies(i) = 0
        OBVIOUS
      <4>2. \A p \in DOMAIN kept : kept[p].row # i
        BY <2>1, <4>1 DEF Insertable, Range
      <4>3. {p \in DOMAIN kept : kept[p].row = i} = {}
        BY <4>2
      <4>4. QED
        BY <4>3, FS_EmptySet DEF Copies
    <3>5. Copies(i) \in Nat /\
          Cardinality(At(kept', i)) = Copies(i) + IF k \in Slice THEN 1 ELSE 0
      BY <2>2
    <3>6. next' \in Nat /\ next' >= next
      BY <1>2, <2>1
    <3> HIDE DEF i
    <3>7. /\ k <= next' => Cardinality(At(kept', i)) # 0
          /\ k > next' => Cardinality(At(kept', i)) = 0 \/ i \in unheard
          /\ Cardinality(At(kept', i)) > 1 => i \in unheard /\ ~file.index
      BY <1>2, <3>1, <3>2, <3>3, <3>4, <3>5, <3>6
    <3>8. QED
      BY <3>7 DEF i
  <2>5. Counted'
    BY <2>1, <2>3, <2>4 DEF Counted, Copies, At
  <2>6. next' \in Nat
    BY <1>2, <2>1
  <2>7. QED
    BY <1>1, <2>1, <2>2, <2>5, <2>6, SameFile DEF UploadInv
<1>14. CASE StoredButFailed
  <2>1. /\ process = "posted" /\ Insertable /\ Insert /\ Retry
        /\ unheard' = unheard \cup {GoodRows[k] : k \in Slice}
        /\ UNCHANGED <<file, archive, order, next>>
    BY <1>14 DEF StoredButFailed
  <2>2. /\ kept' \in Seq(Ballots)
        /\ \A k \in DOMAIN GoodRows :
             /\ Copies(GoodRows[k]) \in Nat
             /\ Cardinality(At(kept', GoodRows[k])) =
                  Copies(GoodRows[k]) + IF k \in Slice THEN 1 ELSE 0
    BY <1>1, <2>1, Inserts
  <2>3. Counted /\ GoodRows' = GoodRows
    BY <1>1, <2>1, SameFile DEF UploadInv
  <2>4. ASSUME NEW k \in DOMAIN GoodRows
        PROVE  LET i == GoodRows[k] IN
               /\ k <= next => Cardinality(At(kept', i)) # 0
               /\ k > next => Cardinality(At(kept', i)) = 0 \/ i \in unheard'
               /\ Cardinality(At(kept', i)) > 1 => i \in unheard' /\ ~file.index
    <3> DEFINE i == GoodRows[k]
    <3>2. /\ k <= next => Copies(i) # 0
          /\ k > next => Copies(i) = 0 \/ i \in unheard
          /\ Copies(i) > 1 => i \in unheard /\ ~file.index
      BY <2>3 DEF Counted
    <3>3. k \in Slice => i \in unheard'
      BY <2>1
    <3>4. k \in Slice /\ file.index => Copies(i) = 0
      <4>1. SUFFICES ASSUME k \in Slice, file.index PROVE Copies(i) = 0
        OBVIOUS
      <4>2. \A p \in DOMAIN kept : kept[p].row # i
        BY <2>1, <4>1 DEF Insertable, Range
      <4>3. {p \in DOMAIN kept : kept[p].row = i} = {}
        BY <4>2
      <4>4. QED
        BY <4>3, FS_EmptySet DEF Copies
    <3>5. Copies(i) \in Nat /\
          Cardinality(At(kept', i)) = Copies(i) + IF k \in Slice THEN 1 ELSE 0
      BY <2>2
    <3>6. unheard \subseteq unheard'
      BY <2>1
    <3> HIDE DEF i
    <3>7. /\ k <= next => Cardinality(At(kept', i)) # 0
          /\ k > next => Cardinality(At(kept', i)) = 0 \/ i \in unheard'
          /\ Cardinality(At(kept', i)) > 1 => i \in unheard' /\ ~file.index
      BY <3>2, <3>3, <3>4, <3>5, <3>6
    <3>8. QED
      BY <3>7 DEF i
  <2>5. Counted'
    BY <2>1, <2>3, <2>4 DEF Counted, Copies, At
  <2>6. QED
    BY <1>1, <1>3, <2>1, <2>2, <2>5, SameFile DEF UploadInv, Retry, Stop
<1>15. CASE ConnectionLost
  <2>1. /\ process = "posted" /\ process' = "stopped" /\ status' = status
        /\ UNCHANGED <<file, archive, order, next, batch, unheard>>
    BY <1>15 DEF ConnectionLost, Stop
  <2>2. kept' \in Seq(Ballots)
    BY <1>1, <1>2, <1>15, Inserts DEF ConnectionLost
  <2>3. QED
    BY <1>1, <2>1, <2>2, SameFile DEF UploadInv
<1>16. CASE Ended
  BY <1>4, <1>16 DEF Ended
<1>17. QED
  BY <1>1, <1>4, <1>5, <1>6, <1>7, <1>8, <1>9, <1>10, <1>11, <1>12, <1>13, <1>14, <1>15,
     <1>16 DEF UploadNext

(* What it is for: the rows of a file that is done.                          *)
LEMMA UploadKeeps == UploadInv => RowsStoredOnce
<1>1. SUFFICES ASSUME UploadInv PROVE RowsStoredOnce
  OBVIOUS
<1>2. IsFile(file) /\ next \in Nat /\ kept \in Seq(Ballots)
  BY <1>1 DEF UploadInv
<1>3. ASSUME NEW b \in Range(kept) PROVE AsInFile(b)
  <2>1. b \in Ballots /\ kept # <<>>
    BY <1>2 DEF Range
  <2>2. IsOrder
    BY <1>1, <2>1 DEF UploadInv
  <2>3. QED
    BY <1>2, <2>1, <2>2, BallotsTrue DEF Ballots
<1>4. ASSUME status = "Done", NEW i \in Range(GoodRows)
      PROVE  \/ Copies(i) = 1
             \/ Copies(i) = 0 /\ ErrorRows = {} /\ i = Len(file.rows) /\ i = next + 1
             \/ Copies(i) > 1 /\ i \in unheard /\ ~file.index
  <2>1. PICK k \in DOMAIN GoodRows : i = GoodRows[k]
    BY DEF Range
  <2>2. Counted /\ next + 1 >= Len(file.rows)
    BY <1>1, <1>4 DEF UploadInv
  <2>3. /\ k <= next => Copies(i) # 0
        /\ Copies(i) > 1 => i \in unheard /\ ~file.index
    BY <2>1, <2>2 DEF Counted
  <2>4. Copies(i) \in Nat
    BY <1>2, CopiesCount
  <2>5. CASE Copies(i) = 0
    <3> DEFINE m == Len(file.rows)
               n == Len(GoodRows)
    <3>1. m \in Nat /\ n \in Nat /\ k \in 1..n /\ n <= m
      BY <1>2, RowsListed
    <3> HIDE DEF m, n
    <3>2. k > next /\ next + 1 >= m
      BY <1>2, <2>2, <2>3, <2>5, <3>1 DEF m
    <3>3. k = n /\ n = m /\ m = next + 1 /\ n > 0
      BY <1>2, <3>1, <3>2
    <3>4. ErrorRows = {} /\ GoodRows[n] = m
      BY <1>2, <3>3, RowsListed DEF m, n
    <3>5. QED
      BY <2>1, <2>5, <3>3, <3>4 DEF m
  <2>6. QED
    BY <2>3, <2>4, <2>5
<1>5. QED
  BY <1>3, <1>4 DEF RowsStoredOnce

(* However the batches of a file go (posted again with a smaller size,       *)
(* stored without an answer, cut off), the rows it has stored are those up to*)
(* nextIndex, and a second copy of one goes back to a lost answer.           *)
THEOREM UploadInvariant == UploadSpec => []UploadInv
<1>1. QED
  BY UploadStarts, UploadSteps, PTL DEF UploadSpec

(* The upload of cast vote records: every ballot it stores says what its row *)
(* says, and a file reported done has each row stored once, but for the two  *)
(* exceptions that RowsStoredOnce names.                                     *)
THEOREM RowsAreStoredOnce == UploadSpec => []RowsStoredOnce
<1>1. QED
  BY UploadInvariant, UploadKeeps, PTL
=============================================================================
