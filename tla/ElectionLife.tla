---------------------------- MODULE ElectionLife ----------------------------
(***************************************************************************)
(* What the administration of one election promises, with no rows, no      *)
(* requests and no versions: every write is one step on the current        *)
(* record, changes what that write is for and nothing else, and moves the  *)
(* state along draft, finalized, open, closed, archived.  A scheduled      *)
(* election opens and closes by the clock only; an unscheduled one opens   *)
(* when it is finalized and is then opened and closed by hand.             *)
(***************************************************************************)
EXTENDS Naturals

CONSTANTS HasStart, HasEnd, Fields

VARIABLES
  state,   \* the election's state
  on,      \* which of the independent settings are switched on
  phase    \* 0: before start_time, 1: started, 2: past end_time

life == <<state, on, phase>>

Started == HasStart => phase >= 1

Ended == HasEnd /\ phase = 2

Become(new) == state' = new /\ UNCHANGED <<on, phase>>

Finalize == state = "draft" /\ Become("finalized")

Open == state = "finalized" /\ Started /\ Become("open")

Close == \/ state = "finalized" /\ Started /\ Ended /\ Become("closed")
         \/ state = "open" /\ Ended /\ Become("closed")

ByHand ==
  /\ ~HasStart /\ ~HasEnd
  /\ \/ state = "open" /\ Become("closed")
     \/ state = "closed" /\ Become("open")

Archive == state # "archived" /\ Become("archived")

Set(f) ==
  /\ f = "setup" => state = "draft"
  /\ on' = (on \ {f}) \cup ({f} \ on)
  /\ UNCHANGED <<state, phase>>

Tick == phase < 2 /\ phase' = phase + 1 /\ UNCHANGED <<state, on>>

Init == state \in {"draft", "finalized"} /\ on = {} /\ phase = 0

Next ==
  \/ Finalize \/ Open \/ Close \/ ByHand \/ Archive \/ Tick
  \/ \E f \in Fields : Set(f)

Spec == Init /\ [][Next]_life

=============================================================================
