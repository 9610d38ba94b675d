----------------------------- MODULE IntentLife -----------------------------
(***************************************************************************)
(* What a strategy promises for each of its intents, whatever ticks,       *)
(* messages, order events and restarts it meets.  Only the latest intent   *)
(* ever moves: one that was entered and is followed by another before its  *)
(* exit is abandoned to the venue, one that was dropped stays dropped.     *)
(***************************************************************************)
EXTENDS Naturals

CONSTANT Intents   \* 1, 2, ... in the order they pass the gates

VARIABLES
    mode,     \* "dry", "gated" by a selector, or "direct"; never changes
    latest,   \* the latest intent, 0 before the first
    life      \* "new", "asked", "entered", "exited" or "dropped"

vars == <<mode, latest, life>>

\* What an intent that passes the gates may become at once.
FirstStages ==
    IF mode = "dry" THEN {"dropped"}
    ELSE IF mode = "gated" THEN {"asked"} ELSE {"entered", "dropped"}

Init ==
    /\ mode \in {"dry", "gated", "direct"}
    /\ latest = 0
    /\ life = [i \in Intents |-> "new"]

\* Nothing begins while an answer is awaited.
Begin(i) ==
    /\ latest' = latest + 1 /\ i = latest'
    /\ \A j \in Intents : life[j] # "asked"
    /\ \E stage \in FirstStages : life' = [life EXCEPT ![i] = stage]
    /\ UNCHANGED mode

Move(i, from, to) ==
    /\ i = latest /\ life[i] = from
    /\ life' = [life EXCEPT ![i] = to]
    /\ UNCHANGED <<mode, latest>>

Next == \E i \in Intents :
    \/ Begin(i)
    \/ Move(i, "asked", "entered") \/ Move(i, "asked", "dropped")
    \/ Move(i, "entered", "exited")

Spec == Init /\ [][Next]_vars

=============================================================================
