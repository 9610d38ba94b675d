-------------------------- MODULE ApprovalProtocol --------------------------
(***************************************************************************)
(* What the selector promises the strategies, without buffer, ranking or   *)
(* timer.  Parties ask one question at a time.  A decision settles every   *)
(* open question in one step: each of them is answered, with leave to      *)
(* trade or without, or forsaken for ever.                                 *)
(***************************************************************************)
CONSTANT Parties

VARIABLES
    phase,     \* "free", "waiting" for an answer, or "trading" by leave
    forsaken   \* parties whose open question will never be answered

vars == <<phase, forsaken>>

Open == {p \in Parties : phase[p] = "waiting" /\ p \notin forsaken}

Init ==
    /\ phase = [p \in Parties |-> "free"]
    /\ forsaken = {}

Ask(p) ==
    /\ phase[p] = "free"
    /\ phase' = [phase EXCEPT ![p] = "waiting"]
    /\ UNCHANGED forsaken

\* Only those who asked are answered, and only those answered may trade.
Decide(answered, leave) ==
    /\ leave \subseteq answered
    /\ phase' = [p \in Parties |->
                    IF p \notin answered THEN phase[p]
                    ELSE IF p \in leave THEN "trading" ELSE "free"]
    /\ forsaken' = forsaken \union (Open \ answered)

EndTrade(p) ==
    /\ phase[p] = "trading"
    /\ phase' = [phase EXCEPT ![p] = "free"]
    /\ UNCHANGED forsaken

Next ==
    \/ \E p \in Parties : Ask(p) \/ EndTrade(p)
    \/ \E answered, leave \in SUBSET Open : Decide(answered, leave)

Spec == Init /\ [][Next]_vars

=============================================================================
