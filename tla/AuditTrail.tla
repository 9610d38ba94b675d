----------------------------- MODULE AuditTrail -----------------------------
(***************************************************************************)
(* What a strategy leaves in its journal: the records that its callbacks   *)
(* write one by one, between the assignments to the strategy's attributes  *)
(* and the calls to the venue, and the learning module that writes one of  *)
(* them.                                                                   *)
(*                                                                         *)
(* A callback runs to completion before the next one starts, but a write   *)
(* may raise, which ends the callback where it stands, and the process may *)
(* die between any two steps.  A callback is therefore the sequence of its *)
(* steps: `todo` holds those that are left.  A step assigns attributes and *)
(* then writes a record or sends a request.                                *)
(*                                                                         *)
(* Orders and fills are those of plumbing mode, a market order to enter    *)
(* and one to exit.  Of the learning record are kept the intent and what   *)
(* slippage is measured against.                                           *)
(***************************************************************************)
EXTENDS Integers, Sequences

CONSTANTS
    FaultSets,   \* the combinations of faults under study
    MaxIntents,  \* bound: evaluations that build an intent
    MaxStarts    \* bound: starts of the process

FaultKinds == { "write_fails",    \* the journal raises
                "restart",        \* the process dies
                "partial_fill" }  \* an order fills in two events

ASSUME FaultsAssumption == FaultSets \subseteq SUBSET FaultKinds /\ FaultSets # {}
ASSUME BoundsAssumption == MaxIntents \in Nat /\ MaxStarts \in Nat

Intents == 1..MaxIntents
NoIntent == 0
States == { "FLAT", "EVALUATING", "PENDING_APPROVAL",
            "PENDING_ENTRY", "IN_POSITION", "EXITING" }

VARIABLES
    mode,      \* "dry", "gated" (by the selector) or "direct"; never changes
    faults,    \* the faults of this behaviour; never changes
    mem,       \* attributes of the strategy and its learning module
    todo,      \* steps left of the running callback
    written,   \* the records in the journal
    replayed,  \* what a reader who replays its transitions takes for the state
    working,   \* requests not answered yet, orders with their lots
    issued,    \* intents built so far
    priced,    \* intents whose rationale holds a positive mid; never changes
    ordered,   \* observer: requests ever made
    starts     \* observer: starts of the process

vars == <<mode, faults, mem, todo, written, replayed, working, issued,
          priced, ordered, starts>>
venueVars == <<working, ordered>>
journalVars == <<written, replayed>>

-----------------------------------------------------------------------------
(***************************************************************************)
(* Records and steps.                                                      *)
(***************************************************************************)
Events == { "STRATEGY_START", "STRATEGY_STOP", "FSM_TRANSITION", "GATE_REJECT",
            "GREEK_PASSED", "DRY_RUN_INTENT", "SELECTOR_REJECTED",
            "ORDER_SUBMIT", "ORDER_ERROR", "ORDER_REJECTED", "FILL",
            "LEARNING_RECORD", "PNL" }

Refs == Intents \cup {NoIntent}

\* `of` is no part of a record: it is the intent whose order was filled.
Record == [event : Events, ref : Refs, from : States, to : States,
           of : Refs, against : {"nothing", "mid", "fill"}]

\* What leaves the strategy for an intent: the request to the selector to judge
\* it, the order to enter and the order to exit.
Requests == [intent : Intents, side : {"ask", "entry", "exit"}]
Ask(i) == [intent |-> i, side |-> "ask"]

Memory == [state : States, active : Refs, pending : Refs,
           exitSubmitted : BOOLEAN, mids : SUBSET Intents]

Step == [mem : Memory, write : Record, send : SUBSET Requests]

Fresh == [state |-> "FLAT", active |-> NoIntent, pending |-> NoIntent,
          exitSubmitted |-> FALSE, mids |-> {}]

Entry(m, event, ref) ==
    [event |-> event, ref |-> ref, from |-> m.state, to |-> m.state,
     of |-> NoIntent, against |-> "nothing"]

Started == Entry(Fresh, "STRATEGY_START", NoIntent)

Writes(m, record) == [mem |-> m, write |-> record, send |-> {}]
Sends(m, i, side) ==
    [mem |-> m, write |-> Entry(m, "ORDER_SUBMIT", i), send |-> {[intent |-> i, side |-> side]}]

\* Mutant of Transition: the old state is read after the assignment.
TransitionReadsNew(m, s) ==
    LET after == [m EXCEPT !.state = s] IN
    Writes(after, Entry(after, "FSM_TRANSITION", m.active))

\* _transition: the state is assigned before the record is written.
Transition(m, s) ==
    LET after == [m EXCEPT !.state = s] IN
    Writes(after, [Entry(after, "FSM_TRANSITION", m.active) EXCEPT !.from = m.state])

Init ==
    /\ mode \in {"dry", "gated", "direct"}
    /\ faults \in FaultSets
    /\ mem = Fresh /\ todo = <<>>
    /\ written = {Started} /\ replayed = Started.to
    /\ working = [o \in Requests |-> 0]
    /\ issued = 0 /\ priced \in SUBSET Intents /\ ordered = {} /\ starts = 1

-----------------------------------------------------------------------------
(***************************************************************************)
(* The callbacks, as the steps they consist of.                            *)
(***************************************************************************)

\* Mutant of RegisterEntry: only the first entry of the process is kept.
RegisterEntryOnce(m, i) ==
    [m EXCEPT !.mids = IF i \in priced /\ @ = {} THEN {i} ELSE @]

\* register_entry, called between the transition and the ORDER_SUBMIT record.
RegisterEntry(m, i) ==
    [m EXCEPT !.mids = IF i \in priced THEN @ \cup {i} ELSE @]

\* Mutant of SubmitSteps: the order is sent before it is recorded.
SubmitStepsSendFirst(m, i) ==
    LET a == [m EXCEPT !.active = i, !.pending = NoIntent]
        p == [a EXCEPT !.state = "PENDING_ENTRY"]
        r == RegisterEntry(p, i)
    IN {<<Transition(a, "PENDING_ENTRY"), Sends(r, i, "entry"),
          Writes(r, Entry(r, "ORDER_SUBMIT", i))>>}

\* _submit_approved_intent with submit_entry; the second case is the missing
\* instrument of _journal_order_error, which keeps the active intent.
SubmitSteps(m, i) ==
    LET a == [m EXCEPT !.active = i, !.pending = NoIntent]
        p == [a EXCEPT !.state = "PENDING_ENTRY"]
        r == RegisterEntry(p, i)
        entering == Transition(a, "PENDING_ENTRY")
        announced == Writes(r, Entry(r, "ORDER_SUBMIT", i))
    IN { <<entering, announced, Sends(r, i, "entry")>>,
         <<entering, announced, Writes(r, Entry(r, "ORDER_ERROR", i)),
           Transition(r, "FLAT")>> }

\* _run_gate_pipeline after the transition to EVALUATING; m is the memory then.
GateSteps(m, i) ==
    LET passed == Writes(m, Entry(m, "GREEK_PASSED", i))
        q == [m EXCEPT !.pending = i]
    IN {<<Writes(m, Entry(m, "GATE_REJECT", i)), Transition(m, "FLAT")>>}
       \cup (IF mode = "dry"
             THEN {<<passed, Writes(m, Entry(m, "DRY_RUN_INTENT", i)),
                     Transition(m, "FLAT")>>}
             ELSE IF mode = "gated"
             THEN {<<passed, Transition(q, "PENDING_APPROVAL"),
                     Sends([q EXCEPT !.state = "PENDING_APPROVAL"], i, "ask")>>}
             ELSE {<<passed>> \o steps : steps \in SubmitSteps(m, i)})

EvaluationSteps(i) ==
    {<<Transition(mem, "EVALUATING")>> \o steps :
        steps \in GateSteps([mem EXCEPT !.state = "EVALUATING"], i)}

RejectedSteps(m) ==  \* _on_intent_rejected
    <<Writes(m, Entry(m, "SELECTOR_REJECTED", m.pending)),
      Transition([m EXCEPT !.pending = NoIntent], "FLAT")>>

\* LearningModule.on_order_filled: nothing without an intent; slippage against
\* the registered mid, or else against the fill's own price, which is none.
LearningSteps(m, i) ==
    IF m.active = NoIntent THEN <<>>
    ELSE <<Writes(m, [Entry(m, "LEARNING_RECORD", m.active) EXCEPT
                        !.of = i,
                        !.against = IF m.active \in m.mids THEN "mid" ELSE "fill"])>>

\* The transition of on_order_filled, which looks at the state alone.
AfterFill(m) ==
    CASE m.state = "PENDING_ENTRY" -> <<Transition(m, "IN_POSITION")>>
      [] m.state = "EXITING" -> <<Transition([m EXCEPT !.active = NoIntent], "FLAT")>>
      [] OTHER -> <<>>

FilledSteps(m, i) ==  \* on_order_filled for an order of intent i
    <<Writes(m, [Entry(m, "FILL", m.active) EXCEPT !.of = i])>>
        \o (LearningSteps(m, i)
        \o (<<Writes(m, [Entry(m, "PNL", m.active) EXCEPT !.of = i])>>
        \o AfterFill(m)))

RefusedSteps(m) ==  \* on_order_rejected, on_order_denied
    <<Writes(m, Entry(m, "ORDER_REJECTED", m.active)),
      Transition([m EXCEPT !.active = NoIntent], "FLAT")>>

ExitSteps(m) ==  \* _check_exit_triggers with submit_exit
    LET x == [m EXCEPT !.exitSubmitted = TRUE]
    IN <<Transition(x, "EXITING"),
         Sends([x EXCEPT !.state = "EXITING"], m.active, "exit")>>

-----------------------------------------------------------------------------
(***************************************************************************)
(* A callback starts when no other runs.                                   *)
(***************************************************************************)
Idle == todo = <<>>

\* Mutant of Evaluate: a new intent is evaluated while an exit works.
EvaluateBusy(i) ==
    /\ Idle /\ mem.state \in {"FLAT", "EXITING"}
    /\ i = issued + 1
    /\ issued' = i
    /\ todo' \in EvaluationSteps(i)
    /\ UNCHANGED <<mode, faults, mem, journalVars, venueVars, priced, starts>>

Evaluate(i) ==
    /\ Idle /\ mem.state = "FLAT"
    /\ i = issued + 1
    /\ issued' = i
    /\ todo' \in EvaluationSteps(i)
    /\ UNCHANGED <<mode, faults, mem, journalVars, venueVars, priced, starts>>

Verdict(i) ==  \* the selector's answer; one that nobody waits for is dropped
    /\ Idle /\ working[Ask(i)] > 0
    /\ working' = [working EXCEPT ![Ask(i)] = 0]
    /\ IF mem.state = "PENDING_APPROVAL" /\ mem.pending = i
       THEN todo' \in SubmitSteps(mem, i) \cup {RejectedSteps(mem)}
       ELSE UNCHANGED todo
    /\ UNCHANGED <<mode, faults, mem, journalVars, ordered, issued, priced, starts>>

Exit ==
    /\ Idle /\ mem.state = "IN_POSITION"
    /\ ~mem.exitSubmitted /\ mem.active # NoIntent
    /\ todo' = ExitSteps(mem)
    /\ UNCHANGED <<mode, faults, mem, journalVars, venueVars, issued, priced, starts>>

Filled(o) ==
    /\ Idle /\ working[o] > 0 /\ o.side # "ask"
    /\ \E lots \in 1..working[o] :
          /\ "partial_fill" \notin faults => lots = working[o]
          /\ working' = [working EXCEPT ![o] = @ - lots]
    /\ todo' = FilledSteps(mem, o.intent)
    /\ UNCHANGED <<mode, faults, mem, journalVars, ordered, issued, priced, starts>>

\* A refusal in any state but PENDING_ENTRY is ignored.
Refused(o) ==
    /\ Idle /\ working[o] = 2 /\ o.side # "ask"
    /\ working' = [working EXCEPT ![o] = 0]
    /\ todo' = IF mem.state = "PENDING_ENTRY" THEN RefusedSteps(mem) ELSE <<>>
    /\ UNCHANGED <<mode, faults, mem, journalVars, ordered, issued, priced, starts>>

-----------------------------------------------------------------------------
(***************************************************************************)
(* The steps of the running callback, and how it may end early.            *)
(***************************************************************************)
Now == Head(todo)  \* the step the callback has come to

\* What the reader concludes from one more record; a transition that does not
\* start from the state the reader believes in is beyond explanation.
Moves == {"FSM_TRANSITION", "STRATEGY_STOP"}
Replay(state, r) ==
    IF r.event = "STRATEGY_START" THEN r.to
    ELSE IF r.event \notin Moves THEN state
    ELSE IF state \in {r.from, "unknown"} THEN r.to ELSE "broken"

Write ==
    /\ ~Idle /\ Now.send = {}
    /\ mem' = Now.mem
    /\ written' = written \cup {Now.write}
    /\ replayed' = Replay(replayed, Now.write)
    /\ todo' = Tail(todo)
    /\ UNCHANGED <<mode, faults, venueVars, issued, priced, starts>>

Send ==  \* an order is one of two lots
    /\ ~Idle /\ Now.send # {}
    /\ mem' = Now.mem
    /\ working' = [o \in Requests |-> IF o \in Now.send THEN 2 ELSE working[o]]
    /\ ordered' = ordered \cup Now.send
    /\ todo' = Tail(todo)
    /\ UNCHANGED <<mode, faults, journalVars, issued, priced, starts>>

WriteRaises ==  \* after the step's assignments
    /\ "write_fails" \in faults
    /\ ~Idle /\ Now.send = {}
    /\ mem' = Now.mem
    /\ replayed' = "unknown" /\ UNCHANGED written
    /\ todo' = <<>>
    /\ UNCHANGED <<mode, faults, venueVars, issued, priced, starts>>

\* A new process; the orders stay at the venue and the file where it is.
StartAnew ==
    /\ starts < MaxStarts
    /\ starts' = starts + 1
    /\ mem' = Fresh /\ todo' = <<>>
    /\ replayed' = Started.to
    /\ UNCHANGED <<mode, faults, venueVars, issued, priced>>

Restart ==
    /\ "restart" \in faults
    /\ UNCHANGED written  \* but for one more STRATEGY_START
    /\ StartAnew

Stop ==  \* on_stop, and a later start
    /\ Idle
    /\ written' = written \cup {Entry(mem, "STRATEGY_STOP", NoIntent)}
    /\ StartAnew

Next ==
    \/ \E i \in Intents : Evaluate(i) \/ Verdict(i)
    \/ Exit
    \/ \E o \in Requests : Filled(o) \/ Refused(o)
    \/ Write \/ Send \/ WriteRaises
    \/ Restart \/ Stop

Spec == Init /\ [][Next]_vars

-----------------------------------------------------------------------------
(***************************************************************************)
(* Properties that hold.                                                   *)
(***************************************************************************)
TypeOK ==
    /\ mode \in {"dry", "gated", "direct"} /\ faults \in FaultSets
    /\ mem \in Memory /\ todo \in Seq(Step)
    /\ written \subseteq Record /\ replayed \in States \cup {"unknown", "broken"}
    /\ working \in [Requests -> 0..2]
    /\ issued \in 0..MaxIntents /\ starts \in Nat \ {0}
    /\ priced \subseteq Intents /\ ordered \subseteq Requests

\* The record that announces a request.
Announces(r, o) ==
    /\ r.ref = o.intent
    /\ \/ o.side = "ask" /\ r.event = "GREEK_PASSED"
       \/ o.side = "entry" /\ r.event = "ORDER_SUBMIT"
       \/ o.side = "exit" /\ r.event = "FSM_TRANSITION" /\ r.to = "EXITING"

\* The journal is written ahead: wherever a write raises or the process dies,
\* nothing is ever put to the selector or to the venue that the journal does not
\* announce, and in a dry run nothing at all.  The learning module never forgets a mid, but
\* it only remembers those of intents that the journal shows in PENDING_ENTRY.
WriteAhead ==
    /\ \A o \in Requests : working[o] > 0 => o \in ordered
    /\ \A o \in ordered : \E r \in written : Announces(r, o)
    /\ mode = "dry" => ordered = {}
    /\ \A i \in mem.mids : \E r \in written :
          r.event = "FSM_TRANSITION" /\ r.ref = i /\ r.to = "PENDING_ENTRY"

AuditInv == TypeOK /\ WriteAhead

\* Whoever replays the journal never meets a transition that starts elsewhere
\* than the one before ended, and ends in the state the strategy is in; only
\* after a lost record, and until the next transition, is the state unknown.
JournalReplays == replayed \in {mem.state, "unknown"}

\* Attribution survives lost records: as long as the process lives and orders
\* fill at once, whatever is recorded of a fill names the intent whose order
\* was filled, although the handler takes it from the strategy's attributes,
\* and slippage is measured against that intent's mid whenever there was one.
Attributed ==
    starts = 1 /\ "partial_fill" \notin faults =>
        \A r \in written : r.event \in {"FILL", "LEARNING_RECORD", "PNL"} =>
            /\ r.ref = r.of
            /\ r.event = "LEARNING_RECORD" =>
                  r.against = IF r.ref \in priced THEN "mid" ELSE "fill"

=============================================================================
