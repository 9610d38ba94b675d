--------------------------- MODULE SelectorActor ---------------------------
(***************************************************************************)
(* The SelectorActor, the strategies that compete for its approval, and    *)
(* the clock alert that closes its batches.                                *)
(*                                                                         *)
(* The message bus delivers synchronously: a published intent is in the    *)
(* buffer, and a published verdict has been acted upon, when publish       *)
(* returns.  One handler is one action.  A strategy is reduced to what it  *)
(* shares with the selector (ZeroDteStrategy has the rest).                *)
(*                                                                         *)
(* Data abstractions.  The buffer is a set: its order only decides in      *)
(* which order rejections are published, and every order can occur.  Edges *)
(* and uuids are numbers; time passes in ticks of the batch interval's     *)
(* unit.  The human approval path is a stub that approves, so the          *)
(* classification of an intent does not change the outcome.                *)
(***************************************************************************)
EXTENDS Integers, FiniteSets, FiniteSetsExt

CONSTANTS
    Strategies, Instruments,
    NoIntent,            \* the value of _pending_intent when it is None
    Edges,               \* bound: the values of edge_after_cost_bps
    TopN, MaxPerInstrument,
    MaxPerStrategyPct,   \* max_per_strategy, a fraction of top_n, in percent
    BatchInterval,       \* batch_interval_ms, in ticks
    Faults               \* "finalize_raises": an exception ends finalize early

ASSUME StrategiesAssumption == IsFiniteSet(Strategies) /\ Strategies # {}
ASSUME EdgesAssumption == Edges \subseteq Int
ASSUME PolicyAssumption ==
    TopN \in Nat /\ MaxPerInstrument \in Nat /\ MaxPerStrategyPct \in Nat
ASSUME IntervalAssumption == BatchInterval \in Nat
ASSUME FaultsAssumption == Faults \subseteq {"finalize_raises"}

\* Uuids of the intents under way; their order is unrelated to that of issue.
Ids == 1..Cardinality(Strategies)

Intent == [ id : Ids, strategy : Strategies, instrument : Instruments,
            edge : Edges ]

ASSUME NoIntentAssumption == NoIntent \notin Intent

Off == -1

VARIABLES
    \* strategies
    port,     \* "free" (FLAT), "waiting" (PENDING_APPROVAL) or "trading"
    pending,  \* _pending_intent of each strategy
    \* the selector
    running,  \* between on_start and on_stop
    buffer,   \* _buffer
    alert,    \* ticks until the time alert "selector_finalize", or Off
    \* observers
    lost,     \* intents whose verdict was never published or never heard
    age       \* ticks for which each strategy has been waiting

selectorVars == <<running, buffer, alert>>
vars == <<port, pending, selectorVars, lost, age>>

TypeOK ==
    /\ port \in [Strategies -> {"free", "waiting", "trading"}]
    /\ pending \in [Strategies -> Intent \union {NoIntent}]
    /\ running \in BOOLEAN
    /\ buffer \subseteq Intent
    /\ alert \in 0..BatchInterval \union {Off}
    /\ lost \subseteq Intent
    /\ age \in [Strategies -> Nat]

Init ==
    /\ port = [s \in Strategies |-> "free"]
    /\ pending = [s \in Strategies |-> NoIntent]
    /\ running = TRUE
    /\ buffer = {}
    /\ alert = Off
    /\ lost = {}
    /\ age = [s \in Strategies |-> 0]

-----------------------------------------------------------------------------
(***************************************************************************)
(* select_intents: rank, then keep greedily within the caps.               *)
(***************************************************************************)

\* Mutant of Better: the best edge is ranked last.
BetterAscending(i, j) ==
    i.edge < j.edge \/ (i.edge = j.edge /\ i.id < j.id)

\* The sort key: highest edge first, then the intent id.
Better(i, j) == i.edge > j.edge \/ (i.edge = j.edge /\ i.id < j.id)

\* max(1, int(top_n * max_per_strategy))
MaxPerStrategy ==
    LET share == (TopN * MaxPerStrategyPct) \div 100
    IN  IF share > 1 THEN share ELSE 1

\* Whether the loop, having kept these, keeps i as well.
Room(kept, i) ==
    /\ Cardinality(kept) < TopN
    /\ Cardinality({j \in kept : j.instrument = i.instrument}) < MaxPerInstrument
    /\ Cardinality({j \in kept : j.strategy = i.strategy}) < MaxPerStrategy

Approved(batch) ==
    LET keeps[i \in batch] ==
            Room({j \in batch : Better(j, i) /\ keeps[j]}, i)
    IN  {i \in batch : keeps[i]}

-----------------------------------------------------------------------------
(***************************************************************************)
(* Strategies.                                                             *)
(***************************************************************************)

\* The alert is set anew (override=True), however soon it was due.
ScheduleFinalize == alert' = BatchInterval

Collect(i) ==
    /\ buffer' = buffer \union {i}
    /\ ScheduleFinalize

\* Mutant of Propose: a strategy that waits proposes again.
ProposeAgain(s, i) ==
    /\ running /\ port[s] # "trading" /\ pending[s] \notin lost
    /\ i.strategy = s
    /\ \A t \in Strategies \ {s} : pending[t] # NoIntent => pending[t].id # i.id
    /\ port' = [port EXCEPT ![s] = "waiting"]
    /\ pending' = [pending EXCEPT ![s] = i]
    /\ buffer' = (buffer \ {pending[s]}) \union {i}
    /\ ScheduleFinalize
    /\ UNCHANGED <<running, lost, age>>

\* _queue_for_selector publishes the intent, and the bus hands it to collect.
Propose(s, i) ==
    /\ running /\ port[s] = "free"
    /\ i.strategy = s
    /\ \A t \in Strategies : pending[t] # NoIntent => pending[t].id # i.id
    /\ port' = [port EXCEPT ![s] = "waiting"]
    /\ pending' = [pending EXCEPT ![s] = i]
    /\ Collect(i)
    /\ age' = [age EXCEPT ![s] = 0]
    /\ UNCHANGED <<running, lost>>

\* The trade of an approved intent is over.
TradeEnds(s) ==
    /\ running /\ port[s] = "trading"
    /\ port' = [port EXCEPT ![s] = "free"]
    /\ UNCHANGED <<pending, selectorVars, lost, age>>

-----------------------------------------------------------------------------
(***************************************************************************)
(* finalize.                                                               *)
(***************************************************************************)

\* The verdicts published before an exception, if there is one: rejections go
\* first, then approvals in rank order.
Published(batch, approved) ==
    { answered \in SUBSET batch :
        /\ "finalize_raises" \notin Faults => answered = batch
        /\ \A i \in answered \intersect approved, j \in batch :
              j \notin approved \/ Better(j, i) => j \in answered }

\* The strategies named by the answered intents take their verdicts: approval
\* leads to a trade, or straight back to FLAT when the order is refused.
Heard(answered, approved) ==
    LET asks(s) == pending[s] \in answered
    IN  /\ \E entered \in SUBSET (answered \intersect approved) :
              port' = [s \in Strategies |->
                          IF ~asks(s) THEN port[s]
                          ELSE IF pending[s] \in entered THEN "trading" ELSE "free"]
        /\ pending' = [s \in Strategies |-> IF asks(s) THEN NoIntent ELSE pending[s]]
        /\ age' = [s \in Strategies |-> IF asks(s) THEN 0 ELSE age[s]]

\* Mutant of Finalize: the rejected half of the batch is not published.
FinalizeApprovedOnly ==
    /\ buffer' = {}
    /\ Heard(Approved(buffer), Approved(buffer))
    /\ UNCHANGED lost

\* Mutant of Finalize: the buffer is not cleared.
FinalizeKeepsBuffer ==
    LET approved == Approved(buffer) IN
    \E answered \in Published(buffer, approved) :
        /\ Heard(answered, approved)
        /\ lost' = lost \union (buffer \ answered)
        /\ UNCHANGED buffer

\* The buffer is cleared first, so what an exception leaves unpublished is gone.
Finalize ==
    LET approved == Approved(buffer) IN
    \E answered \in Published(buffer, approved) :
        /\ buffer' = {}
        /\ Heard(answered, approved)
        /\ lost' = lost \union (buffer \ answered)

OnFinalizeAlert ==
    /\ alert = 0
    /\ alert' = Off
    /\ Finalize
    /\ UNCHANGED running

\* on_stop finalizes what is buffered, so an entry may be submitted while the
\* node stops; strategies that were stopped before do not hear the verdict.
OnStop ==
    /\ running
    /\ running' = FALSE
    /\ alert' = Off
    /\ \/ Finalize
       \/ /\ buffer' = {} /\ lost' = lost \union buffer
          /\ UNCHANGED <<port, pending, age>>

-----------------------------------------------------------------------------
\* The strategies whose intent is in the current batch.
Buffered == {s \in Strategies : pending[s] \in buffer}

\* Time passes, except over an alert that is due.
Tick ==
    /\ alert > 0
    /\ alert' = alert - 1
    /\ age' = [s \in Strategies |->
                  IF s \in Buffered THEN age[s] + 1 ELSE age[s]]
    /\ UNCHANGED <<port, pending, running, buffer, lost>>

Next ==
    \/ \E i \in Intent : Propose(i.strategy, i)
    \/ \E s \in Strategies : TradeEnds(s)
    \/ OnFinalizeAlert \/ OnStop \/ Tick

Spec == Init /\ [][Next]_vars

\* Time passes and the clock runs the callbacks that are due.
FairSpec == Spec /\ WF_vars(Tick \/ OnFinalizeAlert)

-----------------------------------------------------------------------------
(***************************************************************************)
(* Properties that hold.                                                   *)
(***************************************************************************)

\* No intent is stranded and none is answered twice: a strategy waits for an
\* intent exactly when the buffer holds it or an exception or the shutdown lost
\* its verdict, and a running selector with a buffer has its alert set.
NothingStranded ==
    /\ \A s \in Strategies : port[s] = "waiting" <=> pending[s] # NoIntent
    /\ {pending[s] : s \in Strategies} \ {NoIntent} = buffer \union lost
    /\ buffer \intersect lost = {}
    /\ buffer # {} <=> alert # Off
    /\ ~running => buffer = {}

\* The intents under way are those of different strategies and carry different
\* uuids, so that a batch holds one of each strategy.
Apart ==
    /\ \A s \in Strategies : pending[s] # NoIntent => pending[s].strategy = s
    /\ \A s, t \in Strategies :
          s # t /\ pending[s] # NoIntent /\ pending[t] # NoIntent =>
             pending[s].id # pending[t].id

SelectorInv == TypeOK /\ NothingStranded /\ Apart

\* Every intent of the buffer restarts the batch interval.  Since a strategy
\* that waits proposes nothing, the wait is bounded all the same: what a
\* strategy has waited and has still to wait is at most one interval for each
\* strategy in the batch.
VerdictAge ==
    \A s \in Buffered :
        age[s] + alert <= BatchInterval * Cardinality(Buffered)

EdgeSum(S) == MapThenSumSet(LAMBDA i : i.edge, S)

WithinCaps(S) ==
    /\ Cardinality(S) <= TopN
    /\ \A x \in Instruments :
          Cardinality({i \in S : i.instrument = x}) <= MaxPerInstrument

\* The greedy loop is no heuristic: what it approves is within the caps, no
\* larger part of the batch is, and none as large has a greater total edge.
\* The cap per strategy never costs anything, because the strategies' waiting
\* keeps their intents apart.
BatchOptimal ==
    LET approved == Approved(buffer) IN
    /\ WithinCaps(approved)
    /\ \A S \in SUBSET buffer : WithinCaps(S) =>
          \/ Cardinality(S) < Cardinality(approved)
          \/ /\ Cardinality(S) = Cardinality(approved)
             /\ EdgeSum(S) <= EdgeSum(approved)

\* A strategy whose intent was lost waits for ever; otherwise its port shows
\* what it has asked and been answered.
Approval == INSTANCE ApprovalProtocol WITH
                Parties <- Strategies, phase <- port,
                forsaken <- {s \in Strategies : pending[s] \in lost}

\* Buffer, caps and timer implement the promise: nobody is answered who did
\* not ask, nobody twice, nobody trades without leave, a batch is settled as a
\* whole, and a lost question is never taken up again.
ImplementsApproval == Approval!Spec

\* A strategy that waits gets its verdict unless an exception or the shutdown
\* lost it: postponements by later intents do not starve it.
EveryoneAnswered ==
    \A s \in Strategies :
        port[s] = "waiting" ~> port[s] # "waiting" \/ pending[s] \in lost

=============================================================================
