-------------------------- MODULE ZeroDteStrategy --------------------------
(***************************************************************************)
(* One 0DTE strategy (BaseZeroDteStrategy with ReferenceZeroDteStrategy)   *)
(* and the venue it trades on.                                             *)
(*                                                                         *)
(* NautilusTrader runs every callback to completion on one thread, so each *)
(* handler of the strategy is one action.  The venue (orders, fills,       *)
(* refusals, cancellations) and the message bus are the environment: they  *)
(* are external to the repository and are modelled from the way the        *)
(* strategy uses them.                                                     *)
(*                                                                         *)
(* Data abstractions.  An intent is a number (its uuid); a session phase   *)
(* is the message it arrived in (flatten_signal is always `not allows`);   *)
(* a regime is open or blocked; prices are reduced to the question whether *)
(* a trigger fires; quantities are lots.                                   *)
(***************************************************************************)
EXTENDS Integers

CONSTANTS
    Configs,          \* the strategy configurations under study
    CancelAllRaises,  \* cancel_all_orders() without argument is a TypeError
    Faults,           \* what the environment may do beyond the happy path
    MaxIntents        \* bound: intents that reach the end of the gates

Config == [ selector_enabled : BOOLEAN, dry_run : BOOLEAN,
            backtest_plumbing : BOOLEAN, hedge_perp : BOOLEAN,
            order_qty : Nat \ {0} ]  \* in lots

FaultKinds ==
    { "partial_fill",     \* an order fills in several events
      "cancelled",        \* an IOC remainder or a resting order is cancelled
      "child_refused",    \* a bracket child is rejected or denied
      "exit_refused",     \* an exit or hedge order is rejected or denied
      "no_instrument",    \* the cache does not hold the instrument
      "submission_raises",  \* journal, order construction or order call raise
      "pipeline_raises",  \* greeks or the journal raise during evaluation
      "restart" }         \* the process dies and a new strategy starts

ASSUME ConfigsAssumption == Configs \subseteq Config /\ Configs # {}
ASSUME FaultsAssumption == Faults \subseteq FaultKinds
ASSUME SwitchAssumption == CancelAllRaises \in BOOLEAN
ASSUME BoundAssumption == MaxIntents \in Nat \ {0}

Intents == 1..MaxIntents
NoIntent == 0

States == { "FLAT", "EVALUATING", "PENDING_APPROVAL",
            "PENDING_ENTRY", "IN_POSITION", "EXITING" }

(***************************************************************************)
(* The TP and SL children of a bracket are a one-cancels-other pair whose  *)
(* fills the strategy cannot tell apart: they are one order, "bracket".    *)
(***************************************************************************)
OrderKinds == { "entry", "exit", "hedge", "bracket" }

VARIABLES
    cfg,            \* the configuration; never changes
    \* attributes of the strategy object
    state,          \* _state
    session,        \* last SessionPhaseSnapshot: "none" until one arrives
    regime,         \* last RegimeTagSnapshot: "none", "open" or "blocked"
    quoteFresh,     \* _last_quote_ts is within the allowed age
    active,         \* _active_intent_id and _active_intent
    pending,        \* _pending_intent
    entryPriced,    \* _entry_price is not None
    spread,         \* _position_instrument_id: the intent whose spread it is
    exitSubmitted,  \* _exit_submitted
    hedgeSubmitted, \* _hedge_submitted
    \* the venue
    left,           \* lots of each order that are still working
    children,       \* intents whose bracket children the venue holds
    position,       \* lots bought less lots sold in the name of each intent
    \* observers
    issued,         \* intents that passed every gate so far
    sent,           \* how often each order was submitted
    raised,         \* entries and exits that broke off before their order was sent
    verdicts        \* selector verdicts published so far

marketVars == <<session, regime, quoteFresh>>
intentVars == <<active, pending, entryPriced, spread>>
latchVars  == <<exitSubmitted, hedgeSubmitted>>
venueVars  == <<left, children, position>>
orderVars  == <<sent, raised, left>>
strategyVars == <<state, intentVars, latchVars>>
observerVars == <<issued, sent, raised, verdicts>>
vars == <<cfg, strategyVars, marketVars, venueVars, observerVars>>

Submitted == OrderKinds \ {"bracket"}
Verdicts  == {"approved", "rejected"}

TypeOK ==
    /\ cfg \in Config
    /\ state \in States
    /\ session \in {"none", "NORMAL", "BLACKOUT"}
    /\ regime \in {"none", "open", "blocked"}
    /\ quoteFresh \in BOOLEAN
    /\ active \in Intents \union {NoIntent}
    /\ pending \in Intents \union {NoIntent}
    /\ entryPriced \in BOOLEAN
    /\ spread \in Intents \union {NoIntent}
    /\ exitSubmitted \in BOOLEAN
    /\ hedgeSubmitted \in BOOLEAN
    /\ left \in [OrderKinds -> [Intents -> Nat]]
    /\ children \subseteq Intents
    /\ position \in [Intents -> Int]
    /\ issued \in 0..MaxIntents
    /\ sent \in [Submitted -> [Intents -> Nat]]
    /\ raised \subseteq {"entry", "exit"} \X Intents
    /\ verdicts \in [Intents -> SUBSET Verdicts]

Init ==
    /\ cfg \in Configs
    /\ state = "FLAT"
    /\ session = "none" /\ regime = "none" /\ quoteFresh = FALSE
    /\ active = NoIntent /\ pending = NoIntent /\ entryPriced = FALSE
    /\ spread = NoIntent
    /\ exitSubmitted = FALSE /\ hedgeSubmitted = FALSE
    /\ left = [k \in OrderKinds |-> [i \in Intents |-> 0]]
    /\ children = {}
    /\ position = [i \in Intents |-> 0]
    /\ issued = 0
    /\ sent = [k \in Submitted |-> [i \in Intents |-> 0]]
    /\ raised = {}
    /\ verdicts = [i \in Intents |-> {}]

-----------------------------------------------------------------------------
(***************************************************************************)
(* Order submission.                                                       *)
(***************************************************************************)
Submit(kind, i) ==
    /\ sent' = [sent EXCEPT ![kind][i] = @ + 1]
    /\ left' = [left EXCEPT ![kind][i] = cfg.order_qty]
    /\ UNCHANGED raised

BreaksOff(kind, i) ==
    /\ raised' = raised \union {<<kind, i>>}
    /\ UNCHANGED <<sent, left>>

\* ReferenceZeroDteStrategy.submit_entry: a market order in plumbing mode, a
\* bracket otherwise; a missing instrument is an ORDER_ERROR and a return to
\* FLAT that leaves the active intent in place.  A journal write may raise, or a
\* bracket that has no prices because no quote of its spread is in the cache
\* (quotes are subscribed to after a fill): PENDING_ENTRY stays, without an order.
SubmitEntry(i) ==
    \/ /\ state' = "PENDING_ENTRY"
       /\ Submit("entry", i)
       /\ \/ cfg.backtest_plumbing /\ UNCHANGED <<children, spread>>
          \/ ~cfg.backtest_plumbing /\ children' = children \union {i} /\ spread' = i
    \/ /\ "submission_raises" \in Faults
       /\ state' = "PENDING_ENTRY"
       /\ BreaksOff("entry", i)
       /\ UNCHANGED <<children, spread>>
    \/ /\ "no_instrument" \in Faults
       /\ state' = "FLAT"
       /\ UNCHANGED <<orderVars, children, spread>>

\* The transition to EXITING and submit_exit: a market sell of the full order_qty
\* in the spread that was last bought.  Only where nothing was bought is another
\* instrument looked up, which the cache may not hold: submit_exit returns in
\* silence, in plumbing mode with an ORDER_ERROR and a transition to FLAT.
Exit(i) ==
    \/ /\ state' = "EXITING"
       /\ Submit("exit", i)
    \/ /\ "submission_raises" \in Faults
       /\ state' = "EXITING"
       /\ BreaksOff("exit", i)
    \/ /\ "no_instrument" \in Faults
       /\ spread = NoIntent /\ sent["entry"][i] = 0
       /\ state' = IF cfg.backtest_plumbing THEN "FLAT" ELSE "EXITING"
       /\ BreaksOff("exit", i)

\* _submit_approved_intent: no gate is looked at again.
SubmitApprovedIntent(i) ==
    /\ active' = i
    /\ SubmitEntry(i)
    /\ UNCHANGED <<entryPriced, latchVars, position>>

-----------------------------------------------------------------------------
(***************************************************************************)
(* Evaluation: on_option_chain and on_quote_tick in FLAT.                  *)
(***************************************************************************)
ActorsReady == session # "none" /\ regime # "none"

\* Mutant of GatesPass: the session stage is missing from the pipeline.
GatesPassNoSession(fresh) == regime = "open" /\ fresh

\* The gates that depend on the strategy's own state; edge, liquidity, chain
\* age and greeks depend on the data, and may pass or fail.
GatesPass(fresh) == session = "NORMAL" /\ regime = "open" /\ fresh

QueueForSelector(i) ==
    /\ pending' = i
    /\ state' = "PENDING_APPROVAL"
    /\ UNCHANGED <<active, entryPriced, spread, latchVars, sent, raised, venueVars>>

\* Mutant of Admit: the selector is asked before the dry-run check.
AdmitSelectorFirst(i) ==
    \/ /\ cfg.selector_enabled
       /\ QueueForSelector(i)
    \/ /\ ~cfg.selector_enabled /\ cfg.dry_run
       /\ UNCHANGED <<strategyVars, sent, raised, venueVars>>
    \/ /\ ~cfg.selector_enabled /\ ~cfg.dry_run
       /\ SubmitApprovedIntent(i)
       /\ UNCHANGED pending

\* What _run_gate_pipeline does with an intent that passed every gate.
Admit(i) ==
    \/ /\ cfg.dry_run
       /\ UNCHANGED <<strategyVars, sent, raised, venueVars>>
    \/ /\ ~cfg.dry_run /\ cfg.selector_enabled
       /\ QueueForSelector(i)
    \/ /\ ~cfg.dry_run /\ ~cfg.selector_enabled
       /\ SubmitApprovedIntent(i)
       /\ UNCHANGED pending

\* _begin_evaluation and _run_gate_pipeline run inside one callback, so
\* EVALUATING is seen by nobody unless something raises in between.
BeginEvaluation(fresh) ==
    \/ UNCHANGED <<strategyVars, issued, sent, raised, venueVars>>  \* a gate rejects
    \/ /\ "pipeline_raises" \in Faults
       /\ state' = "EVALUATING"
       /\ UNCHANGED <<intentVars, latchVars, issued, sent, raised, venueVars>>
    \/ /\ GatesPass(fresh)
       /\ issued < MaxIntents
       /\ issued' = issued + 1
       /\ Admit(issued + 1)

OnOptionChain ==
    /\ ~cfg.backtest_plumbing
    /\ state = "FLAT" /\ ActorsReady
    /\ BeginEvaluation(quoteFresh)
    /\ UNCHANGED <<cfg, marketVars, verdicts>>

-----------------------------------------------------------------------------
(***************************************************************************)
(* An open position: exit triggers, flattening, hedging.                   *)
(***************************************************************************)

\* flatten_positions in IN_POSITION or PENDING_ENTRY.  The cancellation of
\* working orders is a request: the venue answers with Cancelled steps.
FlattenPositions ==
    \/ /\ CancelAllRaises \/ state # "IN_POSITION" \/ active = NoIntent
       /\ UNCHANGED <<state, orderVars>>
    \/ /\ ~CancelAllRaises /\ state = "IN_POSITION" /\ active # NoIntent
       /\ Exit(active)

\* Mutant of CheckExitTriggers: the transition to EXITING is forgotten.
CheckExitTriggersNoTransition ==
    \/ UNCHANGED <<state, exitSubmitted, orderVars>>
    \/ /\ ~exitSubmitted /\ entryPriced /\ active # NoIntent
       /\ exitSubmitted' = TRUE
       /\ Submit("exit", active)
       /\ UNCHANGED state

\* _check_exit_triggers: a price beyond take profit or stop loss, once.
CheckExitTriggers ==
    \/ UNCHANGED <<state, exitSubmitted, orderVars>>
    \/ /\ ~exitSubmitted /\ entryPriced /\ active # NoIntent
       /\ exitSubmitted' = TRUE
       /\ Exit(active)

ManagePosition ==
    /\ state = "IN_POSITION"
    /\ \/ session = "BLACKOUT" /\ FlattenPositions /\ UNCHANGED exitSubmitted
       \/ session # "BLACKOUT" /\ CheckExitTriggers
    /\ UNCHANGED <<intentVars, hedgeSubmitted, issued, children, position>>

\* Mutant of OnQuoteTick: evaluation is not confined to FLAT.
OnQuoteTickAnyState ==
    /\ quoteFresh' = TRUE
    /\ \/ ManagePosition
       \/ /\ state # "IN_POSITION" /\ cfg.backtest_plumbing /\ ActorsReady
          /\ BeginEvaluation(TRUE)
       \/ /\ state # "IN_POSITION"
          /\ UNCHANGED <<strategyVars, issued, sent, raised, venueVars>>
    /\ UNCHANGED <<cfg, session, regime, verdicts>>

\* A tick of any subscribed instrument (underlying, hedge perpetual, spread)
\* refreshes the quote age and, in IN_POSITION, is compared with the entry.
OnQuoteTick ==
    /\ quoteFresh' = TRUE
    /\ \/ ManagePosition
       \/ /\ state = "FLAT" /\ cfg.backtest_plumbing /\ ActorsReady
          /\ BeginEvaluation(TRUE)
       \/ /\ state # "IN_POSITION"
          /\ UNCHANGED <<strategyVars, issued, sent, raised, venueVars>>
    /\ UNCHANGED <<cfg, session, regime, verdicts>>

\* Mutant of OnOptionGreeks: _hedge_submitted is not set.
OnOptionGreeksNoLatch ==
    /\ state = "IN_POSITION"
    /\ cfg.hedge_perp /\ ~cfg.backtest_plumbing /\ ~hedgeSubmitted
    /\ ~cfg.dry_run /\ Submit("hedge", active)
    /\ UNCHANGED <<cfg, state, intentVars, latchVars, marketVars,
                   children, position, issued, verdicts>>

\* on_option_greeks beyond the delta band.
OnOptionGreeks ==
    /\ state = "IN_POSITION"
    /\ cfg.hedge_perp /\ ~cfg.backtest_plumbing /\ ~hedgeSubmitted
    /\ hedgeSubmitted' = TRUE
    /\ \/ ~cfg.dry_run /\ Submit("hedge", active)
       \/ /\ cfg.dry_run \/ {"no_instrument", "submission_raises"} \intersect Faults # {}
          /\ UNCHANGED orderVars
    /\ UNCHANGED <<cfg, state, intentVars, exitSubmitted, marketVars,
                   children, position, issued, verdicts>>

-----------------------------------------------------------------------------
(***************************************************************************)
(* Messages of the session, regime and selector actors.                    *)
(***************************************************************************)
OnSessionPhase(phase) ==
    /\ session' = phase
    /\ \/ /\ phase = "BLACKOUT" /\ state \in {"IN_POSITION", "PENDING_ENTRY"}
          /\ FlattenPositions
       \/ /\ phase = "NORMAL" \/ state \notin {"IN_POSITION", "PENDING_ENTRY"}
          /\ UNCHANGED <<state, orderVars>>
    /\ UNCHANGED <<cfg, intentVars, latchVars, regime, quoteFresh,
                   children, position, issued, verdicts>>

OnRegimeTag(tag) ==
    /\ regime' = tag
    /\ UNCHANGED <<cfg, strategyVars, session, quoteFresh, venueVars,
                   observerVars>>

\* Mutant of Awaited: the intent id is not compared.
AwaitedAnyIntent(i) == state = "PENDING_APPROVAL"

\* The handlers drop a verdict unless it names the pending intent.
Awaited(i) == state = "PENDING_APPROVAL" /\ pending = i

Publish(i, verdict) ==
    verdicts' = [verdicts EXCEPT ![i] = @ \union {verdict}]

\* Mutant of OnIntentApproved: _pending_intent is not cleared.
OnIntentApprovedKeepsPending(i) ==
    /\ cfg.selector_enabled /\ i <= issued
    /\ Publish(i, "approved")
    /\ \/ Awaited(i) /\ SubmitApprovedIntent(i) /\ UNCHANGED pending
       \/ ~Awaited(i) /\ UNCHANGED <<strategyVars, sent, raised, venueVars>>
    /\ UNCHANGED <<cfg, marketVars, issued>>

\* The bus may carry a verdict for any intent that was issued: late, repeated
\* or contradicting an earlier one.
OnIntentApproved(i) ==
    /\ cfg.selector_enabled /\ i <= issued
    /\ Publish(i, "approved")
    /\ \/ /\ Awaited(i)
          /\ pending' = NoIntent
          /\ SubmitApprovedIntent(i)
       \/ ~Awaited(i) /\ UNCHANGED <<strategyVars, sent, raised, venueVars>>
    /\ UNCHANGED <<cfg, marketVars, issued>>

OnIntentRejected(i) ==
    /\ cfg.selector_enabled /\ i <= issued
    /\ Publish(i, "rejected")
    /\ \/ /\ Awaited(i)
          /\ pending' = NoIntent
          /\ state' = "FLAT"
       \/ ~Awaited(i) /\ UNCHANGED <<state, pending>>
    /\ UNCHANGED <<cfg, active, entryPriced, spread, latchVars, marketVars,
                   venueVars, issued, sent, raised>>

-----------------------------------------------------------------------------
(***************************************************************************)
(* Order events.  The handlers look at the FSM state alone: not at the     *)
(* order, its side, or what is left of it.                                 *)
(***************************************************************************)
OnOrderFilled ==
    \/ /\ state = "PENDING_ENTRY"
       /\ state' = "IN_POSITION" /\ entryPriced' = TRUE
       /\ UNCHANGED active
    \/ /\ state = "EXITING"
       /\ state' = "FLAT" /\ entryPriced' = FALSE /\ active' = NoIntent
    \/ /\ state \notin {"PENDING_ENTRY", "EXITING"}
       /\ UNCHANGED <<state, entryPriced, active>>

\* Mutant of OnOrderRefused: the transition back to FLAT is missing.
OnOrderRefusedStays == UNCHANGED <<state, active>>

OnOrderRefused ==  \* on_order_rejected, on_order_denied
    \/ /\ state = "PENDING_ENTRY"
       /\ state' = "FLAT" /\ active' = NoIntent
    \/ state # "PENDING_ENTRY" /\ UNCHANGED <<state, active>>

\* The lots a fill buys, or sells, in the name of the intent.
Signed(kind, lots) ==
    IF kind = "hedge" THEN 0 ELSE IF kind = "entry" THEN lots ELSE -lots

\* An entry fill releases the same number of lots of its bracket children.
LeftAfterFill(kind, i, lots) ==
    IF kind = "entry" /\ i \in children
    THEN [left EXCEPT !["entry"][i] = @ - lots, !["bracket"][i] = @ + lots]
    ELSE [left EXCEPT ![kind][i] = @ - lots]

Filled(kind, i) ==
    /\ \E lots \in 1..left[kind][i] :
          /\ "partial_fill" \notin Faults => lots = left[kind][i]
          /\ left' = LeftAfterFill(kind, i, lots)
          /\ position' = [position EXCEPT ![i] = @ + Signed(kind, lots)]
    /\ OnOrderFilled
    /\ UNCHANGED <<cfg, pending, spread, latchVars, marketVars, children,
                   observerVars>>

Refused(kind, i) ==
    /\ kind = "entry" \/ "exit_refused" \in Faults
    /\ kind # "bracket"
    /\ left[kind][i] = cfg.order_qty
    /\ left' = [left EXCEPT ![kind][i] = 0]
    /\ OnOrderRefused
    /\ UNCHANGED <<cfg, pending, entryPriced, spread, latchVars, marketVars,
                   children, position, observerVars>>

ChildRefused(i) ==
    /\ "child_refused" \in Faults
    /\ i \in children
    /\ children' = children \ {i}
    /\ left' = [left EXCEPT !["bracket"][i] = 0]
    /\ OnOrderRefused
    /\ UNCHANGED <<cfg, pending, entryPriced, spread, latchVars, marketVars,
                   position, observerVars>>

\* The strategy has no on_order_canceled or on_order_expired handler.
Cancelled(kind, i) ==
    /\ "cancelled" \in Faults
    /\ left[kind][i] > 0
    /\ left' = [left EXCEPT ![kind][i] = 0]
    /\ UNCHANGED <<cfg, strategyVars, marketVars, children, position,
                   observerVars>>

-----------------------------------------------------------------------------
(***************************************************************************)
(* Time and restarts.                                                      *)
(***************************************************************************)
QuoteAges ==
    /\ quoteFresh
    /\ quoteFresh' = FALSE
    /\ UNCHANGED <<cfg, strategyVars, session, regime, venueVars,
                   observerVars>>

\* A new process starts from __init__; orders and positions stay at the venue.
Restart ==
    /\ "restart" \in Faults
    /\ state' = "FLAT"
    /\ session' = "none" /\ regime' = "none" /\ quoteFresh' = FALSE
    /\ active' = NoIntent /\ pending' = NoIntent /\ entryPriced' = FALSE
    /\ spread' = NoIntent
    /\ exitSubmitted' = FALSE /\ hedgeSubmitted' = FALSE
    /\ UNCHANGED <<cfg, venueVars, observerVars>>

VenueStep == \E i \in Intents :
    \/ \E kind \in OrderKinds :
          Filled(kind, i) \/ Refused(kind, i) \/ Cancelled(kind, i)
    \/ ChildRefused(i)

MessageStep ==
    \/ \E phase \in {"NORMAL", "BLACKOUT"} : OnSessionPhase(phase)
    \/ \E tag \in {"open", "blocked"} : OnRegimeTag(tag)
    \/ \E i \in Intents : OnIntentApproved(i) \/ OnIntentRejected(i)

Next ==
    \/ OnOptionChain \/ OnQuoteTick \/ OnOptionGreeks
    \/ MessageStep \/ VenueStep
    \/ QuoteAges \/ Restart

Spec == Init /\ [][Next]_vars

(***************************************************************************)
(* Fairness.  The venue answers an order that keeps working, and the       *)
(* selector's timer eventually brings a verdict for an intent that stays   *)
(* pending.  Nothing is assumed of the market, the clock or the gates.     *)
(***************************************************************************)
VenueAnswers == \E i \in Intents, kind \in OrderKinds :
                   Filled(kind, i) \/ Refused(kind, i)

SelectorAnswers == \E i \in Intents :
                      /\ pending = i
                      /\ OnIntentApproved(i) \/ OnIntentRejected(i)

FairSpec == Spec /\ WF_vars(VenueAnswers) /\ WF_vars(SelectorAnswers)

-----------------------------------------------------------------------------
(***************************************************************************)
(* Properties that hold.                                                   *)
(***************************************************************************)
OrderStates == { "PENDING_ENTRY", "IN_POSITION", "EXITING" }

\* How often an entry or exit of the intent was begun, sent or not.
Attempts(kind, i) == sent[kind][i] + (IF <<kind, i>> \in raised THEN 1 ELSE 0)

\* The FSM state and the intent attributes that six handlers write separately
\* agree: an intent waits for a verdict exactly in PENDING_APPROVAL and its entry
\* was not begun; every order state has an active intent whose entry was begun
\* once, and its exit exactly when the state is EXITING; and an exit sells what
\* was bought.  Begun, not sent: a submission that raises leaves PENDING_ENTRY
\* without an order, and another order's fill may then lead on to IN_POSITION.
IntentBookkeeping ==
    /\ pending # NoIntent <=> state = "PENDING_APPROVAL"
    /\ pending # NoIntent => Attempts("entry", pending) = 0
    /\ state \in OrderStates =>
          /\ active # NoIntent
          /\ Attempts("entry", active) = 1
          /\ Attempts("exit", active) = IF state = "EXITING" THEN 1 ELSE 0
          /\ sent["entry"][active] = 1 /\ ~cfg.backtest_plumbing => spread = active
    /\ state \in {"IN_POSITION", "EXITING"} => entryPriced

\* However verdicts, ticks, blackouts, refusals, exceptions and restarts
\* interleave, the entry of an intent is begun at most once, it is exited and
\* hedged at most once each, and only if its entry was begun.  (That it was sent
\* cannot be said: see IntentBookkeeping.)
SubmissionsOrdered == \A i \in Intents :
    /\ Attempts("entry", i) <= 1
    /\ Attempts("exit", i) <= Attempts("entry", i)
    /\ sent["hedge"][i] <= Attempts("entry", i)

EntrySent(i) == sent'["entry"][i] > sent["entry"][i]

\* A dry run reaches no venue: no entry, exit or hedge is ever submitted and
\* no intent is left waiting for an approval.
DryRunSendsNothing ==
    cfg.dry_run =>
        /\ pending = NoIntent
        /\ \A kind \in Submitted, i \in Intents : sent[kind][i] = 0

\* What the handlers rely on besides: a pending intent and that of an order state
\* is the latest, what is numbered beyond `issued` has no history, a pending
\* intent has no verdict yet, a position whose hedge latch is open was not
\* hedged, a dry run is never in a state that has orders, and without the fault
\* nothing raises.
Records ==
    /\ pending <= issued /\ active <= issued
    /\ pending # NoIntent => pending = issued
    /\ state \in OrderStates => active = issued
    /\ pending # NoIntent => cfg.selector_enabled /\ verdicts[pending] = {}
    /\ \A i \in Intents : i > issued =>
          /\ verdicts[i] = {}
          /\ \A kind \in Submitted : sent[kind][i] = 0 /\ <<kind, i>> \notin raised
    /\ raised # {} => "submission_raises" \in Faults
    /\ state = "PENDING_ENTRY" => sent["hedge"][active] = 0
    /\ state = "IN_POSITION" /\ ~hedgeSubmitted => sent["hedge"][active] = 0
    /\ cfg.dry_run => pending = NoIntent /\ state \notin OrderStates

\* The inductive invariant.
StrategyInv == TypeOK /\ IntentBookkeeping /\ SubmissionsOrdered /\ Records
                      /\ DryRunSendsNothing

\* How far an intent has come, read off the strategy and its record of orders.
Stage(i) ==
    IF i > issued THEN "new"
    ELSE IF pending = i THEN "asked"
    ELSE IF Attempts("exit", i) > 0 THEN "exited"
    ELSE IF Attempts("entry", i) > 0 THEN "entered" ELSE "dropped"

Life == INSTANCE IntentLife WITH
            mode <- IF cfg.dry_run THEN "dry"
                    ELSE IF cfg.selector_enabled THEN "gated" ELSE "direct",
            latest <- issued,
            life <- [i \in Intents |-> Stage(i)]

\* The handlers, each of which looks at the FSM state alone, implement the life
\* of an intent: an order is only ever sent for the latest one, nothing is asked
\* or entered while an answer is awaited, and what was dropped or abandoned by a
\* verdict, a refusal or a restart is never taken up again.
ImplementsIntentLife == Life!Spec

\* With a selector, an entry is submitted only in the step that delivers the
\* first verdict on that very intent, and that verdict is an approval: late,
\* repeated and contradicting verdicts never reach submit_entry.
FirstVerdictWins ==
    [][\A i \in Intents : cfg.selector_enabled /\ EntrySent(i) =>
          verdicts[i] = {} /\ verdicts'[i] = {"approved"}]_vars

\* Without a selector an entry is only ever submitted in the callback that
\* looked at the gates: never in a blackout, in a blocked regime, before both
\* actors have spoken or on a stale quote.
DirectEntryInSession ==
    [][\A i \in Intents : ~cfg.selector_enabled /\ EntrySent(i) =>
          /\ session = "NORMAL" /\ regime = "open"
          /\ quoteFresh']_vars

\* In plumbing mode (one market order to enter, one to exit, no children and
\* no hedge) on a venue that fills in full, refuses entries only and never
\* cancels, the FSM state mirrors the venue, although order events carry
\* neither side nor quantity to the transition.
PlumbingVenue ==
    cfg.backtest_plumbing /\ Faults \subseteq {"no_instrument", "pipeline_raises"}

NothingHeldBut(i) == \A j \in Intents \ {i} : position[j] = 0
NothingWorkingBut(kind, i) ==
    \A k \in OrderKinds, j \in Intents : <<k, j>> # <<kind, i>> => left[k][j] = 0

PositionMirrored ==
    PlumbingVenue =>
        /\ state \notin OrderStates =>
              NothingHeldBut(NoIntent) /\ NothingWorkingBut("entry", NoIntent)
        /\ state = "PENDING_ENTRY" =>
              /\ NothingHeldBut(NoIntent) /\ NothingWorkingBut("entry", active)
              /\ left["entry"][active] = cfg.order_qty
        /\ state = "IN_POSITION" =>
              /\ NothingHeldBut(active) /\ NothingWorkingBut("entry", NoIntent)
              /\ position[active] = cfg.order_qty
        /\ state = "EXITING" =>
              /\ NothingHeldBut(active) /\ NothingWorkingBut("exit", active)
              /\ position[active] = cfg.order_qty /\ left["exit"][active] = cfg.order_qty

\* On that venue no order state but IN_POSITION lasts, and an intent that
\* waits for a verdict gets out of PENDING_APPROVAL.
WaitsEnd ==
    state \in {"PENDING_APPROVAL", "PENDING_ENTRY", "EXITING"}
        ~> state \in {"FLAT", "IN_POSITION"}

-----------------------------------------------------------------------------
(***************************************************************************)
(* Statements of the documentation that the code does not keep; each is    *)
(* checked by a run that finds the counterexample.                         *)
(***************************************************************************)

\* docs/design/state-diagram.puml, Flat: "no open position"; Exiting: "wait
\* for flat confirmation".  Any fill counts as the confirmation, and the
\* bracket children stay at the venue when the strategy exits by itself.
FlatMeansNoPosition ==
    state = "FLAT" => \A i \in Intents : position[i] = 0

\* docs/design/state-diagram.puml: InPosition goes to Exiting on "TP / SL".
\* _exit_submitted is set by the first exit and never cleared, so the trigger
\* of every later position is dead.
ExitTriggerArmed == state = "IN_POSITION" => ~exitSubmitted

=============================================================================
