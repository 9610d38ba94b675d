# A verification development for nautilus-zerodte

nautilus-zerodte trades options on the day they expire, as a thin layer on
NautilusTrader (NT). This directory holds TLA+ models of the layer, TLC
configurations that check them on small instances, and TLAPS proofs about them
for every instance. Paths below are relative to `src/src/nautilus_zerodte/`
unless they start with `docs/` or `configs/`, which are under `src/`.

## 1. The system

NT owns the event loop, the orders, the clock and the message bus. Every
callback runs to completion on one thread, and `msgbus.publish` runs the
subscribers' handlers before it returns. There is no data race inside a node;
what is hard is the *order* in which callbacks arrive, what each leaves behind
when it returns early or raises, and what the venue does meanwhile.

| Component | State it keeps | Operations | Correct when |
| --- | --- | --- | --- |
| Strategy FSM: `strategies/base.py`, `strategies/reference.py` | FSM state, active and pending intent, entry price, exit and hedge latches, last snapshots of the actors | chain, quote, greeks, session, regime, verdict and order callbacks | state, attributes and the entries and exits begun agree; nothing is submitted twice; the state says what the venue holds |
| Selector and approval: `actors/selector.py`, `models/diversification.py`, `approval/` | buffer of intents, one clock alert | `collect`, `finalize`, `on_stop`, `select_intents` | every intent gets one verdict, in bounded time, and the batch is chosen within the caps |
| Gate pipeline: `gates/`, `models/risk.py` | none: pure functions over a context built per evaluation | `evaluate_pre_greek`, `RiskPolicy.check` | an intent passes only if each stage's input is present, fresh and allowed |
| Session actor: `actors/session.py` | close time | publish the phase at each tick of the underlying | entries stop before the close; the strategies' copy is not too old |
| Regime actor and gated skeleton: `actors/regime.py`, `strategies/gated_skeleton.py` | 20 mids, open price, last tag; what a skeleton has heard, whether it has evaluated | publish the tag when it changes; evaluate once | subscribers hold the actor's current tag; each skeleton passes one verdict |
| Journal: `journal/service.py` | entries in memory, a JSONL file | `record`, `load`, reports | what was recorded is loaded, in order; a torn tail is tolerated; its records explain what the strategy did |
| Learning: `learning/module.py` | mid and greeks by intent | `register_entry`, `on_order_filled` | each fill is attributed to its intent |
| Structure selectors and costs: `strategies/selectors/`, `costs/` | none | choose strikes, price the spread, charge fees | the edge is net of every fee |
| Configuration and command line: `config/`, `cli/main.py` | layered YAML, environment, flags | `load_config`, `paper`, `backtest` | real orders need three opt-ins; the profile has the last word |
| Node wiring: `node/`, `adapters/` | none | build actors, strategies, clients, feeds and fees from the configuration | what is built fits together and is what the banner says |
| Streaming, ingestion planner, research tools | none of interest | construction | (not the order path) |

Interactions. Ticks reach the session and regime actors, which publish snapshots
on the bus; strategies keep the last of each. A chain or a quote starts an
evaluation in `FLAT`: snapshot -> structure -> gates -> `_run_gate_pipeline`,
which ends in a journal entry, a submission, or (with a selector) a published
intent. The selector buffers it and answers a batch interval later on the same
bus. Orders go to the venue through NT, whose events come back to the strategy.
The journal and the learning module hear of everything and influence nothing,
except that an exception in them ends the callback where it stands, between the
assignments to the strategy's attributes and the calls to the venue.

The hazards this makes are listed in `PROJECT.json`, each at its line with the
properties that would catch it.

## 2. Modules

| Module | What it is |
| --- | --- |
| `ZeroDteStrategy` | one strategy, its venue, and arbitrary messages from the actors |
| `IntentLife` | abstract specification: what becomes of one intent of a strategy |
| `ZeroDteStrategyProofs` | its theorems, with the refinement of `IntentLife` |
| `MCStrategyFaults`, `MCStrategyPlumbing`, `MCStrategyDocs` | its instances for TLC |
| `SelectorActor` | the selector, its clock, and the strategies that compete for a slot |
| `ApprovalProtocol` | abstract specification: questions asked and decided |
| `SelectorActorProofs` | its theorems, with the refinement of `ApprovalProtocol` |
| `MCSelector` | its instance for TLC |
| `SessionClock` | the session actor, a strategy that acts on what it was told, and the time of day |
| `SessionClockProofs` | its theorems |
| `MCSession` | its instance for TLC |
| `StructureSelection` | from a chain or a tick to the edge and liquidity gates: strikes, debit, edge after cost |
| `StructureSelectionProofs` | its theorems |
| `MCStructures` | its instance for TLC |
| `JournalLog` | the journal's file, written by several processes, and its lists in memory |
| `JournalLogProofs` | its theorems |
| `MCJournal` | its instance for TLC |
| `AuditTrail` | a strategy's callbacks, write by write, with what they leave in journal and learning module |
| `AuditTrailProofs` | its theorems |
| `MCAudit` | its instance for TLC |
| `RegimeFeed` | the regime actor and the gated skeletons that hear it |
| `RegimeFeedProofs` | its theorems |
| `MCRegime` | its instance for TLC |
| `LayeredConfig` | from files, profile and environment to actors, strategies, clients, feeds and fees |
| `NodeLaunch` | the commands `paper` and `backtest` over it, and the life of a node |
| `NodeLaunchProofs` | its theorems |
| `MCLaunch` | its instance for TLC |

### ZeroDteStrategy

The variables are the attributes of the strategy object (`state` is `_state`,
`active` is `_active_intent`, `pending` is `_pending_intent`, ...), the venue
(`left`: lots of each order still working; `children`: brackets it holds;
`position`), and observers that no handler reads (`issued`, `sent`, `raised`,
`verdicts`). `spread` is `_position_instrument_id`. Each callback is one action with all the calls it makes:
`OnQuoteTick` is `on_quote_tick` with `_manage_position` or the whole gate
pipeline, `OnIntentApproved` includes the submission, `OnSessionPhase` the
flattening.

* The venue is external: `Filled`, `Refused`, `ChildRefused`, `Cancelled` are
  what NT reports for market and bracket orders. `Faults` says which of the
  unfriendly outcomes may occur; no property depends on a fault being absent
  except where its comment says so.
* A submission may break off between the transition and the order
  (`BreaksOff`, fault `submission_raises`): a journal write raises, or the order
  cannot be built. The likely case is the first live entry: quotes of the spread
  are subscribed to after a fill only (`strategies/reference.py:276`), so
  `_estimate_entry_price` finds none and the bracket is asked for without prices.
  Whether NT's `bracket()` raises then is outside the repository, so the model has
  both outcomes: `SubmitEntry` sends, breaks off in `PENDING_ENTRY`, or finds no
  instrument; `Exit` (the transition to `EXITING` and `submit_exit`) likewise.
  `raised` records what broke off, and `Attempts` counts what was begun.
* Prices are abstracted to whether a trigger fires, the data-dependent gates
  (edge, liquidity, chain age, greeks) to passing or failing. The gates that
  depend on the strategy's own state (session, regime, age of the quote) are
  guards of `GatesPass`.
* The two children of a bracket are one order `bracket`: the venue's
  one-cancels-other makes them one exit, and the strategy cannot tell them apart.
* `flatten_positions` calls `cancel_all_orders()` without the instrument NT
  requires (`docs/killswitch_plan.md` acknowledges the TypeError).
  `CancelAllRaises` selects the real behaviour, or the one after a repair.
* `EVALUATING` is visible only when something inside the pipeline raises.

`IntentLife` forgets handlers and messages: an intent is new, asked, entered,
exited or dropped, and only the latest one moves. `Stage` reads this off the
strategy's attributes and its record of orders.

### SelectorActor

`Propose` is `_queue_for_selector` together with `collect`, because the bus is
synchronous. `Finalize` is `finalize` with every verdict's handler. The buffer is
cleared first; `Published` gives the prefixes of the publication order
(rejections, then approvals by rank) after which an exception may end the call,
and `lost` collects the rest. `Approved` is `select_intents`, written as a
recursive function along the sort key. `Off` is the value of `alert` when no time
alert is set. Since both approval handlers approve, the classification of an
intent does not influence the outcome.

`ApprovalProtocol` is what is left without buffer, ranking and timer: parties ask,
a decision settles all open questions at once, and what it leaves unanswered is
forsaken. `forsaken` is mapped to the strategies whose intent is in `lost`.

### SessionClock

`ZeroDteStrategy` receives session phases as arbitrary inputs; `SessionClock`
models where they come from and how old they get. `phase` is
`_session_allows_entry` with `_session_received`, `quoteAge` the clock less
`_last_quote_ts`, `fsm` the FSM state reduced to what decides on an entry.
Ages are used in place of timestamps, and stop growing at `Stale`, where neither
the quote gate nor a tick tells them apart. Two observers say how old the phase is:
`phaseAge`, since the actor last looked at the clock, and `asked`, its value when
the pending intent passed the gates.

* `UnderlyingTick` is the tick's whole delivery: the actor publishes the phase,
  then the strategy's `on_quote_tick` runs. NT starts actors, and so subscribes
  them, before strategies. `FlattenRaises` is a delivery that the `TypeError` of
  `flatten_positions` ends in the middle.
* `OtherTick` is a tick the strategy hears and the actor does not: of the hedge
  perpetual, of a spread, or of the strategy's own underlying when the node's
  actors watch another strategy's (`node/wiring/actors.py` takes the first).
  `cfg.feeds` says whether it hears one of these from the start (`"hedged"`,
  `"foreign"`). `PositionFilled` is `on_order_filled` of a live strategy, which
  subscribes to the spread's quotes and never unsubscribes: it sets `otherFeeds` for
  the rest of the run. `base.py:144` takes any such tick for a fresh quote.
* `OnIntentApproved` comes within `ApprovalDelay`, or never.
  `SelectorActorProofs!WaitBounded` proves that bound of the selector.
* A node may be started at any time of the day; midnight brings the next close.
* `Latency` and `Skew` bound how far a tick's `ts_event` is behind or ahead of
  the node's clock. No result depends on `Latency`.

### StructureSelection

The selectors, cost models and the first two gates are pure functions of a chain
and a configuration, so a behaviour is one evaluation: `OnOptionChain` or
`OnQuoteTick`, whose outcome is the observer `seen`. `SelectFromChain` is
`select_from_chain` of both selectors, with each return of `None` a disjunct of
its condition; the IB selector applies the edge threshold itself, the Deribit one
leaves it to the gate. `PlumbingSlice` and `PlumbingTick` are the signals that
plumbing mode makes up.

* Prices are whole ticks; `ticks` says how many make a dollar (IB) or a coin
  (Deribit, where the value is the intrinsic value over the underlying's price).
  Ratios are exact fractions, so nothing here is about floating-point rounding.
* `Bps` and `Wide` stand for 10,000 and 100, `PlumbingEdge` for 10. TLC's instance
  scales them with its small prices; the theorems hold for all values.
* `NoQuote` is a call without quote; a missing side of a quote is 0, as in the
  code. Whether a call is at the money is NautilusTrader's `atm_strike`, an input.

### JournalLog

The file is `lines`, its terminated lines, and `tail`, the texts after the last
newline; a line is a sequence of texts, because an append may continue a line
that another left unfinished. An append is one write of an entry shorter than
Python's buffer, so writers do not interleave inside a line. `Record` is
`record` with `_append_jsonl`; `WriteFails` is the same call on a full disk,
which raises after the list in memory has the entry; `Crash` ends a process,
perhaps in the middle of an append, and starts it again. `CutShort` says what the
last two leave of an entry: nothing, a part, or all but the newline. `Damaged` and
`Loaded` are the two outcomes of `load`, for each of the ends of the file
(`Views`) that a reader may catch while a writer appends.

### AuditTrail

`ZeroDteStrategy` takes a callback as one step; `AuditTrail` opens it up. A
callback is the sequence of its steps, `todo`: each assigns attributes (`mem`) and
then writes one record or sends one request, in the order of the source. The
operators that end in `Steps` are the handlers (`GateSteps`, `SubmitSteps`,
`FilledSteps`, ...), `Transition` is `_transition`, which assigns before it writes.
`Write` and `Send` take the next step, `WriteRaises` takes its assignments only and
drops the rest, `Restart` loses memory and callback but neither file nor orders.
No other callback starts before `todo` is empty.

* `written` is a set: the properties ask what was recorded, and `replayed` is what
  a reader who follows the records one by one takes for the state.
* Orders and fills are those of plumbing mode, one to enter and one to exit, of
  two lots, which may fill in two events. The richer order life is
  `ZeroDteStrategy`'s.
* `of` and `against` are what a record is compared by: whose order was filled, and
  whether slippage refers to the registered mid or to the fill's own price
  (`RegisterEntry`, `LearningSteps`). Amounts are left out.

### RegimeFeed

A quote is delivered subscriber by subscriber, in any order: `RegimeUnchanged`
and `RegimeChanges` are `RegimeActor.on_quote_tick` without and with a
publication, `SkeletonHears` is the skeleton's `on_quote_tick`. A tag is published
within the actor's handler, so `Delivered` includes the skeletons' evaluation. A
journal write that raises inside a skeleton ends the delivery of the tag and of
the quote (`RaisedAt`): `reached` are those that were told before it, `missed` those
that did not hear the last tag. `RegimeTag` is `compute_regime_tag` rule by rule, in
exact fractions of `Per`, on a price grid of which `Unit` steps make one whole
price.

### LayeredConfig and NodeLaunch

A YAML file is a function from the keys it sets to values, so `DeepMerge` is the
function override; nested keys are flattened, and only those kept that decide about
orders, actors, clients, feeds and fees. `Merged` is the order of `load_config`:
base, risk, strategy, profile, fees, diversification, session, streaming, and the
profile again; then the environment (`ApplyEnvOverrides`) and the defaults of
`AppConfig`. Two values differ from an ordinary string: `Unset`, a variable that
is absent, and `Empty`, one that is set to nothing, because the code tests now
for one, now for the other.

`Paper` and `Backtest` are the commands, from any profile and any environment each
time; their guards are the early exits that leave no record. A node keeps what it
was built of (`Built`). `SubmitOrder` is an order of one of its strategies: it
needs a client to send it to and a strategy that submits. `BuildRaises` is a
build that fails after `NODE_START` was recorded, for lack of credentials or quotes
or for any other reason.

## 3. Runs

| Run | Question | States |
| --- | --- | --- |
| `strategy_faults` | do bookkeeping, at-most-once submission and the life of an intent survive every fault and order of callbacks? | 1.35 million |
| `strategy_plumbing` | in plumbing mode, does the FSM state mirror the venue, and does every wait end? | 6,400 |
| `selector` | is every intent answered once, eventually and in bounded time, and the batch chosen optimally? | 99,000 |
| `session` | how near to the close may an entry be, by how much does another feed worsen it, and does the blackout hold without one? | 312,000 |
| `structures` | is a selected spread bounded in width and worth its price, and do prices act in the right direction? | 400,000 |
| `journal` | does `load` keep what was recorded, and raise only for damage? | 140,000 |
| `audit` | if any write may fail and the process die anywhere, does the journal still explain what was sent and filled? | 218,000 |
| `regime` | does publication on change leave anybody with an old tag or without a verdict? | 136,000 |
| `launch` | can an order leave without the three opt-ins, and does a node fit its configuration? | 16,000 |
| `doc_*` | three statements of the documentation the code does not keep (section 6) | |

Bounds.

* `MaxIntents`, the intents of a run that reach the end of the gates: 2 or 3.
  Everything the handlers compare is "the pending intent" or "the active
  intent" against another, so two separate a stale message, order or latch from
  a current one. TLC explores unboundedly many rejected evaluations besides.
* `order_qty` of one lot, or two where partial fills matter.
* `MCStrategyFaults` takes four configurations that cover every switch of live
  trading: hedged, two lots on its own, behind a selector, a selector in a dry run.
  `MCStrategyPlumbing` takes both plumbing configurations.
* The selector has three strategies for two slots and two instruments, edges 1
  and 2: ties, a conflict on an instrument, and a batch over `top_n`, together
  and separately. The batch interval is one tick: an intent comes before or after
  the clock's step, and each of three intents can put the batch off by one.
* The session has a day of seven minutes of three ticks, the close in the fifth
  minute and a blackout of two minutes. Quote age, skew and approval delay add
  up to one minute exactly, so the bounds are met with equality, and a tick may
  be later than the quote gate admits. Every configuration: with and without
  selector, in plumbing mode or not, and with each kind of feed. Entries in the
  blackout and after the close do occur in the run, after `otherFeeds`.
* The structures run takes every chain of up to three of five strikes with every
  combination of seven quotes (none, one-sided, locked, tight, wide, crossed): up
  to two gaps around the target and ties on either side. Thresholds are zero and
  negative for the edge (the backtest profiles use a negative one), zero and one
  half for liquidity.
* The journal has two processes with two journals each and four entries: a torn
  line, the append that continues it, and entries of others before and after.
* The audit run has two intents, which tells a stale order from a current one,
  two starts, and in each behaviour one kind of fault, as often as it likes;
  within it every subset of intents may have a positive mid.
* The regime run has two skeletons, one to raise and one to be cut off, one such
  raise, and four prices with unit 10 and 1 % proximity: of 495, 505 and 509
  half a unit is once just more than the proximity and twice less, so `PIN_RISK`,
  `UNKNOWN` and both sides of the boundary occur; 520 trends away from 495. A
  window of three with a sample of two lets prices leave the window.
* The launch run has the committed files, profiles modelled on the six committed
  ones and four variations that opt in to live orders, name overlays that do not
  exist or are of the other venue, and list several strategies; every environment
  the code can tell apart, and one node that is lost.
* The runs of section 6 use the smallest instance of `MCStrategyDocs`, or that of
  `launch`, in which the statement fails.
* Deadlock is not checked where a run may end: a stopped node stays stopped, an
  evaluation is the last step of `structures`, and the bounds on entries, intents
  and starts end `journal` and `audit`.

Fairness. `ZeroDteStrategy!FairSpec` assumes that the venue answers an order
that keeps working (market and IOC orders do not rest) and that the selector's
alert brings a verdict for an intent that stays pending; the latter is what
`EveryoneAnswered` shows of the selector itself. `SelectorActor!FairSpec`
assumes that time passes and that NT runs an alert that is due.
`RegimeFeed!FairSpec` assumes that a quote that has come in reaches its
subscribers: NT's bus delivers within the publishing call. Nothing is assumed of
the market, the gates or the shutdown.

## 4. What the properties say

Strategy: `IntentBookkeeping` (state, pending and active intent and the entries
and exits that were begun agree; *begun*, because a submission that raises leaves
`PENDING_ENTRY` without an order, and another order's fill may lead on to
`IN_POSITION`), `SubmissionsOrdered` (entry, exit and hedge begun at most once, in
that order), `FirstVerdictWins` (an entry behind a selector is submitted only in the
step that delivers the first verdict, an approval), `DirectEntryInSession`
(without a selector, only past session, regime and quote age; behind a selector
nothing of the kind holds),
`ImplementsIntentLife` (an order is only sent for the latest intent; what was dropped or
abandoned is never taken up again),
`DryRunSendsNothing`, `PositionMirrored` and `WaitsEnd` (plumbing mode).

Selector: `NothingStranded` (in `SelectorInv`: a strategy waits exactly for an
intent that is buffered under an armed alert or recorded as lost),
`VerdictAge` (the wait is bounded by one interval per strategy in the batch,
although each intent restarts the interval), `BatchOptimal` (the greedy choice
is the best the caps allow), `EveryoneAnswered`, `ImplementsApproval` (nobody is
answered unasked or twice, nobody trades without leave, and a batch is settled as
a whole).

Session: `MarginKept` (in `SessionInv`: what a `NORMAL` phase is still worth, in
ticks to the close, as it ages or its intent waits), `EntryMargin` (an entry is
nearer to the close than the blackout and the truncated minute only by the age
of the look at the clock it rests on, in every configuration) and
`BlackoutRespected` (with limits that fit into a minute, no entry in the blackout
or after the close). With the defaults (30 seconds, 100 milliseconds for one
strategy) they fit.

What bounds that age is the quote gate, and only while every quote the strategy
hears is one that also made the actor look at the clock. So the bound in
`EntryMargin` and all of `BlackoutRespected` are stated under `~otherFeeds`: for
plumbing mode without a hedge, and for a live strategy *until its first fill*. A
live strategy after its first fill, a hedged one, and one whose underlying the
actors do not watch are outside: there a tick of the other instrument keeps the
quote "fresh" under a `NORMAL` phase of any age, and entries in the blackout occur.

Structures: `WidthBounded` (in `SelectionInv`: the maximal loss is less than twice
the configured width, whatever strikes are missing), `PaysBelowPayoff` (what
passes with uncrossed quotes and a threshold that is not negative costs at most
what it pays at the underlying's price, which the chain must have reported),
`BetterPriceKeepsEntry` (debit, spreads and commission move in different
directions when a quote improves, but an entry stays one) and `RejectedWhere`
(which gate can reject the signals of which selector, so what the rejection
report can contain). On a crossed quote `PaysBelowPayoff` would fail:
`quote_spread_liquidity` gives it full liquidity and a negative spread, although
its docstring calls its treatment of invalid prices conservative.

Journal: `Intact` (in `JournalInv`: until a line is damaged the file is what was
recorded), `RecordsSurvive` (`load` raises or returns everything recorded, in
order, and at most one entry more), `NoFalseAlarm` (several writers and readers
alone never make it raise) and `IndexAgrees` (each list in memory is its share of
the file).

Audit trail: `WriteAhead` (in `AuditInv`: nothing is put to the selector or the
venue that the journal does not announce, wherever a write raises or the process
dies), `JournalReplays` (the transitions on record follow one another and end in
the strategy's state) and `Attributed` (while the process lives and orders fill at
once, every fill is recorded under the intent whose order it was, and slippage
under that intent's mid). `Attributed` is about plumbing mode's life of orders, and
its conditions are the ones the code needs there: after a restart, or from the second
part of an exit's fill, `on_order_filled` attributes the fill to nothing or to the next
intent. With brackets it takes less: a child's fill in `EXITING` clears the intent,
and the exit's own fill is recorded under nothing (the trace of
`doc_flat_means_no_position`).

Regime: `SubscribersCurrent` (whoever was not cut off by a raise knows the tag that
is due to the last price), `UnknownIsCheap` (`UNKNOWN` exists only where half a unit
is more than the proximity: with 0.1 % and whole prices never from 500 up, where
every price that neither trends nor chops is `PIN_RISK`, which is blocked by default),
`FirstTagCoarse` (the first tag is never `TREND` or `CHOP`, and a skeleton may pass
its one verdict on it), `OneVerdict` and `EveryoneEvaluates`.

Launch: `OrdersNeedThreeOptIns`, `ModeTruthful` (the banner is true of every
strategy of the node), `AskersHaveSelector` (no strategy waits for an approval
nobody gives), `CredentialsOfNet` (mainnet is given the variables that the profile or
the defaults name and no others, so the testnet's fallbacks never reach it; a live
node has both a key and a secret),
`ProfileWins` (over every file, overlay and default), `BacktestHonest` (fees are
those of the venue or none, and a strategy in plumbing mode gets neither fees nor
an option chain, unless it brings a reference section of its own, which fees and
feeds do not look at), and in `LaunchInv` that the starts without a stop are the
running node and those that were lost.

The selector's runs show something about the code worth knowing: `max_per_strategy`
never binds, because a waiting strategy proposes nothing, so a batch holds at
most one intent of each.

## 5. Proofs

All theorems hold for every value of the constants under the `ASSUME`s of the
modules: nonempty subset of the configurations, any fault set, any number of
intents, any finite set of strategies, any policy and interval, any files,
profiles and environments.

* `StrategyInv` is the inductive invariant of the strategy. Neither
  `IntentBookkeeping` nor `SubmissionsOrdered` is inductive alone: that an
  approval does not enter twice needs that the pending intent was never sent
  and has no verdict yet, that an intent number is fresh needs that everything
  beyond `issued` has no history, and that a position is hedged once needs that
  an open latch means no hedge was sent. These facts are `Records`.
  `StrategyInvariant` has one lemma per callback. The statements count attempts:
  `FirstAttempt` says once what an entry or exit begun for the first time changes,
  whether its order is sent or the submission breaks off, and `NeverEntered` that
  nothing else was begun before.
* From it: `BookkeepingHolds`, `AtMostOnce`, `DryRunIsDry`, and the action
  properties `OnlyFirstVerdictEnters` and `DirectEntriesGated`, where `Records`
  again says why a second verdict finds nobody waiting.
* `StrategyImplementsIntentLife` maps every callback to a step of `IntentLife` or to
  none: `Records` tells that the intent a handler acts on is the latest one, and
  that nothing is pending when the next one begins.
* `PlumbingMirrorsVenue` uses `MirrorInv`: `StrategyInv`, `PositionMirrored`, and
  that plumbing mode has no bracket children. Nothing raises on that venue, so by
  `Records` what was begun was sent, and an exit finds its instrument.
* `SelectorInvariant` proves `SelectorInv`: `NoStrandInv` first, which is inductive with
  the types, and on it `Apart`, that the intents under way are of different
  strategies and carry different uuids. `VerdictInTime` adds the age of a
  strategy that does not wait (zero) and the finiteness of the batch: a new
  intent adds one interval to the bound and at most one to what remains.
  `WaitBounded` puts the two together for the whole node.
* `ApprovedIsOptimal` proves `BatchOptimal` although `Approved` recurs over the batch
  and induction over data is beyond the provers. A least counterexample takes
  the place of the induction: of a family of parts of the finite batch
  `MinimalMember` picks one with no member below it. A smallest part without a greedy
  choice has a worst intent (`WorstExists`), the rest has a greedy choice, and
  adding the intent or not gives one for the whole (`GreedyExists`). It solves the
  recursion, and whatever does is greedy (`ApprovedIsGreedy`): an intent is in
  exactly if those ahead of it leave room. `StrategyCapNeverBinds` shows from
  `Apart` that room is a matter of `top_n` and the instrument only. `GreedyIsOptimal`
  then exchanges: of the selections said to be better take one nearest to the greedy
  choice, and replace an intent the greedy choice lacks by a better one it has
  (`ExchangeFor`); the result is as large, worth no less, and nearer.
* `SelectorImplementsApproval` maps `Propose` to a question, `Finalize` and the
  shutdown to one decision over everybody the buffer holds; `NothingStranded` says
  that these are all open questions.
* `MarginInvariant` proves `SessionInv`. The actor never looks at the clock
  between ticks, but a `NORMAL` phase is published with the blackout and one
  whole minute to go (`Published`, from the truncating division), and every
  tick of the clock that takes from the distance to the close also ages the phase,
  or makes the pending intent wait (`TimeKeeps`); midnight only adds to it. Without
  `MarginKept` nothing relates an old phase to the time of day. While the strategy
  hears its underlying only, a quote is never younger than the phase by more than the
  skew, which turns the quote gate into a bound on the phase. `EntryStep`
  evaluates the invariant at the step that enters; `EntriesKeepMargin` and
  `NoEntryInBlackout` follow, with the limit section 4 states.
* `SelectionInvariant`, `EntriesPay` and `RejectionsKnown` follow from one
  invariant, that what was seen is explained by the chain it was seen in
  (`ExplainedInv`). `NearestIsNearest` shows that the choice of a strike is
  well defined (a least element of the distances, then of the strikes at that
  distance), `SpreadWidth` uses that the lower strike was itself a candidate for
  the higher one, and `EdgeCoversDebit` peels the costs off the edge, each of
  which is not negative, until the debit and the value are left. The theorems
  assume that every call of a chain has a strike, strikes are positive, and fees
  are no rebates.
* `BetterPricesKeepEntries` compares two evaluations. Fractions are ordered by cross
  multiplication (`AtMost`, `PlusAtMost`, `MinusAtMost`). A better price keeps the strikes
  (`SelectionKept`), narrows a spread (`SpreadNarrows`) and lowers the debit, but the
  commission counts in basis points of the debit and rises. `EdgeRegrouped`
  therefore takes the costs that depend on the debit off first (`Net`) and the
  spreads after. `Net` is a fraction with the debit below, less a constant; while it
  is not negative, which a passed threshold that is not negative implies, a smaller
  debit only enlarges it (`NetImprovesDeribit`, `NetImprovesIb`, `EdgeImproves`).
  Under a negative threshold it may be negative, and then a smaller debit makes it
  more so: the statement leaves such configurations out.
* `JournalInvariant` proves `JournalInv`. `Intact` is inductive with the types:
  `DamageStays` says that a damaged line is never mended, and until there is one
  an append either adds a whole line or follows an unfinished one and damages
  it. `NothingDroppedSilently` and `OnlyCutsDamage` follow. `ListsAgreeWithFile` needs
  `Numbered` besides: lists and file are ascending in the numbers of their entries,
  so what both hold they hold in the same order (`SameOrder`), and what a list
  holds is recorded or its call raised.
* `AuditTrailInv` speaks of the future: every step left in `todo` is good for the
  memory and the records it will meet, which those before it determine
  (`GoodStep`, `Seen`, `Left`), and a request is the last step of its callback. So
  `Write` and `Send` preserve it by taking the head off, a raise or a crash by
  dropping the rest, and a callback establishes it when it starts. On a plain
  venue (one start, no partial fills) an order works only while no callback runs
  and the state waits for it (`Fits`); this is what makes the attributes the right
  ones when the fill comes. `JournalIsAhead`, `TransitionsReplay` and
  `FillsAreAttributed` follow.
* `SubscribersCurrent` is inductive with the types: a step either leaves the tag
  alone or tells everybody it does not put into `missed`. `PinMasksUnknown` is
  the arithmetic of a remainder (the nearest whole price is at most half a unit
  away), `FirstTagIsCoarse` that the first price is the open price and a sample
  of one, `OneVerdictEach` that every delivery goes through `MaybeEvaluate`.
* The theorems of `NodeLaunchProofs` rest on `Provenance`: a running node is what `Paper` or
  `Backtest` built of its launch. The work is in the layers: `DeepMerge` keeps what the later layer
  sets, so the profile, merged last, prevails. They assume that `AppConfig` has
  both switches with the opt-in off (`DefaultsAssumption`) and that no file but a
  profile sets `allow_live` or names the credentials' variables (`FilesAssumption`),
  which TLC evaluates on the committed files. The code reads all three from the
  merged configuration: an overlay that set `allow_live` would count as an opt-in,
  and one that named variables would be obeyed.

Model-checked only: `WaitsEnd`, `EveryoneAnswered` and `EveryoneEvaluates`, because
liveness under fairness is beyond the installed provers, and the three statements
of section 6, which are false. Every invariant, action property and refinement of a
passing run is a theorem.

## 6. Where documentation and code differ

| Run | Statement | What the code does |
| --- | --- | --- |
| `doc_dry_run_forced` | `README.md:79`: `DRY_RUN=1` forces dry-run mode; `docs/architecture.md:33`: no orders are submitted then | `paper` replaces the value by what the three opt-ins decide (`cli/main.py:183`) |
| `doc_flat_means_no_position` | state diagram: `FLAT` has no open position | any fill in `EXITING` leads to `FLAT`, a bracket child's included |
| `doc_exit_trigger_armed` | state diagram: take profit and stop loss lead to `EXITING` | the exit latch is never cleared: one armed exit per strategy object |

Met while modelling, visible in the models, but not runs of their own:

* A cancelled or expired entry has no handler: `PENDING_ENTRY` stays, where the state
  diagram returns to `FLAT`.
* After a crash in the middle of an append the next append continues the line, and
  every later `load` raises. A tick of any subscribed instrument counts as a fresh
  quote of the underlying (`docs/gate-boundary.md:40` asks for the underlying's).
* "Reconcile, then trade" (`docs/engineering.md`): `on_start` reads neither journal nor
  venue, so a restart begins in `FLAT` whatever the venue holds. "A maximum age" of
  the selector's batch: only the interval is configured, and `VerdictAge` gives the
  bound that follows from it. The state diagram blocks new entries in a blackout:
  an approval is acted upon without looking at the session again. `BlackoutRespected`
  shows that no entry gets into the blackout by this as long as quote age, skew and the
  selector's delay fit into a minute and the strategy hears its underlying only. From
  its first live fill on, with a hedge, or with an underlying the actors do not
  watch, entries in the blackout are reachable in `session`, with and without a
  selector.
* A submission that raises after the transition leaves `PENDING_ENTRY` and an active
  intent without any order; nothing leads out of it but another order's event or a
  restart. The first live entry is a candidate, because its bracket has no prices.
* On IB a node without the opt-ins, or without `IB_HOST`, gets no client at all, not
  even for data, so an `OBSERVE` node observes nothing. `DERIBIT_TESTNET` overrules
  the profile's net: a testnet profile that names the testnet's variables, started
  with `DERIBIT_TESTNET=0`, hands them to mainnet. On the testnet key and secret may
  come from different pairs of variables, on mainnet an empty variable counts as a
  credential.
* An unknown strategy class becomes the gated skeleton, and an overlay whose name
  has no file is passed over; neither is reported. `_deribit_load_ids` does not
  look at `strategies`.
* The open price of the regime actor is never reset, so on a node that runs
  overnight `TREND` is measured against the first tick of an earlier day.
* `daily_loss_breached`, `trading_state_active` and `feed_healthy` are never set
  (`gates/evaluator.py:78`), so those checks always pass. The learning module's
  greek decomposition is always zero, because `base.py` passes no moves.

## 7. Not modelled

NT itself is external. The journal's reports count entries, `resolvers.py` and the
type validation of `AppConfig` accept or refuse a configuration as a whole,
streaming capture builds one NT configuration, the ingestion planner publishes a static
plan once that nobody subscribes to, and the research tools and the remaining
commands are offline; none keeps state that the order path reads.
`SkeletonZeroDteStrategy` records its start and stop and does nothing else.

The amounts of greeks and their limits pass or fail at will in `ZeroDteStrategy`, as
do chain age and prices: the gates' arithmetic is in `StructureSelection`, the
strategy's reaction to it in `ZeroDteStrategy`, and no module has both.

`ZeroDteStrategy` has the exceptions of an evaluation and of a submission, whatever
raises them. It assumes that the handlers of order events and of a rejection do not
raise: what follows from a journal write that fails there (a fill that moves no
state, a rejection that ends no wait) is in `AuditTrail` for the order life of plumbing
mode, without brackets and hedges. That a missing instrument may turn up
when a position is to be sold is modelled only where no spread was ever bought.

`--streaming` and the keys it overrides are left out of `NodeLaunch`, so
`ProfileWins` says nothing of them.

## 8. Plan

Done: the order path with its two abstract specifications, the session clock,
structure selection with its costs, the journal and what a strategy leaves in it,
the regime feed, and the launch of a node, with their invariants proved.

Left, in order:

1. Exposure across batches: `top_n` and the caps count the approvals of one batch
   only, and the greek gate sees the portfolio without the judged intent
   (`RiskPolicy.check`, with its zeros for missing greeks).
2. Chain-snapshot age as state, like the quote's in `SessionClock`.
3. Attribution of partial fills: the exact conditions under which a second fill
   event is recorded under the wrong intent.
4. Brackets and hedges in `AuditTrail`.
