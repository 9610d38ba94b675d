---------------------------- MODULE SessionClock ----------------------------
(***************************************************************************)
(* The session blackout in time: the SessionActor, which looks at the      *)
(* clock on ticks of the underlying only, and a strategy, which acts on    *)
(* the phase it was last told and on the age of the last quote it saw.     *)
(*                                                                         *)
(* A handler runs to completion and is one action; the tick of the         *)
(* underlying reaches the actor before the strategy, because actors are    *)
(* started, and so subscribed, first.  Time passes in ticks of the clock,  *)
(* between handlers.                                                       *)
(*                                                                         *)
(* Data abstractions.  Times of a quote are kept as ages, which stop       *)
(* growing when no comparison can tell them apart any more; the gates      *)
(* besides session and quote age may pass or fail; the regime actor speaks *)
(* on the same first tick, so it adds nothing to readiness.                *)
(***************************************************************************)
EXTENDS Integers

CONSTANTS
    TicksPerMinute,
    DayLength,        \* ticks of a day
    CloseTick,        \* market_close_utc, in ticks after midnight
    BlackoutMinutes,  \* blackout_minutes_before_close
    MaxQuoteAge,      \* max_underlying_quote_age_secs, in ticks
    Latency,          \* bound: how late a tick may reach the node
    Skew,             \* bound: how far its ts_event may be ahead of the clock
    ApprovalDelay,    \* how long the selector may take for its verdict
    Configs           \* the strategy configurations under study

\* In plumbing mode quotes are evaluated, not chains.  A strategy hears its
\* underlying, which the actors watch too; or the hedge perpetual besides; or, as
\* the second strategy of a node, an underlying of its own, not the actors'.
Config == [ selector_enabled : BOOLEAN, backtest_plumbing : BOOLEAN,
            feeds : {"underlying", "hedged", "foreign"} ]

ASSUME ClockAssumption ==
    /\ TicksPerMinute \in Nat \ {0} /\ DayLength \in Nat \ {0}
    /\ CloseTick \in 0..(DayLength - 1)
ASSUME LimitsAssumption ==
    /\ BlackoutMinutes \in Nat /\ MaxQuoteAge \in Nat
    /\ Latency \in Nat /\ Skew \in Nat /\ ApprovalDelay \in Nat
ASSUME ConfigsAssumption == Configs \subseteq Config

VARIABLES
    cfg,            \* the configuration; never changes
    tod,            \* clock.utc_now(), in ticks after midnight
    phase,          \* the strategy's last SessionPhaseSnapshot, or "none"
    quoteAge,       \* clock time less _last_quote_ts
    otherFeeds,     \* it hears quotes of instruments the actors do not watch
    fsm,            \* "FLAT", "PENDING_APPROVAL" or "TRADING" (all the rest)
    waited,         \* ticks since the intent was published
    \* observers
    phaseAge,       \* ticks since the actor last looked at the clock
    asked           \* phaseAge when the pending intent passed the gates

pendingVars  == <<fsm, waited, asked>>
strategyVars == <<phase, phaseAge, quoteAge, otherFeeds, pendingVars>>
vars == <<cfg, tod, strategyVars>>

\* Ticks to the close when NORMAL may last have been published.
Allowed == (BlackoutMinutes + 1) * TicksPerMinute

Stale == MaxQuoteAge + Latency + 1  \* older than any gate or tick tells apart
Ages == -Skew..Stale
Forgotten == Allowed + DayLength - CloseTick  \* so old that the day is over
PhaseAges == 0..Forgotten

TypeOK ==
    /\ cfg \in Config
    /\ tod \in 0..(DayLength - 1)
    /\ phase \in {"none", "NORMAL", "BLACKOUT"}
    /\ quoteAge \in Ages
    /\ otherFeeds \in BOOLEAN
    /\ fsm \in {"FLAT", "PENDING_APPROVAL", "TRADING"}
    /\ waited \in 0..(ApprovalDelay + 1)
    /\ phaseAge \in PhaseAges /\ asked \in PhaseAges

\* A node may be started at any time of the day.
Init ==
    /\ cfg \in Configs
    /\ tod \in 0..(DayLength - 1)
    /\ phase = "none"
    /\ quoteAge = Stale
    /\ otherFeeds = (cfg.feeds # "underlying")
    /\ fsm = "FLAT" /\ waited = 0
    /\ phaseAge = 0 /\ asked = 0

-----------------------------------------------------------------------------
(***************************************************************************)
(* The SessionActor.                                                       *)
(***************************************************************************)

\* Mutant of MinutesToClose: a minute that has begun counts.
MinutesToCloseUp(t) ==
    IF t >= CloseTick THEN 0
    ELSE (CloseTick - t + TicksPerMinute - 1) \div TicksPerMinute

\* Zero from the close until midnight, when the next close comes into view.
MinutesToClose(t) ==
    IF t >= CloseTick THEN 0 ELSE (CloseTick - t) \div TicksPerMinute

\* Mutant of AllowsEntry: the boundary minute is allowed.
AllowsEntryAtBoundary(t) == MinutesToClose(t) >= BlackoutMinutes

AllowsEntry(t) == MinutesToClose(t) > BlackoutMinutes

PublishPhase ==
    /\ phase' = IF AllowsEntry(tod) THEN "NORMAL" ELSE "BLACKOUT"
    /\ phaseAge' = 0

-----------------------------------------------------------------------------
(***************************************************************************)
(* The strategy.                                                           *)
(***************************************************************************)
QuoteFresh(age) == age <= MaxQuoteAge

Admit ==
    \/ /\ cfg.selector_enabled
       /\ fsm' = "PENDING_APPROVAL" /\ waited' = 0 /\ asked' = phaseAge'
    \/ /\ ~cfg.selector_enabled
       /\ fsm' = "TRADING" /\ UNCHANGED <<waited, asked>>

\* Mutant of Evaluate: the age of the quote is not a gate.
EvaluateAnyAge(p, age) ==
    \/ UNCHANGED pendingVars
    \/ fsm = "FLAT" /\ p = "NORMAL" /\ Admit

\* Evaluation against the phase and quote age that the callback has in hand.
Evaluate(p, age) ==
    \/ UNCHANGED pendingVars
    \/ /\ fsm = "FLAT"
       /\ p = "NORMAL" /\ QuoteFresh(age)
       /\ Admit

\* on_quote_tick: the tick's instrument is not looked at.
QuoteSeen(age) ==
    /\ quoteAge' = age
    /\ \/ cfg.backtest_plumbing /\ Evaluate(phase', age)
       \/ ~cfg.backtest_plumbing /\ UNCHANGED pendingVars

\* The actor's tick, which a strategy of another underlying does not hear.
UnderlyingTick(age) ==
    /\ PublishPhase
    /\ \/ cfg.feeds # "foreign" /\ QuoteSeen(age)
       \/ cfg.feeds = "foreign" /\ UNCHANGED <<quoteAge, pendingVars>>
    /\ UNCHANGED <<cfg, tod, otherFeeds>>

\* Flattening raises (cancel_all_orders lacks its instrument), which ends the
\* delivery of the tick: the phase is known, the quote is not.
FlattenRaises ==
    /\ fsm = "TRADING"
    /\ PublishPhase /\ phase' = "BLACKOUT"
    /\ UNCHANGED <<cfg, tod, quoteAge, otherFeeds, pendingVars>>

\* A tick of an instrument that the actors do not watch.
OtherTick(age) ==
    /\ otherFeeds
    /\ UNCHANGED <<phase, phaseAge>>
    /\ QuoteSeen(age)
    /\ UNCHANGED <<cfg, tod, otherFeeds>>

\* on_order_filled with a position: the spread's quotes are subscribed to, and
\* nothing ever unsubscribes them.
PositionFilled ==
    /\ fsm = "TRADING" /\ ~cfg.backtest_plumbing
    /\ otherFeeds' = TRUE
    /\ UNCHANGED <<cfg, tod, phase, phaseAge, quoteAge, pendingVars>>

OnOptionChain ==
    /\ ~cfg.backtest_plumbing
    /\ UNCHANGED <<cfg, tod, phase, phaseAge, quoteAge, otherFeeds>>
    /\ Evaluate(phase, quoteAge)

\* The phase and the age of the quote are not looked at again.  A verdict
\* comes in time (SelectorActorProofs!WaitBounded) or was lost and never comes.
OnIntentApproved ==
    /\ fsm = "PENDING_APPROVAL" /\ waited <= ApprovalDelay
    /\ fsm' = "TRADING" /\ asked' = 0
    /\ UNCHANGED <<cfg, tod, phase, phaseAge, quoteAge, otherFeeds, waited>>

BackToFlat ==  \* a rejected intent, a refused entry, a filled exit
    /\ fsm # "FLAT"
    /\ fsm' = "FLAT" /\ asked' = 0
    /\ UNCHANGED <<cfg, tod, phase, phaseAge, quoteAge, otherFeeds, waited>>

\* One tick older, up to the age from which on no two ages are told apart.
Older(age, oldest) == IF age < oldest THEN age + 1 ELSE age

TimePasses ==
    /\ tod' = IF tod + 1 < DayLength THEN tod + 1 ELSE 0
    /\ quoteAge' = Older(quoteAge, Stale)
    /\ phaseAge' = Older(phaseAge, Forgotten)
    /\ waited' = IF fsm = "PENDING_APPROVAL" /\ waited <= ApprovalDelay
                 THEN waited + 1 ELSE waited
    /\ UNCHANGED <<cfg, phase, otherFeeds, fsm, asked>>

Next ==
    \/ \E age \in -Skew..Latency :
          UnderlyingTick(age) \/ OtherTick(age)
    \/ FlattenRaises
    \/ OnOptionChain \/ OnIntentApproved \/ PositionFilled \/ BackToFlat
    \/ TimePasses

Spec == Init /\ [][Next]_vars

-----------------------------------------------------------------------------
(***************************************************************************)
(* Properties that hold.                                                   *)
(***************************************************************************)
\* Without a selector nobody waits for a verdict.
Delay == IF cfg.selector_enabled THEN ApprovalDelay ELSE 0

Entry == fsm # "TRADING" /\ fsm' = "TRADING"

\* How old the actor's look at the clock is that the entry of this step rests
\* on: the phase of this callback, or that of the evaluation before the wait.
Reliance == IF fsm = "PENDING_APPROVAL" THEN asked + waited ELSE phaseAge'

\* What NORMAL is still worth, although nobody looks at the clock again: as much
\* of the margin as the phase has not aged, and of a pending intent as much as it
\* has not waited besides.  While the strategy hears its underlying alone, a fresh
\* quote bounds the age of the phase; with other feeds nothing does.
MarginKept ==
    /\ phase = "NORMAL" => CloseTick - tod >= Allowed - phaseAge
    /\ fsm = "PENDING_APPROVAL" /\ waited <= ApprovalDelay =>
          /\ cfg.selector_enabled
          /\ CloseTick - tod >= Allowed - asked - waited
          /\ ~otherFeeds => asked <= MaxQuoteAge + Skew
    /\ ~otherFeeds /\ QuoteFresh(quoteAge) => phaseAge <= quoteAge + Skew

SessionInv == TypeOK /\ MarginKept

\* In every configuration, before and after the first fill: an entry is nearer to
\* the close than the blackout and the truncated minute only by the age of the
\* look at the clock it rests on, however late it is approved.  That age is
\* bounded by quote age, skew and the selector's delay as long as the strategy
\* hears its underlying alone: a hedged strategy and one whose underlying the
\* actors do not watch never do, a live one does until its first fill.
EntryMargin ==
    [][Entry =>
          /\ CloseTick - tod >= Allowed - Reliance
          /\ ~otherFeeds => Reliance <= MaxQuoteAge + Skew + Delay]_vars

\* The minute that the actor truncates pays for what it does not see: when quote
\* age, skew and approval fit into one minute, as the defaults do, a strategy that
\* hears its underlying alone submits no order in the blackout, nor after the
\* close: in plumbing mode at any time, otherwise until its first fill.  (Beyond,
\* this is not so: any tick passes for a fresh quote under an old NORMAL phase.)
BlackoutRespected ==
    [][/\ Entry /\ ~otherFeeds
       /\ MaxQuoteAge + Skew + Delay <= TicksPerMinute
       => CloseTick - tod >= BlackoutMinutes * TicksPerMinute]_vars

=============================================================================
