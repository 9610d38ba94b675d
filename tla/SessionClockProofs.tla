------------------------- MODULE SessionClockProofs -------------------------
(***************************************************************************)
(* The distance that every entry keeps from the close, for any clock, any  *)
(* limits and any configuration, whatever else the strategy hears.         *)
(***************************************************************************)
EXTENDS SessionClock, TLAPS

USE DEF Ages, Stale, PhaseAges, Forgotten

\* The minutes of `_publish_phase` are truncated: more than k whole minutes to
\* the close are at least k + 1 minutes.
LEMMA WholeMinutes ==
    ASSUME NEW a \in Nat, NEW b \in Nat \ {0}, NEW k \in Nat, a \div b > k
    PROVE  a >= (k + 1) * b
  <1> DEFINE q == a \div b
  <1>1. q \in Int /\ q >= k + 1 BY Z3
  <1>2. a >= q * b BY Z3
  <1>3. q * b >= (k + 1) * b BY <1>1, Z3
  <1> QED BY <1>1, <1>2, <1>3

\* When the actor publishes NORMAL, the close is at least the blackout and one
\* minute away; after the close it publishes NORMAL no more until midnight.
LEMMA AllowedMargin ==
    ASSUME NEW t \in 0..(DayLength - 1), AllowsEntry(t)
    PROVE  CloseTick - t >= Allowed
  <1>1. t < CloseTick /\ (CloseTick - t) \div TicksPerMinute > BlackoutMinutes
    BY ClockAssumption, LimitsAssumption DEF AllowsEntry, MinutesToClose
  <1>2. CloseTick - t \in Nat
    BY <1>1, ClockAssumption
  <1> QED
    BY <1>1, <1>2, WholeMinutes, ClockAssumption, LimitsAssumption DEF Allowed

\* Stated apart because a product of parameters is beyond linear arithmetic.
LEMMA AllowedType == Allowed \in Nat
  <1>1. \A m, n \in Nat : m * n \in Nat
    OBVIOUS
  <1> QED
    BY <1>1, ClockAssumption, LimitsAssumption DEF Allowed

-----------------------------------------------------------------------------

\* What the callbacks do to the margin: given what the phase and the quote of
\* this callback are worth, an intent that passes the gates takes it along.
LEMMA EvaluateKeeps ==
    ASSUME SessionInv, UNCHANGED <<cfg, tod, otherFeeds>>,
           NEW p \in {"none", "NORMAL", "BLACKOUT"}, phase' = p,
           NEW age \in Ages, quoteAge' = age,
           NEW old \in PhaseAges, phaseAge' = old,
           p = "NORMAL" => CloseTick - tod >= Allowed - old,
           ~otherFeeds /\ QuoteFresh(age) => old <= age + Skew,
           Evaluate(p, age) \/ UNCHANGED pendingVars
    PROVE  SessionInv'
  <1>a. Allowed \in Nat
    BY AllowedType
  <1> USE <1>a, ClockAssumption, LimitsAssumption
  <1>1. CASE UNCHANGED pendingVars
    BY <1>1 DEF SessionInv, TypeOK, MarginKept, QuoteFresh, pendingVars
  <1>2. CASE fsm = "FLAT" /\ p = "NORMAL" /\ QuoteFresh(age) /\ Admit
    <2>1. TypeOK'
      BY <1>2 DEF SessionInv, TypeOK, Admit
    <2>2. CloseTick - tod >= Allowed - old /\ (~otherFeeds => old <= MaxQuoteAge + Skew)
      BY <1>2 DEF QuoteFresh
    <2>3. fsm' = "PENDING_APPROVAL" => cfg.selector_enabled /\ waited' = 0 /\ asked' = old
      BY <1>2 DEF Admit
    <2>4. MarginKept'
      BY <2>2, <2>3 DEF MarginKept, QuoteFresh
    <2> QED
      BY <2>1, <2>4 DEF SessionInv
  <1> QED
    BY <1>1, <1>2 DEF Evaluate

\* What a publication of the phase is worth.
LEMMA Published ==
    ASSUME SessionInv, PublishPhase
    PROVE  /\ phase' \in {"none", "NORMAL", "BLACKOUT"} /\ phaseAge' = 0 /\ 0 \in PhaseAges
           /\ phase' = "NORMAL" => CloseTick - tod >= Allowed - 0
  <1>1. Allowed \in Nat /\ tod \in 0..(DayLength - 1)
    BY AllowedType DEF SessionInv, TypeOK
  <1> QED
    BY <1>1, AllowedMargin, ClockAssumption DEF PublishPhase

\* Time takes a tick from every margin and adds one to every age.
LEMMA TimeKeeps == ASSUME SessionInv, TimePasses PROVE SessionInv'
  <1>a. Allowed \in Nat
    BY AllowedType
  <1> USE <1>a, ClockAssumption, LimitsAssumption
  <1>1. TypeOK'
    BY DEF TimePasses, SessionInv, TypeOK, Older
  <1>2. UNCHANGED <<cfg, phase, otherFeeds, fsm, asked>>
    BY DEF TimePasses
  <1>3. PICK u \in 0..(DayLength - 1) : tod' = u
    BY <1>1 DEF TypeOK
  <1>4. /\ tod \in 0..(DayLength - 1) /\ u \in Int /\ u <= tod + 1
        /\ phaseAge \in Nat /\ phaseAge <= Forgotten
        /\ asked \in Nat /\ waited \in Nat /\ quoteAge \in Int
    BY <1>3 DEF TimePasses, SessionInv, TypeOK
  <1>5. ASSUME QuoteFresh(quoteAge')
        PROVE  quoteAge' = quoteAge + 1 /\ QuoteFresh(quoteAge)
    BY <1>5 DEF TimePasses, Older, QuoteFresh, SessionInv, TypeOK
  <1>6. ASSUME fsm = "PENDING_APPROVAL", waited' <= ApprovalDelay
        PROVE  waited' = waited + 1 /\ waited <= ApprovalDelay
    BY <1>6 DEF TimePasses, SessionInv, TypeOK
  <1>7. phaseAge' = (IF phaseAge < Forgotten THEN phaseAge + 1 ELSE phaseAge)
    BY DEF TimePasses, Older
  <1>8. ASSUME phase = "NORMAL"
        PROVE  CloseTick - tod' >= Allowed - phaseAge'
    <2>1. CloseTick - tod >= Allowed - phaseAge
      BY <1>8 DEF SessionInv, MarginKept
    <2>2. CASE phaseAge < Forgotten
      BY <1>3, <1>4, <1>7, <2>1, <2>2
    <2>3. CASE phaseAge = Forgotten
      BY <1>3, <1>4, <1>7, <2>3
    <2> QED
      BY <1>4, <2>2, <2>3
  <1>9. ASSUME fsm = "PENDING_APPROVAL", waited' <= ApprovalDelay
        PROVE  /\ cfg.selector_enabled
               /\ CloseTick - tod' >= Allowed - asked - waited'
               /\ ~otherFeeds => asked <= MaxQuoteAge + Skew
    <2>1. /\ cfg.selector_enabled
          /\ CloseTick - tod >= Allowed - asked - waited
          /\ ~otherFeeds => asked <= MaxQuoteAge + Skew
      BY <1>6, <1>9 DEF SessionInv, MarginKept
    <2>2. CloseTick - u >= Allowed - asked - (waited + 1)
      BY <1>4, <2>1
    <2> QED
      BY <1>3, <1>6, <1>9, <2>1, <2>2
  <1>10. ASSUME ~otherFeeds, QuoteFresh(quoteAge')
         PROVE  phaseAge' <= quoteAge' + Skew
    <2>1. phaseAge <= quoteAge + Skew
      BY <1>5, <1>10 DEF SessionInv, MarginKept
    <2> QED
      BY <1>4, <1>5, <1>7, <1>10, <2>1
  <1>11. MarginKept'
    BY <1>2, <1>8, <1>9, <1>10 DEF MarginKept, QuoteFresh
  <1> QED
    BY <1>1, <1>11 DEF SessionInv

\* No handler or passage of time takes away from the margin more than the phase
\* ages or the intent waits.
LEMMA MarginStep == ASSUME SessionInv, [Next]_vars PROVE SessionInv'
  <1>a. Allowed \in Nat
    BY AllowedType
  <1> USE <1>a, ClockAssumption, LimitsAssumption
  <1>0. /\ phase \in {"none", "NORMAL", "BLACKOUT"} /\ phaseAge \in PhaseAges
        /\ quoteAge \in Ages
    BY DEF SessionInv, TypeOK
  <1>1. ASSUME NEW age \in -Skew..Latency, UnderlyingTick(age)
        PROVE  SessionInv'
    <2>1. PublishPhase /\ UNCHANGED <<cfg, tod, otherFeeds>> /\ age \in Ages
      BY <1>1 DEF UnderlyingTick
    <2>2. CASE QuoteSeen(age)
      <3>1. quoteAge' = age /\ (Evaluate(phase', age) \/ UNCHANGED pendingVars)
        BY <2>2 DEF QuoteSeen
      <3> QED
        BY <2>1, <3>1, Published, EvaluateKeeps
    <2>3. CASE UNCHANGED <<quoteAge, pendingVars>>
      <3>1. quoteAge >= -Skew
        BY <1>0
      <3> QED
        BY <1>0, <2>1, <2>3, <3>1, Published, EvaluateKeeps
    <2> QED
      BY <1>1, <2>2, <2>3 DEF UnderlyingTick
  <1>2. ASSUME NEW age \in -Skew..Latency, OtherTick(age)
        PROVE  SessionInv'
    <2>1. /\ otherFeeds /\ age \in Ages /\ quoteAge' = age
          /\ UNCHANGED <<cfg, tod, otherFeeds, phase, phaseAge>>
      BY <1>2 DEF OtherTick, QuoteSeen
    <2>2. Evaluate(phase, age) \/ UNCHANGED pendingVars
      BY <1>2, <2>1 DEF OtherTick, QuoteSeen
    <2>3. phase = "NORMAL" => CloseTick - tod >= Allowed - phaseAge
      BY DEF SessionInv, MarginKept
    <2> QED
      BY <1>0, <2>1, <2>2, <2>3, EvaluateKeeps
  <1>3. CASE FlattenRaises
    <2>1. PublishPhase /\ UNCHANGED <<cfg, tod, quoteAge, otherFeeds, pendingVars>>
      BY <1>3 DEF FlattenRaises
    <2>2. quoteAge >= -Skew
      BY <1>0
    <2> QED
      BY <1>0, <2>1, <2>2, Published, EvaluateKeeps
  <1>4. CASE OnOptionChain
    <2>1. /\ Evaluate(phase, quoteAge)
          /\ UNCHANGED <<cfg, tod, phase, phaseAge, quoteAge, otherFeeds>>
      BY <1>4 DEF OnOptionChain
    <2>2. /\ phase = "NORMAL" => CloseTick - tod >= Allowed - phaseAge
          /\ ~otherFeeds /\ QuoteFresh(quoteAge) => phaseAge <= quoteAge + Skew
      BY DEF SessionInv, MarginKept
    <2> QED
      BY <1>0, <2>1, <2>2, EvaluateKeeps
  <1>5. CASE OnIntentApproved
    BY <1>5 DEF OnIntentApproved, SessionInv, TypeOK, MarginKept, QuoteFresh
  <1>6. CASE PositionFilled
    BY <1>6 DEF PositionFilled, SessionInv, TypeOK, MarginKept, QuoteFresh, pendingVars
  <1>7. CASE BackToFlat
    BY <1>7 DEF BackToFlat, SessionInv, TypeOK, MarginKept, QuoteFresh
  <1>8. CASE TimePasses
    BY <1>8, TimeKeeps
  <1>9. CASE UNCHANGED vars
    BY <1>9 DEF vars, strategyVars, pendingVars, SessionInv, TypeOK, MarginKept, QuoteFresh
  <1> QED
    BY <1>1, <1>2, <1>3, <1>4, <1>5, <1>6, <1>7, <1>8, <1>9 DEF Next

\* The invariant.
THEOREM MarginInvariant == Spec => []SessionInv
  <1>1. Init => SessionInv
    BY AllowedType, ClockAssumption, LimitsAssumption, ConfigsAssumption
       DEF Init, Config, SessionInv, TypeOK, MarginKept, QuoteFresh
  <1>2. SessionInv /\ [Next]_vars => SessionInv'
    BY MarginStep
  <1> QED
    BY <1>1, <1>2, PTL DEF Spec

-----------------------------------------------------------------------------

\* The step that submits an entry: the gates were passed in this callback, or
\* when the intent was queued, and the invariant knows what that is worth.
LEMMA EntryStep ==
    ASSUME SessionInv, Next, Entry
    PROVE  /\ CloseTick - tod >= Allowed - Reliance
           /\ ~otherFeeds => Reliance <= MaxQuoteAge + Skew + Delay
  <1>a. Allowed \in Nat
    BY AllowedType
  <1> USE <1>a, ClockAssumption, LimitsAssumption
  <1>b. /\ tod \in Int /\ quoteAge \in Ages /\ waited \in Nat
        /\ asked \in Nat /\ phaseAge \in Nat
    BY DEF SessionInv, TypeOK
  <1>1. ASSUME NEW age \in Ages, NEW p, Evaluate(p, age), NEW old \in Nat, phaseAge' = old,
               p = "NORMAL" => CloseTick - tod >= Allowed - old,
               ~otherFeeds /\ QuoteFresh(age) => old <= age + Skew
        PROVE  /\ CloseTick - tod >= Allowed - Reliance
               /\ ~otherFeeds => Reliance <= MaxQuoteAge + Skew + Delay
    <2>1. ~cfg.selector_enabled /\ fsm = "FLAT" /\ p = "NORMAL" /\ QuoteFresh(age)
      BY <1>1 DEF Evaluate, Entry, Admit, pendingVars
    <2>2. Reliance = old /\ Delay = 0
      BY <1>1, <2>1 DEF Reliance, Delay
    <2> QED
      BY <1>1, <1>b, <2>1, <2>2 DEF QuoteFresh
  <1>2. ASSUME NEW age \in -Skew..Latency, UnderlyingTick(age)
        PROVE  /\ CloseTick - tod >= Allowed - Reliance
               /\ ~otherFeeds => Reliance <= MaxQuoteAge + Skew + Delay
    <2>1. Evaluate(phase', age) /\ PublishPhase
      BY <1>2 DEF UnderlyingTick, QuoteSeen, Entry, pendingVars
    <2>2. age \in Ages /\ 0 <= age + Skew
      OBVIOUS
    <2> QED
      BY <2>1, <2>2, <1>1, Published
  <1>3. ASSUME NEW age \in -Skew..Latency, OtherTick(age)
        PROVE  /\ CloseTick - tod >= Allowed - Reliance
               /\ ~otherFeeds => Reliance <= MaxQuoteAge + Skew + Delay
    <2>1. Evaluate(phase, age) /\ otherFeeds /\ phaseAge' = phaseAge /\ age \in Ages
      BY <1>3 DEF OtherTick, QuoteSeen, Entry, pendingVars
    <2> QED
      BY <1>b, <2>1, <1>1 DEF SessionInv, MarginKept
  <1>4. CASE OnOptionChain
    <2>1. Evaluate(phase, quoteAge) /\ phaseAge' = phaseAge
      BY <1>4 DEF OnOptionChain
    <2> QED
      BY <1>b, <2>1, <1>1 DEF SessionInv, MarginKept
  <1>5. CASE OnIntentApproved
    <2>1. /\ cfg.selector_enabled /\ waited <= ApprovalDelay
          /\ CloseTick - tod >= Allowed - asked - waited
          /\ ~otherFeeds => asked <= MaxQuoteAge + Skew
      BY <1>5 DEF OnIntentApproved, SessionInv, MarginKept
    <2>2. Reliance = asked + waited /\ Delay = ApprovalDelay
      BY <1>5, <2>1 DEF OnIntentApproved, Reliance, Delay
    <2> QED
      BY <1>b, <2>1, <2>2
  <1> QED
    BY <1>2, <1>3, <1>4, <1>5
       DEF Next, Entry, FlattenRaises, PositionFilled, BackToFlat, TimePasses, pendingVars

\* In every configuration an entry is as far from the close as the look at the
\* clock it rests on was recent, and that look is recent as long as the strategy
\* hears its underlying alone.
THEOREM EntriesKeepMargin == Spec => EntryMargin
  <1>1. SessionInv /\ [Next]_vars =>
           [Entry =>
              /\ CloseTick - tod >= Allowed - Reliance
              /\ ~otherFeeds => Reliance <= MaxQuoteAge + Skew + Delay]_vars
    BY EntryStep
  <1> QED
    BY <1>1, MarginInvariant, PTL DEF Spec, EntryMargin

\* With limits that fit into a minute the truncated minute keeps the entries of a
\* strategy that hears its underlying alone (in plumbing mode always, otherwise
\* until its first fill) out of the blackout.
THEOREM NoEntryInBlackout == Spec => BlackoutRespected
  <1>1. ASSUME SessionInv, [Next]_vars
        PROVE  [/\ Entry /\ ~otherFeeds
                /\ MaxQuoteAge + Skew + Delay <= TicksPerMinute
                => CloseTick - tod >= BlackoutMinutes * TicksPerMinute]_vars
    <2> SUFFICES ASSUME Next, Entry, ~otherFeeds,
                        MaxQuoteAge + Skew + Delay <= TicksPerMinute
                 PROVE  CloseTick - tod >= BlackoutMinutes * TicksPerMinute
      BY <1>1
    <2>1. /\ CloseTick - tod >= Allowed - Reliance
          /\ Reliance <= MaxQuoteAge + Skew + Delay
      BY <1>1, EntryStep
    <2>2. /\ tod \in Int /\ Delay \in Nat /\ Reliance \in Int
          /\ BlackoutMinutes * TicksPerMinute \in Int
      <3>1. phaseAge' \in Int
        BY <1>1, MarginStep DEF SessionInv, TypeOK
      <3> QED
        BY <1>1, <3>1, ClockAssumption, LimitsAssumption
           DEF SessionInv, TypeOK, Delay, Reliance
    <2>3. Allowed = BlackoutMinutes * TicksPerMinute + TicksPerMinute
      BY ClockAssumption, LimitsAssumption DEF Allowed
    <2> QED
      BY <2>1, <2>2, <2>3, ClockAssumption, LimitsAssumption
  <1> QED
    BY <1>1, MarginInvariant, PTL DEF Spec, BlackoutRespected

=============================================================================
