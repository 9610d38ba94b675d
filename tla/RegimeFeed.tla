----------------------------- MODULE RegimeFeed -----------------------------
(***************************************************************************)
(* The regime actor (actors/regime.py) and the gated skeleton strategies   *)
(* that hear it (strategies/gated_skeleton.py), on one node.               *)
(*                                                                         *)
(* A quote reaches its subscribers one after another, in any order; a tag  *)
(* is published within the handler of the regime actor, to the skeletons   *)
(* one after another.  A journal write that raises inside a handler ends   *)
(* the delivery: who has not been reached misses that message.             *)
(*                                                                         *)
(* Prices are mids on a grid of which Unit steps make one unit of price,   *)
(* percentages are fractions over Per.  The session actor is an input.     *)
(***************************************************************************)
EXTENDS Integers, Sequences

CONSTANTS
    Skeletons,      \* the strategies of class gated_skeleton
    Prices,         \* the mids the underlying may show
    Unit, Per,      \* grid steps in a unit of price; denominator
    Trend, Chop, Pin,   \* trend_move, chop_range, pin_strike_proximity, over Per
    Window,         \* maxlen of the deque of prices, 20
    MinSample,      \* prices a CHOP tag takes, 5
    Blocked,        \* blocked_regimes
    RequireChain,   \* require_chain_snapshot
    NoPrice,
    MaxFaults       \* journal writes that raise (a bound of the model)

Tags == {"TREND", "CHOP", "PIN_RISK", "UNKNOWN"}

ASSUME ParametersAssumption ==
    /\ Prices \subseteq Nat \ {0} /\ NoPrice \notin Nat
    /\ {Unit, Per, Trend, Window} \subseteq Nat \ {0}
    /\ {Chop, Pin, MaxFaults} \subseteq Nat
    /\ MinSample \in Nat /\ MinSample > 1
    /\ Blocked \subseteq Tags /\ RequireChain \in BOOLEAN

VARIABLES
    mid,        \* the current quote
    awaiting,   \* its subscribers that have not got it yet
    open,       \* _open_price
    recent,     \* _prices
    lastTag,    \* _last_tag
    skeleton,   \* what each strategy has heard, and its verdict
    missed,     \* strategies that have not got the last tag
    faults

regimeVars == <<open, recent, lastTag>>
vars == <<mid, awaiting, open, recent, lastTag, skeleton, missed, faults>>

Regime == "regime"

-----------------------------------------------------------------------------
Distance(p, q) == IF p > q THEN p - q ELSE q - p

\* To the nearest whole price.
ToRound(p) == LET r == p % Unit IN IF 2 * r <= Unit THEN r ELSE Unit - r

FarFromOpen(p, first) == Distance(p, first) * Per >= Trend * first

\* Mutant of Choppy: one price is sample enough.
ChoppyAtOnce(p, prices) ==
    \A m, n \in DOMAIN prices : (prices[m] - prices[n]) * Per <= Chop * p

Choppy(p, prices) ==
    /\ Len(prices) >= MinSample
    /\ \A m, n \in DOMAIN prices : (prices[m] - prices[n]) * Per <= Chop * p

\* Mutant of NearRound: only the strike below counts.
NearRoundBelow(p) == (p % Unit) * Per <= Pin * p

NearRound(p) == ToRound(p) * Per <= Pin * p

\* compute_regime_tag: the first rule that applies.
RegimeTag(p, first, prices) ==
    IF FarFromOpen(p, first) THEN "TREND"
    ELSE IF Choppy(p, prices) THEN "CHOP"
    ELSE IF NearRound(p) THEN "PIN_RISK"
    ELSE "UNKNOWN"

\* deque(maxlen=Window).append
Appended(prices, p) ==
    IF Len(prices) < Window THEN Append(prices, p) ELSE Append(Tail(prices), p)

-----------------------------------------------------------------------------
(***************************************************************************)
(* The skeleton strategies.                                                *)
(***************************************************************************)
Unheard == [session |-> "none", tag |-> "none", tick |-> FALSE, verdict |-> "none"]

\* _evaluate_gates: edge and liquidity are set to pass, the chain is fresh
\* only when it is not required.
Verdict(k) ==
    IF k.tag \in Blocked THEN "REGIME"
    ELSE IF k.session = "closed" THEN "SESSION"
    ELSE IF RequireChain THEN "OPERATIONAL"
    ELSE "PASSED"

\* Mutant of Evaluates: _evaluated is not looked at.
EvaluatesAgain(k) == k.session # "none" /\ k.tag # "none" /\ k.tick

\* _maybe_evaluate_gates: once, when session, tag and tick are there.
Evaluates(k) == k.verdict = "none" /\ k.session # "none" /\ k.tag # "none" /\ k.tick

MaybeEvaluate(k) == IF Evaluates(k) THEN [k EXCEPT !.verdict = Verdict(k)] ELSE k

\* _evaluated is set before the verdict is written: a write that raises
\* leaves no verdict on record and no second attempt.
Unrecorded(k) == [k EXCEPT !.verdict = "LOST"]

\* Every strategy hears what told says.
Delivered(told) == skeleton' = [s \in Skeletons |-> MaybeEvaluate(told[s])]

\* One of them, r, raises; those in reached have been told before it.
RaisedAt(told, r, reached) ==
    /\ faults < MaxFaults /\ faults' = faults + 1
    /\ Evaluates(told[r])
    /\ skeleton' = [s \in Skeletons |->
           IF s = r THEN Unrecorded(told[s])
           ELSE IF s \in reached THEN MaybeEvaluate(told[s]) ELSE skeleton[s]]

-----------------------------------------------------------------------------
Init ==
    /\ mid = NoPrice /\ awaiting = {}
    /\ open = NoPrice /\ recent = <<>> /\ lastTag = "none"
    /\ skeleton = [s \in Skeletons |-> Unheard]
    /\ missed = {} /\ faults = 0

\* External: the underlying is quoted.
Quote(p) ==
    /\ awaiting = {}
    /\ mid' = p
    /\ awaiting' = Skeletons \union {Regime}
    /\ UNCHANGED <<regimeVars, skeleton, missed, faults>>

\* RegimeActor.on_quote_tick up to the comparison with the last tag.
RegimeTakes(p) ==
    /\ Regime \in awaiting
    /\ open' = IF open = NoPrice THEN p ELSE open
    /\ recent' = Appended(recent, p)
    /\ UNCHANGED mid

\* The tag is the last one: nothing is published.
RegimeUnchanged ==
    /\ RegimeTakes(mid)
    /\ RegimeTag(mid, open', recent') = lastTag
    /\ awaiting' = awaiting \ {Regime}
    /\ UNCHANGED <<lastTag, skeleton, missed, faults>>

\* Mutant of ToldTag: a strategy with a verdict no longer listens.
ToldTagUndecided(t) ==
    [s \in Skeletons |-> IF skeleton[s].verdict # "none" THEN skeleton[s]
                         ELSE [skeleton[s] EXCEPT !.tag = t]]

ToldTag(t) == [s \in Skeletons |-> [skeleton[s] EXCEPT !.tag = t]]

\* A new tag is remembered and published.  A raise ends the quote as well.
RegimeChanges ==
    /\ RegimeTakes(mid)
    /\ lastTag' = RegimeTag(mid, open', recent')
    /\ lastTag' # lastTag
    /\ \/ /\ Delivered(ToldTag(lastTag'))
          /\ missed' = {}
          /\ awaiting' = awaiting \ {Regime}
          /\ UNCHANGED faults
       \/ \E r \in Skeletons : \E reached \in SUBSET (Skeletons \ {r}) :
              /\ RaisedAt(ToldTag(lastTag'), r, reached)
              /\ missed' = Skeletons \ (reached \union {r})
              /\ awaiting' = {}

\* Mutant of SkeletonHears: the tick is kept for the next message.
SkeletonHearsQuietly(s) ==
    /\ s \in awaiting
    /\ skeleton' = [skeleton EXCEPT ![s].tick = TRUE]
    /\ awaiting' = awaiting \ {s}
    /\ UNCHANGED <<mid, regimeVars, missed, faults>>

\* GatedSkeletonStrategy.on_quote_tick
SkeletonHears(s) ==
    LET told == [skeleton[s] EXCEPT !.tick = TRUE]
    IN  /\ s \in awaiting
        /\ \/ /\ skeleton' = [skeleton EXCEPT ![s] = MaybeEvaluate(told)]
              /\ awaiting' = awaiting \ {s}
              /\ UNCHANGED faults
           \/ /\ Evaluates(told)
              /\ faults < MaxFaults /\ faults' = faults + 1
              /\ skeleton' = [skeleton EXCEPT ![s] = Unrecorded(told)]
              /\ awaiting' = {}
        /\ UNCHANGED <<mid, regimeVars, missed>>

ToldSession(phase) == [s \in Skeletons |-> [skeleton[s] EXCEPT !.session = phase]]

\* External: the session actor publishes whether entries are allowed.
SessionSpeaks(phase) ==
    /\ \/ Delivered(ToldSession(phase)) /\ UNCHANGED faults
       \/ \E r \in Skeletons : \E reached \in SUBSET (Skeletons \ {r}) :
              RaisedAt(ToldSession(phase), r, reached)
    /\ UNCHANGED <<mid, awaiting, regimeVars, missed>>

Next ==
    \/ \E p \in Prices : Quote(p)
    \/ RegimeUnchanged
    \/ RegimeChanges
    \/ \E s \in Skeletons : SkeletonHears(s)
    \/ \E phase \in {"open", "closed"} : SessionSpeaks(phase)

Spec == Init /\ [][Next]_vars

\* A quote that has come in is delivered.
FairSpec ==
    /\ Spec
    /\ WF_vars(RegimeUnchanged \/ RegimeChanges)
    /\ \A s \in Skeletons : WF_vars(SkeletonHears(s))

-----------------------------------------------------------------------------
(***************************************************************************)
(* Properties.                                                             *)
(***************************************************************************)
TypeOK ==
    /\ mid \in Prices \union {NoPrice} /\ open \in Prices \union {NoPrice}
    /\ awaiting \subseteq Skeletons \union {Regime}
    /\ recent \in Seq(Prices) /\ Len(recent) <= Window
    /\ lastTag \in Tags \union {"none"}
    /\ skeleton \in [Skeletons ->
           [session : {"none", "open", "closed"}, tag : Tags \union {"none"},
            tick : BOOLEAN,
            verdict : {"none", "PASSED", "REGIME", "SESSION", "OPERATIONAL", "LOST"}]]
    /\ missed \subseteq Skeletons /\ faults \in 0..MaxFaults

\* Publishing on change alone leaves nobody behind: a strategy knows the tag
\* that is due to the prices the actor has seen, unless a raise kept the last
\* tag from it.  The tag is the one of the last price, the first price ever and
\* the window, so no strategy goes by an older one.
SubscribersCurrent ==
    /\ TypeOK
    /\ (lastTag = "none") <=> (recent = <<>>)
    /\ recent # <<>> => lastTag = RegimeTag(recent[Len(recent)], open, recent)
    /\ \A s \in Skeletons \ missed : skeleton[s].tag = lastTag

\* UNKNOWN, the tag that is open by default, exists only where half a unit is
\* more than Pin of the price: from there on every price that neither trends
\* nor chops is PIN_RISK, which is blocked by default.
UnknownIsCheap == lastTag = "UNKNOWN" => 2 * Pin * recent[Len(recent)] < Unit * Per

\* The first tag is never TREND or CHOP: a strategy that has its session and
\* its tick by then passes its one verdict on a coarser tag.
FirstTagCoarse ==
    [][lastTag = "none" /\ lastTag' # "none" => lastTag' \in {"PIN_RISK", "UNKNOWN"}]_vars

\* A skeleton passes one verdict, whatever it hears later.
OneVerdict ==
    [][\A s \in Skeletons : skeleton[s].verdict # "none" =>
           skeleton'[s].verdict = skeleton[s].verdict]_vars

\* A skeleton that knows its session passes its verdict after the first tick,
\* unless a raise keeps the tick or the tag from it.
EveryoneEvaluates ==
    \A s \in Skeletons :
        (skeleton[s].session # "none" /\ s \in awaiting)
            ~> (skeleton[s].verdict # "none" \/ faults > 0)

=============================================================================
