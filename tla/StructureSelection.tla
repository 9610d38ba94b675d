------------------------- MODULE StructureSelection -------------------------
(***************************************************************************)
(* From market data to the edge and liquidity gates: the choice of a call  *)
(* vertical in an option chain, its price and its edge after cost, for the *)
(* Deribit and IB selectors, and the made-up signals of plumbing mode.     *)
(*                                                                         *)
(* All of this is computed inside one callback of a FLAT strategy that has *)
(* heard from its actors, from the chain or tick it is given and the       *)
(* configuration; nothing of an earlier evaluation enters into it, so a    *)
(* behaviour has one evaluation (the bound of this module).                *)
(*                                                                         *)
(* Data abstractions.  Prices count ticks, of which ticks make a unit of   *)
(* the strikes' currency (IB) or a coin (Deribit).  Ratios are exact, kept *)
(* as fractions; the code's are floating point.                            *)
(***************************************************************************)
EXTENDS Integers

CONSTANTS
    Configs,        \* the configurations considered
    Slices,         \* the option chains considered
    Ticks,          \* the quote ticks of the underlying considered
    NoQuote,        \* no quote of a call has been received
    Bps,            \* basis points in one: 10,000
    Wide,           \* the spread of no liquidity, in basis points: 100
    PlumbingEdge    \* the edge plumbing mode claims, in basis points: 10

Fractions == {f \in [num : Int, den : Int] : f.den > 0}
Prices == [bid : Nat, ask : Nat]  \* 0: no such side

ConfigTypes ==
    [ venue : {"DERIBIT", "IB"}, backtest_plumbing : BOOLEAN,
      strike_width : Int, min_edge : Int, min_liquidity : Fractions,
      ticks : Nat \ {0},
      slippage : Nat,     \* expected_slippage_bps; no rebates here and below
      rate : Nat,         \* Deribit: taker or maker fee, in basis points
      commission : Nat,   \* IB: commission_per_contract * contracts_per_spread
      multiplier : Nat \ {0} ]

ASSUME ConfigsAssumption == Configs \subseteq ConfigTypes
ASSUME SlicesAssumption ==  \* underlying = 0: no greeks, or none with a price
    \A s \in Slices :
        s \in [ atm : Nat, underlying : Nat, strikes : SUBSET (Nat \ {0}),
                call : [s.strikes -> Prices \cup {NoQuote}] ]
ASSUME TicksAssumption == Ticks \subseteq Prices
ASSUME ScaleAssumption ==
    Bps \in Nat \ {0} /\ Wide \in Nat \ {0} /\ PlumbingEdge \in Nat /\ NoQuote \notin Prices

VARIABLES
    cfg,    \* the configuration of the strategy and its venue
    seen    \* observer: what was evaluated, and what came of it

vars == <<cfg, seen>>

-----------------------------------------------------------------------------
(***************************************************************************)
(* Fractions with a positive denominator.                                  *)
(***************************************************************************)
Whole(n) == [num |-> n, den |-> 1]
Plus(f, g) == [num |-> f.num * g.den + g.num * f.den, den |-> f.den * g.den]
Minus(f, g) == [num |-> f.num * g.den - g.num * f.den, den |-> f.den * g.den]
Less(f, g) == f.num * g.den < g.num * f.den
Larger(f, g) == IF Less(f, g) THEN g ELSE f
Smaller(f, g) == IF Less(g, f) THEN g ELSE f

-----------------------------------------------------------------------------
(***************************************************************************)
(* selectors/base.py and the cost models.                                  *)
(***************************************************************************)
TwoSided(q) == q.bid > 0 /\ q.ask > 0

SpreadBps(q, invalid) ==
    IF TwoSided(q) THEN [num |-> 2 * (q.ask - q.bid) * Bps, den |-> q.ask + q.bid]
                   ELSE Whole(invalid)

LiquidityScore(q, invalid) ==
    IF TwoSided(q)
    THEN LET spread == SpreadBps(q, Wide)
         IN  Larger(Whole(0), Smaller(Whole(1),
                 [num |-> Wide * spread.den - spread.num, den |-> Wide * spread.den]))
    ELSE Whole(invalid)

Intrinsic(price, strike) == IF price > strike THEN price - strike ELSE 0

Payoff(u, low, high) == Intrinsic(u, low) - Intrinsic(u, high)

\* What the spread is worth at expiry, in ticks; Deribit settles in coins.
Value(c, u, low, high) ==
    [num |-> Payoff(u, low, high) * c.ticks, den |-> IF c.venue = "DERIBIT" THEN u ELSE 1]

CommissionBps(c, debit) ==
    IF c.venue = "DERIBIT"
    THEN Whole(c.rate)
    ELSE [num |-> c.commission * c.ticks * Bps, den |-> debit * c.multiplier]

\* Mutant of EdgeBeforeCost: the debit measured against the value.
EdgeBeforeCostSwapped(value, debit) ==
    [num |-> (debit * value.den - value.num) * Bps, den |-> debit * value.den]

EdgeBeforeCost(value, debit) ==
    [num |-> (value.num - debit * value.den) * Bps, den |-> debit * value.den]

HalfSpread(lowSpread, highSpread) ==
    LET sum == Plus(lowSpread, highSpread) IN [sum EXCEPT !.den = 2 * @]

EdgeAfterCost(c, u, low, high, debit, lowSpread, highSpread) ==
    IF debit <= 0 \/ u <= 0
    THEN Whole(0)
    ELSE Minus(EdgeBeforeCost(Value(c, u, low, high), debit),
               Plus(HalfSpread(lowSpread, highSpread),
                    Plus(Whole(c.slippage), CommissionBps(c, debit))))

-----------------------------------------------------------------------------
(***************************************************************************)
(* select_from_chain: the intent's signal, or NoContext.                   *)
(***************************************************************************)
Distance(k, target) == IF k < target THEN target - k ELSE k - target

\* Mutant of Nearest: of two strikes at the same distance, the higher.
NearestHigher(strikes, target) ==
    CHOOSE k \in strikes : \A j \in strikes :
        \/ Distance(k, target) < Distance(j, target)
        \/ Distance(k, target) = Distance(j, target) /\ k >= j

\* min over the sorted strikes: of two at the same distance, the lower.
Nearest(strikes, target) ==
    CHOOSE k \in strikes : \A j \in strikes :
        \/ Distance(k, target) < Distance(j, target)
        \/ Distance(k, target) = Distance(j, target) /\ k <= j

NoContext == [source |-> "none"]

\* Mutant of NetDebit: the prices of the maker, who does not cross the spread.
NetDebitPassive(lowQuote, highQuote) ==
    IF lowQuote.bid > 0 /\ highQuote.ask > 0 THEN lowQuote.bid - highQuote.ask ELSE 0

NetDebit(lowQuote, highQuote) ==
    IF lowQuote.ask > 0 /\ highQuote.bid > 0 THEN lowQuote.ask - highQuote.bid ELSE 0

\* Mutant of Liquid: no leg is too illiquid.
LiquidAlways(c, liquidity) == TRUE

Liquid(c, liquidity) == ~Less(liquidity, c.min_liquidity)

SelectFromChain(c, s) ==
    IF s.strikes = {} THEN NoContext
    ELSE LET low == Nearest(s.strikes, s.atm)
             high == Nearest(s.strikes, low + c.strike_width)
             lowQuote == s.call[low]
             highQuote == s.call[high]
             liquidity == Smaller(LiquidityScore(lowQuote, 0), LiquidityScore(highQuote, 0))
             debit == NetDebit(lowQuote, highQuote)
             underlying == IF s.underlying > 0 THEN s.underlying ELSE low
             edge == EdgeAfterCost(c, underlying, low, high, debit,
                                   SpreadBps(lowQuote, Wide), SpreadBps(highQuote, Wide))
         IN  IF \/ high <= low
                \/ lowQuote = NoQuote \/ highQuote = NoQuote
                \/ ~Liquid(c, liquidity)
                \/ debit <= 0
                \/ c.venue = "IB" /\ Less(edge, Whole(c.min_edge))
             THEN NoContext
             ELSE [ source |-> "selector", low |-> low, high |-> high, debit |-> debit,
                    underlying |-> underlying, edge |-> edge, liquidity |-> liquidity ]

-----------------------------------------------------------------------------
(***************************************************************************)
(* The contexts of plumbing mode, and the two gates.                       *)
(***************************************************************************)
MadeUpEdge(c) == Larger(Whole(c.min_edge), Whole(PlumbingEdge))

PlumbingSlice(c, s) ==
    LET quote == IF s.atm \in s.strikes /\ s.call[s.atm] # NoQuote
                 THEN s.call[s.atm] ELSE [bid |-> 0, ask |-> 0]
    IN  [source |-> "plumbing_chain", edge |-> MadeUpEdge(c),
         liquidity |-> LiquidityScore(quote, 1)]

PlumbingTick(c, q) ==
    [ source |-> "plumbing_tick", edge |-> MadeUpEdge(c),
      liquidity |-> Larger(c.min_liquidity, LiquidityScore(q, 0)) ]

ContextFromChainSlice(c, s) ==
    IF c.backtest_plumbing THEN PlumbingSlice(c, s) ELSE SelectFromChain(c, s)

ContextFromQuoteTick(c, q) ==
    IF c.backtest_plumbing THEN PlumbingTick(c, q) ELSE NoContext

\* evaluate_edge, evaluate_liquidity: the stage that fails first.
Verdict(c, context) ==
    IF context = NoContext THEN "no_intent"
    ELSE IF Less(context.edge, Whole(c.min_edge)) THEN "EDGE"
    ELSE IF Less(context.liquidity, c.min_liquidity) THEN "LIQUIDITY"
    ELSE "passed"

Nothing == [verdict |-> "none"]

Init == cfg \in Configs /\ seen = Nothing

Evaluate(market, context) ==
    /\ seen' = [market |-> market, context |-> context, verdict |-> Verdict(cfg, context)]
    /\ UNCHANGED cfg

OnOptionChain == seen = Nothing /\ \E s \in Slices : Evaluate(s, ContextFromChainSlice(cfg, s))

OnQuoteTick == seen = Nothing /\ \E q \in Ticks : Evaluate(q, ContextFromQuoteTick(cfg, q))

Next == OnOptionChain \/ OnQuoteTick

Spec == Init /\ [][Next]_vars

-----------------------------------------------------------------------------
(***************************************************************************)
(* Properties.                                                             *)
(***************************************************************************)
Verdicts == {"none", "no_intent", "EDGE", "LIQUIDITY", "passed"}

Selected == seen # Nothing /\ seen.context.source = "selector"

TypeOK == cfg \in Configs /\ seen.verdict \in Verdicts

\* The configured width is only a target when strikes are missing; the chosen
\* width, the most that can be lost on a spread or won, is less than twice as
\* much: the selection fails before it makes a far wider spread.
WidthBounded ==
    Selected => /\ seen.context.low < seen.context.high
                /\ seen.context.high - seen.context.low < 2 * cfg.strike_width

SelectionInv == TypeOK /\ WidthBounded

Uncrossed(q) == TwoSided(q) => q.bid <= q.ask

\* With a threshold that is not negative, what passes both gates costs no more
\* than it pays at the underlying's price, which is known and above the lower
\* strike; so a chain without greeks enters nothing.  Crossed quotes are the
\* exception: they count as a negative cost.
PaysBelowPayoff ==
    LET c == seen.context
        calls == seen.market.call
        value == Value(cfg, c.underlying, c.low, c.high)
    IN  Selected /\ seen.verdict = "passed" /\ cfg.min_edge >= 0
            /\ Uncrossed(calls[c.low]) /\ Uncrossed(calls[c.high])
        => /\ c.debit * value.den <= value.num
           /\ c.low < seen.market.underlying

\* A cheaper offer of the lower call, not through its bid, or a better bid for
\* the higher one, not through its offer, never turns an entry into a refusal,
\* although it changes debit, spreads and commission in different directions.
BetterPriceKeepsEntry ==
    LET c == seen.context
        s == seen.market
        Better(t) == Verdict(cfg, ContextFromChainSlice(cfg, t)) = "passed"
    IN  Selected /\ seen.verdict = "passed" /\ cfg.min_edge >= 0
            /\ Uncrossed(s.call[c.low]) /\ Uncrossed(s.call[c.high])
        => /\ \A a \in s.call[c.low].bid .. s.call[c.low].ask :
                 a > s.call[c.high].bid => Better([s EXCEPT !.call[c.low].ask = a])
           /\ \A b \in s.call[c.high].bid .. s.call[c.high].ask :
                 b < s.call[c.low].ask => Better([s EXCEPT !.call[c.high].bid = b])

\* Which rejections the journal can hold: the selectors judge liquidity before
\* the gate does, and IB's also the edge; the signals of plumbing mode are made
\* to pass, but for the liquidity of a chain.
RejectedWhere ==
    /\ seen.verdict = "EDGE" => Selected /\ cfg.venue = "DERIBIT"
    /\ seen.verdict = "LIQUIDITY" => seen.context.source = "plumbing_chain"

=============================================================================
