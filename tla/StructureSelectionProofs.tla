---------------------- MODULE StructureSelectionProofs ----------------------
(***************************************************************************)
(* Theorems about the choice of a structure and its edge, for all chains,  *)
(* quotes and configurations with strikes and prices in whole units.       *)
(***************************************************************************)
EXTENDS StructureSelection, WellFoundedInduction, TLAPS

-----------------------------------------------------------------------------
(***************************************************************************)
(* Least elements, and with them the strikes that select_from_chain finds. *)
(***************************************************************************)

\* Every nonempty set of naturals has a least element.
LEMMA LeastElement ==
    ASSUME NEW T \in SUBSET Nat, T # {}
    PROVE  \E m \in T : \A n \in T : m <= n
<1> DEFINE R == OpToRel(<, Nat)
<1>1. PICK m \in T : \A n \in T : <<n, m>> \notin R
    <2>1. IsWellFoundedOn(R, Nat)
        BY NatLessThanWellFounded
    <2>2. QED
        BY <2>1, WFMin
<1>2. \A n \in T : ~(n < m)
    BY <1>1 DEF OpToRel
<1>3. QED
    BY <1>2

LEMMA DistanceType ==
    ASSUME NEW k \in Int, NEW target \in Int
    PROVE  Distance(k, target) \in Nat
BY DEF Distance

\* min over the strikes finds one: no strike is nearer, and of those at the
\* same distance it is the lowest.
LEMMA NearestIsNearest ==
    ASSUME NEW strikes \in SUBSET Nat, strikes # {}, NEW target \in Int
    PROVE  /\ Nearest(strikes, target) \in strikes
           /\ \A j \in strikes :
                 \/ Distance(Nearest(strikes, target), target) < Distance(j, target)
                 \/ /\ Distance(Nearest(strikes, target), target) = Distance(j, target)
                    /\ Nearest(strikes, target) <= j
<1> DEFINE Distances == {Distance(k, target) : k \in strikes}
<1>1. PICK d \in Distances : \A e \in Distances : d <= e
    <2>1. \A k \in strikes : Distance(k, target) \in Nat
        <3>1. \A k \in strikes : k \in Int
            OBVIOUS
        <3> QED
            BY <3>1, DistanceType
    <2>2. Distances \in SUBSET Nat
        BY <2>1, Zenon
    <2>3. Distances # {}
        <3>1. PICK k \in strikes : TRUE
            OBVIOUS
        <3>2. Distance(k, target) \in Distances
            BY <3>1
        <3> QED
            BY <3>2
    <2> HIDE DEF Distances
    <2> QED
        BY <2>2, <2>3, LeastElement
<1> DEFINE Closest == {k \in strikes : Distance(k, target) = d}
<1>2. PICK k \in Closest : \A j \in Closest : k <= j
    <2>1. Closest \in SUBSET Nat /\ Closest # {}
        BY <1>1
    <2> HIDE DEF Closest
    <2> QED
        BY <2>1, LeastElement
<1>3. \A j \in strikes : \/ Distance(k, target) < Distance(j, target)
                         \/ Distance(k, target) = Distance(j, target) /\ k <= j
    <2>1. SUFFICES ASSUME NEW j \in strikes, ~(Distance(k, target) < Distance(j, target))
                   PROVE  Distance(k, target) = Distance(j, target) /\ k <= j
        OBVIOUS
    <2>2. Distance(k, target) = d /\ d <= Distance(j, target)
        BY <1>1, <1>2
    <2>3. Distance(k, target) \in Nat /\ Distance(j, target) \in Nat
        BY <1>2, DistanceType
    <2>4. Distance(j, target) = d
        BY <2>1, <2>2, <2>3
    <2> QED
        BY <1>2, <2>2, <2>4
<1>4. k \in strikes
    BY <1>2
<1> QED
    BY <1>3, <1>4, Zenon DEF Nearest

\* The spread found is wider than nothing and less than twice as wide as asked:
\* its lower strike was a candidate for the higher one.
LEMMA SpreadWidth ==
    ASSUME NEW strikes \in SUBSET Nat, strikes # {}, NEW low \in strikes, NEW width \in Int,
           Nearest(strikes, low + width) > low
    PROVE  Nearest(strikes, low + width) - low < 2 * width
<1> DEFINE high == Nearest(strikes, low + width)
<1>1. low \in Nat /\ low + width \in Int
    OBVIOUS
<1>2. /\ high \in strikes
      /\ \/ Distance(high, low + width) < Distance(low, low + width)
         \/ Distance(high, low + width) = Distance(low, low + width) /\ high <= low
    BY <1>1, NearestIsNearest
<1>3. high \in Nat /\ high > low
    BY <1>2
<1> HIDE DEF high
<1>4. Distance(high, low + width) < Distance(low, low + width)
    BY <1>1, <1>2, <1>3
<1>5. high - low < 2 * width
    BY <1>1, <1>3, <1>4 DEF Distance
<1> QED
    BY <1>5 DEF high

-----------------------------------------------------------------------------
(***************************************************************************)
(* select_from_chain, and what of it reaches an evaluation.                *)
(***************************************************************************)

\* What is known of the record that select_from_chain returns for a chain.
Chosen(c, s, x) ==
    /\ x.source = "selector"
    /\ x.low \in s.strikes /\ x.high \in s.strikes
    /\ x.low < x.high /\ x.high - x.low < 2 * c.strike_width
    /\ s.call[x.low] \in Prices /\ s.call[x.high] \in Prices
    /\ x.debit = NetDebit(s.call[x.low], s.call[x.high]) /\ x.debit > 0
    /\ x.underlying = IF s.underlying > 0 THEN s.underlying ELSE x.low
    /\ x.edge = EdgeAfterCost(c, x.underlying, x.low, x.high, x.debit,
                              SpreadBps(s.call[x.low], Wide), SpreadBps(s.call[x.high], Wide))
    /\ ~Less(x.liquidity, c.min_liquidity)
    /\ c.venue = "IB" => ~Less(x.edge, Whole(c.min_edge))

LEMMA SelectionChosen ==
    ASSUME NEW c \in Configs, NEW s \in Slices
    PROVE  SelectFromChain(c, s) = NoContext \/ Chosen(c, s, SelectFromChain(c, s))
<1> DEFINE low == Nearest(s.strikes, s.atm)
           high == Nearest(s.strikes, low + c.strike_width)
           x == SelectFromChain(c, s)
<1>1. CASE s.strikes = {}
    BY <1>1 DEF SelectFromChain
<1>2. CASE s.strikes # {}
    <2>1. s.strikes \in SUBSET Nat /\ s.atm \in Int /\ c.strike_width \in Int
        BY ConfigsAssumption, SlicesAssumption DEF ConfigTypes
    <2>2. low \in s.strikes
        BY <1>2, <2>1, NearestIsNearest
    <2>3. high \in s.strikes
        BY <1>2, <2>1, <2>2, NearestIsNearest
    <2>4. high > low => high - low < 2 * c.strike_width
        BY <1>2, <2>1, <2>2, SpreadWidth
    <2>5. s.call[low] \in Prices \cup {NoQuote} /\ s.call[high] \in Prices \cup {NoQuote}
        BY <2>2, <2>3, SlicesAssumption
    <2>6. low \in Nat /\ high \in Nat
        BY <2>1, <2>2, <2>3
    <2> DEFINE lowQuote == s.call[low]
               highQuote == s.call[high]
               liquidity == Smaller(LiquidityScore(lowQuote, 0), LiquidityScore(highQuote, 0))
               debit == NetDebit(lowQuote, highQuote)
               underlying == IF s.underlying > 0 THEN s.underlying ELSE low
               edge == EdgeAfterCost(c, underlying, low, high, debit,
                                     SpreadBps(lowQuote, Wide), SpreadBps(highQuote, Wide))
               refused == \/ high <= low
                          \/ lowQuote = NoQuote \/ highQuote = NoQuote
                          \/ ~Liquid(c, liquidity)
                          \/ debit <= 0
                          \/ c.venue = "IB" /\ Less(edge, Whole(c.min_edge))
               r == [ source |-> "selector", low |-> low, high |-> high, debit |-> debit,
                      underlying |-> underlying, edge |-> edge, liquidity |-> liquidity ]
    <2>7. x = IF refused THEN NoContext ELSE r
        BY <1>2 DEF SelectFromChain
    <2>8. ASSUME ~refused
          PROVE  Chosen(c, s, r)
        <3>1. low < high /\ high - low < 2 * c.strike_width
            <4> HIDE DEF low, high
            <4> QED
                BY <2>4, <2>6, <2>8
        <3>2. lowQuote \in Prices /\ highQuote \in Prices
            BY <2>5, <2>8
        <3>3. debit > 0
            <4>1. debit \in Int
                BY <3>2 DEF Prices, NetDebit
            <4> QED
                BY <4>1, <2>8
        <3>4. ~Less(liquidity, c.min_liquidity)
            BY <2>8 DEF Liquid
        <3> HIDE DEF low, high
        <3> QED
            BY <2>2, <2>3, <2>8, <3>1, <3>2, <3>3, <3>4 DEF Chosen
    <2> QED
        BY <2>7, <2>8
<1> QED
    BY <1>1, <1>2

-----------------------------------------------------------------------------
(***************************************************************************)
(* Signs of products and fractions.                                        *)
(***************************************************************************)
LEMMA ProductPositive ==
    ASSUME NEW a \in Int, NEW b \in Int, a > 0, b > 0
    PROVE  a * b \in Int /\ a * b > 0
OBVIOUS

LEMMA ProductNatural ==
    ASSUME NEW a \in Int, NEW b \in Int, a >= 0, b >= 0
    PROVE  a * b \in Int /\ a * b >= 0
OBVIOUS

LEMMA FactorNatural ==
    ASSUME NEW a \in Int, NEW b \in Int, b > 0, a * b >= 0
    PROVE  a >= 0
OBVIOUS

\* A cost: a fraction that is not negative.
Costs == {f \in Fractions : f.num >= 0}

LEMMA CostsAdd ==
    ASSUME NEW f \in Costs, NEW g \in Costs
    PROVE  Plus(f, g) \in Costs
<1>1. f.num \in Int /\ f.den \in Int /\ g.num \in Int /\ g.den \in Int
      /\ f.num >= 0 /\ g.num >= 0 /\ f.den > 0 /\ g.den > 0
    BY DEF Costs, Fractions
<1>2. /\ f.num * g.den \in Int /\ f.num * g.den >= 0
      /\ g.num * f.den \in Int /\ g.num * f.den >= 0
    BY <1>1, ProductNatural
<1>3. f.den * g.den \in Int /\ f.den * g.den > 0
    BY <1>1, ProductPositive
<1>4. f.num * g.den + g.num * f.den \in Int /\ f.num * g.den + g.num * f.den >= 0
    BY <1>2
<1> QED
    BY <1>3, <1>4 DEF Plus, Costs, Fractions

\* What is at least a natural number after a cost was not negative before it.
LEMMA BeforeCosts ==
    ASSUME NEW f \in Fractions, NEW g \in Costs, NEW m \in Nat, ~Less(Minus(f, g), Whole(m))
    PROVE  f.num >= 0
<1>1. f.num \in Int /\ f.den \in Int /\ g.num \in Int /\ g.den \in Int
      /\ g.num >= 0 /\ f.den > 0 /\ g.den > 0
    BY DEF Costs, Fractions
<1> DEFINE gross == f.num * g.den
           cost == g.num * f.den
           scale == f.den * g.den
<1>2. gross \in Int /\ cost \in Int /\ cost >= 0
    BY <1>1, ProductNatural
<1>3. scale \in Int /\ scale > 0
    BY <1>1, ProductPositive
<1>4. m * scale \in Int /\ m * scale >= 0
    BY <1>3, ProductNatural
<1>5. ~((gross - cost) * 1 < m * scale)
    BY DEF Less, Minus, Whole
<1> HIDE DEF gross, cost, scale
<1>6. gross >= 0
    BY <1>2, <1>4, <1>5
<1> QED
    BY <1>1, <1>6, FactorNatural DEF gross

-----------------------------------------------------------------------------
(***************************************************************************)
(* What an entry pays and what it costs.                                   *)
(***************************************************************************)

\* An uncrossed quote has a spread that is a cost.
LEMMA SpreadIsCost ==
    ASSUME NEW q \in Prices, Uncrossed(q)
    PROVE  SpreadBps(q, Wide) \in Costs
<1>0. q.bid \in Nat /\ q.ask \in Nat /\ Bps \in Int /\ Bps > 0 /\ Wide \in Int /\ Wide >= 0
    BY ScaleAssumption DEF Prices
<1>1. CASE TwoSided(q)
    <2>1. 2 * (q.ask - q.bid) \in Int /\ 2 * (q.ask - q.bid) >= 0
        BY <1>0, <1>1 DEF Uncrossed
    <2>2. 2 * (q.ask - q.bid) * Bps \in Int /\ 2 * (q.ask - q.bid) * Bps >= 0
        BY <1>0, <2>1, ProductNatural
    <2>3. q.ask + q.bid \in Int /\ q.ask + q.bid > 0
        BY <1>0, <1>1 DEF TwoSided
    <2> QED
        BY <1>1, <2>2, <2>3 DEF SpreadBps, Costs, Fractions
<1>2. CASE ~TwoSided(q)
    BY <1>0, <1>2 DEF SpreadBps, Whole, Costs, Fractions
<1> QED
    BY <1>1, <1>2

LEMMA CommissionIsCost ==
    ASSUME NEW c \in Configs, NEW debit \in Int, debit > 0
    PROVE  CommissionBps(c, debit) \in Costs
<1>1. /\ c.rate \in Int /\ c.rate >= 0 /\ c.commission \in Int /\ c.commission >= 0
      /\ c.ticks \in Int /\ c.ticks > 0 /\ c.multiplier \in Int /\ c.multiplier > 0
      /\ Bps \in Int /\ Bps > 0
    BY ConfigsAssumption, ScaleAssumption DEF ConfigTypes
<1>2. c.commission * c.ticks \in Int /\ c.commission * c.ticks >= 0
    BY <1>1, ProductNatural
<1>3. c.commission * c.ticks * Bps \in Int /\ c.commission * c.ticks * Bps >= 0
    BY <1>1, <1>2, ProductNatural
<1>4. debit * c.multiplier \in Int /\ debit * c.multiplier > 0
    BY <1>1, ProductPositive
<1> QED
    BY <1>1, <1>3, <1>4 DEF CommissionBps, Whole, Costs, Fractions

LEMMA HalfSpreadIsCost ==
    ASSUME NEW f \in Costs, NEW g \in Costs
    PROVE  HalfSpread(f, g) \in Costs
<1> DEFINE sum == Plus(f, g)
<1>1. sum \in Costs
    BY CostsAdd
<1> HIDE DEF sum
<1>2. sum \in [num : Int, den : Int] /\ sum.den > 0 /\ sum.num >= 0
    BY <1>1 DEF Costs, Fractions
<1>3. HalfSpread(f, g) = [sum EXCEPT !.den = 2 * @]
    BY DEF HalfSpread, sum
<1> QED
    BY <1>2, <1>3 DEF Costs, Fractions

LEMMA ValueType ==
    ASSUME NEW c \in Configs, NEW u \in Nat, u > 0, NEW low \in Nat, NEW high \in Nat
    PROVE  /\ Payoff(u, low, high) \in Int
           /\ Value(c, u, low, high) \in Fractions
<1>1. c.ticks \in Int
    BY ConfigsAssumption DEF ConfigTypes
<1>2. Payoff(u, low, high) \in Int
    BY DEF Payoff, Intrinsic
<1>3. Payoff(u, low, high) * c.ticks \in Int
    BY <1>1, <1>2
<1> QED
    BY <1>2, <1>3 DEF Value, Fractions

\* The edge gate alone: an edge that is not negative after spread, slippage and
\* commission leaves no room for a debit above the value.
LEMMA EdgeCoversDebit ==
    ASSUME NEW c \in Configs, c.min_edge >= 0,
           NEW u \in Nat, u > 0, NEW low \in Nat, NEW high \in Nat, NEW debit \in Int, debit > 0,
           NEW lowSpread \in Costs, NEW highSpread \in Costs,
           ~Less(EdgeAfterCost(c, u, low, high, debit, lowSpread, highSpread), Whole(c.min_edge))
    PROVE  debit * Value(c, u, low, high).den <= Value(c, u, low, high).num
<1> DEFINE value == Value(c, u, low, high)
           before == EdgeBeforeCost(value, debit)
           after == Plus(HalfSpread(lowSpread, highSpread),
                         Plus(Whole(c.slippage), CommissionBps(c, debit)))
<1>1. value \in Fractions /\ value.num \in Int /\ value.den \in Int /\ value.den > 0
    BY ValueType DEF Fractions
<1>2. c.min_edge \in Nat /\ Whole(c.slippage) \in Costs
    BY ConfigsAssumption DEF ConfigTypes, Whole, Costs, Fractions
<1>3. after \in Costs
    BY <1>2, HalfSpreadIsCost, CommissionIsCost, CostsAdd
<1>4. ~Less(Minus(before, after), Whole(c.min_edge))
    BY DEF EdgeAfterCost
<1> HIDE DEF value, after
<1>5. debit * value.den \in Int /\ debit * value.den > 0
    BY <1>1, ProductPositive
<1>6. Bps \in Int /\ Bps > 0
    BY ScaleAssumption
<1> DEFINE left == value.num - debit * value.den
<1>7. left \in Int /\ left * Bps \in Int
    BY <1>1, <1>5, <1>6
<1>8. before \in Fractions /\ before.num = left * Bps
    BY <1>5, <1>7 DEF EdgeBeforeCost, Fractions
<1> HIDE DEF before
<1>9. before.num >= 0
    BY <1>2, <1>3, <1>4, <1>8, BeforeCosts
<1> HIDE DEF left
<1>10. left >= 0
    BY <1>6, <1>7, <1>8, <1>9, FactorNatural
<1> QED
    BY <1>1, <1>5, <1>10 DEF left, value

\* A spread that has a value is in the money.
LEMMA ValueInTheMoney ==
    ASSUME NEW c \in Configs, NEW u \in Nat, u > 0, NEW low \in Nat, NEW high \in Nat,
           low < high, Value(c, u, low, high).num > 0
    PROVE  low < u
<1>1. c.ticks \in Int /\ c.ticks > 0
    BY ConfigsAssumption DEF ConfigTypes
<1>2. Payoff(u, low, high) * c.ticks > 0
    BY DEF Value
<1>3. CASE u <= low
    <2>1. Payoff(u, low, high) = 0
        BY <1>3 DEF Payoff, Intrinsic
    <2>2. Payoff(u, low, high) * c.ticks = 0
        BY <1>1, <2>1
    <2> QED
        BY <1>2, <2>2
<1> QED
    BY <1>3

LEMMA ChosenPays ==
    ASSUME NEW c \in Configs, c.min_edge >= 0, NEW s \in Slices, NEW x, Chosen(c, s, x),
           ~Less(x.edge, Whole(c.min_edge)),
           Uncrossed(s.call[x.low]), Uncrossed(s.call[x.high])
    PROVE  LET value == Value(c, x.underlying, x.low, x.high)
           IN  x.debit * value.den <= value.num /\ x.low < s.underlying
<1> DEFINE value == Value(c, x.underlying, x.low, x.high)
<1>1. x.low \in Nat /\ x.low > 0 /\ x.high \in Nat /\ s.underlying \in Nat
    BY SlicesAssumption DEF Chosen
<1>2. x.underlying \in Nat /\ x.underlying > 0
    BY <1>1 DEF Chosen
<1>3. s.call[x.low] \in Prices /\ s.call[x.high] \in Prices
    BY DEF Chosen
<1>4. x.debit \in Int /\ x.debit > 0
    BY <1>3 DEF Chosen, NetDebit, Prices
<1>5. SpreadBps(s.call[x.low], Wide) \in Costs /\ SpreadBps(s.call[x.high], Wide) \in Costs
    BY <1>3, SpreadIsCost
<1>6. ~Less(EdgeAfterCost(c, x.underlying, x.low, x.high, x.debit,
                          SpreadBps(s.call[x.low], Wide), SpreadBps(s.call[x.high], Wide)),
            Whole(c.min_edge))
    BY DEF Chosen
<1>7. x.debit * value.den <= value.num
    BY <1>1, <1>2, <1>4, <1>5, <1>6, EdgeCoversDebit
<1>8. value \in Fractions /\ value.den \in Int /\ value.den > 0 /\ value.num \in Int
    BY <1>1, <1>2, ValueType DEF Fractions
<1> HIDE DEF value
<1>9. x.debit * value.den \in Int /\ x.debit * value.den > 0
    BY <1>4, <1>8, ProductPositive
<1>10. value.num > 0
    BY <1>7, <1>8, <1>9
<1>11. x.low < x.underlying
    BY <1>1, <1>2, <1>10, ValueInTheMoney DEF Chosen, value
<1>12. x.low < s.underlying
    BY <1>1, <1>11 DEF Chosen
<1> QED
    BY <1>7, <1>12 DEF value

-----------------------------------------------------------------------------
(***************************************************************************)
(* The order of fractions, and what it does to sums, differences and bounds. *)
(* A product of more than two factors is rearranged by a step of its own.  *)
(***************************************************************************)
AtMost(f, g) == ~Less(g, f)

\* Products by what is not negative keep the order.
LEMMA TimesMonotone ==
    ASSUME NEW a \in Int, NEW b \in Int, NEW k \in Int, a <= b, k >= 0
    PROVE  a * k \in Int /\ b * k \in Int /\ a * k <= b * k
OBVIOUS

\* And what is positive may be cancelled.
LEMMA TimesCancel ==
    ASSUME NEW a \in Int, NEW b \in Int, NEW k \in Int, a * k <= b * k, k > 0
    PROVE  a <= b
OBVIOUS

\* Factors change places.
LEMMA Reassociate ==
    ASSUME NEW a \in Int, NEW b \in Int, NEW c \in Int
    PROVE  (a * b) * c = (a * c) * b
OBVIOUS

\* The parts of a fraction.
LEMMA FractionParts ==
    ASSUME NEW f \in Fractions
    PROVE  f.num \in Int /\ f.den \in Int /\ f.den > 0
BY DEF Fractions

\* a/b <= c/d <= e/f, multiplied out.
LEMMA IntTrans ==
    ASSUME NEW a \in Int, NEW b \in Int, NEW c \in Int, NEW d \in Int, NEW e \in Int, NEW f \in Int,
           b > 0, d > 0, f > 0, a * d <= c * b, c * f <= e * d
    PROVE  a * f <= e * b
<1>1. (a * d) * f <= (c * b) * f
  BY TimesMonotone
<1>2. (c * f) * b <= (e * d) * b
  BY TimesMonotone
<1>3. (a * d) * f = (a * f) * d /\ (c * b) * f = (c * f) * b /\ (e * d) * b = (e * b) * d
  BY Reassociate
<1>4. (a * f) * d <= (e * b) * d
  BY <1>1, <1>2, <1>3
<1> QED
  BY <1>4, TimesCancel

\* The order of fractions is transitive.
LEMMA AtMostTrans ==
    ASSUME NEW f \in Fractions, NEW g \in Fractions, NEW h \in Fractions, AtMost(f, g), AtMost(g, h)
    PROVE  AtMost(f, h)
<1>1. /\ f.num \in Int /\ f.den \in Int /\ f.den > 0
      /\ g.num \in Int /\ g.den \in Int /\ g.den > 0
      /\ h.num \in Int /\ h.den \in Int /\ h.den > 0
  BY FractionParts
<1>2. f.num * g.den <= g.num * f.den /\ g.num * h.den <= h.num * g.den
  BY <1>1 DEF AtMost, Less
<1>3. f.num * h.den <= h.num * f.den
  BY <1>1, <1>2, IntTrans
<1> QED
  BY <1>1, <1>3 DEF AtMost, Less

\* a/b <= p/q and c/d <= r/s: the sums, multiplied out.
LEMMA IntPlus ==
    ASSUME NEW a \in Int, NEW b \in Int, NEW c \in Int, NEW d \in Int,
           NEW p \in Int, NEW q \in Int, NEW r \in Int, NEW s \in Int,
           b > 0, d > 0, q > 0, s > 0, a * q <= p * b, c * s <= r * d
    PROVE  (a * d + c * b) * (q * s) <= (p * s + r * q) * (b * d)
<1>1. d * s \in Int /\ d * s >= 0 /\ b * q \in Int /\ b * q >= 0
  BY ProductPositive
<1>2. (a * q) * (d * s) <= (p * b) * (d * s)
  BY <1>1, TimesMonotone
<1>3. (c * s) * (b * q) <= (r * d) * (b * q)
  BY <1>1, TimesMonotone
<1>4. (a * d + c * b) * (q * s) = (a * q) * (d * s) + (c * s) * (b * q)
  OBVIOUS
<1>5. (p * s + r * q) * (b * d) = (p * b) * (d * s) + (r * d) * (b * q)
  OBVIOUS
<1> QED
  BY <1>2, <1>3, <1>4, <1>5, <1>1

\* a/b <= p/q and r/s <= c/d: the differences, multiplied out.
LEMMA IntMinus ==
    ASSUME NEW a \in Int, NEW b \in Int, NEW c \in Int, NEW d \in Int,
           NEW p \in Int, NEW q \in Int, NEW r \in Int, NEW s \in Int,
           b > 0, d > 0, q > 0, s > 0, a * q <= p * b, r * d <= c * s
    PROVE  (a * d - c * b) * (q * s) <= (p * s - r * q) * (b * d)
<1>1. d * s \in Int /\ d * s >= 0 /\ b * q \in Int /\ b * q >= 0
  BY ProductPositive
<1>2. (a * q) * (d * s) <= (p * b) * (d * s)
  BY <1>1, TimesMonotone
<1>3. (r * d) * (b * q) <= (c * s) * (b * q)
  BY <1>1, TimesMonotone
<1>4. (a * d - c * b) * (q * s) = (a * q) * (d * s) - (c * s) * (b * q)
  OBVIOUS
<1>5. (p * s - r * q) * (b * d) = (p * b) * (d * s) - (r * d) * (b * q)
  OBVIOUS
<1> QED
  BY <1>2, <1>3, <1>4, <1>5, <1>1

\* a/b less the sum of p/q, r/s and c/d, in two groupings.
LEMMA Regroup ==
    ASSUME NEW a \in Int, NEW b \in Int, NEW c \in Int, NEW d \in Int,
           NEW p \in Int, NEW q \in Int, NEW r \in Int, NEW s \in Int
    PROVE  /\ a * (q * (s * d)) - (p * (s * d) + (r * d + c * s) * q) * b
                = (a * d - c * b) * (q * s) - (p * s + r * q) * (b * d)
           /\ b * (q * (s * d)) = (b * d) * (q * s)
OBVIOUS

\* A market that is narrower on either side has a smaller spread over its sum.
LEMMA Narrower ==
    ASSUME NEW a \in Int, NEW b \in Int, NEW p \in Int, NEW q \in Int, NEW k \in Int,
           0 < b, b <= q, q <= p, p <= a, k > 0
    PROVE  (2 * (p - q) * k) * (a + b) <= (2 * (a - b) * k) * (p + q)
<1>1. b * p <= q * p /\ q * p <= q * a /\ b * p \in Int /\ q * a \in Int
  OBVIOUS
<1>2. (p - q) * (a + b) <= (a - b) * (p + q)
  <2>1. (p - q) * (a + b) = p * a + b * p - q * a - q * b
    OBVIOUS
  <2>2. (a - b) * (p + q) = p * a + q * a - b * p - q * b
    OBVIOUS
  <2>3. p * a \in Int /\ q * b \in Int
    OBVIOUS
  <2> QED
    BY <1>1, <2>1, <2>2, <2>3
<1>3. ((p - q) * (a + b)) * (2 * k) <= ((a - b) * (p + q)) * (2 * k)
  BY <1>2, TimesMonotone
<1>4. (2 * (p - q) * k) * (a + b) = ((p - q) * (a + b)) * (2 * k)
  OBVIOUS
<1>5. (2 * (a - b) * k) * (p + q) = ((a - b) * (p + q)) * (2 * k)
  OBVIOUS
<1> QED
  BY <1>3, <1>4, <1>5

\* A positive denominator makes a fraction.
LEMMA ProductFraction ==
    ASSUME NEW n \in Int, NEW d \in Int, d > 0
    PROVE  [num |-> n, den |-> d] \in Fractions
BY DEF Fractions

\* Sums and differences of fractions are fractions.
LEMMA FractionsClosed ==
    ASSUME NEW f \in Fractions, NEW g \in Fractions
    PROVE  Plus(f, g) \in Fractions /\ Minus(f, g) \in Fractions
<1>1. /\ f.num \in Int /\ f.den \in Int /\ f.den > 0
      /\ g.num \in Int /\ g.den \in Int /\ g.den > 0
  BY FractionParts
<1>2. f.den * g.den \in Int /\ f.den * g.den > 0
  BY <1>1, ProductPositive
<1>3. /\ f.num * g.den + g.num * f.den \in Int
      /\ f.num * g.den - g.num * f.den \in Int
  BY <1>1
<1> QED
  BY <1>2, <1>3 DEF Plus, Minus, Fractions

\* Sums grow with their terms.
LEMMA PlusAtMost ==
    ASSUME NEW f \in Fractions, NEW g \in Fractions, NEW f2 \in Fractions, NEW g2 \in Fractions,
           AtMost(f, f2), AtMost(g, g2)
    PROVE  AtMost(Plus(f, g), Plus(f2, g2))
<1>1. /\ f.num \in Int /\ f.den \in Int /\ f.den > 0
      /\ g.num \in Int /\ g.den \in Int /\ g.den > 0
      /\ f2.num \in Int /\ f2.den \in Int /\ f2.den > 0
      /\ g2.num \in Int /\ g2.den \in Int /\ g2.den > 0
  BY FractionParts
<1>2. f.num * f2.den <= f2.num * f.den /\ g.num * g2.den <= g2.num * g.den
  BY <1>1 DEF AtMost, Less
<1>3. (f.num * g.den + g.num * f.den) * (f2.den * g2.den)
         <= (f2.num * g2.den + g2.num * f2.den) * (f.den * g.den)
  BY <1>1, <1>2, IntPlus
<1>4. Plus(f, g) \in Fractions /\ Plus(f2, g2) \in Fractions
  BY FractionsClosed
<1>5. Plus(f, g).num * Plus(f2, g2).den <= Plus(f2, g2).num * Plus(f, g).den
  BY <1>3 DEF Plus
<1>6. /\ Plus(f, g).num * Plus(f2, g2).den \in Int
      /\ Plus(f2, g2).num * Plus(f, g).den \in Int
  BY <1>4, FractionParts
<1> QED
  BY <1>5, <1>6 DEF AtMost, Less

\* Differences grow with the first term and shrink with the second.
LEMMA MinusAtMost ==
    ASSUME NEW f \in Fractions, NEW g \in Fractions, NEW f2 \in Fractions, NEW g2 \in Fractions,
           AtMost(f, f2), AtMost(g2, g)
    PROVE  AtMost(Minus(f, g), Minus(f2, g2))
<1>1. /\ f.num \in Int /\ f.den \in Int /\ f.den > 0
      /\ g.num \in Int /\ g.den \in Int /\ g.den > 0
      /\ f2.num \in Int /\ f2.den \in Int /\ f2.den > 0
      /\ g2.num \in Int /\ g2.den \in Int /\ g2.den > 0
  BY FractionParts
<1>2. f.num * f2.den <= f2.num * f.den /\ g2.num * g.den <= g.num * g2.den
  BY <1>1 DEF AtMost, Less
<1>3. (f.num * g.den - g.num * f.den) * (f2.den * g2.den)
         <= (f2.num * g2.den - g2.num * f2.den) * (f.den * g.den)
  BY <1>1, <1>2, IntMinus
<1>4. Minus(f, g) \in Fractions /\ Minus(f2, g2) \in Fractions
  BY FractionsClosed
<1>5. Minus(f, g).num * Minus(f2, g2).den <= Minus(f2, g2).num * Minus(f, g).den
  BY <1>3 DEF Minus
<1>6. /\ Minus(f, g).num * Minus(f2, g2).den \in Int
      /\ Minus(f2, g2).num * Minus(f, g).den \in Int
  BY <1>4, FractionParts
<1> QED
  BY <1>5, <1>6 DEF AtMost, Less

\* The order is reflexive.
LEMMA AtMostItself == ASSUME NEW f \in Fractions PROVE AtMost(f, f)
<1>1. f.num * f.den \in Int
  BY FractionParts
<1> QED
  BY <1>1 DEF AtMost, Less

\* The half spread grows with the spreads.
LEMMA HalfAtMost ==
    ASSUME NEW f \in Fractions, NEW g \in Fractions, NEW f2 \in Fractions, NEW g2 \in Fractions,
           AtMost(f, f2), AtMost(g, g2)
    PROVE  AtMost(HalfSpread(f, g), HalfSpread(f2, g2))
<1> DEFINE x == Plus(f, g)
           y == Plus(f2, g2)
<1>1. x \in Fractions /\ y \in Fractions /\ AtMost(x, y)
  BY FractionsClosed, PlusAtMost
<1>2. HalfSpread(f, g) = [x EXCEPT !.den = 2 * @] /\ HalfSpread(f2, g2) = [y EXCEPT !.den = 2 * @]
  BY DEF HalfSpread
<1> HIDE DEF x, y
<1>3. x.num \in Int /\ x.den \in Int /\ x.den > 0 /\ y.num \in Int /\ y.den \in Int /\ y.den > 0
  BY <1>1, FractionParts
<1>4. /\ HalfSpread(f, g).num = x.num /\ HalfSpread(f, g).den = 2 * x.den
      /\ HalfSpread(f2, g2).num = y.num /\ HalfSpread(f2, g2).den = 2 * y.den
  BY <1>1, <1>2 DEF Fractions
<1>5. x.num * y.den <= y.num * x.den
  BY <1>1, <1>3 DEF AtMost, Less
<1>6. /\ x.num * (2 * y.den) = 2 * (x.num * y.den) /\ x.num * y.den \in Int
      /\ y.num * (2 * x.den) = 2 * (y.num * x.den) /\ y.num * x.den \in Int
  BY <1>3
<1> QED
  BY <1>4, <1>5, <1>6 DEF AtMost, Less

\* The larger and the smaller of two grow with both.
LEMMA BoundsAtMost ==
    ASSUME NEW f \in Fractions, NEW g \in Fractions, NEW f2 \in Fractions, NEW g2 \in Fractions,
           AtMost(f, f2), AtMost(g, g2)
    PROVE  /\ Larger(f, g) \in Fractions /\ Smaller(f, g) \in Fractions
           /\ AtMost(Larger(f, g), Larger(f2, g2))
           /\ AtMost(Smaller(f, g), Smaller(f2, g2))
<1>1. ASSUME NEW p \in Fractions, NEW q \in Fractions PROVE AtMost(p, q) \/ AtMost(q, p)
  <2>1. p.num * q.den \in Int /\ q.num * p.den \in Int
    BY FractionParts
  <2> QED
    BY <2>1 DEF AtMost, Less
<1>2. /\ Larger(f, g) \in {f, g} /\ Smaller(f, g) \in {f, g}
      /\ AtMost(Smaller(f, g), f) /\ AtMost(Smaller(f, g), g)
  BY <1>1, AtMostItself DEF Larger, Smaller, AtMost
<1>3. /\ Larger(f2, g2) \in {f2, g2} /\ Smaller(f2, g2) \in {f2, g2}
      /\ AtMost(f2, Larger(f2, g2)) /\ AtMost(g2, Larger(f2, g2))
  BY <1>1, AtMostItself DEF Larger, Smaller, AtMost
<1>4. Larger(f2, g2) \in Fractions /\ Smaller(f, g) \in Fractions
  BY <1>2, <1>3
<1>5. AtMost(f, Larger(f2, g2)) /\ AtMost(g, Larger(f2, g2))
  BY <1>3, <1>4, AtMostTrans
<1>6. AtMost(Smaller(f, g), f2) /\ AtMost(Smaller(f, g), g2)
  BY <1>2, <1>4, AtMostTrans
<1> QED
  BY <1>2, <1>3, <1>5, <1>6

-----------------------------------------------------------------------------
(***************************************************************************)
(* Narrower quotes.                                                        *)
(***************************************************************************)

\* q2 is the quote of a market that is narrower than q's and not crossed, or
\* both are without a side.
Within(q2, q) ==
    /\ q2 \in Prices /\ q \in Prices /\ (TwoSided(q2) <=> TwoSided(q))
    /\ TwoSided(q) => q.bid <= q2.bid /\ q2.bid <= q2.ask /\ q2.ask <= q.ask

\* A narrower market has no larger spread.
LEMMA SpreadNarrows ==
    ASSUME NEW q, NEW q2, Within(q2, q)
    PROVE  /\ SpreadBps(q, Wide) \in Fractions /\ SpreadBps(q2, Wide) \in Fractions
           /\ AtMost(SpreadBps(q2, Wide), SpreadBps(q, Wide))
<1>1. /\ q.bid \in Int /\ q.ask \in Int /\ q2.bid \in Int /\ q2.ask \in Int
      /\ Bps \in Int /\ Bps > 0 /\ Wide \in Int
  BY ScaleAssumption DEF Within, Prices
<1>2. CASE ~TwoSided(q)
  <2>1. SpreadBps(q, Wide) = Whole(Wide) /\ SpreadBps(q2, Wide) = Whole(Wide)
    BY <1>2 DEF SpreadBps, Within
  <2>2. Whole(Wide) \in Fractions
    BY <1>1 DEF Whole, Fractions
  <2> QED
    BY <2>1, <2>2, AtMostItself
<1>3. CASE TwoSided(q)
  <2>1. /\ 0 < q.bid /\ q.bid <= q2.bid /\ q2.bid <= q2.ask /\ q2.ask <= q.ask
        /\ TwoSided(q2)
    BY <1>3 DEF Within, TwoSided
  <2>2. (2 * (q2.ask - q2.bid) * Bps) * (q.ask + q.bid)
           <= (2 * (q.ask - q.bid) * Bps) * (q2.ask + q2.bid)
    BY <1>1, <2>1, Narrower
  <2>3. /\ 2 * (q2.ask - q2.bid) * Bps \in Int /\ 2 * (q.ask - q.bid) * Bps \in Int
        /\ q.ask + q.bid \in Int /\ q2.ask + q2.bid \in Int
        /\ q.ask + q.bid > 0 /\ q2.ask + q2.bid > 0
    BY <1>1, <2>1
  <2>4. /\ SpreadBps(q, Wide) = [num |-> 2 * (q.ask - q.bid) * Bps, den |-> q.ask + q.bid]
        /\ SpreadBps(q2, Wide) = [num |-> 2 * (q2.ask - q2.bid) * Bps, den |-> q2.ask + q2.bid]
    BY <1>3, <2>1 DEF SpreadBps
  <2>5. SpreadBps(q, Wide) \in Fractions /\ SpreadBps(q2, Wide) \in Fractions
    BY <2>3, <2>4, ProductFraction
  <2>6. SpreadBps(q2, Wide).num * SpreadBps(q, Wide).den
           <= SpreadBps(q, Wide).num * SpreadBps(q2, Wide).den
    BY <2>2, <2>4
  <2>7. /\ SpreadBps(q2, Wide).num * SpreadBps(q, Wide).den \in Int
        /\ SpreadBps(q, Wide).num * SpreadBps(q2, Wide).den \in Int
    BY <2>5, FractionParts
  <2> QED
    BY <2>5, <2>6, <2>7 DEF AtMost, Less
<1> QED
  BY <1>2, <1>3

\* 1 - x/k, as LiquidityScore has it.
LEMMA IntComplement ==
    ASSUME NEW a \in Int, NEW b \in Int, NEW p \in Int, NEW q \in Int, NEW k \in Int,
           b > 0, q > 0, k > 0, p * b <= a * q
    PROVE  (k * b - a) * (k * q) <= (k * q - p) * (k * b)
<1>1. (p * b) * k <= (a * q) * k
  BY TimesMonotone
<1>2. (k * b - a) * (k * q) = (k * b) * (k * q) - (a * q) * k
  OBVIOUS
<1>3. (k * q - p) * (k * b) = (k * b) * (k * q) - (p * b) * k
  OBVIOUS
<1>4. (k * b) * (k * q) \in Int /\ (a * q) * k \in Int /\ (p * b) * k \in Int
  OBVIOUS
<1> QED
  BY <1>1, <1>2, <1>3, <1>4

\* And no lower liquidity score.
LEMMA ScoreImproves ==
    ASSUME NEW q, NEW q2, Within(q2, q)
    PROVE  /\ LiquidityScore(q, 0) \in Fractions /\ LiquidityScore(q2, 0) \in Fractions
           /\ AtMost(LiquidityScore(q, 0), LiquidityScore(q2, 0))
<1>1. CASE ~TwoSided(q)
  <2>1. LiquidityScore(q, 0) = Whole(0) /\ LiquidityScore(q2, 0) = Whole(0)
    BY <1>1 DEF LiquidityScore, Within
  <2>2. Whole(0) \in Fractions
    BY DEF Whole, Fractions
  <2> QED
    BY <2>1, <2>2, AtMostItself
<1>2. CASE TwoSided(q)
  <2> DEFINE f == SpreadBps(q, Wide)
             g == SpreadBps(q2, Wide)
             x == [num |-> Wide * f.den - f.num, den |-> Wide * f.den]
             y == [num |-> Wide * g.den - g.num, den |-> Wide * g.den]
  <2>1. f \in Fractions /\ g \in Fractions /\ AtMost(g, f)
    BY SpreadNarrows
  <2>2. /\ LiquidityScore(q, 0) = Larger(Whole(0), Smaller(Whole(1), x))
        /\ LiquidityScore(q2, 0) = Larger(Whole(0), Smaller(Whole(1), y))
    BY <1>2 DEF LiquidityScore, Within
  <2> HIDE DEF f, g
  <2>3. /\ f.num \in Int /\ f.den \in Int /\ f.den > 0
        /\ g.num \in Int /\ g.den \in Int /\ g.den > 0
        /\ Wide \in Int /\ Wide > 0
    BY <2>1, FractionParts, ScaleAssumption
  <2>4. g.num * f.den <= f.num * g.den
    BY <2>1, <2>3 DEF AtMost, Less
  <2>5. (Wide * f.den - f.num) * (Wide * g.den) <= (Wide * g.den - g.num) * (Wide * f.den)
    BY <2>3, <2>4, IntComplement
  <2>6. /\ Wide * f.den \in Int /\ Wide * f.den > 0 /\ Wide * g.den \in Int /\ Wide * g.den > 0
    BY <2>3, ProductPositive
  <2>7. Wide * f.den - f.num \in Int /\ Wide * g.den - g.num \in Int
    BY <2>3, <2>6
  <2>8. x \in Fractions /\ y \in Fractions
    BY <2>6, <2>7, ProductFraction
  <2>9. x.num * y.den <= y.num * x.den
    BY <2>5
  <2>10. x.num * y.den \in Int /\ y.num * x.den \in Int
    BY <2>8, FractionParts
  <2> HIDE DEF x, y
  <2>11. AtMost(x, y)
    BY <2>9, <2>10 DEF AtMost, Less
  <2>12. Whole(0) \in Fractions /\ Whole(1) \in Fractions
    BY DEF Whole, Fractions
  <2>13. /\ Smaller(Whole(1), x) \in Fractions /\ Smaller(Whole(1), y) \in Fractions
         /\ AtMost(Smaller(Whole(1), x), Smaller(Whole(1), y))
    BY <2>8, <2>11, <2>12, AtMostItself, BoundsAtMost
  <2>14. /\ Larger(Whole(0), Smaller(Whole(1), x)) \in Fractions
         /\ Larger(Whole(0), Smaller(Whole(1), y)) \in Fractions
         /\ AtMost(Larger(Whole(0), Smaller(Whole(1), x)), Larger(Whole(0), Smaller(Whole(1), y)))
    BY <2>12, <2>13, AtMostItself, BoundsAtMost
  <2> QED
    BY <2>2, <2>14
<1> QED
  BY <1>1, <1>2

\* (P - dQ)/(dW) grows as d falls, as long as P is not negative.
LEMMA IntNet ==
    ASSUME NEW P \in Int, NEW Q \in Int, NEW W \in Int, NEW d \in Int, NEW e \in Int,
           0 < e, e <= d, W > 0, P >= 0
    PROVE  (d * (P - d * Q)) * ((e * e) * W) <= (e * (P - e * Q)) * ((d * d) * W)
<1>1. e * P <= d * P /\ e * P \in Int /\ d * P \in Int
  BY TimesMonotone
<1>2. e * (P - d * Q) <= d * (P - e * Q)
  <2>1. e * (P - d * Q) = e * P - (d * e) * Q /\ d * (P - e * Q) = d * P - (d * e) * Q
    OBVIOUS
  <2>2. (d * e) * Q \in Int
    OBVIOUS
  <2> QED
    BY <1>1, <2>1, <2>2
<1>3. d * e \in Int /\ d * e > 0
  BY ProductPositive
<1>4. (d * e) * W \in Int /\ (d * e) * W > 0
  BY <1>3, ProductPositive
<1> DEFINE K == (d * e) * W
           x == e * (P - d * Q)
           y == d * (P - e * Q)
<1>5. x \in Int /\ y \in Int
  OBVIOUS
<1>6. x * K <= y * K
  <2> HIDE DEF x, y, K
  <2> QED
    BY <1>2, <1>4, <1>5, TimesMonotone DEF x, y, K
<1>7. x * K = (d * (P - d * Q)) * ((e * e) * W)
  OBVIOUS
<1>8. y * K = (e * (P - e * Q)) * ((d * d) * W)
  OBVIOUS
<1> QED
  BY <1>6, <1>7, <1>8

\* What remains of a value V/v after a debit of d and a commission of f per d:
\* P falls away from d*Q only, whatever V, v and f are.
LEMMA NetForm ==
    ASSUME NEW V \in Int, NEW v \in Int, NEW M \in Int, NEW B \in Int, NEW f \in Int, NEW d \in Int
    PROVE  /\ ((V - d * v) * B) * (d * M) - (f * B) * (d * v)
                 = d * (((V * B) * M - (f * B) * v) - d * ((B * v) * M))
           /\ (d * v) * (d * M) = (d * d) * (v * M)
<1>1. ((V - d * v) * B) * (d * M) = d * ((V * B) * M) - d * (d * ((B * v) * M))
  OBVIOUS
<1>2. (f * B) * (d * v) = d * ((f * B) * v)
  OBVIOUS
<1> DEFINE p == (V * B) * M
           q == (f * B) * v
           r == d * ((B * v) * M)
<1>3. p \in Int /\ q \in Int /\ r \in Int
  OBVIOUS
<1>4. d * ((p - q) - r) = (d * p - d * r) - d * q
  <2> HIDE DEF p, q, r
  <2> QED
    BY <1>3
<1>5. (d * v) * (d * M) = (d * d) * (v * M)
  OBVIOUS
<1> QED
  BY <1>1, <1>2, <1>4, <1>5

\* The same without a commission.
LEMMA IntBefore ==
    ASSUME NEW V \in Int, NEW v \in Int, NEW B \in Int, NEW d \in Int, NEW e \in Int,
           0 < e, e <= d, v > 0, B > 0, V >= 0
    PROVE  ((V - d * v) * B) * (e * v) <= ((V - e * v) * B) * (d * v)
<1>1. e * V <= d * V /\ e * V \in Int /\ d * V \in Int
  BY TimesMonotone
<1>2. e * (V - d * v) <= d * (V - e * v)
  <2>1. e * (V - d * v) = e * V - (d * e) * v /\ d * (V - e * v) = d * V - (d * e) * v
    OBVIOUS
  <2>2. (d * e) * v \in Int
    OBVIOUS
  <2> QED
    BY <1>1, <2>1, <2>2
<1>3. B * v \in Int /\ B * v > 0
  BY ProductPositive
<1> DEFINE x == e * (V - d * v)
           y == d * (V - e * v)
<1>4. x * (B * v) <= y * (B * v)
  <2>1. x \in Int /\ y \in Int
    OBVIOUS
  <2> HIDE DEF x, y
  <2> QED
    BY <1>2, <1>3, <2>1, TimesMonotone DEF x, y
<1>5. x * (B * v) = ((V - d * v) * B) * (e * v)
  OBVIOUS
<1>6. y * (B * v) = ((V - e * v) * B) * (d * v)
  OBVIOUS
<1> QED
  BY <1>4, <1>5, <1>6

-----------------------------------------------------------------------------
(***************************************************************************)
(* Lower debits.  With the debit d the edge before cost rises as 1/d, and so *)
(* does IB's commission: an edge that is not negative gains more than it   *)
(* loses.                                                                  *)
(***************************************************************************)

\* The edge before spreads and slippage.
Net(c, value, debit) == Minus(EdgeBeforeCost(value, debit), CommissionBps(c, debit))

\* The edge before cost is a fraction.
LEMMA BeforeType ==
    ASSUME NEW value \in Fractions, NEW debit \in Int, debit > 0
    PROVE  EdgeBeforeCost(value, debit) \in Fractions
<1>1. value.num \in Int /\ value.den \in Int /\ value.den > 0 /\ Bps \in Int
  BY FractionParts, ScaleAssumption
<1>2. debit * value.den \in Int /\ debit * value.den > 0
  BY <1>1, ProductPositive
<1>3. (value.num - debit * value.den) * Bps \in Int
  BY <1>1, <1>2
<1> QED
  BY <1>2, <1>3 DEF EdgeBeforeCost, Fractions

\* And so it is after commission.
LEMMA NetType ==
    ASSUME NEW c \in Configs, NEW value \in Fractions, NEW debit \in Int, debit > 0
    PROVE  Net(c, value, debit) \in Fractions
<1>1. CommissionBps(c, debit) \in Fractions
  BY CommissionIsCost DEF Costs
<1> QED
  BY <1>1, BeforeType, FractionsClosed DEF Net

\* Deribit's commission is a rate: the edge grows as the debit falls.
LEMMA NetImprovesDeribit ==
    ASSUME NEW c \in Configs, c.venue = "DERIBIT", NEW value \in Fractions,
           NEW debit \in Int, NEW lower \in Int, 0 < lower, lower <= debit,
           Net(c, value, debit).num >= 0
    PROVE  AtMost(Net(c, value, debit), Net(c, value, lower))
<1>1. /\ value.num \in Int /\ value.den \in Int /\ value.den > 0 /\ Bps \in Int /\ Bps > 0
      /\ c.rate \in Int /\ c.rate >= 0
  BY FractionParts, ScaleAssumption, ConfigsAssumption DEF ConfigTypes
<1>2. debit > 0
  OBVIOUS
<1> DEFINE f == EdgeBeforeCost(value, debit)
           g == EdgeBeforeCost(value, lower)
<1>3. f \in Fractions /\ g \in Fractions
  BY <1>2, BeforeType
<1>4. CommissionBps(c, debit) = Whole(c.rate) /\ CommissionBps(c, lower) = Whole(c.rate)
  BY DEF CommissionBps
<1>5. Whole(c.rate) \in Fractions
  BY <1>1 DEF Whole, Fractions
<1>6. value.num >= 0
  <2>1. Net(c, value, debit).num = f.num * 1 - c.rate * f.den
    BY <1>4 DEF Net, Minus, Whole
  <2>2. f.num \in Int /\ f.den \in Int /\ f.den > 0
    BY <1>3, FractionParts
  <2>3. c.rate * f.den \in Int /\ c.rate * f.den >= 0
    BY <1>1, <2>2, ProductNatural
  <2>4. f.num >= 0
    <3> HIDE DEF f
    <3> QED
      BY <2>1, <2>2, <2>3
  <2>5. debit * value.den \in Int /\ debit * value.den > 0
    BY <1>1, <1>2, ProductPositive
  <2>6. (value.num - debit * value.den) * Bps >= 0
    BY <2>4 DEF EdgeBeforeCost
  <2>7. value.num - debit * value.den >= 0
    <3>1. value.num - debit * value.den \in Int
      BY <1>1, <2>5
    <3> QED
      BY <1>1, <2>6, <3>1, FactorNatural
  <2> QED
    BY <1>1, <2>5, <2>7
<1>7. ((value.num - debit * value.den) * Bps) * (lower * value.den)
         <= ((value.num - lower * value.den) * Bps) * (debit * value.den)
  BY <1>1, <1>6, IntBefore
<1>8. f.num * g.den <= g.num * f.den
  BY <1>7 DEF EdgeBeforeCost
<1>9. f.num * g.den \in Int /\ g.num * f.den \in Int
  BY <1>3, FractionParts
<1> HIDE DEF f, g
<1>10. AtMost(f, g)
  BY <1>8, <1>9 DEF AtMost, Less
<1>11. AtMost(Minus(f, Whole(c.rate)), Minus(g, Whole(c.rate)))
  BY <1>3, <1>5, <1>10, AtMostItself, MinusAtMost
<1> QED
  BY <1>4, <1>11 DEF Net, f, g

\* IB's is a sum of money, so that a lower debit raises it in basis points; but
\* an edge that is not negative grows by more.
LEMMA NetImprovesIb ==
    ASSUME NEW c \in Configs, c.venue # "DERIBIT", NEW value \in Fractions,
           NEW debit \in Int, NEW lower \in Int, 0 < lower, lower <= debit,
           Net(c, value, debit).num >= 0
    PROVE  AtMost(Net(c, value, debit), Net(c, value, lower))
<1> DEFINE V == value.num
           v == value.den
           M == c.multiplier
           f == c.commission * c.ticks
           P == (V * Bps) * M - (f * Bps) * v
           Q == (Bps * v) * M
           W == v * M
<1>1. /\ V \in Int /\ v \in Int /\ v > 0 /\ M \in Int /\ M > 0 /\ f \in Int
      /\ Bps \in Int /\ Bps > 0
  BY FractionParts, ScaleAssumption, ConfigsAssumption DEF ConfigTypes
<1>2. W \in Int /\ W > 0
  BY <1>1, ProductPositive
<1>3. Bps * v \in Int /\ Bps * v > 0
  BY <1>1, ProductPositive
<1>4. Q \in Int /\ Q > 0
  BY <1>1, <1>3, ProductPositive
<1>5. P \in Int
  BY <1>1
<1>6. ASSUME NEW d \in Int
      PROVE  Net(c, value, d) = [num |-> d * (P - d * Q), den |-> (d * d) * W]
  <2>1. Net(c, value, d) = [num |-> ((V - d * v) * Bps) * (d * M) - (f * Bps) * (d * v),
                            den |-> (d * v) * (d * M)]
    BY DEF Net, Minus, EdgeBeforeCost, CommissionBps
  <2>2. /\ ((V - d * v) * Bps) * (d * M) - (f * Bps) * (d * v) = d * (P - d * Q)
        /\ (d * v) * (d * M) = (d * d) * W
    <3> HIDE DEF V, v, M, f
    <3> QED
      BY <1>1, NetForm
  <2> QED
    BY <2>1, <2>2
<1> HIDE DEF V, v, M, f, P, Q, W
<1>7. P >= 0
  <2>1. (P - debit * Q) * debit >= 0
    <3>1. debit * (P - debit * Q) >= 0
      BY <1>6
    <3> QED
      BY <1>4, <1>5, <3>1
  <2>2. debit * Q \in Int /\ debit * Q > 0
    BY <1>4, ProductPositive
  <2>3. P - debit * Q >= 0
    <3>1. P - debit * Q \in Int
      BY <1>5, <2>2
    <3> QED
      BY <2>1, <3>1, FactorNatural
  <2> QED
    BY <1>5, <2>2, <2>3
<1>8. (debit * (P - debit * Q)) * ((lower * lower) * W)
         <= (lower * (P - lower * Q)) * ((debit * debit) * W)
  BY <1>2, <1>4, <1>5, <1>7, IntNet
<1>9. Net(c, value, debit).num * Net(c, value, lower).den
         <= Net(c, value, lower).num * Net(c, value, debit).den
  BY <1>6, <1>8
<1>10. /\ Net(c, value, debit).num * Net(c, value, lower).den \in Int
       /\ Net(c, value, lower).num * Net(c, value, debit).den \in Int
  <2>1. Net(c, value, debit) \in Fractions /\ Net(c, value, lower) \in Fractions
    BY NetType
  <2> QED
    BY <2>1, FractionParts
<1> QED
  BY <1>9, <1>10 DEF AtMost, Less

\* EdgeAfterCost with the costs that depend on the debit taken off first.
LEMMA EdgeRegrouped ==
    ASSUME NEW c \in Configs, NEW u \in Nat, u > 0, NEW low \in Nat, NEW high \in Nat,
           NEW debit \in Int, debit > 0, NEW p \in Fractions, NEW q \in Fractions
    PROVE  EdgeAfterCost(c, u, low, high, debit, p, q)
              = Minus(Net(c, Value(c, u, low, high), debit),
                      Plus(HalfSpread(p, q), Whole(c.slippage)))
<1> DEFINE b == EdgeBeforeCost(Value(c, u, low, high), debit)
           g == CommissionBps(c, debit)
           h == HalfSpread(p, q)
           w == Whole(c.slippage)
<1>1. b \in Fractions /\ g \in Fractions /\ w \in Fractions
  <2>1. b \in Fractions
    BY ValueType, BeforeType
  <2>2. g \in Fractions
    BY CommissionIsCost DEF Costs
  <2>3. w \in Fractions
    BY ConfigsAssumption DEF ConfigTypes, Whole, Fractions
  <2> QED
    BY <2>1, <2>2, <2>3
<1>2. h.num \in Int /\ h.den \in Int
  <2>1. Plus(p, q) \in Fractions
    BY FractionsClosed
  <2> QED
    BY <2>1 DEF HalfSpread, Fractions
<1>3. EdgeAfterCost(c, u, low, high, debit, p, q) = Minus(b, Plus(h, Plus(w, g)))
  BY DEF EdgeAfterCost
<1> HIDE DEF b, g, h, w
<1>4. /\ b.num \in Int /\ b.den \in Int /\ g.num \in Int /\ g.den \in Int
      /\ w.num \in Int /\ w.den \in Int
  BY <1>1, FractionParts
<1>5. Minus(b, Plus(h, Plus(w, g))) = Minus(Minus(b, g), Plus(h, w))
  <2>1. /\ b.num * (h.den * (w.den * g.den))
              - (h.num * (w.den * g.den) + (w.num * g.den + g.num * w.den) * h.den) * b.den
              = (b.num * g.den - g.num * b.den) * (h.den * w.den)
                   - (h.num * w.den + w.num * h.den) * (b.den * g.den)
        /\ b.den * (h.den * (w.den * g.den)) = (b.den * g.den) * (h.den * w.den)
    BY <1>2, <1>4, Regroup
  <2> QED
    BY <2>1 DEF Minus, Plus
<1> QED
  BY <1>3, <1>5 DEF Net, b, g, h, w

\* With a lower debit and narrower spreads, an edge that met the threshold does.
LEMMA EdgeImproves ==
    ASSUME NEW c \in Configs, c.min_edge >= 0,
           NEW u \in Nat, u > 0, NEW low \in Nat, NEW high \in Nat,
           NEW debit \in Int, NEW lower \in Int, 0 < lower, lower <= debit,
           NEW p \in Costs, NEW q \in Costs, NEW p2 \in Fractions, NEW q2 \in Fractions,
           AtMost(p2, p), AtMost(q2, q),
           ~Less(EdgeAfterCost(c, u, low, high, debit, p, q), Whole(c.min_edge))
    PROVE  ~Less(EdgeAfterCost(c, u, low, high, lower, p2, q2), Whole(c.min_edge))
<1> DEFINE value == Value(c, u, low, high)
           n == Net(c, value, debit)
           m == Net(c, value, lower)
           r == Plus(HalfSpread(p, q), Whole(c.slippage))
           r2 == Plus(HalfSpread(p2, q2), Whole(c.slippage))
<1>1. debit > 0 /\ p \in Fractions /\ q \in Fractions /\ value \in Fractions
  BY ValueType DEF Costs
<1>2. n \in Fractions /\ m \in Fractions
  BY <1>1, NetType
<1>3. Whole(c.slippage) \in Costs /\ Whole(c.slippage) \in Fractions
      /\ c.min_edge \in Nat /\ Whole(c.min_edge) \in Fractions
  BY ConfigsAssumption DEF ConfigTypes, Whole, Costs, Fractions
<1>4. r \in Costs /\ r \in Fractions
  <2>1. HalfSpread(p, q) \in Costs
    BY HalfSpreadIsCost
  <2>2. r \in Costs
    BY <1>3, <2>1, CostsAdd
  <2> QED
    BY <2>2 DEF Costs
<1>5. HalfSpread(p2, q2) \in Fractions /\ HalfSpread(p, q) \in Fractions
  <2>1. ASSUME NEW f \in Fractions, NEW g \in Fractions PROVE HalfSpread(f, g) \in Fractions
    <3> DEFINE x == Plus(f, g)
    <3>1. x \in Fractions
      BY FractionsClosed
    <3>2. HalfSpread(f, g) = [x EXCEPT !.den = 2 * @]
      BY DEF HalfSpread
    <3> HIDE DEF x
    <3> QED
      BY <3>1, <3>2 DEF Fractions
  <2> QED
    BY <1>1, <2>1
<1>6. r2 \in Fractions /\ AtMost(r2, r)
  <2>1. AtMost(HalfSpread(p2, q2), HalfSpread(p, q))
    BY <1>1, HalfAtMost
  <2> QED
    BY <1>3, <1>5, <2>1, AtMostItself, PlusAtMost, FractionsClosed
<1>7. /\ EdgeAfterCost(c, u, low, high, debit, p, q) = Minus(n, r)
      /\ EdgeAfterCost(c, u, low, high, lower, p2, q2) = Minus(m, r2)
  BY <1>1, EdgeRegrouped
<1> HIDE DEF n, m, r, r2, value
<1>8. n.num >= 0
  BY <1>2, <1>3, <1>4, <1>7, BeforeCosts
<1>9. AtMost(n, m)
  BY <1>1, <1>8, NetImprovesDeribit, NetImprovesIb DEF n, m
<1>10. AtMost(Minus(n, r), Minus(m, r2))
  BY <1>2, <1>4, <1>6, <1>9, MinusAtMost
<1>11. AtMost(Whole(c.min_edge), Minus(n, r))
  BY <1>7 DEF AtMost
<1>12. Minus(n, r) \in Fractions /\ Minus(m, r2) \in Fractions
  BY <1>2, <1>4, <1>6, FractionsClosed
<1>13. AtMost(Whole(c.min_edge), Minus(m, r2))
  BY <1>3, <1>10, <1>11, <1>12, AtMostTrans
<1> QED
  BY <1>7, <1>13 DEF AtMost

-----------------------------------------------------------------------------
(***************************************************************************)
(* The same structure in a better market.                                  *)
(***************************************************************************)

\* A chain that has the same strikes, narrower quotes of the two chosen calls and
\* a debit that is lower, but still a debit, passes what the first one passed.
LEMMA SelectionKept ==
    ASSUME NEW c \in Configs, c.min_edge >= 0, NEW s \in Slices, NEW t,
           t.strikes = s.strikes, t.atm = s.atm, t.underlying = s.underlying,
           NEW x, x = SelectFromChain(c, s), x # NoContext, Verdict(c, x) = "passed",
           Within(t.call[x.low], s.call[x.low]), Within(t.call[x.high], s.call[x.high]),
           Uncrossed(s.call[x.low]), Uncrossed(s.call[x.high]),
           0 < NetDebit(t.call[x.low], t.call[x.high]),
           NetDebit(t.call[x.low], t.call[x.high]) <= NetDebit(s.call[x.low], s.call[x.high])
    PROVE  Verdict(c, SelectFromChain(c, t)) = "passed"
<1> DEFINE low == Nearest(s.strikes, s.atm)
           high == Nearest(s.strikes, low + c.strike_width)
           u == IF s.underlying > 0 THEN s.underlying ELSE low
           liquidity(m) == Smaller(LiquidityScore(m.call[low], 0), LiquidityScore(m.call[high], 0))
           debit(m) == NetDebit(m.call[low], m.call[high])
           edge(m) == EdgeAfterCost(c, u, low, high, debit(m),
                                    SpreadBps(m.call[low], Wide), SpreadBps(m.call[high], Wide))
           refused(m) == \/ high <= low
                         \/ m.call[low] = NoQuote \/ m.call[high] = NoQuote
                         \/ ~Liquid(c, liquidity(m))
                         \/ debit(m) <= 0
                         \/ c.venue = "IB" /\ Less(edge(m), Whole(c.min_edge))
           context(m) == [ source |-> "selector", low |-> low, high |-> high, debit |-> debit(m),
                           underlying |-> u, edge |-> edge(m), liquidity |-> liquidity(m) ]
<1>1. s.strikes # {}
  BY DEF SelectFromChain
<1>2. x = IF refused(s) THEN NoContext ELSE context(s)
  BY <1>1 DEF SelectFromChain
<1>3. SelectFromChain(c, t) = IF refused(t) THEN NoContext ELSE context(t)
  BY <1>1 DEF SelectFromChain
<1>4. low \in Nat /\ low > 0 /\ high \in Nat /\ s.underlying \in Nat
  <2>1. s.strikes \in SUBSET (Nat \ {0}) /\ s.atm \in Int /\ s.underlying \in Nat
        /\ c.strike_width \in Int
    BY ConfigsAssumption, SlicesAssumption DEF ConfigTypes
  <2>2. low \in s.strikes
    BY <1>1, <2>1, NearestIsNearest
  <2>3. low + c.strike_width \in Int
    BY <2>1, <2>2
  <2>4. high \in s.strikes
    BY <1>1, <2>1, <2>3, NearestIsNearest
  <2> QED
    BY <2>1, <2>2, <2>4
<1>5. u \in Nat /\ u > 0
  BY <1>4
<1> HIDE DEF low, high, u
<1>6. ~refused(s) /\ x = context(s) /\ x.low = low /\ x.high = high
  <2>1. ~refused(s) /\ x = context(s)
    <3> HIDE DEF refused, context
    <3> QED
      BY <1>2
  <2>2. context(s).low = low /\ context(s).high = high
    OBVIOUS
  <2> HIDE DEF refused, context
  <2> QED
    BY <2>1, <2>2
<1>7. ~Less(edge(s), Whole(c.min_edge)) /\ ~Less(liquidity(s), c.min_liquidity)
  <2>1. x.edge = edge(s) /\ x.liquidity = liquidity(s)
    BY <1>6
  <2> HIDE DEF edge, liquidity
  <2> QED
    BY <2>1 DEF Verdict
<1>8. Within(t.call[low], s.call[low]) /\ Within(t.call[high], s.call[high])
      /\ Uncrossed(s.call[low]) /\ Uncrossed(s.call[high])
  BY <1>6
<1>9. 0 < debit(t) /\ debit(t) <= debit(s) /\ debit(t) \in Int /\ debit(s) \in Int
  BY <1>6, <1>8 DEF Within, NetDebit, Prices
<1>10. ~Less(edge(t), Whole(c.min_edge))
  <2>1. /\ SpreadBps(s.call[low], Wide) \in Costs /\ SpreadBps(s.call[high], Wide) \in Costs
    BY <1>8, SpreadIsCost DEF Within
  <2>2. /\ SpreadBps(t.call[low], Wide) \in Fractions
        /\ SpreadBps(t.call[high], Wide) \in Fractions
        /\ AtMost(SpreadBps(t.call[low], Wide), SpreadBps(s.call[low], Wide))
        /\ AtMost(SpreadBps(t.call[high], Wide), SpreadBps(s.call[high], Wide))
    BY <1>8, SpreadNarrows
  <2> HIDE DEF debit
  <2> QED
    BY <1>4, <1>5, <1>7, <1>9, <2>1, <2>2, EdgeImproves
<1>11. ~Less(liquidity(t), c.min_liquidity)
  <2>1. /\ LiquidityScore(s.call[low], 0) \in Fractions
        /\ LiquidityScore(t.call[low], 0) \in Fractions
        /\ LiquidityScore(s.call[high], 0) \in Fractions
        /\ LiquidityScore(t.call[high], 0) \in Fractions
        /\ AtMost(LiquidityScore(s.call[low], 0), LiquidityScore(t.call[low], 0))
        /\ AtMost(LiquidityScore(s.call[high], 0), LiquidityScore(t.call[high], 0))
    BY <1>8, ScoreImproves
  <2>2. /\ liquidity(s) \in Fractions /\ AtMost(liquidity(s), liquidity(t))
    BY <2>1, BoundsAtMost
  <2>3. liquidity(t) \in Fractions
    BY <2>1, AtMostItself, BoundsAtMost
  <2>4. c.min_liquidity \in Fractions /\ AtMost(c.min_liquidity, liquidity(s))
    BY <1>7, ConfigsAssumption DEF ConfigTypes, AtMost
  <2> HIDE DEF liquidity
  <2>5. AtMost(c.min_liquidity, liquidity(t))
    BY <2>2, <2>3, <2>4, AtMostTrans
  <2> QED
    BY <2>5 DEF AtMost
<1>12. t.call[low] # NoQuote /\ t.call[high] # NoQuote
  BY <1>8, ScaleAssumption DEF Within
<1>13. ~refused(t)
  <2>1. ~(high <= low)
    BY <1>6
  <2>2. ~(debit(t) <= 0)
    BY <1>9
  <2>3. Liquid(c, liquidity(t))
    BY <1>11 DEF Liquid
  <2> HIDE DEF debit, edge, liquidity
  <2> QED
    BY <1>10, <1>12, <2>1, <2>2, <2>3
<1>14. SelectFromChain(c, t) = context(t)
  <2> HIDE DEF context, refused
  <2> QED
    BY <1>3, <1>13
<1>15. /\ context(t) # NoContext
       /\ context(t).edge = edge(t) /\ context(t).liquidity = liquidity(t)
  <2>1. context(t).source = "selector" /\ NoContext.source = "none"
    BY DEF NoContext
  <2> QED
    BY <2>1
<1> HIDE DEF context, edge, liquidity
<1> QED
  BY <1>10, <1>11, <1>14, <1>15 DEF Verdict


\* It is such a chain when the lower call is offered for less,
LEMMA CheaperOffer ==
    ASSUME NEW c \in Configs, c.min_edge >= 0, NEW s \in Slices,
           NEW x, x = SelectFromChain(c, s), Chosen(c, s, x), Verdict(c, x) = "passed",
           Uncrossed(s.call[x.low]), Uncrossed(s.call[x.high]),
           NEW a \in s.call[x.low].bid .. s.call[x.low].ask, a > s.call[x.high].bid
    PROVE  Verdict(c, SelectFromChain(c, [s EXCEPT !.call[x.low].ask = a])) = "passed"
<1> DEFINE t == [s EXCEPT !.call[x.low].ask = a]
           p == s.call[x.low]
           q == s.call[x.high]
<1>1. /\ x.low \in s.strikes /\ x.high \in s.strikes /\ x.low # x.high
      /\ p \in Prices /\ q \in Prices /\ x # NoContext
      /\ NetDebit(p, q) > 0
  <2>1. x.low \in Nat /\ x.high \in Nat
    BY SlicesAssumption DEF Chosen
  <2> QED
    BY <2>1 DEF Chosen, NoContext
<1>2. /\ t.strikes = s.strikes /\ t.atm = s.atm /\ t.underlying = s.underlying
      /\ t.call = [s.call EXCEPT ![x.low].ask = a]
  BY SlicesAssumption
<1>3. t.call[x.low] = [p EXCEPT !.ask = a] /\ t.call[x.high] = q
  BY <1>1, <1>2, SlicesAssumption
<1> HIDE DEF t
<1>4. /\ p.bid \in Nat /\ p.ask \in Nat /\ q.bid \in Nat /\ q.ask \in Nat
      /\ t.call[x.low] = [bid |-> p.bid, ask |-> a]
  BY <1>1, <1>3 DEF Prices
<1> HIDE DEF p, q
<1>5. p.ask > 0 /\ q.bid > 0 /\ NetDebit(p, q) = p.ask - q.bid
  BY <1>1, <1>4 DEF NetDebit
<1>6. a \in Nat /\ p.bid <= a /\ a <= p.ask /\ a > q.bid /\ a > 0
  BY <1>4, <1>5 DEF p, q
<1>7. NetDebit(t.call[x.low], t.call[x.high]) = a - q.bid
  BY <1>3, <1>4, <1>5, <1>6 DEF NetDebit
<1>8. Within(t.call[x.low], p)
  BY <1>1, <1>4, <1>5, <1>6 DEF Within, TwoSided, Prices
<1>9. Within(t.call[x.high], q)
  BY <1>1, <1>3, <1>4 DEF Within, p, q, Uncrossed
<1>10. 0 < NetDebit(t.call[x.low], t.call[x.high])
       /\ NetDebit(t.call[x.low], t.call[x.high]) <= NetDebit(p, q)
  BY <1>4, <1>5, <1>6, <1>7
<1>11. /\ Within(t.call[x.low], s.call[x.low]) /\ Within(t.call[x.high], s.call[x.high])
       /\ 0 < NetDebit(t.call[x.low], t.call[x.high])
       /\ NetDebit(t.call[x.low], t.call[x.high]) <= NetDebit(s.call[x.low], s.call[x.high])
  BY <1>8, <1>9, <1>10 DEF p, q
<1>12. t.strikes = s.strikes /\ t.atm = s.atm /\ t.underlying = s.underlying
  BY <1>2
<1>13. x # NoContext
  BY <1>1
<1>14. Verdict(c, SelectFromChain(c, t)) = "passed"
  BY <1>11, <1>12, <1>13, SelectionKept, Zenon
<1> QED
  BY <1>14 DEF t

\* or when more is bid for the higher one.
LEMMA BetterBid ==
    ASSUME NEW c \in Configs, c.min_edge >= 0, NEW s \in Slices,
           NEW x, x = SelectFromChain(c, s), Chosen(c, s, x), Verdict(c, x) = "passed",
           Uncrossed(s.call[x.low]), Uncrossed(s.call[x.high]),
           NEW b \in s.call[x.high].bid .. s.call[x.high].ask, b < s.call[x.low].ask
    PROVE  Verdict(c, SelectFromChain(c, [s EXCEPT !.call[x.high].bid = b])) = "passed"
<1> DEFINE t == [s EXCEPT !.call[x.high].bid = b]
           p == s.call[x.low]
           q == s.call[x.high]
<1>1. /\ x.low \in s.strikes /\ x.high \in s.strikes /\ x.low # x.high
      /\ p \in Prices /\ q \in Prices /\ x # NoContext
      /\ NetDebit(p, q) > 0
  <2>1. x.low \in Nat /\ x.high \in Nat
    BY SlicesAssumption DEF Chosen
  <2> QED
    BY <2>1 DEF Chosen, NoContext
<1>2. /\ t.strikes = s.strikes /\ t.atm = s.atm /\ t.underlying = s.underlying
      /\ t.call = [s.call EXCEPT ![x.high].bid = b]
  BY SlicesAssumption
<1>3. t.call[x.high] = [q EXCEPT !.bid = b] /\ t.call[x.low] = p
  BY <1>1, <1>2, SlicesAssumption
<1> HIDE DEF t
<1>4. /\ p.bid \in Nat /\ p.ask \in Nat /\ q.bid \in Nat /\ q.ask \in Nat
      /\ t.call[x.high] = [bid |-> b, ask |-> q.ask]
  BY <1>1, <1>3 DEF Prices
<1> HIDE DEF p, q
<1>5. p.ask > 0 /\ q.bid > 0 /\ NetDebit(p, q) = p.ask - q.bid
  BY <1>1, <1>4 DEF NetDebit
<1>6. b \in Nat /\ q.bid <= b /\ b <= q.ask /\ b < p.ask /\ b > 0
  BY <1>4, <1>5 DEF p, q
<1>7. NetDebit(t.call[x.low], t.call[x.high]) = p.ask - b
  BY <1>3, <1>4, <1>5, <1>6 DEF NetDebit
<1>8. Within(t.call[x.high], q)
  BY <1>1, <1>4, <1>5, <1>6 DEF Within, TwoSided, Prices
<1>9. Within(t.call[x.low], p)
  BY <1>1, <1>3, <1>4 DEF Within, p, q, Uncrossed
<1>10. 0 < NetDebit(t.call[x.low], t.call[x.high])
       /\ NetDebit(t.call[x.low], t.call[x.high]) <= NetDebit(p, q)
  BY <1>4, <1>5, <1>6, <1>7
<1>11. /\ Within(t.call[x.low], s.call[x.low]) /\ Within(t.call[x.high], s.call[x.high])
       /\ 0 < NetDebit(t.call[x.low], t.call[x.high])
       /\ NetDebit(t.call[x.low], t.call[x.high]) <= NetDebit(s.call[x.low], s.call[x.high])
  BY <1>8, <1>9, <1>10 DEF p, q
<1>12. t.strikes = s.strikes /\ t.atm = s.atm /\ t.underlying = s.underlying
  BY <1>2
<1>13. x # NoContext
  BY <1>1
<1>14. Verdict(c, SelectFromChain(c, t)) = "passed"
  BY <1>11, <1>12, <1>13, SelectionKept, Zenon
<1> QED
  BY <1>14 DEF t

-----------------------------------------------------------------------------
(***************************************************************************)
(* The signals of plumbing mode.                                           *)
(***************************************************************************)
LEMMA LargerAtLeast ==
    ASSUME NEW f, NEW g, f.num \in Int, f.den \in Int, g.num \in Int, g.den \in Int
    PROVE  ~Less(Larger(f, g), f)
<1>1. f.num * g.den \in Int /\ g.num * f.den \in Int /\ f.num * f.den \in Int
    OBVIOUS
<1>2. CASE Less(f, g)
    BY <1>1, <1>2 DEF Larger, Less
<1>3. CASE ~Less(f, g)
    BY <1>1, <1>3 DEF Larger, Less
<1> QED
    BY <1>2, <1>3

LEMMA ScoreType ==
    ASSUME NEW q \in Prices
    PROVE  LiquidityScore(q, 0).num \in Int /\ LiquidityScore(q, 0).den \in Int
<1>1. q.bid \in Int /\ q.ask \in Int /\ Bps \in Int /\ Wide \in Int
    BY ScaleAssumption DEF Prices
<1> DEFINE spread == SpreadBps(q, Wide)
           raw == [num |-> Wide * spread.den - spread.num, den |-> Wide * spread.den]
<1>2. spread.num \in Int /\ spread.den \in Int
    BY <1>1 DEF SpreadBps, Whole
<1> HIDE DEF spread
<1>3. Wide * spread.den \in Int /\ Wide * spread.den - spread.num \in Int
    BY <1>1, <1>2
<1>4. raw.num \in Int /\ raw.den \in Int
    BY <1>3
<1> HIDE DEF raw
<1>5. /\ Larger(Whole(0), Smaller(Whole(1), raw)).num \in Int
      /\ Larger(Whole(0), Smaller(Whole(1), raw)).den \in Int
    BY <1>4 DEF Larger, Smaller, Whole
<1> QED
    BY <1>5 DEF LiquidityScore, Whole, raw, spread

\* They pass the edge gate, and on a tick the liquidity gate too.
LEMMA MadeUpPasses ==
    ASSUME NEW c \in Configs
    PROVE  /\ ~Less(MadeUpEdge(c), Whole(c.min_edge))
           /\ \A q \in Prices : ~Less(PlumbingTick(c, q).liquidity, c.min_liquidity)
<1>1. /\ c.min_edge \in Int /\ PlumbingEdge \in Int
      /\ c.min_liquidity.num \in Int /\ c.min_liquidity.den \in Int
    BY ConfigsAssumption, ScaleAssumption DEF ConfigTypes, Fractions
<1>2. ~Less(MadeUpEdge(c), Whole(c.min_edge))
    <2>1. /\ Whole(c.min_edge).num \in Int /\ Whole(c.min_edge).den \in Int
          /\ Whole(PlumbingEdge).num \in Int /\ Whole(PlumbingEdge).den \in Int
        BY <1>1 DEF Whole
    <2> QED
        BY <2>1, LargerAtLeast DEF MadeUpEdge
<1>3. ASSUME NEW q \in Prices
      PROVE  ~Less(PlumbingTick(c, q).liquidity, c.min_liquidity)
    <2>1. ~Less(Larger(c.min_liquidity, LiquidityScore(q, 0)), c.min_liquidity)
        BY <1>1, ScoreType, LargerAtLeast
    <2> QED
        BY <2>1 DEF PlumbingTick
<1> QED
    BY <1>2, <1>3

-----------------------------------------------------------------------------
(***************************************************************************)
(* The invariant: what was seen is explained by the market it was seen in. *)
(***************************************************************************)
Explained(x) ==
    \/ x = NoContext
    \/ /\ seen.market \in Slices /\ ~cfg.backtest_plumbing
       /\ x = SelectFromChain(cfg, seen.market) /\ Chosen(cfg, seen.market, x)
    \/ x.source = "plumbing_chain" /\ ~Less(x.edge, Whole(cfg.min_edge))
    \/ /\ x.source = "plumbing_tick"
       /\ ~Less(x.edge, Whole(cfg.min_edge)) /\ ~Less(x.liquidity, cfg.min_liquidity)

ExplainedInv ==
    /\ cfg \in Configs
    /\ seen # Nothing => Explained(seen.context) /\ seen.verdict = Verdict(cfg, seen.context)
    /\ seen = Nothing => seen.verdict = "none"

LEMMA ChainExplained ==
    ASSUME ExplainedInv, OnOptionChain
    PROVE  ExplainedInv'
<1>1. PICK s \in Slices : Evaluate(s, ContextFromChainSlice(cfg, s))
    BY DEF OnOptionChain
<1> DEFINE x == ContextFromChainSlice(cfg, s)
<1>2. cfg' = cfg /\ cfg \in Configs
    BY <1>1 DEF Evaluate, ExplainedInv
<1>3. seen' = [market |-> s, context |-> x, verdict |-> Verdict(cfg, x)]
    BY <1>1 DEF Evaluate
<1>4. seen'.market = s /\ seen'.context = x /\ seen'.verdict = Verdict(cfg, x)
    BY <1>3
<1>5. Explained(x)'
    <2>1. CASE cfg.backtest_plumbing
        <3>1. x.source = "plumbing_chain" /\ x.edge = MadeUpEdge(cfg)
            BY <2>1 DEF ContextFromChainSlice, PlumbingSlice
        <3> QED
            BY <1>2, <1>4, <3>1, MadeUpPasses DEF Explained
    <2>2. CASE ~cfg.backtest_plumbing
        <3>1. /\ x = SelectFromChain(cfg, s)
              /\ x = NoContext \/ Chosen(cfg, s, x)
            BY <1>2, <2>2, SelectionChosen DEF ContextFromChainSlice
        <3>2. x' = x
            BY <1>2
        <3> HIDE DEF x
        <3>3. ~cfg'.backtest_plumbing /\ x' = SelectFromChain(cfg', seen'.market)
            BY <1>2, <1>4, <2>2, <3>1, <3>2
        <3>4. seen'.market \in Slices
            BY <1>4
        <3>5. x' = NoContext \/ Chosen(cfg', seen'.market, x')
            BY <1>2, <1>4, <3>1, <3>2
        <3> QED
            BY <3>3, <3>4, <3>5 DEF Explained
    <2> QED
        BY <2>1, <2>2
<1>6. seen' # Nothing'
    BY <1>3 DEF Nothing
<1> QED
    BY <1>2, <1>4, <1>5, <1>6 DEF ExplainedInv

LEMMA TickExplained ==
    ASSUME ExplainedInv, OnQuoteTick
    PROVE  ExplainedInv'
<1>1. PICK q \in Ticks : Evaluate(q, ContextFromQuoteTick(cfg, q))
    BY DEF OnQuoteTick
<1> DEFINE x == ContextFromQuoteTick(cfg, q)
<1>2. cfg' = cfg /\ cfg \in Configs /\ q \in Prices
    BY <1>1, TicksAssumption DEF Evaluate, ExplainedInv
<1>3. seen' = [market |-> q, context |-> x, verdict |-> Verdict(cfg, x)]
    BY <1>1 DEF Evaluate
<1>4. seen'.context = x /\ seen'.verdict = Verdict(cfg, x)
    BY <1>3
<1>5. Explained(x)'
    <2>1. CASE cfg.backtest_plumbing
        <3>1. /\ x = PlumbingTick(cfg, q)
              /\ x.source = "plumbing_tick" /\ x.edge = MadeUpEdge(cfg)
            BY <2>1 DEF ContextFromQuoteTick, PlumbingTick
        <3>2. x' = x
            BY <1>2
        <3>3. /\ ~Less(x.edge, Whole(cfg.min_edge))
              /\ ~Less(x.liquidity, cfg.min_liquidity)
            BY <1>2, <3>1, MadeUpPasses
        <3> HIDE DEF x
        <3> QED
            BY <1>2, <3>1, <3>2, <3>3 DEF Explained
    <2>2. CASE ~cfg.backtest_plumbing
        BY <1>2, <2>2 DEF ContextFromQuoteTick, Explained
    <2> QED
        BY <2>1, <2>2
<1>6. seen' # Nothing'
    BY <1>3 DEF Nothing
<1> QED
    BY <1>2, <1>4, <1>5, <1>6 DEF ExplainedInv

LEMMA AlwaysExplained == Spec => []ExplainedInv
<1>1. Init => ExplainedInv
    BY DEF Init, ExplainedInv, Nothing
<1>2. ExplainedInv /\ [Next]_vars => ExplainedInv'
    <2>1. ASSUME ExplainedInv, UNCHANGED vars
          PROVE  ExplainedInv'
        BY <2>1 DEF vars, ExplainedInv, Explained
    <2> QED
        BY <2>1, ChainExplained, TickExplained DEF Next
<1> QED
    BY <1>1, <1>2, PTL DEF Spec

-----------------------------------------------------------------------------
(***************************************************************************)
(* The theorems.                                                           *)
(***************************************************************************)

\* For every chain and configuration: a chosen spread is wider than nothing and
\* less than twice as wide as configured.
THEOREM SelectionInvariant == Spec => []SelectionInv
<1>1. ExplainedInv => SelectionInv
    <2>1. SUFFICES ASSUME ExplainedInv
                   PROVE  SelectionInv
        OBVIOUS
    <2>2. TypeOK
        BY <2>1 DEF ExplainedInv, TypeOK, Verdicts, Verdict
    <2>3. WidthBounded
        BY <2>1 DEF ExplainedInv, Explained, WidthBounded, Selected, Chosen, NoContext
    <2> QED
        BY <2>2, <2>3 DEF SelectionInv
<1> QED
    BY <1>1, AlwaysExplained, PTL

\* For every chain with uncrossed quotes, fee schedule and threshold that is not
\* negative: what passes the edge and liquidity gates costs at most what it pays
\* at the underlying's price, and the chain did report that price.
THEOREM EntriesPay == Spec => []PaysBelowPayoff
<1>1. ExplainedInv => PaysBelowPayoff
    <2>1. SUFFICES ASSUME ExplainedInv, Selected, seen.verdict = "passed", cfg.min_edge >= 0,
                          Uncrossed(seen.market.call[seen.context.low]),
                          Uncrossed(seen.market.call[seen.context.high])
                   PROVE  LET value == Value(cfg, seen.context.underlying,
                                             seen.context.low, seen.context.high)
                          IN  /\ seen.context.debit * value.den <= value.num
                              /\ seen.context.low < seen.market.underlying
        BY DEF PaysBelowPayoff
    <2>2. cfg \in Configs /\ seen.market \in Slices
          /\ Chosen(cfg, seen.market, seen.context)
        BY <2>1 DEF ExplainedInv, Explained, Selected, NoContext
    <2>3. ~Less(seen.context.edge, Whole(cfg.min_edge))
        BY <2>1, <2>2 DEF ExplainedInv, Selected, Verdict, Chosen, NoContext
    <2> QED
        BY <2>1, <2>2, <2>3, ChosenPays
<1> QED
    BY <1>1, AlwaysExplained, PTL

\* For every input: edge rejections come from Deribit chains only, liquidity
\* rejections from the chains of plumbing mode only.
THEOREM RejectionsKnown == Spec => []RejectedWhere
<1>1. ExplainedInv => RejectedWhere
    <2>1. SUFFICES ASSUME ExplainedInv, seen # Nothing
                   PROVE  RejectedWhere
        BY DEF ExplainedInv, RejectedWhere
    <2>2. /\ seen.verdict = "EDGE" => /\ seen.context # NoContext
                                      /\ Less(seen.context.edge, Whole(cfg.min_edge))
          /\ seen.verdict = "LIQUIDITY" => /\ seen.context # NoContext
                                           /\ Less(seen.context.liquidity, cfg.min_liquidity)
        BY <2>1 DEF ExplainedInv, Verdict
    <2>3. cfg.venue \in {"DERIBIT", "IB"}
        <3>1. cfg \in ConfigTypes
            BY <2>1, ConfigsAssumption DEF ExplainedInv
        <3> QED
            BY <3>1, Zenon DEF ConfigTypes
    <2>4. Explained(seen.context)
        BY <2>1 DEF ExplainedInv
    <2>5. seen.verdict = "EDGE" => Selected /\ cfg.venue = "DERIBIT"
        BY <2>1, <2>2, <2>3, <2>4 DEF Explained, Chosen, Selected
    <2>6. seen.verdict = "LIQUIDITY" => seen.context.source = "plumbing_chain"
        BY <2>2, <2>4 DEF Explained, Chosen
    <2> QED
        BY <2>5, <2>6 DEF RejectedWhere
<1> QED
    BY <1>1, AlwaysExplained, PTL

\* For every chain, fee schedule and threshold that is not negative: what passes
\* both gates would have passed them too with a cheaper offer of the lower call or
\* a better bid for the higher one.
THEOREM BetterPricesKeepEntries == Spec => []BetterPriceKeepsEntry
<1>1. ASSUME ExplainedInv, Selected, seen.verdict = "passed", cfg.min_edge >= 0,
             Uncrossed(seen.market.call[seen.context.low]),
             Uncrossed(seen.market.call[seen.context.high])
      PROVE  LET x == seen.context
                 s == seen.market
                 Passes(t) == Verdict(cfg, ContextFromChainSlice(cfg, t)) = "passed"
             IN  /\ \A a \in s.call[x.low].bid .. s.call[x.low].ask :
                       a > s.call[x.high].bid => Passes([s EXCEPT !.call[x.low].ask = a])
                 /\ \A b \in s.call[x.high].bid .. s.call[x.high].ask :
                       b < s.call[x.low].ask => Passes([s EXCEPT !.call[x.high].bid = b])
    <2> DEFINE x == seen.context
               s == seen.market
    <2>1. /\ cfg \in Configs /\ s \in Slices /\ ~cfg.backtest_plumbing
          /\ x = SelectFromChain(cfg, s) /\ Chosen(cfg, s, x) /\ Verdict(cfg, x) = "passed"
        BY <1>1 DEF ExplainedInv, Explained, Selected, NoContext
    <2>2. \A t : ContextFromChainSlice(cfg, t) = SelectFromChain(cfg, t)
        BY <2>1 DEF ContextFromChainSlice
    <2>3. cfg.min_edge >= 0 /\ Uncrossed(s.call[x.low]) /\ Uncrossed(s.call[x.high])
        BY <1>1
    <2> HIDE DEF x, s
    <2>4. ASSUME NEW a \in s.call[x.low].bid .. s.call[x.low].ask, a > s.call[x.high].bid
          PROVE  Verdict(cfg, SelectFromChain(cfg, [s EXCEPT !.call[x.low].ask = a])) = "passed"
        BY <2>1, <2>3, <2>4, CheaperOffer, Zenon
    <2>5. ASSUME NEW b \in s.call[x.high].bid .. s.call[x.high].ask, b < s.call[x.low].ask
          PROVE  Verdict(cfg, SelectFromChain(cfg, [s EXCEPT !.call[x.high].bid = b])) = "passed"
        BY <2>1, <2>3, <2>5, BetterBid, Zenon
    <2> QED
        BY <2>2, <2>4, <2>5, Zenon DEF x, s
<1>2. ExplainedInv => BetterPriceKeepsEntry
    BY <1>1, Zenon DEF BetterPriceKeepsEntry
<1> QED
    BY <1>2, AlwaysExplained, PTL

=============================================================================
