---------------------------- MODULE MCStructures ----------------------------
(***************************************************************************)
(* Chains of up to three of five strikes, so gaps and ties on either side  *)
(* of a target; calls without a quote, without a bid, tight, wide and      *)
(* crossed.  A spread of half the mid has no liquidity left.               *)
(***************************************************************************)
EXTENDS StructureSelection, FiniteSets

Q(b, a) == [bid |-> b, ask |-> a]

Half == [num |-> 1, den |-> 2]

MCConfigs ==
    [ venue : {"DERIBIT", "IB"}, backtest_plumbing : {FALSE}, strike_width : {1, 2},
      min_edge : {0, -60}, min_liquidity : {Whole(0), Half},
      ticks : {5}, slippage : {1}, rate : {1}, commission : {1}, multiplier : {2} ]
    \cup
    [ venue : {"DERIBIT"}, backtest_plumbing : {TRUE}, strike_width : {1},
      min_edge : {20}, min_liquidity : {Half},
      ticks : {6}, slippage : {0}, rate : {0}, commission : {0}, multiplier : {1} ]

Quotes == {NoQuote, Q(0, 3), Q(2, 2), Q(2, 3), Q(3, 5), Q(5, 6), Q(6, 4)}

MCSlices ==
    UNION { [atm : {2, 4}, strikes : {S}, underlying : {0, 3, 5}, call : [S -> Quotes]] :
            S \in {S \in SUBSET (1..5) : Cardinality(S) <= 3} }

MCTicks == {Q(0, 3), Q(2, 2), Q(2, 3)}
=============================================================================
