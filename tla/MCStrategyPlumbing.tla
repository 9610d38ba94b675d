------------------------- MODULE MCStrategyPlumbing -------------------------
(***************************************************************************)
(* Plumbing mode, with and without a selector, on the venue of the         *)
(* backtest: market orders fill in full or are refused on entry.           *)
(***************************************************************************)
EXTENDS ZeroDteStrategy

PlumbingConfigs ==
    [ selector_enabled : BOOLEAN, dry_run : {FALSE},
      backtest_plumbing : {TRUE}, hedge_perp : {FALSE}, order_qty : {2} ]
=============================================================================
