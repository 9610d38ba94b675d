-------------------------- MODULE MCStrategyFaults --------------------------
(***************************************************************************)
(* The strategy against an unrestricted environment: every fault, every    *)
(* order of ticks, verdicts, blackouts and order events.                   *)
(***************************************************************************)
EXTENDS ZeroDteStrategy

Live == [ selector_enabled |-> FALSE, dry_run |-> FALSE,
          backtest_plumbing |-> FALSE, hedge_perp |-> FALSE, order_qty |-> 1 ]

\* On its own and hedged, in single lots; on its own in two lots that may fill
\* one by one; behind a selector; and a dry run, which must not trade.
LiveConfigs ==
    { [Live EXCEPT !.hedge_perp = TRUE],
      [Live EXCEPT !.order_qty = 2],
      [Live EXCEPT !.selector_enabled = TRUE],
      [Live EXCEPT !.selector_enabled = TRUE, !.dry_run = TRUE] }
=============================================================================
