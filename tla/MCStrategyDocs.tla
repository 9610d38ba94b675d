--------------------------- MODULE MCStrategyDocs ---------------------------
(***************************************************************************)
(* The strategy on friendly venues, each just unfriendly enough to separate *)
(* a statement of the documentation from what the code does.               *)
(***************************************************************************)
EXTENDS ZeroDteStrategy

Live == [ selector_enabled |-> FALSE, dry_run |-> FALSE,
          backtest_plumbing |-> FALSE, hedge_perp |-> FALSE, order_qty |-> 1 ]

LiveAlone == { Live }
Plumbing  == { [Live EXCEPT !.backtest_plumbing = TRUE] }
=============================================================================
