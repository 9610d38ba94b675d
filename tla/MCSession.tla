----------------------------- MODULE MCSession -----------------------------
(***************************************************************************)
(* A day of seven minutes of three ticks, with the close in the fifth and  *)
(* a blackout of two.  Quote age, skew and approval fill the truncated     *)
(* minute to the tick, so that the bounds are met exactly.                 *)
(***************************************************************************)
EXTENDS SessionClock
=============================================================================
