------------------------------ MODULE MCRegime ------------------------------
(***************************************************************************)
(* Two skeletons and prices around a unit of 10 grid steps: with Pin = 1   *)
(* percent, half a unit is more than Pin below 500.                        *)
(***************************************************************************)
EXTENDS RegimeFeed
=============================================================================
