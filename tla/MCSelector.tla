----------------------------- MODULE MCSelector -----------------------------
(***************************************************************************)
(* Three strategies, two instruments and two edges: enough for a tie, for  *)
(* a conflict on an instrument, and for a batch that exceeds top_n.        *)
(***************************************************************************)
EXTENDS SelectorActor
=============================================================================
