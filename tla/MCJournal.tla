----------------------------- MODULE MCJournal -----------------------------
(***************************************************************************)
(* Two processes, one of them a node with two journals.  Four entries make *)
(* room for a torn line, an append to it, and entries before and after.    *)
(***************************************************************************)
EXTENDS JournalLog
=============================================================================
