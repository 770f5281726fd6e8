----------------------- MODULE MCPlayerbotRateEvents -----------------------
(***************************************************************************)
(* Small instances of PlayerbotRateEvents for TLC: events of no percent,   *)
(* of fifty and of a hundred, over rates of which one is a flag never set. *)
(***************************************************************************)
EXTENDS PlayerbotRateEvents

\* A leader that dies and misses ends, with an operator beside the events;
\* and the same with windows that change their figure.
MCEnvs == {{"crash", "down", "operator"}, {"crash", "down", "operator", "rebase"}}

\* Windows that change their figure, and nothing else.
MCRebased == {{"rebase"}}
=============================================================================
