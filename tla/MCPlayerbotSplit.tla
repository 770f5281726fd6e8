-------------------------- MODULE MCPlayerbotSplit --------------------------
(* Every budget and every registry up to the bounds of the cfg.             *)
EXTENDS PlayerbotSplit
=============================================================================
