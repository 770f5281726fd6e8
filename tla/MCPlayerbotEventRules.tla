----------------------- MODULE MCPlayerbotEventRules -----------------------
(* Weeks of three days of three minutes, and every pair of lines there is.  *)
EXTENDS PlayerbotEventRules
=============================================================================
