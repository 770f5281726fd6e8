-------------------------- MODULE PlayerbotPresence --------------------------
(***************************************************************************)
(* What the world sees of a playerbot: out of it, asked for, in it, or on  *)
(* its way out with a descriptor that is closing.  The promise of          *)
(* CPlayerBotManager's maps (playerbot_manager.h) without the maps: a      *)
(* character comes in only after it was asked for, a registered one only,  *)
(* a closing one never goes back in, and no step moves two of them.        *)
(***************************************************************************)
CONSTANTS Pids, Registered

VARIABLE where

Init == where = [p \in Pids |-> "out"]

Move(p, from, to) ==
  /\ where[p] = from
  /\ where' = [where EXCEPT ![p] = to]

Ask(p) == p \in Registered /\ Move(p, "out", "asked")
Enter(p) == Move(p, "asked", "in")
\* Its saved map is another core's.
TurnAway(p) == Move(p, "asked", "leaving")
Leave(p) == Move(p, "in", "leaving")
Gone(p) == \E from \in {"asked", "in", "leaving"} : Move(p, from, "out")

Next == \E p \in Pids : Ask(p) \/ Enter(p) \/ TurnAway(p) \/ Leave(p) \/ Gone(p)

Spec == Init /\ [][Next]_where
=============================================================================
