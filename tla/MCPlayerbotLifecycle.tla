------------------------ MODULE MCPlayerbotLifecycle ------------------------
(* Small instances of PlayerbotLifecycle for TLC.  Bots are numbered so that *)
(* the order of the PIDs is the order of the numbers.                        *)
EXTENDS PlayerbotLifecycle

OneKingdom == [p \in Registered |-> 1]
\* Even ids are kingdom 2's.
TwoKingdoms == [p \in Registered |-> IF p % 2 = 0 THEN 2 ELSE 1]

\* A fresh install: everybody is a newcomer.
OneTier == [p \in Registered |-> 1]
\* Id 1 is a benched veteran, the others newcomers.
VeteranFirst == [p \in Registered |-> IF p = 1 THEN 2 ELSE 1]

Nobody == [k \in 1..Kingdoms |-> 0]
OneEach == [k \in 1..Kingdoms |-> 1]
\* One dropper, in the second kingdom.
SecondOnly == [k \in 1..Kingdoms |-> IF k = 2 THEN 1 ELSE 0]

\* Everything that can go wrong with an answer, and what GMs and people do.
FaultWorlds == {{"fail", "lost", "elsewhere", "kick", "gm", "noregistry", "reboot", "hiccup"}}
\* Bans under the life schedule; the life schedule with people's parties.
ListWorlds == {{"fail", "ban", "life"}, {"fail", "life", "human"}}
\* Bots that are taken out; bots that log out.
ReturnWorlds == {{"fail", "elsewhere", "kick", "ban"}, {"fail", "life"}}
\* Nothing goes wrong.
QuietWorld == {{}}
=============================================================================
