-------------------------- MODULE PlayerbotSplit --------------------------
(***************************************************************************)
(* playerbot_empire_rules::SplitPopulation: one budget of bots shared out  *)
(* among the three kingdoms.  Every core runs it on its own and must come  *)
(* to the same numbers, so it has no input but the budget and the registry *)
(* and no choice in it; the loop is modelled step by step because its      *)
(* order and its end are what could be wrong.                              *)
(***************************************************************************)
EXTENDS Integers

CONSTANTS
  MaxTotal,      \* the largest budget
  MaxRegistered  \* the most identities a kingdom has

ASSUME BoundsAssumption == MaxTotal \in Nat /\ MaxRegistered \in Nat

Empires == 1..3

VARIABLES
  total, registered,  \* the arguments
  out, given,
  e, progress,        \* the for loop's kingdom; this round gave somebody one
  pc                  \* "share", "round" or "done"

vars == <<total, registered, out, given, e, progress, pc>>

Least(a, b) == IF a < b THEN a ELSE b
Sum(f) == f[1] + f[2] + f[3]
One(b) == IF b THEN 1 ELSE 0
Kingdoms == One(registered[1] > 0) + One(registered[2] > 0) + One(registered[3] > 0)

-----------------------------------------------------------------------------
\* Mutants: a kingdom takes all it can at its turn; one idle kingdom ends the
\* rounds; idle rounds go on.
TakeAll ==
  /\ pc = "round" /\ e <= 3 /\ given < total
  /\ IF out[e] >= registered[e] THEN UNCHANGED <<out, given, progress>>
     ELSE LET more == Least(registered[e] - out[e], total - given)
          IN  /\ out' = [out EXCEPT ![e] = @ + more]
              /\ given' = given + more
              /\ progress' = TRUE
  /\ e' = e + 1
  /\ UNCHANGED <<total, registered, pc>>
TakeForgettingProgress ==
  /\ pc = "round" /\ e <= 3 /\ given < total
  /\ IF out[e] >= registered[e] THEN progress' = FALSE /\ UNCHANGED <<out, given>>
     ELSE /\ out' = [out EXCEPT ![e] = @ + 1]
          /\ given' = given + 1
          /\ progress' = TRUE
  /\ e' = e + 1
  /\ UNCHANGED <<total, registered, pc>>
EndRoundKeepingProgress ==
  /\ pc = "round" /\ (e > 3 \/ given >= total)
  /\ IF given < total /\ progress THEN e' = 1 /\ UNCHANGED <<progress, pc>>
     ELSE pc' = "done" /\ UNCHANGED <<e, progress>>
  /\ UNCHANGED <<total, registered, out, given>>

\* Nothing to share, or nobody to share it with.
Nothing ==
  /\ pc = "share" /\ (total <= 0 \/ Kingdoms = 0)
  /\ pc' = "done"
  /\ UNCHANGED <<total, registered, out, given, e, progress>>

\* The equal shares, and the while loop's first test.
Share ==
  /\ pc = "share" /\ total > 0 /\ Kingdoms > 0
  /\ LET share == total \div Kingdoms
     IN  /\ out' = [f \in Empires |-> Least(share, registered[f])]
         /\ given' = Sum(out')
  /\ pc' = "round" /\ e' = 1 /\ progress' = FALSE
  /\ UNCHANGED <<total, registered>>

\* One turn of the for loop.
Take ==
  /\ pc = "round" /\ e <= 3 /\ given < total
  /\ IF out[e] >= registered[e] THEN UNCHANGED <<out, given, progress>>
     ELSE /\ out' = [out EXCEPT ![e] = @ + 1]
          /\ given' = given + 1
          /\ progress' = TRUE
  /\ e' = e + 1
  /\ UNCHANGED <<total, registered, pc>>

\* The for loop is over, and the while loop's test.
EndRound ==
  /\ pc = "round" /\ (e > 3 \/ given >= total)
  /\ IF given < total /\ progress THEN e' = 1 /\ progress' = FALSE /\ UNCHANGED pc
     ELSE pc' = "done" /\ UNCHANGED <<e, progress>>
  /\ UNCHANGED <<total, registered, out, given>>

-----------------------------------------------------------------------------
Init ==
  /\ total \in 0..MaxTotal /\ registered \in [Empires -> 0..MaxRegistered]
  /\ out = [f \in Empires |-> 0] /\ given = 0
  /\ e = 1 /\ progress = FALSE /\ pc = "share"

Next == Nothing \/ Share \/ Take \/ EndRound
Spec == Init /\ [][Next]_vars
FairSpec == Spec /\ WF_vars(Next)

-----------------------------------------------------------------------------
(* Properties.                                                             *)

\* Every variable keeps its type; the loop never reads out[0].
TypeOK ==
  /\ total \in Nat /\ registered \in [Empires -> Nat]
  /\ out \in [Empires -> Nat] /\ given \in Nat
  /\ e \in 1..4 /\ progress \in BOOLEAN /\ pc \in {"share", "round", "done"}

\* The shares add up to the budget, or to all identities there are if the
\* budget is more: no remainder of the division or of a short kingdom is lost,
\* and no bot is started twice.
BudgetIsSpent ==
  pc = "done" => /\ \A f \in Empires : out[f] <= registered[f]
                 /\ Sum(out) = Least(total, Sum(registered))

\* A kingdom is behind another by more than one bot only for want of
\* identities.
SharesAreEven ==
  pc = "done" => \A f, g \in Empires : out[f] < registered[f] => out[g] <= out[f] + 1

\* The loop ends.
Ends == <>(pc = "done")
=============================================================================
