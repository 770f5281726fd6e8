----------------------- MODULE PlayerbotSplitProofs -----------------------
(***************************************************************************)
(* SplitPopulation is right for every budget and every registry.           *)
(*                                                                         *)
(* The argument: at any turn of the loop there is a level L such that the  *)
(* kingdoms this round has been to hold L + 1 and the others L, or all the *)
(* identities they have.  Evenness is that level, seen at the end; and a   *)
(* round in which nobody got one has found every kingdom full.             *)
(***************************************************************************)
EXTENDS PlayerbotSplit, TLAPS

Level(L) ==
  \A f \in Empires :
    out[f] = IF f < e THEN Least(L + 1, registered[f]) ELSE Least(L, registered[f])

IInv ==
  /\ given = Sum(out)
  /\ given <= total
  /\ \E L \in Nat : Level(L)
  /\ pc = "share" => e = 1 /\ \A f \in Empires : out[f] = 0
  /\ pc = "round" /\ ~progress => \A f \in Empires : f < e => out[f] = registered[f]
  /\ pc = "done" => given = total \/ \A f \in Empires : out[f] = registered[f]

\* The equal shares of the seeded kingdoms do not exceed the budget.
LEMMA SharesFit ==
  ASSUME NEW t \in Nat, NEW k \in 1..3
  PROVE  t \div k \in Nat /\ k * (t \div k) <= t
<1>1. CASE k = 1
  BY <1>1, SMT
<1>2. CASE k = 2
  BY <1>2, SMT
<1>3. CASE k = 3
  BY <1>3, SMT
<1> QED
  BY <1>1, <1>2, <1>3

\* Before the first step nobody has anything, which is level 0.
LEMMA InitHolds == Init => TypeOK /\ IInv
<1> SUFFICES ASSUME Init PROVE TypeOK /\ IInv
  OBVIOUS
<1> USE BoundsAssumption DEF Init, Empires
<1>1. TypeOK
  <2>1. registered \in [Empires -> Nat] /\ total \in Nat
    OBVIOUS
  <2>2. out \in [Empires -> Nat] /\ e \in 1..4
    OBVIOUS
  <2> QED
    BY <2>1, <2>2 DEF TypeOK
<1>2. Level(0) /\ given = Sum(out) /\ given <= total
  BY DEF Level, Least, Sum
<1> QED
  BY <1>1, <1>2 DEF IInv

\* The shares: level total \div Kingdoms.
LEMMA ShareKeeps == TypeOK /\ IInv /\ Share => TypeOK' /\ IInv'
<1> SUFFICES ASSUME TypeOK, IInv, Share PROVE TypeOK' /\ IInv'
  OBVIOUS
<1>1. Kingdoms \in 1..3 /\ total \in Nat /\ registered \in [Empires -> Nat]
  <2>1. Kingdoms \in 0..3
    BY DEF Kingdoms, One
  <2> QED
    BY <2>1 DEF TypeOK, Share
<1>2. PICK share \in Nat : share = total \div Kingdoms /\ Kingdoms * share <= total
  BY <1>1, SharesFit
<1>3. out' = [f \in Empires |-> Least(share, registered[f])] /\ given' = Sum(out')
      /\ registered' = registered /\ total' = total /\ e' = 1 /\ pc' = "round" /\ progress' = FALSE
  BY <1>2 DEF Share
<1>4. TypeOK' /\ Level(share)'
  <2>1. \A f \in Empires : out'[f] \in Nat
    BY <1>1, <1>2, <1>3 DEF Least
  <2>2. out' \in [Empires -> Nat] /\ given' \in Nat
    BY <1>3, <2>1 DEF Sum, Empires
  <2>3. Level(share)'
    BY <1>3 DEF Level, Empires
  <2>4. progress' \in BOOLEAN
    BY Zenon DEF Share
  <2> QED
    BY <1>1, <1>3, <2>2, <2>3, <2>4 DEF TypeOK
<1>5. Sum(out') <= Kingdoms * share
  <2>1. ASSUME NEW f \in Empires
        PROVE  out'[f] <= (IF registered[f] > 0 THEN share ELSE 0) /\ out'[f] \in Nat
    BY <1>1, <1>2, <1>3 DEF Least
  <2>2. out'[1] + out'[2] + out'[3]
          <= (IF registered[1] > 0 THEN share ELSE 0) + (IF registered[2] > 0 THEN share ELSE 0)
             + (IF registered[3] > 0 THEN share ELSE 0)
    BY <2>1, <1>2, SMT DEF Empires
  <2> QED
    BY <2>2, <1>2 DEF Sum, Kingdoms, One
<1>6. given' <= total'
  BY <1>1, <1>2, <1>3, <1>4, <1>5 DEF TypeOK
<1>7. (\E L \in Nat : Level(L))'
  BY <1>2, <1>4
<1>8. \A f \in Empires : f < e' => out'[f] = registered'[f]
  BY <1>3 DEF Empires
<1> QED
  BY <1>3, <1>4, <1>6, <1>7, <1>8 DEF IInv

\* A turn of the loop moves one kingdom to the next level, or finds it full.
LEMMA TakeKeeps == TypeOK /\ IInv /\ Take => TypeOK' /\ IInv'
<1> SUFFICES ASSUME TypeOK, IInv, Take PROVE TypeOK' /\ IInv'
  OBVIOUS
<1> USE DEF Empires
<1>1. PICK L \in Nat : Level(L)
  BY DEF IInv
<1>2. e \in Empires /\ e' = e + 1 /\ given < total /\ pc = "round" /\ pc' = pc
      /\ total' = total /\ registered' = registered
  BY DEF Take, TypeOK
<1>3. CASE out[e] >= registered[e]
  <2>1. out' = out /\ given' = given /\ progress' = progress
    BY <1>3 DEF Take
  <2>2. TypeOK'
    BY <1>2, <2>1 DEF TypeOK
  <2>3. out[e] = registered[e] /\ Level(L)'
    BY <1>1, <1>2, <1>3, <2>1 DEF Level, Least, TypeOK
  <2>4. ~progress' => \A f \in Empires : f < e' => out'[f] = registered'[f]
    BY <1>2, <2>1, <2>3 DEF IInv
  <2> QED
    BY <1>2, <2>1, <2>2, <2>3, <2>4 DEF IInv, Sum
<1>4. CASE out[e] < registered[e]
  <2>1. out' = [out EXCEPT ![e] = @ + 1] /\ given' = given + 1 /\ progress' = TRUE
    BY <1>2, <1>4 DEF Take, TypeOK
  <2>2. TypeOK'
    BY <1>2, <2>1 DEF TypeOK
  <2>3. Level(L)'
    BY <1>1, <1>2, <1>4, <2>1 DEF Level, Least, TypeOK
  <2>4. given' = Sum(out') /\ given' <= total'
    BY <1>2, <2>1 DEF IInv, Sum, TypeOK
  <2> QED
    BY <1>2, <2>1, <2>2, <2>3, <2>4 DEF IInv
<1> QED
  BY <1>2, <1>3, <1>4 DEF TypeOK

\* A round over, everybody is at the next level; a round without progress has
\* found everybody full.
LEMMA EndRoundKeeps == TypeOK /\ IInv /\ EndRound => TypeOK' /\ IInv'
<1> SUFFICES ASSUME TypeOK, IInv, EndRound PROVE TypeOK' /\ IInv'
  OBVIOUS
<1> USE DEF Empires
<1>1. PICK L \in Nat : Level(L)
  BY DEF IInv
<1>2. out' = out /\ given' = given /\ total' = total /\ registered' = registered
      /\ pc = "round" /\ given \in Nat /\ total \in Nat
  BY DEF EndRound, TypeOK
<1>3. CASE given < total /\ progress
  <2>1. e > 3 /\ e' = 1 /\ progress' = FALSE /\ pc' = "round"
    BY <1>2, <1>3 DEF EndRound
  <2>2. TypeOK' /\ Level(L + 1)'
    <3>1. progress' \in BOOLEAN
      BY <1>3, Zenon DEF EndRound
    <3>2. e = 4
      BY <2>1 DEF TypeOK
    <3>3. TypeOK'
      BY <1>2, <2>1, <3>1 DEF TypeOK
    <3> QED
      BY <1>1, <1>2, <2>1, <3>2, <3>3 DEF Level
  <2>3. (\E K \in Nat : Level(K))'
    BY <2>2
  <2>4. \A f \in Empires : f < e' => out'[f] = registered'[f]
    BY <2>1
  <2> QED
    BY <1>2, <2>1, <2>2, <2>3, <2>4 DEF IInv, Sum
<1>4. CASE ~(given < total /\ progress)
  <2>1. pc' = "done" /\ e' = e /\ progress' = progress
    BY <1>4 DEF EndRound
  <2>2. TypeOK' /\ Level(L)'
    BY <1>1, <1>2, <2>1 DEF Level, TypeOK
  <2>3. given = total \/ \A f \in Empires : out[f] = registered[f]
    <3>1. CASE given < total
      <4>1. ~progress /\ e > 3
        BY <1>2, <1>4, <3>1 DEF EndRound, TypeOK
      <4> QED
        BY <1>2, <4>1 DEF IInv, TypeOK
    <3>2. CASE given >= total
      BY <1>2, <3>2 DEF IInv
    <3> QED
      BY <1>2, <3>1, <3>2
  <2> QED
    BY <1>2, <2>1, <2>2, <2>3 DEF IInv, Sum
<1> QED
  BY <1>3, <1>4

\* With nothing to share, or nobody, everybody's zero is the answer.
LEMMA NothingKeeps == TypeOK /\ IInv /\ Nothing => TypeOK' /\ IInv'
<1> SUFFICES ASSUME TypeOK, IInv, Nothing PROVE TypeOK' /\ IInv'
  OBVIOUS
<1> USE DEF Empires
<1>1. pc = "share" /\ pc' = "done" /\ UNCHANGED <<total, registered, out, given, e, progress>>
  BY DEF Nothing
<1>2. TypeOK'
  BY <1>1 DEF TypeOK
<1>3. given = total \/ \A f \in Empires : out[f] = registered[f]
  BY <1>1 DEF Nothing, Kingdoms, One, TypeOK, IInv, Sum
<1>4. (\E L \in Nat : Level(L))'
  BY <1>1 DEF IInv, Level
<1> QED
  BY <1>1, <1>2, <1>3, <1>4 DEF IInv, Sum

\* Both hold always, whatever the budget and the registry.
THEOREM SplitInvariance == Spec => [](TypeOK /\ IInv)
<1>1. TypeOK /\ IInv /\ [Next]_vars => (TypeOK /\ IInv)'
  <2> SUFFICES ASSUME TypeOK, IInv, [Next]_vars PROVE (TypeOK /\ IInv)'
    OBVIOUS
  <2>1. CASE UNCHANGED vars
    BY <2>1 DEF vars, TypeOK, IInv, Level, Sum, Empires
  <2> QED
    BY <2>1, NothingKeeps, ShareKeeps, TakeKeeps, EndRoundKeeps DEF Next
<1> QED
  BY InitHolds, <1>1, PTL DEF Spec

\* Every share and every weight is a number of its kingdom, at every moment.
THEOREM TypeCorrect == Spec => []TypeOK
  BY SplitInvariance, PTL

\* For every budget and every registry the shares add up to the budget, or to
\* all there are: SplitPopulation loses no remainder and invents no bot.
THEOREM NothingIsLost == Spec => []BudgetIsSpent
<1>1. TypeOK /\ IInv => BudgetIsSpent
  <2> SUFFICES ASSUME TypeOK, IInv, pc = "done"
               PROVE  /\ \A f \in Empires : out[f] <= registered[f]
                      /\ Sum(out) = Least(total, Sum(registered))
    BY DEF BudgetIsSpent
  <2>1. \A f \in Empires : out[f] <= registered[f] /\ out[f] \in Nat /\ registered[f] \in Nat
    BY DEF IInv, Level, Least, TypeOK, Empires
  <2>2. Sum(out) <= Sum(registered) /\ total \in Nat /\ Sum(out) \in Nat /\ Sum(registered) \in Nat
    BY <2>1 DEF Sum, Empires, TypeOK
  <2>3. (\A f \in Empires : out[f] = registered[f]) => Sum(out) = Sum(registered)
    BY DEF Sum, Empires
  <2> QED
    BY <2>1, <2>2, <2>3 DEF IInv, Least
<1> QED
  BY SplitInvariance, <1>1, PTL

\* For every budget and every registry the shares are even.
THEOREM NobodyIsBehind == Spec => []SharesAreEven
<1>1. TypeOK /\ IInv => SharesAreEven
  BY DEF IInv, Level, Least, TypeOK, Empires, SharesAreEven
<1> QED
  BY SplitInvariance, <1>1, PTL
=============================================================================
