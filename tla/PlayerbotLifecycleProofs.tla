---------------------- MODULE PlayerbotLifecycleProofs ----------------------
(***************************************************************************)
(* Theorems about CPlayerBotManager's maps, for any number of bots,        *)
(* kingdoms and descriptors and any mixture of the environment's moves.    *)
(*                                                                         *)
(* All of them rest on Wiring, the inductive strengthening of HandlesAgree *)
(* and OwnCharacter: what a request in flight may assume about its         *)
(* descriptor.  The loops, timers and lists only decide when a bot is      *)
(* spawned or dropped, so the steps are first reduced to WorldStep, the    *)
(* six things a step can do to the maps (NextIsWorldStep).  The second     *)
(* half is about the lists: who may be asked for, and how many.            *)
(***************************************************************************)
EXTENDS PlayerbotLifecycle, FiniteSetTheorems, TLAPS

\* What the bots, the descriptors and the requests in flight are to each other.
Wiring ==
  /\ HandlesAgree
  /\ \A h \in Handles : char[h] # None => char[h] = handles[h]
  /\ \A h \in Handles : char[h] # None <=> phase[h] \in {"game", "close"}
  /\ \A h \in Handles, p \in Pids :
       <<h, p>> \in loads /\ phase[h] # "none" => handles[h] = p /\ phase[h] = "login"

\* The types of the variables Wiring speaks of.
WorldType ==
  /\ registry \in {"unread", "ok", "refused"}
  /\ bots \in [Pids -> Handles \cup {None}]
  /\ handles \in [Handles -> Pids \cup {None}]
  /\ phase \in [Handles -> {"none", "login", "game", "close"}]
  /\ char \in [Handles -> Pids \cup {None}]
  /\ loads \in SUBSET (Handles \X Pids)

IInv == WorldType /\ Wiring /\ OnlyRegistered

\* A spawn, a descriptor going, a character coming, and the two ways a
\* descriptor starts to close.
Spawns == \E p \in Pids, e \in Nat : MaySpawn(p, e) /\ Request(p) /\ UNCHANGED registry

Goes ==
  \E h \in Handles :
    /\ handles[h] # None /\ Drop(h, handles[h])
    /\ \/ UNCHANGED loads
       \/ \E p \in Pids : <<h, p>> \in loads /\ loads' = loads \ {<<h, p>>}
    /\ UNCHANGED registry

Comes(ph) ==
  \E h \in Handles, p \in Pids :
    /\ <<h, p>> \in loads /\ phase[h] # "none" /\ char[h] = None
    /\ loads' = loads \ {<<h, p>>}
    /\ char' = [char EXCEPT ![h] = p]
    /\ phase' = [phase EXCEPT ![h] = ph]
    /\ UNCHANGED <<registry, bots, handles>>

Closes ==
  \E p \in Pids :
    /\ InGame(p)
    /\ phase' = [phase EXCEPT ![bots[p]] = "close"]
    /\ UNCHANGED <<registry, bots, handles, char, loads>>

Forgets == loads' \in SUBSET loads /\ UNCHANGED <<registry, bots, handles, phase, char>>

Boots == Managed = {} /\ registry' \in {"unread", "ok", "refused"} /\ UNCHANGED world

WorldStep == Spawns \/ Goes \/ Comes("game") \/ Comes("close") \/ Closes \/ Forgets \/ Boots

-----------------------------------------------------------------------------
\* Handle 0 and pid 0 name nothing.
LEMMA NoneIsNothing == None \notin Handles /\ None \notin Pids
  BY PidsAssumption, HandlesAssumption DEF None

\* A despawn is a descriptor going.
LEMMA DespawnGoes ==
  ASSUME IInv, NEW p \in Pids, Despawn(p), UNCHANGED registry
  PROVE  Goes
  <1>1. bots[p] \in Handles /\ handles[bots[p]] = p
    BY NoneIsNothing DEF IInv, WorldType, Wiring, HandlesAgree, Despawn
  <1>2. Drop(bots[p], handles[bots[p]]) /\ UNCHANGED loads
    BY <1>1 DEF Despawn
  <1>3. handles[bots[p]] # None
    BY <1>1, NoneIsNothing
  <1> QED BY <1>1, <1>2, <1>3 DEF Goes

\* A call of Spawn spawns or does nothing.
LEMMA SpawnSpawns ==
  ASSUME NEW p \in Pids, NEW e \in Nat, Spawn(p, e), UNCHANGED registry
  PROVE  Spawns \/ Forgets
  BY DEF Spawn, Spawns, Forgets, world

\* Every step of the core does one of the six things to the maps.
LEMMA NextIsWorldStep ==
  ASSUME TypeOK, IInv, [Next]_vars
  PROVE  WorldStep
  <1>a. UNCHANGED <<registry, world>> => WorldStep
    BY DEF WorldStep, Forgets, world
  <1>b. Registered \subseteq Pids /\ Kingdoms \in Nat
    BY RegisteredAssumption, KingdomAssumption
  <1>c. pending \in Seq(Registered) /\ lateDue \subseteq Pids /\ scan \subseteq Pids
        /\ leaving \subseteq Pids
    BY <1>b DEF TypeOK
  <1>1. CASE Boot
    BY <1>1 DEF Boot, LoadRegisteredBots, WorldStep, Boots, IInv, WorldType
  <1>2. CASE Handler
    <2>1. CASE SkipKingdom
      BY <2>1, <1>a DEF SkipKingdom
    <2>2. CASE SpawnMedalDropperCohort
      BY <2>2, <1>a DEF SpawnMedalDropperCohort
    <2>3. CASE SpawnRegistered
      BY <2>3, <1>a DEF SpawnRegistered
    <2>4. CASE ScheduleLateJoiners
      BY <2>4, <1>a DEF ScheduleLateJoiners
    <2>5. CASE BatchEnter
      BY <2>5, <1>a DEF BatchEnter
    <2>6. CASE BatchPop
      <3>1. Head(pending) \in Pids
        BY <2>6, <1>b, <1>c DEF BatchPop
      <3>2. UNCHANGED registry /\ (UNCHANGED world \/ Spawn(Head(pending), 0))
        BY <2>6 DEF BatchPop
      <3> QED BY <3>1, <3>2, <1>a, SpawnSpawns DEF WorldStep
    <2>7. CASE BatchDone
      BY <2>7, <1>a DEF BatchDone
    <2>8. CASE SpawnLateJoiners
      <3>1. UNCHANGED registry
        BY <2>8 DEF SpawnLateJoiners
      <3>2. UNCHANGED world \/ \E p \in lateDue : Spawn(p, 0)
        BY <2>8 DEF SpawnLateJoiners
      <3> QED BY <3>1, <3>2, <1>c, <1>a, SpawnSpawns DEF WorldStep
    <2>9. CASE RefreshBannedBots
      BY <2>9, <1>a DEF RefreshBannedBots
    <2>10. CASE EvictBanned
      <3>1. UNCHANGED registry
        BY <2>10 DEF EvictBanned
      <3>2. UNCHANGED world \/ \E p \in Pids : Despawn(p)
        BY <2>10, <1>c DEF EvictBanned
      <3> QED BY <3>1, <3>2, <1>a, DespawnGoes DEF WorldStep
    <2>11. CASE ManageLifeSchedule
      BY <2>11, <1>a DEF ManageLifeSchedule
    <2>12. CASE LifeSessions
      BY <2>12, <1>a DEF LifeSessions
    <2>13. CASE LifeLeave
      <3>1. UNCHANGED registry
        BY <2>13 DEF LifeLeave
      <3>2. UNCHANGED world \/ \E p \in Pids : Despawn(p)
        BY <2>13, <1>c DEF LifeLeave
      <3> QED BY <3>1, <3>2, <1>a, DespawnGoes DEF WorldStep
    <2>14. CASE LifeRests
      BY <2>14, <1>a DEF LifeRests
    <2>15. CASE TopUpMissingBots
      BY <2>15, <1>a DEF TopUpMissingBots
    <2>16. CASE CountMissing
      BY <2>16, <1>a DEF CountMissing
    <2> QED BY <1>2, <2>1, <2>2, <2>3, <2>4, <2>5, <2>6, <2>7, <2>8, <2>9, <2>10, <2>11,
               <2>12, <2>13, <2>14, <2>15, <2>16 DEF Handler
  <1>3. CASE Update
    BY <1>3, <1>a DEF Update
  <1>4. CASE \E h \in Handles, p \in Pids : Answer(h, p)
    <2> PICK h \in Handles, p \in Pids : Answer(h, p)
      BY <1>4
    <2>1. CASE Loaded(h, p)
      BY <2>1 DEF Loaded, WorldStep, Comes, Forgets
    <2>2. CASE LoadedElsewhere(h, p)
      BY <2>2 DEF LoadedElsewhere, WorldStep, Comes
    <2>3. CASE LoadFailed(h, p)
      BY <2>3 DEF LoadFailed, WorldStep, Goes, Forgets
    <2>4. CASE StaleAnswer(h, p)
      BY <2>4 DEF StaleAnswer, WorldStep, Forgets
    <2>5. CASE NoAnswer(h, p)
      BY <2>5 DEF NoAnswer, WorldStep, Forgets
    <2> QED BY <2>1, <2>2, <2>3, <2>4, <2>5 DEF Answer
  <1>5. CASE \E h \in Handles : DestroyClosed(h)
    BY <1>5 DEF DestroyClosed, WorldStep, Goes, IInv, WorldType, Wiring, HandlesAgree
  <1>6. CASE \E p \in Pids : Kick(p) \/ GmDespawn(p) \/ GmBan(p) \/ HumanParty(p)
    <2> PICK p \in Pids : Kick(p) \/ GmDespawn(p) \/ GmBan(p) \/ HumanParty(p)
      BY <1>6
    <2>1. CASE Kick(p)
      BY <2>1 DEF Kick, WorldStep, Closes
    <2>2. CASE GmDespawn(p)
      BY <2>2, DespawnGoes DEF GmDespawn, WorldStep
    <2>3. CASE GmBan(p) \/ HumanParty(p)
      BY <2>3, <1>a DEF GmBan, HumanParty
    <2> QED BY <2>1, <2>2, <2>3
  <1>7. CASE \E p \in Pids, e \in 1..Kingdoms : GmSpawn(p, e)
    BY <1>7, <1>b, SpawnSpawns DEF GmSpawn, WorldStep
  <1>8. CASE \E p \in Pids : SessionOver(p) \/ RestOver(p) \/ LateDue(p)
    BY <1>8, <1>a DEF SessionOver, RestOver, LateDue
  <1>9. CASE SwitchLife
    BY <1>9, <1>a DEF SwitchLife
  <1>10. CASE UNCHANGED vars
    BY <1>10, <1>a DEF vars
  <1> QED BY <1>1, <1>2, <1>3, <1>4, <1>5, <1>6, <1>7, <1>8, <1>9, <1>10 DEF Next

-----------------------------------------------------------------------------
(* The six things preserve the wiring.                                     *)

\* A fresh descriptor: nothing live and no request in flight has its handle.
LEMMA SpawnsKeepWiring == IInv /\ Spawns => IInv'
  <1> SUFFICES ASSUME IInv, Spawns PROVE IInv'
    OBVIOUS
  <1> PICK p \in Pids, e \in Nat : MaySpawn(p, e) /\ Request(p) /\ UNCHANGED registry
    BY DEF Spawns
  <1> PICK h \in Handles :
        /\ h \in Unused
        /\ bots' = [bots EXCEPT ![p] = h]
        /\ handles' = [handles EXCEPT ![h] = p]
        /\ phase' = [phase EXCEPT ![h] = "login"]
        /\ loads' = loads \cup {<<h, p>>}
        /\ UNCHANGED char
    BY DEF Request, Least
  <1>1. WorldType'
    BY DEF IInv, WorldType
  <1>2. phase[h] = "none" /\ handles[h] = None /\ char[h] = None
    BY DEF Unused, IInv, WorldType, Wiring, HandlesAgree
  <1>3. \A m \in loads : m[1] # h
    BY DEF Unused
  <1>4. HandlesAgree'
    BY <1>2, NoneIsNothing DEF IInv, WorldType, Wiring, HandlesAgree, MaySpawn
  <1>5. \A g \in Handles : /\ char'[g] # None => char'[g] = handles'[g]
                           /\ char'[g] # None <=> phase'[g] \in {"game", "close"}
    BY <1>2 DEF IInv, WorldType, Wiring
  <1>6. ASSUME NEW g \in Handles, NEW q \in Pids, <<g, q>> \in loads', phase'[g] # "none"
        PROVE  handles'[g] = q /\ phase'[g] = "login"
    BY <1>3, <1>6 DEF IInv, WorldType, Wiring
  <1>7. OnlyRegistered'
    BY DEF IInv, WorldType, OnlyRegistered, MaySpawn
  <1> QED BY <1>1, <1>4, <1>5, <1>6, <1>7 DEF IInv, Wiring

\* Drop takes the descriptor out of every map it is in.
LEMMA GoesKeepsWiring == IInv /\ Goes => IInv'
  <1> SUFFICES ASSUME IInv, Goes PROVE IInv'
    OBVIOUS
  <1> PICK h \in Handles : /\ handles[h] # None /\ Drop(h, handles[h])
                           /\ loads' \in SUBSET loads /\ UNCHANGED registry
    BY DEF Goes
  <1>1. handles[h] \in Pids /\ bots[handles[h]] = h
    BY DEF IInv, WorldType, Wiring, HandlesAgree
  <1>2. WorldType'
    BY <1>1 DEF IInv, WorldType, Drop
  <1>3. HandlesAgree'
    BY <1>1, NoneIsNothing DEF IInv, WorldType, Wiring, HandlesAgree, Drop
  <1>4. \A g \in Handles : /\ char'[g] # None => char'[g] = handles'[g]
                           /\ char'[g] # None <=> phase'[g] \in {"game", "close"}
    BY DEF IInv, WorldType, Wiring, Drop
  <1>5. \A g \in Handles, q \in Pids :
          <<g, q>> \in loads' /\ phase'[g] # "none" => handles'[g] = q /\ phase'[g] = "login"
    BY DEF IInv, WorldType, Wiring, Drop
  <1>6. OnlyRegistered'
    BY DEF IInv, WorldType, OnlyRegistered, Drop
  <1> QED BY <1>2, <1>3, <1>4, <1>5, <1>6 DEF IInv, Wiring

\* The answer's character is the one the descriptor was created for.
LEMMA ComesKeepsWiring ==
  ASSUME IInv, NEW ph \in {"game", "close"}, Comes(ph)
  PROVE  IInv'
  <1> PICK h \in Handles, p \in Pids :
        /\ <<h, p>> \in loads /\ phase[h] # "none" /\ char[h] = None
        /\ loads' = loads \ {<<h, p>>}
        /\ char' = [char EXCEPT ![h] = p]
        /\ phase' = [phase EXCEPT ![h] = ph]
        /\ UNCHANGED <<registry, bots, handles>>
    BY DEF Comes
  <1>1. handles[h] = p /\ p # None
    BY NoneIsNothing DEF IInv, Wiring
  <1>2. WorldType'
    BY DEF IInv, WorldType
  <1>3. HandlesAgree'
    BY <1>1 DEF IInv, WorldType, Wiring, HandlesAgree
  <1>4. \A g \in Handles : /\ char'[g] # None => char'[g] = handles'[g]
                           /\ char'[g] # None <=> phase'[g] \in {"game", "close"}
    BY <1>1 DEF IInv, WorldType, Wiring
  <1>5. ASSUME NEW g \in Handles, NEW q \in Pids, <<g, q>> \in loads', phase'[g] # "none"
        PROVE  handles'[g] = q /\ phase'[g] = "login"
    <2>1. <<g, q>> \in loads /\ phase[g] # "none"
      BY <1>5 DEF IInv, WorldType
    <2>2. handles[g] = q /\ phase[g] = "login"
      BY <2>1 DEF IInv, Wiring
    <2>3. g # h
      BY <1>1, <1>5, <2>2
    <2> QED BY <2>2, <2>3 DEF IInv, WorldType
  <1>6. OnlyRegistered'
    BY DEF IInv, OnlyRegistered
  <1> QED BY <1>2, <1>3, <1>4, <1>5, <1>6 DEF IInv, Wiring

\* A kicked descriptor keeps its character until it is destroyed.
LEMMA ClosesKeepsWiring == IInv /\ Closes => IInv'
  <1> SUFFICES ASSUME IInv, Closes PROVE IInv'
    OBVIOUS
  <1> PICK p \in Pids : /\ InGame(p)
                        /\ phase' = [phase EXCEPT ![bots[p]] = "close"]
                        /\ UNCHANGED <<registry, bots, handles, char, loads>>
    BY DEF Closes
  <1>1. bots[p] \in Handles /\ phase[bots[p]] = "game"
    BY DEF InGame, IInv, WorldType
  <1>2. WorldType'
    BY <1>1 DEF IInv, WorldType
  <1>3. HandlesAgree' /\ OnlyRegistered'
    BY <1>1 DEF IInv, WorldType, Wiring, HandlesAgree, OnlyRegistered
  <1>4. \A h \in Handles : char'[h] # None <=> phase'[h] \in {"game", "close"}
    BY <1>1 DEF IInv, WorldType, Wiring
  <1>5. \A h \in Handles, q \in Pids :
          <<h, q>> \in loads' /\ phase'[h] # "none" => handles'[h] = q /\ phase'[h] = "login"
    BY <1>1 DEF IInv, WorldType, Wiring
  <1> QED BY <1>2, <1>3, <1>4, <1>5 DEF IInv, Wiring

LEMMA WorldStepKeepsWiring == IInv /\ WorldStep => IInv'
  <1> SUFFICES ASSUME IInv, WorldStep PROVE IInv'
    OBVIOUS
  <1>1. CASE Forgets
    BY <1>1 DEF Forgets, IInv, WorldType, Wiring, HandlesAgree, OnlyRegistered
  <1>2. CASE Boots
    <2>1. \A h \in Handles : handles[h] = None
      BY <1>2, NoneIsNothing DEF Boots, Managed, IInv, WorldType, Wiring, HandlesAgree
    <2> QED BY <1>2, <2>1 DEF Boots, world, IInv, WorldType, Wiring, HandlesAgree, OnlyRegistered
  <1> QED BY <1>1, <1>2, SpawnsKeepWiring, GoesKeepsWiring, ComesKeepsWiring, ClosesKeepsWiring
          DEF WorldStep

\* Nothing is wired before the first bootstrap.
LEMMA InitWiring == Init => IInv
  BY NoneIsNothing DEF Init, IInv, WorldType, Wiring, HandlesAgree, OnlyRegistered

-----------------------------------------------------------------------------
(* Types.  WorldType follows from WorldStep; what is left is the queue, the *)
(* timers, the lists and where the running handler stands.                 *)

ListType ==
  /\ env \in Envs
  /\ scheduled \in SUBSET Registered /\ pending \in Seq(Registered)
  /\ late \in SUBSET Registered /\ lateDue \in SUBSET late /\ batchSize \in Nat
  /\ batchIn \in Nat /\ topUpIn \in Nat /\ banIn \in Nat /\ lifeIn \in Nat
  /\ updateOn \in BOOLEAN /\ lifeOn \in BOOLEAN
  /\ blocked \in SUBSET Pids /\ banned \in SUBSET Registered
  /\ session \in [Pids -> {"none", "running", "over"}]
  /\ rest \in [Pids -> {"none", "running", "over"}]
  /\ returning \in SUBSET Pids /\ humanLed \in SUBSET Pids
  /\ pc \in Places /\ ret \in {"idle", "cohort", "joiners", "late"}
  /\ scan \in SUBSET Pids /\ leaving \in SUBSET Pids
  /\ pc = "missing" => scan \subseteq Registered
  /\ count \in Nat /\ kingdom \in 1..Kingdoms

LEMMA TypeSplit == TypeOK <=> WorldType /\ ListType
  BY DEF TypeOK, WorldType, ListType

\* The batch a cohort is cut into is a number of bots, whatever its size.
LEMMA BatchForType == \A n \in Nat : BatchFor(n) \in Nat
  <1> SUFFICES ASSUME NEW n \in Nat PROVE BatchFor(n) \in Nat
    OBVIOUS
  <1>1. Batches \in Nat /\ Batches > 0
    BY TimerAssumption
  <1>2. CeilDiv(n, Batches) \in Nat
    BY <1>1 DEF CeilDiv
  <1> QED BY <1>2 DEF BatchFor

\* The registry, and with it the cohort, is finite.
LEMMA CohortIsFinite == \A S \in SUBSET Registered : Cardinality(S) \in Nat
  <1> SUFFICES ASSUME NEW S \in SUBSET Registered PROVE Cardinality(S) \in Nat
    OBVIOUS
  <1>1. IsFiniteSet(S)
    BY PidsAssumption, RegisteredAssumption, FS_Subset
  <1> QED BY <1>1, FS_CardinalityType

LEMMA EnqueueKeepsListType ==
  ASSUME ListType, NEW p \in Candidates, Enqueue(p),
         UNCHANGED <<env, timers, updateOn, bans, life, scan, leaving>>
  PROVE  ListType'
  <1>1. pending' \in Seq(Registered) /\ scheduled' \in SUBSET Registered
    BY DEF ListType, Candidates, Enqueue
  <1>2. count' \in Nat
    BY DEF ListType, Enqueue
  <1> QED BY <1>1, <1>2 DEF ListType, Enqueue, timers, bans, life

LEMMA HandlerKeepsListType ==
  ASSUME WorldType, ListType, Handler
  PROVE  ListType'
  <1>a. /\ Registered \subseteq Pids /\ Kingdoms \in Nat /\ Kingdoms > 0
        /\ Second \in Nat /\ Minute \in Nat
    BY RegisteredAssumption, KingdomAssumption, TimerAssumption
  <1>b. BatchFor(Cardinality(scheduled)) \in Nat
    BY BatchForType, CohortIsFinite DEF ListType
  <1> USE <1>a DEF ListType, Places, queue, timers, bans, life, loop
  <1>1. CASE SkipKingdom
    BY <1>1 DEF SkipKingdom, ToNextKingdom, Goto
  <1>2. CASE SpawnMedalDropperCohort
    <2>1. ASSUME NEW p \in Candidates, Enqueue(p) PROVE ListType'
      BY <1>2, <2>1, EnqueueKeepsListType DEF SpawnMedalDropperCohort
    <2>2. CASE SizeBatchesThen("cohort")
      BY <1>2, <1>b, <2>2 DEF SpawnMedalDropperCohort, SizeBatchesThen, Call, Goto
    <2>3. CASE Goto("cohort") /\ UNCHANGED <<queue, batchIn, count, kingdom, ret>>
      BY <1>2, <2>3 DEF SpawnMedalDropperCohort, Goto
    <2> QED BY <1>2, <2>1, <2>2, <2>3 DEF SpawnMedalDropperCohort
  <1>3. CASE SpawnRegistered
    <2>1. ASSUME NEW p \in Candidates, Enqueue(p) PROVE ListType'
      BY <1>3, <2>1, EnqueueKeepsListType DEF SpawnRegistered
    <2>2. CASE SizeBatchesThen("joiners")
      BY <1>3, <1>b, <2>2 DEF SpawnRegistered, SizeBatchesThen, Call, Goto
    <2>3. CASE ToNextKingdom /\ UNCHANGED <<queue, batchIn>>
      BY <1>3, <2>3 DEF SpawnRegistered, ToNextKingdom, Goto
    <2> QED BY <1>3, <2>1, <2>2, <2>3 DEF SpawnRegistered
  <1>4. CASE ScheduleLateJoiners
    <2>1. CASE ToNextKingdom /\ UNCHANGED late
      BY <1>4, <2>1 DEF ScheduleLateJoiners, ToNextKingdom, Goto
    <2>2. ASSUME NEW p \in Candidates, late' = late \cup {p}, count' = count + 1,
                 UNCHANGED <<pc, ret, kingdom>>
          PROVE  ListType'
      BY <1>4, <2>2 DEF ScheduleLateJoiners, Candidates
    <2> QED BY <1>4, <2>1, <2>2 DEF ScheduleLateJoiners
  <1>5. CASE BatchEnter
    BY <1>5 DEF BatchEnter, Goto
  <1>6. CASE BatchPop
    BY <1>6 DEF BatchPop
  <1>7. CASE BatchDone
    BY <1>7 DEF BatchDone, Goto
  <1>8. CASE SpawnLateJoiners
    BY <1>8 DEF SpawnLateJoiners, Goto
  <1>9. CASE RefreshBannedBots
    BY <1>9 DEF RefreshBannedBots, Goto
  <1>10. CASE EvictBanned
    BY <1>10 DEF EvictBanned, Goto
  <1>11. CASE ManageLifeSchedule
    BY <1>11 DEF ManageLifeSchedule, Managed, Goto
  <1>12. CASE LifeSessions
    BY <1>12 DEF LifeSessions, Goto
  <1>13. CASE LifeLeave
    BY <1>13 DEF LifeLeave, Goto
  <1>14. CASE LifeRests
    BY <1>14 DEF LifeRests, Goto
  <1>15. CASE TopUpMissingBots
    BY <1>15 DEF TopUpMissingBots, Goto
  <1>16. CASE CountMissing
    <2>1. ASSUME NEW p \in scan, scan' = scan \ {p}, UNCHANGED <<pc, ret, batchIn, batchSize>>,
                 pending' = pending \/ pending' = Append(pending, p)
          PROVE  ListType'
      BY <1>16, <2>1 DEF CountMissing
    <2>2. CASE UNCHANGED <<scan, pending>>
      BY <1>16, <2>2 DEF CountMissing, Call, Goto
    <2> QED BY <1>16, <2>1, <2>2 DEF CountMissing
  <1> QED BY <1>1, <1>2, <1>3, <1>4, <1>5, <1>6, <1>7, <1>8, <1>9, <1>10, <1>11, <1>12, <1>13, <1>14, <1>15, <1>16 DEF Handler

\* Outside a handler only the clock, the GMs and the answers move, and Update
\* counts its timers down no further than zero.
LEMMA NextKeepsListType ==
  ASSUME WorldType, ListType, [Next]_vars
  PROVE  ListType'
  <1>a. Kingdoms \in Nat /\ Kingdoms > 0
    BY KingdomAssumption
  <1>1. CASE Boot
    BY <1>1, <1>a DEF Boot, LoadRegisteredBots, ListType, Places, Goto, queue, timers, bans, life
  <1>2. CASE Handler
    BY <1>2, HandlerKeepsListType
  <1>3. CASE Update
    BY <1>3 DEF Update, Less, Call, ListType, Places, queue, bans, life, loop
  <1>4. CASE \E h \in Handles, p \in Pids : Answer(h, p)
    <2> PICK h \in Handles, p \in Pids : Answer(h, p)
      BY <1>4
    <2>1. /\ updateOn' \in BOOLEAN
          /\ UNCHANGED <<env, queue, batchIn, timers, bans, life, pc, ret, loop>>
      BY DEF Answer, Loaded, LoadedElsewhere, LoadFailed, StaleAnswer, NoAnswer, ListType
    <2> QED BY <2>1 DEF ListType, queue, timers, bans, life, loop
  <1>5. CASE \E h \in Handles : DestroyClosed(h)
    BY <1>5 DEF DestroyClosed, ListType, queue, timers, bans, life, loop
  <1>6. CASE \E p \in Pids : Kick(p) \/ GmDespawn(p) \/ GmBan(p) \/ HumanParty(p)
    BY <1>6 DEF Kick, GmDespawn, GmBan, HumanParty, ListType, queue, timers, bans, life, loop
  <1>7. CASE \E p \in Pids, e \in 1..Kingdoms : GmSpawn(p, e)
    BY <1>7 DEF GmSpawn, ListType, queue, timers, bans, life, loop
  <1>8. CASE \E p \in Pids : SessionOver(p) \/ RestOver(p) \/ LateDue(p)
    BY <1>8 DEF SessionOver, RestOver, LateDue, ListType, queue, timers, bans, life, loop
  <1>9. CASE SwitchLife
    BY <1>9 DEF SwitchLife, ListType, queue, timers, bans, life, loop
  <1>10. CASE UNCHANGED vars
    BY <1>10 DEF vars, ListType, queue, timers, bans, life, loop
  <1> QED BY <1>1, <1>2, <1>3, <1>4, <1>5, <1>6, <1>7, <1>8, <1>9, <1>10 DEF Next

LEMMA InitTypes == Init => TypeOK
  <1> SUFFICES ASSUME Init PROVE TypeOK
    OBVIOUS
  <1>1. WorldType
    BY DEF Init, WorldType
  <1>2. kingdom \in 1..Kingdoms
    BY KingdomAssumption DEF Init
  <1>3. blocked \in SUBSET Pids
    <2>1. CASE "ban" \in env
      BY <2>1 DEF Init
    <2>2. CASE "ban" \notin env
      BY <2>2 DEF Init
    <2> QED BY <2>1, <2>2
  <1>4. lifeOn \in BOOLEAN
    BY DEF Init
  <1>5. pending \in Seq(Registered)
    BY DEF Init
  <1>6. ListType
    BY <1>2, <1>3, <1>4, <1>5 DEF Init, ListType, Places
  <1> QED BY <1>1, <1>6, TypeSplit

LEMMA NextKeepsAll == TypeOK /\ IInv /\ [Next]_vars => TypeOK' /\ IInv'
  <1> SUFFICES ASSUME TypeOK, IInv, [Next]_vars PROVE TypeOK' /\ IInv'
    OBVIOUS
  <1>1. IInv'
    BY NextIsWorldStep, WorldStepKeepsWiring
  <1>2. ListType'
    BY TypeSplit, NextKeepsListType
  <1>3. WorldType'
    BY <1>1 DEF IInv
  <1>4. TypeOK'
    BY <1>2, <1>3 DEF TypeOK, WorldType, ListType
  <1> QED BY <1>1, <1>4

-----------------------------------------------------------------------------
(* The theorems.                                                           *)

\* The manager's state is well typed and its maps are wired together in
\* every reachable state: IInv is inductive.
THEOREM Invariance == Spec => [](TypeOK /\ IInv)
  <1>1. Init => TypeOK /\ IInv
    BY InitTypes, InitWiring
  <1> QED BY <1>1, NextKeepsAll, PTL DEF Spec

\* Every variable of the manager keeps its type.
THEOREM TypeCorrect == Spec => []TypeOK
  BY Invariance, PTL

\* m_mapBots, m_mapHandles and the live descriptors are one relation, whatever
\* is spawned, despawned, kicked, lost and answered late.
THEOREM MapsAgree == Spec => []HandlesAgree
  <1>1. IInv => HandlesAgree
    BY DEF IInv, Wiring
  <1> QED BY <1>1, Invariance, PTL

\* No answer ever binds a character to a descriptor made for another one.
THEOREM NoStrangers == Spec => []OwnCharacter
  <1>1. IInv => OwnCharacter
    BY DEF IInv, Wiring, OwnCharacter
  <1> QED BY <1>1, Invariance, PTL

\* PlayerLoad never runs into a character that is already there, so its two
\* early returns, which would leave the descriptor loading for ever, are dead
\* code for a bot.
THEOREM NoAnswerRefused == Spec => []AnswersAreTaken
  <1>1. ASSUME IInv PROVE AnswersAreTaken
    <2> SUFFICES ASSUME NEW h \in Handles, NEW p \in Pids, <<h, p>> \in loads, phase[h] # "none"
                 PROVE  phase[h] = "login" /\ char[h] = None /\ ~InWorld(p)
      BY <1>1 DEF AnswersAreTaken, IInv, WorldType
    <2>1. handles[h] = p /\ phase[h] = "login" /\ char[h] = None
      BY <1>1 DEF IInv, Wiring
    <2>2. ASSUME NEW g \in Handles, char[g] = p PROVE FALSE
      <3>1. handles[g] = p
        BY <1>1, <2>2, NoneIsNothing DEF IInv, Wiring
      <3>2. g = h
        BY <1>1, <2>1, <3>1, NoneIsNothing DEF IInv, Wiring, HandlesAgree
      <3> QED BY <2>1, <2>2, <3>2, NoneIsNothing
    <2> QED BY <2>1, <2>2 DEF InWorld
  <1> QED BY <1>1, Invariance, PTL

\* No pid outside the registry is ever given a descriptor.
THEOREM NoOutsiders == Spec => []OnlyRegistered
  <1>1. IInv => OnlyRegistered
    BY DEF IInv
  <1> QED BY <1>1, Invariance, PTL

-----------------------------------------------------------------------------
(* The refinement: each WorldStep moves one character along its life.       *)

LEMMA InitIsPresence == Init => Presence!Init
  <1> SUFFICES ASSUME Init PROVE [p \in Pids |-> Where(p)] = [p \in Pids |-> "out"]
    BY DEF Presence!Init
  <1>1. \A p \in Pids : bots[p] = None
    BY DEF Init
  <1>2. \A p \in Pids : Where(p) = "out"
    BY <1>1 DEF Where, InGame
  <1> QED BY <1>2

\* A character whose entries are untouched is where it was.
LEMMA Elsewhere ==
  ASSUME IInv, NEW p \in Pids, bots'[p] = bots[p],
         bots[p] # None => phase'[bots[p]] = phase[bots[p]] /\ char'[bots[p]] = char[bots[p]]
  PROVE  Where(p)' = Where(p)
  BY DEF Where, InGame

\* One that goes from one place to another makes the abstract move.
LEMMA OneMoves ==
  ASSUME NEW p \in Pids, NEW to, Where(p)' = to,
         \A q \in Pids : q # p => Where(q)' = Where(q)
  PROVE  Presence!Move(p, Where(p), to)
  <1>1. [q \in Pids |-> Where(q)]' = [[q \in Pids |-> Where(q)] EXCEPT ![p] = to]
    OBVIOUS
  <1> QED BY <1>1 DEF Presence!Move

\* Nobody is astray: a live descriptor is loading, carries its character, or
\* is closing.
LEMMA NobodyAstray ==
  ASSUME IInv, NEW p \in Pids, bots[p] # None
  PROVE  /\ bots[p] \in Handles /\ handles[bots[p]] = p
         /\ phase[bots[p]] = "login" => Where(p) = "asked"
         /\ phase[bots[p]] = "game" => Where(p) = "in"
         /\ phase[bots[p]] = "close" => Where(p) = "leaving"
         /\ phase[bots[p]] \in {"login", "game", "close"}
  <1>1. bots[p] \in Handles /\ handles[bots[p]] = p
    BY DEF IInv, WorldType, Wiring, HandlesAgree
  <1>2. phase[bots[p]] \in {"login", "game", "close"}
    BY <1>1, NoneIsNothing DEF IInv, WorldType, Wiring, HandlesAgree
  <1>3. phase[bots[p]] = "game" => char[bots[p]] = p
    BY <1>1 DEF IInv, Wiring
  <1> QED BY <1>1, <1>2, <1>3 DEF Where, InGame

LEMMA StepsArePresence ==
  ASSUME IInv, IInv', WorldStep
  PROVE  Presence!Next \/ UNCHANGED [p \in Pids |-> Where(p)]
  <1>1. CASE Spawns
    <2> PICK p \in Pids, e \in Nat : MaySpawn(p, e) /\ Request(p)
      BY <1>1 DEF Spawns
    <2> PICK h \in Handles :
          /\ h \in Unused
          /\ bots' = [bots EXCEPT ![p] = h] /\ phase' = [phase EXCEPT ![h] = "login"]
          /\ UNCHANGED char
      BY DEF Request, Least
    <2>1. Where(p) = "out" /\ p \in Registered
      BY DEF MaySpawn, Where, InGame
    <2>2. Where(p)' = "asked"
      BY NoneIsNothing DEF IInv, WorldType, Where, InGame
    <2>3. ASSUME NEW q \in Pids, q # p PROVE Where(q)' = Where(q)
      <3>1. bots[q] # None => bots[q] # h
        BY NobodyAstray DEF Unused
      <3> QED BY <2>3, <3>1, Elsewhere DEF IInv, WorldType
    <2>4. Presence!Move(p, "out", "asked")
      BY <2>1, <2>2, <2>3, OneMoves
    <2> QED BY <2>1, <2>4 DEF Presence!Next, Presence!Ask
  <1>2. CASE Goes
    <2> PICK h \in Handles : handles[h] # None /\ Drop(h, handles[h])
      BY <1>2 DEF Goes
    <2> PICK p \in Pids : p = handles[h]
      BY DEF IInv, WorldType
    <2>1. Drop(h, p) /\ bots[p] = h /\ bots[p] # None
      BY NoneIsNothing DEF IInv, WorldType, Wiring, HandlesAgree
    <2>2. Where(p) \in {"asked", "in", "leaving"}
      BY <2>1, NobodyAstray
    <2>3. Where(p)' = "out"
      BY <2>1 DEF IInv, WorldType, Drop, Where, InGame
    <2>4. ASSUME NEW q \in Pids, q # p PROVE Where(q)' = Where(q)
      <3>1. bots[q] # None => bots[q] # h
        BY <2>4, NobodyAstray
      <3> QED BY <2>1, <2>4, <3>1, Elsewhere DEF IInv, WorldType, Drop
    <2>5. Presence!Move(p, Where(p), "out")
      BY <2>1, <2>3, <2>4, OneMoves
    <2> QED BY <2>1, <2>2, <2>5 DEF Presence!Next, Presence!Gone
  <1>3. ASSUME NEW ph \in {"game", "close"}, Comes(ph)
        PROVE  Presence!Next
    <2> PICK h \in Handles, p \in Pids :
          /\ <<h, p>> \in loads /\ phase[h] # "none" /\ char[h] = None
          /\ char' = [char EXCEPT ![h] = p]
          /\ phase' = [phase EXCEPT ![h] = ph]
          /\ UNCHANGED bots
      BY <1>3 DEF Comes
    <2>1. handles[h] = p /\ phase[h] = "login" /\ bots[p] = h /\ h # None
      BY NoneIsNothing DEF IInv, Wiring, HandlesAgree
    <2>2. Where(p) = "asked"
      BY <2>1, NobodyAstray
    <2>3. Where(p)' = IF ph = "game" THEN "in" ELSE "leaving"
      BY <2>1 DEF IInv, WorldType, Where, InGame
    <2>4. ASSUME NEW q \in Pids, q # p PROVE Where(q)' = Where(q)
      <3>1. bots[q] # None => bots[q] # h
        BY <2>1, <2>4, NobodyAstray
      <3> QED BY <2>4, <3>1, Elsewhere DEF IInv, WorldType
    <2>5. Presence!Move(p, "asked", IF ph = "game" THEN "in" ELSE "leaving")
      BY <2>2, <2>3, <2>4, OneMoves
    <2> QED BY <2>5 DEF Presence!Next, Presence!Enter, Presence!TurnAway
  <1>4. CASE Closes
    <2> PICK p \in Pids : /\ InGame(p)
                          /\ phase' = [phase EXCEPT ![bots[p]] = "close"]
                          /\ UNCHANGED <<bots, char>>
      BY <1>4 DEF Closes
    <2>1. Where(p) = "in" /\ bots[p] # None
      BY NobodyAstray DEF InGame
    <2>2. Where(p)' = "leaving"
      BY <2>1, NobodyAstray DEF IInv, WorldType, Where, InGame
    <2>3. ASSUME NEW q \in Pids, q # p PROVE Where(q)' = Where(q)
      <3>1. bots[q] # None => bots[q] # bots[p]
        BY <2>1, <2>3, NobodyAstray
      <3> QED BY <2>1, <2>3, <3>1, NobodyAstray, Elsewhere DEF IInv, WorldType
    <2>4. Presence!Move(p, "in", "leaving")
      BY <2>1, <2>2, <2>3, OneMoves
    <2> QED BY <2>4 DEF Presence!Next, Presence!Leave
  <1>5. CASE Forgets \/ Boots
    <2>1. UNCHANGED <<bots, phase, char>>
      BY <1>5 DEF Forgets, Boots, world
    <2>2. \A p \in Pids : Where(p)' = Where(p)
      BY <2>1 DEF Where, InGame
    <2> QED BY <2>2
  <1> QED BY <1>1, <1>2, <1>3, <1>4, <1>5 DEF WorldStep

\* The manager implements PlayerbotPresence: every character is asked for,
\* comes and goes by itself, in that order, and only registered ones.
THEOREM Refinement == Spec => KeepsPresence
  <1>1. ASSUME TypeOK, IInv, [Next]_vars
        PROVE  [Presence!Next]_[p \in Pids |-> Where(p)]
    <2>1. IInv'
      BY <1>1, NextKeepsAll
    <2>2. WorldStep
      BY <1>1, NextIsWorldStep
    <2> QED BY <1>1, <2>1, <2>2, StepsArePresence
  <1> QED BY <1>1, InitIsPresence, Invariance, PTL DEF Spec, KeepsPresence, Presence!Spec

-----------------------------------------------------------------------------
(***************************************************************************)
(* The manager's lists, on top of the wiring of its maps: who is asked     *)
(* for, who is not, and that no load is forgotten.  Each theorem below     *)
(* holds of the worlds its premise names; in the others the code does what *)
(* the premise leaves out.                                                 *)
(***************************************************************************)

\* The world a core runs in does not change.
LEMMA EnvStands == [Next]_vars => UNCHANGED env
  <1> SUFFICES ASSUME [Next]_vars PROVE UNCHANGED env
    OBVIOUS
  <1>1. CASE Boot \/ Update \/ SwitchLife \/ UNCHANGED vars
    BY <1>1 DEF Boot, Update, SwitchLife, vars
  <1>2. CASE Handler
    BY <1>2 DEF Handler, SkipKingdom, SpawnMedalDropperCohort, SpawnRegistered,
                ScheduleLateJoiners, BatchEnter, BatchPop, BatchDone, SpawnLateJoiners,
                RefreshBannedBots, EvictBanned, ManageLifeSchedule, LifeSessions, LifeLeave,
                LifeRests, TopUpMissingBots, CountMissing
  <1>3. CASE \E h \in Handles, p \in Pids : Answer(h, p)
    BY <1>3 DEF Answer, Loaded, LoadedElsewhere, LoadFailed, StaleAnswer, NoAnswer
  <1>4. CASE \E h \in Handles : DestroyClosed(h)
    BY <1>4 DEF DestroyClosed
  <1>5. CASE \E p \in Pids : Kick(p) \/ GmDespawn(p) \/ GmBan(p) \/ HumanParty(p)
    BY <1>5 DEF Kick, GmDespawn, GmBan, HumanParty
  <1>6. CASE \E p \in Pids, e \in 1..Kingdoms : GmSpawn(p, e)
    BY <1>6 DEF GmSpawn
  <1>7. CASE \E p \in Pids : SessionOver(p) \/ RestOver(p) \/ LateDue(p)
    BY <1>7 DEF SessionOver, RestOver, LateDue
  <1> QED BY <1>1, <1>2, <1>3, <1>4, <1>5, <1>6, <1>7 DEF Next

-----------------------------------------------------------------------------
(* Who is asked for.                                                       *)

\* A call of Spawn gives a descriptor to nobody but its argument, and a
\* despawn to nobody.
LEMMA SpawnAsksOne ==
  ASSUME WorldType, NEW p \in Pids, NEW q \in Pids, NEW e, q # p, Spawn(p, e)
  PROVE  bots'[q] = bots[q]
  BY DEF WorldType, Spawn, Request, world

LEMMA DespawnAsksNobody ==
  ASSUME WorldType, NEW p \in Pids, NEW q \in Pids, bots[q] = None, Despawn(p)
  PROVE  bots'[q] = None
  BY DEF WorldType, Despawn, Drop

LEMMA DropAsksNobody ==
  ASSUME WorldType, NEW h \in Handles, NEW p, NEW q \in Pids, bots[q] = None, Drop(h, p)
  PROVE  bots'[q] = None
  BY DEF WorldType, Drop

\* Only the batch and the late joiners ask for a bot by themselves, and both
\* have looked at the bans and the rests.
LEMMA OnlyAllowedAreAsked ==
  ASSUME TypeOK, [Next]_vars, "gm" \notin env,
         NEW q \in Pids, bots[q] = None, bots'[q] # None
  PROVE  q \notin banned /\ ~Resting(q) /\ rest' = rest
  <1>a. WorldType /\ ListType
    BY TypeSplit
  <1>b. ~UNCHANGED bots
    OBVIOUS
  <1>c. Registered \subseteq Pids
    BY RegisteredAssumption
  <1>1. CASE Boot \/ Update \/ SwitchLife \/ UNCHANGED vars
    BY <1>1, <1>b DEF Boot, Update, SwitchLife, vars, world
  <1>2. CASE Handler
    <2>1. CASE SkipKingdom \/ SpawnMedalDropperCohort \/ SpawnRegistered \/ ScheduleLateJoiners
      BY <2>1, <1>b DEF SkipKingdom, SpawnMedalDropperCohort, SpawnRegistered,
                        ScheduleLateJoiners, world
    <2>2. CASE BatchEnter \/ BatchDone \/ RefreshBannedBots \/ ManageLifeSchedule
      BY <2>2, <1>b DEF BatchEnter, BatchDone, RefreshBannedBots, ManageLifeSchedule, world
    <2>3. CASE LifeSessions \/ LifeRests \/ TopUpMissingBots \/ CountMissing
      BY <2>3, <1>b DEF LifeSessions, LifeRests, TopUpMissingBots, CountMissing, world
    <2>4. CASE BatchPop
      <3>1. Head(pending) \in Pids
        BY <2>4, <1>a, <1>c DEF BatchPop, ListType
      <3>2. ~UNCHANGED world
        BY <1>b DEF world
      <3>3. /\ Head(pending) \notin banned /\ ~Resting(Head(pending))
            /\ Spawn(Head(pending), 0)
            /\ UNCHANGED life
        BY <2>4, <3>2 DEF BatchPop
      <3>4. q = Head(pending)
        BY <3>1, <3>3, <1>a, SpawnAsksOne
      <3> QED BY <3>3, <3>4 DEF life
    <2>5. CASE SpawnLateJoiners
      <3>1. ~UNCHANGED world
        BY <1>b DEF world
      <3>2. PICK p \in lateDue : /\ p \notin banned /\ ~Resting(p) /\ Spawn(p, 0)
                                 /\ UNCHANGED life
        BY <2>5, <3>1 DEF SpawnLateJoiners
      <3>3. p \in Pids
        BY <1>a, <1>c DEF ListType
      <3>4. q = p
        BY <3>2, <3>3, <1>a, SpawnAsksOne
      <3> QED BY <3>2, <3>4 DEF life
    <2>6. CASE EvictBanned
      <3>1. UNCHANGED world \/ \E p \in Pids : Despawn(p)
        BY <2>6, <1>a DEF EvictBanned, ListType
      <3> QED BY <3>1, <1>a, <1>b, DespawnAsksNobody DEF world
    <2>7. CASE LifeLeave
      <3>1. UNCHANGED world \/ \E p \in Pids : Despawn(p)
        BY <2>7, <1>a DEF LifeLeave, ListType
      <3> QED BY <3>1, <1>a, <1>b, DespawnAsksNobody DEF world
    <2> QED BY <1>2, <2>1, <2>2, <2>3, <2>4, <2>5, <2>6, <2>7 DEF Handler
  <1>3. CASE \E h \in Handles, p \in Pids : Answer(h, p)
    <2>1. PICK h \in Handles, p \in Pids : Answer(h, p)
      BY <1>3
    <2>2. UNCHANGED bots \/ Drop(h, handles[h])
      BY <2>1 DEF Answer, Loaded, LoadedElsewhere, LoadFailed, StaleAnswer, NoAnswer
    <2> QED BY <2>2, <1>a, <1>b, DropAsksNobody
  <1>4. CASE \E h \in Handles : DestroyClosed(h)
    BY <1>4, <1>a, DropAsksNobody DEF DestroyClosed
  <1>5. CASE \E p \in Pids : Kick(p) \/ GmDespawn(p) \/ GmBan(p) \/ HumanParty(p)
    <2>1. ~\E p \in Pids : Kick(p) \/ GmBan(p) \/ HumanParty(p)
      BY <1>b DEF Kick, GmBan, HumanParty, world
    <2> QED BY <1>5, <2>1 DEF GmDespawn
  <1>6. CASE \E p \in Pids, e \in 1..Kingdoms : GmSpawn(p, e)
    BY <1>6 DEF GmSpawn
  <1>7. CASE \E p \in Pids : SessionOver(p) \/ RestOver(p) \/ LateDue(p)
    BY <1>7, <1>b DEF SessionOver, RestOver, LateDue, world
  <1> QED BY <1>1, <1>2, <1>3, <1>4, <1>5, <1>6, <1>7 DEF Next

\* Without a GM's own command, a bot the manager holds banned and that is out
\* is not asked for again, by the batch, the late joiners or the top-up.
THEOREM BansHold == Spec /\ "gm" \notin env => BannedAreNotAsked
  <1> DEFINE Kept == \A p \in Pids : p \in banned /\ bots[p] = None => bots'[p] = None
             Alone == "gm" \notin env
  <1>1. TypeOK /\ Alone /\ [Next]_vars => [Kept]_vars
    BY OnlyAllowedAreAsked
  <1>2. Alone /\ [Next]_vars => Alone'
    BY EnvStands
  <1>3. Spec /\ Alone => [][Kept]_vars
    <2> HIDE DEF Kept, Alone
    <2> QED BY <1>1, <1>2, TypeCorrect, PTL DEF Spec
  <1> QED BY <1>3 DEF BannedAreNotAsked

-----------------------------------------------------------------------------
(* Who rests.                                                              *)

\* A rest begins with the log-out, in the same step.
LEMMA RestBeginsOutside ==
  ASSUME TypeOK, [Next]_vars, NEW q \in Pids, rest[q] = "none", rest'[q] # "none"
  PROVE  bots'[q] = None
  <1>a. WorldType /\ ListType
    BY TypeSplit
  <1>b. ~UNCHANGED rest
    OBVIOUS
  <1>1. CASE Boot \/ Update \/ SwitchLife \/ UNCHANGED vars
    BY <1>1, <1>b DEF Boot, Update, SwitchLife, vars, life
  <1>2. CASE Handler
    <2>1. CASE SkipKingdom \/ SpawnMedalDropperCohort \/ SpawnRegistered \/ ScheduleLateJoiners
      BY <2>1, <1>b DEF SkipKingdom, SpawnMedalDropperCohort, SpawnRegistered,
                        ScheduleLateJoiners, life
    <2>2. CASE BatchEnter \/ BatchPop \/ BatchDone \/ SpawnLateJoiners
      BY <2>2, <1>b DEF BatchEnter, BatchPop, BatchDone, SpawnLateJoiners, life
    <2>3. CASE RefreshBannedBots \/ EvictBanned \/ LifeSessions \/ TopUpMissingBots \/ CountMissing
      BY <2>3, <1>b DEF RefreshBannedBots, EvictBanned, LifeSessions, TopUpMissingBots,
                        CountMissing, life
    <2>4. CASE ManageLifeSchedule
      BY <2>4 DEF ManageLifeSchedule
    <2>5. CASE LifeRests
      BY <2>5 DEF LifeRests
    <2>6. CASE LifeLeave
      <3>1. PICK p \in leaving : Despawn(p) /\ rest' = [rest EXCEPT ![p] = "running"]
        BY <2>6, <1>b DEF LifeLeave
      <3>2. p \in Pids
        BY <1>a DEF ListType
      <3>3. q = p
        BY <3>1, <3>2, <1>a DEF ListType
      <3> QED BY <3>1, <3>2, <3>3, <1>a DEF Despawn, Drop, WorldType
    <2> QED BY <1>2, <2>1, <2>2, <2>3, <2>4, <2>5, <2>6 DEF Handler
  <1>3. CASE \E h \in Handles, p \in Pids : Answer(h, p)
    BY <1>3, <1>b DEF Answer, Loaded, LoadedElsewhere, LoadFailed, StaleAnswer, NoAnswer, life
  <1>4. CASE \E h \in Handles : DestroyClosed(h)
    BY <1>4, <1>b DEF DestroyClosed, life
  <1>5. CASE \E p \in Pids : Kick(p) \/ GmDespawn(p) \/ GmBan(p) \/ HumanParty(p)
    BY <1>5, <1>b DEF Kick, GmDespawn, GmBan, HumanParty, life
  <1>6. CASE \E p \in Pids, e \in 1..Kingdoms : GmSpawn(p, e)
    BY <1>6, <1>b DEF GmSpawn, life
  <1>7. CASE \E p \in Pids : SessionOver(p) \/ LateDue(p)
    BY <1>7, <1>b DEF SessionOver, LateDue, life
  <1>8. CASE \E p \in Pids : RestOver(p)
    BY <1>8, <1>a DEF RestOver, ListType
  <1> QED BY <1>1, <1>2, <1>3, <1>4, <1>5, <1>6, <1>7, <1>8 DEF Next

\* Without a GM's own command, who was logged out stays out for the rest.
THEOREM RestsHold == Spec /\ "gm" \notin env => []RestersAreOut
  <1> DEFINE Alone == "gm" \notin env
  <1>1. Init => RestersAreOut
    BY DEF Init, RestersAreOut
  <1>2. ASSUME TypeOK, Alone, RestersAreOut, [Next]_vars
        PROVE  RestersAreOut' /\ Alone'
    <2>1. ASSUME NEW q \in Pids, rest'[q] # "none"
          PROVE  bots'[q] = None
      <3>1. CASE rest[q] = "none"
        BY <1>2, <2>1, <3>1, RestBeginsOutside
      <3>2. CASE rest[q] # "none"
        BY <1>2, <3>2, OnlyAllowedAreAsked DEF RestersAreOut, Resting
      <3> QED BY <3>1, <3>2
    <2> QED BY <1>2, <2>1, EnvStands DEF RestersAreOut, Resting
  <1>3. Spec /\ Alone => []RestersAreOut
    <2> HIDE DEF Alone
    <2> QED BY <1>1, <1>2, TypeCorrect, PTL DEF Spec
  <1> QED BY <1>3

-----------------------------------------------------------------------------
(* Who is loading.                                                         *)

\* A request is over when its descriptor is gone or has a character, unless
\* the db core may say nothing.
LEMMA RequestsEnd ==
  ASSUME TypeOK, IInv, [Next]_vars, "lost" \notin env,
         NEW h \in Handles, NEW p \in Pids, <<h, p>> \in loads, <<h, p>> \notin loads'
  PROVE  phase[h] = "none" \/ char'[h] # None \/ phase'[h] = "none"
  <1>a. WorldType /\ ListType
    BY TypeSplit
  <1>b. ~(loads \subseteq loads')
    OBVIOUS
  <1>c. ASSUME NEW q, NEW e, Spawn(q, e) PROVE loads \subseteq loads'
    BY <1>c DEF Spawn, Request, world
  <1>1. CASE Boot \/ Update \/ SwitchLife \/ UNCHANGED vars
    BY <1>1, <1>b DEF Boot, Update, SwitchLife, vars, world
  <1>2. CASE Handler
    <2>1. CASE SkipKingdom \/ SpawnMedalDropperCohort \/ SpawnRegistered \/ ScheduleLateJoiners
      BY <2>1, <1>b DEF SkipKingdom, SpawnMedalDropperCohort, SpawnRegistered,
                        ScheduleLateJoiners, world
    <2>2. CASE BatchEnter \/ BatchPop \/ BatchDone \/ SpawnLateJoiners
      BY <2>2, <1>b, <1>c DEF BatchEnter, BatchPop, BatchDone, SpawnLateJoiners, world
    <2>3. CASE RefreshBannedBots \/ EvictBanned \/ LifeSessions \/ TopUpMissingBots \/ CountMissing
      BY <2>3, <1>b DEF RefreshBannedBots, EvictBanned, LifeSessions, TopUpMissingBots,
                        CountMissing, world, Despawn
    <2>4. CASE ManageLifeSchedule \/ LifeRests \/ LifeLeave
      BY <2>4, <1>b DEF ManageLifeSchedule, LifeRests, LifeLeave, world, Despawn
    <2> QED BY <1>2, <2>1, <2>2, <2>3, <2>4 DEF Handler
  <1>3. CASE \E g \in Handles, q \in Pids : Answer(g, q)
    <2>1. PICK g \in Handles, q \in Pids : Answer(g, q)
      BY <1>3
    <2>2. loads' = loads \ {<<g, q>>}
      BY <2>1 DEF Answer, Loaded, LoadedElsewhere, LoadFailed, StaleAnswer, NoAnswer
    <2>3. g = h /\ q = p
      BY <2>2
    <2>4. CASE Loaded(g, q)
      <3>1. CASE char[h] # None
        BY <2>3, <2>4, <3>1 DEF Loaded, IInv, Wiring
      <3>2. CASE char[h] = None
        <4>1. phase[h] # "none" /\ handles[h] = p /\ phase[h] = "login"
          BY <2>3, <2>4 DEF Loaded, IInv, Wiring
        <4>2. ASSUME NEW g2 \in Handles, char[g2] = p PROVE FALSE
          <5>1. handles[g2] = p /\ char[g2] # None
            BY <4>2, NoneIsNothing DEF IInv, Wiring
          <5>2. g2 = h
            BY <4>1, <5>1, NoneIsNothing DEF IInv, Wiring, HandlesAgree
          <5> QED BY <3>2, <5>1, <5>2
        <4>3. char' = [char EXCEPT ![h] = p]
          BY <2>3, <2>4, <3>2, <4>1, <4>2 DEF Loaded, InWorld
        <4> QED BY <4>3, <1>a, NoneIsNothing DEF WorldType
      <3> QED BY <3>1, <3>2
    <2>5. CASE LoadedElsewhere(g, q)
      BY <2>3, <2>5, <1>a, NoneIsNothing DEF LoadedElsewhere, WorldType
    <2>6. CASE LoadFailed(g, q)
      BY <2>3, <2>6, <1>a DEF LoadFailed, WorldType, IInv, Wiring, HandlesAgree, Drop
    <2>7. CASE StaleAnswer(g, q)
      BY <2>3, <2>7 DEF StaleAnswer
    <2>8. CASE NoAnswer(g, q)
      BY <2>8 DEF NoAnswer
    <2> QED BY <2>1, <2>4, <2>5, <2>6, <2>7, <2>8 DEF Answer
  <1>4. CASE \E g \in Handles : DestroyClosed(g)
    BY <1>4, <1>b DEF DestroyClosed
  <1>5. CASE \E q \in Pids : Kick(q) \/ GmDespawn(q) \/ GmBan(q) \/ HumanParty(q)
    BY <1>5, <1>b DEF Kick, GmDespawn, GmBan, HumanParty, Despawn, world
  <1>6. CASE \E q \in Pids, e \in 1..Kingdoms : GmSpawn(q, e)
    BY <1>6, <1>b, <1>c DEF GmSpawn
  <1>7. CASE \E q \in Pids : SessionOver(q) \/ RestOver(q) \/ LateDue(q)
    BY <1>7, <1>b DEF SessionOver, RestOver, LateDue, world
  <1> QED BY <1>1, <1>2, <1>3, <1>4, <1>5, <1>6, <1>7 DEF Next

\* A bot without a character either was without one on the same descriptor,
\* or is being asked for in this step.
LEMMA LoadingBegins ==
  ASSUME IInv, IInv', WorldStep, NEW p \in Pids, Loading(p)'
  PROVE  (Loading(p) /\ bots'[p] = bots[p]) \/ <<bots'[p], p>> \in loads'
  <1>1. CASE Spawns
    <2> PICK q \in Pids, e \in Nat : MaySpawn(q, e) /\ Request(q)
      BY <1>1 DEF Spawns
    <2>1. CASE q = p
      BY <2>1 DEF Request, IInv, WorldType
    <2>2. CASE q # p
      BY <2>2 DEF Request, IInv, WorldType, Loading
    <2> QED BY <2>1, <2>2
  <1>2. CASE Goes
    <2> PICK h \in Handles : handles[h] # None /\ Drop(h, handles[h])
      BY <1>2 DEF Goes
    <2>1. handles[h] \in Pids /\ bots[handles[h]] = h
      BY DEF IInv, WorldType, Wiring, HandlesAgree
    <2>2. p # handles[h]
      BY <2>1 DEF Drop, Loading, IInv, WorldType
    <2>3. bots'[p] = bots[p] /\ bots[p] \in Handles
      BY <2>2 DEF Drop, Loading, IInv, WorldType
    <2>4. bots[p] # h
      BY <2>1, <2>2, <2>3, NoneIsNothing DEF IInv, Wiring, HandlesAgree
    <2> QED BY <2>3, <2>4 DEF Drop, Loading, IInv, WorldType
  <1>3. ASSUME NEW ph \in {"game", "close"}, Comes(ph)
        PROVE  Loading(p) /\ bots'[p] = bots[p]
    <2> PICK h \in Handles, q \in Pids : /\ char[h] = None /\ UNCHANGED bots
                                         /\ char' = [char EXCEPT ![h] = q]
      BY <1>3 DEF Comes
    <2> QED BY NoneIsNothing DEF Loading, IInv, WorldType
  <1>4. CASE Closes \/ Forgets \/ Boots
    BY <1>4 DEF Closes, Forgets, Boots, world, Loading
  <1> QED BY <1>1, <1>2, <1>3, <1>4 DEF WorldStep

\* As long as the db core answers at all, every descriptor without a character
\* has its request on the way.
THEOREM LoadsAreNotForgotten == Spec /\ "lost" \notin env => []LoadsAreAsked
  <1> DEFINE Answered == "lost" \notin env
  <1>1. Init => LoadsAreAsked
    BY DEF Init, LoadsAreAsked, Loading
  <1>2. ASSUME TypeOK, IInv, Answered, LoadsAreAsked, [Next]_vars
        PROVE  LoadsAreAsked' /\ Answered'
    <2>1. ASSUME NEW p \in Pids, Loading(p)'
          PROVE  <<bots'[p], p>> \in loads'
      <3>1. IInv' /\ WorldStep
        BY <1>2, NextIsWorldStep, NextKeepsAll
      <3>2. SUFFICES ASSUME Loading(p), bots'[p] = bots[p], <<bots[p], p>> \notin loads'
                     PROVE  FALSE
        BY <1>2, <2>1, <3>1, LoadingBegins
      <3>3. <<bots[p], p>> \in loads /\ bots[p] \in Handles
        BY <1>2, <3>2 DEF LoadsAreAsked, Loading, IInv, WorldType
      <3>4. phase[bots[p]] = "none" \/ char'[bots[p]] # None \/ phase'[bots[p]] = "none"
        BY <1>2, <3>2, <3>3, RequestsEnd
      <3>5. phase[bots[p]] # "none" /\ phase'[bots[p]] # "none"
        BY <1>2, <2>1, <3>1, <3>2, <3>3, NoneIsNothing DEF IInv, Wiring, HandlesAgree, Loading
      <3>6. char'[bots[p]] = None
        BY <2>1, <3>2 DEF Loading
      <3> QED BY <3>4, <3>5, <3>6
    <2> QED BY <1>2, <2>1, EnvStands DEF LoadsAreAsked
  <1>3. Spec /\ Answered => []LoadsAreAsked
    <2> HIDE DEF Answered
    <2> QED BY <1>1, <1>2, Invariance, PTL DEF Spec
  <1> QED BY <1>3

-----------------------------------------------------------------------------
(* How many are scheduled.                                                 *)

\* How many of a kingdom are, or are to be, this core's.
Size(k) == Cardinality({p \in scheduled \cup late : Empire[p] = k})
Budget(k) == IF k \in Hosted THEN Droppers[k] + Want[k] + Late[k] ELSE 0

\* The bootstrap is running, maybe inside a batch it has called.
Booting ==
  \/ pc \in {"droppers", "cohort", "joiners"}
  \/ pc \in {"batchEnter", "batch"} /\ ret \in {"cohort", "joiners"}

\* Where the bootstrap stands: later kingdoms have nothing yet, and its own has
\* what the functions before this one may have taken and what this one has.
Stage ==
  /\ \A k \in 1..Kingdoms : k > kingdom => Size(k) = 0
  /\ pc = "droppers" =>
       Size(kingdom) <= count /\ count <= IF kingdom \in Hosted THEN Droppers[kingdom] ELSE 0
  /\ pc # "droppers" => kingdom \in Hosted
  /\ pc \in {"batchEnter", "batch"} =>
       Size(kingdom) <= Droppers[kingdom] + IF ret = "joiners" THEN Want[kingdom] ELSE 0
  /\ pc = "batchEnter" => count = 0
  /\ pc = "cohort" => /\ Size(kingdom) <= Droppers[kingdom] + count
                      /\ count <= Want[kingdom] \/ \A p \in Registered : Empire[p] # kingdom
  /\ pc = "joiners" => /\ Size(kingdom) <= Droppers[kingdom] + Want[kingdom] + count
                       /\ count <= Late[kingdom]

BudgetInv ==
  /\ \A k \in 1..Kingdoms : Size(k) <= Budget(k)
  /\ registry = "unread" => ~Booting /\ scheduled \cup late = {}
  /\ Booting => Stage

LEMMA SizeType == ListType => \A k : Size(k) \in Nat
  <1> SUFFICES ASSUME ListType, NEW k PROVE Size(k) \in Nat
    OBVIOUS
  <1>1. {p \in scheduled \cup late : Empire[p] = k} \in SUBSET Registered
    BY DEF ListType
  <1> QED BY <1>1, CohortIsFinite DEF Size

\* One more identity is one more of its own kingdom.
LEMMA OneMore ==
  ASSUME ListType, NEW p \in Registered, NEW k,
         scheduled' \cup late' = scheduled \cup late \cup {p}
  PROVE  /\ Size(k)' <= Size(k) + 1
         /\ Empire[p] # k => Size(k)' = Size(k)
  <1> DEFINE S == {q \in scheduled \cup late : Empire[q] = k}
             T == {q \in scheduled' \cup late' : Empire[q] = k}
  <1>1. S \in SUBSET Registered /\ IsFiniteSet(S)
    <2>1. S \in SUBSET Registered
      BY DEF ListType
    <2> QED BY <2>1, PidsAssumption, RegisteredAssumption, FS_Subset
  <1>2. T = S \/ T = S \cup {p}
    OBVIOUS
  <1>3. Empire[p] # k => T = S
    OBVIOUS
  <1>4. Cardinality(S) \in Nat
    BY <1>1, FS_CardinalityType
  <1>5. Size(k) = Cardinality(S) /\ Size(k)' = Cardinality(T)
    BY DEF Size
  <1> HIDE DEF S, T
  <1>6. Cardinality(S \cup {p}) <= Cardinality(S) + 1
    <2>1. Cardinality(S \cup {p}) = IF p \in S THEN Cardinality(S) ELSE Cardinality(S) + 1
      BY <1>1, FS_AddElement
    <2> QED BY <2>1, <1>4
  <1>7. Cardinality(T) <= Cardinality(S) + 1
    <2>1. CASE T = S
      BY <1>4, <2>1
    <2>2. CASE T = S \cup {p}
      BY <1>6, <2>2
    <2> QED BY <1>2, <2>1, <2>2
  <1>8. Empire[p] # k => Cardinality(T) = Cardinality(S)
    BY <1>3
  <1> QED BY <1>5, <1>7, <1>8

\* Outside the bootstrap the lists exchange identities and take no new ones.
LEMMA CalmKeepsBudget ==
  ASSUME BudgetInv, scheduled' \cup late' = scheduled \cup late, UNCHANGED registry, ~Booting'
  PROVE  BudgetInv'
  <1>1. \A k : Size(k)' = Size(k)
    BY DEF Size
  <1> QED BY <1>1 DEF BudgetInv, Budget

\* The function the bootstrap is in takes one more, within its own count.
LEMMA TakingKeepsBudget ==
  ASSUME ListType, ListType', BudgetInv, Booting, pc \in {"droppers", "cohort", "joiners"},
         kingdom \in Hosted, NEW p \in Registered, Empire[p] = kingdom,
         scheduled' \cup late' = scheduled \cup late \cup {p}, count' = count + 1,
         pc = "droppers" => count < Droppers[kingdom],
         pc = "cohort" => count < Want[kingdom],
         pc = "joiners" => count < Late[kingdom],
         UNCHANGED <<registry, pc, ret, kingdom>>
  PROVE  BudgetInv'
  <1> DEFINE k == kingdom
  <1>1. /\ \A j : Size(j) \in Nat /\ Size(j)' \in Nat
        /\ \A j : Size(j)' <= Size(j) + 1
        /\ \A j : j # k => Size(j)' = Size(j)
    <2>1. \A j : Size(j) \in Nat
      BY SizeType
    <2>2. \A j : Size(j)' \in Nat
      <3>1. \A j : {q \in scheduled' \cup late' : Empire[q] = j} \in SUBSET Registered
        BY DEF ListType
      <3> QED BY <3>1, CohortIsFinite DEF Size
    <2>3. \A j : Size(j)' <= Size(j) + 1 /\ (Empire[p] # j => Size(j)' = Size(j))
      BY OneMore
    <2> QED BY <2>1, <2>2, <2>3
  <1>2. /\ k \in 1..Kingdoms /\ Droppers[k] \in Nat /\ Want[k] \in Nat /\ Late[k] \in Nat
        /\ count \in Nat
    BY BudgetAssumption, KingdomAssumption DEF ListType
  <1>3. Stage /\ registry # "unread"
    BY DEF BudgetInv
  <1>4. Size(k)' <= Budget(k)
    BY <1>1, <1>2, <1>3 DEF Stage, Budget
  <1>5. Stage'
    <2>1. \A j \in 1..Kingdoms : j > k => Size(j)' = 0
      BY <1>1, <1>2, <1>3 DEF Stage
    <2>2. pc = "droppers" => Size(k)' <= count' /\ count' <= Droppers[k]
      BY <1>1, <1>2, <1>3 DEF Stage
    <2>3. pc = "cohort" => Size(k)' <= Droppers[k] + count' /\ count' <= Want[k]
      BY <1>1, <1>2, <1>3 DEF Stage
    <2>4. pc = "joiners" => Size(k)' <= Droppers[k] + Want[k] + count' /\ count' <= Late[k]
      BY <1>1, <1>2, <1>3 DEF Stage
    <2> QED BY <2>1, <2>2, <2>3, <2>4 DEF Stage
  <1>6. \A j \in 1..Kingdoms : Size(j)' <= Budget(j)
    BY <1>1, <1>4 DEF BudgetInv
  <1> QED BY <1>3, <1>5, <1>6 DEF BudgetInv, Budget

\* A kingdom that is done leaves the next one as it found it.
LEMMA NextKingdomKeepsBudget ==
  ASSUME ListType, BudgetInv, Booting, ToNextKingdom,
         UNCHANGED <<registry, scheduled, late>>
  PROVE  BudgetInv'
  <1>1. \A k : Size(k)' = Size(k) /\ Size(k) \in Nat
    BY SizeType DEF Size
  <1>2. Stage /\ registry # "unread"
    BY DEF BudgetInv
  <1>3. kingdom \in 1..Kingdoms /\ Kingdoms \in Nat
    BY KingdomAssumption DEF ListType
  <1>4. CASE kingdom < Kingdoms
    <2>1. pc' = "droppers" /\ kingdom' = kingdom + 1 /\ count' = 0
      BY <1>4 DEF ToNextKingdom, Goto
    <2>2. Size(kingdom') = 0 /\ \A k \in 1..Kingdoms : k > kingdom' => Size(k) = 0
      BY <1>2, <1>3, <1>4, <2>1 DEF Stage
    <2>3. 0 <= IF kingdom' \in Hosted THEN Droppers[kingdom'] ELSE 0
      <3>1. kingdom' \in 1..Kingdoms
        BY <1>3, <1>4, <2>1
      <3>2. Droppers[kingdom'] \in Nat
        BY <3>1, BudgetAssumption
      <3> QED BY <3>2
    <2>4. Stage'
      BY <1>1, <2>1, <2>2, <2>3 DEF Stage
    <2> QED BY <1>1, <1>2, <2>4 DEF BudgetInv, Budget
  <1>5. CASE ~(kingdom < Kingdoms)
    <2>1. ~Booting'
      BY <1>5 DEF ToNextKingdom, Goto, Booting
    <2> QED BY <1>2, <2>1, CalmKeepsBudget
  <1> QED BY <1>4, <1>5

\* A batch inside the bootstrap takes nobody new.
LEMMA BatchKeepsBudget ==
  ASSUME ListType, BudgetInv, Booting,
         UNCHANGED <<registry, scheduled, late, ret, kingdom>>,
         \/ BatchEnter \/ BatchPop \/ BatchDone
  PROVE  BudgetInv'
  <1>1. \A k : Size(k)' = Size(k) /\ Size(k) \in Nat
    BY SizeType DEF Size
  <1>2. Stage /\ registry # "unread"
    BY DEF BudgetInv
  <1>3. /\ kingdom \in 1..Kingdoms /\ Droppers[kingdom] \in Nat /\ Want[kingdom] \in Nat
        /\ Late[kingdom] \in Nat
    BY BudgetAssumption, KingdomAssumption DEF ListType
  <1>4. /\ pc \in {"batchEnter", "batch"} /\ ret \in {"cohort", "joiners"}
        /\ pc' = "batch" \/ (pc' = ret /\ count' = 0)
    BY DEF BatchEnter, BatchPop, BatchDone, Booting, Goto, Stage, BudgetInv
  <1>5. /\ kingdom \in Hosted
        /\ Size(kingdom) <= Droppers[kingdom] + IF ret = "joiners" THEN Want[kingdom] ELSE 0
    BY <1>2, <1>4 DEF Stage
  <1>6. Stage'
    BY <1>1, <1>2, <1>3, <1>4, <1>5 DEF Stage
  <1> QED BY <1>1, <1>2, <1>6 DEF BudgetInv, Budget

\* In worlds where the db core reconnects to no empty core: one bootstrap.
LEMMA NextKeepsBudget ==
  ASSUME TypeOK, TypeOK', BudgetInv, "reboot" \notin env, [Next]_vars
  PROVE  BudgetInv'
  <1>a. ListType /\ ListType' /\ Registered \subseteq Pids
    BY TypeSplit, RegisteredAssumption DEF TypeOK, ListType
  <1>b. /\ UNCHANGED <<registry, scheduled, late>> /\ pc' \notin {"droppers", "cohort", "joiners", "batchEnter", "batch"}
        => BudgetInv'
    BY CalmKeepsBudget DEF Booting
  <1>c. pc = "idle" /\ UNCHANGED <<registry, scheduled, late, pc>> => BudgetInv'
    BY <1>b
  <1>1. CASE Boot
    <2>1. /\ registry = "unread" /\ registry' # "unread" /\ kingdom' = 1 /\ count' = 0
          /\ UNCHANGED <<scheduled, late>>
          /\ pc' \in {"droppers", "idle"}
      BY <1>1 DEF Boot, LoadRegisteredBots, Goto, queue
    <2>2. \A k : Size(k)' = Size(k)
      BY <2>1 DEF Size
    <2>3. \A k : Size(k) = 0
      <3>1. scheduled \cup late = {}
        BY <2>1 DEF BudgetInv
      <3>2. \A k : {p \in scheduled \cup late : Empire[p] = k} = {}
        BY <3>1
      <3> QED BY <3>2, FS_EmptySet DEF Size
    <2>4. Droppers[1] \in Nat
      BY BudgetAssumption, KingdomAssumption
    <2>5. Booting' => Stage'
      BY <2>1, <2>2, <2>3, <2>4 DEF Booting, Stage
    <2> QED BY <2>1, <2>2, <2>5 DEF BudgetInv, Budget
  <1>2. CASE Handler
    <2>1. CASE SkipKingdom
      BY <2>1, <1>a, NextKingdomKeepsBudget DEF SkipKingdom, Booting, queue
    <2>2. CASE SpawnMedalDropperCohort
      <3>1. Booting /\ Stage /\ kingdom \in Hosted /\ registry' = registry /\ pc = "droppers"
        BY <2>2 DEF SpawnMedalDropperCohort, Booting, BudgetInv
      <3>2. CASE \E p \in Candidates : count < Droppers[kingdom] /\ Enqueue(p)
        <4>1. PICK p \in Candidates : count < Droppers[kingdom] /\ Enqueue(p)
          BY <3>2
        <4>2. p \in Registered /\ Empire[p] = kingdom
          BY DEF Candidates
        <4>3. /\ scheduled' \cup late' = scheduled \cup late \cup {p} /\ count' = count + 1
              /\ UNCHANGED <<pc, ret, kingdom>>
          BY <4>1 DEF Enqueue
        <4> QED BY <3>1, <4>1, <4>2, <4>3, <1>a, TakingKeepsBudget
      <3>3. CASE \/ SizeBatchesThen("cohort")
                 \/ /\ Droppers[kingdom] = 0 \/ \A p \in Registered : Empire[p] # kingdom
                    /\ Goto("cohort") /\ UNCHANGED <<queue, batchIn, count, kingdom, ret>>
        <4>1. UNCHANGED <<registry, scheduled, late, kingdom>>
          BY <3>1, <3>3 DEF SizeBatchesThen, queue
        <4>2. \A k : Size(k)' = Size(k) /\ Size(k) \in Nat
          BY <4>1, <1>a, SizeType DEF Size
        <4>3. /\ kingdom \in 1..Kingdoms /\ Droppers[kingdom] \in Nat /\ Want[kingdom] \in Nat
              /\ count \in Nat
          BY <1>a, BudgetAssumption DEF ListType
        <4>4. CASE SizeBatchesThen("cohort")
          <5>1. pc' = "batchEnter" /\ ret' = "cohort" /\ count' = 0
            BY <4>4 DEF SizeBatchesThen, Call
          <5>2. Size(kingdom) <= Droppers[kingdom]
            BY <3>1, <4>2, <4>3 DEF Stage
          <5>3. Stage'
            BY <3>1, <4>1, <4>2, <4>3, <5>1, <5>2 DEF Stage
          <5> QED BY <3>1, <4>1, <4>2, <5>3 DEF BudgetInv, Budget
        <4>5. CASE /\ Droppers[kingdom] = 0 \/ \A p \in Registered : Empire[p] # kingdom
                   /\ Goto("cohort") /\ UNCHANGED <<queue, batchIn, count, kingdom, ret>>
          <5>1. pc' = "cohort" /\ count' = count /\ kingdom' = kingdom
            BY <4>5 DEF Goto
          <5>2. Size(kingdom) <= Droppers[kingdom] + count
            BY <3>1, <4>2, <4>3 DEF Stage
          <5>3. count <= Want[kingdom] \/ \A p \in Registered : Empire[p] # kingdom
            BY <3>1, <4>3, <4>5 DEF Stage
          <5>4. Stage'
            BY <3>1, <4>1, <4>2, <4>3, <5>1, <5>2, <5>3 DEF Stage
          <5> QED BY <3>1, <4>1, <4>2, <5>4 DEF BudgetInv, Budget
        <4> QED BY <3>3, <4>4, <4>5
      <3>4. Droppers[kingdom] \in Nat
        BY <1>a, BudgetAssumption DEF ListType
      <3> QED BY <2>2, <3>2, <3>3, <3>4 DEF SpawnMedalDropperCohort
    <2>3. CASE SpawnRegistered
      <3>1. Booting /\ Stage /\ registry' = registry /\ pc = "cohort" /\ kingdom \in Hosted
        BY <2>3 DEF SpawnRegistered, Booting, BudgetInv, Stage
      <3>2. CASE \E p \in Candidates : count < Want[kingdom] /\ Enqueue(p)
        <4>1. PICK p \in Candidates : count < Want[kingdom] /\ Enqueue(p)
          BY <3>2
        <4>2. p \in Registered /\ Empire[p] = kingdom
          BY DEF Candidates
        <4>3. /\ scheduled' \cup late' = scheduled \cup late \cup {p} /\ count' = count + 1
              /\ UNCHANGED <<pc, ret, kingdom>>
          BY <4>1 DEF Enqueue
        <4> QED BY <3>1, <4>1, <4>2, <4>3, <1>a, TakingKeepsBudget
      <3>3. CASE ToNextKingdom /\ UNCHANGED <<queue, batchIn>>
        BY <3>1, <3>3, <1>a, NextKingdomKeepsBudget DEF queue
      <3>4. CASE SizeBatchesThen("joiners")
        <4>1. /\ UNCHANGED <<registry, scheduled, late, kingdom>>
              /\ pc' = "batchEnter" /\ ret' = "joiners" /\ count' = 0
          BY <3>1, <3>4 DEF SizeBatchesThen, Call
        <4>2. \A k : Size(k)' = Size(k) /\ Size(k) \in Nat
          BY <4>1, <1>a, SizeType DEF Size
        <4>3. /\ kingdom \in 1..Kingdoms /\ Droppers[kingdom] \in Nat /\ Want[kingdom] \in Nat
              /\ count \in Nat
          BY <1>a, BudgetAssumption DEF ListType
        <4>4. Size(kingdom) <= Droppers[kingdom] + Want[kingdom]
          <5>1. CASE count <= Want[kingdom]
            BY <3>1, <4>2, <4>3, <5>1 DEF Stage
          <5>2. CASE \A p \in Registered : Empire[p] # kingdom
            <6>1. {p \in scheduled \cup late : Empire[p] = kingdom} = {}
              BY <5>2, <1>a DEF ListType
            <6>2. Size(kingdom) = 0
              BY <6>1, FS_EmptySet DEF Size
            <6> QED BY <6>2, <4>3
          <5> QED BY <3>1, <5>1, <5>2 DEF Stage
        <4>5. Stage'
          BY <3>1, <4>1, <4>2, <4>3, <4>4 DEF Stage
        <4> QED BY <3>1, <4>1, <4>2, <4>5 DEF BudgetInv, Budget
      <3> QED BY <2>3, <3>2, <3>3, <3>4 DEF SpawnRegistered
    <2>4. CASE ScheduleLateJoiners
      <3>1. Booting /\ registry' = registry /\ scheduled' = scheduled /\ pc = "joiners"
        BY <2>4 DEF ScheduleLateJoiners, Booting
      <3>2. kingdom \in Hosted
        BY <3>1 DEF BudgetInv, Stage
      <3>3. CASE \E p \in Candidates : /\ count < Late[kingdom] /\ late' = late \cup {p}
                                       /\ count' = count + 1 /\ UNCHANGED <<pc, ret, kingdom>>
        <4>1. PICK p \in Candidates : /\ count < Late[kingdom] /\ late' = late \cup {p}
                                     /\ count' = count + 1 /\ UNCHANGED <<pc, ret, kingdom>>
          BY <3>3
        <4>2. p \in Registered /\ Empire[p] = kingdom
          BY DEF Candidates
        <4>3. scheduled' \cup late' = scheduled \cup late \cup {p}
          BY <3>1, <4>1
        <4> QED BY <3>1, <3>2, <4>1, <4>2, <4>3, <1>a, TakingKeepsBudget
      <3>4. CASE ToNextKingdom /\ UNCHANGED late
        BY <3>1, <3>4, <1>a, NextKingdomKeepsBudget
      <3> QED BY <2>4, <3>3, <3>4 DEF ScheduleLateJoiners
    <2>5. CASE BatchEnter \/ BatchPop \/ BatchDone
      <3>1. UNCHANGED <<registry, scheduled, late, ret, kingdom>>
        BY <2>5 DEF BatchEnter, BatchPop, BatchDone, queue
      <3>2. CASE Booting
        BY <2>5, <3>1, <3>2, <1>a, BatchKeepsBudget
      <3>3. CASE ~Booting
        <4>1. ret \notin {"cohort", "joiners", "droppers"}
          BY <2>5, <3>3, <1>a DEF BatchEnter, BatchPop, BatchDone, Booting, ListType
        <4>2. ~Booting'
          BY <2>5, <3>1, <4>1, <1>a DEF BatchEnter, BatchPop, BatchDone, Booting, Goto, ListType
        <4> QED BY <3>1, <4>2, CalmKeepsBudget
      <3> QED BY <3>2, <3>3
    <2>6. CASE SpawnLateJoiners
      <3>1. pc = "late" /\ UNCHANGED registry /\ pc' \in {"late", "bans"}
        BY <2>6 DEF SpawnLateJoiners, Goto
      <3>2. scheduled' \cup late' = scheduled \cup late
        BY <2>6, <1>a DEF SpawnLateJoiners, queue, ListType
      <3> QED BY <3>1, <3>2, CalmKeepsBudget DEF Booting
    <2>7. CASE RefreshBannedBots \/ EvictBanned
      BY <2>7, <1>b DEF RefreshBannedBots, EvictBanned, Goto, queue
    <2>8. CASE ManageLifeSchedule \/ LifeSessions \/ LifeLeave \/ LifeRests
      BY <2>8, <1>b DEF ManageLifeSchedule, LifeSessions, LifeLeave, LifeRests, Goto, queue
    <2>9. CASE TopUpMissingBots
      BY <2>9, <1>b DEF TopUpMissingBots, Goto, queue
    <2>10. CASE CountMissing
      <3>1. UNCHANGED <<registry, scheduled, late>>
        BY <2>10 DEF CountMissing
      <3>2. pc' \in {"missing", "idle"} \/ (pc' = "batchEnter" /\ ret' = "idle")
        BY <2>10 DEF CountMissing, Call, Goto
      <3> QED BY <3>1, <3>2, CalmKeepsBudget DEF Booting
    <2> QED BY <1>2, <2>1, <2>2, <2>3, <2>4, <2>5, <2>6, <2>7, <2>8, <2>9, <2>10 DEF Handler
  <1>3. CASE Update
    BY <1>3, CalmKeepsBudget DEF Update, Call, Booting, queue
  <1>4. CASE \E h \in Handles, p \in Pids : Answer(h, p)
    BY <1>4, <1>c DEF Answer, Loaded, LoadedElsewhere, LoadFailed, StaleAnswer, NoAnswer, queue
  <1>5. CASE \E h \in Handles : DestroyClosed(h)
    BY <1>5, <1>c DEF DestroyClosed, queue
  <1>6. CASE \E p \in Pids : Kick(p) \/ GmDespawn(p) \/ GmBan(p) \/ HumanParty(p)
    BY <1>6, <1>c DEF Kick, GmDespawn, GmBan, HumanParty, queue
  <1>7. CASE \E p \in Pids, e \in 1..Kingdoms : GmSpawn(p, e)
    BY <1>7, <1>c DEF GmSpawn, queue
  <1>8. CASE \E p \in Pids : SessionOver(p) \/ RestOver(p) \/ LateDue(p)
    BY <1>8, <1>c DEF SessionOver, RestOver, LateDue, queue
  <1>9. CASE SwitchLife
    BY <1>9, <1>c DEF SwitchLife, queue
  <1>10. CASE UNCHANGED vars
    <2>1. UNCHANGED <<registry, scheduled, late, pc, ret, count, kingdom>>
      BY <1>10 DEF vars, queue, loop
    <2>2. \A k : Size(k)' = Size(k)
      BY <2>1 DEF Size
    <2> QED BY <2>1, <2>2 DEF BudgetInv, Budget, Booting, Stage
  <1> QED BY <1>1, <1>2, <1>3, <1>4, <1>5, <1>6, <1>7, <1>8, <1>9, <1>10 DEF Next

\* One bootstrap schedules each kingdom what the operator asked for and no
\* more, however the three functions share the registry's identities.
THEOREM BudgetsHold == Spec /\ "reboot" \notin env => []BudgetKept
  <1> DEFINE Once == "reboot" \notin env
  <1>1. Init => BudgetInv
    <2> SUFFICES ASSUME Init PROVE BudgetInv
      OBVIOUS
    <2>1. \A k : {p \in scheduled \cup late : Empire[p] = k} = {}
      BY DEF Init
    <2>2. \A k : Size(k) = 0
      BY <2>1, FS_EmptySet DEF Size
    <2>3. \A k \in 1..Kingdoms : 0 <= Budget(k)
      BY BudgetAssumption DEF Budget
    <2> QED BY <2>2, <2>3 DEF Init, BudgetInv, Booting
  <1>2. TypeOK /\ TypeOK' /\ Once /\ BudgetInv /\ [Next]_vars => BudgetInv' /\ Once'
    BY NextKeepsBudget, EnvStands
  <1>3. BudgetInv => BudgetKept
    BY DEF BudgetInv, Budget, Size, BudgetKept
  <1>4. Spec /\ Once => []BudgetKept
    <2> HIDE DEF Once
    <2> QED BY <1>1, <1>2, <1>3, TypeCorrect, PTL DEF Spec
  <1> QED BY <1>4

-----------------------------------------------------------------------------
(* What waits in the queue.                                                *)

\* The whole cohort fits into one window of batches.
Covered == Cardinality(scheduled) <= batchSize * Batches

\* The bootstrap is adding to the cohort and will size the batches after it.
Filling ==
  /\ \E p \in Registered : Empire[p] = kingdom
  /\ \/ pc = "droppers" /\ kingdom \in Hosted /\ Droppers[kingdom] > 0
     \/ pc = "cohort" /\ Want[kingdom] > 0

NobodyTwice == \A i, j \in 1..Len(pending) : pending[i] = pending[j] => i = j

WindowInv ==
  /\ late = {}
  /\ Queued \subseteq scheduled /\ NobodyTwice
  /\ pc = "missing" => scan \subseteq scheduled /\ Queued \cap scan = {}
  /\ Covered \/ Filling

\* Rounded up, the batches of one window hold the whole cohort.
LEMMA CeilCovers == \A n \in Nat : n <= BatchFor(n) * Batches
  <1> SUFFICES ASSUME NEW n \in Nat PROVE n <= BatchFor(n) * Batches
    OBVIOUS
  <1>1. Batches \in Nat /\ Batches > 0
    BY TimerAssumption
  <1> DEFINE m == n + Batches - 1
             q == m \div Batches
  <1>2. m \in Nat
    BY <1>1
  <1>3. \A a \in Nat, d \in Nat : d > 0 => a \div d \in Nat /\ a % d \in 0..(d - 1) /\ a = (d * (a \div d)) + (a % d)
    BY SMT
  <1>4. q \in Nat /\ m < Batches * q + Batches
    <2>1. q \in Nat /\ m % Batches \in 0..(Batches - 1) /\ m = (Batches * q) + (m % Batches)
      BY <1>1, <1>2, <1>3
    <2> HIDE DEF m, q
    <2>2. Batches * q \in Nat
      BY <1>1, <2>1
    <2> QED BY <1>1, <2>1, <2>2
  <1>5. n <= q * Batches
    <2>1. Batches * q = q * Batches /\ Batches * q \in Nat
      <3> HIDE DEF q
      <3> QED BY <1>1, <1>4
    <2>2. n + Batches - 1 < Batches * q + Batches
      BY <1>4
    <2> HIDE DEF q
    <2> QED BY <1>1, <2>1, <2>2
  <1>6. CeilDiv(n, Batches) = q
    BY DEF CeilDiv
  <1> HIDE DEF m, q
  <1>7. CASE q < 1
    <2>1. q = 0
      BY <1>4, <1>7
    <2>2. n = 0 /\ BatchFor(n) = 1
      BY <1>1, <1>5, <1>6, <1>7, <2>1 DEF BatchFor
    <2> QED BY <1>1, <2>2
  <1>8. CASE ~(q < 1)
    <2>1. BatchFor(n) = q
      BY <1>6, <1>8 DEF BatchFor
    <2> QED BY <1>5, <2>1
  <1> QED BY <1>7, <1>8

\* A sequence without repetitions is no longer than a set it draws from.
LEMMA Fits ==
  ASSUME NEW S, IsFiniteSet(S), NEW s \in Seq(S),
         \A i, j \in 1..Len(s) : s[i] = s[j] => i = j
  PROVE  Len(s) <= Cardinality(S)
  <1>1. Len(s) \in Nat /\ s \in [1..Len(s) -> S]
    OBVIOUS
  <1>2. s \in Injection(1..Len(s), S)
    BY <1>1 DEF Injection, IsInjective
  <1>3. Cardinality(1..Len(s)) = Len(s)
    BY <1>1, FS_Interval
  <1> QED BY <1>2, <1>3, FS_Injection

LEMMA AppendOnce ==
  ASSUME NEW S, NEW s \in Seq(S), NEW p \in S,
         \A i, j \in 1..Len(s) : s[i] = s[j] => i = j,
         \A i \in 1..Len(s) : s[i] # p
  PROVE  LET t == Append(s, p)
         IN  /\ \A i, j \in 1..Len(t) : t[i] = t[j] => i = j
             /\ {t[i] : i \in 1..Len(t)} = {s[i] : i \in 1..Len(s)} \cup {p}
  <1> DEFINE t == Append(s, p)
  <1>1. /\ Len(t) = Len(s) + 1 /\ t[Len(t)] = p /\ Len(s) \in Nat
        /\ \A i \in 1..Len(s) : t[i] = s[i]
    OBVIOUS
  <1> HIDE DEF t
  <1>2. \A i \in 1..Len(t) : i \in 1..Len(s) \/ i = Len(t)
    BY <1>1
  <1>3. \A i, j \in 1..Len(t) : t[i] = t[j] => i = j
    BY <1>1, <1>2
  <1>4. {t[i] : i \in 1..Len(t)} = {s[i] : i \in 1..Len(s)} \cup {p}
    BY <1>1, <1>2
  <1> QED BY <1>3, <1>4 DEF t

LEMMA TailOnce ==
  ASSUME NEW S, NEW s \in Seq(S), s # <<>>,
         \A i, j \in 1..Len(s) : s[i] = s[j] => i = j
  PROVE  LET t == Tail(s)
         IN  /\ \A i, j \in 1..Len(t) : t[i] = t[j] => i = j
             /\ {t[i] : i \in 1..Len(t)} \subseteq {s[i] : i \in 1..Len(s)}
  <1> DEFINE t == Tail(s)
  <1>1. /\ Len(s) \in Nat /\ Len(s) > 0 /\ Len(t) = Len(s) - 1
        /\ \A i \in 1..Len(t) : t[i] = s[i + 1] /\ i + 1 \in 1..Len(s)
    OBVIOUS
  <1> HIDE DEF t
  <1>2. \A i, j \in 1..Len(t) : t[i] = t[j] => i = j
    BY <1>1
  <1>3. {t[i] : i \in 1..Len(t)} \subseteq {s[i] : i \in 1..Len(s)}
    BY <1>1
  <1> QED BY <1>2, <1>3 DEF t

\* Steps that leave the queue alone and end where no loop fills it.
LEMMA IdleKeepsWindow ==
  ASSUME WindowInv, UNCHANGED <<scheduled, pending, late, batchSize>>,
         pc' # "missing", ~Filling
  PROVE  WindowInv'
  BY DEF WindowInv, Queued, NobodyTwice, Covered, Filling

\* The bootstrap only takes who is not scheduled yet, and so not queued.
LEMMA EnqueueKeepsWindow ==
  ASSUME ListType, WindowInv, NEW p \in Candidates, Enqueue(p),
         (pc = "droppers" /\ kingdom \in Hosted /\ Droppers[kingdom] > 0) \/ (pc = "cohort" /\ Want[kingdom] > 0)
  PROVE  WindowInv'
  <1>1. /\ pending' = Append(pending, p) /\ scheduled' = scheduled \cup {p}
        /\ UNCHANGED <<late, pc, kingdom>>
        /\ p \in Registered /\ Empire[p] = kingdom /\ p \notin scheduled
    BY DEF Enqueue, Candidates
  <1>2. \A i \in 1..Len(pending) : pending[i] # p
    BY <1>1 DEF WindowInv, Queued
  <1>3. NobodyTwice' /\ Queued' = Queued \cup {p}
    BY <1>1, <1>2, AppendOnce DEF WindowInv, NobodyTwice, Queued, ListType
  <1>4. Filling'
    BY <1>1 DEF Filling
  <1> QED BY <1>1, <1>3, <1>4 DEF WindowInv

\* Once the batches are sized, the cohort fits.
LEMMA SizedKeepsWindow ==
  ASSUME ListType, WindowInv, NEW l, SizeBatchesThen(l)
  PROVE  WindowInv'
  <1>1. /\ UNCHANGED <<scheduled, pending, late>> /\ pc' = "batchEnter"
        /\ batchSize' = BatchFor(Cardinality(scheduled))
    BY DEF SizeBatchesThen, Call
  <1>2. Cardinality(scheduled) \in Nat
    BY CohortIsFinite DEF ListType
  <1>3. Covered'
    BY <1>1, <1>2, CeilCovers DEF Covered
  <1> QED BY <1>1, <1>3 DEF WindowInv, Queued, NobodyTwice

\* In cores without late joiners.
LEMMA NextKeepsWindow ==
  ASSUME TypeOK, WindowInv, \A k \in 1..Kingdoms : Late[k] = 0, [Next]_vars
  PROVE  WindowInv'
  <1>a. ListType /\ Registered \subseteq Pids
    BY TypeSplit, RegisteredAssumption
  <1>b. pc \notin {"droppers", "cohort", "missing"} /\ pc' # "missing"
        /\ UNCHANGED <<scheduled, pending, late, batchSize>> => WindowInv'
    BY IdleKeepsWindow DEF Filling
  <1>c. pc = "idle" /\ UNCHANGED <<scheduled, pending, late, batchSize, pc>> => WindowInv'
    BY <1>b
  <1>1. CASE Boot
    BY <1>1, <1>b DEF Boot, Goto, queue
  <1>2. CASE Handler
    <2>1. CASE SkipKingdom
      BY <2>1, IdleKeepsWindow DEF SkipKingdom, ToNextKingdom, Goto, queue, Filling
    <2>2. CASE SpawnMedalDropperCohort
      <3>1. pc = "droppers" /\ kingdom \in Hosted /\ Droppers[kingdom] \in Nat /\ count \in Nat
        BY <2>2, <1>a, BudgetAssumption DEF SpawnMedalDropperCohort, ListType
      <3>2. CASE \E p \in Candidates : count < Droppers[kingdom] /\ Enqueue(p)
        BY <3>1, <3>2, <1>a, EnqueueKeepsWindow
      <3>3. CASE SizeBatchesThen("cohort")
        BY <3>3, <1>a, SizedKeepsWindow
      <3>4. CASE /\ ~(Droppers[kingdom] > 0 /\ \E p \in Registered : Empire[p] = kingdom)
                 /\ Goto("cohort") /\ UNCHANGED <<queue, batchIn, count, kingdom, ret>>
        BY <3>1, <3>4, IdleKeepsWindow DEF Filling, Goto, queue
      <3> QED BY <2>2, <3>2, <3>3, <3>4 DEF SpawnMedalDropperCohort
    <2>3. CASE SpawnRegistered
      <3>1. pc = "cohort" /\ Want[kingdom] \in Nat /\ count \in Nat
        BY <2>3, <1>a, BudgetAssumption DEF SpawnRegistered, ListType
      <3>2. CASE \E p \in Candidates : count < Want[kingdom] /\ Enqueue(p)
        BY <3>1, <3>2, <1>a, EnqueueKeepsWindow
      <3>3. CASE SizeBatchesThen("joiners")
        BY <3>3, <1>a, SizedKeepsWindow
      <3>4. CASE Want[kingdom] = 0 /\ ToNextKingdom /\ UNCHANGED <<queue, batchIn>>
        BY <3>1, <3>4, IdleKeepsWindow DEF Filling, ToNextKingdom, Goto, queue
      <3> QED BY <2>3, <3>2, <3>3, <3>4 DEF SpawnRegistered
    <2>4. CASE ScheduleLateJoiners
      <3>1. Late[kingdom] = 0 /\ count \in Nat
        BY <1>a DEF ListType
      <3>2. ToNextKingdom /\ UNCHANGED late
        BY <2>4, <3>1 DEF ScheduleLateJoiners
      <3> QED BY <2>4, <3>2, <1>b DEF ScheduleLateJoiners, ToNextKingdom, Goto
    <2>5. CASE BatchEnter
      BY <2>5, <1>a, <1>b DEF BatchEnter, Goto, queue, ListType
    <2>6. CASE BatchPop
      <3>1. /\ pc = "batch" /\ pending # <<>> /\ pending' = Tail(pending)
            /\ UNCHANGED <<scheduled, late, batchSize, pc>>
        BY <2>6 DEF BatchPop
      <3>2. NobodyTwice' /\ Queued' \subseteq Queued
        BY <3>1, <1>a, TailOnce DEF WindowInv, NobodyTwice, Queued, ListType
      <3>3. Covered'
        BY <3>1 DEF WindowInv, Covered, Filling
      <3> QED BY <3>1, <3>2, <3>3 DEF WindowInv
    <2>7. CASE BatchDone
      BY <2>7, <1>a, <1>b DEF BatchDone, Goto, queue, ListType
    <2>8. CASE SpawnLateJoiners
      <3>1. lateDue = {}
        BY <1>a DEF WindowInv, ListType
      <3> QED BY <2>8, <3>1, <1>b DEF SpawnLateJoiners, Goto, queue
    <2>9. CASE RefreshBannedBots \/ EvictBanned
      BY <2>9, <1>b DEF RefreshBannedBots, EvictBanned, Goto, queue
    <2>10. CASE ManageLifeSchedule \/ LifeSessions \/ LifeLeave \/ LifeRests
      BY <2>10, <1>b DEF ManageLifeSchedule, LifeSessions, LifeLeave, LifeRests, Goto, queue
    <2>11. CASE TopUpMissingBots
      <3>1. pc = "topup" /\ UNCHANGED <<scheduled, pending, late, batchSize>>
        BY <2>11 DEF TopUpMissingBots, queue
      <3>2. pc' = "missing" => pending = <<>> /\ scan' = scheduled
        BY <2>11 DEF TopUpMissingBots, Goto
      <3>3. pending = <<>> => Queued = {}
        BY DEF Queued
      <3> QED BY <3>1, <3>2, <3>3 DEF WindowInv, Queued, NobodyTwice, Covered, Filling
    <2>12. CASE CountMissing
      <3>1. /\ pc = "missing" /\ Covered /\ UNCHANGED <<scheduled, late>>
            /\ scan \subseteq scheduled /\ Queued \cap scan = {}
        BY <2>12 DEF CountMissing, WindowInv, Filling
      <3>2. CASE \E p \in scan : /\ scan' = scan \ {p} /\ UNCHANGED batchSize
                                 /\ pending' \in {pending, Append(pending, p)}
        <4>1. PICK p \in scan : /\ scan' = scan \ {p} /\ UNCHANGED batchSize
                               /\ pending' \in {pending, Append(pending, p)}
          BY <3>2
        <4>2. p \in Registered /\ \A i \in 1..Len(pending) : pending[i] # p
          BY <3>1, <1>a DEF ListType, Queued
        <4>3. CASE pending' = pending
          BY <3>1, <4>1, <4>3 DEF WindowInv, Queued, NobodyTwice, Covered
        <4>4. CASE pending' = Append(pending, p)
          <5>1. NobodyTwice' /\ Queued' = Queued \cup {p}
            BY <4>2, <4>4, <1>a, AppendOnce DEF WindowInv, NobodyTwice, Queued, ListType
          <5> QED BY <3>1, <4>1, <5>1 DEF WindowInv, Covered
        <4> QED BY <4>1, <4>3, <4>4
      <3>3. CASE /\ UNCHANGED <<scan, pending>> /\ pc' # "missing"
                 /\ (batchSize' = batchSize \/ (batchSize = 0 /\ batchSize' = 1))
        <4>1. Cardinality(scheduled) \in Nat /\ Batches \in Nat
          BY <1>a, CohortIsFinite, TimerAssumption DEF ListType
        <4>2. 0 * Batches = 0 /\ 1 * Batches = Batches
          BY <4>1
        <4>3. Covered'
          BY <3>1, <3>3, <4>1, <4>2 DEF Covered
        <4> QED BY <3>1, <3>3, <4>3 DEF WindowInv, Queued, NobodyTwice
      <3> QED BY <2>12, <3>2, <3>3 DEF CountMissing, Call, Goto
    <2> QED BY <1>2, <2>1, <2>2, <2>3, <2>4, <2>5, <2>6, <2>7, <2>8, <2>9, <2>10, <2>11, <2>12
            DEF Handler
  <1>3. CASE Update
    BY <1>3, <1>b DEF Update, Call, queue
  <1>4. CASE \E h \in Handles, p \in Pids : Answer(h, p)
    BY <1>4, <1>c DEF Answer, Loaded, LoadedElsewhere, LoadFailed, StaleAnswer, NoAnswer, queue
  <1>5. CASE \E h \in Handles : DestroyClosed(h)
    BY <1>5, <1>c DEF DestroyClosed, queue
  <1>6. CASE \E p \in Pids : Kick(p) \/ GmDespawn(p) \/ GmBan(p) \/ HumanParty(p)
    BY <1>6, <1>c DEF Kick, GmDespawn, GmBan, HumanParty, queue
  <1>7. CASE \E p \in Pids, e \in 1..Kingdoms : GmSpawn(p, e)
    BY <1>7, <1>c DEF GmSpawn, queue
  <1>8. CASE \E p \in Pids : SessionOver(p) \/ RestOver(p) \/ LateDue(p)
    BY <1>8, <1>c DEF SessionOver, RestOver, LateDue, queue
  <1>9. CASE SwitchLife
    BY <1>9, <1>c DEF SwitchLife, queue
  <1>10. CASE UNCHANGED vars
    BY <1>10 DEF vars, queue, loop, WindowInv, Queued, NobodyTwice, Covered, Filling
  <1> QED BY <1>1, <1>2, <1>3, <1>4, <1>5, <1>6, <1>7, <1>8, <1>9, <1>10 DEF Next

\* On a core without late joiners nobody is queued twice, and whoever waits when
\* a batch goes out fits into one spawn window of batches.
THEOREM WindowsHold == Spec /\ (\A k \in 1..Kingdoms : Late[k] = 0) => []WindowKept
  <1> SUFFICES ASSUME \A k \in 1..Kingdoms : Late[k] = 0
               PROVE  Spec => []WindowKept
    OBVIOUS
  <1>1. Init => WindowInv
    <2> SUFFICES ASSUME Init PROVE WindowInv
      OBVIOUS
    <2>1. Cardinality(scheduled) = 0 /\ batchSize = 0 /\ Batches \in Nat
      BY FS_EmptySet, TimerAssumption DEF Init
    <2>2. Covered
      BY <2>1 DEF Covered
    <2> QED BY <2>2 DEF Init, WindowInv, Queued, NobodyTwice
  <1>2. TypeOK /\ WindowInv /\ [Next]_vars => WindowInv'
    BY NextKeepsWindow
  <1>3. ASSUME TypeOK, WindowInv PROVE WindowKept
    <2>1. ASSUME pc \in {"idle", "batchEnter"} PROVE Len(pending) <= batchSize * Batches
      <3>1. Covered
        BY <1>3, <2>1 DEF WindowInv, Filling
      <3>2. scheduled \in SUBSET Registered /\ IsFiniteSet(scheduled)
        BY <1>3, PidsAssumption, RegisteredAssumption, FS_Subset DEF TypeOK
      <3>3. pending \in Seq(scheduled)
        BY <1>3 DEF TypeOK, WindowInv, Queued
      <3>4. Len(pending) <= Cardinality(scheduled)
        BY <1>3, <3>2, <3>3, Fits DEF WindowInv, NobodyTwice
      <3>5. Len(pending) \in Nat /\ Cardinality(scheduled) \in Nat /\ batchSize * Batches \in Nat
        BY <1>3, <3>2, <3>3, FS_CardinalityType, TimerAssumption DEF TypeOK
      <3> QED BY <3>1, <3>4, <3>5 DEF Covered
    <2> QED BY <1>3, <2>1 DEF WindowInv, WindowKept, NobodyTwice
  <1> QED BY <1>1, <1>2, <1>3, TypeCorrect, PTL DEF Spec
=============================================================================
