------------------------- MODULE PlayerbotLifecycle -------------------------
(***************************************************************************)
(* CPlayerBotManager (playerbot_manager.cpp): which registered characters  *)
(* a game core puts in the world, keeps there and takes out again.         *)
(*                                                                         *)
(* The core is single threaded.  Its handlers - the MapLocations bootstrap,*)
(* the db core's answers, a GM's commands, the Update event - run          *)
(* to completion one after another, so everything that is not the manager  *)
(* itself moves only while pc is "idle".  A handler with a loop in it is   *)
(* written one iteration per step: pc says where it stands, ret where      *)
(* SpawnPendingBatch returns to.                                           *)
(*                                                                         *)
(* What is abstracted.  Milliseconds become whole passes of Update (four   *)
(* a second): a timer is a countdown and 0 means due.  The lengths of a    *)
(* session, of a rest and of a late joiner's wait become the moment the    *)
(* clock passes them, which the environment chooses.  A descriptor handle  *)
(* is the least one that nothing live and no message in flight still       *)
(* names, which stands for ++m_iHandleCount: an id no earlier one equals.  *)
(***************************************************************************)
EXTENDS Naturals, Sequences, FiniteSets

CONSTANTS
  Pids,         \* character ids a GM may type, bots and people
  Registered,   \* those in the registry (m_setRegisteredBots)
  Empire,       \* the registry's kingdom of each registered id
  Tier,         \* where the registry query's ORDER BY puts each of them
  LowLevel,     \* those saved low enough for the medal droppers
  Kingdoms,     \* how many kingdoms there are, numbered from 1
  Hosted,       \* kingdoms whose village map this core holds
  Want,         \* the cohort asked for, per kingdom
  Droppers,     \* the medal droppers asked for, per kingdom
  Late,         \* the late joiners asked for, per kingdom
  Batches,      \* spawn window / PLAYERBOT_SPAWN_BATCH_INTERVAL
  Second,       \* PLAYERBOT_SPAWN_BATCH_INTERVAL in passes of Update
  Minute,       \* PLAYERBOT_TOPUP_INTERVAL in passes of Update
  Handles,      \* descriptor handles
  MaxStale,     \* bound: requests in flight whose descriptor is gone
  Envs          \* the worlds: which of the environment's moves each has

None == 0       \* pid 0 is refused by Spawn; handle 0 is no descriptor

Moves == {"fail", "lost", "elsewhere", "kick", "gm", "ban", "hiccup",
          "life", "human", "reboot", "noregistry"}

ASSUME PidsAssumption == Pids \subseteq Nat \ {0} /\ IsFiniteSet(Pids)
ASSUME RegisteredAssumption == Registered \subseteq Pids /\ LowLevel \subseteq Registered
ASSUME KingdomAssumption == Kingdoms \in Nat \ {0} /\ Hosted \subseteq 1..Kingdoms
ASSUME EmpireAssumption == /\ Empire \in [Registered -> 1..Kingdoms]
                           /\ Tier \in [Registered -> 0..2]
ASSUME BudgetAssumption == /\ Want \in [1..Kingdoms -> Nat]
                           /\ Droppers \in [1..Kingdoms -> Nat]
                           /\ Late \in [1..Kingdoms -> Nat]
ASSUME TimerAssumption == /\ Batches \in Nat \ {0} /\ Second \in Nat \ {0}
                          /\ Minute \in Nat \ {0} /\ MaxStale \in Nat
ASSUME HandlesAssumption == Handles \subseteq Nat \ {0} /\ IsFiniteSet(Handles)
ASSUME EnvsAssumption == Envs \subseteq SUBSET Moves

VARIABLES
  env,          \* the world this is; it never changes
  registry,     \* "unread", "ok" or "refused": m_bRegistryLoaded/Available
  bots,         \* m_mapBots: pid -> handle of its descriptor, or None
  handles,      \* m_mapHandles: handle -> pid, or None
  phase,        \* of each descriptor: "none", "login", "game" or "close"
  char,         \* d->GetCharacter(): handle -> pid of its character, or None
  loads,        \* BOT_PLAYER_LOAD requests and answers in flight, <<handle, pid>>
  scheduled,    \* m_setScheduledBots
  pending,      \* m_dequePendingSpawns
  late,         \* m_dequeLateJoiners: the ids in it
  lateDue,      \* those of them whose moment has come
  batchSize,    \* m_uSpawnBatchSize
  batchIn, topUpIn, banIn, lifeIn,   \* passes until each timer is due
  updateOn,     \* s_pkPlayerBotUpdateEvent exists
  blocked,      \* account.account_block: what the GMs have banned
  banned,       \* m_setBannedBots: the manager's copy of it
  lifeOn,       \* the LIFE switch of the weights file
  session,      \* m_mapLifeSessionEnd: "none", "running" or "over"
  rest,         \* m_mapLifeRestEnd: "none", "running" or "over"
  returning,    \* m_setLifeReturning
  humanLed,     \* ids whose party a person leads
  pc, ret,      \* where the running handler stands; SpawnPendingBatch's return
  scan,         \* ids the running loop has still to look at
  count,        \* ids the running loop has taken
  leaving,      \* ManageLifeSchedule's vector of the same name
  kingdom       \* the bootstrap's loop variable

world  == <<bots, handles, phase, char, loads>>
queue  == <<scheduled, pending, late, lateDue, batchSize>>
timers == <<topUpIn, banIn, lifeIn>>
bans   == <<blocked, banned>>
life   == <<lifeOn, session, rest, returning, humanLed>>
loop   == <<scan, count, leaving, kingdom>>
vars   == <<env, registry, world, queue, batchIn, timers, updateOn, bans, life,
            pc, ret, loop>>

-----------------------------------------------------------------------------
(* What the handlers ask.                                                  *)

Managed == {p \in Pids : bots[p] # None}
InWorld(p) == \E h \in Handles : char[h] = p
Resting(p) == rest[p] # "none"
Loading(p) == bots[p] # None /\ char[bots[p]] = None
InGame(p) == bots[p] # None /\ char[bots[p]] = p /\ phase[bots[p]] = "game"
Queued == {pending[i] : i \in 1..Len(pending)}
Stale == {m \in loads : phase[m[1]] = "none"}
StaleRoom == Cardinality(Stale) + Cardinality({p \in Pids : session[p] = "over"}) < MaxStale

Places == {"idle", "droppers", "cohort", "joiners", "batchEnter", "batch", "late",
           "bans", "evict", "life", "sessions", "leave", "rests", "topup", "missing"}

Least(p, S) == p \in S /\ \A q \in S : p <= q
Greatest(p, S) == p \in S /\ \A q \in S : q <= p

\* Mutant: an id some request in flight still names.
UnusedByDescriptors == {h \in Handles : phase[h] = "none"}
Unused == {h \in Handles : phase[h] = "none" /\ \A m \in loads : m[1] # h}

-----------------------------------------------------------------------------
(* Spawn and the ways a descriptor goes.                                   *)

\* Mutant: without IsManaged.
MaySpawnAgain(p, e) ==
  registry = "ok" /\ p \in Registered /\ e \in {0, Empire[p]} /\ ~InWorld(p)

\* e = 0 asks for the registry's own kingdom.
MaySpawn(p, e) ==
  /\ registry = "ok" /\ p \in Registered
  /\ e \in {0, Empire[p]}
  /\ bots[p] = None /\ ~InWorld(p)

Request(p) ==
  \E h \in Handles :
    /\ Least(h, Unused)
    /\ bots' = [bots EXCEPT ![p] = h]
    /\ handles' = [handles EXCEPT ![h] = p]
    /\ phase' = [phase EXCEPT ![h] = "login"]
    /\ loads' = loads \cup {<<h, p>>}
    /\ UNCHANGED char

Spawn(p, e) == IF MaySpawn(p, e) THEN Request(p) ELSE UNCHANGED world

\* Mutant: without m_mapHandles.erase.
DropDescriptor(h, p) ==
  /\ bots' = [bots EXCEPT ![p] = None]
  /\ phase' = [phase EXCEPT ![h] = "none"]
  /\ char' = [char EXCEPT ![h] = None]
  /\ UNCHANGED handles

\* DestroyDesc with OnDescriptorDestroyed: the descriptor, its character and
\* both of the manager's entries.
Drop(h, p) ==
  /\ bots' = [bots EXCEPT ![p] = None]
  /\ handles' = [handles EXCEPT ![h] = None]
  /\ phase' = [phase EXCEPT ![h] = "none"]
  /\ char' = [char EXCEPT ![h] = None]

Despawn(p) == bots[p] # None /\ Drop(bots[p], p) /\ UNCHANGED loads

Goto(l) == pc' = l
Call(l) == pc' = "batchEnter" /\ ret' = l

-----------------------------------------------------------------------------
(* The bootstrap: CInputDB::MapLocations, SpawnMedalDropperCohort,         *)
(* SpawnRegistered and ScheduleLateJoiners, kingdom after kingdom.         *)

\* The registry is read once.  If the query fails or names nobody this core
\* runs no bots, and does not read it again.
LoadRegisteredBots ==
  \E r \in {"ok"} \cup (IF "noregistry" \in env THEN {"refused"} ELSE {}) :
    registry' = IF registry = "unread" THEN r ELSE registry

\* MapLocations arrives at every connect of a core to the db core; only an
\* empty manager answers it.
Boot ==
  /\ pc = "idle" /\ Managed = {}
  /\ registry = "unread" \/ "reboot" \in env
  /\ LoadRegisteredBots
  /\ Goto(IF registry' = "ok" THEN "droppers" ELSE "idle")
  /\ kingdom' = 1 /\ count' = 0
  /\ UNCHANGED <<env, world, queue, batchIn, timers, updateOn, bans, life, ret, scan,
                 leaving>>

ToNextKingdom ==
  /\ count' = 0
  /\ IF kingdom < Kingdoms
     THEN Goto("droppers") /\ kingdom' = kingdom + 1
     ELSE Goto("idle") /\ UNCHANGED kingdom
  /\ UNCHANGED ret

\* Mutant: the registry's prefix, of whichever kingdom.
CandidatesOfAll == Registered \ scheduled
\* Ids the loop of the running function may still take.
Candidates ==
  {p \in Registered : Empire[p] = kingdom /\ p \notin scheduled}

\* The batch size that fits the whole cohort into the window.
CeilDiv(n, d) == (n + d - 1) \div d
BatchFor(n) == IF CeilDiv(n, Batches) < 1 THEN 1 ELSE CeilDiv(n, Batches)

\* What SpawnMedalDropperCohort and SpawnRegistered end with.
SizeBatchesThen(l) ==
  /\ batchSize' = BatchFor(Cardinality(scheduled))
  /\ batchIn' = 0 /\ count' = 0
  /\ Call(l)
  /\ UNCHANGED <<scheduled, pending, late, lateDue, kingdom>>

Enqueue(p) ==
  /\ pending' = Append(pending, p)
  /\ scheduled' = scheduled \cup {p}
  /\ count' = count + 1
  /\ UNCHANGED <<late, lateDue, batchSize, batchIn, pc, ret, kingdom>>

SkipKingdom ==
  /\ pc = "droppers" /\ kingdom \notin Hosted
  /\ ToNextKingdom
  /\ UNCHANGED <<env, registry, world, queue, batchIn, timers, updateOn, bans, life, scan, leaving>>

SpawnMedalDropperCohort ==
  /\ pc = "droppers" /\ kingdom \in Hosted
  /\ \/ /\ count < Droppers[kingdom]
        /\ \E p \in Candidates : Greatest(p, Candidates \cap LowLevel) /\ Enqueue(p)
     \/ /\ count = Droppers[kingdom] \/ Candidates \cap LowLevel = {}
        /\ IF Droppers[kingdom] > 0 /\ \E p \in Registered : Empire[p] = kingdom
           THEN SizeBatchesThen("cohort")
           ELSE Goto("cohort") /\ UNCHANGED <<queue, batchIn, count, kingdom, ret>>
  /\ UNCHANGED <<env, registry, world, timers, updateOn, bans, life, scan, leaving>>

\* A kingdom with no budget gets no late joiners either.
SpawnRegistered ==
  /\ pc = "cohort"
  /\ \/ /\ Want[kingdom] = 0
        /\ ToNextKingdom
        /\ UNCHANGED <<queue, batchIn>>
     \/ /\ count < Want[kingdom]
        /\ \E p \in Candidates : Least(p, Candidates) /\ Enqueue(p)
     \/ /\ Want[kingdom] > 0
        /\ count = Want[kingdom] \/ Candidates = {}
        /\ SizeBatchesThen("joiners")
  /\ UNCHANGED <<env, registry, world, timers, updateOn, bans, life, scan, leaving>>

ScheduleLateJoiners ==
  /\ pc = "joiners"
  /\ \/ /\ count < Late[kingdom]
        /\ \E p \in Candidates \ late :
             /\ Least(p, Candidates \ late)
             /\ late' = late \cup {p}
        /\ count' = count + 1
        /\ UNCHANGED <<pc, ret, kingdom>>
     \/ /\ count = Late[kingdom] \/ Candidates \subseteq late
        /\ ToNextKingdom
        /\ UNCHANGED late
  /\ UNCHANGED <<env, registry, world, scheduled, pending, lateDue, batchSize, batchIn,
                 timers, updateOn, bans, life, scan, leaving>>

-----------------------------------------------------------------------------
(* SpawnPendingBatch.                                                      *)

BatchEnter ==
  /\ pc = "batchEnter"
  /\ IF pending = <<>> \/ batchIn > 0
     THEN Goto(ret) /\ UNCHANGED <<batchIn, count>>
     ELSE Goto("batch") /\ batchIn' = Second /\ count' = 0
  /\ UNCHANGED <<env, registry, world, queue, timers, updateOn, bans, life,
                 ret, scan, leaving, kingdom>>

\* Mutants: without the look at the bans, and at the rests.
BatchPopBanned ==
  /\ pc = "batch" /\ pending # <<>> /\ count < batchSize
  /\ pending' = Tail(pending)
  /\ IF Resting(Head(pending)) THEN UNCHANGED <<world, count>>
     ELSE Spawn(Head(pending), 0) /\ count' = count + 1
  /\ UNCHANGED <<env, registry, scheduled, late, lateDue, batchSize, batchIn, timers, updateOn,
                 bans, life, pc, ret, scan, leaving, kingdom>>
BatchPopResting ==
  /\ pc = "batch" /\ pending # <<>> /\ count < batchSize
  /\ pending' = Tail(pending)
  /\ IF Head(pending) \in banned THEN UNCHANGED <<world, count>>
     ELSE Spawn(Head(pending), 0) /\ count' = count + 1
  /\ UNCHANGED <<env, registry, scheduled, late, lateDue, batchSize, batchIn, timers, updateOn,
                 bans, life, pc, ret, scan, leaving, kingdom>>

\* A banned or a resting one is dropped and does not count as sent.
BatchPop ==
  /\ pc = "batch" /\ pending # <<>> /\ count < batchSize
  /\ pending' = Tail(pending)
  /\ IF Head(pending) \in banned \/ Resting(Head(pending))
     THEN UNCHANGED <<world, count>>
     ELSE Spawn(Head(pending), 0) /\ count' = count + 1
  /\ UNCHANGED <<env, registry, scheduled, late, lateDue, batchSize, batchIn, timers, updateOn,
                 bans, life, pc, ret, scan, leaving, kingdom>>

BatchDone ==
  /\ pc = "batch" /\ (pending = <<>> \/ count >= batchSize)
  /\ Goto(ret) /\ count' = 0
  /\ UNCHANGED <<env, registry, world, queue, batchIn, timers, updateOn, bans, life,
                 ret, scan, leaving, kingdom>>

-----------------------------------------------------------------------------
(* Update: batch, late joiners, bans, life, top-up - in this order.        *)

Less(n) == IF n > 0 THEN n - 1 ELSE 0

Update ==
  /\ pc = "idle" /\ updateOn
  /\ batchIn' = Less(batchIn) /\ topUpIn' = Less(topUpIn)
  /\ banIn' = Less(banIn) /\ lifeIn' = Less(lifeIn)
  /\ Call("late")
  /\ UNCHANGED <<env, registry, world, queue, updateOn, bans, life, loop>>

\* Mutant: the late joiner is spawned without being scheduled.
SpawnLateJoinersUnscheduled ==
  /\ pc = "late"
  /\ \/ \E p \in lateDue :
          /\ Least(p, lateDue)
          /\ late' = late \ {p} /\ lateDue' = lateDue \ {p}
          /\ IF p \in scheduled \/ p \in banned \/ Resting(p)
             THEN UNCHANGED world
             ELSE Spawn(p, 0)
          /\ UNCHANGED <<scheduled, pending, batchSize, pc>>
     \/ lateDue = {} /\ Goto("bans") /\ UNCHANGED <<world, queue>>
  /\ UNCHANGED <<env, registry, batchIn, timers, updateOn, bans, life, ret, loop>>

\* One due late joiner, who is the cohort's from here on.
SpawnLateJoiners ==
  /\ pc = "late"
  /\ \/ \E p \in lateDue :
          /\ Least(p, lateDue)
          /\ late' = late \ {p} /\ lateDue' = lateDue \ {p}
          /\ scheduled' = scheduled \cup {p}
          /\ IF p \in scheduled \/ p \in banned \/ Resting(p)
             THEN UNCHANGED world
             ELSE Spawn(p, 0)
          /\ UNCHANGED <<pending, batchSize, pc>>
     \/ lateDue = {} /\ Goto("bans") /\ UNCHANGED <<world, queue>>
  /\ UNCHANGED <<env, registry, batchIn, timers, updateOn, bans, life, ret, loop>>

\* Mutant: the new set is added to the old one.
RefreshBannedBotsForever ==
  /\ pc = "bans"
  /\ \/ /\ banIn > 0
        /\ Goto("life") /\ UNCHANGED <<banIn, banned, scan>>
     \/ /\ banIn = 0
        /\ banIn' = Minute
        /\ banned' = banned \cup (blocked \cap Registered)
        /\ scan' = banned' /\ Goto("evict")
  /\ UNCHANGED <<env, registry, world, queue, batchIn, topUpIn, lifeIn, updateOn,
                 blocked, life, ret, count, leaving, kingdom>>

\* The query's failure leaves the set as it was.
RefreshBannedBots ==
  /\ pc = "bans"
  /\ \/ /\ banIn > 0
        /\ Goto("life") /\ UNCHANGED <<banIn, banned, scan>>
     \/ /\ banIn = 0 /\ "hiccup" \in env
        /\ banIn' = Minute /\ Goto("life") /\ UNCHANGED <<banned, scan>>
     \/ /\ banIn = 0
        /\ banIn' = Minute
        /\ banned' = blocked \cap Registered
        /\ scan' = banned' /\ Goto("evict")
  /\ UNCHANGED <<env, registry, world, queue, batchIn, topUpIn, lifeIn, updateOn,
                 blocked, life, ret, count, leaving, kingdom>>

\* Mutant: the refresh only keeps them from being spawned again.
EvictNobody ==
  /\ pc = "evict"
  /\ scan' = {} /\ Goto("life")
  /\ UNCHANGED <<env, registry, world, queue, batchIn, timers, updateOn, bans, life,
                 ret, count, leaving, kingdom>>

EvictBanned ==
  /\ pc = "evict"
  /\ \/ \E p \in scan :
          /\ Least(p, scan) /\ scan' = scan \ {p}
          /\ IF InWorld(p) /\ bots[p] # None THEN Despawn(p) ELSE UNCHANGED world
          /\ UNCHANGED pc
     \/ scan = {} /\ Goto("life") /\ UNCHANGED <<world, scan>>
  /\ UNCHANGED <<env, registry, queue, batchIn, timers, updateOn, bans, life,
                 ret, count, leaving, kingdom>>

\* Off: every session and rest is forgotten and the top-up is due at once.
ManageLifeSchedule ==
  /\ pc = "life"
  /\ IF lifeIn > 0
     THEN Goto("topup") /\ UNCHANGED <<lifeIn, topUpIn, session, rest, returning, scan>>
     ELSE /\ lifeIn' = Minute
          /\ IF lifeOn
             THEN /\ Goto("sessions") /\ scan' = Managed
                  /\ UNCHANGED <<topUpIn, session, rest, returning>>
             ELSE /\ topUpIn' = IF /\ returning = {}
                                   /\ \A p \in Pids : session[p] = "none" /\ ~Resting(p)
                                THEN topUpIn ELSE 0
                  /\ session' = [p \in Pids |-> "none"]
                  /\ rest' = [p \in Pids |-> "none"]
                  /\ returning' = {}
                  /\ Goto("topup") /\ UNCHANGED scan
  /\ UNCHANGED <<env, registry, world, queue, batchIn, banIn, updateOn, bans, lifeOn,
                 humanLed, ret, count, leaving, kingdom>>

\* The first loop: a session for whoever has none, ten minutes more for
\* whoever a person leads, and the rest of those whose session is over leave.
LifeSessions ==
  /\ pc = "sessions"
  /\ \/ \E p \in scan :
          /\ Least(p, scan) /\ scan' = scan \ {p}
          /\ CASE session[p] = "none" ->
                    /\ session' = [session EXCEPT ![p] = "running"]
                    /\ returning' = returning \ {p}
                    /\ UNCHANGED leaving
               [] session[p] = "over" /\ ~Loading(p) /\ p \in humanLed ->
                    /\ session' = [session EXCEPT ![p] = "running"]
                    /\ UNCHANGED <<returning, leaving>>
               [] session[p] = "over" /\ (Loading(p) \/ p \notin humanLed) ->
                    leaving' = leaving \cup {p} /\ UNCHANGED <<session, returning>>
               [] session[p] = "running" -> UNCHANGED <<session, returning, leaving>>
          /\ UNCHANGED pc
     \/ scan = {} /\ Goto("leave") /\ UNCHANGED <<session, returning, leaving, scan>>
  /\ UNCHANGED <<env, registry, world, queue, batchIn, timers, updateOn, bans, lifeOn, rest,
                 humanLed, ret, count, kingdom>>

LifeLeave ==
  /\ pc = "leave"
  /\ \/ \E p \in leaving :
          /\ Least(p, leaving) /\ leaving' = leaving \ {p}
          /\ session' = [session EXCEPT ![p] = "none"]
          /\ IF bots[p] # None
             THEN Despawn(p) /\ rest' = [rest EXCEPT ![p] = "running"]
             ELSE UNCHANGED <<world, rest>>
          /\ UNCHANGED pc
     \/ leaving = {} /\ Goto("rests") /\ UNCHANGED <<world, session, rest, leaving>>
  /\ UNCHANGED <<env, registry, queue, batchIn, timers, updateOn, bans, lifeOn, returning,
                 humanLed, ret, scan, count, kingdom>>

\* Mutant: who is back stays on the resting list.
LifeRestsOn ==
  /\ pc = "rests"
  /\ LET back == {p \in Pids : rest[p] = "over"}
     IN  /\ returning' = returning \cup back
         /\ topUpIn' = IF back = {} THEN topUpIn ELSE 0
  /\ session' = [p \in Pids |-> IF bots[p] = None THEN "none" ELSE session[p]]
  /\ Goto("topup")
  /\ UNCHANGED <<env, registry, world, queue, batchIn, banIn, lifeIn, updateOn, bans,
                 lifeOn, rest, humanLed, ret, loop>>

\* The last two loops: who is back from a rest, and whose session is stale.
LifeRests ==
  /\ pc = "rests"
  /\ LET back == {p \in Pids : rest[p] = "over"}
     IN  /\ rest' = [p \in Pids |-> IF p \in back THEN "none" ELSE rest[p]]
         /\ returning' = returning \cup back
         /\ topUpIn' = IF back = {} THEN topUpIn ELSE 0
  /\ session' = [p \in Pids |-> IF bots[p] = None THEN "none" ELSE session[p]]
  /\ Goto("topup")
  /\ UNCHANGED <<env, registry, world, queue, batchIn, banIn, lifeIn, updateOn, bans,
                 lifeOn, humanLed, ret, loop>>

\* Mutant: a queue that is still draining is filled again.
TopUpDrainingQueue ==
  /\ pc = "topup"
  /\ IF scheduled = {} \/ topUpIn > 0
     THEN Goto("idle") /\ UNCHANGED <<topUpIn, scan>>
     ELSE topUpIn' = Minute /\ scan' = scheduled /\ Goto("missing")
  /\ UNCHANGED <<env, registry, world, queue, batchIn, banIn, lifeIn, updateOn, bans, life,
                 ret, count, leaving, kingdom>>

TopUpMissingBots ==
  /\ pc = "topup"
  /\ IF scheduled = {} \/ pending # <<>> \/ topUpIn > 0
     THEN Goto("idle") /\ UNCHANGED <<topUpIn, scan>>
     ELSE topUpIn' = Minute /\ scan' = scheduled /\ Goto("missing")
  /\ UNCHANGED <<env, registry, world, queue, batchIn, banIn, lifeIn, updateOn, bans, life,
                 ret, count, leaving, kingdom>>

CountMissing ==
  /\ pc = "missing"
  /\ \/ \E p \in scan :
          /\ Least(p, scan) /\ scan' = scan \ {p}
          /\ pending' = IF InWorld(p) \/ p \in banned \/ Resting(p)
                        THEN pending ELSE Append(pending, p)
          /\ UNCHANGED <<pc, ret, batchIn, batchSize>>
     \/ /\ scan = {}
        /\ IF pending = <<>>
           THEN Goto("idle") /\ UNCHANGED <<ret, batchIn, batchSize>>
           ELSE /\ Call("idle") /\ batchIn' = 0
                /\ batchSize' = IF batchSize = 0 THEN 1 ELSE batchSize
        /\ UNCHANGED <<scan, pending>>
  /\ UNCHANGED <<env, registry, world, scheduled, late, lateDue, timers, updateOn,
                 bans, life, count, leaving, kingdom>>

-----------------------------------------------------------------------------
(* The db core's answers, found by handle.  An answer whose descriptor is  *)
(* gone finds nothing and is dropped.                                      *)

\* PlayerLoad, and for a bot OnPlayerLoaded, which starts the update event.
Loaded(h, p) ==
  /\ pc = "idle" /\ <<h, p>> \in loads /\ phase[h] # "none"
  /\ loads' = loads \ {<<h, p>>}
  /\ IF char[h] # None \/ phase[h] = "game" \/ InWorld(p)
     THEN UNCHANGED <<char, phase, updateOn>>
     ELSE /\ char' = [char EXCEPT ![h] = p]
          /\ phase' = [phase EXCEPT ![h] = "game"]
          /\ updateOn' = TRUE
  /\ UNCHANGED <<env, registry, bots, handles, queue, batchIn, timers, bans, life, pc, ret, loop>>

\* The map it was saved on is another core's: a character, and the descriptor
\* is closing.
LoadedElsewhere(h, p) ==
  /\ pc = "idle" /\ <<h, p>> \in loads /\ "elsewhere" \in env
  /\ phase[h] # "none" /\ char[h] = None /\ ~InWorld(p)
  /\ loads' = loads \ {<<h, p>>}
  /\ char' = [char EXCEPT ![h] = p]
  /\ phase' = [phase EXCEPT ![h] = "close"]
  /\ UNCHANGED <<env, registry, bots, handles, queue, batchIn, timers, updateOn, bans, life,
                 pc, ret, loop>>

\* Mutant: the failure is only logged.
LoadFailedLogged(h, p) ==
  /\ pc = "idle" /\ <<h, p>> \in loads /\ "fail" \in env /\ phase[h] # "none"
  /\ loads' = loads \ {<<h, p>>}
  /\ UNCHANGED <<env, registry, bots, handles, phase, char, queue, batchIn, timers, updateOn,
                 bans, life, pc, ret, loop>>

\* PLAYER_LOAD_FAILED: OnLoadFailed.
LoadFailed(h, p) ==
  /\ pc = "idle" /\ <<h, p>> \in loads /\ "fail" \in env /\ phase[h] # "none"
  /\ loads' = loads \ {<<h, p>>}
  /\ IF handles[h] = None
     THEN UNCHANGED <<bots, handles, phase, char>>
     ELSE Drop(h, handles[h])
  /\ UNCHANGED <<env, registry, queue, batchIn, timers, updateOn, bans, life, pc, ret, loop>>

\* Any answer, FindByHandle finds no descriptor for it.
StaleAnswer(h, p) ==
  /\ pc = "idle" /\ <<h, p>> \in loads /\ phase[h] = "none"
  /\ loads' = loads \ {<<h, p>>}
  /\ UNCHANGED <<env, registry, bots, handles, phase, char, queue, batchIn, timers, updateOn,
                 bans, life, pc, ret, loop>>

\* The db core's query failed (a null MYSQL_RES) or its peer went away: the
\* handler returns without an answer.
NoAnswer(h, p) ==
  /\ pc = "idle" /\ <<h, p>> \in loads /\ "lost" \in env
  /\ loads' = loads \ {<<h, p>>}
  /\ UNCHANGED <<env, registry, bots, handles, phase, char, queue, batchIn, timers, updateOn,
                 bans, life, pc, ret, loop>>

\* DESC_MANAGER::DestroyClosed, once a pass of the main loop.
DestroyClosed(h) ==
  /\ pc = "idle" /\ phase[h] = "close"
  /\ Drop(h, handles[h])
  /\ UNCHANGED <<env, registry, loads, queue, batchIn, timers, updateOn, bans, life, pc, ret, loop>>

-----------------------------------------------------------------------------
(* The people around it.                                                   *)

\* /dc on a bot, or BanManager's disconnect: the descriptor is to be closed.
Kick(p) ==
  /\ pc = "idle" /\ "kick" \in env /\ InGame(p)
  /\ phase' = [phase EXCEPT ![bots[p]] = "close"]
  /\ UNCHANGED <<env, registry, bots, handles, char, loads, queue, batchIn, timers, updateOn,
                 bans, life, pc, ret, loop>>

\* /bot_spawn: Spawn itself, past the ban and rest lists.  (It would read the
\* registry first; the model has it read before.)
GmSpawn(p, e) ==
  /\ pc = "idle" /\ "gm" \in env /\ registry # "unread" /\ MaySpawn(p, e)
  /\ Spawn(p, e)
  /\ UNCHANGED <<env, registry, queue, batchIn, timers, updateOn, bans, life, pc, ret, loop>>

GmDespawn(p) ==
  /\ pc = "idle" /\ "gm" \in env /\ StaleRoom
  /\ Despawn(p)
  /\ UNCHANGED <<env, registry, queue, batchIn, timers, updateOn, bans, life, pc, ret, loop>>

\* A ban, or the end of one.  The command's disconnect is a Kick.
GmBan(p) ==
  /\ pc = "idle" /\ "ban" \in env
  /\ blocked' = IF p \in blocked THEN blocked \ {p} ELSE blocked \cup {p}
  /\ UNCHANGED <<env, registry, world, queue, batchIn, timers, updateOn, banned, life, pc, ret, loop>>

SwitchLife ==
  /\ pc = "idle" /\ "life" \in env
  /\ lifeOn' = ~lifeOn
  /\ UNCHANGED <<env, registry, world, queue, batchIn, timers, updateOn, bans,
                 session, rest, returning, humanLed, pc, ret, loop>>

HumanParty(p) ==
  /\ pc = "idle" /\ "human" \in env /\ InGame(p)
  /\ humanLed' = IF p \in humanLed THEN humanLed \ {p} ELSE humanLed \cup {p}
  /\ UNCHANGED <<env, registry, world, queue, batchIn, timers, updateOn, bans, lifeOn,
                 session, rest, returning, pc, ret, loop>>

-----------------------------------------------------------------------------
(* The clock passing a moment the manager has written down.                *)

SessionOver(p) ==
  /\ pc = "idle" /\ session[p] = "running" /\ StaleRoom
  /\ session' = [session EXCEPT ![p] = "over"]
  /\ UNCHANGED <<env, registry, world, queue, batchIn, timers, updateOn, bans, lifeOn, rest,
                 returning, humanLed, pc, ret, loop>>

RestOver(p) ==
  /\ pc = "idle" /\ rest[p] = "running"
  /\ rest' = [rest EXCEPT ![p] = "over"]
  /\ UNCHANGED <<env, registry, world, queue, batchIn, timers, updateOn, bans, lifeOn, session,
                 returning, humanLed, pc, ret, loop>>

LateDue(p) ==
  /\ pc = "idle" /\ p \in late \ lateDue
  /\ lateDue' = lateDue \cup {p}
  /\ UNCHANGED <<env, registry, world, scheduled, pending, late, batchSize, batchIn, timers,
                 updateOn, bans, life, pc, ret, loop>>

-----------------------------------------------------------------------------
Init ==
  /\ env \in Envs
  /\ registry = "unread"
  /\ bots = [p \in Pids |-> None]
  /\ handles = [h \in Handles |-> None]
  /\ phase = [h \in Handles |-> "none"]
  /\ char = [h \in Handles |-> None]
  /\ loads = {}
  /\ scheduled = {} /\ pending = <<>> /\ late = {} /\ lateDue = {} /\ batchSize = 0
  /\ batchIn = 0 /\ topUpIn = 0 /\ banIn = 0 /\ lifeIn = 0
  /\ updateOn = FALSE
  /\ blocked \in (IF "ban" \in env THEN SUBSET Pids ELSE {{}}) /\ banned = {}
  /\ lifeOn \in (IF "life" \in env THEN BOOLEAN ELSE {FALSE})
  /\ session = [p \in Pids |-> "none"] /\ rest = [p \in Pids |-> "none"]
  /\ returning = {} /\ humanLed = {}
  /\ pc = "idle" /\ ret = "idle"
  /\ scan = {} /\ count = 0 /\ leaving = {} /\ kingdom = 1

\* The running handler's next step; Update and Boot start one.
Handler ==
  \/ SkipKingdom \/ SpawnMedalDropperCohort \/ SpawnRegistered \/ ScheduleLateJoiners
  \/ BatchEnter \/ BatchPop \/ BatchDone
  \/ SpawnLateJoiners \/ RefreshBannedBots \/ EvictBanned
  \/ ManageLifeSchedule \/ LifeSessions \/ LifeLeave \/ LifeRests
  \/ TopUpMissingBots \/ CountMissing

Answer(h, p) ==
  Loaded(h, p) \/ LoadedElsewhere(h, p) \/ LoadFailed(h, p) \/ StaleAnswer(h, p) \/ NoAnswer(h, p)

Next ==
  \/ Boot \/ Handler \/ Update
  \/ \E h \in Handles, p \in Pids : Answer(h, p)
  \/ \E h \in Handles : DestroyClosed(h)
  \/ \E p \in Pids : Kick(p) \/ GmDespawn(p) \/ GmBan(p) \/ HumanParty(p)
  \/ \E p \in Pids, e \in 1..Kingdoms : GmSpawn(p, e)
  \/ \E p \in Pids : SessionOver(p) \/ RestOver(p) \/ LateDue(p)
  \/ SwitchLife

Spec == Init /\ [][Next]_vars

(***************************************************************************)
(* The core's one thread keeps running: a handler ends and the update event *)
(* fires again (weak fairness of the two together is enough: a handler has *)
(* no endless loop), closing descriptors are destroyed, and a character    *)
(* that is asked for again and again is answered with its data some day.   *)
(* Strong fairness for these two: they wait for the thread to be idle, and *)
(* every handler in between interrupts that.                               *)
(***************************************************************************)
FairSpec ==
  /\ Spec
  /\ WF_vars(Handler \/ Update)
  /\ SF_vars(\E h \in Handles : DestroyClosed(h))
  /\ \A p \in Registered : SF_vars(\E h \in Handles : Loaded(h, p))

\* And the clock passes the moments written down: time does not stop.
ClockSpec ==
  /\ FairSpec
  /\ SF_vars(\E p \in Registered : LateDue(p))
  /\ \A p \in Registered : SF_vars(RestOver(p))

-----------------------------------------------------------------------------
(* Properties.                                                             *)

\* Every variable keeps its type.
TypeOK ==
  /\ env \in Envs
  /\ registry \in {"unread", "ok", "refused"}
  /\ bots \in [Pids -> Handles \cup {None}]
  /\ handles \in [Handles -> Pids \cup {None}]
  /\ phase \in [Handles -> {"none", "login", "game", "close"}]
  /\ char \in [Handles -> Pids \cup {None}]
  /\ loads \in SUBSET (Handles \X Pids)
  /\ scheduled \in SUBSET Registered /\ pending \in Seq(Registered)
  /\ late \in SUBSET Registered /\ lateDue \in SUBSET late /\ batchSize \in Nat
  /\ batchIn \in Nat /\ topUpIn \in Nat /\ banIn \in Nat /\ lifeIn \in Nat
  /\ updateOn \in BOOLEAN /\ lifeOn \in BOOLEAN
  /\ blocked \in SUBSET Pids /\ banned \in SUBSET Registered
  /\ session \in [Pids -> {"none", "running", "over"}]
  /\ rest \in [Pids -> {"none", "running", "over"}]
  /\ returning \in SUBSET Pids /\ humanLed \in SUBSET Pids
  /\ pc \in Places /\ ret \in {"idle", "cohort", "joiners", "late"}
  /\ scan \in SUBSET Pids /\ leaving \in SUBSET Pids
  /\ pc = "missing" => scan \subseteq Registered
  /\ count \in Nat /\ kingdom \in 1..Kingdoms

\* The manager's two maps and the descriptors that exist are the same thing
\* seen from three sides, between and inside handlers: Despawn, OnLoadFailed
\* and OnDescriptorDestroyed each take all three apart.
HandlesAgree ==
  /\ \A p \in Pids : bots[p] # None => handles[bots[p]] = p
  /\ \A h \in Handles : handles[h] # None => bots[handles[h]] = h
  /\ \A h \in Handles : phase[h] # "none" <=> handles[h] # None

\* A descriptor carries only the character it was created for: an answer
\* never binds somebody else's character, however late it arrives and
\* whatever was despawned and spawned in between.
OwnCharacter == \A h \in Handles : char[h] # None => char[h] = handles[h]

\* PlayerLoad's two early returns ("already has main state", "already exist
\* in game") would leave the descriptor in its login phase for ever; no
\* request that is in flight can end in them.
AnswersAreTaken ==
  \A m \in loads : phase[m[1]] # "none" =>
    phase[m[1]] = "login" /\ char[m[1]] = None /\ ~InWorld(m[2])

\* A descriptor without a character has its request in flight (as long as
\* every request is answered): nothing but the answer ends a load.
LoadsAreAsked == \A p \in Pids : Loading(p) => <<bots[p], p>> \in loads

\* Only an id the registry names ever gets a descriptor, whatever a GM types,
\* and none does when the registry could not be read.
OnlyRegistered ==
  \A h \in Handles : handles[h] # None => handles[h] \in Registered /\ registry = "ok"

\* A logged-out bot stays out of the world for its whole rest: neither the
\* queue, a late joiner's moment nor the top-up brings it back.
RestersAreOut == \A p \in Pids : Resting(p) => bots[p] = None

\* Each kingdom is scheduled what the operator asked for and no more.
BudgetKept ==
  \A k \in 1..Kingdoms :
    Cardinality({p \in scheduled \cup late : Empire[p] = k})
      <= IF k \in Hosted THEN Droppers[k] + Want[k] + Late[k] ELSE 0

\* The queue holds nobody twice and nobody this core did not ask for, and who
\* waits when a batch goes out fits into one spawn window of batches, after the
\* start and after every top-up (without late joiners, who join the cohort
\* after the batch was sized).
WindowKept ==
  /\ Queued \subseteq scheduled
  /\ \A i, j \in 1..Len(pending) : pending[i] = pending[j] => i = j
  /\ pc \in {"idle", "batchEnter"} => Len(pending) <= batchSize * Batches

\* The slider brings a kingdom's cohort in the order of the registry query.
SliderOrder ==
  \A p, q \in Registered :
    Empire[p] = Empire[q] /\ Tier[p] < Tier[q] /\ q \in scheduled => p \in scheduled

\* Once out, a bot the manager holds banned is not asked for again.
BannedAreNotAsked ==
  [][\A p \in Pids : p \in banned /\ bots[p] = None => bots'[p] = None]_vars

\* Once the update event runs and a bot is of the cohort, or is to join it late,
\* it is in the world again and again unless it is banned for good: failed
\* loads, turned away logins, kicks, rests and lifted bans included.
CohortReturns ==
  \A p \in Registered :
    <>(updateOn /\ p \in scheduled \cup late) /\ <>[](p \notin blocked) => []<>InWorld(p)

\* A bot whose ban stands leaves, and stays out.
BannedLeave == \A p \in Pids : <>[](p \in blocked) => <>[]~InWorld(p)

-----------------------------------------------------------------------------
(* What the manager promises of each character, and the step by step       *)
(* refinement of it.                                                       *)

Where(p) ==
  CASE bots[p] = None -> "out"
    [] bots[p] # None /\ phase[bots[p]] = "login" -> "asked"
    [] InGame(p) -> "in"
    [] bots[p] # None /\ phase[bots[p]] = "close" -> "leaving"
    [] OTHER -> "astray"

Presence == INSTANCE PlayerbotPresence WITH where <- [p \in Pids |-> Where(p)]

\* The manager, its answers and its GMs move one character at a time along
\* the life PlayerbotPresence describes, and only registered ones.
KeepsPresence == Presence!Spec
=============================================================================
