# A verification project for the Metin2 playerbots

The repository ships a private Metin2 server whose world is populated by
*playerbots*: characters that live in the game process without a client. Most
of what is new in it is the overlay in
`src/linux-port/docker/game/src/server/game/src/playerbot_*` (written `G/`
below), about 49 000 lines over an old game engine. This directory holds TLA+
models of the parts of that overlay where many events meet a little state, the
TLC configurations that check them and the TLAPS proofs about them.

- Part 1: the system, component by component
- Part 2: the modules and how they correspond to the code
- Part 3: what is checked, with which bounds and which fairness
- Part 4: what is proved and how
- Part 5: where code and documentation disagree
- Part 6: what is not modelled, and the plan

---------------------------------------------------------------------------

## 1. The system

One **db core** (`server/db`) owns the database and the world's event flags. It
talks to several **game cores** (`server/game`), each of which hosts some maps.
Every game core is one thread: it reads packets from its peers and clients, runs
timed events and calls handlers, each of which runs to completion. Between the
db core and the database there is an asynchronous SQL worker thread. A web panel
writes files the game cores read every few seconds.

### 1.1 Bot lifecycle manager - `G/playerbot_manager.cpp`, lines 2109-3110

*State*: the registry of bot identities; `m_mapBots` (pid to descriptor) and
`m_mapHandles` (handle to pid); the set scheduled for this core, the queue of
those to be spawned, the late joiners with their moments, the batch size and
five timers; the copy of the ban ledger; sessions, rests and returning bots of
the life schedule; whether the update event exists.

*Operations*: the bootstrap when the db core announces the map locations; `Spawn`
and `Despawn`; `Update` with its five parts (batch, late joiners, bans, life
schedule, top-up); the answers `OnPlayerLoaded` and `OnLoadFailed`; and
`OnDescriptorDestroyed`, called from wherever a descriptor dies.

*Hard*: a load is asked of the db core and answered later or never. In between
the bot may be despawned, banned, asked for again, or its session may end. Five
lists are read and written by five loops, each of which must leave a bot that
is missing somewhere the next will find it. Nobody sits at a bot's connection:
a descriptor forgotten in its login phase stays for ever, and with it the
manager's belief that the bot is there.

*Correct when*: the two maps and the descriptors agree; no answer binds a
character to somebody else's descriptor; each scheduled bot comes back; resting
and banned ones do not; a kingdom never gets more than its budget; and a batch
fits the spawn window.

### 1.2 Bot descriptors and the loading path - `G/desc_manager.cpp`, `G/input_db.cpp`, `server/db/src/ClientManagerPlayer.cpp`

A bot's descriptor goes through login, game and close like a person's. Its
request travels to the db core, whose answer is `PlayerLoad` (which may refuse
in several places, or find that the map is another core's), `PLAYER_LOAD_FAILED`,
or nothing. Answers find their descriptor by handle.
*Hard*: answers that arrive for descriptors that are gone; early returns that
leave a descriptor behind.

### 1.3 Kingdom budgets - `G/playerbot_empire_rules.h`

`SplitPopulation` shares one number of bots among three kingdoms by how many
identities each has. Every core runs it on its own.
*Correct when*: nothing of the budget is lost or given twice, and the shares
are as even as the registry allows.

### 1.4 Timed event windows - `G/playerbot_event_rules.h`

Pure functions: whether a weekly window is open at a minute of a day, how long
it still lasts, when it opens next, and all of that together (`Evaluate`).
*Hard*: windows past midnight, the week's end, overlapping windows.

### 1.5 Rate events - `G/playerbot_events.h`, `server/db/src/ClientManagerEventFlag.cpp`

While a window is open, one core (the leader) moves the world's rates up, and
down after it. The rates are event flags of the db core; the leader's copy of
them is as old as the messages in flight. The rate before the event is
remembered in a flag of its own, so that it survives the leader.
*Hard*: the leader dies between the two requests of a begin or an end; figures
change inside an event; a GM sets a rate inside an event.
*Correct when*: the rate is raised once, from the rate somebody asked for, and
comes back.

### 1.6 Asynchronous SQL - `server/libsql/AsyncSQL.cpp`

Every query that does not wait goes through a `CAsyncSQL`: the main thread pushes
it into a queue under a mutex and releases a semaphore; a worker thread waits for
the semaphore, moves the queue into its own copy and runs that. What returns a
result is handed back through a third queue.
*Hard*: this is the one place with two threads. Some errors leave the query in
the copy, to be tried again; `Quit` may come at any point of the worker's loop.
*Correct when*: queries finish once and in order, the worker never sleeps on work,
and the shutdown returns with nothing queued.

### 1.7 Item and player caches - `server/db/src/ClientManager.cpp`, `Cache.cpp`

The db core writes items back late. A cache holds the last row it was told; a set
of pointers per player says which caches a logout flushes; a player cache says
whether a character is loaded from memory or from the table. Game cores tell it
of an item some time after it has changed (`ITEM_MANAGER`'s delayed save), and
the safebox is always selected from the table.
*Hard*: an item goes from hand to hand while logins, logouts, timers, the safebox
and the shutdown each flush, delete or select. A set with a pointer to a deleted
cache is a crash; a pointer in two sets is an item twice.
*Correct when*: every load answers with the items as they are, and whatever the db
core was told reaches the table.

### 1.8 Offline shops of bots - `G/playerbot_offline_*.h`, `G/ikarus_shop_manager.cpp`, `server/db/src/ClientManagerIkarusShop.cpp`, `IkarusShopCache.cpp`

A bot puts goods on a counter that stays when the bot hunts or is gone. The db
core has the shops, their locks and everybody's *safebox* (items and money); the
game core has a mirror of both and sends requests. A purchase is two round
trips: the line is locked, the buyer pays, the seller is credited and the line
goes. What goes into a shop or a safebox passes through the SQL thread first. A bot
has one request at a time, in a journal that only an answer completes.
*Hard*: everything crosses on the wire - a new price and a purchase, an addition
and the closing of an empty shop, a buyer's logout and its goods, a safebox being
loaded and its proceeds being taken.
*Correct when*: an item is in one place, money only goes to the tax, a lock ends, the
mirror settles on what the db core has, and the journal's requests complete.

### 1.9 The other components

`PROJECT.json` lists them all with the reason each is left out: duels, party
invitations, dungeon visits, guild wars, raids, missions, the chat market,
navigation, combat, gear, configuration and status files, the engine, the
launchers and panels, and the data. Most of the overlay's lines are numeric
heuristics for a single bot at a single tick, which promise nothing that could be
stated; Part 6 names those that do.

### 1.10 How the components interact

    panel file --> Evaluate --> ManagePlayerBotEvents --(set flag)--> db core
                                        ^        <--(flag changed)----'
                                        |
    MapLocations --> SplitPopulation, bootstrap --> Update --> Spawn
                                        ^                        |
                           OnPlayerLoaded, OnLoadFailed     (load request)
                                        '------- db core <-------'

The first bot that is loaded starts the event that runs `Update`, and `Update`
is also what calls `ManagePlayerBotEvents`.

    bots' ticks --> journal --> core's mirror --(request)--> shops, safeboxes
                       ^            |  ^                        |       |
                       '--complete--'  '-------(answer)---------'    (query)
                                       '--(result)--- SQL thread <------'

The item caches use the same SQL threads, and so does every load of a character.
`SqlFifo` is what `AsyncSQL` is shown to implement and what the two models above it
assume: queries run one after the other, in the order they were pushed.

---------------------------------------------------------------------------

## 2. The modules

| module | what | checked by | proved in |
|---|---|---|---|
| `PlayerbotPresence` | abstract: one character's life, out - asked - in - leaving | as a PROPERTY of the next | |
| `PlayerbotLifecycle` | 1.1 and 1.2 together | `MCPlayerbotLifecycle`, 4 configurations | `PlayerbotLifecycleProofs` |
| `PlayerbotSplit` | 1.3 | `MCPlayerbotSplit` | `PlayerbotSplitProofs` |
| `PlayerbotEventRules` | 1.4 | `MCPlayerbotEventRules` | `PlayerbotEventRulesProofs` |
| `PlayerbotRateEvents` | 1.5 | `MCPlayerbotRateEvents`, 2 configurations | `PlayerbotRateEventsProofs` |
| `SqlFifo` | abstract: what a connection owes to those who queue on it | as a PROPERTY of the next | |
| `AsyncSQL` | 1.6 | `MCAsyncSQL` | `AsyncSQLProofs` |
| `PlayerItemCache` | 1.7 | `MCPlayerItemCache` | `PlayerItemCacheProofs` |
| `OfflineShop` | 1.8 | `MCOfflineShop`, 2 configurations | `OfflineShopProofs`, `OfflineShopSettledProofs` |

### 2.1 `PlayerbotLifecycle`

The core is single threaded, so the world outside the manager (answers, GMs,
descriptors that close, the clock) moves only while no handler runs
(`pc = "idle"`). A handler with a loop is written one iteration per step, so
that an invariant is checked inside handlers too; `pc` names the loop, `scan`
what is left of it. `SpawnPendingBatch` is called from four places (after the
droppers, after the cohort, first in `Update`, last in the top-up); `ret` is
where it returns.

| model | code |
|---|---|
| `registry` | `m_bRegistryLoaded`, `m_bRegistryAvailable` |
| `bots`, `handles` | `m_mapBots`, `m_mapHandles` |
| `phase`, `char` | the descriptor's phase and `GetCharacter()` |
| `loads` | load requests, and answers to them, that are somewhere on the way |
| `scheduled`, `pending`, `late`, `batchSize` | `m_setScheduledBots`, `m_dequePendingSpawns`, `m_dequeLateJoiners`, `m_uSpawnBatchSize` |
| `batchIn`, `topUpIn`, `banIn`, `lifeIn` | the four "next time" fields, as passes of `Update` still to go |
| `blocked`, `banned` | `account.account_block`, `m_setBannedBots` |
| `session`, `rest`, `returning` | `m_mapLifeSessionEnd`, `m_mapLifeRestEnd`, `m_setLifeReturning` |
| `Boot` to `ScheduleLateJoiners` | `CInputDB::MapLocations` and what it calls, kingdom by kingdom |
| `BatchEnter`, `BatchPop`, `BatchDone` | `SpawnPendingBatch` |
| `Update`, `SpawnLateJoiners`, `RefreshBannedBots`, `EvictBanned`, `ManageLifeSchedule` to `LifeRests`, `TopUpMissingBots`, `CountMissing` | `Update`, in its order |
| `Loaded`, `LoadedElsewhere`, `LoadFailed`, `StaleAnswer`, `NoAnswer` | the five fates of a request |
| `DestroyClosed` | `DESC_MANAGER::DestroyClosed` |
| `Kick`, `GmSpawn`, `GmDespawn`, `GmBan` | the GM commands |
| `SwitchLife`, `HumanParty` | the LIFE key of the weights file; a party led by a person |

*Abstractions.* Milliseconds become passes of `Update`. Lengths the code draws
at random (a session, a rest, a late joiner's wait) become an event of the
environment: the clock has passed the moment that was written down. A handle is
the least that no live descriptor and no message names, which stands for the
code's ever growing counter; the mutant that forgets the messages is caught.
Positions, levels and accounts are gone, except what decides the order in which
identities are taken. The five parts of `Update` after line 3060 (events, guild
wars and other per-world features) are other components.

### 2.2 `PlayerbotRateEvents`

The leader's state, the db core's flags, the leader's copy of them and the two
directions of messages between them. One kind of event and one flag are
modelled; the others are independent copies. `Check` is one second's
`ManagePlayerBotEvents`; it waits until the messages of the one before have come
round (`Quiet`). The end and the begin of a re-base happen within one `Check`,
as in the code, and do not see each other's messages. A `Crash` of the
leader delivers any prefix of what it had sent, then starts from the db core's
flags, as `SendEventFlagsOnSetup` does.

*Assumptions.* A second is longer than a round trip to the db core on the same
host. A GM's command is not in flight while the leader's own requests are: GMs
type, and the race of the two inside one round trip is left out. A rate
that happens to be the running event's own figure is the event's to the code, which ends
it like its own (`EventsOwn`).

*History.* `norm` is the rate the world was last asked to have without an event, `moved`
says that a GM has set it beside an event or beside a base that a missed end has left.
The code promises to leave such a rate alone, and does, until an event begins: a begin
that finds a base goes by that (`Overrules`). A restart inside the event is such a begin,
which Part 5 (8) is about. Restarts, missed ends, moves and changing figures may all
happen in one world.

### 2.3 `PlayerbotEventRules`

Minutes of a day and days of a week are constants. The state is a pair of
lines, a clock that goes minute by minute, and the status `Evaluate` gives; the
properties speak of *openings*, stretches of time from a start to an end, which
is how a person reads the panel and not how the code computes.

### 2.4 `PlayerbotSplit`

The loop of `SplitPopulation`, a turn per step. The arguments are any budget and
any registry up to the bounds.

### 2.5 `AsyncSQL` and `SqlFifo`

`query`, `copy` and `result` are the three queues, `sem` the semaphore, `end` is
`m_bEnd`, `pc` and `main` where the two threads are. A step is what a thread does
between two points where the other can matter: a mutex section, a semaphore, the
test of `m_bEnd`, one query. A query that runs and one that fails for good are the same to the queues.
`retries` counts the errors that may pass. The refinement maps the copy followed by
the queue to `SqlFifo`'s `waiting`; from the worker's last loop on, what an error
left in the copy is `given` up, since that loop only looks at the queue.

### 2.6 `PlayerItemCache`

| model | code |
|---|---|
| `cached`, `cache`, `dirty` | `m_map_itemCache`, its rows, `m_bNeedQuery` |
| `listed`, `sets` | `m_map_pkItemCacheSetPtr` |
| `pcache`, `logout` | `m_map_playerCache`, `m_map_logout` |
| `sql`, `results`, `rows` | the connection (as `SqlFifo`) and the table `item` |
| `delayed` | `m_set_pkItemForDelayedSave` of the game core |
| `held`, `told` | history: where an item really is; what the db core was last told of it |

An item is its place and a version, and version 0 is an item that is not. A row's
other columns never disagree with its version. `LoadFromSet` and `LoadFromRows` are
the branches of `QUERY_PLAYER_LOAD`; `answer` is what the step's load was answered.
`Crash` is the game core dying with what it had not told; the character it loaded
must have been saved once, which happens within a second for a bot and minutes for
a person. Before that there is a set without a player cache, the next load
selects rows that may be older than the caches, and `LoadSeesLatest` is false; it
is listed among the hazards. `Expire` relies on one fact of the clock: item caches are flushed within five
minutes and a logout expires after ten, so what waited when the player left
(`owed`) is written by then. A safebox that is asked for by somebody who leaves
before the answer is not modelled.

### 2.7 `OfflineShop`

| model | code |
|---|---|
| `req` | `playerbot_offline::requests` |
| `cst`, `cprice` | the core's `m_mapShops`; a price of 0 is a line that is not there |
| `cbox`, `cyang` | the core's `m_mapSafeboxs` |
| `dst`, `dprice`, `locked` | the db core's `m_shopsMap` and the locks of its lines |
| `dbox`, `dheld`, `dyang` | its `m_safeboxMap`: `itemsmap`, `lockedmap`, `valutes` |
| `toDb`, `toCore` | the one connection, in order both ways |
| `sql` | results of `ReturnQuery` still to come, in order |
| `Submit`, `Visit...` | `SubmitPlayerBotOfflineShop`, `ManagePlayerBotOfflineService` and the `Recv...ClientPacket` each ends in |
| `Buy` | `ManagePlayerBotOfflineShopping` and `RecvShopBuyItemClientPacket` |
| `Db...` | `RecvIkarusShop...` and the cache operation it calls |
| `...Done` | `IkarusShopResult...` |
| `Core...` | `CShopManager::RecvShop...DBPacket` |

One core hosts the keeper, its shop and the buyers. A visit or a purchase is at any
time: the conditions of the code that only delay one (distance, flood checks, ten
seconds after an edit) are left out. So is the usual ten minutes from an opening to the first
visit, since a keeper whose hand is empty looks at its counter at once
(`playerbot_offline_shop.h:483-488`); a visit may come before the db core has stored the lines.
`GoldMax` is kept wherever the code compares with it: an opening, an addition and a
repricing by the bot, `EditItem` in the db core (`Editable`), and the proceeds, of which the core pays out
no more than the purse holds (`Claimable`).
Whether a bag has room is a choice. Bots leave and return with anything in flight,
and a request that is done is erased at once. When everything has settled the core's copy of a safebox has
the money that the db core's has, but not always the items: a bot that withdraws, leaves and asks to
come in again is sent its safebox while the item is held for it, and the refusal that follows
puts it back in the db core's copy alone, until the next load. `MirrorSettles` says nothing of them.

---------------------------------------------------------------------------

## 3. What is checked

Every property of a passing run has a *mutant* in `PROJECT.json`: a plausible
bug in the code (a forgotten erase, a missing look at the bans, a rounding the
other way) that makes TLC find the property violated under the same
configuration. Mutated operators stand beside the ones they replace, marked
`\* Mutant:`.

### 3.1 Runs

| run | shows |
|---|---|
| `lifecycle_faults` | two bots and a person's pid under failed, lost, late and foreign answers, kicks, GM commands, an unreadable registry, failed ban queries and a reconnect: the maps, descriptors and characters agree, no answer is refused, no outsider enters, and the manager implements `PlayerbotPresence` |
| `lifecycle_lists` | three bots of two hosted kingdoms, one a dropper, under failed loads, sessions, rests and the LIFE switch, with bans and unbans or with parties led by people, and a queue that outlasts a top-up interval: budgets are kept, a batch fits the window, nobody is queued twice, no load is forgotten, who rests is out, and nobody held banned is asked for |
| `lifecycle_returns` | under fairness, a bot of the cohort and a late joiner with failed and foreign loads, kicks and bans, or with failed loads under the life schedule: whoever is not banned for good keeps coming back, whoever is leaves for good |
| `rate_events` | restarts of the leader at any moment, events that end while it is down, a GM who moves the rate before, in and between events, figures that change inside one: raised once, from the rate asked for; left alone when moved, until an event begins; back with the first end it sees |
| `event_windows` | every pair of lines: on exactly while an opening lasts, ends when announced, starts when shown |
| `split` | every budget and registry: spent, even, and the loop ends |
| `async_sql` | the two threads at any point of each other's loops, with errors: once and in order, no wake-up lost, the shutdown drains and returns; implements `SqlFifo` |
| `item_cache` | two people and a bot with one item, logins, trades, drops, the safebox, crashes and a shutdown: no cache dangles or is lost, each load sees the item where it is, and it is written in the end |
| `offline_shop` | a keeper with two items and two buyers who come and go at any moment: an item is in one place, is lost only in the two known ways, money only goes to the tax, prices stand while locked, and when the wires are empty mirror, locks, and requests have settled |

and three that TLC finds violated, described in Part 5: `registry_order`,
`rate_rebased` and `offline_requests`.

### 3.2 Bounds, and why they are enough

*Lifecycle.* What can go wrong between bots goes wrong between two: one whose
descriptor or place in a list is taken for the other's. There are three where two
kingdoms and a dropper share a registry. `Handles` has room for every bot plus every
request whose descriptor is gone; `MaxStale` bounds the latter, and with two of
them an old answer can meet the second descriptor made after it was asked for.
`MaxStale` only limits how often a session may end or a GM may despawn while
answers are still out. `Second` and `Minute` are one to three passes, in `lifecycle_returns` one; in
`lifecycle_lists` a batch interval is *longer* than a top-up interval, so that the
queue is still draining when the top-up comes, as it is in the code with any
queue of more than sixty batches. The cohorts are too small for the rounding of the batch size to
matter: `WindowKept` is there for a top-up that meets a queue, and only the theorem
`WindowsHold` speaks of the rounding. `Envs` is a set of worlds, each the set of faults
it has, and `env` the one that `Init` chose. A run has the worlds its properties are
about, each mixing as many faults as the properties survive and the states allow.
Lost answers are only in `lifecycle_faults`: with them no bot is sure to return
(Part 5).

*Rates.* Percents 0, 50 and 100 over rates unset, 100 and 130: 0 makes the boosted
rate equal the base, 130 tells the base from the engine's default. Two moves
of a GM are one before and one in or after an event, or two within one; 0 is read like a flag
never set, 70 is no event's figure, and 150 is one that an event may have. The two worlds
(`Envs`) have restarts, missed ends and moves, one with changing figures and one without, since some properties
only hold where figures stay (Part 5, 2). `Ceiling` stops figures from
changing any further once the compounding Part 5 describes has shown.

*Windows.* A week of three days of three minutes has every relation of start, end
and midnight, and a yesterday that is neither today nor tomorrow. The horizon
is two weeks and a minute, so each week's end is crossed twice.

*Split.* Ten bots over three kingdoms of up to five covers remainders 0, 1 and 2,
shares cut short in one, two and all kingdoms, and budgets above the registry.
The proofs have no bound.

*Asynchronous SQL.* Four queries, one without result: two can be in the copy and two in
the queue, with an error at the front of each. Two errors let the same query fail twice,
or one before and one after a push.

*Caches.* One item: sets, caches and rows of different items meet only in a flush of a
set, which takes each item by itself. Three players are a giver, a taker and one
whose set must not change. Two versions tell a stale row from a fresh one; `MaxQueue` makes
clients wait while two queries are pending, which is a load behind a write and the reverse.

*Offline shops.* Two items are one that is sold and one that makes the shop empty or not.
Two buyers race for a line (they are symmetric), each with money for one of them at its high
price; one item is repriced from low to high and back, and the high price beside the other
item's is more than `GoldMax` allows; a keeper who has sold both cannot take all it has
earned at once. So full a purse also lets a new shop open with one line only (`Submit`
compares purse and prices with `GoldMax`): the second is added, and a shop with both is
reached that way and opened again after it has expired. A tax of a half, rounded down, is 1
on the high price and nothing on the low one, so every missing or doubled payment shows in
the sum. `MaxFlight` bounds requests, not answers: nobody asks for more, and no shop
expires, while two packets or results are on their way; what these cause may be more. Two
are any pair of requests that cross.

### 3.3 Deadlock

`CHECK_DEADLOCK FALSE` is there where the system may really stop: a
world without the fault that would keep it moving (`lifecycle_returns`: a
manager whose first loads have all failed has no update event), a clock at its
horizon, a loop that is over, a connection or a db core that has been shut down, a
market where every bot's request is one that nobody will answer.

### 3.4 Fairness

- `WF(Handler \/ Update)`: the one thread keeps running. Every handler is a loop
  over a list that only shrinks, so this says both that handlers end and that
  the update event fires again; `event_create` re-arms it with every return.
- `SF(DestroyClosed)`: the main loop calls it on every pass. Strong, because a
  handler in between disables it.
- `SF(Loaded(p))` for each registered bot: a character asked for over and over is
  some day answered with its data. It does not say that any one request is:
  each may fail, or be lost in a world that has that.
- `SF(LateDue)`, `SF(RestOver)`: time passes the moments that were written down.
- `WF(ChildLoop)`, `WF(Join)`, and `WF(Quit)` once it has begun: the worker is a
  thread that is scheduled. The server's errors are bounded by `MaxRetries`; without
  that a query may fail for ever.
- `WF(Execute)`, `WF(ItemLoad \/ BoxLoaded)`, `WF(UpdateItemCache(i))`: the
  connection runs what is pushed (`SqlFifo`), its results are fetched on every
  pass, and the flush timeout of a cache is some day served. Not `Expire`, logouts
  or saves. The code serves a limited number of caches a second from the front of
  its map, so that the last assumption needs fewer changes than that.
- `WF(Check)`, `WF(SetEventFlag)`, `WF(Forwarded)`: the leader's timer and its
  connection. Nothing is assumed of GMs, windows or crashes: these have no
  fairness.

---------------------------------------------------------------------------

## 4. What is proved

`tlapm` checks the eight proof modules to the last leaf. The only assumptions are the
named ones on the constants: sets of natural numbers, ids and prices without 0, finite
where a cardinality is taken; budgets, rates, bounds and timers natural; the places of an
item apart from the players.

### 4.1 `PlayerbotLifecycleProofs`

For any registry, any number of bots, kingdoms and descriptors, any timers and
any mixture of faults:

| theorem | says |
|---|---|
| `TypeCorrect` | `Spec => []TypeOK` |
| `MapsAgree` | `Spec => []HandlesAgree`: the two maps and the live descriptors are one relation, also inside handlers |
| `NoStrangers` | `Spec => []OwnCharacter`: no answer, however late, binds a foreign character |
| `NoAnswerRefused` | `Spec => []AnswersAreTaken`: the early returns of `PlayerLoad` that would strand a bot are never taken |
| `NoOutsiders` | `Spec => []OnlyRegistered` |
| `Refinement` | `Spec => KeepsPresence`: step by step, the manager implements `PlayerbotPresence` |

`HandlesAgree` is not inductive: a drop or an answer is only harmless because of
what a request in flight may assume about its descriptor. `Wiring` adds that: a
descriptor with a character is in its game or closing phase, and one that is
named by a request is still in its login phase and made for the bot of that
request. This is where the ever fresh handle matters.

The next-state relation has some thirty actions, of which most only move ids
between lists. `NextIsWorldStep` therefore first shows that each step is one of
six things to the maps - a spawn, a descriptor going, a character coming, a
descriptor closing, a request forgotten, a bootstrap - and `Wiring` is shown
to survive each of these. The types of the lists are a second, independent
induction (`NextKeepsListType`). The refinement uses both: `NobodyAstray`
shows that each bot is in one of the four places of the abstract specification,
and `StepsArePresence` that no step moves two of them.

### 4.2 The lists, in `PlayerbotLifecycleProofs`

On top of the wiring, about the lists. Each theorem has a premise on the world the
core runs in; what the code does in the others is a hazard of `PROJECT.json` (a GM's own
`/bot_spawn`, late joiners after the batch was sized) or in Part 5 (5 and 7):

| theorem | says |
|---|---|
| `BansHold` | `Spec /\ "gm" \notin env => BannedAreNotAsked` |
| `RestsHold` | `Spec /\ "gm" \notin env => []RestersAreOut` |
| `LoadsAreNotForgotten` | `Spec /\ "lost" \notin env => []LoadsAreAsked` |
| `BudgetsHold` | `Spec /\ "reboot" \notin env => []BudgetKept` |
| `WindowsHold` | `Spec /\ (no late joiners) => []WindowKept` |

The first two say who a step may ask for: the batch, a late joiner and the top-up all look
at the bans and at the rests first, and `/bot_spawn`, which looks at neither, is what the
premise leaves out. A rest begins with a despawn in the same step.

`BudgetsHold` follows the bootstrap. `Stage` says, for the kingdom whose turn it is, which
of the three functions (droppers, cohort, late joiners) has been there and how much of
the budget it has used; kingdoms before it are done, those after it are empty. The counters
of `SpawnRegistered` and `ScheduleLateJoiners` bound what is scheduled because an identity that was there
already is skipped without counting.

`WindowsHold` rests on two states that alternate: `Covered`, the batch is large enough
for everybody scheduled, and `Filling`, the bootstrap is adding to the cohort and will
size the batch after it. A top-up queues only who is scheduled and not queued, so the queue
never outgrows the set the batch was sized for.

### 4.3 `PlayerbotSplitProofs`

| theorem | says |
|---|---|
| `TypeCorrect` | `Spec => []TypeOK` |
| `NothingIsLost` | `Spec => []BudgetIsSpent` for every budget and registry |
| `NobodyIsBehind` | `Spec => []SharesAreEven` |

The invariant speaks of a *level* L, the number of bots a kingdom with identities
to spare has been given: in a round, kingdoms before the loop's variable stand
at L + 1, the others at L, and a kingdom with fewer identities at all it has. A
round without progress means that there are no identities left.

### 4.4 `AsyncSQLProofs`

| theorem | says |
|---|---|
| `TypeCorrect` | `Spec => []TypeOK` |
| `OrderKept` | `Spec => []InOrder`: for any queries and any number of errors |
| `Wakes` | `Spec => []NoLostWakeup` |
| `Drains` | `Spec => []ShutdownDrains` |
| `ImplementsFifo` | `Spec => KeepsOrder`: the threads implement `SqlFifo` |

The order is an equation between sequences, `finished \o copy \o query = pushed`, that
each step re-brackets. That no wake-up is lost needs what the semaphore counts: a message in the
queue is matched by a release the worker has not taken, unless the worker is past its
wait and will look; and `m_bEnd` is set before `Quit` releases.

### 4.5 `PlayerItemCacheProofs`

| theorem | says |
|---|---|
| `TypeCorrect` | `Spec => []TypeOK`, through crashes and shutdowns |
| `NoDanglingPointer` | `Spec => []SetsAreOwned` |
| `FlushReachesAll` | `Spec => []DirtyIsListed` |
| `NothingLost` | `Spec => []NothingForgotten`: what the db core was last told of an item waits in a cache or is on its way, and after a shutdown it is on its way |
| `LoadsAreRight` | `Spec => []LoadSeesLatest`: every load, from a set, from the table or of the safebox, is answered with what is there |

`NoDanglingPointer` and `FlushReachesAll` are inductive together with the types: a put moves a cache from one
set to another, a logout deletes a set with its caches, and in between no cache of
a player is ever outside a set.

The two last are not inductive without each other: rows that a load reads become clean caches,
so a wrong load would make a wrong cache, and what a load finds in the table depends on
what is still in a cache. The invariant (`Whole`) adds, for a running core:

- `Known`: the game cores and the db core agree on every item, but for what is to be saved by
  somebody who plays and what lies on the ground;
- `Roster`: who plays has a set, who loads has none, whose set is there although he has left
  has a player cache, and a set holds every item the db core was told is its owner's;
- `Stale`: the table's row of an item that waits in a cache never names somebody who
  may be loaded from the table - nor the safebox. For a player whose logout will expire,
  the rows that would are among those that were waiting when he left (`owed`), which is what the
  five minutes of `Expire` are for;
- `Asking`: a select in the queue will, when the messages before it have run, find the rows
  the db core was told, nobody is asked for twice, and a result not yet popped is still right.

`LastRow` is the row a queue leaves in a table. That pushing, running the oldest
message and blanking the askers after a crash do not change what it leaves is proved
first (`AppendIs`, `PushIs`, `LastOfTail`); then each message to the db core (`ItemSaveTells`,
`ItemDestroyTells`, `ItemSaveBoxTells`, `FlushedTells`), each load, each timer. The proofs rest on
`PlacesAreApart`; they show that the two premises the model states, that a character
dies only after its first save and that `Expire` comes after the flush, are needed nowhere else than in
`CrashTells` (the player cache of `Roster`) and in `TickTells` (`Stale` of `Expire`).

### 4.6 `OfflineShopProofs`

| theorem | says |
|---|---|
| `TypeCorrect` | `Spec => []TypeOK`: every packet is one its reader knows, and what is locked is on sale |
| `PriceStands` | `Spec => PriceHolds`: no step reprices a locked line |
| `NoItemTwice` | `Spec => []NeverTwice`: for any bots, items and prices, and any number of packets in flight |
| `NothingSetAside` | once nothing is in flight, no line is locked for a buyer and no item of a safebox is held for its owner |

`LockedOnSale`, the last part of `TypeOK`, is what the action property rests on: a line
that is locked has a price, so `Put`, which only fills an empty line, cannot touch it,
and `EditItem`, `RemoveItem` and the closing of an empty shop pass it by. The proofs
go packet by packet: what is at the head of a wire has the shape its sender gave it.

`NeverTwice` counts bags, counters, safeboxes and packets; `Ledger` is its inductive
strengthening, in three parts.

- `Purchases` and `Withdrawals`: what is set aside has one packet that will end it. A locked line has
  one `locked` on its way to the core or one `buy` on its way back, never both, and
  a line that is not locked has neither; an item held for its owner has one `confirm` or one `feedback`.
  Hence a payment finds its line locked and on sale (`PaymentLocked`), and a feedback that
  declines finds the item still held.
- `Apart`: an item is in one place at most (`OnePlace`, which puts a bag, a counter, a
  safebox, a hold and each of the three queues side by side), in one packet of a queue at most (`Singly`), and
  what its owner has just taken out of the safebox, but which the db core still holds, is in that bag or asked about
  *behind* the feedback (`TakenOut`). This order is what the one connection gives: were
  a shop opened with the item to overtake its feedback, it would be on sale and held.

`Wires` sums up each action by the kinds of packets that it may take or send, `WiresStay` says
that all others stay, and in which order. With it the actions that move no item are done at
once (`BystandersApart`), and those that do are taken one by one, from `SubmitApart` to
`CoreConfirmApart`. `ApartCounts` turns places into `Copies`.

### 4.7 `OfflineShopSettledProofs`

| theorem | says |
|---|---|
| `NobodyOverdraws` | `Spec => []NeverOverdrawn`: no purse, safebox or claim goes below zero |
| `MirrorsSettle` | `Spec => []MirrorSettles`: with nothing in flight the core shows every shop and line, and the money of every safebox, as the db core has it |
| `NobodyIsLeftWaiting` | `Spec => []NobodyWaits`: with nothing in flight no line is locked and no purchase, opening or withdrawal is still open |
| `NothingElseIsLost` | `Spec => LossesAreKnown`: a step loses an item only to a buyer who paid and left, or to a counter that is closed for good |
| `NothingIsMissing` | `Spec => MoneyKept`: all gold, all proceeds and all that is on its way change by the tax alone |

These speak of two copies of one thing and of everything between them, so their invariants
speak of queues. `Path(R, V, q, x, y)` says that the packets of `q`, one after another,
make `y` of `x`; `R` is what one packet may do. It is carried as a function from
positions to values, which a packet sent prolongs and a packet taken shortens.

- `Money` and `Solvent`, for `NeverOverdrawn`. The core's copy of a safebox, once the answers on their
  way have come, and the db core's, once the claims on their way have been taken, are the same amount
  (`Balanced`). Hence a claim at the head of its wire is covered. It needs `Sending`: while a bot
  is being loaded its safebox is in one packet, and nothing is claimed behind that.
- `Mirrored`, for `MirrorSettles`. The answers on their way lead from what the core shows
  (`Mirror`) to what it is due: the db core's lines, and for lines that the SQL thread has yet to store,
  what it will store. Each answer on this way meets a shop that it fits (`Shows`): a new shop none,
  an added line no line, a price a line. A lock that was granted promises the price the line will
  have in the end, which no repricing behind it changes.
- `Opening` and `Shelving`, which `Mirrored` rests on: the request to open a shop, its query and
  its answer are one token; new lines go to no shop that is there; and an announced shop is not
  closed before its lines are stored.
- `Buying`, `Fetching` and `Asking`, for `NobodyWaits`: an open request has a packet on its way
  that will end it, also when the buyer has left, cannot pay or the line has gone, and an item
  that its owner asks for is in the safebox or behind another answer.

For `LossesAreKnown`, `Somewhere` is followed through each action that moves an item: whoever takes it
from one place has put it in another, unless the step is one of the two. It uses
`Shops`: an addition that finds no shop is the closing's, since the core had one when it
sent the request.

For `MoneyKept`, the pot is the sum of `Wealth` (gold and proceeds of each bot) and the
`Weight` of the requests in flight, each weighing its `Value`: a payment the db core's price of
its line, a claim what it takes. `SumParts` says what a sum over a finite set comes to, in whatever
order it is taken. It is a fact about all finite functions, and `BySize` proves it without
an operator parameter: the sizes for which it holds form a set, and a set of
numbers has a least one (`LeastNumber`). From it follow `SumChanged` (one summand changes) and
`WeightSent`, `WeightTaken`, `WeightPadded` (a packet is sent, taken, or weighs nothing). The
program enters in two places. A payment keeps its value while it is in flight, as its line is
locked until it arrives and a locked line is not repriced (`ValueStands`). And the price
the core takes from the buyer is the one the db core will credit (`PromisedPrice`): `Mirrored`
says that behind a granted lock no answer changes the line any more.

### 4.8 `PlayerbotRateEventsProofs`

| theorem | says |
|---|---|
| `TypeCorrect` | `Spec => []TypeOK` |
| `RaisedOnce` | `Spec => []RateIsRaised`: for any rates, percents, restarts, missed ends and moves of a GM |
| `ComesBack` | `Spec => []NormRestored` |
| `LeftAlone` | `Spec => []MovedIsLeft`: ends, restarts and missed ends leave a GM's rate, in every world, until the leader begins an event or re-bases one |
| `RepeatsSafely` | `Spec => []SafeToRepeat`: also where figures change inside an event |

The last four are about the moments when nothing is on its way, and most of what
happens happens in between. The invariant names the *phases* of an event by what is
still in the leader's queue and what is stored already: `Beginning` (both requests on the
way), `Raising` (the base is stored), `Raised`, `Ending`, `Forgetting`, `Clean`,
`Remembered` (a restart or a missed end has left a base behind) and `Overruled` (a GM
moved the rate). `Mirror` says that what the leader reads is what is stored, once
the messages in flight have come round. A crash delivers a prefix of at most
two requests, and each prefix is shown to be one of the phases again: that the base is stored
*before* the rate is raised is what makes this true. These phases are only claimed for worlds
without changing figures; in the others the compounding of Part 5 is real. What remains true there is
weaker: the requests on their way end in no base, or in a base whose rate is what the figure
makes of it (`Standing`, `Basing` and `Rating` when it begins, `Returning`, `Wiping` and
`Wiped` when its figure changes and no base stays, a restart again leaving one of them). It is
what `RepeatsSafely` needs (`Repeatable`).

`LeftAlone` rests on none of the phases (`Left`, with `Mirror`): while a GM's rate stands, nothing but the end's
forgetting of the base is on its way, and the rate is not the event's own figure, so no end takes it
for that. It claims nothing of what a begin does to the rate (Part 5, 8).

### 4.9 `PlayerbotEventRulesProofs`

For a week and a day of any length, any two lines and any horizon:

| theorem | says |
|---|---|
| `OnInOpenings` | `Spec => []OnWhileAnOpeningLasts` |
| `EndsOnTime` | `Spec => EndsAsAnnounced` |
| `StartsOnTime` | `Spec => StartsAsShown` |

The code looks at today and at yesterday, which it computes as `(dayIndex + Week - 1) % Week`, and
searches a week ahead; the properties speak of stretches of minutes on one clock. `Division` and
`DivisionIsUnique` state what `\div` and `%` are to each other, `Yesterday` and `DaysOn`
that the code's days are the days before and after also at the week's end. With these,
`ActiveInOpenings` shows that an opening that lasts now began today or yesterday and not
before, `OpeningNow` that `MinutesToEnd` leads to the end of it, and `FirstOpening` that
`MinutesToStart` leads to the first one to come: the same day a week later, the search's
last, is needed and enough. What is shown next does not move because the first opening after
this minute, unless it is the next minute, is also the first after that.

### 4.10 What is only model-checked

Liveness (`CohortReturns`, `BannedLeave`, `BackToNorm`, `Ends`, `PushedFinishes`,
`QuitReturns`, `WrittenInTheEnd`): the prover has neither ENABLED nor fairness. Every invariant
and every action property of a passing run is a theorem. The three properties of Part 5 that
TLC finds violated are theorems of nothing.

---------------------------------------------------------------------------

## 5. Where code and documentation disagree

Three are runs that TLC finds violated, and "findings" with the quoted line:

1. **The registry's order** (`registry_order`). The query's three tiers end in a
   `std::set` ordered by PID, so a benched veteran is started before a newcomer,
   which is what the comment above the query set out to change.
2. **A figure changed inside an event** (`rate_rebased`). The end and the begin of a
   re-base read the same stale flags: the base is wiped while the raised rate
   stays, and becomes the base of the next event.
3. **A request nobody answers** (`offline_requests`). The journal's comment says that the
   db handlers mark completion. When the db core refuses an edit or a removal because a buyer
   has locked the line or already bought it, because the line's own query has not come back, or because the new price
   takes the shop beyond `GOLD_MAX`, or when an addition reaches a shop
   whose last line has gone and which is closed, it logs or does nothing. The request
   stays; the bot neither serves a shop nor buys until the core restarts ("unresolved ... commerce paused"). The
   shortest case TLC finds: a keeper takes a line off its new counter before the db core
   has stored it. The likeliest one needs no slow query: a buyer's lock is ahead of the owner's edit.
   The dearest: the keeper takes off its last line, the core closes the empty shop, and the keeper's next
   addition crosses the closing - that item is lost as well.

Five more shape the premises of the properties, and each can be reproduced by
changing one line of a configuration:

4. **All first loads fail.** The update event is created by the first successful load.
   If every load of the first batch fails, nothing drains the queue or tops it up.
   The bootstrap's comment knows the "startup deadlock" and avoids it for the
   first batch only. This is why `CohortReturns` speaks of `updateOn`.
5. **No answer.** On a null result the db core logs and returns
   (`ClientManagerPlayer.cpp:602`). The bot keeps its descriptor and its entry in
   `m_mapBots`, so `Spawn` refuses it from then on, and the top-up counts it
   missing each minute in vain. `lifecycle_returns` with `"lost"` in a
   world of `ReturnWorlds` shows it.
6. **Banned while loading.** The refresh despawns only bots that have a character
   already; one in its load enters the world a moment later and stays until the
   next refresh, a minute on. This is why `BannedAreNotAsked` speaks of being asked
   for, and `BannedLeave` of the end.
7. **A second bootstrap.** A reconnect of the db core while no bot is managed schedules
   a second cohort on top of the first, beyond the budget: `lifecycle_lists` with
   `"reboot"` in a world of `ListWorlds`.
8. **A GM's rate and the next begin.** `playerbot_events.h:18-19` says that a rate a GM
   has moved during an event is "left where they put it". It is by the end (`MovedIsLeft`). But a begin that
   finds a base goes by the base: a leader that restarts inside the event, an event that comes after
   a missed end, or another figure for the running one overwrites it. `Overrules` is where the
   model does: with `moved` kept by a begin, `MovedIsLeft` is violated by a restart.

---------------------------------------------------------------------------

## 6. What is not modelled, and the plan

*Left out for good*: parsing of the panel's files, notices, logs and status files;
everything numeric a bot decides alone at one tick (combat, gear scores, path
finding, prices); the engine where bots do not differ from people; launchers,
panels, data.

*Left out of the modelled components, knowingly*: a GM's `/bot_spawn` of a banned or
resting bot, of which the code does not say who should win; the disconnect that `BanManager::Block` adds to a
ban at once (`Kick` may follow `GmBan` at any time, which also stands for the lifting of a ban); a `/bot_spawn`
before the registry was read, which reads it first (`GmSpawn` comes after); a failing `CreateItem`
at a sale or a removal, after which the core keeps a line that the db core has not
(`ikarus_shop_manager.cpp:1030-1036`); the
32-bit wrap of the millisecond clock; the chest event's gate; a GM's rate in
flight together with the leader's own; connecting, direct queries and result sets of the
SQL library; the contents of player caches, price lists and item awards; auctions, offers,
timed items, fees, notifications and people's own handling of shops, shops of other cores, and
restarts of either core under the shops.

*Components that could be modelled and are not.* Duels, party invitations and dungeon
visits have a policy header each, of predicates over one bot's clock with a
unit test each; what two bots do to each other there is the engine's `CPVPManager` and
`CParty`. Guild wars are a schedule around the engine's wars. The demon tower is mostly positions
and a quest script. None of them keeps items or money between processes.

*What would add most next*:

1. Restarts under the offline shops: the game core forgets the journal and mirrors the db
   core's shops again; the db core loads its own from tables written by queries some of
   which were still in its queue.
2. A 32-bit clock under the timers of the lifecycle, and the composition of
   `PlayerbotEventRules` with `PlayerbotRateEvents`, where the window closes
   when the clock says so.
