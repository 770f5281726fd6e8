--------------------------- MODULE PlayerItemCache ---------------------------
(***************************************************************************)
(* The item and player caches of the db core (CClientManager, CItemCache,  *)
(* CPlayerTableCache) between the game cores, which save, hand over and    *)
(* destroy items, and the SQL connection, which runs what is pushed in the *)
(* order it was pushed (SqlFifo).                                          *)
(*                                                                         *)
(* An item is where it is and how often it was changed; version 0 is an    *)
(* item that is not (a row that is not there, a cached vnum of 0).  The    *)
(* game cores' own knowledge is the history variable held: a load is right *)
(* when its answer is what held says.  A game core that dies takes with it *)
(* what it had not told the db core.                                       *)
(*                                                                         *)
(* Clocks are not modelled: a timeout may come at any time, with the one   *)
(* exception Expire states.                                                *)
(***************************************************************************)
EXTENDS Naturals, FiniteSets, Sequences

CONSTANTS
  Items,
  Players,      \* the characters
  Bots,         \* those nobody sits at: loaded without a login, and without a logout
  Keeper,       \* the character whose account has the safebox
  Box, Ground, Nobody,  \* the places of an item that is in no inventory
  MaxVer,       \* bound: an item is changed at most MaxVer - 1 times
  MaxQueue      \* bound: the clients wait while this many messages are pending

ASSUME PlacesAreApart ==
  /\ Bots \subseteq Players /\ Keeper \in Players
  /\ {Box, Ground, Nobody} \cap Players = {}
  /\ Box # Ground /\ Ground # Nobody /\ Nobody # Box
ASSUME BoundsAreNat == MaxVer \in Nat \ {0} /\ MaxQueue \in Nat

VARIABLES
  \* The db core.
  cached,       \* the keys of m_map_itemCache
  cache,        \* m_data of the cached items
  dirty,        \* the cached items with m_bNeedQuery
  listed,       \* the keys of m_map_pkItemCacheSetPtr
  sets,         \* its sets
  pcache,       \* the keys of m_map_playerCache
  logout,       \* the keys of m_map_logout
  up,           \* the main loop runs
  \* The connection and the database.
  sql,          \* messages pushed and not run
  results,      \* results not popped
  rows,         \* the table item
  \* The game cores.
  session,      \* "off", "loading", "on"
  box,          \* the safebox: "closed", "loading", "open"
  delayed,      \* m_set_pkItemForDelayedSave
  \* History.
  held,         \* where every item is, and its version
  told,         \* what the db core was last told of it
  answer,       \* what this step's load was answered
  owed          \* per player: items waiting for a flush since the player left

core == <<cached, cache, dirty, listed, sets, pcache, logout, up>>
database == <<sql, results, rows>>
game == <<session, box, delayed>>
vars == <<core, database, game, held, told, answer, owed>>

Row == [owner : Players \cup {Box, Ground, Nobody}, ver : 0..MaxVer]
Gone == [owner |-> Nobody, ver |-> 0]
Live(r) == r.ver > 0

NoAnswer == [who |-> Nobody, has |-> [i \in {} |-> Gone]]

Held(w) == {i \in Items : held[i].owner = w}

Moved(i, w) == [held EXCEPT ![i] = [owner |-> w, ver |-> held[i].ver]]

\* The live items of S, with the rows f gives them.
LiveOf(S, f) == [i \in {j \in S : Live(f[j])} |-> f[i]]

Init ==
  /\ cached = {} /\ cache = [i \in Items |-> Gone] /\ dirty = {}
  /\ listed = {} /\ sets = [p \in Players |-> {}]
  /\ pcache = {} /\ logout = {} /\ up = TRUE
  /\ sql = <<>> /\ results = <<>>
  /\ rows \in [Items -> [owner : Players \cup {Box}, ver : {1}]]
  /\ session = [p \in Players |-> "off"] /\ box = "closed" /\ delayed = {}
  /\ held = rows /\ told = rows
  /\ answer = NoAnswer
  /\ owed = [p \in Players |-> {}]

-----------------------------------------------------------------------------
(* Messages.                                                               *)

Write(S, f) == [kind |-> "write", who |-> Nobody, rows |-> [i \in S |-> f[i]]]
Select(w) == [kind |-> "select", who |-> w, rows |-> [i \in {} |-> Gone]]

\* The queue after the queries of S; one message stands for all of them.
Pushed(S, f) == IF S = {} THEN sql ELSE Append(sql, Write(S, f))

\* CItemCache::OnFlush: a DELETE for a vnum of 0.
OnFlush(r) == IF Live(r) THEN r ELSE Gone

Flushed == [i \in Items |-> OnFlush(cache[i])]

\* What the clients may still do: the queue is bounded.
Room == up /\ Len(sql) < MaxQueue

\* No load is answered, and the timers of the items written are over.
Quiet ==
  /\ answer' = NoAnswer
  /\ owed' = [p \in Players |-> owed[p] \cap dirty']

-----------------------------------------------------------------------------
(* The item cache.                                                         *)

\* Mutant: the cache stays in the set of its old owner.
PutAndKeep(S, f) ==
  /\ cached' = cached \cup S
  /\ cache' = [i \in Items |-> IF i \in S THEN f[i] ELSE cache[i]]
  /\ sets' = [p \in Players |->
       sets[p] \cup {i \in S : f[i].owner = p /\ p \in listed'}]

\* Mutant: the cache does not join the new owner's set.
PutAlone(S, f) ==
  /\ cached' = cached \cup S
  /\ cache' = [i \in Items |-> IF i \in S THEN f[i] ELSE cache[i]]
  /\ sets' = [p \in Players |->
       sets[p] \ {i \in S \cap cached : cache[i].owner = p /\ f[i].owner # p}]

\* The rows f of the items of S are cached: a cache that changes its owner
\* leaves the old owner's set, and joins the new owner's if there is one.
PutRows(S, f) ==
  /\ cached' = cached \cup S
  /\ cache' = [i \in Items |-> IF i \in S THEN f[i] ELSE cache[i]]
  /\ sets' = [p \in Players |->
       (sets[p] \ {i \in S \cap cached : cache[i].owner = p /\ f[i].owner # p})
         \cup {i \in S : f[i].owner = p /\ p \in listed'}]

\* PutItemCache: a cache whose owner has no set is written at once.
PutItemCache(S, f, skip) ==
  LET direct == {i \in S : f[i].owner \notin listed'}
  IN  /\ PutRows(S, f)
      /\ dirty' = (IF skip THEN dirty ELSE dirty \cup S) \ direct
      /\ sql' = Pushed(direct, f)

\* QUERY_ITEM_SAVE of an item in an inventory.
ItemSave(i, r) ==
  /\ told' = [told EXCEPT ![i] = r]
  /\ UNCHANGED listed
  /\ PutItemCache({i}, [j \in {i} |-> r], FALSE)

\* QUERY_ITEM_SAVE of an item in a safebox: the cache goes unflushed.
ItemSaveBox(i, r) ==
  /\ told' = [told EXCEPT ![i] = r]
  /\ cached' = cached \ {i}
  /\ cache' = [cache EXCEPT ![i] = Gone]
  /\ dirty' = dirty \ {i}
  /\ sets' = [p \in Players |->
       sets[p] \ {j \in {i} \cap cached : cache[j].owner = p}]
  /\ sql' = Pushed({i}, [j \in {i} |-> r])
  /\ UNCHANGED listed

\* Mutant: the cache waits for a flush, and is marked as written.
DestroyMarked(i) ==
  /\ told' = [told EXCEPT ![i] = Gone]
  /\ cache' = [cache EXCEPT ![i] = [owner |-> cache[i].owner, ver |-> 0]]
  /\ dirty' = dirty \ {i}
  /\ sql' = IF i \in cached THEN sql ELSE Pushed({i}, [j \in {i} |-> Gone])
  /\ UNCHANGED <<cached, listed, sets>>

\* QUERY_ITEM_DESTROY: a cache is kept with a vnum of 0, and written at once;
\* without one, the DELETE is pushed as it is.
ItemDestroy(i) ==
  /\ told' = [told EXCEPT ![i] = Gone]
  /\ cache' = [cache EXCEPT ![i] = [owner |-> cache[i].owner, ver |-> 0]]
  /\ dirty' = IF Live(cache[i]) THEN dirty \ {i} ELSE dirty
  /\ sql' = IF i \in cached /\ ~Live(cache[i])
            THEN sql ELSE Pushed({i}, [j \in {i} |-> Gone])
  /\ UNCHANGED <<cached, listed, sets>>

\* FlushItemCacheSet: write what needs it, drop the caches and the set.
FlushItemCacheSet(p) ==
  /\ sql' = Pushed(sets[p] \cap dirty, Flushed)
  /\ cached' = cached \ sets[p]
  /\ cache' = [i \in Items |-> IF i \in sets[p] THEN Gone ELSE cache[i]]
  /\ dirty' = dirty \ sets[p]
  /\ listed' = listed \ {p}
  /\ sets' = [sets EXCEPT ![p] = {}]

-----------------------------------------------------------------------------
(* Loading.                                                                *)

\* QUERY_PLAYER_LOAD: a login takes the logout back, a bot has none.
LogoutAfterLoad(p) == IF p \in Bots THEN logout ELSE logout \ {p}

\* A player cache and a set: the items come from the set.
LoadFromSet(p) ==
  /\ Room /\ session[p] = "off"
  /\ p \in pcache /\ p \in listed
  /\ session' = [session EXCEPT ![p] = "on"]
  /\ logout' = LogoutAfterLoad(p)
  /\ answer' = [who |-> p, has |-> LiveOf(sets[p], cache)]
  /\ owed' = [owed EXCEPT ![p] = {}]
  /\ UNCHANGED <<cached, cache, dirty, listed, sets, pcache, up, database,
                 box, delayed, held, told>>

\* Otherwise the items are selected.
LoadFromRows(p) ==
  /\ Room /\ session[p] = "off"
  /\ ~(p \in pcache /\ p \in listed)
  /\ session' = [session EXCEPT ![p] = "loading"]
  /\ logout' = LogoutAfterLoad(p)
  /\ sql' = Append(sql, Select(p))
  /\ answer' = NoAnswer
  /\ owed' = [owed EXCEPT ![p] = {}]
  /\ UNCHANGED <<cached, cache, dirty, listed, sets, pcache, up, results, rows,
                 box, delayed, held, told>>

\* RESULT_ITEM_LOAD: the answer, a set, and the rows as clean caches.
ItemLoad ==
  /\ up /\ results # <<>> /\ Head(results).who \in Players
  /\ LET p == Head(results).who
         has == Head(results).rows
     IN  /\ session' = [session EXCEPT ![p] = "on"]
         /\ listed' = listed \cup {p}
         /\ PutItemCache(DOMAIN has, has, TRUE)
         /\ answer' = [who |-> p, has |-> has]
  /\ results' = Tail(results)
  /\ owed' = [p \in Players |-> owed[p] \cap dirty']
  /\ UNCHANGED <<pcache, logout, up, rows, box, delayed, held, told>>

\* QUERY_SAFEBOX_LOAD, once the password was right: the items are selected.
BoxLoad ==
  /\ Room /\ session[Keeper] = "on" /\ box = "closed"
  /\ box' = "loading"
  /\ sql' = Append(sql, Select(Box))
  /\ UNCHANGED <<core, results, rows, session, delayed, held, told>>
  /\ Quiet

\* RESULT_SAFEBOX_LOAD.
BoxLoaded ==
  /\ up /\ results # <<>> /\ Head(results).who = Box
  /\ box' = "open"
  /\ answer' = [who |-> Box, has |-> Head(results).rows]
  /\ results' = Tail(results)
  /\ UNCHANGED <<core, sql, rows, session, delayed, held, told, owed>>

-----------------------------------------------------------------------------
(* Players and their items.                                                *)

\* CItem::Save: an item changes, and is saved later.
Change(i) ==
  /\ up /\ held[i].ver \in 1..(MaxVer - 1)
  /\ held[i].owner \in Players /\ session[held[i].owner] = "on"
  /\ held' = [held EXCEPT ![i] = [owner |-> held[i].owner, ver |-> held[i].ver + 1]]
  /\ delayed' = delayed \cup {i}
  /\ UNCHANGED <<core, database, session, box, told>>
  /\ Quiet

\* ITEM_MANAGER::Update or FlushDelayedSave: one item is saved.
SaveSingleItem(i) ==
  /\ Room /\ i \in delayed
  /\ delayed' = delayed \ {i}
  /\ ItemSave(i, held[i])
  /\ UNCHANGED <<pcache, logout, up, results, rows, session, box, held>>
  /\ Quiet

\* CExchange::Done, CShop::Buy: an item changes hands and is saved at once.
Trade(p, q, i) ==
  /\ Room /\ p # q
  /\ session[p] = "on" /\ session[q] = "on" /\ i \in Held(p)
  /\ held' = Moved(i, q)
  /\ delayed' = delayed \ {i}
  /\ ItemSave(i, held'[i])
  /\ UNCHANGED <<pcache, logout, up, results, rows, session, box>>
  /\ Quiet

\* CHARACTER::DropItem: an item without an owner is destroyed for the db core.
Drop(p, i) ==
  /\ Room /\ session[p] = "on" /\ i \in Held(p)
  /\ held' = Moved(i, Ground)
  /\ delayed' = delayed \ {i}
  /\ ItemDestroy(i)
  /\ UNCHANGED <<pcache, logout, up, results, rows, session, box>>
  /\ Quiet

\* CHARACTER::PickupItem.
Pickup(p, i) ==
  /\ up /\ session[p] = "on" /\ i \in Held(Ground)
  /\ held' = Moved(i, p)
  /\ delayed' = delayed \cup {i}
  /\ UNCHANGED <<core, database, session, box, told>>
  /\ Quiet

\* ITEM_MANAGER::DestroyItem: used up in a bag, or gone from the ground.
Destroy(i) ==
  /\ Room /\ Live(held[i])
  /\ \/ held[i].owner = Ground
     \/ held[i].owner \in Players /\ session[held[i].owner] = "on"
  /\ held' = [held EXCEPT ![i] = Gone]
  /\ delayed' = delayed \ {i}
  /\ ItemDestroy(i)
  /\ UNCHANGED <<pcache, logout, up, results, rows, session, box>>
  /\ Quiet

\* CSafebox::Add.
BoxCheckin(i) ==
  /\ Room /\ session[Keeper] = "on" /\ box = "open" /\ i \in Held(Keeper)
  /\ held' = Moved(i, Box)
  /\ delayed' = delayed \ {i}
  /\ ItemSaveBox(i, held'[i])
  /\ UNCHANGED <<pcache, logout, up, results, rows, session, box>>
  /\ Quiet

\* Mutant: the item is saved like any other.
CheckoutUnflushed(i) ==
  /\ Room /\ session[Keeper] = "on" /\ box = "open" /\ i \in Held(Box)
  /\ held' = Moved(i, Keeper)
  /\ delayed' = delayed \ {i}
  /\ ItemSave(i, held'[i])
  /\ UNCHANGED <<pcache, logout, up, results, rows, session, box>>
  /\ Quiet

\* CInputMain::SafeboxCheckout: the item is saved and its cache flushed
\* (HEADER_GD_ITEM_FLUSH), so that the next load of the safebox misses it.
BoxCheckout(i) ==
  /\ Room /\ session[Keeper] = "on" /\ box = "open" /\ i \in Held(Box)
  /\ held' = Moved(i, Keeper)
  /\ told' = [told EXCEPT ![i] = held'[i]]
  /\ delayed' = delayed \ {i}
  /\ UNCHANGED <<listed, pcache, logout, up, results, rows, session, box>>
  /\ PutRows({i}, held')
  /\ dirty' = dirty \ {i}
  /\ sql' = Pushed({i}, held')
  /\ Quiet

\* QUERY_PLAYER_SAVE while the player plays (a bot's first tick persists it).
PlayerSave(p) ==
  /\ up /\ session[p] = "on" /\ p \notin pcache
  /\ pcache' = pcache \cup {p}
  /\ UNCHANGED <<cached, cache, dirty, listed, sets, logout, up, database, game, held, told>>
  /\ Quiet

\* CHARACTER::Disconnect, after its delayed saves: SaveReal, and LOGOUT for
\* whoever has a login.  (Nobody leaves while a safebox is on its way.)
Leave(p) ==
  /\ up /\ session[p] = "on"
  /\ Held(p) \cap delayed = {}
  /\ p = Keeper => box # "loading"
  /\ session' = [session EXCEPT ![p] = "off"]
  /\ box' = IF p = Keeper THEN "closed" ELSE box
  /\ pcache' = pcache \cup {p}
  /\ logout' = IF p \in Bots THEN logout ELSE logout \cup {p}
  /\ answer' = NoAnswer
  /\ owed' = [owed EXCEPT ![p] = dirty]
  /\ UNCHANGED <<cached, cache, dirty, listed, sets, up, database, delayed, held, told>>

\* The game core dies: RemovePeer logs nobody out, and what was asked for the
\* core is answered to nobody.  (A character dies only after its first save; see
\* the README for what happens before.)
Crash ==
  /\ up /\ \A p \in Players : session[p] = "on" => p \in pcache
  /\ \E p \in Players : session[p] # "off"
  /\ session' = [p \in Players |-> "off"] /\ box' = "closed" /\ delayed' = {}
  /\ held' = told
  /\ sql' = [n \in DOMAIN sql |-> [sql[n] EXCEPT !.who = Nobody]]
  /\ results' = <<>>
  /\ answer' = NoAnswer
  /\ UNCHANGED <<core, rows, told, owed>>

-----------------------------------------------------------------------------
(* The db core's own clock.                                                *)

\* Mutant: the flush forgets to write.
FlushUnwritten(i) ==
  /\ up /\ i \in dirty
  /\ dirty' = dirty \ {i}
  /\ UNCHANGED <<cached, cache, listed, sets, pcache, logout, up, database, game, held, told>>
  /\ Quiet

\* UpdateItemCache: the flush timeout of a cache.
UpdateItemCache(i) ==
  /\ up /\ i \in dirty
  /\ sql' = Pushed({i}, Flushed)
  /\ dirty' = dirty \ {i}
  /\ UNCHANGED <<cached, cache, listed, sets, pcache, logout, up, results, rows, game, held, told>>
  /\ Quiet

\* UpdatePlayerCache: a player cache nobody touched has its set flushed.
UpdateItemCacheSet(p) ==
  /\ up /\ p \in pcache /\ sets[p] \cap dirty # {}
  /\ sql' = Pushed(sets[p] \cap dirty, Flushed)
  /\ dirty' = dirty \ sets[p]
  /\ UNCHANGED <<cached, cache, listed, sets, pcache, logout, up, results, rows, game, held, told>>
  /\ Quiet

\* UpdateLogoutPlayer.  An item cache is flushed within five minutes, a
\* logout expires after ten: what waited when the player left is written.
Expire(p) ==
  /\ up /\ p \in logout /\ owed[p] = {}
  /\ FlushItemCacheSet(p)
  /\ pcache' = pcache \ {p}
  /\ logout' = logout \ {p}
  /\ UNCHANGED <<up, results, rows, game, held, told>>
  /\ Quiet

\* The end of MainLoop: every cache is flushed, then the maps are cleared.
Shutdown ==
  /\ up /\ up' = FALSE
  /\ sql' = Pushed(dirty, Flushed)
  /\ cached' = {} /\ cache' = [i \in Items |-> Gone] /\ dirty' = {}
  /\ pcache' = {}
  /\ UNCHANGED <<listed, sets, logout, results, rows, game, held, told>>
  /\ Quiet

-----------------------------------------------------------------------------
(* The database.                                                           *)

\* The connection runs the oldest message.
Execute ==
  /\ sql # <<>>
  /\ LET m == Head(sql)
     IN  IF m.kind = "write"
         THEN /\ rows' = [i \in Items |-> IF i \in DOMAIN m.rows THEN m.rows[i] ELSE rows[i]]
              /\ UNCHANGED results
         ELSE /\ results' = IF m.who = Nobody THEN results
                   ELSE Append(results,
                          [who |-> m.who,
                           rows |-> LiveOf({i \in Items : rows[i].owner = m.who}, rows)])
              /\ UNCHANGED rows
  /\ sql' = Tail(sql)
  /\ answer' = NoAnswer
  /\ UNCHANGED <<core, game, held, told, owed>>

Load == \/ \E p \in Players : LoadFromSet(p) \/ LoadFromRows(p)
        \/ ItemLoad \/ BoxLoad \/ BoxLoaded

Play == \/ \E i \in Items : Change(i) \/ SaveSingleItem(i) \/ Destroy(i)
                              \/ BoxCheckin(i) \/ BoxCheckout(i)
        \/ \E p \in Players, i \in Items : Drop(p, i) \/ Pickup(p, i)
        \/ \E p, q \in Players, i \in Items : Trade(p, q, i)
        \/ \E p \in Players : PlayerSave(p) \/ Leave(p)

Tick == \/ \E i \in Items : UpdateItemCache(i)
        \/ \E p \in Players : UpdateItemCacheSet(p) \/ Expire(p)

Next == Load \/ Play \/ Crash \/ Tick \/ Shutdown \/ Execute

Spec == Init /\ [][Next]_vars

\* Timers come, the connection works, and its results are fetched.
FairSpec ==
  /\ Spec
  /\ WF_vars(Execute) /\ WF_vars(ItemLoad \/ BoxLoaded)
  /\ \A i \in Items : WF_vars(UpdateItemCache(i))

-----------------------------------------------------------------------------
(* Properties.                                                             *)

\* The state is of its type; what needs a query is cached, what is listed is
\* in a set that exists.
TypeOK ==
  /\ cached \subseteq Items /\ dirty \subseteq cached
  /\ cache \in [Items -> Row]
  /\ listed \subseteq Players /\ sets \in [Players -> SUBSET Items]
  /\ pcache \subseteq Players /\ logout \subseteq Players \ Bots
  /\ up \in BOOLEAN
  /\ rows \in [Items -> Row] /\ held \in [Items -> Row] /\ told \in [Items -> Row]
  /\ session \in [Players -> {"off", "loading", "on"}]
  /\ box \in {"closed", "loading", "open"}
  /\ delayed \subseteq Items
  /\ owed \in [Players -> SUBSET Items]

\* A set points at live caches of its owner only: no pointer dangles when a
\* cache is deleted, and no item is in the bags of two players.
SetsAreOwned ==
  up => \A p \in Players : \A i \in sets[p] :
          p \in listed /\ i \in cached /\ cache[i].owner = p

\* A cache that waits to be written is in the set of its owner, so that
\* whatever flushes the set (a logout, a player cache left alone) reaches it.
DirtyIsListed == \A i \in dirty : cache[i].owner \in Players /\ i \in sets[cache[i].owner]

\* The row of an item once the queue has drained.
Drained(i) ==
  LET writes == {n \in 1..Len(sql) : i \in DOMAIN sql[n].rows}
  IN  IF writes = {} THEN rows[i]
      ELSE sql[CHOOSE n \in writes : \A k \in writes : k <= n].rows[i]

\* What the db core was last told of an item is not lost: it waits in a
\* cache, or it is the last the database will be told - which after a shutdown
\* must be so of every item.
NothingForgotten ==
  \A i \in Items :
    /\ i \in dirty => cache[i] = told[i]
    /\ i \notin dirty => Drained(i) = told[i]
    /\ i \in cached => OnFlush(cache[i]) = told[i]
    /\ ~up => i \notin cached

\* A load (of a character or of the safebox) is answered with the items that
\* are there, as they are: none lost, none twice, none as it was before; after a
\* crash of the game core, as the db core was last told.
LoadSeesLatest ==
  answer # NoAnswer => answer.has = LiveOf(Held(answer.who), held)

\* What the db core is told of an item is written in the end, unless it is
\* told something else again and again.
WrittenInTheEnd ==
  \A i \in Items : []<>(rows[i] = told[i]) \/ []<><<told'[i] # told[i]>>_vars
=============================================================================
