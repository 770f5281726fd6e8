------------------------ MODULE PlayerItemCacheProofs ------------------------
(***************************************************************************)
(* Proofs about PlayerItemCache, for any items, players and bounds: the    *)
(* types, that a set points at live caches of its owner only, that         *)
(* whatever waits to be written is in a set that will flush it, that       *)
(* nothing the db core was told is lost, and that every load is right.     *)
(***************************************************************************)
EXTENDS PlayerItemCache, SequenceTheorems, WellFoundedInduction, TLAPS

\* The rows of a message: some of the items.
Rows == UNION {[S -> Row] : S \in SUBSET Items}

Message ==
  [kind : {"write"}, who : Players \cup {Box, Nobody}, rows : Rows]
    \cup [kind : {"select"}, who : Players \cup {Box, Nobody}, rows : [{} -> Row]]
Result == [who : Players \cup {Box, Nobody}, rows : Rows]

MessagesOK == sql \in Seq(Message) /\ results \in Seq(Result)

CacheOK ==
  /\ cached \subseteq Items /\ dirty \subseteq cached
  /\ cache \in [Items -> Row]
  /\ listed \subseteq Players /\ sets \in [Players -> SUBSET Items]

\* What SetsAreOwned says of a running core.
Owned ==
  \A p \in Players : \A i \in sets[p] : p \in listed /\ i \in cached /\ cache[i].owner = p

CacheInv == CacheOK /\ SetsAreOwned /\ DirtyIsListed

IInv == TypeOK /\ MessagesOK /\ SetsAreOwned /\ DirtyIsListed

-----------------------------------------------------------------------------
(* Rows and messages.                                                      *)

LEMMA GoneIsRow == Gone \in Row /\ ~Live(Gone)
BY BoundsAreNat, SMT DEF Gone, Row, Live

LEMMA SomeRows ==
  ASSUME NEW S \in SUBSET Items, NEW f, \A i \in S : f[i] \in Row
  PROVE  [i \in S |-> f[i]] \in Rows
BY DEF Rows

LEMMA FlushedRows ==
  ASSUME CacheOK
  PROVE  \A i \in Items : Flushed[i] \in Row
BY GoneIsRow DEF CacheOK, Flushed, OnFlush

\* Pushing rows keeps the queue a queue of messages.
LEMMA PushedOK ==
  ASSUME MessagesOK, NEW S \in SUBSET Items, NEW f, \A i \in S : f[i] \in Row
  PROVE  Pushed(S, f) \in Seq(Message)
PROOF
<1>1. Write(S, f) \in Message
  BY SomeRows DEF Write, Message
<1> QED  BY <1>1, AppendProperties DEF Pushed, MessagesOK

LEMMA SelectOK ==
  ASSUME MessagesOK, NEW w \in Players \cup {Box}
  PROVE  Append(sql, Select(w)) \in Seq(Message)
PROOF
<1>1. [i \in {} |-> Gone] \in [{} -> Row]
  OBVIOUS
<1>2. Select(w) \in Message
  BY <1>1 DEF Select, Message
<1> QED  BY <1>2, AppendProperties DEF MessagesOK

-----------------------------------------------------------------------------
(* The caches.                                                             *)

\* Caching rows, with what waits among them listed, keeps the caches' invariant.
LEMMA PutKeepsCache ==
  ASSUME CacheOK, Owned, DirtyIsListed,
         NEW S \in SUBSET Items, NEW f, \A i \in S : f[i] \in Row,
         listed \subseteq listed', listed' \subseteq Players,
         PutRows(S, f),
         dirty' \subseteq dirty \cup S,
         \A i \in S \cap dirty' : f[i].owner \in listed'
  PROVE  CacheOK' /\ Owned' /\ DirtyIsListed'
PROOF
<1>1. CacheOK'
  BY DEF CacheOK, PutRows
<1>2. Owned'
  <2> SUFFICES ASSUME NEW p \in Players, NEW i \in sets'[p]
               PROVE  p \in listed' /\ i \in cached' /\ cache'[i].owner = p
    BY DEF Owned
  <2>1. \/ /\ i \in sets[p]
           /\ ~(i \in S \cap cached /\ cache[i].owner = p /\ f[i].owner # p)
        \/ i \in S /\ f[i].owner = p /\ p \in listed'
    BY DEF PutRows
  <2>2. i \in Items
    BY <2>1 DEF CacheOK
  <2> QED  BY <2>1, <2>2 DEF Owned, PutRows
<1>3. DirtyIsListed'
  <2> SUFFICES ASSUME NEW i \in dirty'
               PROVE  cache'[i].owner \in Players /\ i \in sets'[cache'[i].owner]
    BY DEF DirtyIsListed
  <2>1. i \in Items
    BY DEF CacheOK
  <2>2. CASE i \in S
    <3>1. cache'[i].owner = f[i].owner /\ f[i].owner \in listed'
      BY <2>1, <2>2 DEF PutRows
    <3> QED  BY <2>2, <3>1 DEF PutRows
  <2>3. CASE i \notin S
    <3>1. i \in dirty /\ cache'[i] = cache[i]
      BY <2>1, <2>3 DEF PutRows
    <3>2. cache[i].owner \in Players /\ i \in sets[cache[i].owner]
      BY <3>1 DEF DirtyIsListed
    <3> QED  BY <2>3, <3>1, <3>2 DEF PutRows
  <2> QED  BY <2>2, <2>3
<1> QED  BY <1>1, <1>2, <1>3

\* PutItemCache keeps the caches and the queue.
LEMMA PutItemCacheOK ==
  ASSUME CacheOK, Owned, DirtyIsListed, MessagesOK,
         NEW S \in SUBSET Items, NEW f, \A i \in S : f[i] \in Row,
         NEW skip \in BOOLEAN,
         listed \subseteq listed', listed' \subseteq Players,
         PutItemCache(S, f, skip)
  PROVE  CacheOK' /\ Owned' /\ DirtyIsListed' /\ sql' \in Seq(Message)
PROOF
<1> DEFINE direct == {i \in S : f[i].owner \notin listed'}
<1>1. /\ PutRows(S, f)
      /\ dirty' = (IF skip THEN dirty ELSE dirty \cup S) \ direct
      /\ sql' = Pushed(direct, f)
  BY DEF PutItemCache
<1>2. dirty' \subseteq dirty \cup S /\ \A i \in S \cap dirty' : f[i].owner \in listed'
  BY <1>1
<1>3. direct \in SUBSET Items /\ \A i \in direct : f[i] \in Row
  OBVIOUS
<1>4. sql' \in Seq(Message)
  BY <1>1, <1>3, PushedOK
<1>5. CacheOK' /\ Owned' /\ DirtyIsListed'
  BY <1>1, <1>2, PutKeepsCache
<1> QED  BY <1>4, <1>5

\* QUERY_ITEM_SAVE keeps the caches and the queue.
LEMMA ItemSaveOK ==
  ASSUME CacheOK, Owned, DirtyIsListed, MessagesOK,
         NEW i \in Items, NEW r \in Row, ItemSave(i, r)
  PROVE  CacheOK' /\ Owned' /\ DirtyIsListed' /\ sql' \in Seq(Message)
PROOF
<1>1. listed' = listed /\ PutItemCache({i}, [j \in {i} |-> r], FALSE)
  BY DEF ItemSave
<1>2. listed \subseteq listed' /\ listed' \subseteq Players
  BY <1>1 DEF CacheOK
<1>3. {i} \in SUBSET Items /\ \A j \in {i} : [k \in {i} |-> r][j] \in Row
  OBVIOUS
<1> QED  BY <1>1, <1>2, <1>3, PutItemCacheOK

\* QUERY_ITEM_SAVE of a safebox item: it leaves the caches altogether.
LEMMA ItemSaveBoxOK ==
  ASSUME CacheOK, Owned, DirtyIsListed, MessagesOK,
         NEW i \in Items, NEW r \in Row, ItemSaveBox(i, r)
  PROVE  CacheOK' /\ Owned' /\ DirtyIsListed' /\ sql' \in Seq(Message)
PROOF
<1>1. sql' \in Seq(Message)
  BY PushedOK DEF ItemSaveBox
<1>2. CacheOK'
  BY GoneIsRow DEF CacheOK, ItemSaveBox
<1>3. \A p \in Players : sets'[p] = sets[p] \ {j \in {i} \cap cached : cache[j].owner = p}
  BY DEF ItemSaveBox
<1>4. Owned'
  <2> SUFFICES ASSUME NEW p \in Players, NEW j \in sets'[p]
               PROVE  p \in listed' /\ j \in cached' /\ cache'[j].owner = p
    BY DEF Owned
  <2>1. j \in sets[p] /\ j \in cached /\ cache[j].owner = p /\ p \in listed
    BY <1>3 DEF Owned
  <2>2. j # i
    BY <1>3, <2>1
  <2>3. j \in Items
    BY <2>1 DEF CacheOK
  <2> QED  BY <2>1, <2>2, <2>3 DEF ItemSaveBox, CacheOK
<1>5. DirtyIsListed'
  <2> SUFFICES ASSUME NEW j \in dirty'
               PROVE  cache'[j].owner \in Players /\ j \in sets'[cache'[j].owner]
    BY DEF DirtyIsListed
  <2>1. j \in dirty /\ j # i /\ j \in Items
    BY DEF ItemSaveBox, CacheOK
  <2>2. cache'[j] = cache[j]
    BY <2>1 DEF ItemSaveBox, CacheOK
  <2> QED  BY <1>3, <2>1, <2>2 DEF DirtyIsListed
<1> QED  BY <1>1, <1>2, <1>4, <1>5

\* QUERY_ITEM_DESTROY: the owner, and so the sets, stay as they are.
LEMMA ItemDestroyOK ==
  ASSUME CacheOK, Owned, DirtyIsListed, MessagesOK,
         NEW i \in Items, ItemDestroy(i)
  PROVE  CacheOK' /\ Owned' /\ DirtyIsListed' /\ sql' \in Seq(Message)
PROOF
<1>1. Pushed({i}, [j \in {i} |-> Gone]) \in Seq(Message)
  BY GoneIsRow, PushedOK
<1>2. sql' \in Seq(Message)
  BY <1>1 DEF ItemDestroy, MessagesOK
<1>3. /\ \A j \in Items : cache'[j].owner = cache[j].owner
      /\ cache' \in [Items -> Row]
  BY BoundsAreNat DEF ItemDestroy, CacheOK, Row
<1>4. CacheOK'
  BY <1>3 DEF ItemDestroy, CacheOK
<1>5. Owned'
  BY <1>3 DEF ItemDestroy, CacheOK, Owned
<1>6. DirtyIsListed'
  BY <1>3 DEF ItemDestroy, CacheOK, DirtyIsListed
<1> QED  BY <1>2, <1>4, <1>5, <1>6

\* FlushItemCacheSet: no other set held a pointer to what it deletes, and
\* nothing that waited outside is deleted.
LEMMA FlushItemCacheSetOK ==
  ASSUME CacheOK, Owned, DirtyIsListed, MessagesOK,
         NEW p \in Players, FlushItemCacheSet(p)
  PROVE  CacheOK' /\ Owned' /\ DirtyIsListed' /\ sql' \in Seq(Message)
PROOF
<1>1. sets[p] \in SUBSET Items /\ sets[p] \cap dirty \in SUBSET Items
  BY DEF CacheOK
<1>2. sql' \in Seq(Message)
  BY <1>1, FlushedRows, PushedOK DEF FlushItemCacheSet
<1>3. CacheOK'
  BY <1>1, GoneIsRow DEF CacheOK, FlushItemCacheSet
<1>4. \A q \in Players : sets'[q] = IF q = p THEN {} ELSE sets[q]
  BY DEF CacheOK, FlushItemCacheSet
<1>5. Owned'
  <2> SUFFICES ASSUME NEW q \in Players, NEW j \in sets'[q]
               PROVE  q \in listed' /\ j \in cached' /\ cache'[j].owner = q
    BY DEF Owned
  <2>1. q # p /\ j \in sets[q] /\ q \in listed /\ j \in cached /\ cache[j].owner = q
    BY <1>4 DEF Owned
  <2>2. j \notin sets[p]
    BY <2>1 DEF Owned
  <2>3. j \in Items
    BY <2>1 DEF CacheOK
  <2> QED  BY <2>1, <2>2, <2>3 DEF FlushItemCacheSet
<1>6. DirtyIsListed'
  <2> SUFFICES ASSUME NEW j \in dirty'
               PROVE  cache'[j].owner \in Players /\ j \in sets'[cache'[j].owner]
    BY DEF DirtyIsListed
  <2>1. j \in dirty /\ j \notin sets[p] /\ j \in Items
    BY DEF FlushItemCacheSet, CacheOK
  <2>2. cache'[j] = cache[j]
    BY <2>1 DEF FlushItemCacheSet
  <2>3. cache[j].owner \in Players /\ j \in sets[cache[j].owner]
    BY <2>1 DEF DirtyIsListed
  <2> QED  BY <1>4, <2>1, <2>2, <2>3
<1> QED  BY <1>2, <1>3, <1>5, <1>6

-----------------------------------------------------------------------------
(* The steps.                                                              *)

\* The types of everything but the item cache.
RestOK ==
  /\ pcache \subseteq Players /\ logout \subseteq Players \ Bots
  /\ up \in BOOLEAN
  /\ rows \in [Items -> Row] /\ held \in [Items -> Row] /\ told \in [Items -> Row]
  /\ session \in [Players -> {"off", "loading", "on"}]
  /\ box \in {"closed", "loading", "open"}
  /\ delayed \subseteq Items
  /\ owed \in [Players -> SUBSET Items]

LEMMA Parts == IInv <=> CacheOK /\ RestOK /\ MessagesOK /\ SetsAreOwned /\ DirtyIsListed
BY DEF IInv, TypeOK, CacheOK, RestOK

\* While the core is up, its sets are owned.
LEMMA UpOwned ==
  /\ up /\ SetsAreOwned => Owned
  /\ Owned' => SetsAreOwned'
BY DEF SetsAreOwned, Owned

\* What the clients know of an item keeps its type.
LEMMA MovedOK ==
  ASSUME held \in [Items -> Row], NEW i \in Items,
         NEW w \in Players \cup {Box, Ground, Nobody}
  PROVE  Moved(i, w) \in [Items -> Row] /\ Moved(i, w)[i] \in Row
PROOF
<1>1. [owner |-> w, ver |-> held[i].ver] \in Row
  BY DEF Row
<1> QED  BY <1>1 DEF Moved

\* The step keeps the caches if nothing but the database's part of it moves.
LEMMA CacheUnchanged ==
  ASSUME CacheOK, SetsAreOwned, DirtyIsListed,
         UNCHANGED <<cached, cache, listed, sets, up>>, dirty' \subseteq dirty
  PROVE  CacheOK' /\ SetsAreOwned' /\ DirtyIsListed'
BY DEF CacheOK, SetsAreOwned, DirtyIsListed

LEMMA QuietOK ==
  ASSUME RestOK, Quiet
  PROVE  owed' \in [Players -> SUBSET Items]
BY DEF RestOK, Quiet

LEMMA LoadKeeps ==
  ASSUME IInv, Load
  PROVE  IInv'
PROOF
<1>0. CacheOK /\ RestOK /\ MessagesOK /\ SetsAreOwned /\ DirtyIsListed
  BY Parts
<1>1. ASSUME NEW p \in Players, LoadFromSet(p)
      PROVE  IInv'
  <2>1. CacheOK' /\ SetsAreOwned' /\ DirtyIsListed'
    BY <1>0, <1>1, CacheUnchanged DEF LoadFromSet
  <2>2. RestOK'
    BY <1>0, <1>1 DEF LoadFromSet, LogoutAfterLoad, RestOK, database
  <2>3. MessagesOK'
    BY <1>0, <1>1 DEF LoadFromSet, MessagesOK, database
  <2> QED  BY <2>1, <2>2, <2>3 DEF IInv, TypeOK, CacheOK, RestOK
<1>2. ASSUME NEW p \in Players, LoadFromRows(p)
      PROVE  IInv'
  <2>1. CacheOK' /\ SetsAreOwned' /\ DirtyIsListed'
    BY <1>0, <1>2, CacheUnchanged DEF LoadFromRows
  <2>2. RestOK'
    BY <1>0, <1>2 DEF LoadFromRows, LogoutAfterLoad, RestOK
  <2>3. MessagesOK'
    BY <1>0, <1>2, SelectOK DEF LoadFromRows, MessagesOK
  <2> QED  BY <2>1, <2>2, <2>3 DEF IInv, TypeOK, CacheOK, RestOK
<1>3. CASE ItemLoad
  <2> DEFINE p == Head(results).who
             has == Head(results).rows
  <2>1. /\ up /\ results # <<>> /\ p \in Players
        /\ listed' = listed \cup {p}
        /\ PutItemCache(DOMAIN has, has, TRUE)
        /\ session' = [session EXCEPT ![p] = "on"]
        /\ results' = Tail(results)
        /\ owed' = [q \in Players |-> owed[q] \cap dirty']
        /\ UNCHANGED <<pcache, logout, up, rows, box, delayed, held, told>>
    BY <1>3 DEF ItemLoad
  <2>2. Head(results) \in Result /\ Tail(results) \in Seq(Result)
    BY <1>0, <2>1, HeadTailProperties DEF MessagesOK
  <2>3. DOMAIN has \in SUBSET Items /\ \A i \in DOMAIN has : has[i] \in Row
    BY <2>2 DEF Result, Rows
  <2>4. CacheOK' /\ Owned' /\ DirtyIsListed' /\ sql' \in Seq(Message)
    <3>1. listed \subseteq listed' /\ listed' \subseteq Players
      BY <1>0, <2>1 DEF CacheOK
    <3>2. Owned
      BY <1>0, <2>1, UpOwned
    <3> HIDE DEF p, has
    <3> QED  BY <1>0, <2>1, <2>3, <3>1, <3>2, PutItemCacheOK
  <2>5. RestOK'
    BY <1>0, <2>1 DEF RestOK
  <2>6. MessagesOK'
    BY <2>1, <2>2, <2>4 DEF MessagesOK
  <2> QED  BY <2>4, <2>5, <2>6, UpOwned DEF IInv, TypeOK, CacheOK, RestOK
<1>4. CASE BoxLoad
  <2>1. CacheOK' /\ SetsAreOwned' /\ DirtyIsListed'
    BY <1>0, <1>4, CacheUnchanged DEF BoxLoad, core
  <2>2. RestOK'
    BY <1>0, <1>4, QuietOK DEF BoxLoad, RestOK, core
  <2>3. MessagesOK'
    BY <1>0, <1>4, SelectOK DEF BoxLoad, MessagesOK
  <2> QED  BY <2>1, <2>2, <2>3 DEF IInv, TypeOK, CacheOK, RestOK
<1>5. CASE BoxLoaded
  <2>1. CacheOK' /\ SetsAreOwned' /\ DirtyIsListed'
    BY <1>0, <1>5, CacheUnchanged DEF BoxLoaded, core
  <2>2. RestOK'
    BY <1>0, <1>5 DEF BoxLoaded, RestOK, core
  <2>3. MessagesOK'
    BY <1>0, <1>5, HeadTailProperties DEF BoxLoaded, MessagesOK
  <2> QED  BY <2>1, <2>2, <2>3 DEF IInv, TypeOK, CacheOK, RestOK
<1> QED  BY <1>1, <1>2, <1>3, <1>4, <1>5 DEF Load

\* Steps of the game cores that the db core hears nothing of.
LEMMA UnheardKeeps ==
  ASSUME IInv, UNCHANGED <<core, database>>, RestOK'
  PROVE  IInv'
PROOF
<1>1. CacheOK' /\ SetsAreOwned' /\ DirtyIsListed'
  BY Parts, CacheUnchanged DEF core
<1>2. MessagesOK'
  BY Parts DEF MessagesOK, database
<1> QED  BY <1>1, <1>2 DEF IInv, TypeOK, CacheOK, RestOK

\* Steps the db core hears of, when they keep its caches.
LEMMA HeardKeeps ==
  ASSUME CacheOK', Owned', DirtyIsListed', sql' \in Seq(Message),
         results' = results, MessagesOK, RestOK'
  PROVE  IInv'
BY UpOwned DEF IInv, TypeOK, CacheOK, RestOK, MessagesOK

LEMMA PlayKeeps ==
  ASSUME IInv, Play
  PROVE  IInv'
PROOF
<1>0. CacheOK /\ RestOK /\ MessagesOK /\ SetsAreOwned /\ DirtyIsListed
  BY Parts
<1>a. up => Owned
  BY <1>0, UpOwned
<1>1. ASSUME NEW i \in Items, Change(i)
      PROVE  IInv'
  <2>1. [owner |-> held[i].owner, ver |-> held[i].ver + 1] \in Row
    BY <1>0, <1>1, BoundsAreNat DEF Change, Row, RestOK
  <2>2. held' \in [Items -> Row]
    BY <1>0, <1>1, <2>1 DEF Change, RestOK
  <2>3. RestOK'
    BY <1>0, <1>1, <2>2, QuietOK DEF Change, RestOK, core, database
  <2> QED  BY <1>1, <2>3, UnheardKeeps DEF Change
<1>2. ASSUME NEW i \in Items, SaveSingleItem(i)
      PROVE  IInv'
  <2>1. CacheOK' /\ Owned' /\ DirtyIsListed' /\ sql' \in Seq(Message)
    BY <1>0, <1>a, <1>2, ItemSaveOK DEF SaveSingleItem, Room, RestOK
  <2>2. told' \in [Items -> Row]
    BY <1>0, <1>2 DEF SaveSingleItem, ItemSave, RestOK
  <2>3. RestOK'
    BY <1>0, <1>2, <2>2, QuietOK DEF SaveSingleItem, RestOK
  <2> QED  BY <1>0, <1>2, <2>1, <2>3, HeardKeeps DEF SaveSingleItem
<1>3. ASSUME NEW i \in Items, Destroy(i)
      PROVE  IInv'
  <2>1. CacheOK' /\ Owned' /\ DirtyIsListed' /\ sql' \in Seq(Message)
    BY <1>0, <1>a, <1>3, ItemDestroyOK DEF Destroy, Room
  <2>2. told' \in [Items -> Row] /\ held' \in [Items -> Row]
    BY <1>0, <1>3, GoneIsRow DEF Destroy, ItemDestroy, RestOK
  <2>3. RestOK'
    BY <1>0, <1>3, <2>2, QuietOK DEF Destroy, RestOK
  <2> QED  BY <1>0, <1>3, <2>1, <2>3, HeardKeeps DEF Destroy
<1>4. ASSUME NEW i \in Items, BoxCheckin(i)
      PROVE  IInv'
  <2>1. held' = Moved(i, Box) /\ held' \in [Items -> Row] /\ held'[i] \in Row
    BY <1>0, <1>4, MovedOK DEF BoxCheckin, RestOK
  <2>2. CacheOK' /\ Owned' /\ DirtyIsListed' /\ sql' \in Seq(Message)
    BY <1>0, <1>a, <1>4, <2>1, ItemSaveBoxOK DEF BoxCheckin, Room
  <2>3. told' \in [Items -> Row]
    BY <1>0, <1>4, <2>1 DEF BoxCheckin, ItemSaveBox, RestOK
  <2>4. RestOK'
    BY <1>0, <1>4, <2>1, <2>3, QuietOK DEF BoxCheckin, RestOK
  <2> QED  BY <1>0, <1>4, <2>2, <2>4, HeardKeeps DEF BoxCheckin
<1>5. ASSUME NEW i \in Items, BoxCheckout(i)
      PROVE  IInv'
  <2>1. held' \in [Items -> Row] /\ held'[i] \in Row
    BY <1>0, <1>5, MovedOK, PlacesAreApart DEF BoxCheckout, RestOK
  <2>2. CacheOK' /\ Owned' /\ DirtyIsListed'
    <3>1. /\ {i} \in SUBSET Items /\ \A j \in {i} : held'[j] \in Row
          /\ listed \subseteq listed' /\ listed' \subseteq Players
          /\ PutRows({i}, held') /\ dirty' \subseteq dirty \cup {i}
          /\ \A j \in {i} \cap dirty' : held'[j].owner \in listed'
      BY <1>0, <1>5, <2>1 DEF BoxCheckout, CacheOK
    <3>2. Owned
      BY <1>a, <1>5 DEF BoxCheckout, Room
    <3> QED  BY <1>0, <3>1, <3>2, PutKeepsCache
  <2>3. sql' \in Seq(Message)
    BY <1>0, <1>5, <2>1, PushedOK DEF BoxCheckout
  <2>4. told' \in [Items -> Row]
    BY <1>0, <1>5, <2>1 DEF BoxCheckout, RestOK
  <2>5. RestOK'
    BY <1>0, <1>5, <2>1, <2>4, QuietOK DEF BoxCheckout, RestOK
  <2> QED  BY <1>0, <1>5, <2>2, <2>3, <2>5, HeardKeeps DEF BoxCheckout
<1>6. ASSUME NEW p \in Players, NEW i \in Items, Drop(p, i)
      PROVE  IInv'
  <2>1. CacheOK' /\ Owned' /\ DirtyIsListed' /\ sql' \in Seq(Message)
    BY <1>0, <1>a, <1>6, ItemDestroyOK DEF Drop, Room
  <2>2. told' \in [Items -> Row]
    BY <1>0, <1>6, GoneIsRow DEF Drop, ItemDestroy, RestOK
  <2>3. held' \in [Items -> Row]
    BY <1>0, <1>6, MovedOK DEF Drop, RestOK
  <2>4. RestOK'
    BY <1>0, <1>6, <2>2, <2>3, QuietOK DEF Drop, RestOK
  <2> QED  BY <1>0, <1>6, <2>1, <2>4, HeardKeeps DEF Drop
<1>7. ASSUME NEW p \in Players, NEW i \in Items, Pickup(p, i)
      PROVE  IInv'
  <2>1. held' \in [Items -> Row]
    BY <1>0, <1>7, MovedOK DEF Pickup, RestOK
  <2>2. RestOK'
    BY <1>0, <1>7, <2>1, QuietOK DEF Pickup, RestOK, core, database
  <2> QED  BY <1>7, <2>2, UnheardKeeps DEF Pickup
<1>8. ASSUME NEW p \in Players, NEW q \in Players, NEW i \in Items, Trade(p, q, i)
      PROVE  IInv'
  <2>1. held' \in [Items -> Row] /\ held'[i] \in Row
    BY <1>0, <1>8, MovedOK DEF Trade, RestOK
  <2>2. CacheOK' /\ Owned' /\ DirtyIsListed' /\ sql' \in Seq(Message)
    BY <1>0, <1>a, <1>8, <2>1, ItemSaveOK DEF Trade, Room
  <2>3. told' \in [Items -> Row]
    BY <1>0, <1>8, <2>1 DEF Trade, ItemSave, RestOK
  <2>4. RestOK'
    BY <1>0, <1>8, <2>1, <2>3, QuietOK DEF Trade, RestOK
  <2> QED  BY <1>0, <1>8, <2>2, <2>4, HeardKeeps DEF Trade
<1>9. ASSUME NEW p \in Players, PlayerSave(p)
      PROVE  IInv'
  <2>1. CacheOK' /\ SetsAreOwned' /\ DirtyIsListed'
    BY <1>0, <1>9, CacheUnchanged DEF PlayerSave
  <2>2. RestOK'
    BY <1>0, <1>9, QuietOK DEF PlayerSave, RestOK, database, game
  <2>3. MessagesOK'
    BY <1>0, <1>9 DEF PlayerSave, MessagesOK, database
  <2> QED  BY <2>1, <2>2, <2>3 DEF IInv, TypeOK, CacheOK, RestOK
<1>10. ASSUME NEW p \in Players, Leave(p)
       PROVE  IInv'
  <2>1. CacheOK' /\ SetsAreOwned' /\ DirtyIsListed'
    BY <1>0, <1>10, CacheUnchanged DEF Leave
  <2>2. dirty \subseteq Items
    BY <1>0 DEF CacheOK
  <2>3. RestOK'
    BY <1>0, <1>10, <2>2 DEF Leave, RestOK, database
  <2>4. MessagesOK'
    BY <1>0, <1>10 DEF Leave, MessagesOK, database
  <2> QED  BY <2>1, <2>3, <2>4 DEF IInv, TypeOK, CacheOK, RestOK
<1> QED  BY <1>1, <1>2, <1>3, <1>4, <1>5, <1>6, <1>7, <1>8, <1>9, <1>10 DEF Play

\* A game core that dies leaves the caches alone, and messages to nobody.
LEMMA CrashKeeps ==
  ASSUME IInv, Crash
  PROVE  IInv'
PROOF
<1>0. CacheOK /\ RestOK /\ MessagesOK /\ SetsAreOwned /\ DirtyIsListed
  BY Parts
<1>1. CacheOK' /\ SetsAreOwned' /\ DirtyIsListed'
  BY <1>0, CacheUnchanged DEF Crash, core
<1>2. RestOK'
  BY <1>0 DEF Crash, RestOK, core
<1>3. sql' \in Seq(Message)
  <2>1. \A n \in 1..Len(sql) : sql[n] \in Message /\ DOMAIN sql = 1..Len(sql)
    BY <1>0 DEF MessagesOK
  <2>2. \A n \in 1..Len(sql) : [sql[n] EXCEPT !.who = Nobody] \in Message
    BY <2>1 DEF Message
  <2>3. Len(sql) \in Nat /\ DOMAIN sql = 1..Len(sql)
    BY <1>0 DEF MessagesOK
  <2>4. sql' \in [1..Len(sql) -> Message]
    BY <2>2, <2>3 DEF Crash
  <2> QED  BY <2>3, <2>4, SeqDef
<1>4. MessagesOK'
  BY <1>0, <1>3, EmptySeq DEF Crash, MessagesOK
<1> QED  BY <1>1, <1>2, <1>4 DEF IInv, TypeOK, CacheOK, RestOK

LEMMA ClockKeeps ==
  ASSUME IInv, Tick \/ Shutdown
  PROVE  IInv'
PROOF
<1>0. CacheOK /\ RestOK /\ MessagesOK /\ SetsAreOwned /\ DirtyIsListed
  BY Parts
<1>1. ASSUME NEW i \in Items, UpdateItemCache(i)
      PROVE  IInv'
  <2>1. CacheOK' /\ SetsAreOwned' /\ DirtyIsListed'
    BY <1>0, <1>1, CacheUnchanged DEF UpdateItemCache
  <2>2. RestOK'
    BY <1>0, <1>1, QuietOK DEF UpdateItemCache, RestOK, game
  <2>3. sql' \in Seq(Message)
    BY <1>0, <1>1, FlushedRows, PushedOK DEF UpdateItemCache
  <2>4. MessagesOK'
    BY <1>0, <1>1, <2>3 DEF UpdateItemCache, MessagesOK
  <2> QED  BY <2>1, <2>2, <2>4 DEF IInv, TypeOK, CacheOK, RestOK
<1>2. ASSUME NEW p \in Players, UpdateItemCacheSet(p)
      PROVE  IInv'
  <2>1. CacheOK' /\ SetsAreOwned' /\ DirtyIsListed'
    BY <1>0, <1>2, CacheUnchanged DEF UpdateItemCacheSet
  <2>2. RestOK'
    BY <1>0, <1>2, QuietOK DEF UpdateItemCacheSet, RestOK, game
  <2>3. sets[p] \cap dirty \in SUBSET Items
    BY <1>0 DEF CacheOK
  <2>4. sql' \in Seq(Message)
    BY <1>0, <1>2, <2>3, FlushedRows, PushedOK DEF UpdateItemCacheSet
  <2>5. MessagesOK'
    BY <1>0, <1>2, <2>4 DEF UpdateItemCacheSet, MessagesOK
  <2> QED  BY <2>1, <2>2, <2>5 DEF IInv, TypeOK, CacheOK, RestOK
<1>3. ASSUME NEW p \in Players, Expire(p)
      PROVE  IInv'
  <2>1. CacheOK' /\ Owned' /\ DirtyIsListed' /\ sql' \in Seq(Message)
    BY <1>0, <1>3, UpOwned, FlushItemCacheSetOK DEF Expire
  <2>2. RestOK'
    BY <1>0, <1>3, QuietOK DEF Expire, RestOK, game
  <2> QED  BY <1>0, <1>3, <2>1, <2>2, HeardKeeps DEF Expire
<1>4. CASE Shutdown
  <2>1. /\ up' = FALSE /\ cached' = {} /\ dirty' = {} /\ pcache' = {}
        /\ cache' = [i \in Items |-> Gone]
        /\ UNCHANGED <<listed, sets, logout, results, rows, game, held, told>>
    BY <1>4 DEF Shutdown
  <2>2. CacheOK' /\ SetsAreOwned' /\ DirtyIsListed'
    BY <1>0, <2>1, GoneIsRow DEF CacheOK, SetsAreOwned, DirtyIsListed
  <2>3. up' \in BOOLEAN
    BY <2>1, Zenon
  <2>4. RestOK'
    BY <1>0, <1>4, <2>1, <2>3, QuietOK DEF Shutdown, RestOK, game
  <2>5. dirty \in SUBSET Items
    BY <1>0 DEF CacheOK
  <2>6. MessagesOK'
    BY <1>0, <1>4, <2>1, <2>5, FlushedRows, PushedOK DEF Shutdown, MessagesOK
  <2> QED  BY <2>2, <2>4, <2>6 DEF IInv, TypeOK, CacheOK, RestOK
<1> QED  BY <1>1, <1>2, <1>3, <1>4 DEF Tick

\* The live rows a select finds are rows of items.
LEMMA LiveRows ==
  ASSUME NEW S \in SUBSET Items, rows \in [Items -> Row]
  PROVE  LiveOf(S, rows) \in Rows
PROOF
<1> DEFINE live == {j \in S : Live(rows[j])}
<1>1. live \in SUBSET Items /\ \A i \in live : rows[i] \in Row
  OBVIOUS
<1>2. LiveOf(S, rows) = [i \in live |-> rows[i]]
  BY DEF LiveOf
<1> HIDE DEF live
<1> QED  BY <1>1, <1>2, SomeRows

LEMMA ExecuteKeeps ==
  ASSUME IInv, Execute
  PROVE  IInv'
PROOF
<1>0. CacheOK /\ RestOK /\ MessagesOK /\ SetsAreOwned /\ DirtyIsListed
  BY Parts
<1> DEFINE m == Head(sql)
           found == [who |-> m.who, rows |-> LiveOf({i \in Items : rows[i].owner = m.who}, rows)]
<1>1. m \in Message /\ Tail(sql) \in Seq(Message) /\ sql' = Tail(sql)
  BY <1>0, HeadTailProperties DEF Execute, MessagesOK
<1>2. UNCHANGED <<core, game, held, told, owed>>
  BY DEF Execute
<1>3. CacheOK' /\ SetsAreOwned' /\ DirtyIsListed'
  BY <1>0, <1>2, CacheUnchanged DEF core
<1>4. CASE m.kind = "write"
  <2>1. /\ rows' = [i \in Items |-> IF i \in DOMAIN m.rows THEN m.rows[i] ELSE rows[i]]
        /\ results' = results
    BY <1>4 DEF Execute
  <2>2. \A i \in DOMAIN m.rows : m.rows[i] \in Row
    BY <1>1 DEF Message, Rows
  <2>3. rows' \in [Items -> Row]
    BY <1>0, <2>1, <2>2 DEF RestOK
  <2>4. RestOK'
    BY <1>0, <1>2, <2>3 DEF RestOK, core, game
  <2>5. MessagesOK'
    BY <1>0, <1>1, <2>1 DEF MessagesOK
  <2> QED  BY <1>3, <2>4, <2>5 DEF IInv, TypeOK, CacheOK, RestOK
<1>5. CASE m.kind # "write"
  <2>1. rows' = rows /\ results' = IF m.who = Nobody THEN results ELSE Append(results, found)
    BY <1>5 DEF Execute
  <2>2. found.rows \in Rows
    BY <1>0, LiveRows DEF RestOK
  <2>3. m.who # Nobody => found \in Result
    BY <1>1, <2>2 DEF Message, Result
  <2> HIDE DEF found
  <2>4. RestOK'
    BY <1>0, <1>2, <2>1 DEF RestOK, core, game
  <2>5. results' \in Seq(Result)
    BY <1>0, <2>1, <2>3, AppendProperties DEF MessagesOK
  <2>6. MessagesOK'
    BY <1>1, <2>5 DEF MessagesOK
  <2> QED  BY <1>3, <2>4, <2>6 DEF IInv, TypeOK, CacheOK, RestOK
<1> QED  BY <1>4, <1>5

\* The invariant holds at the start, and every step keeps it.
LEMMA Inductive ==
  /\ Init => IInv
  /\ IInv /\ [Next]_vars => IInv'
PROOF
<1>1. Init => IInv
  <2> SUFFICES ASSUME Init PROVE IInv
    OBVIOUS
  <2>1. rows \in [Items -> Row] /\ held = rows /\ told = rows
    <3>1. 1 \in 0..MaxVer
      BY BoundsAreNat, SMT
    <3> QED  BY <3>1 DEF Init, Row
  <2>2. up \in BOOLEAN
    BY Zenon DEF Init
  <2>3. RestOK
    BY <2>1, <2>2 DEF Init, RestOK
  <2>4. CacheOK /\ SetsAreOwned /\ DirtyIsListed
    BY GoneIsRow DEF Init, CacheOK, SetsAreOwned, DirtyIsListed
  <2>5. MessagesOK
    BY EmptySeq DEF Init, MessagesOK
  <2> QED  BY <2>3, <2>4, <2>5, Parts
<1>2. IInv /\ [Next]_vars => IInv'
  <2>1. ASSUME IInv, UNCHANGED vars PROVE IInv'
    <3>1. RestOK'
      BY <2>1, Parts DEF vars, core, database, game, RestOK
    <3> QED  BY <2>1, <3>1, UnheardKeeps DEF vars
  <2> QED  BY <2>1, LoadKeeps, PlayKeeps, CrashKeeps, ClockKeeps, ExecuteKeeps DEF Next
<1> QED  BY <1>1, <1>2

-----------------------------------------------------------------------------
(* Theorems about the caches.                                              *)

\* The state of the caches, the sessions and the table is of its type.
THEOREM TypeCorrect == Spec => []TypeOK
PROOF
<1>1. IInv => TypeOK
  BY DEF IInv
<1> QED  BY <1>1, Inductive, PTL DEF Spec

\* No set of CClientManager points at a deleted cache or at another player's.
THEOREM NoDanglingPointer == Spec => []SetsAreOwned
PROOF
<1>1. IInv => SetsAreOwned
  BY DEF IInv
<1> QED  BY <1>1, Inductive, PTL DEF Spec

\* Whatever waits to be written is reached by a flush of its owner's set.
THEOREM FlushReachesAll == Spec => []DirtyIsListed
PROOF
<1>1. IInv => DirtyIsListed
  BY DEF IInv
<1> QED  BY <1>1, Inductive, PTL DEF Spec

-----------------------------------------------------------------------------
(* What a queue of messages leaves in the table.                           *)

\* The row of an item in the table r once the first n messages of q have run.
LastRow(q, r, n, i) ==
  LET writes == {k \in 1..n : i \in DOMAIN q[k].rows}
  IN  IF writes = {} THEN r[i]
      ELSE q[CHOOSE k \in writes : \A l \in writes : l <= k].rows[i]

\* The k-th of n messages is the last that writes i.
Latest(q, n, i, k) ==
  k \in 1..n /\ i \in DOMAIN q[k].rows /\ \A l \in (k + 1)..n : i \notin DOMAIN q[l].rows

\* A set of numbers up to n has a greatest.
LEMMA Greatest ==
  ASSUME NEW n \in Nat, NEW S, S \subseteq 1..n, S # {}
  PROVE  \E k \in S : \A l \in S : l <= k
PROOF
<1> DEFINE T == {n - k : k \in S}
<1>1. T \subseteq Nat /\ T # {}
  <2>1. \A k \in S : n - k \in Nat
    OBVIOUS
  <2>2. T \subseteq Nat
    BY <2>1
  <2>3. T # {}
    OBVIOUS
  <2> QED  BY <2>2, <2>3
<1>2. PICK x \in T : \A y \in T : <<y, x>> \notin OpToRel(<, Nat)
  BY <1>1, NatLessThanWellFounded, WFMin
<1>3. PICK k \in S : x = n - k
  OBVIOUS
<1>4. ASSUME NEW l \in S, ~(l <= k)
      PROVE  FALSE
  <2>1. n - l \in T /\ n - l < x /\ n - l \in Nat /\ x \in Nat
    BY <1>1, <1>3, <1>4
  <2>2. <<n - l, x>> \in Nat \X Nat /\ <<n - l, x>>[1] < <<n - l, x>>[2]
    BY <2>1
  <2>3. <<n - l, x>> \in OpToRel(<, Nat)
    BY <2>2, Zenon DEF OpToRel
  <2> QED  BY <1>2, <2>1, <2>3
<1> QED  BY <1>4

LEMMA LastIs ==
  ASSUME NEW q, NEW r, NEW n \in Nat, NEW i, NEW k, Latest(q, n, i, k)
  PROVE  LastRow(q, r, n, i) = q[k].rows[i]
PROOF
<1> DEFINE writes == {m \in 1..n : i \in DOMAIN q[m].rows}
           c == CHOOSE m \in writes : \A l \in writes : l <= m
<1>1. k \in writes /\ \A l \in writes : l <= k
  <2>1. ASSUME NEW l \in writes, ~(l <= k) PROVE FALSE
    <3>1. l \in (k + 1)..n
      BY <2>1 DEF Latest
    <3> QED  BY <2>1, <3>1 DEF Latest
  <2> QED  BY <2>1 DEF Latest
<1>2. c \in writes /\ \A l \in writes : l <= c
  BY <1>1, Zenon
<1>3. c = k
  <2>1. c \in Nat /\ k \in Nat /\ c <= k /\ k <= c
    BY <1>1, <1>2 DEF Latest
  <2> QED  BY <2>1
<1>4. LastRow(q, r, n, i) = IF writes = {} THEN r[i] ELSE q[c].rows[i]
  BY Zenon DEF LastRow
<1> QED  BY <1>1, <1>3, <1>4

LEMMA LastNone ==
  ASSUME NEW q, NEW r, NEW n \in Nat, NEW i, \A k \in 1..n : i \notin DOMAIN q[k].rows
  PROVE  LastRow(q, r, n, i) = r[i]
PROOF
<1> DEFINE writes == {m \in 1..n : i \in DOMAIN q[m].rows}
<1>1. writes = {}
  OBVIOUS
<1> QED  BY <1>1, Zenon DEF LastRow

LEMMA LastCases ==
  ASSUME NEW q, NEW n \in Nat, NEW i
  PROVE  \/ \A k \in 1..n : i \notin DOMAIN q[k].rows
         \/ \E k \in 1..n : Latest(q, n, i, k)
PROOF
<1> DEFINE writes == {m \in 1..n : i \in DOMAIN q[m].rows}
<1>1. CASE writes = {}
  BY <1>1
<1>2. CASE writes # {}
  <2>1. writes \subseteq 1..n
    OBVIOUS
  <2>2. PICK k \in writes : \A l \in writes : l <= k
    <3> HIDE DEF writes
    <3> QED  BY <1>2, <2>1, Greatest
  <2>3. ASSUME NEW l \in (k + 1)..n, i \in DOMAIN q[l].rows PROVE FALSE
    <3>1. l \in writes /\ ~(l <= k)
      BY <2>3
    <3> QED  BY <2>2, <3>1
  <2> QED  BY <2>2, <2>3 DEF Latest
<1> QED  BY <1>1, <1>2

\* Queues with the same rows leave the same.
LEMMA LastSame ==
  ASSUME NEW q, NEW s, NEW r, NEW n \in Nat, NEW i, \A k \in 1..n : q[k].rows = s[k].rows
  PROVE  LastRow(q, r, n, i) = LastRow(s, r, n, i)
PROOF
<1>1. CASE \A k \in 1..n : i \notin DOMAIN q[k].rows
  <2>1. LastRow(q, r, n, i) = r[i]
    BY <1>1, LastNone
  <2>2. \A k \in 1..n : i \notin DOMAIN s[k].rows
    BY <1>1
  <2>3. LastRow(s, r, n, i) = r[i]
    BY <2>2, LastNone
  <2> QED  BY <2>1, <2>3
<1>2. ASSUME NEW k \in 1..n, Latest(q, n, i, k)
      PROVE  LastRow(q, r, n, i) = LastRow(s, r, n, i)
  <2>1. LastRow(q, r, n, i) = q[k].rows[i]
    BY <1>2, LastIs
  <2>2. Latest(s, n, i, k)
    <3>1. \A l \in (k + 1)..n : l \in 1..n
      OBVIOUS
    <3> QED  BY <1>2, <3>1 DEF Latest
  <2>3. LastRow(s, r, n, i) = s[k].rows[i]
    BY <2>2, LastIs
  <2> QED  BY <2>1, <2>3
<1> QED  BY <1>1, <1>2, LastCases

\* One message more.
LEMMA LastStep ==
  ASSUME NEW q, NEW r, NEW n \in Nat, NEW i
  PROVE  LastRow(q, r, n + 1, i) =
           IF i \in DOMAIN q[n + 1].rows THEN q[n + 1].rows[i] ELSE LastRow(q, r, n, i)
PROOF
<1>1. CASE i \in DOMAIN q[n + 1].rows
  <2>1. n + 1 \in Nat /\ n + 1 \in 1..(n + 1) /\ ((n + 1) + 1)..(n + 1) = {}
    OBVIOUS
  <2>2. Latest(q, n + 1, i, n + 1)
    BY <1>1, <2>1 DEF Latest
  <2> QED  BY <1>1, <2>1, <2>2, LastIs
<1>2. CASE i \notin DOMAIN q[n + 1].rows
  <2>1. CASE \A k \in 1..n : i \notin DOMAIN q[k].rows
    <3>1. \A k \in 1..(n + 1) : i \notin DOMAIN q[k].rows
      BY <1>2, <2>1
    <3>2. LastRow(q, r, n + 1, i) = r[i]
      BY <3>1, LastNone
    <3>3. LastRow(q, r, n, i) = r[i]
      BY <2>1, LastNone
    <3> QED  BY <1>2, <3>2, <3>3
  <2>2. ASSUME NEW k \in 1..n, Latest(q, n, i, k)
        PROVE  LastRow(q, r, n + 1, i) = LastRow(q, r, n, i)
    <3>1. LastRow(q, r, n, i) = q[k].rows[i]
      BY <2>2, LastIs
    <3>2. n + 1 \in Nat /\ Latest(q, n + 1, i, k)
      <4>1. \A l \in (k + 1)..(n + 1) : l \in (k + 1)..n \/ l = n + 1
        OBVIOUS
      <4>2. n + 1 \in Nat /\ k \in 1..(n + 1)
        OBVIOUS
      <4> QED  BY <1>2, <2>2, <4>1, <4>2 DEF Latest
    <3>3. LastRow(q, r, n + 1, i) = q[k].rows[i]
      BY <3>2, LastIs
    <3> QED  BY <3>1, <3>3
  <2> QED  BY <1>2, <2>1, <2>2, LastCases
<1> QED  BY <1>1, <1>2

\* s is q without its first message, and that message made the table t of r.
TailOf(s, q, n) == \A k \in 1..n : s[k].rows = q[k + 1].rows
Ran(t, r, q, i) == t[i] = IF i \in DOMAIN q[1].rows THEN q[1].rows[i] ELSE r[i]

\* The first message has run: the rest leaves in the new table what all would
\* have left in the old one.
LEMMA LastOfTail ==
  ASSUME NEW q, NEW s, NEW r, NEW t, NEW n \in Nat, NEW i, TailOf(s, q, n), Ran(t, r, q, i)
  PROVE  LastRow(s, t, n, i) = LastRow(q, r, n + 1, i)
PROOF
<1>0. /\ n + 1 \in Nat
      /\ \A k \in 1..n : s[k].rows = q[k + 1].rows
      /\ t[i] = IF i \in DOMAIN q[1].rows THEN q[1].rows[i] ELSE r[i]
  BY DEF TailOf, Ran
<1>1. CASE \A k \in 1..n : i \notin DOMAIN s[k].rows
  <2>1. LastRow(s, t, n, i) = t[i]
    BY <1>1, LastNone
  <2>2. \A l \in (1 + 1)..(n + 1) : i \notin DOMAIN q[l].rows
    <3> SUFFICES ASSUME NEW l \in (1 + 1)..(n + 1) PROVE i \notin DOMAIN q[l].rows
      OBVIOUS
    <3>1. l - 1 \in 1..n /\ (l - 1) + 1 = l
      OBVIOUS
    <3> QED  BY <1>0, <1>1, <3>1
  <2>3. CASE i \in DOMAIN q[1].rows
    <3>1. 1 \in 1..(n + 1)
      OBVIOUS
    <3>2. Latest(q, n + 1, i, 1)
      BY <2>2, <2>3, <3>1 DEF Latest
    <3>3. LastRow(q, r, n + 1, i) = q[1].rows[i]
      BY <1>0, <3>2, LastIs
    <3> QED  BY <1>0, <2>1, <2>3, <3>3
  <2>4. CASE i \notin DOMAIN q[1].rows
    <3>1. \A l \in 1..(n + 1) : i \notin DOMAIN q[l].rows
      <4>1. \A l \in 1..(n + 1) : l = 1 \/ l \in (1 + 1)..(n + 1)
        OBVIOUS
      <4> QED  BY <2>2, <2>4, <4>1
    <3>2. LastRow(q, r, n + 1, i) = r[i]
      BY <1>0, <3>1, LastNone
    <3> QED  BY <1>0, <2>1, <2>4, <3>2
  <2> QED  BY <2>3, <2>4
<1>2. ASSUME NEW k \in 1..n, Latest(s, n, i, k)
      PROVE  LastRow(s, t, n, i) = LastRow(q, r, n + 1, i)
  <2>1. LastRow(s, t, n, i) = s[k].rows[i]
    BY <1>2, LastIs
  <2>2. k + 1 \in 1..(n + 1) /\ i \in DOMAIN q[k + 1].rows
    BY <1>0, <1>2 DEF Latest
  <2>3. \A l \in ((k + 1) + 1)..(n + 1) : i \notin DOMAIN q[l].rows
    <3> SUFFICES ASSUME NEW l \in ((k + 1) + 1)..(n + 1) PROVE i \notin DOMAIN q[l].rows
      OBVIOUS
    <3>1. l - 1 \in (k + 1)..n /\ l - 1 \in 1..n /\ (l - 1) + 1 = l
      OBVIOUS
    <3> QED  BY <1>0, <1>2, <3>1 DEF Latest
  <2>4. Latest(q, n + 1, i, k + 1)
    BY <2>2, <2>3 DEF Latest
  <2>5. LastRow(q, r, n + 1, i) = q[k + 1].rows[i]
    BY <1>0, <2>4, LastIs
  <2> QED  BY <1>0, <2>1, <2>5
<1> QED  BY <1>1, <1>2, LastCases

-----------------------------------------------------------------------------
(* The queue of the connection.                                            *)

\* The row of an item once the first n messages have run.
At(n, i) == LastRow(sql, rows, n, i)

LEMMA DrainedIs ==
  ASSUME NEW i
  PROVE  /\ Drained(i) = At(Len(sql), i)
         /\ Drained(i)' = LastRow(sql', rows', Len(sql'), i)
PROOF
<1>1. Drained(i) = At(Len(sql), i)
  BY Zenon DEF Drained, At, LastRow
<1>2. Drained(i)' = LastRow(sql', rows', Len(sql'), i)
  BY Zenon DEF Drained, LastRow
<1> QED  BY <1>1, <1>2

\* What the old messages leave does not depend on those behind them.
LEMMA SameBefore ==
  ASSUME NEW n \in Nat, NEW i, \A k \in 1..n : sql'[k].rows = sql[k].rows, rows' = rows
  PROVE  LastRow(sql', rows', n, i) = LastRow(sql, rows, n, i)
BY LastSame

\* A message at the end of the queue.
LEMMA AppendIs ==
  ASSUME MessagesOK, NEW m, sql' = Append(sql, m), rows' = rows
  PROVE  /\ Len(sql) \in Nat /\ Len(sql') = Len(sql) + 1
         /\ \A n \in 1..Len(sql) : sql'[n] = sql[n]
         /\ sql'[Len(sql')] = m
         /\ \A i : \A n \in 0..Len(sql) : At(n, i)' = At(n, i)
         /\ \A i : Drained(i)' = IF i \in DOMAIN m.rows THEN m.rows[i] ELSE Drained(i)
PROOF
<1>1. /\ Len(sql) \in Nat /\ Len(sql') = Len(sql) + 1
      /\ \A n \in 1..Len(sql) : sql'[n] = sql[n]
      /\ sql'[Len(sql')] = m
  BY DEF MessagesOK
<1>2. ASSUME NEW i, NEW n \in 0..Len(sql)
      PROVE  At(n, i)' = At(n, i)
  <2>1. n \in Nat /\ \A k \in 1..n : sql'[k].rows = sql[k].rows
    BY <1>1
  <2>2. LastRow(sql', rows', n, i) = LastRow(sql, rows, n, i)
    BY <2>1, SameBefore
  <2> QED  BY <2>2 DEF At
<1>3. ASSUME NEW i
      PROVE  Drained(i)' = IF i \in DOMAIN m.rows THEN m.rows[i] ELSE Drained(i)
  <2>1. Drained(i)' = LastRow(sql', rows', Len(sql) + 1, i)
    BY <1>1, DrainedIs
  <2>2. LastRow(sql', rows', Len(sql) + 1, i) =
          IF i \in DOMAIN sql'[Len(sql) + 1].rows THEN sql'[Len(sql) + 1].rows[i]
          ELSE LastRow(sql', rows', Len(sql), i)
    BY <1>1, LastStep
  <2>3. LastRow(sql', rows', Len(sql), i) = LastRow(sql, rows, Len(sql), i)
    BY <1>1, SameBefore
  <2>4. Drained(i) = LastRow(sql, rows, Len(sql), i)
    BY DrainedIs DEF At
  <2> QED  BY <1>1, <2>1, <2>2, <2>3, <2>4
<1> QED  BY <1>1, <1>2, <1>3

\* What is pushed is what the database will be told last.
LEMMA PushIs ==
  ASSUME MessagesOK, NEW S, NEW f, sql' = Pushed(S, f), rows' = rows
  PROVE  /\ Len(sql) \in Nat /\ Len(sql') \in Nat
         /\ \A n \in 1..Len(sql) : n \in 1..Len(sql') /\ sql'[n] = sql[n]
         /\ \A n \in 1..Len(sql') : n \in 1..Len(sql) \/ sql'[n].kind = "write"
         /\ \A i : \A n \in 0..Len(sql) : At(n, i)' = At(n, i)
         /\ \A i : Drained(i)' = IF i \in S THEN f[i] ELSE Drained(i)
PROOF
<1>1. CASE S = {}
  <2>1. sql' = sql
    BY <1>1 DEF Pushed
  <2>2. \A i : Drained(i)' = Drained(i)
    BY <2>1 DEF Drained
  <2>3. \A i : \A n \in 0..Len(sql) : At(n, i)' = At(n, i)
    BY <2>1 DEF At
  <2> QED  BY <1>1, <2>1, <2>2, <2>3 DEF MessagesOK
<1>2. CASE S # {}
  <2> DEFINE m == Write(S, f)
  <2>1. sql' = Append(sql, m)
    BY <1>2 DEF Pushed
  <2>2. m.kind = "write" /\ m.rows = [i \in S |-> f[i]]
    BY DEF Write
  <2> HIDE DEF m
  <2>3. /\ Len(sql) \in Nat /\ Len(sql') = Len(sql) + 1
        /\ \A n \in 1..Len(sql) : sql'[n] = sql[n]
        /\ sql'[Len(sql')] = m
        /\ \A i : \A n \in 0..Len(sql) : At(n, i)' = At(n, i)
        /\ \A i : Drained(i)' = IF i \in DOMAIN m.rows THEN m.rows[i] ELSE Drained(i)
    BY <2>1, AppendIs
  <2>4. \A i : Drained(i)' = IF i \in S THEN f[i] ELSE Drained(i)
    BY <2>2, <2>3
  <2>5. \A n \in 1..Len(sql') : n \in 1..Len(sql) \/ sql'[n].kind = "write"
    BY <2>2, <2>3
  <2> QED  BY <2>3, <2>4, <2>5
<1> QED  BY <1>1, <1>2

-----------------------------------------------------------------------------
(* What every step must leave so that nothing is forgotten.                *)

\* The game cores and the db core agree on every item, but for what is about
\* to be saved by somebody who plays, and what lies on the ground.
KnownOf(i) ==
  /\ told[i].owner # Ground
  /\ told[i].owner = Nobody => told[i] = Gone
  /\ told[i].owner # Nobody => Live(told[i])
  /\ held[i].owner = Nobody => held[i] = Gone
  /\ held[i].owner # Nobody => Live(held[i])
  /\ i \notin delayed => told[i] = held[i] \/ (held[i].owner = Ground /\ told[i] = Gone)
  /\ i \in delayed => /\ held[i].owner \in Players /\ session[held[i].owner] = "on"
                      /\ told[i].owner = held[i].owner \/ told[i] = Gone

Known == \A i \in Items : KnownOf(i)

\* Whose set there is, and that it is complete.
Roster ==
  \A p \in Players :
    /\ session[p] = "on" => p \in listed
    /\ session[p] = "off" /\ p \in listed => p \in pcache
    /\ session[p] = "loading" => p \notin listed
    /\ p \in logout => session[p] = "off"
    /\ p \in listed => \A i \in Items : told[i].owner = p => i \in sets[p]

\* What waits in a cache is not in the table as somebody's who may load it.
Stale ==
  \A i \in dirty :
    /\ Drained(i).owner # Box
    /\ \A p \in Players \ listed : Drained(i).owner # p
    /\ \A p \in logout : Drained(i).owner = p /\ told[i].owner # p => i \in owed[p]

\* Who waits for a load.
Waiting(w) == IF w = Box THEN box = "loading" ELSE w \in Players /\ session[w] = "loading"

\* The rows a load of w should find.
RowsOf(w) == LiveOf({i \in Items : told[i].owner = w}, told)

\* A select of w at place n: w waits for it, and it will find what the db
\* core was told.
Selecting(n) ==
  LET w == sql[n].who
  IN  /\ Waiting(w)
      /\ \A i \in Items : At(n - 1, i).owner = w \/ told[i].owner = w => At(n - 1, i) = told[i]
      /\ \A m \in 1..Len(sql) : sql[m].kind = "select" /\ sql[m].who = w => m = n
      /\ \A k \in 1..Len(results) : results[k].who # w

\* A result at place k is the answer its player waits for.
Answering(k) ==
  LET w == results[k].who
  IN  /\ Waiting(w)
      /\ results[k].rows = RowsOf(w)
      /\ \A l \in 1..Len(results) : results[l].who = w => k = l

\* The loads on their way will find what the db core was last told.
Asking ==
  /\ \A n \in 1..Len(sql) : sql[n].kind = "select" /\ sql[n].who # Nobody => Selecting(n)
  /\ \A k \in 1..Len(results) : Answering(k)

Safe == up => Known /\ Roster /\ Stale /\ Asking

\* The db core's word and the game cores', for one item.
Agreed(i) ==
  /\ i \in dirty => cache[i] = told[i]
  /\ i \notin dirty => Drained(i) = told[i]
  /\ i \in cached => OnFlush(cache[i]) = told[i]

LEMMA ForgottenIs ==
  /\ NothingForgotten <=> /\ \A i \in Items : Agreed(i)
                          /\ ~up => \A i \in Items : i \notin cached
  /\ NothingForgotten' <=> /\ \A i \in Items : Agreed(i)'
                           /\ ~up' => \A i \in Items : i \notin cached'
BY DEF NothingForgotten, Agreed

\* The places that are no character's.
LEMMA Places ==
  /\ Box \notin Players /\ Ground \notin Players /\ Nobody \notin Players
  /\ Box # Ground /\ Ground # Nobody /\ Nobody # Box
BY PlacesAreApart

LEMMA LiveOfSame ==
  ASSUME NEW S, NEW T, NEW f, NEW g,
         \A j \in S : Live(f[j]) => j \in T /\ Live(g[j]),
         \A j \in T : Live(g[j]) => j \in S /\ Live(f[j]),
         \A j \in S : Live(f[j]) => f[j] = g[j]
  PROVE  LiveOf(S, f) = LiveOf(T, g)
PROOF
<1> DEFINE V == {j \in S : Live(f[j])}
           W == {j \in T : Live(g[j])}
<1>1. V = W
  OBVIOUS
<1>2. \A j \in V : f[j] = g[j]
  OBVIOUS
<1>3. LiveOf(S, f) = [j \in V |-> f[j]] /\ LiveOf(T, g) = [j \in W |-> g[j]]
  BY Zenon DEF LiveOf
<1> HIDE DEF V, W
<1> QED  BY <1>1, <1>2, <1>3

\* A load's rows are what they were if nobody was told of them.
LEMMA RowsOfSame ==
  ASSUME NEW w,
         \A i \in Items : told'[i] = told[i] \/ (told[i].owner # w /\ told'[i].owner # w)
  PROVE  RowsOf(w)' = RowsOf(w)
PROOF
<1> DEFINE S == {i \in Items : told[i].owner = w}
           T == {i \in Items : told'[i].owner = w}
<1>1. S = T /\ \A i \in S : told'[i] = told[i]
  OBVIOUS
<1> HIDE DEF S, T
<1>2. LiveOf(T, told') = LiveOf(S, told)
  BY <1>1, LiveOfSame
<1> QED  BY <1>2 DEF S, T, RowsOf

\* Pushing rows does not disturb the loads on their way, unless the db core is
\* told of an item of whoever waits.
LEMMA AskingKept ==
  ASSUME MessagesOK, Asking, NEW S, NEW f,
         sql' = Pushed(S, f), rows' = rows, results' = results,
         \A w : Waiting(w) => Waiting(w)',
         \A i \in Items : \/ told'[i] = told[i]
                          \/ ~Waiting(told[i].owner) /\ ~Waiting(told'[i].owner)
  PROVE  Asking'
PROOF
<1>0. /\ Len(sql) \in Nat /\ Len(sql') \in Nat
      /\ \A n \in 1..Len(sql) : n \in 1..Len(sql') /\ sql'[n] = sql[n]
      /\ \A n \in 1..Len(sql') : n \in 1..Len(sql) \/ sql'[n].kind = "write"
      /\ \A i : \A n \in 0..Len(sql) : At(n, i)' = At(n, i)
  BY PushIs
<1>1. ASSUME NEW n \in 1..Len(sql'), sql'[n].kind = "select"
      PROVE  n \in 1..Len(sql) /\ sql'[n] = sql[n] /\ sql[n].kind = "select"
  BY <1>0, <1>1
<1>2. ASSUME NEW n \in 1..Len(sql), sql[n].kind = "select", sql[n].who # Nobody
      PROVE  Selecting(n)'
  <2> DEFINE w == sql[n].who
  <2>1. Selecting(n)
    BY <1>2 DEF Asking
  <2>2. sql'[n] = sql[n] /\ n - 1 \in 0..Len(sql)
    BY <1>0
  <2>3. Waiting(w)'
    BY <2>1, <2>2 DEF Selecting, Waiting
  <2>4. ASSUME NEW i \in Items, At(n - 1, i).owner = w \/ told'[i].owner = w
        PROVE  At(n - 1, i) = told'[i]
    <3>1. At(n - 1, i).owner = w \/ told[i].owner = w => At(n - 1, i) = told[i]
      BY <2>1 DEF Selecting
    <3>2. Waiting(w)
      BY <2>1 DEF Selecting
    <3> HIDE DEF w
    <3> QED  BY <2>4, <3>1, <3>2
  <2>5. \A i \in Items : At(n - 1, i)' = At(n - 1, i)
    BY <1>0, <2>2
  <2>6. \A m \in 1..Len(sql') : sql'[m].kind = "select" /\ sql'[m].who = w => m = n
    BY <1>1, <2>1 DEF Selecting
  <2>7. \A k \in 1..Len(results') : results'[k].who # w
    BY <2>1 DEF Selecting
  <2> QED  BY <2>2, <2>3, <2>4, <2>5, <2>6, <2>7 DEF Selecting
<1>3. ASSUME NEW k \in 1..Len(results)
      PROVE  Answering(k)'
  <2>1. Answering(k)
    BY DEF Asking
  <2>2. \A i \in Items : told'[i] = told[i] \/ (told[i].owner # results[k].who /\ told'[i].owner # results[k].who)
    BY <2>1 DEF Answering
  <2>3. RowsOf(results[k].who)' = RowsOf(results[k].who)
    <3>1. ASSUME NEW w, w = results[k].who PROVE LiveOf({i \in Items : told'[i].owner = w}, told') = RowsOf(w)
      BY <2>2, <3>1, RowsOfSame DEF RowsOf
    <3> QED  BY <3>1 DEF RowsOf
  <2> QED  BY <2>1, <2>3 DEF Answering
<1> QED  BY <1>1, <1>2, <1>3 DEF Asking

\* Pushing what is no longer dirty leaves what still is as stale as it was.
LEMMA StaleKept ==
  ASSUME MessagesOK, NothingForgotten, Stale, NEW S, NEW f,
         sql' = Pushed(S, f), rows' = rows, S \cap dirty' = {}, dirty' \subseteq Items,
         logout' \subseteq logout,
         \A p \in logout' : dirty' \cap owed[p] \subseteq owed'[p],
         \A p \in listed \ listed' : \A i \in dirty' : Drained(i).owner # p,
         \A i \in dirty' : told'[i] = told[i] \/ told[i].owner \notin logout,
         \A i \in dirty' \ dirty :
           /\ told[i].owner # Box
           /\ told[i].owner \in Players => told[i].owner \in listed
           /\ told[i].owner \notin logout
  PROVE  Stale'
PROOF
<1> SUFFICES ASSUME NEW i \in dirty'
             PROVE  /\ Drained(i)'.owner # Box
                    /\ \A p \in Players \ listed' : Drained(i)'.owner # p
                    /\ \A p \in logout' : Drained(i)'.owner = p /\ told'[i].owner # p => i \in owed'[p]
  BY DEF Stale
<1>1. Drained(i)' = Drained(i)
  BY PushIs
<1>2. i \in Items
  OBVIOUS
<1>3. CASE i \in dirty
  BY <1>1, <1>3 DEF Stale
<1>4. CASE i \notin dirty
  <2>1. Drained(i) = told[i]
    BY <1>2, <1>4 DEF NothingForgotten
  <2> QED  BY <1>1, <1>4, <2>1
<1> QED  BY <1>3, <1>4

-----------------------------------------------------------------------------
(* What the db core is told of one item.                                   *)

\* Nobody who may be loading has it.
Settled(w) ==
  w = Nobody \/ (w = Box /\ box = "open") \/ (w \in Players /\ session[w] = "on")

LEMMA SettledWaits ==
  ASSUME NEW w, Settled(w)
  PROVE  ~Waiting(w)
BY Places DEF Settled, Waiting

\* The rest of a message from a game core.
Frame == UNCHANGED <<listed, pcache, logout, up, results, rows, session, box>> /\ Quiet

\* The loads on their way and the stale rows when an item changes hands
\* between those who play.
LEMMA TellKept ==
  ASSUME IInv, up, NothingForgotten, Roster, Stale, Asking, Frame,
         NEW i \in Items, NEW r, Settled(told[i].owner), Settled(r.owner),
         told' = [told EXCEPT ![i] = r],
         NEW S, NEW f, sql' = Pushed(S, f), S \cap dirty' = {}, dirty' \subseteq dirty \cup {i},
         i \in dirty' \ dirty => told[i].owner # Box
  PROVE  Stale' /\ Asking'
PROOF
<1>0. CacheOK /\ RestOK /\ MessagesOK
  BY Parts
<1>1. \A j \in Items : told'[j] = IF j = i THEN r ELSE told[j]
  BY <1>0 DEF RestOK
<1>2. Asking'
  <2>1. \A w : Waiting(w) => Waiting(w)'
    BY DEF Waiting, Frame
  <2>2. \A j \in Items : told'[j] = told[j] \/ (~Waiting(told[j].owner) /\ ~Waiting(told'[j].owner))
    BY <1>1, SettledWaits
  <2>3. rows' = rows /\ results' = results
    BY DEF Frame
  <2> QED  BY <1>0, <2>1, <2>2, <2>3, AskingKept
<1>3. told[i].owner \notin logout
  BY <1>0, Places DEF Settled, Roster, RestOK
<1>4. told[i].owner \in Players => told[i].owner \in listed
  BY Places DEF Settled, Roster
<1>5. dirty \subseteq Items /\ dirty' \subseteq Items
  BY <1>0 DEF CacheOK
<1>6. /\ rows' = rows /\ logout' = logout /\ listed' = listed
      /\ owed' = [p \in Players |-> owed[p] \cap dirty']
  BY DEF Frame, Quiet
<1>7. \A p \in logout' : dirty' \cap owed[p] \subseteq owed'[p]
  BY <1>0, <1>6 DEF RestOK
<1>8. \A p \in listed \ listed' : \A j \in dirty' : Drained(j).owner # p
  BY <1>6
<1>9. \A j \in dirty' : told'[j] = told[j] \/ told[j].owner \notin logout
  BY <1>1, <1>3, <1>5
<1>10. \A j \in dirty' \ dirty :
         /\ told[j].owner # Box
         /\ told[j].owner \in Players => told[j].owner \in listed
         /\ told[j].owner \notin logout
  BY <1>3, <1>4
<1>11. logout' \subseteq logout
  BY <1>6
<1>12. Stale'
  BY <1>0, <1>5, <1>6, <1>7, <1>8, <1>9, <1>10, <1>11, StaleKept
<1> QED  BY <1>2, <1>12

\* An item that nothing happens to is not forgotten.
LEMMA OthersAgree ==
  ASSUME MessagesOK, NothingForgotten, NEW S, NEW f, sql' = Pushed(S, f), rows' = rows,
         NEW j \in Items, j \notin S, told'[j] = told[j], cache'[j] = cache[j],
         j \in cached' <=> j \in cached, j \in dirty' <=> j \in dirty
  PROVE  Agreed(j)'
PROOF
<1>1. Drained(j)' = Drained(j)
  BY PushIs
<1>2. Agreed(j)
  BY ForgottenIs
<1> QED  BY <1>1, <1>2 DEF Agreed

LEMMA RosterTold ==
  ASSUME Roster, Frame,
         \A p \in listed : \A j \in Items : told'[j].owner = p => j \in sets'[p]
  PROVE  Roster'
BY DEF Roster, Frame

LEMMA LiveIsFlushed ==
  ASSUME NEW r \in Row
  PROVE  /\ Live(r) => OnFlush(r) = r
         /\ ~Live(r) => OnFlush(r) = Gone
BY DEF OnFlush

\* QUERY_ITEM_SAVE: the item waits in its owner's set.
LEMMA ItemSaveTells ==
  ASSUME IInv, up, NothingForgotten, Roster, Stale, Asking, Frame,
         NEW i \in Items, NEW r \in Row, Live(r),
         r.owner \in Players, session[r.owner] = "on",
         Settled(told[i].owner), told[i].owner # Box,
         ItemSave(i, r)
  PROVE  NothingForgotten' /\ Roster' /\ Stale' /\ Asking'
PROOF
<1> DEFINE f == [j \in {i} |-> r]
<1>0. CacheOK /\ RestOK /\ MessagesOK
  BY Parts
<1>1. r.owner \in listed /\ listed' = listed /\ up' = up /\ rows' = rows
  BY DEF Roster, Frame
<1>2. /\ told' = [told EXCEPT ![i] = r]
      /\ PutRows({i}, f)
      /\ dirty' = dirty \cup {i}
      /\ sql' = Pushed({}, f)
  <2>1. {j \in {i} : f[j].owner \notin listed'} = {}
    BY <1>1
  <2>2. PutItemCache({i}, f, FALSE) /\ told' = [told EXCEPT ![i] = r]
    BY DEF ItemSave
  <2> HIDE DEF f
  <2> QED  BY <2>1, <2>2 DEF PutItemCache
<1>3. /\ cached' = cached \cup {i}
      /\ \A j \in Items : cache'[j] = IF j = i THEN r ELSE cache[j]
      /\ \A j \in Items : told'[j] = IF j = i THEN r ELSE told[j]
  BY <1>0, <1>2 DEF PutRows, RestOK
<1>4. NothingForgotten'
  <2>1. Agreed(i)'
    <3>1. cache'[i] = r /\ told'[i] = r /\ i \in dirty'
      BY <1>2, <1>3
    <3>2. OnFlush(cache'[i]) = r
      BY <3>1, LiveIsFlushed
    <3> QED  BY <3>1, <3>2 DEF Agreed
  <2>2. ASSUME NEW j \in Items, j # i PROVE Agreed(j)'
    <3> HIDE DEF f
    <3>1. told'[j] = told[j] /\ cache'[j] = cache[j] /\ (j \in cached' <=> j \in cached) /\ (j \in dirty' <=> j \in dirty)
      BY <1>2, <1>3, <2>2
    <3> QED  BY <1>0, <1>1, <1>2, <3>1, OthersAgree
  <2> QED  BY <1>1, <2>1, <2>2, ForgottenIs
<1>5. Roster'
  <2>1. ASSUME NEW p \in listed, NEW j \in Items, told'[j].owner = p
        PROVE  j \in sets'[p]
    <3>1. p \in Players
      BY <1>0 DEF CacheOK
    <3>2. sets'[p] = (sets[p] \ {k \in {i} \cap cached : cache[k].owner = p /\ f[k].owner # p})
                       \cup {k \in {i} : f[k].owner = p /\ p \in listed'}
      BY <1>2, <3>1 DEF PutRows
    <3>3. CASE j = i
      BY <1>1, <1>3, <2>1, <3>2, <3>3
    <3>4. CASE j # i
      <4>1. j \in sets[p]
        BY <1>3, <2>1, <3>1, <3>4 DEF Roster
      <4> QED  BY <3>2, <3>4, <4>1
    <3> QED  BY <3>3, <3>4
  <2> QED  BY <2>1, RosterTold
<1>6. Stale' /\ Asking'
  <2>1. Settled(r.owner)
    BY DEF Settled
  <2>2. told' = [told EXCEPT ![i] = r] /\ sql' = Pushed({}, f)
    BY <1>2
  <2>3. {} \cap dirty' = {} /\ dirty' \subseteq dirty \cup {i}
    BY <1>2
  <2> HIDE DEF f
  <2> QED  BY <2>1, <2>2, <2>3, TellKept
<1> QED  BY <1>4, <1>5, <1>6

\* QUERY_ITEM_DESTROY: whatever waited is deleted instead.
LEMMA ItemDestroyTells ==
  ASSUME IInv, up, NothingForgotten, Roster, Stale, Asking, Frame,
         NEW i \in Items, Settled(told[i].owner), told[i].owner # Box \/ i \notin dirty,
         ItemDestroy(i)
  PROVE  NothingForgotten' /\ Roster' /\ Stale' /\ Asking'
PROOF
<1> DEFINE f == [j \in {i} |-> Gone]
           S == IF i \in cached /\ ~Live(cache[i]) THEN {} ELSE {i}
<1>0. CacheOK /\ RestOK /\ MessagesOK /\ DirtyIsListed
  BY Parts
<1>1. listed' = listed /\ up' = up /\ rows' = rows
  BY DEF Frame
<1>2. /\ told' = [told EXCEPT ![i] = Gone]
      /\ \A j \in Items : told'[j] = IF j = i THEN Gone ELSE told[j]
      /\ \A j \in Items : j # i => cache'[j] = cache[j]
      /\ cache'[i] = [owner |-> cache[i].owner, ver |-> 0]
      /\ sql' = Pushed(S, f)
      /\ cached' = cached /\ sets' = sets
  <2>1. sql' = Pushed(S, f)
    BY DEF ItemDestroy, Pushed
  <2> HIDE DEF S, f
  <2> QED  BY <1>0, <2>1 DEF ItemDestroy, CacheOK, RestOK
<1>3. Agreed(i)
  BY ForgottenIs
<1>4. i \in dirty => Live(cache[i])
  <2> SUFFICES ASSUME i \in dirty, ~Live(cache[i]) PROVE FALSE
    OBVIOUS
  <2>1. OnFlush(cache[i]) = Gone /\ cache[i] = told[i] /\ i \in cached
    BY <1>0, <1>3, LiveIsFlushed DEF Agreed, CacheOK
  <2>2. cache[i].owner = Nobody
    BY <1>3, <2>1 DEF Agreed, Gone
  <2> QED  BY <1>0, <2>2, Places DEF DirtyIsListed
<1>5. dirty' = dirty \ {i}
  BY <1>4 DEF ItemDestroy
<1>6. NothingForgotten'
  <2>1. Agreed(i)'
    <3>1. Drained(i)' = Gone
      <4>1. CASE i \in cached /\ ~Live(cache[i])
        <5>1. Drained(i) = told[i] /\ told[i] = Gone
          BY <1>0, <1>3, <1>4, <4>1, LiveIsFlushed DEF Agreed, CacheOK
        <5>2. i \notin S
          BY <4>1
        <5> HIDE DEF S, f
        <5> QED  BY <1>0, <1>1, <1>2, <5>1, <5>2, PushIs
      <4>2. CASE ~(i \in cached /\ ~Live(cache[i]))
        <5>1. i \in S /\ f[i] = Gone
          BY <4>2
        <5> HIDE DEF S, f
        <5> QED  BY <1>0, <1>1, <1>2, <5>1, PushIs
      <4> QED  BY <4>1, <4>2
    <3>2. ~Live(cache'[i])
      BY <1>2 DEF Live
    <3>3. OnFlush(cache'[i]) = Gone /\ told'[i] = Gone
      BY <1>2, <3>2 DEF OnFlush
    <3> QED  BY <1>5, <3>1, <3>3 DEF Agreed
  <2>2. ASSUME NEW j \in Items, j # i PROVE Agreed(j)'
    <3>1. j \notin S
      BY <2>2
    <3> HIDE DEF S, f
    <3>2. told'[j] = told[j] /\ cache'[j] = cache[j] /\ (j \in cached' <=> j \in cached) /\ (j \in dirty' <=> j \in dirty)
      BY <1>2, <1>5, <2>2
    <3> QED  BY <1>0, <1>1, <1>2, <3>1, <3>2, OthersAgree
  <2>3. ~up' => \A j \in Items : j \notin cached'
    BY <1>1
  <2> QED  BY <2>1, <2>2, <2>3, ForgottenIs
<1>7. Roster'
  <2>1. Gone.owner = Nobody /\ Gone.owner \notin Players
    BY Places DEF Gone
  <2>2. \A p \in listed : \A j \in Items : told'[j].owner = p => j \in sets'[p]
    BY <1>0, <1>2, <2>1 DEF Roster, CacheOK
  <2> QED  BY <2>2, RosterTold
<1>8. Stale' /\ Asking'
  <2>1. Settled(Gone.owner)
    BY DEF Settled, Gone
  <2>2. S \cap dirty' = {} /\ dirty' \subseteq dirty \cup {i}
    BY <1>5
  <2>4. i \in dirty' \ dirty => told[i].owner # Box
    BY <1>5
  <2>3. told' = [told EXCEPT ![i] = Gone] /\ sql' = Pushed(S, f)
    BY <1>2
  <2> HIDE DEF S, f
  <2> QED  BY <2>1, <2>2, <2>3, <2>4, TellKept
<1> QED  BY <1>6, <1>7, <1>8

\* QUERY_ITEM_SAVE of a safebox item: it is written at once.
LEMMA ItemSaveBoxTells ==
  ASSUME IInv, up, NothingForgotten, Roster, Stale, Asking, Frame,
         NEW i \in Items, NEW r \in Row, r.owner = Box, box = "open",
         Settled(told[i].owner), ItemSaveBox(i, r)
  PROVE  NothingForgotten' /\ Roster' /\ Stale' /\ Asking'
PROOF
<1> DEFINE f == [j \in {i} |-> r]
<1>0. CacheOK /\ RestOK /\ MessagesOK
  BY Parts
<1>1. listed' = listed /\ up' = up /\ rows' = rows
  BY DEF Frame
<1>2. /\ told' = [told EXCEPT ![i] = r]
      /\ \A j \in Items : told'[j] = IF j = i THEN r ELSE told[j]
      /\ \A j \in Items : j # i => cache'[j] = cache[j]
      /\ sql' = Pushed({i}, f) /\ f[i] = r
      /\ cached' = cached \ {i} /\ dirty' = dirty \ {i}
      /\ \A p \in Players : \A j \in Items : j # i /\ j \in sets[p] => j \in sets'[p]
  BY <1>0 DEF ItemSaveBox, CacheOK, RestOK
<1> HIDE DEF f
<1>3. NothingForgotten'
  <2>1. Agreed(i)'
    <3>1. Drained(i)' = r
      BY <1>0, <1>1, <1>2, PushIs
    <3> QED  BY <1>2, <3>1 DEF Agreed
  <2>2. ASSUME NEW j \in Items, j # i PROVE Agreed(j)'
    <3>1. told'[j] = told[j] /\ cache'[j] = cache[j] /\ (j \in cached' <=> j \in cached) /\ (j \in dirty' <=> j \in dirty)
      BY <1>2, <2>2
    <3>2. j \notin {i} /\ sql' = Pushed({i}, f)
      BY <1>2, <2>2
    <3> QED  BY <1>0, <1>1, <3>1, <3>2, OthersAgree
  <2> QED  BY <1>1, <2>1, <2>2, ForgottenIs
<1>4. Roster'
  <2>1. \A p \in listed : \A j \in Items : told'[j].owner = p => j \in sets'[p]
    BY <1>0, <1>2, Places DEF Roster, CacheOK
  <2> QED  BY <2>1, RosterTold
<1>5. Stale' /\ Asking'
  <2>1. Settled(r.owner)
    BY DEF Settled
  <2>2. told' = [told EXCEPT ![i] = r] /\ sql' = Pushed({i}, f)
    BY <1>2
  <2>3. {i} \cap dirty' = {} /\ dirty' \subseteq dirty \cup {i}
    BY <1>2
  <2>4. i \in dirty' \ dirty => told[i].owner # Box
    BY <1>2
  <2> QED  BY <2>1, <2>2, <2>3, <2>4, TellKept
<1> QED  BY <1>3, <1>4, <1>5

\* An item that is saved and flushed: it is a clean cache, and on its way.
LEMMA FlushedTells ==
  ASSUME IInv, up, NothingForgotten, Roster, Stale, Asking, Frame,
         NEW i \in Items, NEW f, f[i] \in Row, Live(f[i]),
         f[i].owner \in Players, session[f[i].owner] = "on",
         Settled(told[i].owner), told' = [told EXCEPT ![i] = f[i]],
         PutRows({i}, f), dirty' = dirty \ {i}, sql' = Pushed({i}, f)
  PROVE  NothingForgotten' /\ Roster' /\ Stale' /\ Asking'
PROOF
<1>0. CacheOK /\ RestOK /\ MessagesOK
  BY Parts
<1>1. f[i].owner \in listed /\ listed' = listed /\ up' = up /\ rows' = rows
  BY DEF Roster, Frame
<1>2. /\ cached' = cached \cup {i}
      /\ \A j \in Items : cache'[j] = IF j = i THEN f[i] ELSE cache[j]
      /\ \A j \in Items : told'[j] = IF j = i THEN f[i] ELSE told[j]
  BY <1>0 DEF PutRows, RestOK
<1>3. NothingForgotten'
  <2>1. Agreed(i)'
    <3>1. Drained(i)' = f[i]
      BY <1>0, <1>1, PushIs
    <3>2. OnFlush(cache'[i]) = f[i]
      BY <1>2, LiveIsFlushed
    <3> QED  BY <1>2, <3>1, <3>2 DEF Agreed
  <2>2. ASSUME NEW j \in Items, j # i PROVE Agreed(j)'
    <3>1. told'[j] = told[j] /\ cache'[j] = cache[j] /\ (j \in cached' <=> j \in cached) /\ (j \in dirty' <=> j \in dirty)
      BY <1>2, <2>2
    <3>2. j \notin {i}
      BY <2>2
    <3> QED  BY <1>0, <1>1, <3>1, <3>2, OthersAgree
  <2> QED  BY <1>1, <2>1, <2>2, ForgottenIs
<1>4. Roster'
  <2>1. ASSUME NEW p \in listed, NEW j \in Items, told'[j].owner = p
        PROVE  j \in sets'[p]
    <3>1. p \in Players
      BY <1>0 DEF CacheOK
    <3>2. sets'[p] = (sets[p] \ {k \in {i} \cap cached : cache[k].owner = p /\ f[k].owner # p})
                       \cup {k \in {i} : f[k].owner = p /\ p \in listed'}
      BY <3>1 DEF PutRows
    <3>3. CASE j = i
      BY <1>1, <1>2, <2>1, <3>2, <3>3
    <3>4. CASE j # i
      <4>1. j \in sets[p]
        BY <1>2, <2>1, <3>1, <3>4 DEF Roster
      <4> QED  BY <3>2, <3>4, <4>1
    <3> QED  BY <3>3, <3>4
  <2> QED  BY <2>1, RosterTold
<1>5. Stale' /\ Asking'
  <2>1. Settled(f[i].owner)
    BY DEF Settled
  <2>2. {i} \cap dirty' = {} /\ dirty' \subseteq dirty \cup {i}
    OBVIOUS
  <2>3. i \in dirty' \ dirty => told[i].owner # Box
    OBVIOUS
  <2> QED  BY <2>1, <2>2, <2>3, TellKept
<1> QED  BY <1>3, <1>4, <1>5

-----------------------------------------------------------------------------
(* The steps keep what they must.                                          *)

\* All of it.
Whole == IInv /\ NothingForgotten /\ Safe

\* A step the db core hears nothing of that concerns an item.
LEMMA UnheardSafe ==
  ASSUME IInv, NothingForgotten, Roster, Stale, Asking,
         UNCHANGED <<cached, cache, dirty, listed, sets, logout, up, database, session, box, told>>,
         pcache \subseteq pcache', Quiet
  PROVE  NothingForgotten' /\ Roster' /\ Stale' /\ Asking'
PROOF
<1>0. CacheOK /\ RestOK /\ MessagesOK
  BY Parts
<1>1. sql' = Pushed({}, rows) /\ results' = results /\ rows' = rows
  BY DEF Pushed, database
<1>2. NothingForgotten'
  <2>1. \A i \in Items : Agreed(i)'
    <3> SUFFICES ASSUME NEW i \in Items PROVE Agreed(i)'
      OBVIOUS
    <3>1. told'[i] = told[i] /\ cache'[i] = cache[i] /\ (i \in cached' <=> i \in cached) /\ (i \in dirty' <=> i \in dirty) /\ i \notin {}
      OBVIOUS
    <3> QED  BY <1>0, <1>1, <3>1, OthersAgree
  <2> QED  BY <2>1, ForgottenIs
<1>3. Roster'
  BY DEF Roster
<1>4. Stale'
  <2>1. \A i : Drained(i)' = Drained(i)
    BY <1>0, <1>1, PushIs
  <2>2. owed' = [p \in Players |-> owed[p] \cap dirty'] /\ dirty' = dirty /\ logout \subseteq Players
    BY <1>0 DEF Quiet, RestOK
  <2> QED  BY <2>1, <2>2 DEF Stale
<1>5. Asking'
  <2>1. \A w : Waiting(w) => Waiting(w)'
    BY DEF Waiting
  <2>2. \A i \in Items : told'[i] = told[i]
    OBVIOUS
  <2> QED  BY <1>0, <1>1, <2>1, <2>2, AskingKept
<1> QED  BY <1>2, <1>3, <1>4, <1>5

LEMMA KnownKept ==
  ASSUME NEW j, KnownOf(j), told'[j] = told[j], held'[j] = held[j],
         j \in delayed' <=> j \in delayed,
         j \in delayed => session'[held[j].owner] = session[held[j].owner]
  PROVE  KnownOf(j)'
BY DEF KnownOf

\* The db core was told that the item is its player's, or gone.
LEMMA PlayedIsSettled ==
  ASSUME NEW i, KnownOf(i), held[i].owner \in Players, session[held[i].owner] = "on"
  PROVE  /\ told[i].owner = held[i].owner \/ told[i] = Gone
         /\ Settled(told[i].owner) /\ told[i].owner # Box
         /\ Live(held[i])
PROOF
<1>1. told[i].owner = held[i].owner \/ told[i] = Gone
  BY Places DEF KnownOf
<1>2. Gone.owner = Nobody
  BY DEF Gone
<1> QED  BY <1>1, <1>2, Places DEF KnownOf, Settled

LEMMA MovedIs ==
  ASSUME held \in [Items -> Row], NEW i \in Items, NEW w
  PROVE  /\ Moved(i, w)[i].owner = w /\ (Live(held[i]) => Live(Moved(i, w)[i]))
         /\ \A j \in Items \ {i} : Moved(i, w)[j] = held[j]
BY DEF Moved, Live

LEMMA PlayTells ==
  ASSUME IInv, NothingForgotten, Known, Roster, Stale, Asking, Play
  PROVE  NothingForgotten' /\ Known' /\ Roster' /\ Stale' /\ Asking'
PROOF
<1>0. CacheOK /\ RestOK /\ MessagesOK
  BY Parts
<1>k. \A i \in Items : KnownOf(i) /\ held[i] \in Row
  BY <1>0 DEF Known, RestOK
<1>1. ASSUME NEW i \in Items, Change(i)
      PROVE  NothingForgotten' /\ Known' /\ Roster' /\ Stale' /\ Asking'
  <2>1. NothingForgotten' /\ Roster' /\ Stale' /\ Asking'
    BY <1>1, UnheardSafe DEF Change, core
  <2>2. /\ \A j \in Items : held'[j] = IF j = i THEN [owner |-> held[i].owner, ver |-> held[i].ver + 1] ELSE held[j]
        /\ told' = told /\ session' = session /\ delayed' = delayed \cup {i}
        /\ held[i].owner \in Players /\ session[held[i].owner] = "on" /\ held[i].ver \in Nat
    BY <1>0, <1>1 DEF Change, RestOK, Row
  <2>3. KnownOf(i)'
    <3>1. Live(held'[i])
      BY <2>2 DEF Live
    <3> QED  BY <1>k, <2>2, <3>1, PlayedIsSettled, Places DEF KnownOf
  <2>4. \A j \in Items \ {i} : KnownOf(j)'
    BY <1>k, <2>2, KnownKept
  <2> QED  BY <2>1, <2>3, <2>4 DEF Known
<1>2. ASSUME NEW i \in Items, SaveSingleItem(i)
      PROVE  NothingForgotten' /\ Known' /\ Roster' /\ Stale' /\ Asking'
  <2>1. /\ Frame /\ up /\ ItemSave(i, held[i]) /\ told' = [told EXCEPT ![i] = held[i]]
        /\ held' = held /\ session' = session /\ i \in delayed /\ delayed' = delayed \ {i}
    BY <1>2 DEF SaveSingleItem, Frame, Room, ItemSave
  <2>2. held[i].owner \in Players /\ session[held[i].owner] = "on"
    BY <1>k, <2>1 DEF KnownOf
  <2>3. Settled(told[i].owner) /\ told[i].owner # Box /\ Live(held[i])
    BY <1>k, <2>2, PlayedIsSettled
  <2>4. NothingForgotten' /\ Roster' /\ Stale' /\ Asking'
    BY <1>k, <2>1, <2>2, <2>3, ItemSaveTells
  <2>5. \A j \in Items : told'[j] = IF j = i THEN held[i] ELSE told[j]
    BY <1>0, <2>1 DEF RestOK
  <2>6. KnownOf(i)'
    BY <1>k, <2>1, <2>2, <2>3, <2>5, Places DEF KnownOf
  <2>7. \A j \in Items \ {i} : KnownOf(j)'
    BY <1>k, <2>1, <2>5, KnownKept
  <2> QED  BY <2>4, <2>6, <2>7 DEF Known
<1>3. ASSUME NEW p \in Players, NEW q \in Players, NEW i \in Items, Trade(p, q, i)
      PROVE  NothingForgotten' /\ Known' /\ Roster' /\ Stale' /\ Asking'
  <2>1. /\ Frame /\ up /\ ItemSave(i, held'[i]) /\ told' = [told EXCEPT ![i] = held'[i]]
        /\ held' = Moved(i, q) /\ session' = session /\ delayed' = delayed \ {i}
        /\ held[i].owner = p /\ session[p] = "on" /\ session[q] = "on"
    BY <1>3 DEF Trade, Frame, Room, ItemSave, Held
  <2>2. Settled(told[i].owner) /\ told[i].owner # Box /\ Live(held[i])
    BY <1>k, <2>1, PlayedIsSettled
  <2>3. /\ held'[i].owner = q /\ Live(held'[i]) /\ held'[i] \in Row
        /\ \A j \in Items \ {i} : held'[j] = held[j]
    BY <1>0, <2>1, <2>2, MovedIs, MovedOK DEF RestOK
  <2>4. NothingForgotten' /\ Roster' /\ Stale' /\ Asking'
    BY <2>1, <2>2, <2>3, ItemSaveTells
  <2>5. \A j \in Items : told'[j] = IF j = i THEN held'[i] ELSE told[j]
    BY <1>0, <2>1 DEF RestOK
  <2>6. KnownOf(i)'
    BY <2>1, <2>3, <2>5, Places DEF KnownOf
  <2>7. \A j \in Items \ {i} : KnownOf(j)'
    BY <1>k, <2>1, <2>3, <2>5, KnownKept
  <2> QED  BY <2>4, <2>6, <2>7 DEF Known
<1>4. ASSUME NEW p \in Players, NEW i \in Items, Drop(p, i)
      PROVE  NothingForgotten' /\ Known' /\ Roster' /\ Stale' /\ Asking'
  <2>1. /\ Frame /\ up /\ ItemDestroy(i) /\ told' = [told EXCEPT ![i] = Gone]
        /\ held' = Moved(i, Ground) /\ session' = session /\ delayed' = delayed \ {i}
        /\ held[i].owner = p /\ session[p] = "on"
    BY <1>4 DEF Drop, Frame, Room, ItemDestroy, Held
  <2>2. Settled(told[i].owner) /\ told[i].owner # Box /\ Live(held[i])
    BY <1>k, <2>1, PlayedIsSettled
  <2>3. /\ held'[i].owner = Ground /\ Live(held'[i])
        /\ \A j \in Items \ {i} : held'[j] = held[j]
    BY <1>0, <2>1, <2>2, MovedIs DEF RestOK
  <2>4. NothingForgotten' /\ Roster' /\ Stale' /\ Asking'
    BY <2>1, <2>2, ItemDestroyTells
  <2>5. \A j \in Items : told'[j] = IF j = i THEN Gone ELSE told[j]
    BY <1>0, <2>1 DEF RestOK
  <2>6. KnownOf(i)'
    <3>1. told'[i] = Gone /\ Gone.owner = Nobody
      BY <2>5 DEF Gone
    <3> QED  BY <2>1, <2>3, <3>1, Places DEF KnownOf
  <2>7. \A j \in Items \ {i} : KnownOf(j)'
    BY <1>k, <2>1, <2>3, <2>5, KnownKept
  <2> QED  BY <2>4, <2>6, <2>7 DEF Known
<1>5. ASSUME NEW p \in Players, NEW i \in Items, Pickup(p, i)
      PROVE  NothingForgotten' /\ Known' /\ Roster' /\ Stale' /\ Asking'
  <2>1. NothingForgotten' /\ Roster' /\ Stale' /\ Asking'
    BY <1>5, UnheardSafe DEF Pickup, core
  <2>2. /\ held' = Moved(i, p) /\ told' = told /\ session' = session
        /\ delayed' = delayed \cup {i} /\ session[p] = "on" /\ held[i].owner = Ground
    BY <1>5 DEF Pickup, Held
  <2>3. told[i] = Gone /\ Live(held[i])
    BY <1>k, <2>2, Places DEF KnownOf
  <2>4. /\ held'[i].owner = p /\ Live(held'[i])
        /\ \A j \in Items \ {i} : held'[j] = held[j]
    BY <1>0, <2>2, <2>3, MovedIs DEF RestOK
  <2>5. KnownOf(i)'
    <3>1. told'[i] = Gone /\ Gone.owner = Nobody
      BY <2>2, <2>3 DEF Gone
    <3> QED  BY <2>2, <2>4, <3>1, Places DEF KnownOf
  <2>6. \A j \in Items \ {i} : KnownOf(j)'
    BY <1>k, <2>2, <2>4, KnownKept
  <2> QED  BY <2>1, <2>5, <2>6 DEF Known
<1>6. ASSUME NEW i \in Items, Destroy(i)
      PROVE  NothingForgotten' /\ Known' /\ Roster' /\ Stale' /\ Asking'
  <2>1. /\ Frame /\ up /\ ItemDestroy(i) /\ told' = [told EXCEPT ![i] = Gone]
        /\ held' = [held EXCEPT ![i] = Gone] /\ session' = session /\ delayed' = delayed \ {i}
        /\ \/ held[i].owner = Ground
           \/ held[i].owner \in Players /\ session[held[i].owner] = "on"
    BY <1>6 DEF Destroy, Frame, Room, ItemDestroy
  <2>2. Settled(told[i].owner) /\ told[i].owner # Box
    <3>1. CASE held[i].owner = Ground
      <4>1. told[i] = Gone
        BY <1>k, <3>1, Places DEF KnownOf
      <4>2. Gone.owner = Nobody
        BY DEF Gone
      <4> QED  BY <4>1, <4>2, Places DEF Settled
    <3>2. CASE held[i].owner # Ground
      BY <1>k, <2>1, <3>2, PlayedIsSettled
    <3> QED  BY <3>1, <3>2
  <2>3. NothingForgotten' /\ Roster' /\ Stale' /\ Asking'
    BY <2>1, <2>2, ItemDestroyTells
  <2>4. /\ \A j \in Items : told'[j] = IF j = i THEN Gone ELSE told[j]
        /\ \A j \in Items : held'[j] = IF j = i THEN Gone ELSE held[j]
    BY <1>0, <2>1 DEF RestOK
  <2>5. KnownOf(i)'
    <3>1. told'[i] = Gone /\ held'[i] = Gone /\ Gone.owner = Nobody
      BY <2>4 DEF Gone
    <3> QED  BY <2>1, <3>1, Places DEF KnownOf
  <2>6. \A j \in Items \ {i} : KnownOf(j)'
    BY <1>k, <2>1, <2>4, KnownKept
  <2> QED  BY <2>3, <2>5, <2>6 DEF Known
<1>7. ASSUME NEW i \in Items, BoxCheckin(i)
      PROVE  NothingForgotten' /\ Known' /\ Roster' /\ Stale' /\ Asking'
  <2>1. /\ Frame /\ up /\ ItemSaveBox(i, held'[i]) /\ told' = [told EXCEPT ![i] = held'[i]]
        /\ held' = Moved(i, Box) /\ session' = session /\ delayed' = delayed \ {i}
        /\ held[i].owner = Keeper /\ session[Keeper] = "on" /\ box = "open"
    BY <1>7 DEF BoxCheckin, Frame, Room, ItemSaveBox, Held
  <2>2. Settled(told[i].owner) /\ Live(held[i])
    BY <1>k, <2>1, PlayedIsSettled, PlacesAreApart
  <2>3. /\ held'[i].owner = Box /\ Live(held'[i]) /\ held'[i] \in Row
        /\ \A j \in Items \ {i} : held'[j] = held[j]
    BY <1>0, <2>1, <2>2, MovedIs, MovedOK DEF RestOK
  <2>4. NothingForgotten' /\ Roster' /\ Stale' /\ Asking'
    BY <2>1, <2>2, <2>3, ItemSaveBoxTells
  <2>5. \A j \in Items : told'[j] = IF j = i THEN held'[i] ELSE told[j]
    BY <1>0, <2>1 DEF RestOK
  <2>6. KnownOf(i)'
    BY <2>1, <2>3, <2>5, Places DEF KnownOf
  <2>7. \A j \in Items \ {i} : KnownOf(j)'
    BY <1>k, <2>1, <2>3, <2>5, KnownKept
  <2> QED  BY <2>4, <2>6, <2>7 DEF Known
<1>8. ASSUME NEW i \in Items, BoxCheckout(i)
      PROVE  NothingForgotten' /\ Known' /\ Roster' /\ Stale' /\ Asking'
  <2>1. /\ Frame /\ up /\ told' = [told EXCEPT ![i] = held'[i]]
        /\ PutRows({i}, held') /\ dirty' = dirty \ {i} /\ sql' = Pushed({i}, held')
        /\ held' = Moved(i, Keeper) /\ session' = session /\ delayed' = delayed \ {i}
        /\ held[i].owner = Box /\ session[Keeper] = "on" /\ box = "open"
    BY <1>8 DEF BoxCheckout, Frame, Room, Held
  <2>2. told[i] = held[i] /\ Live(held[i])
    BY <1>k, <2>1, Places DEF KnownOf
  <2>3. /\ held'[i].owner = Keeper /\ Live(held'[i]) /\ held'[i] \in Row
        /\ \A j \in Items \ {i} : held'[j] = held[j]
    BY <1>0, <2>1, <2>2, MovedIs, MovedOK, PlacesAreApart DEF RestOK
  <2>4. Settled(told[i].owner) /\ Keeper \in Players
    BY <2>1, <2>2, PlacesAreApart DEF Settled
  <2>5. NothingForgotten' /\ Roster' /\ Stale' /\ Asking'
    BY <2>1, <2>3, <2>4, FlushedTells
  <2>6. \A j \in Items : told'[j] = IF j = i THEN held'[i] ELSE told[j]
    BY <1>0, <2>1 DEF RestOK
  <2>7. KnownOf(i)'
    BY <2>1, <2>3, <2>4, <2>6, Places DEF KnownOf
  <2>8. \A j \in Items \ {i} : KnownOf(j)'
    BY <1>k, <2>1, <2>3, <2>6, KnownKept
  <2> QED  BY <2>5, <2>7, <2>8 DEF Known
<1>9. ASSUME NEW p \in Players, PlayerSave(p)
      PROVE  NothingForgotten' /\ Known' /\ Roster' /\ Stale' /\ Asking'
  <2>1. NothingForgotten' /\ Roster' /\ Stale' /\ Asking'
    BY <1>9, UnheardSafe DEF PlayerSave, game
  <2>2. \A j \in Items : KnownOf(j)'
    BY <1>k, <1>9, KnownKept DEF PlayerSave, game
  <2> QED  BY <2>1, <2>2 DEF Known
<1>10. ASSUME NEW p \in Players, Leave(p)
       PROVE  NothingForgotten' /\ Known' /\ Roster' /\ Stale' /\ Asking'
  <2>1. /\ session[p] = "on" /\ Held(p) \cap delayed = {} /\ (p = Keeper => box # "loading")
        /\ \A q \in Players : session'[q] = IF q = p THEN "off" ELSE session[q]
        /\ box' = IF p = Keeper THEN "closed" ELSE box
        /\ pcache' = pcache \cup {p} /\ logout' \subseteq logout \cup {p}
        /\ \A q \in Players : owed'[q] = IF q = p THEN dirty ELSE owed[q]
        /\ UNCHANGED <<cached, cache, dirty, listed, sets, up, sql, results, rows, delayed, held, told>>
    BY <1>0, <1>10 DEF Leave, RestOK, database
  <2>2. sql' = Pushed({}, rows)
    BY <2>1 DEF Pushed
  <2>3. NothingForgotten'
    <3>1. \A i : Drained(i)' = Drained(i)
      BY <2>1 DEF Drained
    <3> QED  BY <2>1, <3>1 DEF NothingForgotten
  <2>4. \A j \in Items : KnownOf(j)'
    <3> SUFFICES ASSUME NEW j \in Items PROVE KnownOf(j)'
      OBVIOUS
    <3>1. KnownOf(j) /\ (j \in delayed => held[j].owner \in Players /\ held[j].owner # p)
      BY <1>k, <2>1 DEF KnownOf, Held
    <3> QED  BY <2>1, <3>1, KnownKept
  <2>5. Roster'
    BY <1>0, <2>1 DEF Roster, CacheOK
  <2>6. Stale'
    <3>1. \A i : Drained(i)' = Drained(i)
      BY <2>1 DEF Drained
    <3>2. logout' \subseteq Players /\ logout \subseteq Players
      BY <1>0, <2>1 DEF RestOK
    <3> QED  BY <2>1, <3>1, <3>2 DEF Stale
  <2>7. Asking'
    <3>1. \A w : Waiting(w) => Waiting(w)'
      <4> SUFFICES ASSUME NEW w, Waiting(w) PROVE Waiting(w)'
        OBVIOUS
      <4>1. CASE w = Box
        <5>1. box = "loading" /\ (p = Keeper => FALSE)
          BY <2>1, <4>1 DEF Waiting
        <5> QED  BY <2>1, <4>1, <5>1 DEF Waiting
      <4>2. CASE w # Box
        BY <2>1, <4>2 DEF Waiting
      <4> QED  BY <4>1, <4>2
    <3>2. \A i \in Items : told'[i] = told[i]
      BY <2>1
    <3>3. results' = results /\ rows' = rows
      BY <2>1
    <3> QED  BY <1>0, <2>2, <3>1, <3>2, <3>3, AskingKept
  <2> QED  BY <2>3, <2>4, <2>5, <2>6, <2>7 DEF Known
<1> QED  BY <1>1, <1>2, <1>3, <1>4, <1>5, <1>6, <1>7, <1>8, <1>9, <1>10 DEF Play

-----------------------------------------------------------------------------
(* Loads.                                                                  *)

\* Somebody else may only start to wait.
LEMMA AskingSame ==
  ASSUME MessagesOK, Asking, UNCHANGED <<sql, results, rows, told>>,
         \A w : Waiting(w) => Waiting(w)'
  PROVE  Asking'
PROOF
<1>1. sql' = Pushed({}, rows)
  BY DEF Pushed
<1>2. \A i \in Items : told'[i] = told[i]
  OBVIOUS
<1> QED  BY <1>1, <1>2, AskingKept

\* Nothing that waits in a cache belongs to who has no set.
LEMMA NoneWaits ==
  ASSUME CacheOK, Owned, DirtyIsListed, NothingForgotten, NEW w, w \notin listed
  PROVE  \A i \in dirty : told[i].owner # w
PROOF
<1> SUFFICES ASSUME NEW i \in dirty, told[i].owner = w PROVE FALSE
  OBVIOUS
<1>1. i \in Items /\ cache[i] = told[i]
  BY DEF CacheOK, NothingForgotten
<1>2. w \in Players /\ i \in sets[w]
  BY <1>1 DEF DirtyIsListed
<1> QED  BY <1>2 DEF Owned

\* A new select finds what the db core was told.
LEMMA SelectKept ==
  ASSUME MessagesOK, NothingForgotten, Asking, NEW w \in Players \cup {Box},
         ~Waiting(w), Waiting(w)', \A v : Waiting(v) => Waiting(v)',
         sql' = Append(sql, Select(w)), UNCHANGED <<results, rows, told>>,
         \A i \in dirty : Drained(i).owner # w /\ told[i].owner # w
  PROVE  Asking'
PROOF
<1>0. /\ Len(sql) \in Nat /\ Len(sql') = Len(sql) + 1
      /\ \A n \in 1..Len(sql) : sql'[n] = sql[n]
      /\ sql'[Len(sql')] = Select(w)
      /\ \A i : \A n \in 0..Len(sql) : At(n, i)' = At(n, i)
  BY AppendIs
<1>1. Select(w).who = w /\ Select(w).kind = "select"
  BY DEF Select
<1>2. ASSUME NEW n \in 1..Len(sql), sql[n].kind = "select", sql[n].who # Nobody
      PROVE  Selecting(n)'
  <2>1. Selecting(n)
    BY <1>2 DEF Asking
  <2>2. sql'[n] = sql[n] /\ n - 1 \in 0..Len(sql)
    BY <1>0
  <2>3. Waiting(sql[n].who) /\ sql[n].who # w
    BY <2>1 DEF Selecting
  <2>4. Waiting(sql[n].who)'
    BY <2>2, <2>3 DEF Waiting
  <2>5. \A i \in Items : At(n - 1, i)' = At(n - 1, i)
    BY <1>0, <2>2
  <2>6. \A m \in 1..Len(sql') : sql'[m].kind = "select" /\ sql'[m].who = sql[n].who => m = n
    <3> SUFFICES ASSUME NEW m \in 1..Len(sql'), sql'[m].kind = "select", sql'[m].who = sql[n].who
                 PROVE  m = n
      OBVIOUS
    <3>1. m \in 1..Len(sql) \/ m = Len(sql')
      BY <1>0
    <3> QED  BY <1>0, <1>1, <2>1, <2>3, <3>1 DEF Selecting
  <2> QED  BY <2>1, <2>2, <2>4, <2>5, <2>6 DEF Selecting
<1>3. ASSUME NEW n, n = Len(sql) + 1 PROVE Selecting(n)'
  <2>1. sql'[n] = Select(w) /\ Len(sql') = n /\ n - 1 = Len(sql)
    BY <1>0, <1>3
  <2>2. \A i \in Items : At(n - 1, i)' = Drained(i)
    <3>1. \A i \in Items : At(n - 1, i)' = At(n - 1, i)
      BY <1>0, <2>1
    <3> QED  BY <2>1, <3>1, DrainedIs
  <2>3. \A i \in Items : Drained(i).owner = w \/ told[i].owner = w => Drained(i) = told[i]
    BY DEF NothingForgotten
  <2>4. \A m \in 1..Len(sql') : sql'[m].kind = "select" /\ sql'[m].who = w => m = n
    <3> SUFFICES ASSUME NEW m \in 1..Len(sql), sql[m].kind = "select", sql[m].who = w
                 PROVE  FALSE
      BY <1>0, <1>3
    <3>1. w # Nobody
      BY Places
    <3> QED  BY <3>1 DEF Asking, Selecting
  <2>5. \A k \in 1..Len(results) : results[k].who # w
    BY DEF Asking, Answering
  <2>6. Waiting(sql[n].who)'
    BY <1>1, <2>1 DEF Waiting
  <2> QED  BY <1>1, <2>1, <2>2, <2>3, <2>4, <2>5, <2>6 DEF Selecting
<1>4. ASSUME NEW k \in 1..Len(results) PROVE Answering(k)'
  <2>1. Answering(k)
    BY DEF Asking
  <2>2. Waiting(results[k].who)'
    BY <2>1 DEF Answering, Waiting
  <2>3. RowsOf(results[k].who)' = RowsOf(results[k].who)
    BY DEF RowsOf
  <2> QED  BY <2>1, <2>2, <2>3 DEF Answering
<1> QED  BY <1>0, <1>2, <1>3, <1>4 DEF Asking

\* The result that is popped is what the db core was told, and who waited for
\* it waits for no other.
LEMMA ResultTaken ==
  ASSUME MessagesOK, Asking, results # <<>>, results' = Tail(results),
         UNCHANGED <<sql, rows, told>>,
         \A w : Waiting(w) /\ w # Head(results).who => Waiting(w)'
  PROVE  /\ Asking'
         /\ Waiting(Head(results).who) /\ Head(results).rows = RowsOf(Head(results).who)
PROOF
<1> DEFINE w == Head(results).who
<1>0. /\ Len(results) \in Nat /\ 1 \in 1..Len(results) /\ Head(results) = results[1]
      /\ Len(results') = Len(results) - 1
      /\ \A k \in 1..Len(results') : k + 1 \in 1..Len(results) /\ results'[k] = results[k + 1]
  BY DEF MessagesOK
<1>1. Answering(1) /\ w = results[1].who
  BY <1>0 DEF Asking
<1>2. ASSUME NEW n \in 1..Len(sql), sql[n].kind = "select", sql[n].who # Nobody
      PROVE  Selecting(n)'
  <2>1. Selecting(n)
    BY <1>2 DEF Asking
  <2>2. sql[n].who # w
    BY <1>0, <1>1, <2>1 DEF Selecting
  <2>3. Waiting(sql[n].who)'
    BY <2>1, <2>2 DEF Selecting, Waiting
  <2>4. \A k \in 1..Len(results') : results'[k].who # sql[n].who
    BY <1>0, <2>1 DEF Selecting
  <2>5. \A i \in Items : At(n - 1, i)' = At(n - 1, i)
    BY DEF At
  <2> QED  BY <2>1, <2>3, <2>4, <2>5 DEF Selecting
<1>3. ASSUME NEW k \in 1..Len(results') PROVE Answering(k)'
  <2>1. k + 1 \in 1..Len(results) /\ results'[k] = results[k + 1] /\ Answering(k + 1)
    BY <1>0 DEF Asking
  <2>2. results'[k].who # w
    BY <1>0, <1>1, <2>1 DEF Answering
  <2>3. Waiting(results[k].who)'
    BY <2>1, <2>2 DEF Answering, Waiting
  <2>5. results'[k].rows = RowsOf(results[k].who)'
    BY <2>1 DEF Answering, RowsOf
  <2>6. \A l \in 1..Len(results') : results'[l].who = results'[k].who => k = l
    <3> SUFFICES ASSUME NEW l \in 1..Len(results'), results'[l].who = results'[k].who PROVE k = l
      OBVIOUS
    <3>1. l + 1 \in 1..Len(results) /\ results'[l] = results[l + 1]
      BY <1>0
    <3>2. k + 1 = l + 1
      BY <2>1, <3>1 DEF Answering
    <3> QED  BY <1>0, <3>2
  <2> QED  BY <2>3, <2>5, <2>6 DEF Answering
<1> QED  BY <1>0, <1>1, <1>2, <1>3 DEF Asking, Answering

\* Who does not play has in the game what the db core was told.
LEMMA ToldIsHeld ==
  ASSUME Known, NEW w, w = Box \/ (w \in Players /\ session[w] # "on")
  PROVE  RowsOf(w) = LiveOf(Held(w), held)
PROOF
<1>1. ASSUME NEW i \in Items
      PROVE  /\ told[i].owner = w => held[i] = told[i]
             /\ held[i].owner = w => told[i] = held[i]
  <2>1. KnownOf(i)
    BY DEF Known
  <2>2. w # Ground /\ w # Nobody
    BY Places
  <2>3. Gone.owner = Nobody
    BY DEF Gone
  <2> QED  BY <2>1, <2>2, <2>3, Places DEF KnownOf
<1> DEFINE S == {i \in Items : told[i].owner = w}
<1>2. /\ \A j \in S : Live(told[j]) => j \in Held(w) /\ Live(held[j])
      /\ \A j \in Held(w) : Live(held[j]) => j \in S /\ Live(told[j])
      /\ \A j \in S : Live(told[j]) => told[j] = held[j]
  BY <1>1 DEF Held
<1> HIDE DEF S
<1>3. LiveOf(S, told) = LiveOf(Held(w), held)
  BY <1>2, LiveOfSame
<1> QED  BY <1>3 DEF S, RowsOf

\* The sessions change, and nothing that was about to be saved loses its player.
LEMMA KnownSession ==
  ASSUME Known, UNCHANGED <<told, held, delayed>>,
         \A q \in Players : session[q] = "on" => session'[q] = "on"
  PROVE  Known'
BY DEF Known, KnownOf

LEMMA LoadTells ==
  ASSUME IInv, NothingForgotten, Known, Roster, Stale, Asking, Load
  PROVE  NothingForgotten' /\ Known' /\ Roster' /\ Stale' /\ Asking' /\ LoadSeesLatest'
PROOF
<1>0. CacheOK /\ RestOK /\ MessagesOK /\ DirtyIsListed
  BY Parts
<1>1. ASSUME NEW p \in Players, LoadFromSet(p)
      PROVE  NothingForgotten' /\ Known' /\ Roster' /\ Stale' /\ Asking' /\ LoadSeesLatest'
  <2>1. /\ up /\ session[p] = "off" /\ p \in listed
        /\ session' = [session EXCEPT ![p] = "on"]
        /\ answer' = [who |-> p, has |-> LiveOf(sets[p], cache)]
        /\ owed' = [owed EXCEPT ![p] = {}]
        /\ UNCHANGED <<cached, cache, dirty, listed, sets, pcache, up, sql, results, rows,
                       box, delayed, held, told>>
    BY <1>1 DEF LoadFromSet, Room, database
  <2>2. Owned
    BY <1>0, <2>1, UpOwned, Parts
  <2>3. logout' \subseteq logout \ {p}
    BY <1>0, <1>1 DEF LoadFromSet, LogoutAfterLoad, RestOK
  <2>4. \A q \in Players : session'[q] = IF q = p THEN "on" ELSE session[q]
    BY <1>0, <2>1 DEF RestOK
  <2>5. \A i : Drained(i)' = Drained(i)
    BY <2>1 DEF Drained
  <2>6. NothingForgotten'
    BY <2>1, <2>5 DEF NothingForgotten
  <2>7. Known'
    BY <2>1, <2>4, KnownSession
  <2>8. Roster'
    BY <2>1, <2>3, <2>4 DEF Roster
  <2>9. Stale'
    <3>1. logout \subseteq Players /\ \A q \in Players \ {p} : owed'[q] = owed[q]
      BY <1>0, <2>1 DEF RestOK
    <3> QED  BY <2>1, <2>3, <2>5, <3>1 DEF Stale
  <2>10. Asking'
    <3>1. \A w : Waiting(w) => Waiting(w)'
      BY <2>1, <2>4 DEF Waiting
    <3> QED  BY <1>0, <2>1, <3>1, AskingSame
  <2>11. LoadSeesLatest'
    <3>1. \A j \in sets[p] : j \in Items /\ j \in cached /\ cache[j].owner = p
      BY <1>0, <2>2 DEF CacheOK, Owned
    <3>2. \A j \in sets[p] : Live(cache[j]) => told[j] = cache[j]
      BY <3>1 DEF NothingForgotten, OnFlush
    <3>3. ASSUME NEW j \in Items, told[j].owner = p, Live(told[j])
          PROVE  j \in sets[p] /\ Live(cache[j])
      <4>1. j \in sets[p]
        BY <2>1, <3>3 DEF Roster
      <4>2. OnFlush(cache[j]) = told[j]
        BY <3>1, <4>1 DEF NothingForgotten
      <4> QED  BY <3>3, <4>1, <4>2, GoneIsRow DEF OnFlush
    <3> DEFINE T == {j \in Items : told[j].owner = p}
    <3>4. /\ \A j \in sets[p] : Live(cache[j]) => j \in T /\ Live(told[j])
          /\ \A j \in T : Live(told[j]) => j \in sets[p] /\ Live(cache[j])
          /\ \A j \in sets[p] : Live(cache[j]) => cache[j] = told[j]
      BY <3>1, <3>2, <3>3
    <3> HIDE DEF T
    <3>5. LiveOf(sets[p], cache) = LiveOf(T, told)
      BY <3>4, LiveOfSame
    <3>6. LiveOf(sets[p], cache) = RowsOf(p)
      BY <3>5 DEF T, RowsOf
    <3>7. RowsOf(p) = LiveOf(Held(p), held)
      BY <2>1, ToldIsHeld
    <3> QED  BY <2>1, <3>6, <3>7 DEF LoadSeesLatest, Held
  <2> QED  BY <2>6, <2>7, <2>8, <2>9, <2>10, <2>11
<1>2. ASSUME NEW p \in Players, LoadFromRows(p)
      PROVE  NothingForgotten' /\ Known' /\ Roster' /\ Stale' /\ Asking' /\ LoadSeesLatest'
  <2>1. /\ up /\ session[p] = "off" /\ ~(p \in pcache /\ p \in listed)
        /\ session' = [session EXCEPT ![p] = "loading"]
        /\ sql' = Append(sql, Select(p)) /\ answer' = NoAnswer
        /\ owed' = [owed EXCEPT ![p] = {}]
        /\ UNCHANGED <<cached, cache, dirty, listed, sets, pcache, up, results, rows,
                       box, delayed, held, told>>
    BY <1>2 DEF LoadFromRows, Room
  <2>2. Owned /\ p \notin listed
    BY <1>0, <2>1, UpOwned, Parts DEF Roster
  <2>3. logout' \subseteq logout \ {p}
    BY <1>0, <1>2 DEF LoadFromRows, LogoutAfterLoad, RestOK
  <2>4. \A q \in Players : session'[q] = IF q = p THEN "loading" ELSE session[q]
    BY <1>0, <2>1 DEF RestOK
  <2>5. \A i : Drained(i)' = Drained(i)
    <3>1. DOMAIN Select(p).rows = {}
      BY DEF Select
    <3> QED  BY <1>0, <2>1, <3>1, AppendIs
  <2>6. NothingForgotten'
    BY <2>1, <2>5 DEF NothingForgotten
  <2>7. Known'
    BY <2>1, <2>4, KnownSession
  <2>8. Roster'
    BY <2>1, <2>2, <2>3, <2>4 DEF Roster
  <2>9. Stale'
    <3>1. logout \subseteq Players /\ \A q \in Players \ {p} : owed'[q] = owed[q]
      BY <1>0, <2>1 DEF RestOK
    <3> QED  BY <2>1, <2>3, <2>5, <3>1 DEF Stale
  <2>10. Asking'
    <3>1. ~Waiting(p) /\ Waiting(p)' /\ \A w : Waiting(w) => Waiting(w)'
      BY <2>1, <2>4, Places DEF Waiting
    <3>2. \A i \in dirty : Drained(i).owner # p /\ told[i].owner # p
      BY <1>0, <2>2, NoneWaits DEF Stale
    <3> QED  BY <1>0, <2>1, <3>1, <3>2, SelectKept
  <2>11. LoadSeesLatest'
    BY <2>1 DEF LoadSeesLatest
  <2> QED  BY <2>6, <2>7, <2>8, <2>9, <2>10, <2>11
<1>3. CASE ItemLoad
  <2> DEFINE p == Head(results).who
             has == Head(results).rows
  <2>1. /\ up /\ results # <<>> /\ p \in Players
        /\ session' = [session EXCEPT ![p] = "on"]
        /\ listed' = listed \cup {p}
        /\ PutItemCache(DOMAIN has, has, TRUE)
        /\ answer' = [who |-> p, has |-> has]
        /\ results' = Tail(results)
        /\ owed' = [q \in Players |-> owed[q] \cap dirty']
        /\ UNCHANGED <<pcache, logout, up, rows, box, delayed, held, told>>
    BY <1>3 DEF ItemLoad
  <2>2. Waiting(p) /\ has = RowsOf(p) /\ session[p] = "loading" /\ p \notin listed
    <3>1. Answering(1) /\ Head(results) = results[1]
      BY <1>0, <2>1 DEF Asking, MessagesOK
    <3>2. Waiting(p) /\ has = RowsOf(p)
      BY <3>1 DEF Answering
    <3>3. session[p] = "loading"
      BY <2>1, <3>2, Places DEF Waiting
    <3> QED  BY <2>1, <3>2, <3>3 DEF Roster
  <2> HIDE DEF p, has
  <2>3. Owned
    BY <1>0, <2>1, UpOwned, Parts
  <2>4. /\ DOMAIN has = {j \in Items : told[j].owner = p /\ Live(told[j])}
        /\ \A j \in DOMAIN has : has[j] = told[j]
    BY <2>2 DEF RowsOf, LiveOf
  <2>5. \A i \in dirty : told[i].owner # p
    BY <1>0, <2>2, <2>3, NoneWaits
  <2>6. PutRows(DOMAIN has, has) /\ dirty' = dirty /\ sql' = sql
    <3>1. {j \in DOMAIN has : has[j].owner \notin listed'} = {}
      BY <2>1, <2>4
    <3>2. /\ PutRows(DOMAIN has, has)
          /\ dirty' = dirty \ {j \in DOMAIN has : has[j].owner \notin listed'}
          /\ sql' = Pushed({j \in DOMAIN has : has[j].owner \notin listed'}, has)
      BY <2>1 DEF PutItemCache
    <3> QED  BY <3>1, <3>2 DEF Pushed
  <2>7. \A i : Drained(i)' = Drained(i)
    BY <2>1, <2>6 DEF Drained
  <2>8. \A q \in Players : session'[q] = IF q = p THEN "on" ELSE session[q]
    BY <1>0, <2>1 DEF RestOK
  <2>9. NothingForgotten'
    <3>1. ASSUME NEW i \in Items, i \in DOMAIN has PROVE Agreed(i)'
      <4>1. told'[i] = told[i] /\ Live(told[i]) /\ i \notin dirty' /\ cache'[i] = told[i]
        BY <2>1, <2>4, <2>5, <2>6, <3>1 DEF PutRows
      <4>2. Drained(i) = told[i]
        BY <2>6, <4>1 DEF NothingForgotten
      <4> QED  BY <2>7, <4>1, <4>2 DEF Agreed, OnFlush
    <3>2. ASSUME NEW i \in Items, i \notin DOMAIN has PROVE Agreed(i)'
      <4>1. cache'[i] = cache[i] /\ (i \in cached' <=> i \in cached)
        BY <2>6, <3>2 DEF PutRows
      <4>2. Agreed(i)
        BY ForgottenIs
      <4> QED  BY <2>1, <2>6, <2>7, <4>1, <4>2 DEF Agreed
    <3> QED  BY <2>1, <3>1, <3>2, ForgottenIs
  <2>10. Known'
    BY <2>1, <2>8, KnownSession
  <2>11. Roster'
    <3>1. ASSUME NEW q \in listed', NEW j \in Items, told[j].owner = q
          PROVE  j \in sets'[q]
      <4>1. q \in Players
        BY <1>0, <2>1, <3>1 DEF CacheOK
      <4>2. sets'[q] = (sets[q] \ {k \in DOMAIN has \cap cached : cache[k].owner = q /\ has[k].owner # q})
                         \cup {k \in DOMAIN has : has[k].owner = q /\ q \in listed'}
        BY <2>6, <4>1 DEF PutRows
      <4>3. CASE q = p
        <5>1. Live(told[j])
          BY <2>1, <3>1, <4>3, Places DEF Known, KnownOf
        <5> QED  BY <2>4, <3>1, <4>2, <4>3, <5>1
      <4>4. CASE q # p
        <5>1. j \in sets[q] /\ j \notin DOMAIN has
          BY <2>1, <2>4, <3>1, <4>1, <4>4 DEF Roster
        <5> QED  BY <4>2, <5>1
      <4> QED  BY <4>3, <4>4
    <3>2. p \notin logout
      BY <1>0, <2>1, <2>2 DEF Roster
    <3> QED  BY <2>1, <2>8, <3>1, <3>2 DEF Roster
  <2>12. Stale'
    <3>1. logout \subseteq Players
      BY <1>0 DEF RestOK
    <3> QED  BY <2>1, <2>6, <2>7, <3>1 DEF Stale
  <2>13. Asking'
    <3>1. \A w : Waiting(w) /\ w # Head(results).who => Waiting(w)'
      BY <2>1, <2>8 DEF Waiting, p
    <3> QED  BY <1>0, <2>1, <2>6, <3>1, ResultTaken
  <2>14. LoadSeesLatest'
    <3>1. RowsOf(p) = LiveOf(Held(p), held)
      BY <2>1, <2>2, ToldIsHeld
    <3>2. LiveOf({i \in Items : held[i].owner = p}, held) = LiveOf({i \in Items : held'[i].owner = p}, held')
      BY <2>1
    <3>3. answer'.has = has /\ answer'.who = p
      BY <2>1
    <3> QED  BY <2>2, <3>1, <3>2, <3>3 DEF LoadSeesLatest, Held
  <2> QED  BY <2>9, <2>10, <2>11, <2>12, <2>13, <2>14
<1>4. CASE BoxLoad
  <2>1. /\ up /\ box = "closed" /\ box' = "loading"
        /\ sql' = Append(sql, Select(Box)) /\ answer' = NoAnswer
        /\ owed' = [q \in Players |-> owed[q] \cap dirty']
        /\ UNCHANGED <<cached, cache, dirty, listed, sets, pcache, logout, up, results, rows,
                       session, delayed, held, told>>
    BY <1>4 DEF BoxLoad, Room, core, Quiet
  <2>2. Owned /\ Box \notin listed
    BY <1>0, <2>1, UpOwned, Parts, Places DEF CacheOK
  <2>3. \A i : Drained(i)' = Drained(i)
    <3>1. DOMAIN Select(Box).rows = {}
      BY DEF Select
    <3> QED  BY <1>0, <2>1, <3>1, AppendIs
  <2>4. NothingForgotten'
    BY <2>1, <2>3 DEF NothingForgotten
  <2>5. Known' /\ Roster'
    BY <2>1, KnownSession DEF Roster
  <2>6. Stale'
    <3>1. logout \subseteq Players
      BY <1>0 DEF RestOK
    <3> QED  BY <2>1, <2>3, <3>1 DEF Stale
  <2>7. Asking'
    <3>1. ~Waiting(Box) /\ Waiting(Box)' /\ \A w : Waiting(w) => Waiting(w)'
      BY <2>1 DEF Waiting
    <3>2. \A i \in dirty : Drained(i).owner # Box /\ told[i].owner # Box
      BY <1>0, <2>2, NoneWaits DEF Stale
    <3> QED  BY <1>0, <2>1, <3>1, <3>2, SelectKept
  <2>8. LoadSeesLatest'
    BY <2>1 DEF LoadSeesLatest
  <2> QED  BY <2>4, <2>5, <2>6, <2>7, <2>8
<1>5. CASE BoxLoaded
  <2>1. /\ up /\ results # <<>> /\ Head(results).who = Box /\ box' = "open"
        /\ answer' = [who |-> Box, has |-> Head(results).rows]
        /\ results' = Tail(results)
        /\ UNCHANGED <<cached, cache, dirty, listed, sets, pcache, logout, up, sql, rows,
                       session, delayed, held, told, owed>>
    BY <1>5 DEF BoxLoaded, core
  <2>2. \A i : Drained(i)' = Drained(i)
    BY <2>1 DEF Drained
  <2>3. NothingForgotten'
    BY <2>1, <2>2 DEF NothingForgotten
  <2>4. Known' /\ Roster'
    BY <2>1, KnownSession DEF Roster
  <2>5. Stale'
    BY <2>1, <2>2 DEF Stale
  <2>6. Asking' /\ Head(results).rows = RowsOf(Box)
    <3>1. \A w : Waiting(w) /\ w # Head(results).who => Waiting(w)'
      BY <2>1 DEF Waiting
    <3>2. Asking' /\ Head(results).rows = RowsOf(Head(results).who)
      BY <1>0, <2>1, <3>1, ResultTaken
    <3> QED  BY <2>1, <3>2
  <2>7. LoadSeesLatest'
    <3>1. RowsOf(Box) = LiveOf(Held(Box), held)
      BY ToldIsHeld
    <3> QED  BY <2>1, <2>6, <3>1 DEF LoadSeesLatest, Held
  <2> QED  BY <2>3, <2>4, <2>5, <2>6, <2>7
<1> QED  BY <1>1, <1>2, <1>3, <1>4, <1>5 DEF Load

-----------------------------------------------------------------------------
(* Crashes, timers and the connection.                                     *)

\* A game core that dies takes nothing with it that the db core was told.
LEMMA CrashTells ==
  ASSUME IInv, NothingForgotten, Known, Roster, Stale, Asking, Crash
  PROVE  NothingForgotten' /\ Known' /\ Roster' /\ Stale' /\ Asking' /\ LoadSeesLatest'
PROOF
<1>0. CacheOK /\ RestOK /\ MessagesOK
  BY Parts
<1>1. /\ \A p \in Players : session[p] = "on" => p \in pcache
      /\ \A p \in Players : session'[p] = "off"
      /\ delayed' = {} /\ held' = told /\ results' = <<>> /\ answer' = NoAnswer
      /\ sql' = [n \in DOMAIN sql |-> [sql[n] EXCEPT !.who = Nobody]]
      /\ UNCHANGED <<cached, cache, dirty, listed, sets, pcache, logout, up, rows, told, owed>>
  BY DEF Crash, core
<1>2. /\ Len(sql) \in Nat /\ Len(sql') = Len(sql)
      /\ \A n \in 1..Len(sql) :
           sql'[n].rows = sql[n].rows /\ sql'[n].kind = sql[n].kind /\ sql'[n].who = Nobody
  <2>1. Len(sql) \in Nat /\ DOMAIN sql = 1..Len(sql) /\ sql \in Seq(Message)
    BY <1>0 DEF MessagesOK
  <2>2. \A n \in 1..Len(sql) : sql[n] \in Message
    BY <2>1
  <2>3. \A n \in 1..Len(sql) : [sql[n] EXCEPT !.who = Nobody] \in Message
    BY <2>2 DEF Message
  <2>4. sql' \in [1..Len(sql) -> Message]
    BY <1>1, <2>1, <2>3
  <2>5. Len(sql') = Len(sql)
    BY <2>1, <2>4, SeqDef, LenProperties
  <2>6. \A n \in 1..Len(sql) : sql'[n] = [sql[n] EXCEPT !.who = Nobody]
    BY <1>1, <2>1
  <2>7. ASSUME NEW n \in 1..Len(sql)
        PROVE  sql'[n].rows = sql[n].rows /\ sql'[n].kind = sql[n].kind /\ sql'[n].who = Nobody
    BY <2>2, <2>6 DEF Message
  <2> QED  BY <2>1, <2>5, <2>7
<1>3. \A i : Drained(i)' = Drained(i)
  <2> SUFFICES ASSUME NEW i PROVE Drained(i)' = Drained(i)
    OBVIOUS
  <2>1. LastRow(sql', rows', Len(sql), i) = LastRow(sql, rows, Len(sql), i)
    <3>1. rows' = rows /\ Len(sql) \in Nat /\ \A n \in 1..Len(sql) : sql'[n].rows = sql[n].rows
      BY <1>1, <1>2
    <3> QED  BY <3>1, SameBefore
  <2> QED  BY <1>2, <2>1, DrainedIs DEF At
<1>4. NothingForgotten'
  BY <1>1, <1>3 DEF NothingForgotten
<1>5. Known'
  BY <1>1, Places DEF Known, KnownOf
<1>6. Roster'
  <2>1. \A p \in Players : session[p] \in {"off", "loading", "on"}
    BY <1>0 DEF RestOK
  <2> QED  BY <1>1, <2>1 DEF Roster
<1>7. Stale'
  BY <1>1, <1>3 DEF Stale
<1>8. Asking'
  <2>1. Len(results') = 0
    BY <1>1
  <2> QED  BY <1>2, <2>1 DEF Asking
<1>9. LoadSeesLatest'
  BY <1>1 DEF LoadSeesLatest
<1> QED  BY <1>4, <1>5, <1>6, <1>7, <1>8, <1>9

\* What is flushed is on its way, and what is dropped was not waiting.
LEMMA FlushAgrees ==
  ASSUME IInv, NothingForgotten, NEW D, D \subseteq dirty,
         sql' = Pushed(D, Flushed), rows' = rows, told' = told, dirty' = dirty \ D,
         \A j \in Items : j \in cached' => j \in cached /\ cache'[j] = cache[j],
         \A j \in dirty' : cache'[j] = cache[j]
  PROVE  \A j \in Items : Agreed(j)'
PROOF
<1> SUFFICES ASSUME NEW j \in Items PROVE Agreed(j)'
  OBVIOUS
<1>0. CacheOK /\ MessagesOK
  BY Parts
<1>1. Drained(j)' = IF j \in D THEN Flushed[j] ELSE Drained(j)
  BY <1>0, PushIs
<1>2. j \in D => Flushed[j] = told[j]
  BY <1>0 DEF NothingForgotten, Flushed, CacheOK
<1>3. Agreed(j)
  BY ForgottenIs
<1> QED  BY <1>1, <1>2, <1>3 DEF Agreed

\* The flush of some caches that stay.
LEMMA FlushTells ==
  ASSUME IInv, up, NothingForgotten, Known, Roster, Stale, Asking, NEW D, D \subseteq dirty,
         sql' = Pushed(D, Flushed), dirty' = dirty \ D, Quiet,
         UNCHANGED <<cached, cache, listed, sets, pcache, logout, up, results, rows, game, held, told>>
  PROVE  NothingForgotten' /\ Known' /\ Roster' /\ Stale' /\ Asking'
PROOF
<1>0. CacheOK /\ RestOK /\ MessagesOK
  BY Parts
<1>1. NothingForgotten'
  <2>1. \A j \in Items : Agreed(j)'
    BY FlushAgrees
  <2> QED  BY <2>1, ForgottenIs
<1>2. Known' /\ Roster'
  BY KnownSession DEF Roster, game
<1>3. Stale'
  <2>1. \A i \in dirty' : Drained(i)' = Drained(i)
    BY <1>0, PushIs
  <2>2. owed' = [p \in Players |-> owed[p] \cap dirty'] /\ logout \subseteq Players
    BY <1>0 DEF Quiet, RestOK
  <2> QED  BY <2>1, <2>2 DEF Stale
<1>4. Asking'
  <2>1. \A w : Waiting(w) => Waiting(w)'
    BY DEF Waiting, game
  <2>2. \A i \in Items : told'[i] = told[i]
    OBVIOUS
  <2> QED  BY <1>0, <2>1, <2>2, AskingKept
<1> QED  BY <1>1, <1>2, <1>3, <1>4

LEMMA TickTells ==
  ASSUME IInv, NothingForgotten, Known, Roster, Stale, Asking, Tick
  PROVE  NothingForgotten' /\ Known' /\ Roster' /\ Stale' /\ Asking'
PROOF
<1>0. CacheOK /\ RestOK /\ MessagesOK /\ DirtyIsListed
  BY Parts
<1>1. ASSUME NEW i \in Items, UpdateItemCache(i)
      PROVE  NothingForgotten' /\ Known' /\ Roster' /\ Stale' /\ Asking'
  <2>1. up /\ {i} \subseteq dirty
    BY <1>1 DEF UpdateItemCache
  <2> QED  BY <1>1, <2>1, FlushTells DEF UpdateItemCache
<1>2. ASSUME NEW p \in Players, UpdateItemCacheSet(p)
      PROVE  NothingForgotten' /\ Known' /\ Roster' /\ Stale' /\ Asking'
  <2> DEFINE D == sets[p] \cap dirty
  <2>1. /\ up /\ D \subseteq dirty /\ sql' = Pushed(D, Flushed) /\ dirty' = dirty \ D /\ Quiet
        /\ UNCHANGED <<cached, cache, listed, sets, pcache, logout, up, results, rows, game, held, told>>
    BY <1>2 DEF UpdateItemCacheSet
  <2> HIDE DEF D
  <2> QED  BY <2>1, FlushTells
<1>3. ASSUME NEW p \in Players, Expire(p)
      PROVE  NothingForgotten' /\ Known' /\ Roster' /\ Stale' /\ Asking'
  <2> DEFINE D == sets[p] \cap dirty
  <2>1. /\ up /\ p \in logout /\ owed[p] = {} /\ D \subseteq dirty
        /\ sql' = Pushed(D, Flushed) /\ dirty' = dirty \ D
        /\ cached' = cached \ sets[p] /\ listed' = listed \ {p}
        /\ \A j \in Items : cache'[j] = IF j \in sets[p] THEN Gone ELSE cache[j]
        /\ \A q \in Players : sets'[q] = IF q = p THEN {} ELSE sets[q]
        /\ pcache' = pcache \ {p} /\ logout' = logout \ {p}
        /\ owed' = [q \in Players |-> owed[q] \cap dirty']
        /\ UNCHANGED <<up, results, rows, session, box, delayed, held, told>>
    BY <1>0, <1>3 DEF Expire, FlushItemCacheSet, CacheOK, Quiet, game
  <2>2. dirty' \cap sets[p] = {} /\ dirty' \subseteq Items
    BY <1>0, <2>1 DEF CacheOK
  <2> HIDE DEF D
  <2>3. NothingForgotten'
    <3>1. \A j \in Items : j \in cached' => j \in cached /\ cache'[j] = cache[j]
      BY <2>1
    <3>2. \A j \in dirty' : cache'[j] = cache[j]
      BY <2>1, <2>2
    <3>3. \A j \in Items : Agreed(j)'
      BY <2>1, <3>1, <3>2, FlushAgrees
    <3> QED  BY <2>1, <3>3, ForgottenIs
  <2>4. Known'
    BY <2>1, KnownSession
  <2>5. Roster'
    <3>1. session[p] = "off"
      BY <1>0, <2>1 DEF Roster, RestOK
    <3> QED  BY <2>1, <3>1 DEF Roster
  <2>6. Stale'
    <3>1. \A j \in dirty' : Drained(j).owner # p
      <4> SUFFICES ASSUME NEW j \in dirty', Drained(j).owner = p PROVE FALSE
        OBVIOUS
      <4>1. j \in dirty /\ told[j].owner = p
        BY <2>1 DEF Stale
      <4>2. cache[j] = told[j]
        BY <2>2, <4>1 DEF NothingForgotten
      <4>3. j \in sets[p]
        BY <1>0, <4>1, <4>2 DEF DirtyIsListed
      <4> QED  BY <2>2, <4>3
    <3>2. /\ D \cap dirty' = {} /\ dirty' \subseteq Items /\ dirty' \ dirty = {}
          /\ logout' \subseteq logout /\ listed \ listed' \subseteq {p}
      BY <2>1, <2>2
    <3>3. \A q \in logout' : dirty' \cap owed[q] \subseteq owed'[q]
      BY <1>0, <2>1 DEF RestOK
    <3>4. \A q \in listed \ listed' : \A j \in dirty' : Drained(j).owner # q
      BY <3>1, <3>2
    <3>5. \A j \in dirty' : told'[j] = told[j]
      BY <2>1
    <3> QED  BY <1>0, <2>1, <3>2, <3>3, <3>4, <3>5, StaleKept
  <2>7. Asking'
    <3>1. \A w : Waiting(w) => Waiting(w)'
      BY <2>1 DEF Waiting
    <3>2. \A j \in Items : told'[j] = told[j]
      BY <2>1
    <3> QED  BY <1>0, <2>1, <3>1, <3>2, AskingKept
  <2> QED  BY <2>3, <2>4, <2>5, <2>6, <2>7
<1> QED  BY <1>1, <1>2, <1>3 DEF Tick

\* At the end every cache is on its way.
LEMMA ShutdownTells ==
  ASSUME IInv, NothingForgotten, Shutdown
  PROVE  NothingForgotten' /\ ~up'
PROOF
<1>1. /\ ~up' /\ sql' = Pushed(dirty, Flushed) /\ cached' = {} /\ dirty' = dirty \ dirty
      /\ rows' = rows /\ told' = told
  BY DEF Shutdown
<1>2. /\ \A j \in Items : j \in cached' => j \in cached /\ cache'[j] = cache[j]
      /\ \A j \in dirty' : cache'[j] = cache[j]
  BY <1>1
<1>3. \A j \in Items : Agreed(j)'
  BY <1>1, <1>2, FlushAgrees
<1> QED  BY <1>1, <1>3, ForgottenIs

\* The connection runs the oldest message: what the queue leaves is the same.
LEMMA ExecuteIs ==
  ASSUME IInv, Execute
  PROVE  /\ Len(sql) \in Nat /\ 1 \in 1..Len(sql) /\ Head(sql) = sql[1]
         /\ Len(sql') = Len(sql) - 1
         /\ \A n \in 1..Len(sql') : n + 1 \in 1..Len(sql) /\ sql'[n] = sql[n + 1]
         /\ \A i \in Items : \A n \in 0..Len(sql') : At(n, i)' = At(n + 1, i)
         /\ \A i \in Items : Drained(i)' = Drained(i)
PROOF
<1>0. RestOK /\ MessagesOK
  BY Parts
<1>1. /\ Len(sql) \in Nat /\ 1 \in 1..Len(sql) /\ Head(sql) = sql[1]
      /\ Len(sql') = Len(sql) - 1
      /\ \A n \in 1..Len(sql') : n + 1 \in 1..Len(sql) /\ sql'[n] = sql[n + 1]
  BY <1>0 DEF Execute, MessagesOK
<1>2. \A i \in Items :
        rows'[i] = IF i \in DOMAIN sql[1].rows THEN sql[1].rows[i] ELSE rows[i]
  <2>1. sql[1] \in Message
    BY <1>0, <1>1 DEF MessagesOK
  <2>2. CASE sql[1].kind = "write"
    BY <1>1, <2>2 DEF Execute
  <2>3. CASE sql[1].kind # "write"
    <3>1. DOMAIN sql[1].rows = {}
      BY <2>1, <2>3 DEF Message
    <3> QED  BY <1>1, <2>3, <3>1 DEF Execute
  <2> QED  BY <2>2, <2>3
<1>3. ASSUME NEW i \in Items, NEW n \in 0..Len(sql')
      PROVE  At(n, i)' = At(n + 1, i)
  <2>1. n \in Nat /\ \A k \in 1..n : sql'[k].rows = sql[k + 1].rows
    BY <1>1
  <2>2. LastRow(sql', rows', n, i) = LastRow(sql, rows, n + 1, i)
    <3>1. TailOf(sql', sql, n) /\ Ran(rows', rows, sql, i)
      BY <1>2, <2>1 DEF TailOf, Ran
    <3> QED  BY <2>1, <3>1, LastOfTail
  <2> QED  BY <2>2 DEF At
<1>4. ASSUME NEW i \in Items PROVE Drained(i)' = Drained(i)
  <2>1. Len(sql') \in 0..Len(sql') /\ Len(sql') + 1 = Len(sql)
    BY <1>1
  <2>2. ASSUME NEW n, n = Len(sql') PROVE LastRow(sql', rows', n, i) = LastRow(sql, rows, n + 1, i)
    <3>1. At(n, i)' = At(n + 1, i)
      BY <1>3, <2>1, <2>2
    <3> QED  BY <3>1 DEF At
  <2>3. LastRow(sql', rows', Len(sql'), i) = At(Len(sql), i)
    BY <2>1, <2>2 DEF At
  <2> QED  BY <2>3, DrainedIs
<1> QED  BY <1>1, <1>3, <1>4

\* The select that has run found what the db core was told; the others moved up.
LEMMA ExecuteAsks ==
  ASSUME IInv, Asking, Execute
  PROVE  Asking'
PROOF
<1>0. RestOK /\ MessagesOK
  BY Parts
<1>1. /\ Len(sql) \in Nat /\ 1 \in 1..Len(sql) /\ Head(sql) = sql[1]
      /\ Len(sql') = Len(sql) - 1
      /\ \A n \in 1..Len(sql') : n + 1 \in 1..Len(sql) /\ sql'[n] = sql[n + 1]
      /\ \A i \in Items : \A n \in 0..Len(sql') : At(n, i)' = At(n + 1, i)
  BY ExecuteIs
<1>2. UNCHANGED <<session, box, told>>
  BY DEF Execute, game
<1> DEFINE w == sql[1].who
           found == [who |-> w, rows |-> LiveOf({i \in Items : rows[i].owner = w}, rows)]
<1>3. \/ results' = results
      \/ /\ sql[1].kind = "select" /\ w # Nobody
         /\ results' = Append(results, found)
  <2>1. sql[1] \in Message
    BY <1>0, <1>1 DEF MessagesOK
  <2>2. sql[1].kind \in {"write", "select"}
    BY <2>1 DEF Message
  <2> QED  BY <1>1, <2>2 DEF Execute
<1>4. /\ Len(results) \in Nat /\ Len(results') \in Nat
      /\ \A k \in 1..Len(results) : k \in 1..Len(results') /\ results'[k] = results[k]
      /\ \A k \in 1..Len(results') :
           \/ k \in 1..Len(results)
           \/ /\ sql[1].kind = "select" /\ w # Nobody
              /\ results'[k] = found /\ k = Len(results) + 1
  <2> HIDE DEF found
  <2> QED  BY <1>0, <1>3 DEF MessagesOK
<1>5. found.who = w /\ (sql[1].kind = "select" /\ w # Nobody => Selecting(1))
  BY <1>1 DEF Asking
<1>6. ASSUME sql[1].kind = "select", w # Nobody
      PROVE  found.rows = RowsOf(w) /\ Waiting(w)
  <2>1. \A i \in Items : At(1 - 1, i) = rows[i]
    <3>1. \A i \in Items : LastRow(sql, rows, 0, i) = rows[i]
      <4>1. \A k \in 1..0 : FALSE
        OBVIOUS
      <4>2. 0 \in Nat
        OBVIOUS
      <4> QED  BY <4>1, <4>2, LastNone
    <3> QED  BY <3>1 DEF At
  <2>2. \A i \in Items : rows[i].owner = w \/ told[i].owner = w => rows[i] = told[i]
    BY <1>5, <1>6, <2>1 DEF Selecting
  <2> DEFINE S == {i \in Items : rows[i].owner = w}
             T == {i \in Items : told[i].owner = w}
  <2>3. S = T /\ \A i \in S : rows[i] = told[i]
    BY <2>2
  <2> HIDE DEF S, T
  <2>4. LiveOf(S, rows) = LiveOf(T, told)
    BY <2>3, LiveOfSame
  <2>5. Waiting(w)
    BY <1>5, <1>6 DEF Selecting
  <2> QED  BY <2>4, <2>5 DEF S, T, RowsOf
<1> HIDE DEF found
<1>7. ASSUME NEW n \in 1..Len(sql'), sql'[n].kind = "select", sql'[n].who # Nobody
      PROVE  Selecting(n)'
  <2>1. n + 1 \in 1..Len(sql) /\ sql'[n] = sql[n + 1] /\ Selecting(n + 1)
    BY <1>1, <1>7 DEF Asking
  <2>2. Waiting(sql[n].who)'
    BY <1>2, <2>1 DEF Selecting, Waiting
  <2>3. \A i \in Items : At(n - 1, i)' = At((n + 1) - 1, i)
    <3>1. n - 1 \in 0..Len(sql') /\ (n - 1) + 1 = (n + 1) - 1
      BY <1>1
    <3> QED  BY <1>1, <3>1
  <2>4. \A m \in 1..Len(sql') : sql'[m].kind = "select" /\ sql'[m].who = sql'[n].who => m = n
    <3> SUFFICES ASSUME NEW m \in 1..Len(sql'), sql'[m].kind = "select", sql'[m].who = sql'[n].who
                 PROVE  m = n
      OBVIOUS
    <3>1. m + 1 \in 1..Len(sql) /\ sql'[m] = sql[m + 1]
      BY <1>1
    <3>2. m + 1 = n + 1
      BY <2>1, <3>1 DEF Selecting
    <3> QED  BY <1>1, <3>2
  <2>5. \A k \in 1..Len(results') : results'[k].who # sql'[n].who
    <3> SUFFICES ASSUME NEW k \in 1..Len(results'), results'[k].who = sql'[n].who PROVE FALSE
      OBVIOUS
    <3>1. CASE k \in 1..Len(results)
      BY <1>4, <2>1, <3>1 DEF Selecting
    <3>2. CASE k \notin 1..Len(results)
      <4>1. sql[1].kind = "select" /\ sql[1].who = sql[n + 1].who
        BY <1>4, <1>5, <2>1, <3>2
      <4>2. 1 = n + 1
        BY <1>1, <2>1, <4>1 DEF Selecting
      <4> QED  BY <4>2
    <3> QED  BY <3>1, <3>2
  <2> QED  BY <1>2, <2>1, <2>2, <2>3, <2>4, <2>5 DEF Selecting
<1>8. ASSUME NEW k \in 1..Len(results')
      PROVE  Answering(k)'
  <2>1. CASE k \in 1..Len(results)
    <3>1. Answering(k) /\ results'[k] = results[k]
      BY <1>4, <2>1 DEF Asking
    <3>2. Waiting(results[k].who)'
      BY <1>2, <3>1 DEF Answering, Waiting
    <3>3. results'[k].rows = RowsOf(results[k].who)'
      BY <1>2, <3>1 DEF Answering, RowsOf
    <3>4. \A l \in 1..Len(results') : results'[l].who = results'[k].who => k = l
      <4> SUFFICES ASSUME NEW l \in 1..Len(results'), results'[l].who = results'[k].who PROVE k = l
        OBVIOUS
      <4>1. CASE l \in 1..Len(results)
        BY <1>4, <3>1, <4>1 DEF Answering
      <4>2. CASE l \notin 1..Len(results)
        BY <1>4, <1>5, <2>1, <3>1, <4>2 DEF Selecting
      <4> QED  BY <4>1, <4>2
    <3> QED  BY <3>2, <3>3, <3>4 DEF Answering
  <2>2. CASE k \notin 1..Len(results)
    <3>1. sql[1].kind = "select" /\ w # Nobody /\ results'[k] = found /\ k = Len(results) + 1
      BY <1>4, <2>2
    <3>2. results'[k].who = w /\ results'[k].rows = RowsOf(w) /\ Waiting(w)
      BY <1>5, <1>6, <3>1
    <3>3. Waiting(results[k].who)'
      BY <1>2, <3>2 DEF Waiting
    <3>4. results'[k].rows = RowsOf(results[k].who)'
      BY <1>2, <3>2 DEF RowsOf
    <3>5. \A l \in 1..Len(results') : results'[l].who = w => k = l
      <4> SUFFICES ASSUME NEW l \in 1..Len(results'), results'[l].who = w PROVE k = l
        OBVIOUS
      <4>1. CASE l \in 1..Len(results)
        BY <1>4, <1>5, <3>1, <4>1 DEF Selecting
      <4>2. CASE l \notin 1..Len(results)
        BY <1>4, <3>1, <4>2
      <4> QED  BY <4>1, <4>2
    <3> QED  BY <3>2, <3>3, <3>4, <3>5 DEF Answering
  <2> QED  BY <2>1, <2>2
<1> QED  BY <1>7, <1>8 DEF Asking

LEMMA ExecuteTells ==
  ASSUME Whole, Execute
  PROVE  NothingForgotten' /\ Safe' /\ LoadSeesLatest'
PROOF
<1>0. IInv /\ NothingForgotten /\ Safe /\ CacheOK
  BY Parts DEF Whole
<1>1. /\ answer' = NoAnswer
      /\ UNCHANGED <<cached, cache, dirty, listed, sets, pcache, logout, up, session, box, delayed,
                     held, told, owed>>
  BY DEF Execute, core, game
<1>2. \A i \in Items : Drained(i)' = Drained(i)
  BY <1>0, ExecuteIs
<1>3. NothingForgotten'
  BY <1>0, <1>1, <1>2 DEF NothingForgotten
<1>4. ASSUME up PROVE Known' /\ Roster' /\ Stale' /\ Asking'
  <2>1. Known /\ Roster /\ Stale /\ Asking
    BY <1>0, <1>4 DEF Safe
  <2>2. Known' /\ Roster'
    BY <1>1, <2>1, KnownSession DEF Roster
  <2>3. Stale'
    BY <1>0, <1>1, <1>2, <2>1 DEF Stale, CacheOK
  <2> QED  BY <1>0, <2>1, <2>2, <2>3, ExecuteAsks
<1>5. LoadSeesLatest'
  BY <1>1 DEF LoadSeesLatest
<1> QED  BY <1>1, <1>3, <1>4, <1>5 DEF Safe

\* All of it holds at the start, and every step keeps it.
LEMMA WholeInductive ==
  /\ Init => Whole /\ LoadSeesLatest
  /\ Whole /\ LoadSeesLatest /\ [Next]_vars => (Whole /\ LoadSeesLatest)'
PROOF
<1>1. ASSUME Init PROVE Whole /\ LoadSeesLatest
  <2>1. IInv
    BY <1>1, Inductive
  <2>2. /\ cached = {} /\ dirty = {} /\ listed = {} /\ logout = {} /\ delayed = {}
        /\ sql = <<>> /\ results = <<>> /\ answer = NoAnswer /\ held = rows /\ told = rows
        /\ rows \in [Items -> [owner : Players \cup {Box}, ver : {1}]]
        /\ session = [p \in Players |-> "off"]
    BY <1>1 DEF Init
  <2>3. \A i : Drained(i) = rows[i]
    <3> SUFFICES ASSUME NEW i PROVE Drained(i) = rows[i]
      OBVIOUS
    <3>1. LastRow(sql, rows, 0, i) = rows[i]
      <4>1. \A k \in 1..0 : FALSE
        OBVIOUS
      <4>2. 0 \in Nat
        OBVIOUS
      <4> QED  BY <4>1, <4>2, LastNone
    <3>2. Len(sql) = 0
      BY <2>2
    <3> QED  BY <3>1, <3>2, DrainedIs DEF At
  <2>4. NothingForgotten
    BY <2>2, <2>3 DEF NothingForgotten
  <2>5. Known
    BY <2>2, Places DEF Known, KnownOf, Live
  <2>6. Roster /\ Stale
    BY <2>2 DEF Roster, Stale
  <2>7. Asking
    <3>1. Len(sql) = 0 /\ Len(results) = 0
      BY <2>2
    <3> QED  BY <3>1 DEF Asking
  <2>8. LoadSeesLatest
    BY <2>2 DEF LoadSeesLatest
  <2> QED  BY <2>1, <2>4, <2>5, <2>6, <2>7, <2>8 DEF Whole, Safe
<1>2. ASSUME Whole, LoadSeesLatest, [Next]_vars PROVE Whole' /\ LoadSeesLatest'
  <2>0. IInv /\ NothingForgotten /\ Safe /\ IInv'
    BY <1>2, Inductive DEF Whole
  <2>1. CASE UNCHANGED vars
    <3>1. \A i : Drained(i)' = Drained(i)
      BY <2>1 DEF Drained, vars, database
    <3>2. NothingForgotten'
      BY <2>0, <2>1, <3>1 DEF NothingForgotten, vars, core
    <3>3. LoadSeesLatest'
      BY <1>2, <2>1 DEF LoadSeesLatest, Held, vars
    <3>4. ASSUME up PROVE Known' /\ Roster' /\ Stale' /\ Asking'
      <4>1. Known /\ Roster /\ Stale /\ Asking
        BY <2>0, <3>4 DEF Safe
      <4>2. Known' /\ Roster'
        BY <2>1, <4>1, KnownSession DEF Roster, vars, core, game
      <4>3. Stale'
        BY <2>1, <3>1, <4>1 DEF Stale, vars, core
      <4>4. Asking'
        <5>1. \A w : Waiting(w) => Waiting(w)'
          BY <2>1 DEF Waiting, vars, game
        <5> QED  BY <2>0, <2>1, <4>1, <5>1, AskingSame, Parts DEF vars, database
      <4> QED  BY <4>2, <4>3, <4>4
    <3> QED  BY <2>0, <2>1, <3>2, <3>3, <3>4 DEF Whole, Safe, vars, core
  <2>2. CASE Execute
    BY <1>2, <2>0, <2>2, ExecuteTells DEF Whole
  <2>3. CASE Load \/ Play \/ Crash \/ Tick \/ Shutdown
    <3>1. up
      BY <2>3 DEF Load, Play, Crash, Tick, Shutdown, LoadFromSet, LoadFromRows, ItemLoad, BoxLoad,
                  BoxLoaded, Change, SaveSingleItem, Trade, Drop, Pickup, Destroy, BoxCheckin,
                  BoxCheckout, PlayerSave, Leave, UpdateItemCache, UpdateItemCacheSet, Expire, Room
    <3>2. Known /\ Roster /\ Stale /\ Asking
      BY <2>0, <3>1 DEF Safe
    <3>3. CASE Load
      BY <2>0, <3>2, <3>3, LoadTells DEF Whole, Safe
    <3>4. CASE Crash
      BY <2>0, <3>2, <3>4, CrashTells DEF Whole, Safe
    <3>5. CASE Play \/ Tick
      <4>1. NothingForgotten' /\ Known' /\ Roster' /\ Stale' /\ Asking'
        BY <2>0, <3>2, <3>5, PlayTells, TickTells
      <4>2. answer' = NoAnswer
        BY <3>5 DEF Play, Tick, Change, SaveSingleItem, Trade, Drop, Pickup, Destroy, BoxCheckin,
                    BoxCheckout, PlayerSave, Leave, UpdateItemCache, UpdateItemCacheSet, Expire, Quiet
      <4> QED  BY <2>0, <4>1, <4>2 DEF Whole, Safe, LoadSeesLatest
    <3>6. CASE Shutdown
      <4>1. answer' = NoAnswer
        BY <3>6 DEF Shutdown, Quiet
      <4> QED  BY <2>0, <3>6, <4>1, ShutdownTells DEF Whole, Safe, LoadSeesLatest
    <3> QED  BY <2>3, <3>3, <3>4, <3>5, <3>6
  <2> QED  BY <1>2, <2>1, <2>2, <2>3 DEF Next
<1> QED  BY <1>1, <1>2

-----------------------------------------------------------------------------
(* Theorems about the items.                                               *)

\* What the db core was last told of an item is in a cache that will be written
\* or on its way to the table, and after a shutdown on its way.
THEOREM NothingLost == Spec => []NothingForgotten
PROOF
<1>1. Whole /\ LoadSeesLatest => NothingForgotten
  BY DEF Whole
<1> QED  BY <1>1, WholeInductive, PTL DEF Spec

\* Every load, of a character from its set or from the table and of the safebox,
\* is answered with the items that are there, as they are.
THEOREM LoadsAreRight == Spec => []LoadSeesLatest
PROOF
<1>1. Whole /\ LoadSeesLatest => LoadSeesLatest
  OBVIOUS
<1> QED  BY <1>1, WholeInductive, PTL DEF Spec
=============================================================================
