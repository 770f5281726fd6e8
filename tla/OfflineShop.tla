---------------------------- MODULE OfflineShop ----------------------------
(***************************************************************************)
(* A bot's offline shop: the request journal of playerbot_offline_policy.h,*)
(* the bots' service visits and purchases (playerbot_offline_shop.h,       *)
(* playerbot_offline_market.h), the game core's mirror of the shops        *)
(* (ikarus_shop_manager.cpp) and the db core's own copy of them            *)
(* (ClientManagerIkarusShop.cpp, IkarusShopCache.cpp).                     *)
(*                                                                         *)
(* The core and the db core talk over one connection, in order both ways;  *)
(* each runs one handler at a time.  New lines, new shops and what goes to *)
(* a safebox pass through the db core's SQL thread first (AsyncSQL), and   *)
(* only the query's result puts them into its memory.                      *)
(*                                                                         *)
(* What is abstracted.  A price stands for itself, 0 for "no such line".   *)
(* Cells, names, fees and distances are left out, and so are the refusals  *)
(* of the core that only put a visit off (busy, too far, flood checks, the *)
(* ten seconds after an edit): a visit or a purchase may come at any time. *)
(* Edit mode opens and closes within one visit.  Every item handed over    *)
(* can be created (CreateItem finds its vnum).  A request that is done is  *)
(* erased at once, as the next tick's BotOfflinePoll does before anything  *)
(* else looks at it.  Whether a bag has room is the environment's choice.  *)
(***************************************************************************)
EXTENDS Integers, Sequences, FiniteSets, FiniteSetsExt

CONSTANTS
  Bots,      \* the characters of this core
  Owners,    \* those of them that keep shops
  Items,     \* item ids
  Prices,    \* the prices asked for an item
  Tax,       \* offline_shop_tax, in percent
  GoldMax,   \* GOLD_MAX: what no purse, price or shop's total may reach
  Purse,     \* the gold each has at the start
  Goods,     \* the items each carries at the start
  MaxFlight  \* bound: nobody asks for more while this much is in flight

None == 0    \* no item: the item of a Create

Lines == {f \in [Items -> {0} \cup UNION {Prices[i] : i \in Items}] :
            \A i \in Items : f[i] \in {0} \cup Prices[i]}
NoLines == [i \in Items |-> 0]
NoRequest == <<"none", None>>

ASSUME ItemsAssumption == Items \subseteq Nat \ {None} /\ IsFiniteSet(Items)
ASSUME BotsAssumption == Owners \subseteq Bots /\ IsFiniteSet(Bots)
ASSUME PriceAssumption ==
  Prices \in [Items -> SUBSET (Nat \ {0})] /\ Tax \in 0..99
ASSUME BoundsAssumption == GoldMax \in Nat /\ MaxFlight \in Nat
ASSUME StartAssumption ==
  /\ Purse \in [Bots -> Nat] /\ Goods \in [Bots -> SUBSET Items]
  /\ \A a, b \in Bots : a # b => Goods[a] \cap Goods[b] = {}

VARIABLES
  world,            \* of each bot: "out", "asked", "loaded" or "in"
  bag, gold,        \* what it carries
  req,              \* playerbot_offline::requests: <<op, item>>
  cst, cprice,      \* the core's m_mapShops: "none", "closed" or "open"; lines
  cbox, cyang,      \* the core's m_mapSafeboxs: items and yang
  dst, dprice,      \* the db core's m_shopsMap
  locked,           \* its lines with TShopCacheItemInfo::lock, <<owner, item>>
  dbox, dheld,      \* its m_safeboxMap: itemsmap and lockedmap
  dyang,            \* and valutes
  toDb, toCore,     \* packets in flight
  sql               \* ReturnQuery results still to come

people == <<world, bag, gold, req>>
core   == <<cst, cprice, cbox, cyang>>
dshops == <<dst, dprice, locked>>
dboxes == <<dbox, dheld, dyang>>
vars   == <<people, core, dshops, dboxes, toDb, toCore, sql>>

-----------------------------------------------------------------------------
(* The journal and the wires.                                              *)

Begin(b, op, i) == req' = [req EXCEPT ![b] = <<op, i>>]
\* Only the request it answers is completed.
Complete(b, op, i) ==
  req' = IF req[b] = <<op, i>> THEN [req EXCEPT ![b] = NoRequest] ELSE req

ToDb(ms) == toDb' = toDb \o ms
ToCore(ms) == toCore' = toCore \o ms
AtDb(op) == toDb # <<>> /\ Head(toDb).op = op
AtCore(op) == toCore # <<>> /\ Head(toCore).op = op
TakenByDb == toDb' = Tail(toDb)
TakenByCore == toCore' = Tail(toCore)

Room == Len(toDb) + Len(toCore) + Len(sql) < MaxFlight

Free(b) == Room /\ world[b] = "in" /\ req[b] = NoRequest

-----------------------------------------------------------------------------
(* The owners: SubmitPlayerBotOfflineShop and ManagePlayerBotOfflineService.*)

\* What a shop with these lines asks for altogether.
Total(lines) == MapThenSumSet(LAMBDA i : lines[i], Items)

\* A new shop: the goods leave the bag before the packet does.
Submit(o, offer) ==
  /\ Free(o) /\ cst[o] = "none" /\ offer # NoLines
  /\ \A i \in Items : offer[i] > 0 => i \in bag[o]
  /\ gold[o] + Total(offer) < GoldMax
  /\ Begin(o, "create", None)
  /\ bag' = [bag EXCEPT ![o] = {i \in @ : offer[i] = 0}]
  /\ ToDb(<<[op |-> "create", owner |-> o, lines |-> offer]>>)
  /\ UNCHANGED <<world, gold, core, dshops, dboxes, toCore, sql>>

\* Every visit takes the proceeds first, as much of them as the purse holds.
Claimable(o) ==
  IF gold[o] + cyang[o] < GoldMax THEN cyang[o]
  ELSE IF gold[o] < GoldMax THEN GoldMax - 1 - gold[o] ELSE 0
Claim(o) ==
  IF Claimable(o) > 0 THEN <<[op |-> "getyang", owner |-> o, yang |-> Claimable(o)]>> ELSE <<>>
\* Mutant: they stay on show.
TakeProceedsKeeping(o) ==
  /\ gold' = [gold EXCEPT ![o] = @ + Claimable(o)]
  /\ UNCHANGED cyang
TakeProceeds(o) ==
  /\ gold' = [gold EXCEPT ![o] = @ + Claimable(o)]
  /\ cyang' = [cyang EXCEPT ![o] = @ - Claimable(o)]

\* A visit comes at any time after the last request is done: after ten minutes
\* as a rule, but at once when the keeper's hand is empty.
Visit(o, op, i, m) ==
  /\ Free(o) /\ TakeProceeds(o)
  /\ Begin(o, op, i)
  /\ ToDb(Claim(o) \o <<m>>)
  /\ UNCHANGED <<world, cst, cprice, cbox, dshops, dboxes, toCore, sql>>

VisitReopen(o) ==
  /\ cst[o] = "closed" /\ cprice[o] # NoLines
  /\ Visit(o, "create", None, [op |-> "create", owner |-> o, lines |-> NoLines])
  /\ UNCHANGED bag

VisitAdd(o, i, p) ==
  /\ cst[o] = "open" /\ i \in bag[o] /\ Total(cprice[o]) + p < GoldMax
  /\ Visit(o, "add", i, [op |-> "add", owner |-> o, item |-> i, price |-> p])
  /\ bag' = [bag EXCEPT ![o] = @ \ {i}]

VisitEdit(o, i, p) ==
  /\ cst[o] = "open" /\ cprice[o][i] > 0 /\ cprice[o][i] # p /\ p < GoldMax
  /\ Visit(o, "edit", i, [op |-> "edit", owner |-> o, item |-> i, price |-> p])
  /\ UNCHANGED bag

VisitRemove(o, i) ==
  /\ cst[o] # "none" /\ cprice[o][i] > 0
  /\ Visit(o, "remove", i, [op |-> "remove", owner |-> o, item |-> i])
  /\ UNCHANGED bag

\* Without a shop the visit is to the safebox.
VisitWithdraw(b, i) ==
  /\ cst[b] = "none" /\ i \in cbox[b]
  /\ Visit(b, "withdraw", i, [op |-> "getitem", owner |-> b, item |-> i])
  /\ UNCHANGED bag

VisitProceeds(o) ==
  /\ Free(o) /\ cyang[o] > 0
  /\ TakeProceeds(o) /\ ToDb(Claim(o))
  /\ UNCHANGED <<world, bag, req, cst, cprice, cbox, dshops, dboxes, toCore, sql>>

-----------------------------------------------------------------------------
(* The buyers: ManagePlayerBotOfflineShopping.                             *)

Buy(b, o, i) ==
  /\ Free(b) /\ o # b /\ cst[o] = "open"
  /\ cprice[o][i] > 0 /\ cprice[o][i] <= gold[b]
  /\ Begin(b, "buy", i)
  /\ ToDb(<<[op |-> "lock", who |-> b, owner |-> o, item |-> i, seen |-> cprice[o][i]]>>)
  /\ UNCHANGED <<world, bag, gold, core, dshops, dboxes, toCore, sql>>

-----------------------------------------------------------------------------
(* Bots come and go (PlayerbotLifecycle), whatever they have asked for.    *)

Leave(b) ==
  /\ world[b] = "in" /\ world' = [world EXCEPT ![b] = "out"]
  /\ UNCHANGED <<bag, gold, req, core, dshops, dboxes, toDb, toCore, sql>>

\* QUERY_PLAYER_LOAD ends in IkarusShopLoadShopSafebox.
AskIn(b) ==
  /\ Room /\ world[b] = "out" /\ world' = [world EXCEPT ![b] = "asked"]
  /\ ToDb(<<[op |-> "loadbox", owner |-> b]>>)
  /\ UNCHANGED <<bag, gold, req, core, dshops, dboxes, toCore, sql>>

Enter(b) ==
  /\ world[b] = "loaded" /\ world' = [world EXCEPT ![b] = "in"]
  /\ UNCHANGED <<bag, gold, req, core, dshops, dboxes, toDb, toCore, sql>>

-----------------------------------------------------------------------------
(* The db core.                                                            *)

\* CreateShop: refused while the owner's shop is open.
DbCreate ==
  /\ AtDb("create") /\ TakenByDb
  /\ sql' = IF dst[Head(toDb).owner] = "open" THEN sql ELSE Append(sql, Head(toDb))
  /\ UNCHANGED <<people, core, dshops, dboxes, toCore>>

\* CShopCache::AddItem: nothing is answered before the query's result.
DbAdd ==
  /\ AtDb("add") /\ TakenByDb
  /\ sql' = IF dst[Head(toDb).owner] = "none" THEN sql ELSE Append(sql, Head(toDb))
  /\ UNCHANGED <<people, core, dshops, dboxes, toCore>>

HasLine(o, i) == dst[o] # "none" /\ dprice[o][i] > 0

Repriced(m) == [dprice EXCEPT ![m.owner] = [@ EXCEPT ![m.item] = m.price]]
\* What EditItem wants of a line, but for the lock: that the shop stays within
\* GOLD_MAX.
Editable(m) == HasLine(m.owner, m.item) /\ Total(Repriced(m)[m.owner]) <= GoldMax

\* Mutant: the lock is not looked at.
DbEditLocked ==
  /\ AtDb("edit") /\ TakenByDb
  /\ LET m == Head(toDb)
         taken == Editable(m)
     IN  /\ dprice' = IF taken THEN Repriced(m) ELSE dprice
         /\ ToCore(IF taken THEN <<[op |-> "edited", owner |-> m.owner, item |-> m.item,
                                    price |-> m.price]>>
                   ELSE <<>>)
  /\ UNCHANGED <<people, core, dst, locked, dboxes, sql>>

\* Mutant: the answer goes out whether or not EditItem agreed.
DbEditAnswered ==
  /\ AtDb("edit") /\ TakenByDb
  /\ LET m == Head(toDb)
         taken == Editable(m) /\ <<m.owner, m.item>> \notin locked
     IN  /\ dprice' = IF taken THEN Repriced(m) ELSE dprice
         /\ ToCore(<<[op |-> "edited", owner |-> m.owner, item |-> m.item, price |-> m.price]>>)
  /\ UNCHANGED <<people, core, dst, locked, dboxes, sql>>

\* A line somebody is buying is not edited, and nothing is answered then, nor
\* when the shop would be too dear.
DbEdit ==
  /\ AtDb("edit") /\ TakenByDb
  /\ LET m == Head(toDb)
         taken == Editable(m) /\ <<m.owner, m.item>> \notin locked
     IN  /\ dprice' = IF taken THEN Repriced(m) ELSE dprice
         /\ ToCore(IF taken THEN <<[op |-> "edited", owner |-> m.owner, item |-> m.item,
                                    price |-> m.price]>>
                   ELSE <<>>)
  /\ UNCHANGED <<people, core, dst, locked, dboxes, sql>>

\* Mutant: the lock is not looked at.
DbRemoveLocked ==
  /\ AtDb("remove") /\ TakenByDb
  /\ LET m == Head(toDb)
         taken == HasLine(m.owner, m.item)
     IN  /\ dprice' = IF taken THEN [dprice EXCEPT ![m.owner] = [@ EXCEPT ![m.item] = 0]]
                      ELSE dprice
         /\ ToCore(IF taken THEN <<[op |-> "removed", owner |-> m.owner, item |-> m.item]>>
                   ELSE <<>>)
  /\ UNCHANGED <<people, core, dst, locked, dboxes, sql>>

\* Nor is it removed.
DbRemove ==
  /\ AtDb("remove") /\ TakenByDb
  /\ LET m == Head(toDb)
         taken == HasLine(m.owner, m.item) /\ <<m.owner, m.item>> \notin locked
     IN  /\ dprice' = IF taken THEN [dprice EXCEPT ![m.owner] = [@ EXCEPT ![m.item] = 0]]
                      ELSE dprice
         /\ ToCore(IF taken THEN <<[op |-> "removed", owner |-> m.owner, item |-> m.item]>>
                   ELSE <<>>)
  /\ UNCHANGED <<people, core, dst, locked, dboxes, sql>>

\* What LockSellItem wants of a line.  Mutant: not that nobody else has it.
MayLockTwice(m) == HasLine(m.owner, m.item) /\ dprice[m.owner][m.item] = m.seen
MayLock(m) ==
  /\ HasLine(m.owner, m.item) /\ <<m.owner, m.item>> \notin locked
  /\ dprice[m.owner][m.item] = m.seen

DbLock ==
  /\ AtDb("lock") /\ TakenByDb
  /\ LET m == Head(toDb)
     IN  /\ locked' = IF MayLock(m) THEN locked \cup {<<m.owner, m.item>>} ELSE locked
         /\ ToCore(<<[op |-> IF MayLock(m) THEN "locked" ELSE "refused",
                      who |-> m.who, owner |-> m.owner, item |-> m.item]>>)
  /\ UNCHANGED <<people, core, dst, dprice, dboxes, sql>>

Taxed(p) == p - (p * Tax) \div 100

\* The buyer has paid, or could not.
DbBuy ==
  /\ AtDb("buy") /\ TakenByDb
  /\ LET m == Head(toDb)
         line == <<m.owner, m.item>>
         yang == Taxed(dprice[m.owner][m.item])
     IN  \/ /\ ~HasLine(m.owner, m.item)
            /\ UNCHANGED <<dprice, locked, dyang, toCore>>
         \/ /\ HasLine(m.owner, m.item) /\ ~m.success
            /\ locked' = locked \ {line}
            /\ UNCHANGED <<dprice, dyang, toCore>>
         \/ /\ HasLine(m.owner, m.item) /\ m.success
            /\ dyang' = [dyang EXCEPT ![m.owner] = @ + yang]
            /\ ToCore(<<[op |-> "yang", owner |-> m.owner, yang |-> yang],
                        [op |-> "sold", who |-> m.who, owner |-> m.owner, item |-> m.item]>>)
            /\ IF line \in locked
               THEN /\ dprice' = [dprice EXCEPT ![m.owner] = [@ EXCEPT ![m.item] = 0]]
                    /\ locked' = locked \ {line}
               ELSE UNCHANGED <<dprice, locked>>
  /\ UNCHANGED <<people, core, dst, dbox, dheld, sql>>

\* Mutant: whatever is on it.
DbHardCloseAnyway ==
  /\ AtDb("hardclose") /\ TakenByDb
  /\ LET o == Head(toDb).owner
     IN  /\ dst' = [dst EXCEPT ![o] = "none"]
         /\ dprice' = [dprice EXCEPT ![o] = NoLines]
         /\ ToCore(IF dst[o] # "none" THEN <<[op |-> "closed", owner |-> o]>> ELSE <<>>)
  /\ UNCHANGED <<people, core, locked, dboxes, sql>>

\* Only an empty shop is closed for good.
DbHardClose ==
  /\ AtDb("hardclose") /\ TakenByDb
  /\ LET o == Head(toDb).owner
         taken == dst[o] # "none" /\ dprice[o] = NoLines
     IN  /\ dst' = IF taken THEN [dst EXCEPT ![o] = "none"] ELSE dst
         /\ ToCore(IF taken THEN <<[op |-> "closed", owner |-> o]>> ELSE <<>>)
  /\ UNCHANGED <<people, core, dprice, locked, dboxes, sql>>

\* A shop's time is over.  It stays, with what is on it.
Expire(o) ==
  /\ Room /\ dst[o] = "open"
  /\ dst' = [dst EXCEPT ![o] = "closed"]
  /\ ToCore(<<[op |-> "expired", owner |-> o]>>)
  /\ UNCHANGED <<people, core, dprice, locked, dboxes, toDb, sql>>

DbGetYang ==
  /\ AtDb("getyang") /\ TakenByDb
  /\ dyang' = [dyang EXCEPT ![Head(toDb).owner] = @ - Head(toDb).yang]
  /\ UNCHANGED <<people, core, dshops, dbox, dheld, toCore, sql>>

\* Mutant: the item stays in itemsmap as well.
DbGetItemKeeping ==
  /\ AtDb("getitem") /\ TakenByDb
  /\ LET m == Head(toDb)
         taken == m.item \in dbox[m.owner]
     IN  /\ UNCHANGED dbox
         /\ dheld' = IF taken THEN [dheld EXCEPT ![m.owner] = @ \cup {m.item}] ELSE dheld
         /\ ToCore(IF taken THEN <<[op |-> "confirm", owner |-> m.owner, item |-> m.item]>>
                   ELSE <<>>)
  /\ UNCHANGED <<people, core, dshops, dyang, sql>>

\* CSafeboxCache::LockItem.
DbGetItem ==
  /\ AtDb("getitem") /\ TakenByDb
  /\ LET m == Head(toDb)
         taken == m.item \in dbox[m.owner]
     IN  /\ dbox' = [dbox EXCEPT ![m.owner] = @ \ {m.item}]
         /\ dheld' = IF taken THEN [dheld EXCEPT ![m.owner] = @ \cup {m.item}] ELSE dheld
         /\ ToCore(IF taken THEN <<[op |-> "confirm", owner |-> m.owner, item |-> m.item]>>
                   ELSE <<>>)
  /\ UNCHANGED <<people, core, dshops, dyang, sql>>

\* RemoveLockedItem or UnlockItem.
DbFeedback ==
  /\ AtDb("feedback") /\ TakenByDb
  /\ LET m == Head(toDb)
         back == m.item \in dheld[m.owner] /\ ~m.success
     IN  /\ dheld' = [dheld EXCEPT ![m.owner] = @ \ {m.item}]
         /\ dbox' = IF back THEN [dbox EXCEPT ![m.owner] = @ \cup {m.item}] ELSE dbox
  /\ UNCHANGED <<people, core, dshops, dyang, toCore, sql>>

DbBoxAdd ==
  /\ AtDb("boxadd") /\ TakenByDb
  /\ sql' = Append(sql, Head(toDb))
  /\ UNCHANGED <<people, core, dshops, dboxes, toCore>>

DbLoadBox ==
  /\ AtDb("loadbox") /\ TakenByDb
  /\ LET b == Head(toDb).owner
     IN  ToCore(<<[op |-> "box", owner |-> b, items |-> dbox[b], yang |-> dyang[b]]>>)
  /\ UNCHANGED <<people, core, dshops, dboxes, sql>>

-----------------------------------------------------------------------------
(* Results of the db core's queries, in order.                             *)

AtSql(op) == sql # <<>> /\ Head(sql).op = op

\* PutItem.
Put(o, i, p) ==
  dprice' = IF dst[o] # "none" /\ dprice[o][i] = 0
            THEN [dprice EXCEPT ![o] = [@ EXCEPT ![i] = p]] ELSE dprice

\* The cores hear of the new shop and its lines before the lines are stored.
CreateDone ==
  /\ AtSql("create")
  /\ LET m == Head(sql)
     IN  /\ dst' = [dst EXCEPT ![m.owner] = "open"]
         /\ sql' = IF m.lines = NoLines THEN Tail(sql)
                   ELSE Append(Tail(sql), [m EXCEPT !.op = "put"])
         /\ ToCore(<<[op |-> "created", owner |-> m.owner, lines |-> m.lines]>>)
  /\ UNCHANGED <<people, core, dprice, locked, dboxes, toDb>>

\* The results for the lines come one by one.
PutDone ==
  /\ AtSql("put")
  /\ LET m == Head(sql)
     IN  \E i \in Items :
           LET rest == [m.lines EXCEPT ![i] = 0]
           IN  /\ m.lines[i] > 0
               /\ Put(m.owner, i, m.lines[i])
               /\ sql' = IF rest = NoLines THEN Tail(sql)
                         ELSE <<[m EXCEPT !.lines = rest]>> \o Tail(sql)
  /\ UNCHANGED <<people, core, dst, locked, dboxes, toDb, toCore>>

AddDone ==
  /\ AtSql("add") /\ sql' = Tail(sql)
  /\ LET m == Head(sql)
     IN  /\ Put(m.owner, m.item, m.price)
         /\ ToCore(<<[op |-> "added", owner |-> m.owner, item |-> m.item, price |-> m.price]>>)
  /\ UNCHANGED <<people, core, dst, locked, dboxes, toDb>>

BoxAddDone ==
  /\ AtSql("boxadd") /\ sql' = Tail(sql)
  /\ LET m == Head(sql)
     IN  /\ dbox' = [dbox EXCEPT ![m.owner] = @ \cup {m.item}]
         /\ ToCore(<<[op |-> "boxed", owner |-> m.owner, item |-> m.item]>>)
  /\ UNCHANGED <<people, core, dshops, dheld, dyang, toDb>>

-----------------------------------------------------------------------------
(* The core: CShopManager's Recv...DBPacket handlers.                      *)

\* A new shop, or one that was closed: its lines stay and new ones join.
CoreCreated ==
  /\ AtCore("created") /\ TakenByCore
  /\ LET m == Head(toCore)
     IN  /\ cst' = [cst EXCEPT ![m.owner] = "open"]
         /\ cprice' = [cprice EXCEPT ![m.owner] =
                         [i \in Items |-> IF m.lines[i] > 0 THEN m.lines[i] ELSE @[i]]]
         /\ Complete(m.owner, "create", None)
  /\ UNCHANGED <<world, bag, gold, cbox, cyang, dshops, dboxes, toDb, sql>>

\* A line of no shop is dropped, and its request never completes.
CoreAdded ==
  /\ AtCore("added") /\ TakenByCore
  /\ LET m == Head(toCore)
     IN  IF cst[m.owner] = "none"
         THEN UNCHANGED <<cprice, req>>
         ELSE /\ cprice' = [cprice EXCEPT ![m.owner] = [@ EXCEPT ![m.item] = m.price]]
              /\ Complete(m.owner, "add", m.item)
  /\ UNCHANGED <<world, bag, gold, cst, cbox, cyang, dshops, dboxes, toDb, sql>>

CoreEdited ==
  /\ AtCore("edited") /\ TakenByCore
  /\ LET m == Head(toCore)
     IN  IF cst[m.owner] = "none"
         THEN UNCHANGED <<cprice, req>>
         ELSE /\ cprice' = IF cprice[m.owner][m.item] > 0
                           THEN [cprice EXCEPT ![m.owner] = [@ EXCEPT ![m.item] = m.price]]
                           ELSE cprice
              /\ Complete(m.owner, "edit", m.item)
  /\ UNCHANGED <<world, bag, gold, cst, cbox, cyang, dshops, dboxes, toDb, sql>>

OnMirror(m) == cst[m.owner] # "none" /\ cprice[m.owner][m.item] > 0
Without(m) == [cprice EXCEPT ![m.owner] = [@ EXCEPT ![m.item] = 0]]
CloseIfEmpty(m) ==
  IF Without(m)[m.owner] = NoLines THEN <<[op |-> "hardclose", owner |-> m.owner]>> ELSE <<>>
Boxed(b, i) == <<[op |-> "boxadd", owner |-> b, item |-> i]>>
Given(b, i) == [bag EXCEPT ![b] = @ \cup {i}]

\* Back to its owner: into the bag, or the safebox if it is not there or full.
CoreRemoved(room) ==
  /\ AtCore("removed") /\ TakenByCore
  /\ LET m == Head(toCore)
         taken == world[m.owner] = "in" /\ room
     IN  IF OnMirror(m)
         THEN /\ cprice' = Without(m)
              /\ bag' = IF taken THEN Given(m.owner, m.item) ELSE bag
              /\ ToDb((IF taken THEN <<>> ELSE Boxed(m.owner, m.item)) \o CloseIfEmpty(m))
              /\ Complete(m.owner, "remove", m.item)
         ELSE UNCHANGED <<cprice, bag, req, toDb>>
  /\ UNCHANGED <<world, gold, cst, cbox, cyang, dshops, dboxes, sql>>

CoreRefused ==
  /\ AtCore("refused") /\ TakenByCore
  /\ Complete(Head(toCore).who, "buy", Head(toCore).item)
  /\ UNCHANGED <<world, bag, gold, core, dshops, dboxes, toDb, sql>>

\* The buyer pays the price its own core shows, if it still can.
CanPay(m) ==
  /\ world[m.who] = "in" /\ OnMirror(m)
  /\ cprice[m.owner][m.item] <= gold[m.who]

\* Mutant: who is gone gives no feedback.
CoreLockedSilent ==
  /\ AtCore("locked") /\ TakenByCore
  /\ LET m == Head(toCore)
         pays == CanPay(m)
     IN  /\ gold' = IF pays THEN [gold EXCEPT ![m.who] = @ - cprice[m.owner][m.item]] ELSE gold
         /\ ToDb(IF world[m.who] = "in"
                 THEN <<[op |-> "buy", who |-> m.who, owner |-> m.owner, item |-> m.item,
                         success |-> pays]>>
                 ELSE <<>>)
         /\ IF pays THEN UNCHANGED req ELSE Complete(m.who, "buy", m.item)
  /\ UNCHANGED <<world, bag, core, dshops, dboxes, sql>>

CoreLocked ==
  /\ AtCore("locked") /\ TakenByCore
  /\ LET m == Head(toCore)
         pays == CanPay(m)
     IN  /\ gold' = IF pays THEN [gold EXCEPT ![m.who] = @ - cprice[m.owner][m.item]] ELSE gold
         /\ ToDb(<<[op |-> "buy", who |-> m.who, owner |-> m.owner, item |-> m.item,
                    success |-> pays]>>)
         /\ IF pays THEN UNCHANGED req ELSE Complete(m.who, "buy", m.item)
  /\ UNCHANGED <<world, bag, core, dshops, dboxes, sql>>

\* The goods: into the buyer's bag or safebox; a buyer who has left gets none.
CoreSold(room) ==
  /\ AtCore("sold") /\ TakenByCore
  /\ LET m == Head(toCore)
         here == world[m.who] = "in"
     IN  IF OnMirror(m)
         THEN /\ cprice' = Without(m)
              /\ bag' = IF here /\ room THEN Given(m.who, m.item) ELSE bag
              /\ ToDb((IF here /\ ~room THEN Boxed(m.who, m.item) ELSE <<>>) \o CloseIfEmpty(m))
              /\ Complete(m.who, "buy", m.item)
         ELSE UNCHANGED <<cprice, bag, req, toDb>>
  /\ UNCHANGED <<world, gold, cst, cbox, cyang, dshops, dboxes, sql>>

CoreYang ==
  /\ AtCore("yang") /\ TakenByCore
  /\ cyang' = [cyang EXCEPT ![Head(toCore).owner] = @ + Head(toCore).yang]
  /\ UNCHANGED <<people, cst, cprice, cbox, dshops, dboxes, toDb, sql>>

CoreClosed ==
  /\ AtCore("closed") /\ TakenByCore
  /\ cst' = [cst EXCEPT ![Head(toCore).owner] = "none"]
  /\ cprice' = [cprice EXCEPT ![Head(toCore).owner] = NoLines]
  /\ UNCHANGED <<people, cbox, cyang, dshops, dboxes, toDb, sql>>

CoreExpired ==
  /\ AtCore("expired") /\ TakenByCore
  /\ cst' = [cst EXCEPT ![Head(toCore).owner] = IF @ = "none" THEN @ ELSE "closed"]
  /\ UNCHANGED <<people, cprice, cbox, cyang, dshops, dboxes, toDb, sql>>

CoreBoxed ==
  /\ AtCore("boxed") /\ TakenByCore
  /\ cbox' = [cbox EXCEPT ![Head(toCore).owner] = @ \cup {Head(toCore).item}]
  /\ UNCHANGED <<people, cst, cprice, cyang, dshops, dboxes, toDb, sql>>

\* RecvShopSafeboxGetItemConfirm.
CoreConfirm(room) ==
  /\ AtCore("confirm") /\ TakenByCore
  /\ LET m == Head(toCore)
         taken == m.item \in cbox[m.owner] /\ world[m.owner] = "in" /\ room
     IN  /\ bag' = IF taken THEN Given(m.owner, m.item) ELSE bag
         /\ cbox' = IF taken THEN [cbox EXCEPT ![m.owner] = @ \ {m.item}] ELSE cbox
         /\ ToDb(<<[op |-> "feedback", owner |-> m.owner, item |-> m.item, success |-> taken]>>)
         /\ Complete(m.owner, "withdraw", m.item)
  /\ UNCHANGED <<world, gold, cst, cprice, cyang, dshops, dboxes, sql>>

\* The safebox as the db core has it replaces the core's copy; the character's
\* own data is in the same answer, or follows it.
CoreBox ==
  /\ AtCore("box") /\ TakenByCore
  /\ LET m == Head(toCore)
     IN  /\ cbox' = [cbox EXCEPT ![m.owner] = m.items]
         /\ cyang' = [cyang EXCEPT ![m.owner] = m.yang]
         /\ world' = [world EXCEPT ![m.owner] = "loaded"]
  /\ UNCHANGED <<bag, gold, req, cst, cprice, dshops, dboxes, toDb, sql>>

-----------------------------------------------------------------------------
Init ==
  /\ world = [b \in Bots |-> "in"] /\ bag = Goods /\ gold = Purse
  /\ req = [b \in Bots |-> NoRequest]
  /\ cst = [b \in Bots |-> "none"] /\ cprice = [b \in Bots |-> NoLines]
  /\ cbox = [b \in Bots |-> {}] /\ cyang = [b \in Bots |-> 0]
  /\ dst = [b \in Bots |-> "none"] /\ dprice = [b \in Bots |-> NoLines] /\ locked = {}
  /\ dbox = [b \in Bots |-> {}] /\ dheld = [b \in Bots |-> {}] /\ dyang = [b \in Bots |-> 0]
  /\ toDb = <<>> /\ toCore = <<>> /\ sql = <<>>

Trade ==
  \/ \E o \in Owners, offer \in Lines : Submit(o, offer)
  \/ \E o \in Owners : VisitReopen(o)
  \/ \E o \in Owners, i \in Items : \E p \in Prices[i] : VisitAdd(o, i, p) \/ VisitEdit(o, i, p)
  \/ \E o \in Owners, i \in Items : VisitRemove(o, i)
  \/ \E b \in Bots : VisitProceeds(b)
  \/ \E b \in Bots, i \in Items : VisitWithdraw(b, i)
  \/ \E b \in Bots, o \in Owners, i \in Items : Buy(b, o, i)

Journeys == \E b \in Bots : Leave(b) \/ AskIn(b) \/ Enter(b)

DbCore ==
  \/ DbCreate \/ DbAdd \/ DbEdit \/ DbRemove \/ DbLock \/ DbBuy \/ DbHardClose
  \/ DbGetYang \/ DbGetItem \/ DbFeedback \/ DbBoxAdd \/ DbLoadBox
SqlResult == CreateDone \/ PutDone \/ AddDone \/ BoxAddDone
Core ==
  \/ CoreCreated \/ CoreAdded \/ CoreEdited \/ CoreRefused \/ CoreLocked \/ CoreYang
  \/ CoreClosed \/ CoreExpired \/ CoreBoxed \/ CoreBox
  \/ \E room \in BOOLEAN : CoreRemoved(room) \/ CoreSold(room) \/ CoreConfirm(room)

Next == Trade \/ Journeys \/ DbCore \/ SqlResult \/ Core \/ \E o \in Owners : Expire(o)

Spec == Init /\ [][Next]_vars

-----------------------------------------------------------------------------
(* Properties.                                                             *)

Ops == {"none", "create", "add", "edit", "remove", "withdraw", "buy"}

\* What the core asks, what the db core queries, what it answers.
Named(ops) == [op : ops, owner : Bots, item : Items]
Shopping(ops) == [op : ops, who : Bots, owner : Bots, item : Items]
Priced(ops) == [op : ops, owner : Bots, item : Items, price : Nat \ {0}]
Stocking(ops) == [op : ops, owner : Bots, lines : [Items -> Nat]]
Paid(ops) == [op : ops, owner : Bots, yang : Int]
Requests ==
  Stocking({"create"}) \cup Priced({"add", "edit"}) \cup Named({"remove", "getitem", "boxadd"})
  \cup Paid({"getyang"}) \cup [op : {"hardclose", "loadbox"}, owner : Bots]
  \cup [op : {"lock"}, who : Bots, owner : Bots, item : Items, seen : Nat]
  \cup [op : {"buy"}, who : Bots, owner : Bots, item : Items, success : BOOLEAN]
  \cup [op : {"feedback"}, owner : Bots, item : Items, success : BOOLEAN]
Queries == Stocking({"create", "put"}) \cup Priced({"add"}) \cup Named({"boxadd"})
Answers ==
  Stocking({"created"}) \cup Priced({"added", "edited"}) \cup Named({"removed", "boxed", "confirm"})
  \cup Shopping({"locked", "refused", "sold"}) \cup Paid({"yang"})
  \cup [op : {"closed", "expired"}, owner : Bots]
  \cup [op : {"box"}, owner : Bots, items : SUBSET Items, yang : Int]

PeopleOK ==
  /\ world \in [Bots -> {"out", "asked", "loaded", "in"}]
  /\ bag \in [Bots -> SUBSET Items] /\ gold \in [Bots -> Int]
  /\ req \in [Bots -> Ops \X (Items \cup {None})]
MirrorOK ==
  /\ cst \in [Bots -> {"none", "closed", "open"}] /\ cprice \in [Bots -> [Items -> Nat]]
  /\ cbox \in [Bots -> SUBSET Items] /\ cyang \in [Bots -> Int]
ShopsOK ==
  /\ dst \in [Bots -> {"none", "closed", "open"}] /\ dprice \in [Bots -> [Items -> Nat]]
  /\ locked \subseteq Bots \X Items
BoxesOK ==
  /\ dbox \in [Bots -> SUBSET Items] /\ dheld \in [Bots -> SUBSET Items]
  /\ dyang \in [Bots -> Int]
WiresOK == toDb \in Seq(Requests) /\ toCore \in Seq(Answers) /\ sql \in Seq(Queries)
LockedOnSale == \A line \in locked : HasLine(line[1], line[2])

\* Every variable keeps its type, and what is locked for a buyer is on sale:
\* no edit, removal or closing takes a line away from under its buyer.
TypeOK == PeopleOK /\ MirrorOK /\ ShopsOK /\ BoxesOK /\ WiresOK /\ LockedOnSale

\* Whoever reprices a line while it is locked, the price holds until its buyer
\* has paid or gone: the db core credits the price it agreed to.
PriceHolds ==
  [][\A line \in locked \cap locked' :
       dprice'[line[1]][line[2]] = dprice[line[1]][line[2]]]_vars

\* Nobody spends what is not there, and the db core never takes more out of a
\* safebox than is in it (TValutesInfo's -= does not look), although the core's
\* copy of the box can be replaced while the proceeds are being taken.
NeverOverdrawn == \A b \in Bots : gold[b] >= 0 /\ cyang[b] >= 0 /\ dyang[b] >= 0

InFlight(q, ops, i) ==
  {n \in 1..Len(q) : q[n].op \in ops /\ (IF q[n].op \in {"create", "put"} THEN q[n].lines[i] > 0
                                         ELSE q[n].item = i)}
HandedOver(b, i) ==
  \E n \in 1..Len(toDb) : /\ toDb[n].op = "feedback" /\ toDb[n].success
                          /\ toDb[n].owner = b /\ toDb[n].item = i

\* How many bags, shops, safeboxes and packets hold an item.
Copies(i) ==
  Cardinality({b \in Bots : i \in bag[b]})
  + Cardinality({o \in Bots : dprice[o][i] > 0})
  + Cardinality({b \in Bots : i \in dbox[b]})
  + Cardinality({b \in Bots : i \in dheld[b] /\ ~HandedOver(b, i)})
  + Cardinality(InFlight(toDb, {"create", "add", "boxadd"}, i))
  + Cardinality(InFlight(sql, {"create", "put", "add", "boxadd"}, i))
  + Cardinality(InFlight(toCore, {"removed", "sold"}, i))

\* An item is never in two places: whatever crosses on the wire, nothing that
\* is sold, taken off, put away or withdrawn stays where it was as well.
NeverTwice == \A i \in Items : Copies(i) <= 1

\* An item disappears in two ways only: its buyer has paid and left before the
\* answer came, or its owner put it on a counter whose last line was sold
\* meanwhile and which the db core has closed for good.
BuyerGone(i) == AtCore("sold") /\ Head(toCore).item = i /\ world[Head(toCore).who] # "in"
CounterGone(i) ==
  \/ AtDb("add") /\ Head(toDb).item = i /\ dst[Head(toDb).owner] = "none"
  \/ AtSql("add") /\ Head(sql).item = i /\ dst[Head(sql).owner] = "none"
LossesAreKnown ==
  [][\A i \in Items : Copies(i)' # 1 /\ Copies(i) = 1 => BuyerGone(i) \/ CounterGone(i)]_vars

\* What a purchase in flight is worth to its seller.
Worth(m) == IF m.op = "buy" /\ m.success THEN dprice[m.owner][m.item] ELSE 0
Claimed(m) == IF m.op = "getyang" THEN m.yang ELSE 0
Pot == SumFunction([b \in Bots |-> gold[b] + dyang[b]])
       + SumFunction([n \in 1..Len(toDb) |-> Worth(toDb[n]) - Claimed(toDb[n])])
Fee == IF AtDb("buy") /\ toDb' = Tail(toDb)
       THEN Worth(Head(toDb)) - Taxed(Worth(Head(toDb))) ELSE 0

\* Money only goes to the tax.  What the core takes from a buyer is what the db
\* core credits the seller with, although each reads its own copy of the price
\* and repricings cross purchases on the wire; and the proceeds are paid once,
\* although a safebox can be loaded while they are being taken.
MoneyKept == [][Pot' = Pot - Fee]_vars

Settled == toDb = <<>> /\ toCore = <<>> /\ sql = <<>>

\* Once nothing is in flight the core shows the shops the db core has, line by
\* line, and the money in their safeboxes.
MirrorSettles ==
  Settled => /\ cst = dst /\ cyang = dyang
             /\ \A o \in Bots : dst[o] # "none" => cprice[o] = dprice[o]

\* Nor is a line still locked for a buyer who has left, paid or been refused,
\* and no bot waits for the answer to a purchase, a new shop or a withdrawal.
NobodyWaits ==
  Settled => /\ locked = {}
             /\ \A b \in Bots : req[b][1] \in {"none", "add", "edit", "remove"}

\* playerbot_offline_policy.h: native DB handlers mark completion.  Whatever
\* was transmitted is completed by the time nothing is in flight.
EveryRequestCompletes == Settled => \A b \in Bots : req[b] = NoRequest
=============================================================================
