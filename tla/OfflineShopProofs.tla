------------------------- MODULE OfflineShopProofs -------------------------
(***************************************************************************)
(* Proofs about OfflineShop, for any bots, items and prices: the types of  *)
(* everything on both sides of the wire, that what is locked for a buyer   *)
(* stays on sale and its price holds, that nothing stays set aside for an  *)
(* answer, and that no item is in two places.                              *)
(***************************************************************************)
EXTENDS OfflineShop, SequenceTheorems, FiniteSetTheorems, TLAPS

(* Sequences.                                                              *)

\* A packet taken from a queue is one of its packets, and the rest is a queue.
LEMMA Taken ==
  ASSUME NEW S, NEW q \in Seq(S), q # <<>>
  PROVE  Head(q) \in S /\ Tail(q) \in Seq(S)
  BY HeadTailProperties

\* A queue of packets behind another is a queue.
LEMMA Joined ==
  ASSUME NEW S, NEW q \in Seq(S), NEW r \in Seq(S)
  PROVE  q \o r \in Seq(S)
  BY ConcatProperties

LEMMA Appended ==
  ASSUME NEW S, NEW q \in Seq(S), NEW x \in S
  PROVE  Append(q, x) \in Seq(S)
  OBVIOUS

LEMMA Single ==
  ASSUME NEW S, NEW x \in S
  PROVE  <<x>> \in Seq(S)
  OBVIOUS

LEMMA Two ==
  ASSUME NEW S, NEW x \in S, NEW y \in S
  PROVE  <<x, y>> \in Seq(S)
  OBVIOUS

LEMMA Nothing == \A S : <<>> \in Seq(S)
  OBVIOUS

\* What is sent joins what is on its way.
LEMMA Sent ==
  ASSUME WiresOK, NEW ms
  PROVE  /\ ms \in Seq(Requests) /\ ToDb(ms) => toDb' \in Seq(Requests)
         /\ ms \in Seq(Answers) /\ ToCore(ms) => toCore' \in Seq(Answers)
  BY Joined DEF WiresOK, ToDb, ToCore

-----------------------------------------------------------------------------
(* Packets.                                                                *)

\* The db core knows a request by its op.
LEMMA RequestShapes ==
  ASSUME NEW m \in Requests
  PROVE  /\ m.owner \in Bots
         /\ m.op = "create" => m.lines \in [Items -> Nat] /\ m \in Queries
         /\ m.op \in {"add", "edit"} => m.item \in Items /\ m.price \in Nat \ {0}
         /\ m.op = "add" => m \in Queries
         /\ m.op \in {"remove", "getitem"} => m.item \in Items
         /\ m.op = "boxadd" => m \in Queries
         /\ m.op = "getyang" => m.yang \in Int
         /\ m.op = "lock" => m.who \in Bots /\ m.item \in Items /\ m.seen \in Nat
         /\ m.op = "buy" => m.who \in Bots /\ m.item \in Items /\ m.success \in BOOLEAN
         /\ m.op = "feedback" => m.item \in Items /\ m.success \in BOOLEAN
  BY DEF Requests, Queries, Stocking, Priced, Named, Paid

LEMMA QueryShapes ==
  ASSUME NEW m \in Queries
  PROVE  /\ m.owner \in Bots
         /\ m.op \in {"create", "put"} => m.lines \in [Items -> Nat] /\ m \in Stocking({"create", "put"})
         /\ m.op = "add" => m.item \in Items /\ m.price \in Nat \ {0}
         /\ m.op = "boxadd" => m.item \in Items
  BY DEF Queries, Stocking, Priced, Named

LEMMA AnswerShapes ==
  ASSUME NEW m \in Answers
  PROVE  /\ m.owner \in Bots
         /\ m.op = "created" => m.lines \in [Items -> Nat]
         /\ m.op \in {"added", "edited"} => m.item \in Items /\ m.price \in Nat \ {0}
         /\ m.op \in {"removed", "boxed", "confirm"} => m.item \in Items
         /\ m.op \in {"locked", "refused", "sold"} => m.who \in Bots /\ m.item \in Items
         /\ m.op = "yang" => m.yang \in Int
         /\ m.op = "box" => m.items \in SUBSET Items /\ m.yang \in Int
  BY DEF Answers, Stocking, Priced, Named, Shopping, Paid

\* What the db core takes off the wire, and what the core does.
LEMMA DbTakes ==
  ASSUME WiresOK, NEW op, AtDb(op)
  PROVE  Head(toDb) \in Requests /\ Head(toDb).op = op /\ Tail(toDb) \in Seq(Requests)
  BY Taken DEF WiresOK, AtDb

LEMMA CoreTakes ==
  ASSUME WiresOK, NEW op, AtCore(op)
  PROVE  Head(toCore) \in Answers /\ Head(toCore).op = op /\ Tail(toCore) \in Seq(Answers)
  BY Taken DEF WiresOK, AtCore

LEMMA SqlTakes ==
  ASSUME WiresOK, NEW op, AtSql(op)
  PROVE  Head(sql) \in Queries /\ Head(sql).op = op /\ Tail(sql) \in Seq(Queries)
  BY Taken DEF WiresOK, AtSql

\* Beginning and completing keep the journal a journal.
LEMMA Journal ==
  ASSUME PeopleOK, NEW b \in Bots, NEW op \in Ops, NEW i \in Items \cup {None}
  PROVE  /\ Begin(b, op, i) => req' \in [Bots -> Ops \X (Items \cup {None})]
         /\ Complete(b, op, i) => req' \in [Bots -> Ops \X (Items \cup {None})]
<1> DEFINE Entries == Ops \X (Items \cup {None})
<1>1. req \in [Bots -> Entries] /\ <<op, i>> \in Entries  BY DEF PeopleOK
<1>2. NoRequest \in Entries  BY DEF NoRequest, Ops
<1> HIDE DEF Entries
<1>3. \A e \in Entries : [req EXCEPT ![b] = e] \in [Bots -> Entries]  BY <1>1
<1>4. Begin(b, op, i) => req' \in [Bots -> Entries]  BY <1>1, <1>3 DEF Begin
<1>5. Complete(b, op, i) => req' \in [Bots -> Entries]  BY <1>1, <1>2, <1>3 DEF Complete
<1> QED  BY <1>4, <1>5 DEF Entries

-----------------------------------------------------------------------------
(* Shops.                                                                  *)

\* One line of a shop is set, and no other.
LEMMA LineSet ==
  ASSUME NEW f \in [Bots -> [Items -> Nat]], NEW g,
         NEW o \in Bots, NEW i \in Items, NEW p \in Nat,
         g = [f EXCEPT ![o] = [@ EXCEPT ![i] = p]]
  PROVE  /\ g \in [Bots -> [Items -> Nat]]
         /\ g[o][i] = p
         /\ \A q \in Bots, j \in Items : <<q, j>> # <<o, i>> => g[q][j] = f[q][j]
<1>1. [f[o] EXCEPT ![i] = p] \in [Items -> Nat]  OBVIOUS
<1>2. g = [f EXCEPT ![o] = [f[o] EXCEPT ![i] = p]]  OBVIOUS
<1> QED  BY <1>1, <1>2

\* Lines that are locked stay on sale when they keep their price and their shop.
LEMMA StaysOnSale ==
  ASSUME ShopsOK, LockedOnSale, ShopsOK',
         \A o \in Bots, i \in Items : <<o, i>> \in locked' =>
            /\ <<o, i>> \in locked
            /\ dprice'[o][i] = dprice[o][i]
            /\ dst'[o] \in {dst[o], "open", "closed"}
  PROVE  LockedOnSale'
<1> SUFFICES ASSUME NEW line \in locked'
             PROVE  HasLine(line[1], line[2])'
  BY DEF LockedOnSale
<1>1. line = <<line[1], line[2]>> /\ line[1] \in Bots /\ line[2] \in Items  BY DEF ShopsOK
<1>2. line \in locked  BY <1>1
<1>3. HasLine(line[1], line[2])  BY <1>2 DEF LockedOnSale
<1> QED  BY <1>1, <1>3 DEF HasLine

-----------------------------------------------------------------------------
(* What an action leaves alone keeps its type.                             *)

LEMMA Kept ==
  ASSUME TypeOK
  PROVE  /\ UNCHANGED people => PeopleOK'
         /\ UNCHANGED core => MirrorOK'
         /\ UNCHANGED dshops => ShopsOK' /\ LockedOnSale'
         /\ UNCHANGED dboxes => BoxesOK'
<1>1. UNCHANGED people => PeopleOK'  BY DEF TypeOK, PeopleOK, people
<1>2. UNCHANGED core => MirrorOK'  BY DEF TypeOK, MirrorOK, core
<1>3. UNCHANGED dshops => ShopsOK' /\ LockedOnSale'
  BY DEF TypeOK, ShopsOK, LockedOnSale, HasLine, dshops
<1>4. UNCHANGED dboxes => BoxesOK'  BY DEF TypeOK, BoxesOK, dboxes
<1> QED  BY <1>1, <1>2, <1>3, <1>4

-----------------------------------------------------------------------------
(* The owners and the buyers.                                              *)

LEMMA SubmitTyped ==
  ASSUME TypeOK, NEW o \in Bots, NEW offer \in Lines, Submit(o, offer)
  PROVE  TypeOK'
<1>1. offer \in [Items -> Nat]  BY PriceAssumption DEF Lines
<1>2. PeopleOK'
  <2>1. req' \in [Bots -> Ops \X (Items \cup {None})]
    BY Journal DEF TypeOK, Submit, Ops
  <2> QED  BY <2>1 DEF TypeOK, PeopleOK, Submit
<1>3. WiresOK'
  <2>1. [op |-> "create", owner |-> o, lines |-> offer] \in Requests
    BY <1>1 DEF Requests, Stocking
  <2>2. toDb' \in Seq(Requests)  BY <2>1, Single, Sent DEF TypeOK, Submit
  <2> QED  BY <2>2 DEF TypeOK, WiresOK, Submit
<1> QED  BY <1>2, <1>3, Kept DEF TypeOK, Submit

\* A visit: the proceeds, the journal, and a request of its own.
\* A keeper claims some of what is there.
LEMMA ClaimableIs ==
  ASSUME TypeOK, NEW o \in Bots
  PROVE  /\ Claimable(o) \in Int
         /\ cyang[o] \in Nat => Claimable(o) \in Nat /\ Claimable(o) <= cyang[o]
<1>1. gold[o] \in Int /\ cyang[o] \in Int /\ GoldMax \in Nat
  BY BoundsAssumption DEF TypeOK, PeopleOK, MirrorOK
<1> QED  BY <1>1 DEF Claimable

LEMMA VisitTyped ==
  ASSUME TypeOK, NEW o \in Bots, NEW op \in Ops, NEW i \in Items \cup {None},
         NEW m \in Requests, Visit(o, op, i, m), bag' \in [Bots -> SUBSET Items]
  PROVE  TypeOK'
<1>1. PeopleOK'
  <2>1. req' \in [Bots -> Ops \X (Items \cup {None})]
    BY Journal DEF TypeOK, Visit
  <2>2. gold' \in [Bots -> Int]
    BY ClaimableIs DEF TypeOK, PeopleOK, MirrorOK, Visit, TakeProceeds
  <2> QED  BY <2>1, <2>2 DEF TypeOK, PeopleOK, Visit
<1>2. MirrorOK'  BY ClaimableIs DEF TypeOK, MirrorOK, Visit, TakeProceeds
<1>3. WiresOK'
  <2>1. Claim(o) \in Seq(Requests)
    <3>1. [op |-> "getyang", owner |-> o, yang |-> Claimable(o)] \in Requests
      BY ClaimableIs DEF Requests, Paid
    <3> QED  BY <3>1, Single, Nothing DEF Claim
  <2>2. Claim(o) \o <<m>> \in Seq(Requests)  BY <2>1, Single, Joined
  <2>3. toDb' \in Seq(Requests)  BY <2>2, Sent DEF TypeOK, Visit
  <2> QED  BY <2>3 DEF TypeOK, WiresOK, Visit
<1> QED  BY <1>1, <1>2, <1>3, Kept DEF TypeOK, Visit

LEMMA VisitReopenTyped ==
  ASSUME TypeOK, NEW o \in Bots, VisitReopen(o)
  PROVE  TypeOK'
<1>1. bag' \in [Bots -> SUBSET Items]  BY DEF TypeOK, PeopleOK, VisitReopen
<1>2. [op |-> "create", owner |-> o, lines |-> NoLines] \in Requests
  BY DEF Requests, Stocking, NoLines
<1> QED  BY <1>1, <1>2, VisitTyped DEF VisitReopen, Ops

LEMMA VisitsTyped ==
  ASSUME TypeOK, NEW o \in Bots, NEW i \in Items, NEW p \in Prices[i]
  PROVE  /\ VisitAdd(o, i, p) => TypeOK'
         /\ VisitEdit(o, i, p) => TypeOK'
<1>1. p \in Nat \ {0}  BY PriceAssumption
<1>2. bag' = bag => bag' \in [Bots -> SUBSET Items]  BY DEF TypeOK, PeopleOK
<1>4. CASE VisitAdd(o, i, p)
  <2>1. [op |-> "add", owner |-> o, item |-> i, price |-> p] \in Requests
    BY <1>1 DEF Requests, Priced
  <2>2. bag' \in [Bots -> SUBSET Items]  BY <1>4 DEF TypeOK, PeopleOK, VisitAdd
  <2> QED  BY <1>4, <2>1, <2>2, VisitTyped DEF VisitAdd, Ops
<1>5. CASE VisitEdit(o, i, p)
  <2>1. [op |-> "edit", owner |-> o, item |-> i, price |-> p] \in Requests
    BY <1>1 DEF Requests, Priced
  <2> QED  BY <1>2, <1>5, <2>1, VisitTyped DEF VisitEdit, Ops
<1> QED  BY <1>4, <1>5

LEMMA TakingsTyped ==
  ASSUME TypeOK, NEW o \in Bots, NEW i \in Items
  PROVE  /\ VisitRemove(o, i) => TypeOK'
         /\ VisitWithdraw(o, i) => TypeOK'
<1>2. bag' = bag => bag' \in [Bots -> SUBSET Items]  BY DEF TypeOK, PeopleOK
<1>3. CASE VisitRemove(o, i)
  <2>1. [op |-> "remove", owner |-> o, item |-> i] \in Requests  BY DEF Requests, Named
  <2> QED  BY <1>2, <1>3, <2>1, VisitTyped DEF VisitRemove, Ops
<1>4. CASE VisitWithdraw(o, i)
  <2>1. [op |-> "getitem", owner |-> o, item |-> i] \in Requests  BY DEF Requests, Named
  <2> QED  BY <1>2, <1>4, <2>1, VisitTyped DEF VisitWithdraw, Ops
<1> QED  BY <1>3, <1>4

LEMMA VisitProceedsTyped ==
  ASSUME TypeOK, NEW o \in Bots, VisitProceeds(o)
  PROVE  TypeOK'
<1>1. PeopleOK' /\ MirrorOK'
  BY ClaimableIs DEF TypeOK, PeopleOK, MirrorOK, VisitProceeds, TakeProceeds
<1>2. WiresOK'
  <2>1. [op |-> "getyang", owner |-> o, yang |-> Claimable(o)] \in Requests
    BY ClaimableIs DEF Requests, Paid
  <2>2. toDb' \in Seq(Requests)
    BY <2>1, Single, Nothing, Sent DEF TypeOK, VisitProceeds, Claim
  <2> QED  BY <2>2 DEF TypeOK, WiresOK, VisitProceeds
<1> QED  BY <1>1, <1>2, Kept DEF TypeOK, VisitProceeds

LEMMA BuyTyped ==
  ASSUME TypeOK, NEW b \in Bots, NEW o \in Bots, NEW i \in Items, Buy(b, o, i)
  PROVE  TypeOK'
<1>1. PeopleOK'
  <2>1. req' \in [Bots -> Ops \X (Items \cup {None})]
    BY Journal DEF TypeOK, Buy, Ops
  <2> QED  BY <2>1 DEF TypeOK, PeopleOK, Buy
<1>2. WiresOK'
  <2>1. [op |-> "lock", who |-> b, owner |-> o, item |-> i, seen |-> cprice[o][i]] \in Requests
    BY DEF TypeOK, MirrorOK, Requests
  <2>2. toDb' \in Seq(Requests)  BY <2>1, Single, Sent DEF TypeOK, Buy
  <2> QED  BY <2>2 DEF TypeOK, WiresOK, Buy
<1> QED  BY <1>1, <1>2, Kept DEF TypeOK, Buy

LEMMA JourneysTyped ==
  ASSUME TypeOK, NEW b \in Bots
  PROVE  /\ Leave(b) => TypeOK'
         /\ AskIn(b) => TypeOK'
         /\ Enter(b) => TypeOK'
<1>1. CASE Leave(b)
  <2>1. PeopleOK' /\ WiresOK'  BY <1>1 DEF TypeOK, PeopleOK, WiresOK, Leave
  <2> QED  BY <1>1, <2>1, Kept DEF TypeOK, Leave
<1>2. CASE AskIn(b)
  <2>1. PeopleOK'  BY <1>2 DEF TypeOK, PeopleOK, AskIn
  <2>2. [op |-> "loadbox", owner |-> b] \in Requests  BY DEF Requests
  <2>3. toDb' \in Seq(Requests)  BY <1>2, <2>2, Single, Sent DEF TypeOK, AskIn
  <2>4. WiresOK'  BY <1>2, <2>3 DEF TypeOK, WiresOK, AskIn
  <2> QED  BY <1>2, <2>1, <2>4, Kept DEF TypeOK, AskIn
<1>3. CASE Enter(b)
  <2>1. PeopleOK' /\ WiresOK'  BY <1>3 DEF TypeOK, PeopleOK, WiresOK, Enter
  <2> QED  BY <1>3, <2>1, Kept DEF TypeOK, Enter
<1> QED  BY <1>1, <1>2, <1>3

-----------------------------------------------------------------------------
(* The db core.                                                            *)

\* Creations, additions and what goes to a safebox only join the queries.
LEMMA DbQueriesTyped ==
  ASSUME TypeOK
  PROVE  /\ DbCreate => TypeOK'
         /\ DbAdd => TypeOK'
         /\ DbBoxAdd => TypeOK'
<1>1. ASSUME NEW op \in {"create", "add", "boxadd"}, AtDb(op), TakenByDb,
             sql' \in {sql, Append(sql, Head(toDb))}, UNCHANGED toCore
      PROVE  WiresOK'
  <2>1. Head(toDb) \in Requests /\ Head(toDb).op = op /\ Tail(toDb) \in Seq(Requests)
    BY <1>1, DbTakes DEF TypeOK
  <2>2. Head(toDb) \in Queries  BY <2>1, RequestShapes
  <2>3. sql \in Seq(Queries)  BY DEF TypeOK, WiresOK
  <2>4. Append(sql, Head(toDb)) \in Seq(Queries)  BY <2>2, <2>3, Appended
  <2> QED  BY <1>1, <2>1, <2>3, <2>4 DEF TypeOK, WiresOK, TakenByDb
<1>2. CASE DbCreate
  <2>1. WiresOK'  BY <1>1, <1>2 DEF DbCreate
  <2> QED  BY <1>2, <2>1, Kept DEF TypeOK, DbCreate
<1>3. CASE DbAdd
  <2>1. WiresOK'  BY <1>1, <1>3 DEF DbAdd
  <2> QED  BY <1>3, <2>1, Kept DEF TypeOK, DbAdd
<1>4. CASE DbBoxAdd
  <2>1. WiresOK'  BY <1>1, <1>4 DEF DbBoxAdd
  <2> QED  BY <1>4, <2>1, Kept DEF TypeOK, DbBoxAdd
<1> QED  BY <1>2, <1>3, <1>4

LEMMA DbEditTyped ==
  ASSUME TypeOK, DbEdit
  PROVE  TypeOK'
<1>1. /\ Head(toDb) \in Requests /\ Head(toDb).op = "edit"
      /\ Tail(toDb) \in Seq(Requests)
  BY DbTakes DEF TypeOK, DbEdit
<1>2. Head(toDb).owner \in Bots /\ Head(toDb).item \in Items /\ Head(toDb).price \in Nat \ {0}
  BY <1>1, RequestShapes
<1>3. ShopsOK' /\ LockedOnSale'
  <2>1. CASE UNCHANGED dprice
    BY <2>1, Kept DEF DbEdit, dshops
  <2>2. CASE /\ <<Head(toDb).owner, Head(toDb).item>> \notin locked
             /\ dprice' = [dprice EXCEPT ![Head(toDb).owner] =
                            [@ EXCEPT ![Head(toDb).item] = Head(toDb).price]]
    <3>1. /\ dprice' \in [Bots -> [Items -> Nat]]
          /\ \A q \in Bots, j \in Items : <<q, j>> # <<Head(toDb).owner, Head(toDb).item>> =>
                dprice'[q][j] = dprice[q][j]
      BY <1>2, <2>2, LineSet DEF TypeOK, ShopsOK
    <3>2. ShopsOK'  BY <3>1 DEF TypeOK, ShopsOK, DbEdit
    <3> QED  BY <2>2, <3>1, <3>2, StaysOnSale DEF TypeOK, DbEdit
  <2> QED  BY <2>1, <2>2 DEF DbEdit, Repriced
<1>4. WiresOK'
  <2>1. [op |-> "edited", owner |-> Head(toDb).owner, item |-> Head(toDb).item,
         price |-> Head(toDb).price] \in Answers
    BY <1>2 DEF Answers, Priced
  <2>2. toCore' \in Seq(Answers)
    BY <2>1, Single, Nothing, Sent DEF TypeOK, DbEdit
  <2> QED  BY <1>1, <2>2 DEF TypeOK, WiresOK, DbEdit, TakenByDb
<1> QED  BY <1>3, <1>4, Kept DEF TypeOK, DbEdit

LEMMA DbRemoveTyped ==
  ASSUME TypeOK, DbRemove
  PROVE  TypeOK'
<1>1. /\ Head(toDb) \in Requests /\ Head(toDb).op = "remove"
      /\ Tail(toDb) \in Seq(Requests)
  BY DbTakes DEF TypeOK, DbRemove
<1>2. Head(toDb).owner \in Bots /\ Head(toDb).item \in Items
  BY <1>1, RequestShapes
<1>3. ShopsOK' /\ LockedOnSale'
  <2>1. CASE UNCHANGED dprice
    BY <2>1, Kept DEF DbRemove, dshops
  <2>2. CASE /\ <<Head(toDb).owner, Head(toDb).item>> \notin locked
             /\ dprice' = [dprice EXCEPT ![Head(toDb).owner] = [@ EXCEPT ![Head(toDb).item] = 0]]
    <3>1. /\ dprice' \in [Bots -> [Items -> Nat]]
          /\ \A q \in Bots, j \in Items : <<q, j>> # <<Head(toDb).owner, Head(toDb).item>> =>
                dprice'[q][j] = dprice[q][j]
      BY <1>2, <2>2, LineSet DEF TypeOK, ShopsOK
    <3>2. ShopsOK'  BY <3>1 DEF TypeOK, ShopsOK, DbRemove
    <3> QED  BY <2>2, <3>1, <3>2, StaysOnSale DEF TypeOK, DbRemove
  <2> QED  BY <2>1, <2>2 DEF DbRemove
<1>4. WiresOK'
  <2>1. [op |-> "removed", owner |-> Head(toDb).owner, item |-> Head(toDb).item] \in Answers
    BY <1>2 DEF Answers, Named
  <2>2. toCore' \in Seq(Answers)
    BY <2>1, Single, Nothing, Sent DEF TypeOK, DbRemove
  <2> QED  BY <1>1, <2>2 DEF TypeOK, WiresOK, DbRemove, TakenByDb
<1> QED  BY <1>3, <1>4, Kept DEF TypeOK, DbRemove

LEMMA DbLockTyped ==
  ASSUME TypeOK, DbLock
  PROVE  TypeOK'
<1>1. /\ Head(toDb) \in Requests /\ Head(toDb).op = "lock"
      /\ Tail(toDb) \in Seq(Requests)
  BY DbTakes DEF TypeOK, DbLock
<1>2. Head(toDb).owner \in Bots /\ Head(toDb).who \in Bots /\ Head(toDb).item \in Items
  BY <1>1, RequestShapes
<1>3. ShopsOK' /\ LockedOnSale'
  BY <1>2 DEF TypeOK, ShopsOK, LockedOnSale, HasLine, MayLock, DbLock
<1>4. WiresOK'
  <2>1. [op |-> IF MayLock(Head(toDb)) THEN "locked" ELSE "refused", who |-> Head(toDb).who,
         owner |-> Head(toDb).owner, item |-> Head(toDb).item] \in Answers
    BY <1>2 DEF Answers, Shopping
  <2>2. toCore' \in Seq(Answers)
    BY <2>1, Single, Sent DEF TypeOK, DbLock
  <2> QED  BY <1>1, <2>2 DEF TypeOK, WiresOK, DbLock, TakenByDb
<1> QED  BY <1>3, <1>4, Kept DEF TypeOK, DbLock

\* A line leaves the shop with its lock.
LEMMA DbBuyTyped ==
  ASSUME TypeOK, DbBuy
  PROVE  TypeOK'
<1>1. /\ Head(toDb) \in Requests /\ Head(toDb).op = "buy"
      /\ Tail(toDb) \in Seq(Requests)
  BY DbTakes DEF TypeOK, DbBuy
<1>2. Head(toDb).owner \in Bots /\ Head(toDb).who \in Bots /\ Head(toDb).item \in Items
  BY <1>1, RequestShapes
<1>3. Taxed(dprice[Head(toDb).owner][Head(toDb).item]) \in Int
  <2>1. dprice[Head(toDb).owner][Head(toDb).item] \in Int /\ Tax \in Int
    BY <1>2, PriceAssumption DEF TypeOK, ShopsOK
  <2>2. dprice[Head(toDb).owner][Head(toDb).item] * Tax \in Int  BY <2>1
  <2> QED  BY <2>1, <2>2 DEF Taxed
<1>4. ShopsOK' /\ LockedOnSale'
  <2>1. CASE UNCHANGED dprice /\ locked' \subseteq locked
    <3>1. ShopsOK'  BY <2>1 DEF TypeOK, ShopsOK, DbBuy
    <3> QED  BY <2>1, <3>1, StaysOnSale DEF TypeOK, DbBuy
  <2>2. CASE /\ dprice' = [dprice EXCEPT ![Head(toDb).owner] = [@ EXCEPT ![Head(toDb).item] = 0]]
             /\ locked' = locked \ {<<Head(toDb).owner, Head(toDb).item>>}
    <3>1. /\ dprice' \in [Bots -> [Items -> Nat]]
          /\ \A q \in Bots, j \in Items : <<q, j>> # <<Head(toDb).owner, Head(toDb).item>> =>
                dprice'[q][j] = dprice[q][j]
      BY <1>2, <2>2, LineSet DEF TypeOK, ShopsOK
    <3>2. ShopsOK'  BY <2>2, <3>1 DEF TypeOK, ShopsOK, DbBuy
    <3> QED  BY <2>2, <3>1, <3>2, StaysOnSale DEF TypeOK, DbBuy
  <2> QED  BY <2>1, <2>2 DEF DbBuy
<1>5. BoxesOK'  BY <1>2, <1>3 DEF TypeOK, BoxesOK, DbBuy
<1>6. WiresOK'
  <2>1. [op |-> "yang", owner |-> Head(toDb).owner,
         yang |-> Taxed(dprice[Head(toDb).owner][Head(toDb).item])] \in Answers
    BY <1>2, <1>3 DEF Answers, Paid
  <2>2. [op |-> "sold", who |-> Head(toDb).who, owner |-> Head(toDb).owner,
         item |-> Head(toDb).item] \in Answers
    BY <1>2 DEF Answers, Shopping
  <2>3. toCore' \in Seq(Answers)
    BY <2>1, <2>2, Two, Sent DEF TypeOK, WiresOK, DbBuy
  <2> QED  BY <1>1, <2>3 DEF TypeOK, WiresOK, DbBuy, TakenByDb
<1> QED  BY <1>4, <1>5, <1>6, Kept DEF TypeOK, DbBuy

\* A shop that is closed for good has no line, and so no locked one.
LEMMA DbHardCloseTyped ==
  ASSUME TypeOK, DbHardClose
  PROVE  TypeOK'
<1>1. /\ Head(toDb) \in Requests /\ Head(toDb).op = "hardclose"
      /\ Tail(toDb) \in Seq(Requests)
  BY DbTakes DEF TypeOK, DbHardClose
<1>2. Head(toDb).owner \in Bots  BY <1>1, RequestShapes
<1>3. ShopsOK' /\ LockedOnSale'
  BY <1>2 DEF TypeOK, ShopsOK, LockedOnSale, HasLine, NoLines, DbHardClose
<1>4. WiresOK'
  <2>1. [op |-> "closed", owner |-> Head(toDb).owner] \in Answers  BY <1>2 DEF Answers
  <2>2. toCore' \in Seq(Answers)
    BY <2>1, Single, Nothing, Sent DEF TypeOK, DbHardClose
  <2> QED  BY <1>1, <2>2 DEF TypeOK, WiresOK, DbHardClose, TakenByDb
<1> QED  BY <1>3, <1>4, Kept DEF TypeOK, DbHardClose

LEMMA ExpireTyped ==
  ASSUME TypeOK, NEW o \in Bots, Expire(o)
  PROVE  TypeOK'
<1>1. ShopsOK' /\ LockedOnSale'  BY DEF TypeOK, ShopsOK, LockedOnSale, HasLine, Expire
<1>2. WiresOK'
  <2>1. [op |-> "expired", owner |-> o] \in Answers  BY DEF Answers
  <2>2. toCore' \in Seq(Answers)  BY <2>1, Single, Sent DEF TypeOK, Expire
  <2> QED  BY <2>2 DEF TypeOK, WiresOK, Expire
<1> QED  BY <1>1, <1>2, Kept DEF TypeOK, Expire

LEMMA DbBoxesTyped ==
  ASSUME TypeOK
  PROVE  /\ DbGetYang => TypeOK'
         /\ DbGetItem => TypeOK'
         /\ DbFeedback => TypeOK'
         /\ DbLoadBox => TypeOK'
<1>1. CASE DbGetYang
  <2>1. /\ Head(toDb).owner \in Bots /\ Head(toDb).yang \in Int
        /\ Tail(toDb) \in Seq(Requests)
    BY <1>1, DbTakes, RequestShapes DEF TypeOK, DbGetYang
  <2>2. BoxesOK'  BY <1>1, <2>1 DEF TypeOK, BoxesOK, DbGetYang
  <2>3. WiresOK'  BY <1>1, <2>1 DEF TypeOK, WiresOK, DbGetYang, TakenByDb
  <2> QED  BY <1>1, <2>2, <2>3, Kept DEF TypeOK, DbGetYang
<1>2. CASE DbGetItem
  <2>1. /\ Head(toDb).owner \in Bots /\ Head(toDb).item \in Items
        /\ Tail(toDb) \in Seq(Requests)
    BY <1>2, DbTakes, RequestShapes DEF TypeOK, DbGetItem
  <2>2. BoxesOK'  BY <1>2, <2>1 DEF TypeOK, BoxesOK, DbGetItem
  <2>3. [op |-> "confirm", owner |-> Head(toDb).owner, item |-> Head(toDb).item] \in Answers
    BY <2>1 DEF Answers, Named
  <2>4. toCore' \in Seq(Answers)
    BY <1>2, <2>3, Single, Nothing, Sent DEF TypeOK, DbGetItem
  <2>5. WiresOK'  BY <1>2, <2>1, <2>4 DEF TypeOK, WiresOK, DbGetItem, TakenByDb
  <2> QED  BY <1>2, <2>2, <2>5, Kept DEF TypeOK, DbGetItem
<1>3. CASE DbFeedback
  <2>1. /\ Head(toDb).owner \in Bots /\ Head(toDb).item \in Items
        /\ Tail(toDb) \in Seq(Requests)
    BY <1>3, DbTakes, RequestShapes DEF TypeOK, DbFeedback
  <2>2. BoxesOK'  BY <1>3, <2>1 DEF TypeOK, BoxesOK, DbFeedback
  <2>3. WiresOK'  BY <1>3, <2>1 DEF TypeOK, WiresOK, DbFeedback, TakenByDb
  <2> QED  BY <1>3, <2>2, <2>3, Kept DEF TypeOK, DbFeedback
<1>4. CASE DbLoadBox
  <2>1. Head(toDb).owner \in Bots /\ Tail(toDb) \in Seq(Requests)
    BY <1>4, DbTakes, RequestShapes DEF TypeOK, DbLoadBox
  <2>2. [op |-> "box", owner |-> Head(toDb).owner, items |-> dbox[Head(toDb).owner],
         yang |-> dyang[Head(toDb).owner]] \in Answers
    BY <2>1 DEF TypeOK, BoxesOK, Answers
  <2>3. toCore' \in Seq(Answers)  BY <1>4, <2>2, Single, Sent DEF TypeOK, DbLoadBox
  <2>4. WiresOK'  BY <1>4, <2>1, <2>3 DEF TypeOK, WiresOK, DbLoadBox, TakenByDb
  <2> QED  BY <1>4, <2>4, Kept DEF TypeOK, DbLoadBox
<1> QED  BY <1>1, <1>2, <1>3, <1>4

-----------------------------------------------------------------------------
(* The results of the db core's queries.                                   *)

\* PutItem sets a line only where there is none, so never a locked one.
LEMMA PutTyped ==
  ASSUME TypeOK, NEW o \in Bots, NEW i \in Items, NEW p \in Nat, Put(o, i, p),
         UNCHANGED <<dst, locked>>
  PROVE  ShopsOK' /\ LockedOnSale'
<1>1. CASE UNCHANGED dprice  BY <1>1, Kept DEF dshops
<1>2. CASE dprice[o][i] = 0 /\ dprice' = [dprice EXCEPT ![o] = [@ EXCEPT ![i] = p]]
  <2>1. /\ dprice' \in [Bots -> [Items -> Nat]]
        /\ \A q \in Bots, j \in Items : <<q, j>> # <<o, i>> => dprice'[q][j] = dprice[q][j]
    BY <1>2, LineSet DEF TypeOK, ShopsOK
  <2>2. ShopsOK'  BY <2>1 DEF TypeOK, ShopsOK
  <2>3. <<o, i>> \notin locked
    <3>1. SUFFICES ASSUME <<o, i>> \in locked PROVE FALSE  OBVIOUS
    <3>2. HasLine(o, i)  BY <3>1 DEF TypeOK, LockedOnSale
    <3> QED  BY <1>2, <3>2 DEF HasLine
  <2> QED  BY <2>1, <2>2, <2>3, StaysOnSale DEF TypeOK
<1> QED  BY <1>1, <1>2 DEF Put

LEMMA CreateDoneTyped ==
  ASSUME TypeOK, CreateDone
  PROVE  TypeOK'
<1>1. Head(sql) \in Queries /\ Head(sql).op = "create" /\ Tail(sql) \in Seq(Queries)
  BY SqlTakes DEF TypeOK, CreateDone
<1>2. /\ Head(sql).owner \in Bots /\ Head(sql).lines \in [Items -> Nat]
      /\ Head(sql) \in Stocking({"create", "put"})
  BY <1>1, QueryShapes
<1>3. ShopsOK' /\ LockedOnSale'
  BY <1>2 DEF TypeOK, ShopsOK, LockedOnSale, HasLine, CreateDone
<1>4. WiresOK'
  <2>1. [Head(sql) EXCEPT !.op = "put"] \in Queries  BY <1>2 DEF Stocking, Queries
  <2>2. Append(Tail(sql), [Head(sql) EXCEPT !.op = "put"]) \in Seq(Queries)
    BY <1>1, <2>1, Appended
  <2>3. sql' \in Seq(Queries)  BY <1>1, <2>2 DEF CreateDone
  <2>4. [op |-> "created", owner |-> Head(sql).owner, lines |-> Head(sql).lines] \in Answers
    BY <1>2 DEF Answers, Stocking
  <2>5. toCore' \in Seq(Answers)  BY <2>4, Single, Sent DEF TypeOK, CreateDone
  <2> QED  BY <2>3, <2>5 DEF TypeOK, WiresOK, CreateDone
<1> QED  BY <1>3, <1>4, Kept DEF TypeOK, CreateDone

LEMMA PutDoneTyped ==
  ASSUME TypeOK, PutDone
  PROVE  TypeOK'
<1>1. Head(sql) \in Queries /\ Head(sql).op = "put" /\ Tail(sql) \in Seq(Queries)
  BY SqlTakes DEF TypeOK, PutDone
<1>2. /\ Head(sql).owner \in Bots /\ Head(sql).lines \in [Items -> Nat]
      /\ Head(sql) \in Stocking({"create", "put"})
  BY <1>1, QueryShapes
<1>3. PICK i \in Items :
        /\ Put(Head(sql).owner, i, Head(sql).lines[i])
        /\ sql' \in {Tail(sql),
                     <<[Head(sql) EXCEPT !.lines = [Head(sql).lines EXCEPT ![i] = 0]]>> \o Tail(sql)}
  BY DEF PutDone
<1>4. ShopsOK' /\ LockedOnSale'  BY <1>2, <1>3, PutTyped DEF PutDone
<1>5. WiresOK'
  <2>1. [Head(sql).lines EXCEPT ![i] = 0] \in [Items -> Nat]  BY <1>2
  <2>2. [Head(sql) EXCEPT !.lines = [Head(sql).lines EXCEPT ![i] = 0]] \in Queries
    BY <1>2, <2>1 DEF Stocking, Queries
  <2>3. <<[Head(sql) EXCEPT !.lines = [Head(sql).lines EXCEPT ![i] = 0]]>> \o Tail(sql)
          \in Seq(Queries)
    BY <1>1, <2>2, Single, Joined
  <2> QED  BY <1>1, <1>3, <2>3 DEF TypeOK, WiresOK, PutDone
<1> QED  BY <1>4, <1>5, Kept DEF TypeOK, PutDone

LEMMA AddDoneTyped ==
  ASSUME TypeOK, AddDone
  PROVE  TypeOK'
<1>1. Head(sql) \in Queries /\ Head(sql).op = "add" /\ Tail(sql) \in Seq(Queries)
  BY SqlTakes DEF TypeOK, AddDone
<1>2. Head(sql).owner \in Bots /\ Head(sql).item \in Items /\ Head(sql).price \in Nat \ {0}
  BY <1>1, QueryShapes
<1>3. ShopsOK' /\ LockedOnSale'  BY <1>2, PutTyped DEF AddDone
<1>4. WiresOK'
  <2>1. [op |-> "added", owner |-> Head(sql).owner, item |-> Head(sql).item,
         price |-> Head(sql).price] \in Answers
    BY <1>2 DEF Answers, Priced
  <2>2. toCore' \in Seq(Answers)  BY <2>1, Single, Sent DEF TypeOK, AddDone
  <2> QED  BY <1>1, <2>2 DEF TypeOK, WiresOK, AddDone
<1> QED  BY <1>3, <1>4, Kept DEF TypeOK, AddDone

LEMMA BoxAddDoneTyped ==
  ASSUME TypeOK, BoxAddDone
  PROVE  TypeOK'
<1>1. Head(sql) \in Queries /\ Head(sql).op = "boxadd" /\ Tail(sql) \in Seq(Queries)
  BY SqlTakes DEF TypeOK, BoxAddDone
<1>2. Head(sql).owner \in Bots /\ Head(sql).item \in Items
  BY <1>1, QueryShapes
<1>3. BoxesOK'  BY <1>2 DEF TypeOK, BoxesOK, BoxAddDone
<1>4. WiresOK'
  <2>1. [op |-> "boxed", owner |-> Head(sql).owner, item |-> Head(sql).item] \in Answers
    BY <1>2 DEF Answers, Named
  <2>2. toCore' \in Seq(Answers)  BY <2>1, Single, Sent DEF TypeOK, BoxAddDone
  <2> QED  BY <1>1, <2>2 DEF TypeOK, WiresOK, BoxAddDone
<1> QED  BY <1>3, <1>4, Kept DEF TypeOK, BoxAddDone

-----------------------------------------------------------------------------
(* The core.                                                               *)

LEMMA CoreCreatedTyped ==
  ASSUME TypeOK, CoreCreated
  PROVE  TypeOK'
<1>1. /\ Head(toCore).owner \in Bots /\ Head(toCore).lines \in [Items -> Nat]
      /\ Tail(toCore) \in Seq(Answers)
  BY CoreTakes, AnswerShapes DEF TypeOK, CoreCreated
<1>2. PeopleOK'
  <2>1. req' \in [Bots -> Ops \X (Items \cup {None})]
    BY <1>1, Journal DEF TypeOK, CoreCreated, Ops
  <2> QED  BY <2>1 DEF TypeOK, PeopleOK, CoreCreated
<1>3. MirrorOK'
  <2>1. cprice[Head(toCore).owner] \in [Items -> Nat]  BY <1>1 DEF TypeOK, MirrorOK
  <2>2. [i \in Items |-> IF Head(toCore).lines[i] > 0 THEN Head(toCore).lines[i]
                         ELSE cprice[Head(toCore).owner][i]] \in [Items -> Nat]
    BY <1>1, <2>1
  <2> QED  BY <1>1, <2>2 DEF TypeOK, MirrorOK, CoreCreated
<1>4. WiresOK'  BY <1>1 DEF TypeOK, WiresOK, CoreCreated, TakenByCore
<1> QED  BY <1>2, <1>3, <1>4, Kept DEF TypeOK, CoreCreated

LEMMA CoreLinesTyped ==
  ASSUME TypeOK
  PROVE  /\ CoreAdded => TypeOK'
         /\ CoreEdited => TypeOK'
<1>1. ASSUME NEW heard \in {"added", "edited"}, NEW op \in {"add", "edit"}, AtCore(heard),
             TakenByCore, UNCHANGED <<world, bag, gold, cst, cbox, cyang, dshops, dboxes, toDb, sql>>,
             \/ UNCHANGED req
             \/ Complete(Head(toCore).owner, op, Head(toCore).item),
             \/ UNCHANGED cprice
             \/ cprice' = [cprice EXCEPT ![Head(toCore).owner] =
                            [@ EXCEPT ![Head(toCore).item] = Head(toCore).price]]
      PROVE  TypeOK'
  <2>1. /\ Head(toCore).owner \in Bots /\ Head(toCore).item \in Items
        /\ Head(toCore).price \in Nat /\ Tail(toCore) \in Seq(Answers)
    BY <1>1, CoreTakes, AnswerShapes DEF TypeOK
  <2>2. PeopleOK'
    <3>1. req' \in [Bots -> Ops \X (Items \cup {None})]
      BY <1>1, <2>1, Journal DEF TypeOK, PeopleOK, Ops
    <3> QED  BY <1>1, <3>1 DEF TypeOK, PeopleOK
  <2>3. MirrorOK'
    <3>1. cprice' \in [Bots -> [Items -> Nat]]
      <4>1. cprice \in [Bots -> [Items -> Nat]]  BY DEF TypeOK, MirrorOK
      <4>2. CASE cprice' = [cprice EXCEPT ![Head(toCore).owner] =
                            [@ EXCEPT ![Head(toCore).item] = Head(toCore).price]]
        BY <2>1, <4>1, <4>2, LineSet
      <4> QED  BY <1>1, <4>1, <4>2
    <3> QED  BY <1>1, <3>1 DEF TypeOK, MirrorOK
  <2>4. WiresOK'  BY <1>1, <2>1 DEF TypeOK, WiresOK, TakenByCore
  <2> QED  BY <1>1, <2>2, <2>3, <2>4, Kept DEF TypeOK
<1>2. CASE CoreAdded  BY <1>1, <1>2 DEF CoreAdded
<1>3. CASE CoreEdited  BY <1>1, <1>3 DEF CoreEdited
<1> QED  BY <1>2, <1>3

\* What the core sends when a line has gone.
LEMMA GoneSent ==
  ASSUME TypeOK, NEW b \in Bots, NEW m, m.owner \in Bots, m.item \in Items
  PROVE  /\ Boxed(b, m.item) \in Seq(Requests)
         /\ CloseIfEmpty(m) \in Seq(Requests)
         /\ Without(m) \in [Bots -> [Items -> Nat]]
         /\ Given(b, m.item) \in [Bots -> SUBSET Items]
<1>1. [op |-> "boxadd", owner |-> b, item |-> m.item] \in Requests  BY DEF Requests, Named
<1>2. [op |-> "hardclose", owner |-> m.owner] \in Requests  BY DEF Requests
<1>3. Without(m) \in [Bots -> [Items -> Nat]]
  BY LineSet DEF TypeOK, MirrorOK, Without
<1>4. Given(b, m.item) \in [Bots -> SUBSET Items]  BY DEF TypeOK, PeopleOK, Given
<1> QED  BY <1>1, <1>2, <1>3, <1>4, Single, Nothing DEF Boxed, CloseIfEmpty

LEMMA CoreRemovedTyped ==
  ASSUME TypeOK, NEW room \in BOOLEAN, CoreRemoved(room)
  PROVE  TypeOK'
<1>1. /\ Head(toCore).owner \in Bots /\ Head(toCore).item \in Items
      /\ Tail(toCore) \in Seq(Answers)
  BY CoreTakes, AnswerShapes DEF TypeOK, CoreRemoved
<1>2. PeopleOK'
  <2>1. req' \in [Bots -> Ops \X (Items \cup {None})]
    BY <1>1, Journal DEF TypeOK, PeopleOK, CoreRemoved, Ops
  <2>2. bag' \in [Bots -> SUBSET Items]
    BY <1>1, GoneSent DEF TypeOK, PeopleOK, CoreRemoved
  <2> QED  BY <2>1, <2>2 DEF TypeOK, PeopleOK, CoreRemoved
<1>3. MirrorOK'
  <2>1. cprice' \in [Bots -> [Items -> Nat]]
    BY <1>1, GoneSent DEF TypeOK, MirrorOK, CoreRemoved
  <2> QED  BY <2>1 DEF TypeOK, MirrorOK, CoreRemoved
<1>4. WiresOK'
  <2>1. toDb' \in Seq(Requests)
    <3>1. CASE UNCHANGED toDb  BY <3>1 DEF TypeOK, WiresOK
    <3>2. CASE ToDb(CloseIfEmpty(Head(toCore)))
      BY <1>1, <3>2, GoneSent, Sent DEF TypeOK
    <3>3. CASE ToDb(Boxed(Head(toCore).owner, Head(toCore).item) \o CloseIfEmpty(Head(toCore)))
      BY <1>1, <3>3, GoneSent, Joined, Sent DEF TypeOK
    <3>4. <<>> \o CloseIfEmpty(Head(toCore)) = CloseIfEmpty(Head(toCore))
      BY <1>1, GoneSent, ConcatEmptySeq
    <3> QED  BY <3>1, <3>2, <3>3, <3>4 DEF CoreRemoved
  <2> QED  BY <1>1, <2>1 DEF TypeOK, WiresOK, CoreRemoved, TakenByCore
<1> QED  BY <1>2, <1>3, <1>4, Kept DEF TypeOK, CoreRemoved

LEMMA CoreSoldTyped ==
  ASSUME TypeOK, NEW room \in BOOLEAN, CoreSold(room)
  PROVE  TypeOK'
<1>1. /\ Head(toCore).owner \in Bots /\ Head(toCore).item \in Items
      /\ Head(toCore).who \in Bots /\ Tail(toCore) \in Seq(Answers)
  BY CoreTakes, AnswerShapes DEF TypeOK, CoreSold
<1>2. PeopleOK'
  <2>1. req' \in [Bots -> Ops \X (Items \cup {None})]
    BY <1>1, Journal DEF TypeOK, PeopleOK, CoreSold, Ops
  <2>2. bag' \in [Bots -> SUBSET Items]
    BY <1>1, GoneSent DEF TypeOK, PeopleOK, CoreSold
  <2> QED  BY <2>1, <2>2 DEF TypeOK, PeopleOK, CoreSold
<1>3. MirrorOK'
  <2>1. cprice' \in [Bots -> [Items -> Nat]]
    BY <1>1, GoneSent DEF TypeOK, MirrorOK, CoreSold
  <2> QED  BY <2>1 DEF TypeOK, MirrorOK, CoreSold
<1>4. WiresOK'
  <2>1. toDb' \in Seq(Requests)
    <3>1. CASE UNCHANGED toDb  BY <3>1 DEF TypeOK, WiresOK
    <3>2. CASE ToDb(CloseIfEmpty(Head(toCore)))
      BY <1>1, <3>2, GoneSent, Sent DEF TypeOK
    <3>3. CASE ToDb(Boxed(Head(toCore).who, Head(toCore).item) \o CloseIfEmpty(Head(toCore)))
      BY <1>1, <3>3, GoneSent, Joined, Sent DEF TypeOK
    <3>4. <<>> \o CloseIfEmpty(Head(toCore)) = CloseIfEmpty(Head(toCore))
      BY <1>1, GoneSent, ConcatEmptySeq
    <3> QED  BY <3>1, <3>2, <3>3, <3>4 DEF CoreSold
  <2> QED  BY <1>1, <2>1 DEF TypeOK, WiresOK, CoreSold, TakenByCore
<1> QED  BY <1>2, <1>3, <1>4, Kept DEF TypeOK, CoreSold

LEMMA CorePurchaseTyped ==
  ASSUME TypeOK
  PROVE  /\ CoreRefused => TypeOK'
         /\ CoreLocked => TypeOK'
<1>1. CASE CoreRefused
  <2>1. /\ Head(toCore).who \in Bots /\ Head(toCore).item \in Items
        /\ Tail(toCore) \in Seq(Answers)
    BY <1>1, CoreTakes, AnswerShapes DEF TypeOK, CoreRefused
  <2>2. PeopleOK'
    <3>1. req' \in [Bots -> Ops \X (Items \cup {None})]
      BY <1>1, <2>1, Journal DEF TypeOK, CoreRefused, Ops
    <3> QED  BY <1>1, <3>1 DEF TypeOK, PeopleOK, CoreRefused
  <2>3. WiresOK'  BY <1>1, <2>1 DEF TypeOK, WiresOK, CoreRefused, TakenByCore
  <2> QED  BY <1>1, <2>2, <2>3, Kept DEF TypeOK, CoreRefused
<1>2. CASE CoreLocked
  <2>1. /\ Head(toCore).who \in Bots /\ Head(toCore).owner \in Bots
        /\ Head(toCore).item \in Items /\ Tail(toCore) \in Seq(Answers)
    BY <1>2, CoreTakes, AnswerShapes DEF TypeOK, CoreLocked
  <2>2. PeopleOK'
    <3>1. req' \in [Bots -> Ops \X (Items \cup {None})]
      BY <1>2, <2>1, Journal DEF TypeOK, PeopleOK, CoreLocked, Ops
    <3>2. cprice[Head(toCore).owner][Head(toCore).item] \in Int
      BY <2>1 DEF TypeOK, MirrorOK
    <3>3. gold' \in [Bots -> Int]
      BY <1>2, <2>1, <3>2 DEF TypeOK, PeopleOK, CoreLocked
    <3> QED  BY <1>2, <3>1, <3>3 DEF TypeOK, PeopleOK, CoreLocked
  <2>3. WiresOK'
    <3>1. CanPay(Head(toCore)) \in BOOLEAN  BY DEF CanPay, OnMirror
    <3>2. [op |-> "buy", who |-> Head(toCore).who, owner |-> Head(toCore).owner,
           item |-> Head(toCore).item, success |-> CanPay(Head(toCore))] \in Requests
      BY <2>1, <3>1 DEF Requests
    <3>3. toDb' \in Seq(Requests)  BY <1>2, <3>2, Single, Sent DEF TypeOK, CoreLocked
    <3> QED  BY <1>2, <2>1, <3>3 DEF TypeOK, WiresOK, CoreLocked, TakenByCore
  <2> QED  BY <1>2, <2>2, <2>3, Kept DEF TypeOK, CoreLocked
<1> QED  BY <1>1, <1>2

LEMMA CoreShopTyped ==
  ASSUME TypeOK
  PROVE  /\ CoreYang => TypeOK'
         /\ CoreClosed => TypeOK'
         /\ CoreExpired => TypeOK'
<1>1. CASE CoreYang
  <2>1. /\ Head(toCore).owner \in Bots /\ Head(toCore).yang \in Int
        /\ Tail(toCore) \in Seq(Answers)
    BY <1>1, CoreTakes, AnswerShapes DEF TypeOK, CoreYang
  <2>2. MirrorOK'  BY <1>1, <2>1 DEF TypeOK, MirrorOK, CoreYang
  <2>3. WiresOK'  BY <1>1, <2>1 DEF TypeOK, WiresOK, CoreYang, TakenByCore
  <2> QED  BY <1>1, <2>2, <2>3, Kept DEF TypeOK, CoreYang
<1>2. CASE CoreClosed
  <2>1. Head(toCore).owner \in Bots /\ Tail(toCore) \in Seq(Answers)
    BY <1>2, CoreTakes, AnswerShapes DEF TypeOK, CoreClosed
  <2>2. MirrorOK'  BY <1>2, <2>1 DEF TypeOK, MirrorOK, NoLines, CoreClosed
  <2>3. WiresOK'  BY <1>2, <2>1 DEF TypeOK, WiresOK, CoreClosed, TakenByCore
  <2> QED  BY <1>2, <2>2, <2>3, Kept DEF TypeOK, CoreClosed
<1>3. CASE CoreExpired
  <2>1. Head(toCore).owner \in Bots /\ Tail(toCore) \in Seq(Answers)
    BY <1>3, CoreTakes, AnswerShapes DEF TypeOK, CoreExpired
  <2>2. MirrorOK'  BY <1>3, <2>1 DEF TypeOK, MirrorOK, CoreExpired
  <2>3. WiresOK'  BY <1>3, <2>1 DEF TypeOK, WiresOK, CoreExpired, TakenByCore
  <2> QED  BY <1>3, <2>2, <2>3, Kept DEF TypeOK, CoreExpired
<1> QED  BY <1>1, <1>2, <1>3

LEMMA CoreBoxesTyped ==
  ASSUME TypeOK, NEW room \in BOOLEAN
  PROVE  /\ CoreBoxed => TypeOK'
         /\ CoreConfirm(room) => TypeOK'
         /\ CoreBox => TypeOK'
<1>1. CASE CoreBoxed
  <2>1. /\ Head(toCore).owner \in Bots /\ Head(toCore).item \in Items
        /\ Tail(toCore) \in Seq(Answers)
    BY <1>1, CoreTakes, AnswerShapes DEF TypeOK, CoreBoxed
  <2>2. MirrorOK'  BY <1>1, <2>1 DEF TypeOK, MirrorOK, CoreBoxed
  <2>3. WiresOK'  BY <1>1, <2>1 DEF TypeOK, WiresOK, CoreBoxed, TakenByCore
  <2> QED  BY <1>1, <2>2, <2>3, Kept DEF TypeOK, CoreBoxed
<1>2. CASE CoreConfirm(room)
  <2>1. /\ Head(toCore).owner \in Bots /\ Head(toCore).item \in Items
        /\ Tail(toCore) \in Seq(Answers)
    BY <1>2, CoreTakes, AnswerShapes DEF TypeOK, CoreConfirm
  <2>2. PeopleOK'
    <3>1. req' \in [Bots -> Ops \X (Items \cup {None})]
      BY <1>2, <2>1, Journal DEF TypeOK, CoreConfirm, Ops
    <3>2. bag' \in [Bots -> SUBSET Items]
      BY <1>2, <2>1, GoneSent DEF TypeOK, PeopleOK, CoreConfirm
    <3> QED  BY <1>2, <3>1, <3>2 DEF TypeOK, PeopleOK, CoreConfirm
  <2>3. MirrorOK'  BY <1>2, <2>1 DEF TypeOK, MirrorOK, CoreConfirm
  <2>4. WiresOK'
    <3>1. \A taken \in BOOLEAN :
            <<[op |-> "feedback", owner |-> Head(toCore).owner, item |-> Head(toCore).item,
               success |-> taken]>> \in Seq(Requests)
      <4> TAKE taken \in BOOLEAN
      <4>1. [op |-> "feedback", owner |-> Head(toCore).owner, item |-> Head(toCore).item,
             success |-> taken] \in Requests
        BY <2>1 DEF Requests
      <4> QED  BY <4>1, Single
    <3>2. toDb' \in Seq(Requests)  BY <1>2, <3>1, Sent DEF TypeOK, CoreConfirm
    <3> QED  BY <1>2, <2>1, <3>2 DEF TypeOK, WiresOK, CoreConfirm, TakenByCore
  <2> QED  BY <1>2, <2>2, <2>3, <2>4, Kept DEF TypeOK, CoreConfirm
<1>3. CASE CoreBox
  <2>1. /\ Head(toCore).owner \in Bots /\ Head(toCore).items \in SUBSET Items
        /\ Head(toCore).yang \in Int /\ Tail(toCore) \in Seq(Answers)
    BY <1>3, CoreTakes, AnswerShapes DEF TypeOK, CoreBox
  <2>2. PeopleOK' /\ MirrorOK'  BY <1>3, <2>1 DEF TypeOK, PeopleOK, MirrorOK, CoreBox
  <2>3. WiresOK'  BY <1>3, <2>1 DEF TypeOK, WiresOK, CoreBox, TakenByCore
  <2> QED  BY <1>3, <2>2, <2>3, Kept DEF TypeOK, CoreBox
<1> QED  BY <1>1, <1>2, <1>3

-----------------------------------------------------------------------------
(* The theorems.                                                           *)

LEMMA StartsTyped == Init => TypeOK
<1> SUFFICES ASSUME Init PROVE TypeOK  OBVIOUS
<1>1. PeopleOK  BY StartAssumption DEF Init, PeopleOK, Ops, NoRequest
<1>2. MirrorOK /\ ShopsOK /\ BoxesOK /\ LockedOnSale
  BY DEF Init, MirrorOK, ShopsOK, BoxesOK, LockedOnSale, NoLines
<1>3. WiresOK  BY Nothing DEF Init, WiresOK
<1> QED  BY <1>1, <1>2, <1>3 DEF TypeOK

LEMMA StepsTyped == TypeOK /\ [Next]_vars => TypeOK'
<1> SUFFICES ASSUME TypeOK, [Next]_vars PROVE TypeOK'  OBVIOUS
<1>1. CASE Trade
  <2>1. Owners \subseteq Bots  BY BotsAssumption
  <2> QED
    BY <1>1, <2>1, SubmitTyped, VisitReopenTyped, VisitsTyped, TakingsTyped, VisitProceedsTyped,
       BuyTyped DEF Trade
<1>2. CASE Journeys  BY <1>2, JourneysTyped DEF Journeys
<1>3. CASE DbCore
  BY <1>3, DbQueriesTyped, DbEditTyped, DbRemoveTyped, DbLockTyped, DbBuyTyped,
     DbHardCloseTyped, DbBoxesTyped DEF DbCore
<1>4. CASE SqlResult
  BY <1>4, CreateDoneTyped, PutDoneTyped, AddDoneTyped, BoxAddDoneTyped DEF SqlResult
<1>5. CASE Core
  BY <1>5, CoreCreatedTyped, CoreLinesTyped, CoreRemovedTyped, CoreSoldTyped,
     CorePurchaseTyped, CoreShopTyped, CoreBoxesTyped DEF Core
<1>6. CASE \E o \in Owners : Expire(o)  BY <1>6, BotsAssumption, ExpireTyped
<1>7. CASE UNCHANGED vars
  <2>1. WiresOK'  BY <1>7 DEF TypeOK, WiresOK, vars
  <2> QED  BY <1>7, <2>1, Kept DEF TypeOK, vars
<1> QED  BY <1>1, <1>2, <1>3, <1>4, <1>5, <1>6, <1>7 DEF Next

\* Both cores' shops, safeboxes and packets keep their types, and whatever the
\* db core has locked for a buyer is on sale there: neither its owner nor the
\* closing of an empty shop takes it away (IkarusShopCache.cpp, RemoveItem).
THEOREM TypeCorrect == Spec => []TypeOK
  BY StartsTyped, StepsTyped, PTL DEF Spec

LEMMA PriceStep ==
  ASSUME TypeOK, [Next]_vars
  PROVE  [\A line \in locked \cap locked' :
            dprice'[line[1]][line[2]] = dprice[line[1]][line[2]]]_vars
<1> SUFFICES ASSUME NEW line \in locked \cap locked'
             PROVE  dprice'[line[1]][line[2]] = dprice[line[1]][line[2]]
  OBVIOUS
<1>1. /\ line = <<line[1], line[2]>> /\ line[1] \in Bots /\ line[2] \in Items
      /\ dprice[line[1]][line[2]] > 0
  BY DEF TypeOK, ShopsOK, LockedOnSale, HasLine
<1>2. CASE UNCHANGED dprice  BY <1>2
<1>3. CASE DbEdit
  <2>1. Head(toDb).owner \in Bots /\ Head(toDb).item \in Items /\ Head(toDb).price \in Nat \ {0}
    BY <1>3, DbTakes, RequestShapes DEF TypeOK, DbEdit
  <2>2. CASE /\ <<Head(toDb).owner, Head(toDb).item>> \notin locked
             /\ dprice' = [dprice EXCEPT ![Head(toDb).owner] =
                            [@ EXCEPT ![Head(toDb).item] = Head(toDb).price]]
    <3>1. \A q \in Bots, j \in Items : <<q, j>> # <<Head(toDb).owner, Head(toDb).item>> =>
            dprice'[q][j] = dprice[q][j]
      BY <2>1, <2>2, LineSet DEF TypeOK, ShopsOK
    <3>2. line # <<Head(toDb).owner, Head(toDb).item>>  BY <2>2
    <3> QED  BY <1>1, <3>1, <3>2
  <2> QED  BY <1>2, <1>3, <2>2 DEF DbEdit, Repriced
<1>4. CASE DbRemove
  <2>1. Head(toDb).owner \in Bots /\ Head(toDb).item \in Items
    BY <1>4, DbTakes, RequestShapes DEF TypeOK, DbRemove
  <2>2. CASE /\ <<Head(toDb).owner, Head(toDb).item>> \notin locked
             /\ dprice' = [dprice EXCEPT ![Head(toDb).owner] = [@ EXCEPT ![Head(toDb).item] = 0]]
    <3>1. \A q \in Bots, j \in Items : <<q, j>> # <<Head(toDb).owner, Head(toDb).item>> =>
            dprice'[q][j] = dprice[q][j]
      BY <2>1, <2>2, LineSet DEF TypeOK, ShopsOK
    <3>2. line # <<Head(toDb).owner, Head(toDb).item>>  BY <2>2
    <3> QED  BY <1>1, <3>1, <3>2
  <2> QED  BY <1>2, <1>4, <2>2 DEF DbRemove
<1>5. CASE DbBuy
  <2>1. Head(toDb).owner \in Bots /\ Head(toDb).item \in Items
    BY <1>5, DbTakes, RequestShapes DEF TypeOK, DbBuy
  <2>2. CASE /\ locked' = locked \ {<<Head(toDb).owner, Head(toDb).item>>}
             /\ dprice' = [dprice EXCEPT ![Head(toDb).owner] = [@ EXCEPT ![Head(toDb).item] = 0]]
    <3>1. \A q \in Bots, j \in Items : <<q, j>> # <<Head(toDb).owner, Head(toDb).item>> =>
            dprice'[q][j] = dprice[q][j]
      BY <2>1, <2>2, LineSet DEF TypeOK, ShopsOK
    <3>2. line # <<Head(toDb).owner, Head(toDb).item>>  BY <2>2
    <3> QED  BY <1>1, <3>1, <3>2
  <2> QED  BY <1>2, <1>5, <2>2 DEF DbBuy
<1>6. ASSUME NEW o \in Bots, NEW i \in Items, NEW p \in Nat, Put(o, i, p)
      PROVE  dprice'[line[1]][line[2]] = dprice[line[1]][line[2]]
  <2>1. CASE dprice[o][i] = 0 /\ dprice' = [dprice EXCEPT ![o] = [@ EXCEPT ![i] = p]]
    BY <1>1, <2>1, LineSet DEF TypeOK, ShopsOK
  <2> QED  BY <1>2, <1>6, <2>1 DEF Put
<1>7. CASE PutDone
  <2>1. Head(sql).owner \in Bots /\ Head(sql).lines \in [Items -> Nat]
    BY <1>7, SqlTakes, QueryShapes DEF TypeOK, PutDone
  <2>2. PICK i \in Items : Put(Head(sql).owner, i, Head(sql).lines[i])  BY <1>7 DEF PutDone
  <2> QED  BY <1>6, <2>1, <2>2
<1>8. CASE AddDone
  <2>1. Head(sql).owner \in Bots /\ Head(sql).item \in Items /\ Head(sql).price \in Nat \ {0}
    BY <1>8, SqlTakes, QueryShapes DEF TypeOK, AddDone
  <2> QED  BY <1>6, <1>8, <2>1 DEF AddDone
<1>9. \/ UNCHANGED dprice \/ DbEdit \/ DbRemove \/ DbBuy \/ PutDone \/ AddDone
  <2>1. CASE Trade
    BY <2>1 DEF Trade, Submit, Visit, VisitReopen, VisitAdd, VisitEdit, VisitRemove,
                VisitWithdraw, VisitProceeds, Buy, dshops
  <2>2. CASE Journeys  BY <2>2 DEF Journeys, Leave, AskIn, Enter, dshops
  <2>3. CASE DbCore
    BY <2>3 DEF DbCore, DbCreate, DbAdd, DbLock, DbHardClose, DbGetYang, DbGetItem,
                DbFeedback, DbBoxAdd, DbLoadBox, dshops
  <2>4. CASE SqlResult  BY <2>4 DEF SqlResult, CreateDone, BoxAddDone, dshops
  <2>5. CASE Core
    BY <2>5 DEF Core, CoreCreated, CoreAdded, CoreEdited, CoreRefused, CoreLocked, CoreYang,
                CoreClosed, CoreExpired, CoreBoxed, CoreBox, CoreRemoved, CoreSold,
                CoreConfirm, dshops
  <2>6. CASE \E o \in Owners : Expire(o)  BY <2>6 DEF Expire
  <2> QED  BY <2>1, <2>2, <2>3, <2>4, <2>5, <2>6 DEF Next, vars, dshops
<1> QED  BY <1>2, <1>3, <1>4, <1>5, <1>7, <1>8, <1>9

\* Between the lock and the purchase a price stands, whatever its owner asks
\* for meanwhile (IkarusShopCache.cpp, EditItem): the db core credits what the
\* buyer agreed to.
THEOREM PriceStands == Spec => PriceHolds
  BY TypeCorrect, PriceStep, PTL DEF Spec, PriceHolds

-----------------------------------------------------------------------------
(* What is in a queue: a packet of a kind, one at most, one before another. *)

Has(q, S) == \E n \in 1..Len(q) : q[n] \in S
Ones(q, S) == \A m, n \in 1..Len(q) : q[m] \in S /\ q[n] \in S => m = n
Before(q, S, T) == \A m, n \in 1..Len(q) : q[m] \in S /\ q[n] \in T => m < n

LEMMA QueueTaken ==
  ASSUME NEW X, NEW q \in Seq(X), q # <<>>
  PROVE  /\ \A S : Has(q, S) <=> Head(q) \in S \/ Has(Tail(q), S)
         /\ \A S : Ones(q, S) => Ones(Tail(q), S) /\ ~(Head(q) \in S /\ Has(Tail(q), S))
         /\ \A S, T : Before(q, S, T) =>
               Before(Tail(q), S, T) /\ (Head(q) \in T => ~Has(q, S))
<1>1. /\ Head(q) = q[1] /\ Len(q) \in Nat /\ Len(q) > 0 /\ Len(Tail(q)) = Len(q) - 1
      /\ \A n \in 1..Len(q) - 1 : Tail(q)[n] = q[n + 1]
  BY HeadTailProperties, EmptySeq
<1>2. ASSUME NEW S PROVE Has(q, S) <=> Head(q) \in S \/ Has(Tail(q), S)
  <2>1. ASSUME NEW n \in 1..Len(q), q[n] \in S PROVE Head(q) \in S \/ Has(Tail(q), S)
    <3>1. CASE n = 1  BY <1>1, <2>1, <3>1
    <3>2. CASE n # 1
      <4>1. n - 1 \in 1..Len(Tail(q)) /\ Tail(q)[n - 1] = q[n]  BY <1>1, <3>2
      <4> QED  BY <2>1, <4>1 DEF Has
    <3> QED  BY <3>1, <3>2
  <2>2. ASSUME NEW n \in 1..Len(Tail(q)), Tail(q)[n] \in S PROVE Has(q, S)
    <3>1. n + 1 \in 1..Len(q) /\ q[n + 1] = Tail(q)[n]  BY <1>1
    <3> QED  BY <2>2, <3>1 DEF Has
  <2>3. 1 \in 1..Len(q)  BY <1>1
  <2> QED  BY <1>1, <2>1, <2>2, <2>3 DEF Has
<1>3. ASSUME NEW S, Ones(q, S) PROVE Ones(Tail(q), S) /\ ~(Head(q) \in S /\ Has(Tail(q), S))
  <2>1. ASSUME NEW m \in 1..Len(Tail(q)), NEW n \in 1..Len(Tail(q)),
               Tail(q)[m] \in S, Tail(q)[n] \in S
        PROVE  m = n
    <3>1. m + 1 \in 1..Len(q) /\ n + 1 \in 1..Len(q) /\ q[m + 1] \in S /\ q[n + 1] \in S
      BY <1>1, <2>1
    <3>2. m + 1 = n + 1  BY <1>3, <3>1 DEF Ones
    <3> QED  BY <3>2
  <2>2. ASSUME NEW n \in 1..Len(Tail(q)), Tail(q)[n] \in S, Head(q) \in S PROVE FALSE
    <3>1. n + 1 \in 1..Len(q) /\ 1 \in 1..Len(q) /\ q[n + 1] \in S /\ q[1] \in S
      BY <1>1, <2>2
    <3>2. n + 1 = 1  BY <1>3, <3>1 DEF Ones
    <3> QED  BY <1>1, <3>2
  <2> QED  BY <2>1, <2>2 DEF Ones, Has
<1>4. ASSUME NEW S, NEW T, Before(q, S, T)
      PROVE  Before(Tail(q), S, T) /\ (Head(q) \in T => ~Has(q, S))
  <2>1. ASSUME NEW m \in 1..Len(Tail(q)), NEW n \in 1..Len(Tail(q)),
               Tail(q)[m] \in S, Tail(q)[n] \in T
        PROVE  m < n
    <3>1. m + 1 \in 1..Len(q) /\ n + 1 \in 1..Len(q) /\ q[m + 1] \in S /\ q[n + 1] \in T
      BY <1>1, <2>1
    <3>2. m + 1 < n + 1  BY <1>4, <3>1 DEF Before
    <3> QED  BY <1>1, <3>2
  <2>2. ASSUME NEW m \in 1..Len(q), q[m] \in S, Head(q) \in T PROVE FALSE
    <3>1. 1 \in 1..Len(q) /\ q[1] \in T  BY <1>1, <2>2
    <3>2. m < 1  BY <1>4, <2>2, <3>1 DEF Before
    <3> QED  BY <1>1, <3>2
  <2> QED  BY <2>1, <2>2 DEF Before, Has
<1> QED  BY <1>2, <1>3, <1>4

LEMMA QueueJoined ==
  ASSUME NEW X, NEW q \in Seq(X), NEW r \in Seq(X)
  PROVE  /\ \A S : Has(q \o r, S) <=> Has(q, S) \/ Has(r, S)
         /\ \A S : Ones(q, S) /\ Ones(r, S) /\ ~(Has(q, S) /\ Has(r, S)) => Ones(q \o r, S)
         /\ \A S, T : Before(q, S, T) /\ Before(r, S, T) /\ ~(Has(q, T) /\ Has(r, S)) =>
                        Before(q \o r, S, T)
<1> DEFINE s == q \o r
<1>1. /\ Len(q) \in Nat /\ Len(r) \in Nat /\ Len(s) = Len(q) + Len(r)
      /\ \A n \in 1..Len(q) : s[n] = q[n]
      /\ \A n \in 1..Len(r) : s[Len(q) + n] = r[n]
  <2>1. \A n \in 1..Len(q) + Len(r) : s[n] = IF n <= Len(q) THEN q[n] ELSE r[n - Len(q)]
    BY ConcatProperties
  <2>2. Len(q) \in Nat /\ Len(r) \in Nat /\ Len(s) = Len(q) + Len(r)
    BY ConcatProperties, LenProperties
  <2>3. ASSUME NEW n \in 1..Len(q) PROVE s[n] = q[n]  BY <2>1, <2>2
  <2>4. ASSUME NEW n \in 1..Len(r) PROVE s[Len(q) + n] = r[n]
    <3>1. Len(q) + n \in 1..Len(q) + Len(r) /\ ~(Len(q) + n <= Len(q)) /\ Len(q) + n - Len(q) = n
      BY <2>2
    <3> QED  BY <2>1, <3>1
  <2> QED  BY <2>2, <2>3, <2>4
<1> HIDE DEF s
<1>2. ASSUME NEW n \in 1..Len(s)
      PROVE  \/ n \in 1..Len(q) /\ s[n] = q[n]
             \/ n > Len(q) /\ n - Len(q) \in 1..Len(r) /\ s[n] = r[n - Len(q)]
  <2>1. CASE n <= Len(q)  BY <1>1, <2>1
  <2>2. CASE n > Len(q)
    <3>1. n - Len(q) \in 1..Len(r) /\ Len(q) + (n - Len(q)) = n  BY <1>1, <2>2
    <3> QED  BY <1>1, <2>2, <3>1
  <2> QED  BY <1>1, <2>1, <2>2
<1>3. ASSUME NEW S PROVE Has(s, S) <=> Has(q, S) \/ Has(r, S)
  <2>1. Has(s, S) => Has(q, S) \/ Has(r, S)  BY <1>2 DEF Has
  <2>2. ASSUME NEW n \in 1..Len(q), q[n] \in S PROVE Has(s, S)
    <3>1. n \in 1..Len(s)  BY <1>1
    <3> QED  BY <1>1, <2>2, <3>1 DEF Has
  <2>3. ASSUME NEW n \in 1..Len(r), r[n] \in S PROVE Has(s, S)
    <3>1. Len(q) + n \in 1..Len(s)  BY <1>1
    <3> QED  BY <1>1, <2>3, <3>1 DEF Has
  <2> QED  BY <2>1, <2>2, <2>3 DEF Has
<1>4. ASSUME NEW S, Ones(q, S), Ones(r, S), ~(Has(q, S) /\ Has(r, S)) PROVE Ones(s, S)
  <2>1. ASSUME NEW m \in 1..Len(s), NEW n \in 1..Len(s), s[m] \in S, s[n] \in S PROVE m = n
    <3>1. CASE m \in 1..Len(q) /\ s[m] = q[m]
      <4>1. Has(q, S)  BY <2>1, <3>1 DEF Has
      <4>2. n \in 1..Len(q) /\ s[n] = q[n]  BY <1>2, <1>4, <2>1, <4>1 DEF Has
      <4> QED  BY <1>4, <2>1, <3>1, <4>2 DEF Ones
    <3>2. CASE m > Len(q) /\ m - Len(q) \in 1..Len(r) /\ s[m] = r[m - Len(q)]
      <4>1. Has(r, S)  BY <2>1, <3>2 DEF Has
      <4>2. n > Len(q) /\ n - Len(q) \in 1..Len(r) /\ s[n] = r[n - Len(q)]
        BY <1>2, <1>4, <2>1, <4>1 DEF Has
      <4>3. m - Len(q) = n - Len(q)  BY <1>4, <2>1, <3>2, <4>2 DEF Ones
      <4> QED  BY <1>1, <4>3
    <3> QED  BY <1>2, <3>1, <3>2
  <2> QED  BY <2>1 DEF Ones
<1>5. ASSUME NEW S, NEW T, Before(q, S, T), Before(r, S, T), ~(Has(q, T) /\ Has(r, S))
      PROVE  Before(s, S, T)
  <2>1. ASSUME NEW m \in 1..Len(s), NEW n \in 1..Len(s), s[m] \in S, s[n] \in T PROVE m < n
    <3>1. CASE m \in 1..Len(q) /\ s[m] = q[m]
      <4>1. CASE n \in 1..Len(q) /\ s[n] = q[n]  BY <1>5, <2>1, <3>1, <4>1 DEF Before
      <4>2. CASE n > Len(q)  BY <1>1, <3>1, <4>2
      <4> QED  BY <1>2, <4>1, <4>2
    <3>2. CASE m > Len(q) /\ m - Len(q) \in 1..Len(r) /\ s[m] = r[m - Len(q)]
      <4>1. Has(r, S)  BY <2>1, <3>2 DEF Has
      <4>2. n > Len(q) /\ n - Len(q) \in 1..Len(r) /\ s[n] = r[n - Len(q)]
        BY <1>2, <1>5, <2>1, <4>1 DEF Has
      <4>3. m - Len(q) < n - Len(q)  BY <1>5, <2>1, <3>2, <4>2 DEF Before
      <4> QED  BY <1>1, <4>3
    <3> QED  BY <1>2, <3>1, <3>2
  <2> QED  BY <2>1 DEF Before
<1> QED  BY <1>3, <1>4, <1>5 DEF s

LEMMA ShortQueues ==
  /\ \A S : ~Has(<<>>, S) /\ Ones(<<>>, S)
  /\ \A S, x : (Has(<<x>>, S) <=> x \in S) /\ Ones(<<x>>, S)
  /\ \A S, x, y : (Has(<<x, y>>, S) <=> x \in S \/ y \in S)
                  /\ (~(x \in S /\ y \in S) => Ones(<<x, y>>, S))
  /\ \A S, T : Before(<<>>, S, T)
  /\ \A S, T, x : ~(x \in S /\ x \in T) => Before(<<x>>, S, T)
<1>1. ASSUME NEW x, NEW S PROVE (Has(<<x>>, S) <=> x \in S) /\ Ones(<<x>>, S)
  <2>1. Len(<<x>>) = 1 /\ <<x>>[1] = x  OBVIOUS
  <2>2. 1..1 = {1}  OBVIOUS
  <2> QED  BY <2>1, <2>2 DEF Has, Ones
<1>2. ASSUME NEW x, NEW y, NEW S
      PROVE  /\ Has(<<x, y>>, S) <=> x \in S \/ y \in S
             /\ ~(x \in S /\ y \in S) => Ones(<<x, y>>, S)
  <2>1. Len(<<x, y>>) = 2 /\ <<x, y>>[1] = x /\ <<x, y>>[2] = y  OBVIOUS
  <2>2. 1..2 = {1, 2}  OBVIOUS
  <2> QED  BY <2>1, <2>2 DEF Has, Ones
<1>3. ASSUME NEW x, NEW S, NEW T, ~(x \in S /\ x \in T) PROVE Before(<<x>>, S, T)
  <2>1. Len(<<x>>) = 1 /\ <<x>>[1] = x  OBVIOUS
  <2>2. 1..1 = {1}  OBVIOUS
  <2> QED  BY <1>3, <2>1, <2>2 DEF Before
<1>4. \A S, T : ~Has(<<>>, S) /\ Ones(<<>>, S) /\ Before(<<>>, S, T)
  <2>1. Len(<<>>) = 0 /\ 1..0 = {}  OBVIOUS
  <2> QED  BY <2>1 DEF Has, Ones, Before
<1> QED  BY <1>1, <1>2, <1>3, <1>4

\* One packet more.
LEMMA QueueSent ==
  ASSUME NEW X, NEW q \in Seq(X), NEW x \in X
  PROVE  /\ \A S : Has(q \o <<x>>, S) <=> Has(q, S) \/ x \in S
         /\ \A S : Ones(q, S) /\ ~(Has(q, S) /\ x \in S) => Ones(q \o <<x>>, S)
         /\ \A S, T : Before(q, S, T) /\ x \notin S => Before(q \o <<x>>, S, T)
         /\ \A S, T : Before(q, S, T) /\ ~(x \in S /\ x \in T) /\ ~Has(q, T) => Before(q \o <<x>>, S, T)
<1>1. <<x>> \in Seq(X)  BY Single
<1>2. \A S : (Has(<<x>>, S) <=> x \in S) /\ Ones(<<x>>, S)  BY ShortQueues
<1>3. \A S, T : ~(x \in S /\ x \in T) => Before(<<x>>, S, T)  BY ShortQueues
<1>4. /\ \A S : Has(q \o <<x>>, S) <=> Has(q, S) \/ Has(<<x>>, S)
      /\ \A S : Ones(q, S) /\ Ones(<<x>>, S) /\ ~(Has(q, S) /\ Has(<<x>>, S)) => Ones(q \o <<x>>, S)
      /\ \A S, T : Before(q, S, T) /\ Before(<<x>>, S, T) /\ ~(Has(q, T) /\ Has(<<x>>, S)) =>
                     Before(q \o <<x>>, S, T)
  BY <1>1, QueueJoined
<1> QED  BY <1>2, <1>3, <1>4

\* The packets of a set neither leave a queue nor join it.
Untouched(q, r, X, S) ==
  \/ r = q
  \/ q # <<>> /\ r = Tail(q) /\ Head(q) \notin S
  \/ \E ms \in Seq(X) : r = q \o ms /\ ~Has(ms, S)

LEMMA UntouchedKeeps ==
  ASSUME NEW X, NEW q \in Seq(X), NEW r, NEW S, Untouched(q, r, X, S)
  PROVE  /\ \A T \in SUBSET S : (Has(r, T) <=> Has(q, T)) /\ (Ones(q, T) => Ones(r, T))
         /\ \A T, U \in SUBSET S : Before(q, T, U) => Before(r, T, U)
<1>1. CASE r = q  BY <1>1
<1>2. CASE q # <<>> /\ r = Tail(q) /\ Head(q) \notin S  BY <1>2, QueueTaken
<1>3. ASSUME NEW ms \in Seq(X), r = q \o ms, ~Has(ms, S)
      PROVE  /\ \A T \in SUBSET S : (Has(r, T) <=> Has(q, T)) /\ (Ones(q, T) => Ones(r, T))
             /\ \A T, U \in SUBSET S : Before(q, T, U) => Before(r, T, U)
  <2>1. \A T \in SUBSET S : ~Has(ms, T) /\ Ones(ms, T)  BY <1>3 DEF Has, Ones
  <2>2. \A T, U \in SUBSET S : Before(ms, T, U)  BY <1>3 DEF Has, Before
  <2> QED  BY <1>3, <2>1, <2>2, QueueJoined
<1> QED  BY <1>1, <1>2, <1>3 DEF Untouched

-----------------------------------------------------------------------------
(* What a step does to the wires: only packets of these kinds come or go.  *)

But(X, ops) == {m \in X : m.op \notin ops}
DbWire(ops) == Untouched(toDb, toDb', Requests, But(Requests, ops))
CoreWire(ops) == Untouched(toCore, toCore', Answers, But(Answers, ops))

LEMMA OfKinds ==
  ASSUME NEW X, NEW ops
  PROVE  /\ <<>> \in Seq(X) /\ ~Has(<<>>, But(X, ops))
         /\ \A m \in X : m.op \in ops => <<m>> \in Seq(X) /\ ~Has(<<m>>, But(X, ops))
         /\ \A m, n \in X : m.op \in ops /\ n.op \in ops =>
               <<m, n>> \in Seq(X) /\ ~Has(<<m, n>>, But(X, ops))
         /\ \A r, s \in Seq(X) : ~Has(r, But(X, ops)) /\ ~Has(s, But(X, ops)) =>
               r \o s \in Seq(X) /\ ~Has(r \o s, But(X, ops))
         /\ \A m \in X, c \in BOOLEAN : m.op \in ops =>
               LET ms == IF c THEN <<m>> ELSE <<>>
               IN  ms \in Seq(X) /\ ~Has(ms, But(X, ops))
<1>1. \A r, s \in Seq(X) : ~Has(r, But(X, ops)) /\ ~Has(s, But(X, ops)) =>
               r \o s \in Seq(X) /\ ~Has(r \o s, But(X, ops))
  BY QueueJoined, ConcatProperties
<1>2. \A m \in X : m.op \in ops => <<m>> \in Seq(X) /\ ~Has(<<m>>, But(X, ops))
  BY ShortQueues, Single DEF But
<1>3. \A m, n \in X : m.op \in ops /\ n.op \in ops =>
        <<m, n>> \in Seq(X) /\ ~Has(<<m, n>>, But(X, ops))
  BY ShortQueues, Two DEF But
<1> QED  BY <1>1, <1>2, <1>3, ShortQueues, Nothing

LEMMA Wired ==
  ASSUME WiresOK, NEW ops
  PROVE  /\ UNCHANGED toDb => DbWire(ops)
         /\ UNCHANGED toCore => CoreWire(ops)
         /\ \A ms \in Seq(Requests) : ToDb(ms) /\ ~Has(ms, But(Requests, ops)) => DbWire(ops)
         /\ \A ms \in Seq(Answers) : ToCore(ms) /\ ~Has(ms, But(Answers, ops)) => CoreWire(ops)
         /\ \A op \in ops : AtDb(op) /\ TakenByDb => DbWire(ops)
         /\ \A op \in ops : AtCore(op) /\ TakenByCore => CoreWire(ops)
  BY DEF DbWire, CoreWire, Untouched, ToDb, ToCore, AtDb, AtCore, TakenByDb, TakenByCore, But

LEMMA SubmitWires ==
  ASSUME TypeOK, NEW o \in Bots, NEW offer \in Lines, Submit(o, offer)
  PROVE  DbWire({"create"}) /\ CoreWire({}) /\ sql' = sql
<1>1. offer \in [Items -> Nat]  BY PriceAssumption DEF Lines
<1>2. [op |-> "create", owner |-> o, lines |-> offer] \in Requests
  BY <1>1 DEF Requests, Stocking
<1>3. DbWire({"create"})  BY <1>2, OfKinds, Wired DEF TypeOK, Submit
<1> QED  BY <1>3, Wired DEF TypeOK, Submit

LEMMA VisitWires ==
  ASSUME TypeOK, NEW o \in Bots, NEW op, NEW i, NEW m \in Requests, Visit(o, op, i, m)
  PROVE  DbWire({"getyang", m.op}) /\ CoreWire({}) /\ sql' = sql
<1> DEFINE ops == {"getyang", m.op}
<1>1. Claim(o) \in Seq(Requests) /\ ~Has(Claim(o), But(Requests, ops))
  <2>1. [op |-> "getyang", owner |-> o, yang |-> Claimable(o)] \in Requests
    BY ClaimableIs DEF Requests, Paid
  <2>2. ~Has(<<[op |-> "getyang", owner |-> o, yang |-> Claimable(o)]>>, But(Requests, ops))
        /\ <<[op |-> "getyang", owner |-> o, yang |-> Claimable(o)]>> \in Seq(Requests)
    BY <2>1, OfKinds
  <2> QED  BY <2>2, ShortQueues, Nothing DEF Claim
<1>2. <<m>> \in Seq(Requests) /\ ~Has(<<m>>, But(Requests, ops))  BY OfKinds
<1>3. Claim(o) \o <<m>> \in Seq(Requests) /\ ~Has(Claim(o) \o <<m>>, But(Requests, ops))
  BY <1>1, <1>2, OfKinds
<1>4. DbWire(ops)  BY <1>3, Wired DEF TypeOK, Visit
<1> QED  BY <1>4, Wired DEF TypeOK, Visit

\* The packets of the visits.
LEMMA VisitPackets ==
  ASSUME NEW o \in Bots, NEW i \in Items, NEW p \in Prices[i]
  PROVE  /\ [op |-> "create", owner |-> o, lines |-> NoLines] \in Requests
         /\ [op |-> "add", owner |-> o, item |-> i, price |-> p] \in Requests
         /\ [op |-> "edit", owner |-> o, item |-> i, price |-> p] \in Requests
         /\ [op |-> "remove", owner |-> o, item |-> i] \in Requests
         /\ [op |-> "getitem", owner |-> o, item |-> i] \in Requests
<1>1. p \in Nat \ {0}  BY PriceAssumption
<1>2. NoLines \in [Items -> Nat]  BY DEF NoLines
<1> QED  BY <1>1, <1>2 DEF Requests, Stocking, Priced, Named

LEMMA TradeWires ==
  ASSUME TypeOK, NEW o \in Bots
  PROVE  /\ VisitReopen(o) => DbWire({"getyang", "create"}) /\ CoreWire({}) /\ sql' = sql
         /\ \A i \in Items : \A p \in Prices[i] :
              /\ VisitAdd(o, i, p) => DbWire({"getyang", "add"}) /\ CoreWire({}) /\ sql' = sql
              /\ VisitEdit(o, i, p) => DbWire({"getyang", "edit"}) /\ CoreWire({}) /\ sql' = sql
         /\ \A i \in Items :
              /\ VisitRemove(o, i) => DbWire({"getyang", "remove"}) /\ CoreWire({}) /\ sql' = sql
              /\ VisitWithdraw(o, i) => DbWire({"getyang", "getitem"}) /\ CoreWire({}) /\ sql' = sql
         /\ VisitProceeds(o) => DbWire({"getyang"}) /\ CoreWire({}) /\ sql' = sql
         /\ \A b \in Bots, i \in Items : Buy(b, o, i) => DbWire({"lock"}) /\ CoreWire({}) /\ sql' = sql
<1>1. ASSUME VisitReopen(o) PROVE DbWire({"getyang", "create"}) /\ CoreWire({}) /\ sql' = sql
  <2>1. [op |-> "create", owner |-> o, lines |-> NoLines] \in Requests
    BY DEF Requests, Stocking, NoLines
  <2> QED  BY <1>1, <2>1, VisitWires DEF VisitReopen
<1>2. ASSUME NEW i \in Items, NEW p \in Prices[i], VisitAdd(o, i, p)
      PROVE  DbWire({"getyang", "add"}) /\ CoreWire({}) /\ sql' = sql
  BY <1>2, VisitPackets, VisitWires DEF VisitAdd
<1>3. ASSUME NEW i \in Items, NEW p \in Prices[i], VisitEdit(o, i, p)
      PROVE  DbWire({"getyang", "edit"}) /\ CoreWire({}) /\ sql' = sql
  BY <1>3, VisitPackets, VisitWires DEF VisitEdit
<1>4. ASSUME NEW i \in Items, VisitRemove(o, i)
      PROVE  DbWire({"getyang", "remove"}) /\ CoreWire({}) /\ sql' = sql
  <2>1. [op |-> "remove", owner |-> o, item |-> i] \in Requests  BY DEF Requests, Named
  <2> QED  BY <1>4, <2>1, VisitWires DEF VisitRemove
<1>5. ASSUME NEW i \in Items, VisitWithdraw(o, i)
      PROVE  DbWire({"getyang", "getitem"}) /\ CoreWire({}) /\ sql' = sql
  <2>1. [op |-> "getitem", owner |-> o, item |-> i] \in Requests  BY DEF Requests, Named
  <2> QED  BY <1>5, <2>1, VisitWires DEF VisitWithdraw
<1>6. ASSUME VisitProceeds(o) PROVE DbWire({"getyang"}) /\ CoreWire({}) /\ sql' = sql
  <2>1. [op |-> "getyang", owner |-> o, yang |-> Claimable(o)] \in Requests
    BY ClaimableIs DEF Requests, Paid
  <2>2. DbWire({"getyang"})
    BY <1>6, <2>1, OfKinds, Wired DEF TypeOK, VisitProceeds, Claim
  <2> QED  BY <1>6, <2>2, Wired DEF TypeOK, VisitProceeds
<1>7. ASSUME NEW b \in Bots, NEW i \in Items, Buy(b, o, i)
      PROVE  DbWire({"lock"}) /\ CoreWire({}) /\ sql' = sql
  <2>1. [op |-> "lock", who |-> b, owner |-> o, item |-> i, seen |-> cprice[o][i]] \in Requests
    BY DEF TypeOK, MirrorOK, Requests
  <2>2. DbWire({"lock"})  BY <1>7, <2>1, OfKinds, Wired DEF TypeOK, Buy
  <2> QED  BY <1>7, <2>2, Wired DEF TypeOK, Buy
<1> QED  BY <1>1, <1>2, <1>3, <1>4, <1>5, <1>6, <1>7

LEMMA JourneyWires ==
  ASSUME TypeOK, NEW b \in Bots
  PROVE  /\ Leave(b) => DbWire({}) /\ CoreWire({}) /\ sql' = sql
         /\ AskIn(b) => DbWire({"loadbox"}) /\ CoreWire({}) /\ sql' = sql
         /\ Enter(b) => DbWire({}) /\ CoreWire({}) /\ sql' = sql
         /\ Expire(b) => DbWire({}) /\ CoreWire({"expired"}) /\ sql' = sql
<1>1. Leave(b) \/ Enter(b) => DbWire({}) /\ CoreWire({}) /\ sql' = sql
  BY Wired DEF TypeOK, Leave, Enter
<1>2. ASSUME AskIn(b) PROVE DbWire({"loadbox"}) /\ CoreWire({}) /\ sql' = sql
  <2>1. [op |-> "loadbox", owner |-> b] \in Requests  BY DEF Requests
  <2>2. DbWire({"loadbox"})  BY <1>2, <2>1, OfKinds, Wired DEF TypeOK, AskIn
  <2> QED  BY <1>2, <2>2, Wired DEF TypeOK, AskIn
<1>3. ASSUME Expire(b) PROVE DbWire({}) /\ CoreWire({"expired"}) /\ sql' = sql
  <2>1. [op |-> "expired", owner |-> b] \in Answers  BY DEF Answers
  <2>2. CoreWire({"expired"})  BY <1>3, <2>1, OfKinds, Wired DEF TypeOK, Expire
  <2> QED  BY <1>3, <2>2, Wired DEF TypeOK, Expire
<1> QED  BY <1>1, <1>2, <1>3

LEMMA DbWires ==
  ASSUME TypeOK
  PROVE  /\ DbCreate => DbWire({"create"}) /\ CoreWire({})
         /\ DbAdd => DbWire({"add"}) /\ CoreWire({})
         /\ DbBoxAdd => DbWire({"boxadd"}) /\ CoreWire({})
         /\ DbEdit => DbWire({"edit"}) /\ CoreWire({"edited"}) /\ sql' = sql
         /\ DbRemove => DbWire({"remove"}) /\ CoreWire({"removed"}) /\ sql' = sql
         /\ DbLock => DbWire({"lock"}) /\ CoreWire({"locked", "refused"}) /\ sql' = sql
         /\ DbBuy => DbWire({"buy"}) /\ CoreWire({"yang", "sold"}) /\ sql' = sql
         /\ DbHardClose => DbWire({"hardclose"}) /\ CoreWire({"closed"}) /\ sql' = sql
         /\ DbGetYang => DbWire({"getyang"}) /\ CoreWire({}) /\ sql' = sql
         /\ DbGetItem => DbWire({"getitem"}) /\ CoreWire({"confirm"}) /\ sql' = sql
         /\ DbFeedback => DbWire({"feedback"}) /\ CoreWire({}) /\ sql' = sql
         /\ DbLoadBox => DbWire({"loadbox"}) /\ CoreWire({"box"}) /\ sql' = sql
<1> DEFINE m == Head(toDb)
<1>1. \A op : AtDb(op) => m \in Requests /\ m.op = op  BY DbTakes DEF TypeOK
<1>2. DbCreate => DbWire({"create"}) /\ CoreWire({})  BY Wired DEF TypeOK, DbCreate
<1>3. DbAdd => DbWire({"add"}) /\ CoreWire({})  BY Wired DEF TypeOK, DbAdd
<1>4. DbBoxAdd => DbWire({"boxadd"}) /\ CoreWire({})  BY Wired DEF TypeOK, DbBoxAdd
<1>5. ASSUME DbEdit PROVE DbWire({"edit"}) /\ CoreWire({"edited"}) /\ sql' = sql
  <2>1. [op |-> "edited", owner |-> m.owner, item |-> m.item, price |-> m.price] \in Answers
    BY <1>1, <1>5, RequestShapes DEF DbEdit, Answers, Priced
  <2>2. CoreWire({"edited"})
    <3> DEFINE c == Editable(m) /\ <<m.owner, m.item>> \notin locked
               a == [op |-> "edited", owner |-> m.owner, item |-> m.item, price |-> m.price]
    <3>1. c \in BOOLEAN  BY DEF Editable, HasLine
    <3>2. ToCore(IF c THEN <<a>> ELSE <<>>)  BY <1>5 DEF DbEdit
    <3>3. a \in Answers /\ a.op = "edited"  BY <2>1
    <3> HIDE DEF c, a
    <3> QED  BY <3>1, <3>2, <3>3, OfKinds, Wired DEF TypeOK
  <2> QED  BY <1>5, <2>2, Wired DEF TypeOK, DbEdit
<1>6. ASSUME DbRemove PROVE DbWire({"remove"}) /\ CoreWire({"removed"}) /\ sql' = sql
  <2>1. [op |-> "removed", owner |-> m.owner, item |-> m.item] \in Answers
    BY <1>1, <1>6, RequestShapes DEF DbRemove, Answers, Named
  <2>2. CoreWire({"removed"})
    <3> DEFINE c == HasLine(m.owner, m.item) /\ <<m.owner, m.item>> \notin locked
               a == [op |-> "removed", owner |-> m.owner, item |-> m.item]
    <3>1. c \in BOOLEAN  BY DEF HasLine
    <3>2. ToCore(IF c THEN <<a>> ELSE <<>>)  BY <1>6 DEF DbRemove
    <3>3. a \in Answers /\ a.op = "removed"  BY <2>1
    <3> HIDE DEF c, a
    <3> QED  BY <3>1, <3>2, <3>3, OfKinds, Wired DEF TypeOK
  <2> QED  BY <1>6, <2>2, Wired DEF TypeOK, DbRemove
<1>7. ASSUME DbLock PROVE DbWire({"lock"}) /\ CoreWire({"locked", "refused"}) /\ sql' = sql
  <2>1. \A op \in {"locked", "refused"} :
          [op |-> op, who |-> m.who, owner |-> m.owner, item |-> m.item] \in Answers
    BY <1>1, <1>7, RequestShapes DEF DbLock, Answers, Shopping
  <2>2. CoreWire({"locked", "refused"})
    <3> DEFINE op == IF MayLock(m) THEN "locked" ELSE "refused"
               a == [op |-> op, who |-> m.who, owner |-> m.owner, item |-> m.item]
    <3>1. op \in {"locked", "refused"}  OBVIOUS
    <3>2. a \in Answers /\ a.op \in {"locked", "refused"}  BY <2>1, <3>1
    <3>3. ToCore(<<a>>)  BY <1>7 DEF DbLock
    <3> QED  BY <3>2, <3>3, OfKinds, Wired DEF TypeOK
  <2> QED  BY <1>7, <2>2, Wired DEF TypeOK, DbLock
<1>8. ASSUME DbBuy PROVE DbWire({"buy"}) /\ CoreWire({"yang", "sold"}) /\ sql' = sql
  <2>1. m.who \in Bots /\ m.owner \in Bots /\ m.item \in Items
    BY <1>1, <1>8, RequestShapes DEF DbBuy
  <2>2. Taxed(dprice[m.owner][m.item]) \in Int
    BY <2>1, PriceAssumption DEF TypeOK, ShopsOK, Taxed
  <2>3. [op |-> "yang", owner |-> m.owner, yang |-> Taxed(dprice[m.owner][m.item])] \in Answers
        /\ [op |-> "sold", who |-> m.who, owner |-> m.owner, item |-> m.item] \in Answers
    BY <2>1, <2>2 DEF Answers, Paid, Shopping
  <2>4. CoreWire({"yang", "sold"})  BY <1>8, <2>3, OfKinds, Wired DEF TypeOK, DbBuy
  <2> QED  BY <1>8, <2>4, Wired DEF TypeOK, DbBuy
<1>9. ASSUME DbHardClose PROVE DbWire({"hardclose"}) /\ CoreWire({"closed"}) /\ sql' = sql
  <2>1. [op |-> "closed", owner |-> m.owner] \in Answers
    BY <1>1, <1>9, RequestShapes DEF DbHardClose, Answers
  <2>2. CoreWire({"closed"})
    <3> DEFINE c == dst[m.owner] # "none" /\ dprice[m.owner] = NoLines
               a == [op |-> "closed", owner |-> m.owner]
    <3>1. c \in BOOLEAN  BY DEF HasLine
    <3>2. ToCore(IF c THEN <<a>> ELSE <<>>)  BY <1>9 DEF DbHardClose
    <3>3. a \in Answers /\ a.op = "closed"  BY <2>1
    <3> HIDE DEF c, a
    <3> QED  BY <3>1, <3>2, <3>3, OfKinds, Wired DEF TypeOK
  <2> QED  BY <1>9, <2>2, Wired DEF TypeOK, DbHardClose
<1>10. DbGetYang => DbWire({"getyang"}) /\ CoreWire({}) /\ sql' = sql
  BY Wired DEF TypeOK, DbGetYang
<1>11. ASSUME DbGetItem PROVE DbWire({"getitem"}) /\ CoreWire({"confirm"}) /\ sql' = sql
  <2>1. [op |-> "confirm", owner |-> m.owner, item |-> m.item] \in Answers
    BY <1>1, <1>11, RequestShapes DEF DbGetItem, Answers, Named
  <2>2. CoreWire({"confirm"})
    <3> DEFINE c == m.item \in dbox[m.owner]
               a == [op |-> "confirm", owner |-> m.owner, item |-> m.item]
    <3>1. c \in BOOLEAN  BY DEF HasLine
    <3>2. ToCore(IF c THEN <<a>> ELSE <<>>)  BY <1>11 DEF DbGetItem
    <3>3. a \in Answers /\ a.op = "confirm"  BY <2>1
    <3> HIDE DEF c, a
    <3> QED  BY <3>1, <3>2, <3>3, OfKinds, Wired DEF TypeOK
  <2> QED  BY <1>11, <2>2, Wired DEF TypeOK, DbGetItem
<1>12. DbFeedback => DbWire({"feedback"}) /\ CoreWire({}) /\ sql' = sql
  BY Wired DEF TypeOK, DbFeedback
<1>13. ASSUME DbLoadBox PROVE DbWire({"loadbox"}) /\ CoreWire({"box"}) /\ sql' = sql
  <2>1. m.owner \in Bots  BY <1>1, <1>13, RequestShapes DEF DbLoadBox
  <2>2. [op |-> "box", owner |-> m.owner, items |-> dbox[m.owner], yang |-> dyang[m.owner]] \in Answers
    BY <2>1 DEF TypeOK, BoxesOK, Answers
  <2>3. CoreWire({"box"})  BY <1>13, <2>2, OfKinds, Wired DEF TypeOK, DbLoadBox
  <2> QED  BY <1>13, <2>3, Wired DEF TypeOK, DbLoadBox
<1> QED  BY <1>2, <1>3, <1>4, <1>5, <1>6, <1>7, <1>8, <1>9, <1>10, <1>11, <1>12, <1>13

LEMMA SqlWires ==
  ASSUME TypeOK
  PROVE  /\ CreateDone => DbWire({}) /\ CoreWire({"created"})
         /\ PutDone => DbWire({}) /\ CoreWire({})
         /\ AddDone => DbWire({}) /\ CoreWire({"added"})
         /\ BoxAddDone => DbWire({}) /\ CoreWire({"boxed"})
<1> DEFINE m == Head(sql)
<1>1. \A op : AtSql(op) => m \in Queries /\ m.op = op  BY SqlTakes DEF TypeOK
<1>2. ASSUME CreateDone PROVE DbWire({}) /\ CoreWire({"created"})
  <2>1. [op |-> "created", owner |-> m.owner, lines |-> m.lines] \in Answers
    BY <1>1, <1>2, QueryShapes DEF CreateDone, Answers, Stocking
  <2>2. CoreWire({"created"})  BY <1>2, <2>1, OfKinds, Wired DEF TypeOK, CreateDone
  <2> QED  BY <1>2, <2>2, Wired DEF TypeOK, CreateDone
<1>3. PutDone => DbWire({}) /\ CoreWire({})  BY Wired DEF TypeOK, PutDone
<1>4. ASSUME AddDone PROVE DbWire({}) /\ CoreWire({"added"})
  <2>1. [op |-> "added", owner |-> m.owner, item |-> m.item, price |-> m.price] \in Answers
    BY <1>1, <1>4, QueryShapes DEF AddDone, Answers, Priced
  <2>2. CoreWire({"added"})  BY <1>4, <2>1, OfKinds, Wired DEF TypeOK, AddDone
  <2> QED  BY <1>4, <2>2, Wired DEF TypeOK, AddDone
<1>5. ASSUME BoxAddDone PROVE DbWire({}) /\ CoreWire({"boxed"})
  <2>1. [op |-> "boxed", owner |-> m.owner, item |-> m.item] \in Answers
    BY <1>1, <1>5, QueryShapes DEF BoxAddDone, Answers, Named
  <2>2. CoreWire({"boxed"})  BY <1>5, <2>1, OfKinds, Wired DEF TypeOK, BoxAddDone
  <2> QED  BY <1>5, <2>2, Wired DEF TypeOK, BoxAddDone
<1> QED  BY <1>2, <1>3, <1>4, <1>5

LEMMA GoneWires ==
  ASSUME TypeOK, NEW room \in BOOLEAN
  PROVE  /\ CoreRemoved(room) => DbWire({"boxadd", "hardclose"}) /\ CoreWire({"removed"}) /\ sql' = sql
         /\ CoreSold(room) => DbWire({"boxadd", "hardclose"}) /\ CoreWire({"sold"}) /\ sql' = sql
<1> DEFINE m == Head(toCore)
           ops == {"boxadd", "hardclose"}
<1>1. \A op : AtCore(op) => m \in Answers /\ m.op = op  BY CoreTakes DEF TypeOK
<1>2. ASSUME m.owner \in Bots
      PROVE  CloseIfEmpty(m) \in Seq(Requests) /\ ~Has(CloseIfEmpty(m), But(Requests, ops))
  <2>1. [op |-> "hardclose", owner |-> m.owner] \in Requests  BY <1>2 DEF Requests
  <2> QED  BY <2>1, OfKinds DEF CloseIfEmpty
<1>3. ASSUME NEW b \in Bots, m.item \in Items
      PROVE  Boxed(b, m.item) \in Seq(Requests) /\ ~Has(Boxed(b, m.item), But(Requests, ops))
  <2>1. [op |-> "boxadd", owner |-> b, item |-> m.item] \in Requests  BY <1>3 DEF Requests, Named
  <2> QED  BY <2>1, OfKinds DEF Boxed
<1>4. ASSUME NEW b \in Bots, m.item \in Items, m.owner \in Bots, NEW ms,
             ms = <<>> \/ ms = Boxed(b, m.item)
      PROVE  ToDb(ms \o CloseIfEmpty(m)) => DbWire(ops)
  <2>1. ms \in Seq(Requests) /\ ~Has(ms, But(Requests, ops))
    BY <1>3, <1>4, OfKinds
  <2> QED  BY <1>2, <1>4, <2>1, OfKinds, Wired DEF TypeOK
<1>5. ASSUME CoreRemoved(room)
      PROVE  DbWire(ops) /\ CoreWire({"removed"}) /\ sql' = sql
  <2>1. m.owner \in Bots /\ m.item \in Items  BY <1>1, <1>5, AnswerShapes DEF CoreRemoved
  <2>2. DbWire(ops)
    <3>1. CASE UNCHANGED toDb  BY <3>1, Wired DEF TypeOK
    <3>2. CASE ~UNCHANGED toDb
      <4> DEFINE ms == IF world[m.owner] = "in" /\ room THEN <<>> ELSE Boxed(m.owner, m.item)
      <4>1. ToDb(ms \o CloseIfEmpty(m))  BY <1>5, <3>2 DEF CoreRemoved
      <4>2. ms = <<>> \/ ms = Boxed(m.owner, m.item)  OBVIOUS
      <4> HIDE DEF ms
      <4> QED  BY <1>4, <2>1, <4>1, <4>2
    <3> QED  BY <3>1, <3>2
  <2> QED  BY <1>5, <2>2, Wired DEF TypeOK, CoreRemoved
<1>6. ASSUME CoreSold(room)
      PROVE  DbWire(ops) /\ CoreWire({"sold"}) /\ sql' = sql
  <2>1. m.who \in Bots /\ m.owner \in Bots /\ m.item \in Items
    BY <1>1, <1>6, AnswerShapes DEF CoreSold
  <2>2. DbWire(ops)
    <3>1. CASE UNCHANGED toDb  BY <3>1, Wired DEF TypeOK
    <3>2. CASE ~UNCHANGED toDb
      <4> DEFINE ms == IF world[m.who] = "in" /\ ~room THEN Boxed(m.who, m.item) ELSE <<>>
      <4>1. ToDb(ms \o CloseIfEmpty(m))  BY <1>6, <3>2 DEF CoreSold
      <4>2. ms = <<>> \/ ms = Boxed(m.who, m.item)  OBVIOUS
      <4> HIDE DEF ms
      <4> QED  BY <1>4, <2>1, <4>1, <4>2
    <3> QED  BY <3>1, <3>2
  <2> QED  BY <1>6, <2>2, Wired DEF TypeOK, CoreSold
<1> QED  BY <1>5, <1>6

LEMMA CoreWires ==
  ASSUME TypeOK
  PROVE  /\ CoreCreated => DbWire({}) /\ CoreWire({"created"}) /\ sql' = sql
         /\ CoreAdded => DbWire({}) /\ CoreWire({"added"}) /\ sql' = sql
         /\ CoreEdited => DbWire({}) /\ CoreWire({"edited"}) /\ sql' = sql
         /\ CoreRefused => DbWire({}) /\ CoreWire({"refused"}) /\ sql' = sql
         /\ CoreLocked => DbWire({"buy"}) /\ CoreWire({"locked"}) /\ sql' = sql
         /\ CoreYang => DbWire({}) /\ CoreWire({"yang"}) /\ sql' = sql
         /\ CoreClosed => DbWire({}) /\ CoreWire({"closed"}) /\ sql' = sql
         /\ CoreExpired => DbWire({}) /\ CoreWire({"expired"}) /\ sql' = sql
         /\ CoreBoxed => DbWire({}) /\ CoreWire({"boxed"}) /\ sql' = sql
         /\ CoreBox => DbWire({}) /\ CoreWire({"box"}) /\ sql' = sql
         /\ \A room \in BOOLEAN :
              CoreConfirm(room) => DbWire({"feedback"}) /\ CoreWire({"confirm"}) /\ sql' = sql
<1> DEFINE m == Head(toCore)
<1>1. \A op : AtCore(op) => m \in Answers /\ m.op = op  BY CoreTakes DEF TypeOK
<1>2. /\ CoreCreated => DbWire({}) /\ CoreWire({"created"}) /\ sql' = sql
      /\ CoreAdded => DbWire({}) /\ CoreWire({"added"}) /\ sql' = sql
      /\ CoreEdited => DbWire({}) /\ CoreWire({"edited"}) /\ sql' = sql
      /\ CoreRefused => DbWire({}) /\ CoreWire({"refused"}) /\ sql' = sql
      /\ CoreYang => DbWire({}) /\ CoreWire({"yang"}) /\ sql' = sql
  BY Wired DEF TypeOK, CoreCreated, CoreAdded, CoreEdited, CoreRefused, CoreYang
<1>3. /\ CoreClosed => DbWire({}) /\ CoreWire({"closed"}) /\ sql' = sql
      /\ CoreExpired => DbWire({}) /\ CoreWire({"expired"}) /\ sql' = sql
      /\ CoreBoxed => DbWire({}) /\ CoreWire({"boxed"}) /\ sql' = sql
      /\ CoreBox => DbWire({}) /\ CoreWire({"box"}) /\ sql' = sql
  BY Wired DEF TypeOK, CoreClosed, CoreExpired, CoreBoxed, CoreBox
<1>4. ASSUME CoreLocked PROVE DbWire({"buy"}) /\ CoreWire({"locked"}) /\ sql' = sql
  <2>1. m.who \in Bots /\ m.owner \in Bots /\ m.item \in Items
    BY <1>1, <1>4, AnswerShapes DEF CoreLocked
  <2>2. CanPay(m) \in BOOLEAN  BY DEF CanPay, OnMirror
  <2>3. [op |-> "buy", who |-> m.who, owner |-> m.owner, item |-> m.item,
         success |-> CanPay(m)] \in Requests
    BY <2>1, <2>2 DEF Requests
  <2>4. DbWire({"buy"})  BY <1>4, <2>3, OfKinds, Wired DEF TypeOK, CoreLocked
  <2> QED  BY <1>4, <2>4, Wired DEF TypeOK, CoreLocked
<1>5. ASSUME NEW room \in BOOLEAN, CoreConfirm(room)
      PROVE  DbWire({"feedback"}) /\ CoreWire({"confirm"}) /\ sql' = sql
  <2>1. m.owner \in Bots /\ m.item \in Items  BY <1>1, <1>5, AnswerShapes DEF CoreConfirm
  <2> DEFINE taken == m.item \in cbox[m.owner] /\ world[m.owner] = "in" /\ room
  <2>2. taken \in BOOLEAN  OBVIOUS
  <2>3. ToDb(<<[op |-> "feedback", owner |-> m.owner, item |-> m.item, success |-> taken]>>)
    BY <1>5 DEF CoreConfirm
  <2> HIDE DEF taken
  <2>4. [op |-> "feedback", owner |-> m.owner, item |-> m.item, success |-> taken] \in Requests
    BY <2>1, <2>2 DEF Requests
  <2>5. DbWire({"feedback"})  BY <2>3, <2>4, OfKinds, Wired DEF TypeOK
  <2> QED  BY <1>5, <2>5, Wired DEF TypeOK, CoreConfirm
<1> QED  BY <1>2, <1>3, <1>4, <1>5

-----------------------------------------------------------------------------
(* Who puts packets of a kind on the wires, and who takes them off.        *)

DbReasons(ops) ==
  /\ "create" \in ops =>
       DbCreate \/ \E o \in Owners : VisitReopen(o) \/ \E offer \in Lines : Submit(o, offer)
  /\ "add" \in ops => DbAdd \/ \E o \in Owners, i \in Items : \E p \in Prices[i] : VisitAdd(o, i, p)
  /\ "edit" \in ops => DbEdit \/ \E o \in Owners, i \in Items : \E p \in Prices[i] : VisitEdit(o, i, p)
  /\ "remove" \in ops => DbRemove \/ \E o \in Owners, i \in Items : VisitRemove(o, i)
  /\ "getitem" \in ops => DbGetItem \/ \E b \in Bots, i \in Items : VisitWithdraw(b, i)
  /\ "lock" \in ops => DbLock \/ \E b \in Bots, o \in Owners, i \in Items : Buy(b, o, i)
  /\ "loadbox" \in ops => DbLoadBox \/ \E b \in Bots : AskIn(b)
  /\ "boxadd" \in ops => DbBoxAdd \/ \E room \in BOOLEAN : CoreRemoved(room) \/ CoreSold(room)
  /\ "hardclose" \in ops => DbHardClose \/ \E room \in BOOLEAN : CoreRemoved(room) \/ CoreSold(room)
  /\ "buy" \in ops => DbBuy \/ CoreLocked
  /\ "feedback" \in ops => DbFeedback \/ \E room \in BOOLEAN : CoreConfirm(room)
  /\ "getyang" \in ops => DbGetYang \/ Trade
CoreReasons(ops) ==
  /\ "created" \in ops => CreateDone \/ CoreCreated
  /\ "added" \in ops => AddDone \/ CoreAdded
  /\ "edited" \in ops => DbEdit \/ CoreEdited
  /\ "removed" \in ops => DbRemove \/ \E room \in BOOLEAN : CoreRemoved(room)
  /\ "locked" \in ops => DbLock \/ CoreLocked
  /\ "refused" \in ops => DbLock \/ CoreRefused
  /\ "sold" \in ops => DbBuy \/ \E room \in BOOLEAN : CoreSold(room)
  /\ "yang" \in ops => DbBuy \/ CoreYang
  /\ "closed" \in ops => DbHardClose \/ CoreClosed
  /\ "expired" \in ops => CoreExpired \/ \E o \in Owners : Expire(o)
  /\ "confirm" \in ops => DbGetItem \/ \E room \in BOOLEAN : CoreConfirm(room)
  /\ "boxed" \in ops => BoxAddDone \/ CoreBoxed
  /\ "box" \in ops => DbLoadBox \/ CoreBox
Wires(d, c) == DbWire(d) /\ CoreWire(c) /\ DbReasons(d) /\ CoreReasons(c)

LEMMA TradeReasons ==
  ASSUME TypeOK, Trade PROVE \E d, c : Wires(d, c)
<1>1. Owners \subseteq Bots  BY BotsAssumption
<1>2. ASSUME NEW o \in Owners, NEW offer \in Lines, Submit(o, offer) PROVE Wires({"create"}, {})
  BY <1>1, <1>2, SubmitWires DEF Wires, DbReasons, CoreReasons
<1>3. ASSUME NEW o \in Owners, VisitReopen(o) PROVE Wires({"getyang", "create"}, {})
  BY <1>1, <1>3, TradeWires DEF Wires, DbReasons, CoreReasons
<1>4. ASSUME NEW o \in Owners, NEW i \in Items, NEW p \in Prices[i], VisitAdd(o, i, p)
      PROVE  Wires({"getyang", "add"}, {})
  BY <1>1, <1>4, TradeWires DEF Wires, DbReasons, CoreReasons
<1>5. ASSUME NEW o \in Owners, NEW i \in Items, NEW p \in Prices[i], VisitEdit(o, i, p)
      PROVE  Wires({"getyang", "edit"}, {})
  BY <1>1, <1>5, TradeWires DEF Wires, DbReasons, CoreReasons
<1>6. ASSUME NEW o \in Owners, NEW i \in Items, VisitRemove(o, i)
      PROVE  Wires({"getyang", "remove"}, {})
  BY <1>1, <1>6, TradeWires DEF Wires, DbReasons, CoreReasons
<1>7. ASSUME NEW b \in Bots, VisitProceeds(b) PROVE Wires({"getyang"}, {})
  BY <1>7, TradeWires DEF Wires, DbReasons, CoreReasons
<1>8. ASSUME NEW b \in Bots, NEW i \in Items, VisitWithdraw(b, i)
      PROVE  Wires({"getyang", "getitem"}, {})
  BY <1>8, TradeWires DEF Wires, DbReasons, CoreReasons
<1>9. ASSUME NEW b \in Bots, NEW o \in Owners, NEW i \in Items, Buy(b, o, i)
      PROVE  Wires({"lock"}, {})
  BY <1>1, <1>9, TradeWires DEF Wires, DbReasons, CoreReasons
<1> QED  BY <1>2, <1>3, <1>4, <1>5, <1>6, <1>7, <1>8, <1>9 DEF Trade

LEMMA DbReasonsHold ==
  ASSUME TypeOK, DbCore PROVE \E d, c : Wires(d, c)
<1>1. CASE DbCreate
  <2>1. Wires({"create"}, {})  BY <1>1, DbWires DEF Wires, DbReasons, CoreReasons
  <2> QED  BY <2>1
<1>2. CASE DbAdd
  <2>1. Wires({"add"}, {})  BY <1>2, DbWires DEF Wires, DbReasons, CoreReasons
  <2> QED  BY <2>1
<1>3. CASE DbBoxAdd
  <2>1. Wires({"boxadd"}, {})  BY <1>3, DbWires DEF Wires, DbReasons, CoreReasons
  <2> QED  BY <2>1
<1>4. CASE DbEdit
  <2>1. Wires({"edit"}, {"edited"})  BY <1>4, DbWires DEF Wires, DbReasons, CoreReasons
  <2> QED  BY <2>1
<1>5. CASE DbRemove
  <2>1. Wires({"remove"}, {"removed"})  BY <1>5, DbWires DEF Wires, DbReasons, CoreReasons
  <2> QED  BY <2>1
<1>6. CASE DbLock
  <2>1. Wires({"lock"}, {"locked", "refused"})  BY <1>6, DbWires DEF Wires, DbReasons, CoreReasons
  <2> QED  BY <2>1
<1>7. CASE DbBuy
  <2>1. Wires({"buy"}, {"yang", "sold"})  BY <1>7, DbWires DEF Wires, DbReasons, CoreReasons
  <2> QED  BY <2>1
<1>8. CASE DbHardClose
  <2>1. Wires({"hardclose"}, {"closed"})  BY <1>8, DbWires DEF Wires, DbReasons, CoreReasons
  <2> QED  BY <2>1
<1>9. CASE DbGetYang
  <2>1. Wires({"getyang"}, {})  BY <1>9, DbWires DEF Wires, DbReasons, CoreReasons
  <2> QED  BY <2>1
<1>10. CASE DbGetItem
  <2>1. Wires({"getitem"}, {"confirm"})  BY <1>10, DbWires DEF Wires, DbReasons, CoreReasons
  <2> QED  BY <2>1
<1>11. CASE DbFeedback
  <2>1. Wires({"feedback"}, {})  BY <1>11, DbWires DEF Wires, DbReasons, CoreReasons
  <2> QED  BY <2>1
<1>12. CASE DbLoadBox
  <2>1. Wires({"loadbox"}, {"box"})  BY <1>12, DbWires DEF Wires, DbReasons, CoreReasons
  <2> QED  BY <2>1
<1> QED
  BY <1>1, <1>2, <1>3, <1>4, <1>5, <1>6, <1>7, <1>8, <1>9, <1>10, <1>11, <1>12 DEF DbCore

LEMMA CoreReasonsHold ==
  ASSUME TypeOK, Core PROVE \E d, c : Wires(d, c)
<1>1. CASE CoreCreated
  <2>1. Wires({}, {"created"})  BY <1>1, CoreWires DEF Wires, DbReasons, CoreReasons
  <2> QED  BY <2>1
<1>2. CASE CoreAdded
  <2>1. Wires({}, {"added"})  BY <1>2, CoreWires DEF Wires, DbReasons, CoreReasons
  <2> QED  BY <2>1
<1>3. CASE CoreEdited
  <2>1. Wires({}, {"edited"})  BY <1>3, CoreWires DEF Wires, DbReasons, CoreReasons
  <2> QED  BY <2>1
<1>4. CASE CoreRefused
  <2>1. Wires({}, {"refused"})  BY <1>4, CoreWires DEF Wires, DbReasons, CoreReasons
  <2> QED  BY <2>1
<1>5. CASE CoreLocked
  <2>1. Wires({"buy"}, {"locked"})  BY <1>5, CoreWires DEF Wires, DbReasons, CoreReasons
  <2> QED  BY <2>1
<1>6. CASE CoreYang
  <2>1. Wires({}, {"yang"})  BY <1>6, CoreWires DEF Wires, DbReasons, CoreReasons
  <2> QED  BY <2>1
<1>7. CASE CoreClosed
  <2>1. Wires({}, {"closed"})  BY <1>7, CoreWires DEF Wires, DbReasons, CoreReasons
  <2> QED  BY <2>1
<1>8. CASE CoreExpired
  <2>1. Wires({}, {"expired"})  BY <1>8, CoreWires DEF Wires, DbReasons, CoreReasons
  <2> QED  BY <2>1
<1>9. CASE CoreBoxed
  <2>1. Wires({}, {"boxed"})  BY <1>9, CoreWires DEF Wires, DbReasons, CoreReasons
  <2> QED  BY <2>1
<1>10. CASE CoreBox
  <2>1. Wires({}, {"box"})  BY <1>10, CoreWires DEF Wires, DbReasons, CoreReasons
  <2> QED  BY <2>1
<1>11. ASSUME NEW room \in BOOLEAN, CoreRemoved(room) PROVE Wires({"boxadd", "hardclose"}, {"removed"})
  BY <1>11, GoneWires DEF Wires, DbReasons, CoreReasons
<1>12. ASSUME NEW room \in BOOLEAN, CoreSold(room) PROVE Wires({"boxadd", "hardclose"}, {"sold"})
  BY <1>12, GoneWires DEF Wires, DbReasons, CoreReasons
<1>13. ASSUME NEW room \in BOOLEAN, CoreConfirm(room) PROVE Wires({"feedback"}, {"confirm"})
  BY <1>13, CoreWires DEF Wires, DbReasons, CoreReasons
<1> QED
  BY <1>1, <1>2, <1>3, <1>4, <1>5, <1>6, <1>7, <1>8, <1>9, <1>10, <1>11, <1>12, <1>13 DEF Core

LEMMA StepWires ==
  ASSUME TypeOK, [Next]_vars PROVE \E d, c : Wires(d, c)
<1>1. CASE Journeys
  <2>1. PICK b \in Bots : Leave(b) \/ AskIn(b) \/ Enter(b)  BY <1>1 DEF Journeys
  <2>2. CASE AskIn(b)
    <3>1. Wires({"loadbox"}, {})  BY <2>2, JourneyWires DEF Wires, DbReasons, CoreReasons
    <3> QED  BY <3>1
  <2>3. CASE Leave(b) \/ Enter(b)
    <3>1. Wires({}, {})  BY <2>3, JourneyWires DEF Wires, DbReasons, CoreReasons
    <3> QED  BY <3>1
  <2> QED  BY <2>1, <2>2, <2>3
<1>2. CASE SqlResult
  <2>1. CASE CreateDone
    <3>1. Wires({}, {"created"})  BY <2>1, SqlWires DEF Wires, DbReasons, CoreReasons
    <3> QED  BY <3>1
  <2>2. CASE PutDone
    <3>1. Wires({}, {})  BY <2>2, SqlWires DEF Wires, DbReasons, CoreReasons
    <3> QED  BY <3>1
  <2>3. CASE AddDone
    <3>1. Wires({}, {"added"})  BY <2>3, SqlWires DEF Wires, DbReasons, CoreReasons
    <3> QED  BY <3>1
  <2>4. CASE BoxAddDone
    <3>1. Wires({}, {"boxed"})  BY <2>4, SqlWires DEF Wires, DbReasons, CoreReasons
    <3> QED  BY <3>1
  <2> QED  BY <1>2, <2>1, <2>2, <2>3, <2>4 DEF SqlResult
<1>3. ASSUME NEW o \in Owners, Expire(o) PROVE Wires({}, {"expired"})
  BY <1>3, BotsAssumption, JourneyWires DEF Wires, DbReasons, CoreReasons
<1>4. CASE UNCHANGED vars
  <2>1. UNCHANGED toDb /\ UNCHANGED toCore  BY <1>4 DEF vars
  <2>2. Wires({}, {})  BY <2>1, Wired DEF TypeOK, Wires, DbReasons, CoreReasons
  <2> QED  BY <2>2
<1> QED  BY <1>1, <1>2, <1>3, <1>4, TradeReasons, DbReasonsHold, CoreReasonsHold DEF Next

\* Packets that no step has a reason to move stay.
LEMMA WiresStay ==
  ASSUME TypeOK, NEW d, NEW c, Wires(d, c)
  PROVE  /\ \A T \in SUBSET But(Requests, d) :
              (Has(toDb', T) <=> Has(toDb, T)) /\ (Ones(toDb, T) => Ones(toDb', T))
         /\ \A T, U \in SUBSET But(Requests, d) : Before(toDb, T, U) => Before(toDb', T, U)
         /\ \A T \in SUBSET But(Answers, c) :
              (Has(toCore', T) <=> Has(toCore, T)) /\ (Ones(toCore, T) => Ones(toCore', T))
         /\ \A T, U \in SUBSET But(Answers, c) : Before(toCore, T, U) => Before(toCore', T, U)
<1>1. toDb \in Seq(Requests) /\ toCore \in Seq(Answers)  BY DEF TypeOK, WiresOK
<1>2. Untouched(toDb, toDb', Requests, But(Requests, d))  BY DEF Wires, DbWire
<1>3. Untouched(toCore, toCore', Answers, But(Answers, c))  BY DEF Wires, CoreWire
<1> QED  BY <1>1, <1>2, <1>3, UntouchedKeeps

-----------------------------------------------------------------------------
(* What is set aside for an answer: a line for its buyer, an item for its  *)
(* owner.  There is one packet for it, on one of the two wires.            *)

Token(on, q, S, r, T) ==
  /\ Ones(q, S) /\ Ones(r, T) /\ ~(Has(q, S) /\ Has(r, T))
  /\ on <=> Has(q, S) \/ Has(r, T)

Granted(o, i) == {m \in Answers : m.op = "locked" /\ m.owner = o /\ m.item = i}
Payments(o, i) == {m \in Requests : m.op = "buy" /\ m.owner = o /\ m.item = i}
Confirms(b, i) == {m \in Answers : m.op = "confirm" /\ m.owner = b /\ m.item = i}
Feedbacks(b, i) == {m \in Requests : m.op = "feedback" /\ m.owner = b /\ m.item = i}

Purchase(o, i) == Token(<<o, i>> \in locked, toCore, Granted(o, i), toDb, Payments(o, i))
Withdrawal(b, i) == Token(i \in dheld[b], toCore, Confirms(b, i), toDb, Feedbacks(b, i))
Purchases == \A o \in Bots, i \in Items : Purchase(o, i)
Withdrawals == \A b \in Bots, i \in Items : Withdrawal(b, i)

LEMMA TokenKinds ==
  ASSUME NEW o, NEW i
  PROVE  /\ \A c : "locked" \notin c => Granted(o, i) \in SUBSET But(Answers, c)
         /\ \A d : "buy" \notin d => Payments(o, i) \in SUBSET But(Requests, d)
         /\ \A c : "confirm" \notin c => Confirms(o, i) \in SUBSET But(Answers, c)
         /\ \A d : "feedback" \notin d => Feedbacks(o, i) \in SUBSET But(Requests, d)
  BY DEF Granted, Payments, Confirms, Feedbacks, But

LEMMA LocksStay ==
  ASSUME [Next]_vars, ~DbLock, ~DbBuy PROVE UNCHANGED locked
<1>1. CASE Trade
  BY <1>1 DEF Trade, Submit, Visit, VisitReopen, VisitAdd, VisitEdit, VisitRemove, VisitWithdraw,
              VisitProceeds, Buy, dshops
<1>2. CASE Journeys  BY <1>2 DEF Journeys, Leave, AskIn, Enter, dshops
<1>3. CASE DbCore
  BY <1>3 DEF DbCore, DbCreate, DbAdd, DbEdit, DbRemove, DbHardClose, DbGetYang, DbGetItem,
              DbFeedback, DbBoxAdd, DbLoadBox, dshops
<1>4. CASE SqlResult  BY <1>4 DEF SqlResult, CreateDone, PutDone, AddDone, BoxAddDone, dshops
<1>5. CASE Core
  BY <1>5 DEF Core, CoreCreated, CoreAdded, CoreEdited, CoreRefused, CoreLocked, CoreYang, CoreClosed,
              CoreExpired, CoreBoxed, CoreBox, CoreRemoved, CoreSold, CoreConfirm, dshops
<1>6. CASE \E o \in Owners : Expire(o)  BY <1>6 DEF Expire
<1> QED  BY <1>1, <1>2, <1>3, <1>4, <1>5, <1>6 DEF Next, vars, dshops

LEMMA HoldsStay ==
  ASSUME [Next]_vars, ~DbGetItem, ~DbFeedback PROVE UNCHANGED dheld
<1>1. CASE Trade
  BY <1>1 DEF Trade, Submit, Visit, VisitReopen, VisitAdd, VisitEdit, VisitRemove, VisitWithdraw,
              VisitProceeds, Buy, dboxes
<1>2. CASE Journeys  BY <1>2 DEF Journeys, Leave, AskIn, Enter, dboxes
<1>3. CASE DbCore
  BY <1>3 DEF DbCore, DbCreate, DbAdd, DbEdit, DbRemove, DbLock, DbBuy, DbHardClose, DbGetYang,
              DbBoxAdd, DbLoadBox, dboxes
<1>4. CASE SqlResult  BY <1>4 DEF SqlResult, CreateDone, PutDone, AddDone, BoxAddDone, dboxes
<1>5. CASE Core
  BY <1>5 DEF Core, CoreCreated, CoreAdded, CoreEdited, CoreRefused, CoreLocked, CoreYang, CoreClosed,
              CoreExpired, CoreBoxed, CoreBox, CoreRemoved, CoreSold, CoreConfirm, dboxes
<1>6. CASE \E o \in Owners : Expire(o)  BY <1>6 DEF Expire, dboxes
<1> QED  BY <1>1, <1>2, <1>3, <1>4, <1>5, <1>6 DEF Next, vars, dboxes

\* The queues as sequences of typed packets, for the lemmas on them.
LEMMA WiresAre ==
  ASSUME TypeOK
  PROVE  toDb \in Seq(Requests) /\ toCore \in Seq(Answers) /\ sql \in Seq(Queries)
  BY DEF TypeOK, WiresOK

\* A packet comes off a wire, and one of another kind goes on the other.
LEMMA LockGranted ==
  ASSUME TypeOK, Purchases, DbLock PROVE Purchases'
<1> DEFINE m == Head(toDb)
           a == [op |-> IF MayLock(m) THEN "locked" ELSE "refused",
                 who |-> m.who, owner |-> m.owner, item |-> m.item]
<1>1. m \in Requests /\ m.op = "lock" /\ m.who \in Bots /\ m.owner \in Bots /\ m.item \in Items
  BY DbTakes, RequestShapes DEF TypeOK, DbLock
<1>2. a \in Answers
  <2>1. \A op \in {"locked", "refused"} :
          [op |-> op, who |-> m.who, owner |-> m.owner, item |-> m.item] \in Answers
    BY <1>1 DEF Answers, Shopping
  <2> QED  BY <2>1
<1>3. toCore' = toCore \o <<a>>  BY DEF DbLock, ToCore
<1>4. toDb # <<>> /\ toDb' = Tail(toDb)  BY DEF DbLock, AtDb, TakenByDb
<1>5. locked' = IF MayLock(m) THEN locked \cup {<<m.owner, m.item>>} ELSE locked  BY DEF DbLock
<1> SUFFICES ASSUME NEW o \in Bots, NEW i \in Items PROVE Purchase(o, i)'
  BY DEF Purchases
<1>6. Purchase(o, i)  BY DEF Purchases
<1>7. m \notin Payments(o, i)  BY <1>1 DEF Payments
<1>8. /\ Has(toDb', Payments(o, i)) <=> Has(toDb, Payments(o, i))
      /\ Ones(toDb, Payments(o, i)) => Ones(toDb', Payments(o, i))
  BY <1>4, <1>7, WiresAre, QueueTaken
<1>10. /\ Has(toCore', Granted(o, i)) <=> Has(toCore, Granted(o, i)) \/ a \in Granted(o, i)
       /\ Ones(toCore, Granted(o, i)) /\ ~(Has(toCore, Granted(o, i)) /\ a \in Granted(o, i)) =>
            Ones(toCore', Granted(o, i))
  BY <1>2, <1>3, WiresAre, QueueSent
<1>11. CASE MayLock(m) /\ <<o, i>> = <<m.owner, m.item>>
  <2>1. a \in Granted(o, i)  BY <1>2, <1>11 DEF Granted
  <2>2. <<o, i>> \notin locked /\ <<o, i>> \in locked'  BY <1>5, <1>11 DEF MayLock
  <2> QED  BY <1>6, <1>8, <1>10, <2>1, <2>2 DEF Purchase, Token
<1>12. CASE ~(MayLock(m) /\ <<o, i>> = <<m.owner, m.item>>)
  <2>1. a \notin Granted(o, i)  BY <1>12 DEF Granted
  <2>2. <<o, i>> \in locked' <=> <<o, i>> \in locked  BY <1>5, <1>12
  <2> QED  BY <1>6, <1>8, <1>10, <2>1, <2>2 DEF Purchase, Token
<1> QED  BY <1>11, <1>12

\* The line of a payment is locked, so it is on sale: the payment unlocks it.
LEMMA PaymentLocked ==
  ASSUME TypeOK, Purchases, DbBuy
  PROVE  /\ Head(toDb).owner \in Bots /\ Head(toDb).item \in Items /\ Head(toDb).who \in Bots
         /\ <<Head(toDb).owner, Head(toDb).item>> \in locked
         /\ HasLine(Head(toDb).owner, Head(toDb).item)
         /\ locked' = locked \ {<<Head(toDb).owner, Head(toDb).item>>}
<1> DEFINE m == Head(toDb)
<1>1. m \in Requests /\ m.op = "buy" /\ m.who \in Bots /\ m.owner \in Bots /\ m.item \in Items
  BY DbTakes, RequestShapes DEF TypeOK, DbBuy
<1>2. m \in Payments(m.owner, m.item)  BY <1>1 DEF Payments
<1>3. Has(toDb, Payments(m.owner, m.item))  BY <1>2, WiresAre, QueueTaken DEF DbBuy, AtDb
<1>4. <<m.owner, m.item>> \in locked  BY <1>1, <1>3 DEF Purchases, Purchase, Token
<1>5. HasLine(m.owner, m.item)
  <2>1. <<m.owner, m.item>>[1] = m.owner /\ <<m.owner, m.item>>[2] = m.item  OBVIOUS
  <2> QED  BY <1>4, <2>1 DEF TypeOK, LockedOnSale
<1> QED  BY <1>1, <1>4, <1>5 DEF DbBuy

LEMMA PaymentTaken ==
  ASSUME TypeOK, Purchases, DbBuy PROVE Purchases'
<1> DEFINE m == Head(toDb)
<1>1. m \in Requests /\ m.op = "buy"  BY DbTakes DEF TypeOK, DbBuy
<1>2. m.owner \in Bots /\ m.item \in Items /\ locked' = locked \ {<<m.owner, m.item>>}
  BY PaymentLocked
<1>3. toDb # <<>> /\ toDb' = Tail(toDb)  BY DEF DbBuy, AtDb, TakenByDb
<1> SUFFICES ASSUME NEW o \in Bots, NEW i \in Items PROVE Purchase(o, i)'
  BY DEF Purchases
<1>4. Purchase(o, i)  BY DEF Purchases
<1>5. /\ Has(toCore', Granted(o, i)) <=> Has(toCore, Granted(o, i))
      /\ Ones(toCore, Granted(o, i)) => Ones(toCore', Granted(o, i))
  <2>1. CoreWire({"yang", "sold"})  BY DbWires
  <2>2. Granted(o, i) \in SUBSET But(Answers, {"yang", "sold"})  BY TokenKinds
  <2> QED  BY <2>1, <2>2, WiresAre, UntouchedKeeps DEF CoreWire
<1>6. /\ Has(toDb, Payments(o, i)) <=> m \in Payments(o, i) \/ Has(toDb', Payments(o, i))
      /\ Ones(toDb, Payments(o, i)) =>
           Ones(toDb', Payments(o, i)) /\ ~(m \in Payments(o, i) /\ Has(toDb', Payments(o, i)))
  BY <1>3, WiresAre, QueueTaken
<1>7. m \in Payments(o, i) <=> <<o, i>> = <<m.owner, m.item>>  BY <1>1 DEF Payments
<1>8. <<o, i>> \in locked' <=> <<o, i>> \in locked /\ m \notin Payments(o, i)  BY <1>2, <1>7
<1> QED  BY <1>4, <1>5, <1>6, <1>8 DEF Purchase, Token

LEMMA GrantAnswered ==
  ASSUME TypeOK, Purchases, CoreLocked PROVE Purchases'
<1> DEFINE m == Head(toCore)
           a == [op |-> "buy", who |-> m.who, owner |-> m.owner, item |-> m.item,
                 success |-> CanPay(m)]
<1>1. m \in Answers /\ m.op = "locked" /\ m.who \in Bots /\ m.owner \in Bots /\ m.item \in Items
  BY CoreTakes, AnswerShapes DEF TypeOK, CoreLocked
<1>2. a \in Requests
  <2>1. CanPay(m) \in BOOLEAN  BY DEF CanPay, OnMirror
  <2> QED  BY <1>1, <2>1 DEF Requests
<1>3. toDb' = toDb \o <<a>>  BY DEF CoreLocked, ToDb
<1>4. toCore # <<>> /\ toCore' = Tail(toCore)  BY DEF CoreLocked, AtCore, TakenByCore
<1>5. locked' = locked  BY DEF CoreLocked, dshops
<1> SUFFICES ASSUME NEW o \in Bots, NEW i \in Items PROVE Purchase(o, i)'
  BY DEF Purchases
<1>6. Purchase(o, i)  BY DEF Purchases
<1>7. /\ Has(toCore, Granted(o, i)) <=> m \in Granted(o, i) \/ Has(toCore', Granted(o, i))
      /\ Ones(toCore, Granted(o, i)) =>
           Ones(toCore', Granted(o, i)) /\ ~(m \in Granted(o, i) /\ Has(toCore', Granted(o, i)))
  BY <1>4, WiresAre, QueueTaken
<1>8. m \in Granted(o, i) <=> a \in Payments(o, i)  BY <1>1, <1>2 DEF Granted, Payments
<1>10. /\ Has(toDb', Payments(o, i)) <=> Has(toDb, Payments(o, i)) \/ a \in Payments(o, i)
       /\ Ones(toDb, Payments(o, i)) /\ ~(Has(toDb, Payments(o, i)) /\ a \in Payments(o, i)) =>
            Ones(toDb', Payments(o, i))
  BY <1>2, <1>3, WiresAre, QueueSent
<1> QED  BY <1>5, <1>6, <1>7, <1>8, <1>10 DEF Purchase, Token

LEMMA PurchasesStep ==
  ASSUME TypeOK, Purchases, [Next]_vars PROVE Purchases'
<1>1. CASE ~DbLock /\ ~DbBuy /\ ~CoreLocked
  <2>1. PICK d, c : Wires(d, c)  BY StepWires
  <2>2. "buy" \notin d /\ "locked" \notin c
    BY <1>1, <2>1 DEF Wires, DbReasons, CoreReasons
  <2>3. locked' = locked  BY <1>1, LocksStay
  <2> SUFFICES ASSUME NEW o \in Bots, NEW i \in Items PROVE Purchase(o, i)'
    BY DEF Purchases
  <2>4. Granted(o, i) \in SUBSET But(Answers, c) /\ Payments(o, i) \in SUBSET But(Requests, d)
    BY <2>2, TokenKinds
  <2> QED  BY <2>1, <2>3, <2>4, WiresStay DEF Purchases, Purchase, Token
<1> QED  BY <1>1, LockGranted, PaymentTaken, GrantAnswered

-----------------------------------------------------------------------------
(* Where an item is.                                                       *)

AsksWith(i) ==
  {m \in Requests : \/ m.op = "create" /\ m.lines[i] > 0
                    \/ m.op \in {"add", "boxadd"} /\ m.item = i}
QueriesWith(i) ==
  {m \in Queries : \/ m.op \in {"create", "put"} /\ m.lines[i] > 0
                   \/ m.op \in {"add", "boxadd"} /\ m.item = i}
AnswersWith(i) == {m \in Answers : m.op \in {"removed", "sold"} /\ m.item = i}
Handings(b, i) == {m \in Feedbacks(b, i) : m.success}

InBag(i, b) == i \in bag[b]
OnSale(i, b) == dprice[b][i] > 0
InBox(i, b) == i \in dbox[b]
Held(i, b) == i \in dheld[b] /\ ~Has(toDb, Handings(b, i))
Asked(i) == Has(toDb, AsksWith(i))
Queried(i) == Has(sql, QueriesWith(i))
Answered(i) == Has(toCore, AnswersWith(i))

Places(i) ==
  ({"bag"} \X {b \in Bots : InBag(i, b)}) \cup ({"sale"} \X {b \in Bots : OnSale(i, b)})
  \cup ({"box"} \X {b \in Bots : InBox(i, b)}) \cup ({"held"} \X {b \in Bots : Held(i, b)})
  \cup {p \in {<<"asked", None>>} : Asked(i)} \cup {p \in {<<"queried", None>>} : Queried(i)}
  \cup {p \in {<<"answered", None>>} : Answered(i)}

\* Once its owner has taken an item out of the safebox, it is in the bag, or
\* asked about later than that.
TakenOut(i, b) ==
  /\ Before(toDb, Handings(b, i), AsksWith(i))
  /\ Has(toDb, Handings(b, i)) =>
       /\ \A c \in Bots : ~OnSale(i, c) /\ ~InBox(i, c) /\ ~Held(i, c)
       /\ ~Queried(i) /\ ~Answered(i)

Singly(i) ==
  Ones(toDb, AsksWith(i)) /\ Ones(sql, QueriesWith(i)) /\ Ones(toCore, AnswersWith(i))
OnePlace(i) == \A p, q \in Places(i) : p = q
Apart(i) == OnePlace(i) /\ Singly(i) /\ \A b \in Bots : TakenOut(i, b)

\* Being in one place is being in no other.
AwayFromBags(i) == \A b \in Bots : ~InBag(i, b)
AwayFromSale(i) == \A b \in Bots : ~OnSale(i, b)
AwayFromBoxes(i) == \A b \in Bots : ~InBox(i, b)
AwayFromHolds(i) == \A b \in Bots : ~Held(i, b)
AwayFromWires(i) == ~Asked(i) /\ ~Queried(i) /\ ~Answered(i)

LEMMA PlaceOf ==
  ASSUME NEW i
  PROVE  /\ \A b \in Bots : (InBag(i, b) <=> <<"bag", b>> \in Places(i))
                            /\ (OnSale(i, b) <=> <<"sale", b>> \in Places(i))
                            /\ (InBox(i, b) <=> <<"box", b>> \in Places(i))
                            /\ (Held(i, b) <=> <<"held", b>> \in Places(i))
         /\ Asked(i) <=> <<"asked", None>> \in Places(i)
         /\ Queried(i) <=> <<"queried", None>> \in Places(i)
         /\ Answered(i) <=> <<"answered", None>> \in Places(i)
  BY DEF Places

LEMMA Alone ==
  ASSUME NEW i, OnePlace(i)
  PROVE  /\ \A b \in Bots : InBag(i, b) =>
              /\ \A c \in Bots : InBag(i, c) => c = b
              /\ AwayFromSale(i) /\ AwayFromBoxes(i) /\ AwayFromHolds(i) /\ AwayFromWires(i)
         /\ \A b \in Bots : OnSale(i, b) =>
              /\ \A c \in Bots : OnSale(i, c) => c = b
              /\ AwayFromBags(i) /\ AwayFromBoxes(i) /\ AwayFromHolds(i) /\ AwayFromWires(i)
         /\ \A b \in Bots : InBox(i, b) =>
              /\ \A c \in Bots : InBox(i, c) => c = b
              /\ AwayFromBags(i) /\ AwayFromSale(i) /\ AwayFromHolds(i) /\ AwayFromWires(i)
         /\ \A b \in Bots : Held(i, b) =>
              /\ \A c \in Bots : Held(i, c) => c = b
              /\ AwayFromBags(i) /\ AwayFromSale(i) /\ AwayFromBoxes(i) /\ AwayFromWires(i)
         /\ Asked(i) \/ Queried(i) \/ Answered(i) =>
              AwayFromBags(i) /\ AwayFromSale(i) /\ AwayFromBoxes(i) /\ AwayFromHolds(i)
         /\ ~(Asked(i) /\ Queried(i)) /\ ~(Asked(i) /\ Answered(i)) /\ ~(Queried(i) /\ Answered(i))
<1>1. \A p, q \in Places(i) : p = q  BY DEF OnePlace
<1> HIDE DEF Places, InBag, OnSale, InBox, Held, Asked, Queried, Answered
<1>2. /\ \A b \in Bots : (InBag(i, b) <=> <<"bag", b>> \in Places(i))
                            /\ (OnSale(i, b) <=> <<"sale", b>> \in Places(i))
                            /\ (InBox(i, b) <=> <<"box", b>> \in Places(i))
                            /\ (Held(i, b) <=> <<"held", b>> \in Places(i))
      /\ Asked(i) <=> <<"asked", None>> \in Places(i)
      /\ Queried(i) <=> <<"queried", None>> \in Places(i)
      /\ Answered(i) <=> <<"answered", None>> \in Places(i)
  BY PlaceOf
<1>3. \A k, l, b, c : <<k, b>> \in Places(i) /\ <<l, c>> \in Places(i) => k = l /\ b = c
  <2> TAKE k, l, b, c
  <2>1. <<k, b>> = <<l, c>> => k = l /\ b = c  OBVIOUS
  <2> QED  BY <1>1, <2>1
<1>4. /\ \A b \in Bots : InBag(i, b) =>
              /\ \A c \in Bots : InBag(i, c) => c = b
              /\ AwayFromSale(i) /\ AwayFromBoxes(i) /\ AwayFromHolds(i) /\ AwayFromWires(i)
  BY <1>2, <1>3 DEF AwayFromSale, AwayFromBoxes, AwayFromHolds, AwayFromWires
<1>5. /\ \A b \in Bots : OnSale(i, b) =>
              /\ \A c \in Bots : OnSale(i, c) => c = b
              /\ AwayFromBags(i) /\ AwayFromBoxes(i) /\ AwayFromHolds(i) /\ AwayFromWires(i)
  BY <1>2, <1>3 DEF AwayFromBags, AwayFromBoxes, AwayFromHolds, AwayFromWires
<1>6. /\ \A b \in Bots : InBox(i, b) =>
              /\ \A c \in Bots : InBox(i, c) => c = b
              /\ AwayFromBags(i) /\ AwayFromSale(i) /\ AwayFromHolds(i) /\ AwayFromWires(i)
  BY <1>2, <1>3 DEF AwayFromBags, AwayFromSale, AwayFromHolds, AwayFromWires
<1>7. /\ \A b \in Bots : Held(i, b) =>
              /\ \A c \in Bots : Held(i, c) => c = b
              /\ AwayFromBags(i) /\ AwayFromSale(i) /\ AwayFromBoxes(i) /\ AwayFromWires(i)
  BY <1>2, <1>3 DEF AwayFromBags, AwayFromSale, AwayFromBoxes, AwayFromWires
<1>8. /\ Asked(i) \/ Queried(i) \/ Answered(i) =>
              AwayFromBags(i) /\ AwayFromSale(i) /\ AwayFromBoxes(i) /\ AwayFromHolds(i)
      /\ ~(Asked(i) /\ Queried(i)) /\ ~(Asked(i) /\ Answered(i)) /\ ~(Queried(i) /\ Answered(i))
  BY <1>2, <1>3 DEF AwayFromBags, AwayFromSale, AwayFromBoxes, AwayFromHolds
<1> QED  BY <1>4, <1>5, <1>6, <1>7, <1>8

\* Where it can be afterwards.
LEMMA OnlyIn ==
  ASSUME NEW i, NEW t, \A p \in Places(i) : p = t PROVE OnePlace(i)
  BY DEF OnePlace

LEMMA PlaceIs ==
  ASSUME NEW i, NEW p \in Places(i)
  PROVE  \/ \E b \in Bots : \/ p = <<"bag", b>> /\ InBag(i, b)
                            \/ p = <<"sale", b>> /\ OnSale(i, b)
                            \/ p = <<"box", b>> /\ InBox(i, b)
                            \/ p = <<"held", b>> /\ Held(i, b)
         \/ p = <<"asked", None>> /\ Asked(i)
         \/ p = <<"queried", None>> /\ Queried(i)
         \/ p = <<"answered", None>> /\ Answered(i)
  BY DEF Places

\* An item that is in no two of these places is in one place.
Elsewhere(i) ==
  /\ \A b \in Bots : /\ \A c \in Bots : InBag(i, c) => c = b
                     /\ AwayFromSale(i) /\ AwayFromBoxes(i) /\ AwayFromHolds(i) /\ AwayFromWires(i)
                     => OnePlace(i)
  /\ \A b \in Bots : /\ \A c \in Bots : OnSale(i, c) => c = b
                     /\ AwayFromBags(i) /\ AwayFromBoxes(i) /\ AwayFromHolds(i) /\ AwayFromWires(i)
                     => OnePlace(i)
  /\ \A b \in Bots : /\ \A c \in Bots : InBox(i, c) => c = b
                     /\ AwayFromBags(i) /\ AwayFromSale(i) /\ AwayFromHolds(i) /\ AwayFromWires(i)
                     => OnePlace(i)
  /\ \A b \in Bots : /\ \A c \in Bots : Held(i, c) => c = b
                     /\ AwayFromBags(i) /\ AwayFromSale(i) /\ AwayFromBoxes(i) /\ AwayFromWires(i)
                     => OnePlace(i)
  /\ AwayFromBags(i) /\ AwayFromSale(i) /\ AwayFromBoxes(i) /\ AwayFromHolds(i)
     /\ ((~Queried(i) /\ ~Answered(i)) \/ (~Asked(i) /\ ~Answered(i)) \/ (~Asked(i) /\ ~Queried(i)))
     => OnePlace(i)

Elsewheres == \A i : Elsewhere(i)

LEMMA InOnePlace == Elsewheres
<1> SUFFICES ASSUME NEW i PROVE Elsewhere(i)  BY DEF Elsewheres
<1>1. \A t : (\A p \in Places(i) : p = t) => OnePlace(i)  BY OnlyIn
<1>2. \A p \in Places(i) :
         \/ \E b \in Bots : \/ p = <<"bag", b>> /\ InBag(i, b)
                            \/ p = <<"sale", b>> /\ OnSale(i, b)
                            \/ p = <<"box", b>> /\ InBox(i, b)
                            \/ p = <<"held", b>> /\ Held(i, b)
         \/ p = <<"asked", None>> /\ Asked(i)
         \/ p = <<"queried", None>> /\ Queried(i)
         \/ p = <<"answered", None>> /\ Answered(i)
  BY PlaceIs
<1>3. ASSUME NEW b \in Bots, \A c \in Bots : InBag(i, c) => c = b,
             AwayFromSale(i), AwayFromBoxes(i), AwayFromHolds(i), AwayFromWires(i)
      PROVE  OnePlace(i)
  <2>1. \A p \in Places(i) : p = <<"bag", b>>
    BY <1>2, <1>3 DEF AwayFromSale, AwayFromBoxes, AwayFromHolds, AwayFromWires
  <2> QED  BY <1>1, <2>1
<1>4. ASSUME NEW b \in Bots, \A c \in Bots : OnSale(i, c) => c = b,
             AwayFromBags(i), AwayFromBoxes(i), AwayFromHolds(i), AwayFromWires(i)
      PROVE  OnePlace(i)
  <2>1. \A p \in Places(i) : p = <<"sale", b>>
    BY <1>2, <1>4 DEF AwayFromBags, AwayFromBoxes, AwayFromHolds, AwayFromWires
  <2> QED  BY <1>1, <2>1
<1>5. ASSUME NEW b \in Bots, \A c \in Bots : InBox(i, c) => c = b,
             AwayFromBags(i), AwayFromSale(i), AwayFromHolds(i), AwayFromWires(i)
      PROVE  OnePlace(i)
  <2>1. \A p \in Places(i) : p = <<"box", b>>
    BY <1>2, <1>5 DEF AwayFromBags, AwayFromSale, AwayFromHolds, AwayFromWires
  <2> QED  BY <1>1, <2>1
<1>6. ASSUME NEW b \in Bots, \A c \in Bots : Held(i, c) => c = b,
             AwayFromBags(i), AwayFromSale(i), AwayFromBoxes(i), AwayFromWires(i)
      PROVE  OnePlace(i)
  <2>1. \A p \in Places(i) : p = <<"held", b>>
    BY <1>2, <1>6 DEF AwayFromBags, AwayFromSale, AwayFromBoxes, AwayFromWires
  <2> QED  BY <1>1, <2>1
<1>7. ASSUME AwayFromBags(i), AwayFromSale(i), AwayFromBoxes(i), AwayFromHolds(i),
             (~Queried(i) /\ ~Answered(i)) \/ (~Asked(i) /\ ~Answered(i)) \/ (~Asked(i) /\ ~Queried(i))
      PROVE  OnePlace(i)
  <2>1. \/ \A p \in Places(i) : p = <<"asked", None>>
        \/ \A p \in Places(i) : p = <<"queried", None>>
        \/ \A p \in Places(i) : p = <<"answered", None>>
    BY <1>2, <1>7 DEF AwayFromBags, AwayFromSale, AwayFromBoxes, AwayFromHolds
  <2> QED  BY <1>1, <2>1
<1> QED  BY <1>3, <1>4, <1>5, <1>6, <1>7 DEF Elsewhere

LEMMA InOnePlaceNext ==
  ASSUME NEW i PROVE Elsewhere(i)'
<1>1. Elsewheres'  BY InOnePlace, PTL
<1> QED  BY <1>1 DEF Elsewheres

\* Nothing brings the item anywhere.
Stays(i) ==
  /\ Ones(toDb', AsksWith(i)) /\ Ones(sql', QueriesWith(i)) /\ Ones(toCore', AnswersWith(i))
  /\ Has(toDb', AsksWith(i)) => Asked(i)
  /\ Has(sql', QueriesWith(i)) => Queried(i)
  /\ Has(toCore', AnswersWith(i)) => Answered(i)
  /\ \A b \in Bots : /\ i \in bag'[b] => InBag(i, b)
                     /\ dprice'[b][i] > 0 => OnSale(i, b)
                     /\ i \in dbox'[b] => InBox(i, b)
                     /\ i \in dheld'[b] /\ ~Has(toDb', Handings(b, i)) => Held(i, b)
                     /\ Has(toDb', Handings(b, i)) => Has(toDb, Handings(b, i))
                     /\ Before(toDb', Handings(b, i), AsksWith(i))

LEMMA ItemStays ==
  ASSUME NEW i, Apart(i), Stays(i)
  PROVE  Apart(i)'
<1>0. /\ Asked(i)' => Asked(i)
      /\ Queried(i)' => Queried(i)
      /\ Answered(i)' => Answered(i)
      /\ \A b \in Bots : /\ InBag(i, b)' => InBag(i, b)
                         /\ OnSale(i, b)' => OnSale(i, b)
                         /\ InBox(i, b)' => InBox(i, b)
                         /\ Held(i, b)' => Held(i, b)
  <2>1. ASSUME NEW b \in Bots
        PROVE  /\ InBag(i, b)' => InBag(i, b)
               /\ OnSale(i, b)' => OnSale(i, b)
               /\ InBox(i, b)' => InBox(i, b)
               /\ Held(i, b)' => Held(i, b)
    BY DEF Stays, InBag, OnSale, InBox, Held
  <2> QED  BY <2>1 DEF Stays, Asked, Queried, Answered
<1>1. Places(i)' \subseteq Places(i)  BY <1>0 DEF Places
<1>2. OnePlace(i)'  BY <1>1 DEF Apart, OnePlace
<1>3. ASSUME NEW b \in Bots PROVE TakenOut(i, b)'
  BY <1>0 DEF Apart, TakenOut, Stays
<1> QED  BY <1>2, <1>3 DEF Apart, Stays, Singly

-----------------------------------------------------------------------------
(* The steps that move items, and the others.                              *)

MovesItems ==
  \/ \E o \in Owners : VisitReopen(o) \/ \E offer \in Lines : Submit(o, offer)
  \/ \E o \in Owners, i \in Items : \E p \in Prices[i] : VisitAdd(o, i, p)
  \/ DbCreate \/ DbAdd \/ DbBoxAdd \/ DbEdit \/ DbRemove \/ DbBuy \/ DbGetItem \/ DbFeedback
  \/ CreateDone \/ PutDone \/ AddDone \/ BoxAddDone
  \/ \E room \in BOOLEAN : CoreRemoved(room) \/ CoreSold(room) \/ CoreConfirm(room)

LEMMA Bystanders ==
  ASSUME [Next]_vars, ~MovesItems PROVE UNCHANGED <<bag, dprice, dbox, dheld, sql>>
<1>1. CASE Trade
  <2>1. UNCHANGED <<bag, dshops, dboxes, sql>>
    BY <1>1 DEF Trade, MovesItems, Visit, VisitEdit, VisitRemove, VisitWithdraw, VisitProceeds, Buy
  <2> QED  BY <2>1 DEF dshops, dboxes
<1>2. CASE Journeys  BY <1>2 DEF Journeys, Leave, AskIn, Enter, dshops, dboxes
<1>3. CASE DbCore
  BY <1>3 DEF DbCore, MovesItems, DbLock, DbHardClose, DbGetYang, DbLoadBox, people, dshops, dboxes
<1>4. CASE SqlResult  BY <1>4 DEF SqlResult, MovesItems
<1>5. CASE Core
  BY <1>5 DEF Core, MovesItems, CoreCreated, CoreAdded, CoreEdited, CoreRefused, CoreLocked, CoreYang,
              CoreClosed, CoreExpired, CoreBoxed, CoreBox, people, dshops, dboxes
<1>6. CASE \E o \in Owners : Expire(o)  BY <1>6 DEF Expire, people, dboxes
<1>7. CASE UNCHANGED vars  BY <1>7 DEF vars, people, dshops, dboxes
<1> QED  BY <1>1, <1>2, <1>3, <1>4, <1>5, <1>6, <1>7 DEF Next

LEMMA ItemKinds ==
  ASSUME NEW i
  PROVE  /\ \A d : "create" \notin d /\ "add" \notin d /\ "boxadd" \notin d =>
              AsksWith(i) \in SUBSET But(Requests, d)
         /\ \A b, d : "feedback" \notin d => Handings(b, i) \in SUBSET But(Requests, d)
         /\ \A c : "removed" \notin c /\ "sold" \notin c => AnswersWith(i) \in SUBSET But(Answers, c)
  BY DEF AsksWith, Handings, Feedbacks, AnswersWith, But

\* Where the wires keep what they hold of an item, it may only move elsewhere.
LEMMA ItemWires ==
  ASSUME TypeOK, NEW i, NEW d, NEW c, DbWire(d), CoreWire(c), Apart(i)
  PROVE  /\ "create" \notin d /\ "add" \notin d /\ "boxadd" \notin d =>
              /\ Asked(i)' <=> Asked(i)
              /\ Ones(toDb', AsksWith(i))
              /\ "feedback" \notin d =>
                   \A b \in Bots : Before(toDb', Handings(b, i), AsksWith(i))
         /\ "feedback" \notin d =>
              \A b \in Bots : Has(toDb', Handings(b, i)) <=> Has(toDb, Handings(b, i))
         /\ "removed" \notin c /\ "sold" \notin c =>
              (Answered(i)' <=> Answered(i)) /\ Ones(toCore', AnswersWith(i))
<1>1. /\ \A T \in SUBSET But(Requests, d) :
           (Has(toDb', T) <=> Has(toDb, T)) /\ (Ones(toDb, T) => Ones(toDb', T))
      /\ \A T, U \in SUBSET But(Requests, d) : Before(toDb, T, U) => Before(toDb', T, U)
  BY WiresAre, UntouchedKeeps DEF DbWire
<1>2. \A T \in SUBSET But(Answers, c) :
        (Has(toCore', T) <=> Has(toCore, T)) /\ (Ones(toCore, T) => Ones(toCore', T))
  BY WiresAre, UntouchedKeeps DEF CoreWire
<1> QED  BY <1>1, <1>2, ItemKinds DEF Apart, Singly, TakenOut, Asked, Answered

LEMMA BystandersApart ==
  ASSUME TypeOK, NEW i, Apart(i), [Next]_vars, ~MovesItems PROVE Apart(i)'
<1>1. PICK d, c : Wires(d, c)  BY StepWires
<1>2. /\ "create" \notin d /\ "add" \notin d /\ "boxadd" \notin d /\ "feedback" \notin d
      /\ "removed" \notin c /\ "sold" \notin c
  BY <1>1 DEF Wires, DbReasons, CoreReasons, MovesItems
<1>3. UNCHANGED <<bag, dprice, dbox, dheld, sql>>  BY Bystanders
<1>4. DbWire(d) /\ CoreWire(c)  BY <1>1 DEF Wires
<1>5. /\ Asked(i)' <=> Asked(i)
      /\ Ones(toDb', AsksWith(i))
      /\ \A b \in Bots : Before(toDb', Handings(b, i), AsksWith(i))
      /\ \A b \in Bots : Has(toDb', Handings(b, i)) <=> Has(toDb, Handings(b, i))
      /\ (Answered(i)' <=> Answered(i)) /\ Ones(toCore', AnswersWith(i))
  BY <1>2, <1>4, ItemWires
<1>6. Stays(i)
  BY <1>3, <1>5 DEF Stays, Apart, Singly, InBag, OnSale, InBox, Held, Asked, Queried, Answered
<1> QED  BY <1>6, ItemStays

-----------------------------------------------------------------------------
(* Where an item has come to.                                              *)

OutOfBags(i) == \A b \in Bots : i \notin bag'[b]
OffSale(i) == \A b \in Bots : ~(dprice'[b][i] > 0)
OutOfBoxes(i) == \A b \in Bots : i \notin dbox'[b]
NotHeld(i) == \A b \in Bots : i \in dheld'[b] => Has(toDb', Handings(b, i))
NotAsked(i) == ~Has(toDb', AsksWith(i))
NotQueried(i) == ~Has(sql', QueriesWith(i))
NotAnswered(i) == ~Has(toCore', AnswersWith(i))
NotHanded(i) == \A b \in Bots : ~Has(toDb', Handings(b, i))
InOrder(i) ==
  /\ Ones(toDb', AsksWith(i)) /\ Ones(sql', QueriesWith(i)) /\ Ones(toCore', AnswersWith(i))
  /\ \A b \in Bots : Before(toDb', Handings(b, i), AsksWith(i))

LEMMA Arrivals ==
  ASSUME NEW i
  PROVE  /\ OutOfBags(i) <=> AwayFromBags(i)'
         /\ OffSale(i) <=> AwayFromSale(i)'
         /\ OutOfBoxes(i) <=> AwayFromBoxes(i)'
         /\ NotHeld(i) <=> AwayFromHolds(i)'
         /\ NotAsked(i) <=> ~Asked(i)'
         /\ NotQueried(i) <=> ~Queried(i)'
         /\ NotAnswered(i) <=> ~Answered(i)'
         /\ NotAsked(i) /\ NotQueried(i) /\ NotAnswered(i) <=> AwayFromWires(i)'
<1>1. OutOfBags(i) <=> AwayFromBags(i)'  BY DEF OutOfBags, AwayFromBags, InBag
<1>2. OffSale(i) <=> AwayFromSale(i)'  BY DEF OffSale, AwayFromSale, OnSale
<1>3. OutOfBoxes(i) <=> AwayFromBoxes(i)'  BY DEF OutOfBoxes, AwayFromBoxes, InBox
<1>4. NotHeld(i) <=> AwayFromHolds(i)'  BY DEF NotHeld, AwayFromHolds, Held
<1>5. NotAsked(i) <=> ~Asked(i)'  BY DEF NotAsked, Asked
<1>6. NotQueried(i) <=> ~Queried(i)'  BY DEF NotQueried, Queried
<1>7. NotAnswered(i) <=> ~Answered(i)'  BY DEF NotAnswered, Answered
<1>8. AwayFromWires(i)' <=> ~Asked(i)' /\ ~Queried(i)' /\ ~Answered(i)'  BY DEF AwayFromWires
<1> QED  BY <1>1, <1>2, <1>3, <1>4, <1>5, <1>6, <1>7, <1>8

\* The order of the packets, and what was taken out of a safebox.
LEMMA TakenOutNext ==
  ASSUME NEW i, InOrder(i),
         \/ NotHanded(i)
         \/ OffSale(i) /\ OutOfBoxes(i) /\ NotHeld(i) /\ NotQueried(i) /\ NotAnswered(i),
         OnePlace(i)'
  PROVE  Apart(i)'
<1>1. ASSUME NEW b \in Bots PROVE TakenOut(i, b)'
  <2>1. CASE NotHanded(i)  BY <2>1 DEF TakenOut, InOrder, NotHanded
  <2>2. CASE OffSale(i) /\ OutOfBoxes(i) /\ NotHeld(i) /\ NotQueried(i) /\ NotAnswered(i)
    <3>1. \A c \in Bots : ~OnSale(i, c)' /\ ~InBox(i, c)' /\ ~Held(i, c)'
      BY <2>2 DEF OffSale, OutOfBoxes, NotHeld, OnSale, InBox, Held
    <3>2. ~Queried(i)' /\ ~Answered(i)'  BY <2>2 DEF NotQueried, NotAnswered, Queried, Answered
    <3> QED  BY <3>1, <3>2 DEF TakenOut, InOrder
  <2> QED  BY <2>1, <2>2
<1>2. Singly(i)'  BY DEF Singly, InOrder
<1> QED  BY <1>1, <1>2 DEF Apart

LEMMA InTheBag ==
  ASSUME NEW i, NEW b \in Bots, \A c \in Bots : i \in bag'[c] => c = b, InOrder(i),
         OffSale(i), OutOfBoxes(i), NotHeld(i), NotAsked(i), NotQueried(i), NotAnswered(i)
  PROVE  Apart(i)'
<1>1. \A c \in Bots : InBag(i, c)' => c = b  BY DEF InBag
<1>2. Elsewhere(i)'  BY InOnePlaceNext
<1>3. OnePlace(i)'  BY <1>1, <1>2, Arrivals DEF Elsewhere
<1> QED  BY <1>3, TakenOutNext

LEMMA ForSale ==
  ASSUME NEW i, NEW b \in Bots, \A c \in Bots : dprice'[c][i] > 0 => c = b, InOrder(i), NotHanded(i),
         OutOfBags(i), OutOfBoxes(i), NotHeld(i), NotAsked(i), NotQueried(i), NotAnswered(i)
  PROVE  Apart(i)'
<1>1. \A c \in Bots : OnSale(i, c)' => c = b  BY DEF OnSale
<1>2. Elsewhere(i)'  BY InOnePlaceNext
<1>3. OnePlace(i)'  BY <1>1, <1>2, Arrivals DEF Elsewhere
<1> QED  BY <1>3, TakenOutNext

LEMMA InTheBox ==
  ASSUME NEW i, NEW b \in Bots, \A c \in Bots : i \in dbox'[c] => c = b, InOrder(i), NotHanded(i),
         OutOfBags(i), OffSale(i), NotHeld(i), NotAsked(i), NotQueried(i), NotAnswered(i)
  PROVE  Apart(i)'
<1>1. \A c \in Bots : InBox(i, c)' => c = b  BY DEF InBox
<1>2. Elsewhere(i)'  BY InOnePlaceNext
<1>3. OnePlace(i)'  BY <1>1, <1>2, Arrivals DEF Elsewhere
<1> QED  BY <1>3, TakenOutNext

LEMMA BeingHeld ==
  ASSUME NEW i, NEW b \in Bots, InOrder(i), NotHanded(i),
         \A c \in Bots : i \in dheld'[c] => c = b \/ Has(toDb', Handings(c, i)),
         OutOfBags(i), OffSale(i), OutOfBoxes(i), NotAsked(i), NotQueried(i), NotAnswered(i)
  PROVE  Apart(i)'
<1>1. \A c \in Bots : Held(i, c)' => c = b  BY DEF Held
<1>2. Elsewhere(i)'  BY InOnePlaceNext
<1>3. OnePlace(i)'  BY <1>1, <1>2, Arrivals DEF Elsewhere
<1> QED  BY <1>3, TakenOutNext

LEMMA OnTheWire ==
  ASSUME NEW i, InOrder(i), OutOfBags(i), OffSale(i), OutOfBoxes(i), NotHeld(i),
         \/ NotQueried(i) /\ NotAnswered(i)
         \/ NotAsked(i) /\ NotAnswered(i) /\ NotHanded(i)
         \/ NotAsked(i) /\ NotQueried(i) /\ NotHanded(i)
  PROVE  Apart(i)'
<1>1. Elsewhere(i)'  BY InOnePlaceNext
<1>2. OnePlace(i)'  BY <1>1, Arrivals DEF Elsewhere
<1> QED  BY <1>2, TakenOutNext

\* The wires of a step that only moves other kinds of packets.
LEMMA QuietWires ==
  ASSUME TypeOK, NEW i, NEW d, NEW c, DbWire(d), CoreWire(c), Apart(i)
  PROVE  /\ "create" \notin d /\ "add" \notin d /\ "boxadd" \notin d =>
              /\ Has(toDb', AsksWith(i)) <=> Asked(i)
              /\ Ones(toDb', AsksWith(i))
              /\ "feedback" \notin d =>
                   \A b \in Bots : Before(toDb', Handings(b, i), AsksWith(i))
         /\ "feedback" \notin d =>
              \A b \in Bots : Has(toDb', Handings(b, i)) <=> Has(toDb, Handings(b, i))
         /\ "removed" \notin c /\ "sold" \notin c =>
              (Has(toCore', AnswersWith(i)) <=> Answered(i)) /\ Ones(toCore', AnswersWith(i))
  BY ItemWires DEF Asked, Answered

-----------------------------------------------------------------------------
(* Out of the bag: what is asked about is in no bag any more.              *)

OneMore(m, i) ==
  /\ Has(toDb', AsksWith(i)) <=> Asked(i) \/ m \in AsksWith(i)
  /\ ~(Asked(i) /\ m \in AsksWith(i)) => Ones(toDb', AsksWith(i))
  /\ \A b \in Bots : /\ Has(toDb', Handings(b, i)) <=> Has(toDb, Handings(b, i))
                     /\ Before(toDb', Handings(b, i), AsksWith(i))

LEMMA NoHanding ==
  ASSUME NEW m, m.op # "feedback" PROVE \A b, i : m \notin Handings(b, i)
  BY DEF Handings, Feedbacks

LEMMA SentOne ==
  ASSUME TypeOK, NEW i, Apart(i), NEW m \in Requests, m.op # "feedback", toDb' = toDb \o <<m>>
  PROVE  OneMore(m, i)
<1>1. /\ Ones(toDb, AsksWith(i))
      /\ \A b \in Bots : Before(toDb, Handings(b, i), AsksWith(i))
  BY DEF Apart, Singly, TakenOut
<1>2. \A b : m \notin Handings(b, i)  BY NoHanding
<1> QED  BY <1>1, <1>2, WiresAre, QueueSent DEF OneMore, Asked

LEMMA VisitSent ==
  ASSUME TypeOK, NEW i, Apart(i), NEW m \in Requests, m.op # "feedback",
         NEW o \in Bots, NEW op, NEW j, Visit(o, op, j, m)
  PROVE  OneMore(m, i)
<1>1. /\ Ones(toDb, AsksWith(i))
      /\ \A b \in Bots : Before(toDb, Handings(b, i), AsksWith(i))
  BY DEF Apart, Singly, TakenOut
<1>2. \A b : m \notin Handings(b, i)  BY NoHanding
<1>3. toDb' = toDb \o (Claim(o) \o <<m>>)  BY DEF Visit, ToDb
<1>4. CASE Claim(o) = <<>>
  <2>1. <<>> \o <<m>> = <<m>>  OBVIOUS
  <2> QED  BY <1>3, <1>4, <2>1, SentOne
<1>5. CASE Claim(o) # <<>>
  <2> DEFINE g == [op |-> "getyang", owner |-> o, yang |-> Claimable(o)]
  <2>1. Claim(o) = <<g>>  BY <1>5 DEF Claim
  <2>2. g \in Requests  BY ClaimableIs DEF Requests, Paid
  <2>3. /\ g \notin AsksWith(i)
        /\ \A b : g \notin Handings(b, i)
    <3>1. g.op = "getyang"  OBVIOUS
    <3> HIDE DEF g
    <3> QED  BY <3>1, NoHanding DEF AsksWith
  <2> HIDE DEF g
  <2>4. toDb' = toDb \o (<<g>> \o <<m>>)  BY <1>3, <2>1
  <2>5. <<g>> \in Seq(Requests) /\ <<m>> \in Seq(Requests)  BY <2>2, Single
  <2>6. toDb' = (toDb \o <<g>>) \o <<m>>  BY <2>4, <2>5, WiresAre, ConcatAssociative
  <2>7. toDb \o <<g>> \in Seq(Requests)  BY <2>5, WiresAre, ConcatProperties
  <2>8. /\ Has(toDb \o <<g>>, AsksWith(i)) <=> Asked(i)
        /\ Ones(toDb \o <<g>>, AsksWith(i))
        /\ \A b \in Bots : /\ Has(toDb \o <<g>>, Handings(b, i)) <=> Has(toDb, Handings(b, i))
                           /\ Before(toDb \o <<g>>, Handings(b, i), AsksWith(i))
    BY <1>1, <2>2, <2>3, WiresAre, QueueSent DEF Asked
  <2> QED  BY <1>2, <2>6, <2>7, <2>8, QueueSent DEF OneMore
<1> QED  BY <1>4, <1>5

\* What is asked about comes out of the bag of who asks.
LEMMA OutOfTheBag ==
  ASSUME TypeOK, NEW i, Apart(i), NEW o \in Bots, NEW m, OneMore(m, i),
         m \in AsksWith(i) => i \in bag[o] /\ i \notin bag'[o],
         \A b \in Bots : i \in bag'[b] => i \in bag[b],
         UNCHANGED <<dprice, dbox, dheld, sql, toCore>>
  PROVE  Apart(i)'
<1>1. CASE m \in AsksWith(i)
  <2>1. InBag(i, o)  BY <1>1 DEF InBag
  <2>2. /\ \A c \in Bots : InBag(i, c) => c = o
        /\ AwayFromSale(i) /\ AwayFromBoxes(i) /\ AwayFromHolds(i) /\ AwayFromWires(i)
    BY <2>1, Alone DEF Apart
  <2>3. OutOfBags(i)  BY <1>1, <2>2 DEF OutOfBags, InBag
  <2>4. OffSale(i) /\ OutOfBoxes(i)
    BY <2>2 DEF OffSale, OutOfBoxes, AwayFromSale, AwayFromBoxes, OnSale, InBox
  <2>5. NotHeld(i)  BY <2>2 DEF NotHeld, AwayFromHolds, Held, OneMore
  <2>6. NotQueried(i) /\ NotAnswered(i)
    BY <2>2 DEF NotQueried, NotAnswered, AwayFromWires, Queried, Answered
  <2>7. InOrder(i)  BY <2>2 DEF InOrder, OneMore, Apart, Singly, AwayFromWires
  <2> QED  BY <2>3, <2>4, <2>5, <2>6, <2>7, OnTheWire
<1>2. CASE m \notin AsksWith(i)
  <2>1. Stays(i)
    BY <1>2 DEF Stays, OneMore, Apart, Singly, InBag, OnSale, InBox, Held, Asked, Queried, Answered
  <2> QED  BY <2>1, ItemStays
<1> QED  BY <1>1, <1>2

LEMMA SubmitApart ==
  ASSUME TypeOK, NEW i \in Items, Apart(i), NEW o \in Bots, NEW offer \in Lines, Submit(o, offer)
  PROVE  Apart(i)'
<1> DEFINE m == [op |-> "create", owner |-> o, lines |-> offer]
<1>1. offer \in [Items -> Nat]  BY PriceAssumption DEF Lines
<1>2. m \in Requests  BY <1>1 DEF Requests, Stocking
<1>3. toDb' = toDb \o <<m>>  BY DEF Submit, ToDb
<1>4. m.op = "create" /\ m.lines = offer  OBVIOUS
<1>5. OneMore(m, i)  BY <1>2, <1>3, <1>4, SentOne
<1>6. m \in AsksWith(i) => offer[i] > 0  BY <1>4 DEF AsksWith
<1>7. bag' = [bag EXCEPT ![o] = {j \in @ : offer[j] = 0}] /\ (offer[i] > 0 => i \in bag[o])
  BY DEF Submit
<1>8. /\ offer[i] > 0 => i \in bag[o] /\ i \notin bag'[o]
      /\ \A b \in Bots : i \in bag'[b] => i \in bag[b]
  BY <1>7 DEF TypeOK, PeopleOK
<1>9. UNCHANGED <<dprice, dbox, dheld, sql, toCore>>  BY DEF Submit, dshops, dboxes
<1> HIDE DEF m
<1> QED  BY <1>5, <1>6, <1>8, <1>9, OutOfTheBag

LEMMA VisitsApart ==
  ASSUME TypeOK, NEW i \in Items, Apart(i), NEW o \in Bots
  PROVE  /\ VisitReopen(o) => Apart(i)'
         /\ \A j \in Items : \A p \in Prices[j] : VisitAdd(o, j, p) => Apart(i)'
<1>1. ASSUME VisitReopen(o) PROVE Apart(i)'
  <2> DEFINE m == [op |-> "create", owner |-> o, lines |-> NoLines]
  <2>1. m \in Requests  BY DEF Requests, Stocking, NoLines
  <2>2. Visit(o, "create", None, m) /\ UNCHANGED bag  BY <1>1 DEF VisitReopen
  <2>3. m \notin AsksWith(i)  BY DEF AsksWith, NoLines
  <2>4. m.op # "feedback"  OBVIOUS
  <2>5. UNCHANGED <<dprice, dbox, dheld, sql, toCore>>  BY <2>2 DEF Visit, dshops, dboxes
  <2> HIDE DEF m
  <2>6. OneMore(m, i)  BY <2>1, <2>2, <2>4, VisitSent
  <2> QED  BY <2>2, <2>3, <2>5, <2>6, OutOfTheBag
<1>2. ASSUME NEW j \in Items, NEW p \in Prices[j], VisitAdd(o, j, p) PROVE Apart(i)'
  <2> DEFINE m == [op |-> "add", owner |-> o, item |-> j, price |-> p]
  <2>1. m \in Requests  BY VisitPackets
  <2>2. Visit(o, "add", j, m) /\ j \in bag[o] /\ bag' = [bag EXCEPT ![o] = @ \ {j}]
    BY <1>2 DEF VisitAdd
  <2>3. m.op = "add" /\ m.item = j  OBVIOUS
  <2>4. UNCHANGED <<dprice, dbox, dheld, sql, toCore>>  BY <2>2 DEF Visit, dshops, dboxes
  <2> HIDE DEF m
  <2>5. m \in AsksWith(i) => i = j  BY <2>3 DEF AsksWith
  <2>6. OneMore(m, i)  BY <2>1, <2>2, <2>3, VisitSent
  <2>7. /\ m \in AsksWith(i) => i \in bag[o] /\ i \notin bag'[o]
        /\ \A b \in Bots : i \in bag'[b] => i \in bag[b]
    BY <2>2, <2>5 DEF TypeOK, PeopleOK
  <2> QED  BY <2>4, <2>6, <2>7, OutOfTheBag
<1> QED  BY <1>1, <1>2

-----------------------------------------------------------------------------
(* Through the db core's wire.                                             *)

OneLess(m, i) ==
  /\ Asked(i) <=> m \in AsksWith(i) \/ Has(toDb', AsksWith(i))
  /\ Ones(toDb', AsksWith(i)) /\ ~(m \in AsksWith(i) /\ Has(toDb', AsksWith(i)))
  /\ \A b \in Bots : /\ Has(toDb, Handings(b, i)) <=> m \in Handings(b, i) \/ Has(toDb', Handings(b, i))
                     /\ Before(toDb', Handings(b, i), AsksWith(i))
                     /\ m \in AsksWith(i) => ~Has(toDb, Handings(b, i))

LEMMA TookOne ==
  ASSUME TypeOK, NEW i, Apart(i), toDb # <<>>, toDb' = Tail(toDb)
  PROVE  OneLess(Head(toDb), i)
<1>1. /\ Ones(toDb, AsksWith(i))
      /\ \A b \in Bots : Before(toDb, Handings(b, i), AsksWith(i))
  BY DEF Apart, Singly, TakenOut
<1> QED  BY <1>1, WiresAre, QueueTaken DEF OneLess, Asked

\* A request that becomes a query.
LEMMA IntoTheQueries ==
  ASSUME TypeOK, NEW i \in Items, Apart(i), NEW op \in {"create", "add", "boxadd"}, AtDb(op), TakenByDb,
         sql' \in {sql, Append(sql, Head(toDb))}, UNCHANGED <<bag, dprice, dbox, dheld, toCore>>
  PROVE  Apart(i)'
<1> DEFINE m == Head(toDb)
<1>1. m \in Requests /\ m.op = op /\ toDb # <<>> /\ toDb' = Tail(toDb)
  BY DbTakes DEF TypeOK, AtDb, TakenByDb
<1>2. m \in Queries  BY <1>1, RequestShapes
<1>3. m \in AsksWith(i) <=> m \in QueriesWith(i)  BY <1>1, <1>2 DEF AsksWith, QueriesWith
<1>4. OneLess(m, i)  BY <1>1, TookOne
<1>5. \A b : m \notin Handings(b, i)  BY <1>1, NoHanding
<1> HIDE DEF m
<1>6. Append(sql, m) = sql \o <<m>>  BY <1>2, WiresAre, AppendIsConcat
<1>7. /\ Has(sql', QueriesWith(i)) => Queried(i) \/ m \in QueriesWith(i)
      /\ ~(Queried(i) /\ m \in QueriesWith(i)) => Ones(sql', QueriesWith(i))
  <2>1. Ones(sql, QueriesWith(i))  BY DEF Apart, Singly
  <2>2. CASE sql' = sql  BY <2>1, <2>2 DEF Queried
  <2>3. CASE sql' = sql \o <<m>>  BY <1>2, <2>1, <2>3, WiresAre, QueueSent DEF Queried
  <2> QED  BY <1>6, <2>2, <2>3 DEF m
<1>8. CASE m \in AsksWith(i)
  <2>1. Asked(i)  BY <1>4, <1>8 DEF OneLess
  <2>2. /\ AwayFromBags(i) /\ AwayFromSale(i) /\ AwayFromBoxes(i) /\ AwayFromHolds(i)
        /\ ~Queried(i) /\ ~Answered(i)
    BY <2>1, Alone DEF Apart
  <2>3. NotHanded(i) /\ NotAsked(i)  BY <1>4, <1>8 DEF OneLess, NotHanded, NotAsked
  <2>4. OutOfBags(i) /\ OffSale(i) /\ OutOfBoxes(i)
    BY <2>2 DEF OutOfBags, OffSale, OutOfBoxes, AwayFromBags, AwayFromSale, AwayFromBoxes,
                InBag, OnSale, InBox
  <2>5. NotHeld(i)  BY <1>4, <1>8, <2>2 DEF NotHeld, AwayFromHolds, Held, OneLess
  <2>6. NotAnswered(i)  BY <2>2 DEF NotAnswered, Answered
  <2>7. InOrder(i)  BY <1>4, <1>7, <2>2 DEF InOrder, OneLess, Apart, Singly
  <2> QED  BY <2>3, <2>4, <2>5, <2>6, <2>7, OnTheWire
<1>9. CASE m \notin AsksWith(i)
  <2>1. Stays(i)
    BY <1>3, <1>4, <1>5, <1>7, <1>9
       DEF Stays, OneLess, Apart, Singly, InBag, OnSale, InBox, Held, Asked, Queried, Answered
  <2> QED  BY <2>1, ItemStays
<1> QED  BY <1>8, <1>9

LEMMA DbQueriesApart ==
  ASSUME TypeOK, NEW i \in Items, Apart(i), DbCreate \/ DbAdd \/ DbBoxAdd
  PROVE  Apart(i)'
<1>1. UNCHANGED <<bag, dprice, dbox, dheld, toCore>>
  BY DEF DbCreate, DbAdd, DbBoxAdd, people, dshops, dboxes
<1>2. \E op \in {"create", "add", "boxadd"} :
        AtDb(op) /\ TakenByDb /\ sql' \in {sql, Append(sql, Head(toDb))}
  BY DEF DbCreate, DbAdd, DbBoxAdd
<1> QED  BY <1>1, <1>2, IntoTheQueries

-----------------------------------------------------------------------------
(* Results of the queries.                                                 *)

\* What the first query is about, and what the others are.
LEMMA TookQuery ==
  ASSUME TypeOK, NEW i, Apart(i), sql # <<>>
  PROVE  /\ Queried(i) <=> Head(sql) \in QueriesWith(i) \/ Has(Tail(sql), QueriesWith(i))
         /\ Ones(Tail(sql), QueriesWith(i))
         /\ ~(Head(sql) \in QueriesWith(i) /\ Has(Tail(sql), QueriesWith(i)))
         /\ Tail(sql) \in Seq(Queries)
<1>1. Ones(sql, QueriesWith(i))  BY DEF Apart, Singly
<1> QED  BY <1>1, WiresAre, QueueTaken, HeadTailProperties DEF Queried

\* An item of a query that is done is where the query put it.
LEMMA QueriedOnly ==
  ASSUME NEW i, Apart(i), Queried(i)
  PROVE  /\ AwayFromBags(i) /\ AwayFromSale(i) /\ AwayFromBoxes(i) /\ AwayFromHolds(i)
         /\ ~Asked(i) /\ ~Answered(i)
         /\ \A b \in Bots : ~Has(toDb, Handings(b, i)) /\ i \notin dheld[b]
<1>1. /\ AwayFromBags(i) /\ AwayFromSale(i) /\ AwayFromBoxes(i) /\ AwayFromHolds(i)
      /\ ~Asked(i) /\ ~Answered(i)
  BY Alone DEF Apart
<1>2. \A b \in Bots : ~Has(toDb, Handings(b, i))  BY DEF Apart, TakenOut
<1> QED  BY <1>1, <1>2 DEF AwayFromHolds, Held

LEMMA PutOnSale ==
  ASSUME TypeOK, NEW i, Apart(i), Queried(i), ~Has(sql', QueriesWith(i)), Ones(sql', QueriesWith(i)),
         NEW o \in Bots, \A b \in Bots : b # o => dprice'[b][i] = dprice[b][i],
         UNCHANGED <<bag, dbox, dheld, toDb>>,
         Has(toCore', AnswersWith(i)) <=> Answered(i), Ones(toCore', AnswersWith(i))
  PROVE  Apart(i)'
<1>1. /\ AwayFromBags(i) /\ AwayFromSale(i) /\ AwayFromBoxes(i)
      /\ ~Asked(i) /\ ~Answered(i)
      /\ \A b \in Bots : ~Has(toDb, Handings(b, i)) /\ i \notin dheld[b]
  BY QueriedOnly
<1>2. \A b \in Bots : dprice'[b][i] > 0 => b = o  BY <1>1 DEF AwayFromSale, OnSale
<1>3. OutOfBags(i) /\ OutOfBoxes(i) /\ NotHeld(i)
  BY <1>1 DEF OutOfBags, OutOfBoxes, NotHeld, AwayFromBags, AwayFromBoxes, InBag, InBox
<1>4. NotAsked(i) /\ NotQueried(i) /\ NotAnswered(i) /\ NotHanded(i)
  BY <1>1 DEF NotAsked, NotQueried, NotAnswered, NotHanded, Asked
<1>5. InOrder(i)  BY DEF InOrder, Apart, Singly, TakenOut
<1> QED  BY <1>2, <1>3, <1>4, <1>5, ForSale

\* A line that is put changes no other.
LEMMA PutChanges ==
  ASSUME TypeOK, NEW o \in Bots, NEW j \in Items, NEW p \in Nat, Put(o, j, p)
  PROVE  \A b \in Bots, i \in Items : b # o \/ i # j => dprice'[b][i] = dprice[b][i]
<1>1. CASE dprice' = dprice  BY <1>1
<1>2. CASE dprice' = [dprice EXCEPT ![o] = [@ EXCEPT ![j] = p]]
  <2>1. \A b \in Bots, i \in Items : <<b, i>> # <<o, j>> => dprice'[b][i] = dprice[b][i]
    BY <1>2, LineSet DEF TypeOK, ShopsOK
  <2> QED  BY <2>1
<1> QED  BY <1>1, <1>2 DEF Put

\* The item is in another query, or in the same one still.
LEMMA NotItsQuery ==
  ASSUME TypeOK, NEW i, Apart(i), Has(sql', QueriesWith(i)) => Queried(i), Ones(sql', QueriesWith(i)),
         \A b \in Bots : /\ dprice'[b][i] = dprice[b][i]
                         /\ i \in dbox'[b] => i \in dbox[b],
         UNCHANGED <<bag, dheld, toDb>>,
         Has(toCore', AnswersWith(i)) <=> Answered(i), Ones(toCore', AnswersWith(i))
  PROVE  Apart(i)'
<1>1. Stays(i)
  BY DEF Stays, Apart, Singly, TakenOut, InBag, OnSale, InBox, Held, Asked, Queried, Answered
<1> QED  BY <1>1, ItemStays

LEMMA CreateDoneApart ==
  ASSUME TypeOK, NEW i \in Items, Apart(i), CreateDone PROVE Apart(i)'
<1> DEFINE m == Head(sql)
           p == [m EXCEPT !.op = "put"]
<1>1. m \in Queries /\ m.op = "create" /\ Tail(sql) \in Seq(Queries) /\ sql # <<>>
  BY SqlTakes DEF TypeOK, CreateDone, AtSql
<1>2. m \in Stocking({"create", "put"})  BY <1>1, QueryShapes
<1>3. p \in Queries /\ p.op = "put" /\ p.lines = m.lines  BY <1>2 DEF Stocking, Queries
<1>4. p \in QueriesWith(i) <=> m \in QueriesWith(i)  BY <1>1, <1>3 DEF QueriesWith
<1>5. sql' = Tail(sql) \/ sql' = Append(Tail(sql), p)  BY DEF CreateDone
<1> HIDE DEF m, p
<1>6. Append(Tail(sql), p) = Tail(sql) \o <<p>>  BY <1>1, <1>3, AppendIsConcat
<1>7. /\ Queried(i) <=> m \in QueriesWith(i) \/ Has(Tail(sql), QueriesWith(i))
      /\ Ones(Tail(sql), QueriesWith(i))
      /\ ~(m \in QueriesWith(i) /\ Has(Tail(sql), QueriesWith(i)))
  BY <1>1, TookQuery DEF m
<1>8. (Has(sql', QueriesWith(i)) => Queried(i)) /\ Ones(sql', QueriesWith(i))
  <2>1. CASE sql' = Tail(sql)  BY <1>7, <2>1
  <2>2. CASE sql' = Tail(sql) \o <<p>>  BY <1>1, <1>3, <1>4, <1>7, <2>2, QueueSent
  <2> QED  BY <1>5, <1>6, <2>1, <2>2
<1>9. (Has(toCore', AnswersWith(i)) <=> Answered(i)) /\ Ones(toCore', AnswersWith(i))
  BY SqlWires, QuietWires
<1>10. UNCHANGED <<bag, dprice, dbox, dheld, toDb>>  BY DEF CreateDone, people, dboxes
<1> QED  BY <1>8, <1>9, <1>10, NotItsQuery

LEMMA PutDoneApart ==
  ASSUME TypeOK, NEW i \in Items, Apart(i), PutDone PROVE Apart(i)'
<1> DEFINE m == Head(sql)
<1>1. m \in Queries /\ m.op = "put" /\ Tail(sql) \in Seq(Queries) /\ sql # <<>>
  BY SqlTakes DEF TypeOK, PutDone, AtSql
<1>2. m \in Stocking({"create", "put"}) /\ m.owner \in Bots /\ m.lines \in [Items -> Nat]
  BY <1>1, QueryShapes
<1>3. PICK j \in Items : /\ m.lines[j] > 0
                         /\ Put(m.owner, j, m.lines[j])
                         /\ sql' = IF [m.lines EXCEPT ![j] = 0] = NoLines THEN Tail(sql)
                                   ELSE <<[m EXCEPT !.lines = [m.lines EXCEPT ![j] = 0]]>> \o Tail(sql)
  BY DEF PutDone
<1> DEFINE rest == [m.lines EXCEPT ![j] = 0]
           p == [m EXCEPT !.lines = rest]
<1>4. rest \in [Items -> Nat] /\ rest[i] = IF i = j THEN 0 ELSE m.lines[i]  BY <1>2
<1>5. p \in Queries /\ p.op = "put" /\ p.lines = rest  BY <1>1, <1>2, <1>4 DEF Stocking, Queries
<1>6. /\ m \in QueriesWith(i) <=> m.lines[i] > 0
      /\ p \in QueriesWith(i) <=> rest[i] > 0
  BY <1>1, <1>5 DEF QueriesWith
<1>7. sql' = Tail(sql) \/ sql' = <<p>> \o Tail(sql)  BY <1>3
<1>8. UNCHANGED <<bag, dbox, dheld, toDb, toCore>>  BY DEF PutDone, people, dboxes
<1>9. \A b \in Bots, k \in Items : b # m.owner \/ k # j => dprice'[b][k] = dprice[b][k]
  BY <1>2, <1>3, PutChanges
<1> HIDE DEF m, rest, p
<1>10. /\ Queried(i) <=> m \in QueriesWith(i) \/ Has(Tail(sql), QueriesWith(i))
       /\ Ones(Tail(sql), QueriesWith(i))
       /\ ~(m \in QueriesWith(i) /\ Has(Tail(sql), QueriesWith(i)))
  BY <1>1, TookQuery DEF m
<1>11. /\ Has(sql', QueriesWith(i)) => p \in QueriesWith(i) \/ Has(Tail(sql), QueriesWith(i))
       /\ ~(p \in QueriesWith(i) /\ Has(Tail(sql), QueriesWith(i))) => Ones(sql', QueriesWith(i))
  <2>1. CASE sql' = Tail(sql)  BY <1>10, <2>1
  <2>2. CASE sql' = <<p>> \o Tail(sql)
    <3>1. <<p>> \in Seq(Queries)  BY <1>5, Single
    <3>2. (Has(<<p>>, QueriesWith(i)) <=> p \in QueriesWith(i)) /\ Ones(<<p>>, QueriesWith(i))
      BY ShortQueues
    <3> QED  BY <1>1, <1>10, <2>2, <3>1, <3>2, QueueJoined
  <2> QED  BY <1>7, <2>1, <2>2
<1>12. (Has(toCore', AnswersWith(i)) <=> Answered(i)) /\ Ones(toCore', AnswersWith(i))
  BY <1>8 DEF Answered, Apart, Singly
<1>13. CASE i = j
  <2>1. m \in QueriesWith(i) /\ p \notin QueriesWith(i)  BY <1>3, <1>4, <1>6, <1>13
  <2>2. Queried(i) /\ ~Has(sql', QueriesWith(i)) /\ Ones(sql', QueriesWith(i))
    BY <1>10, <1>11, <2>1
  <2>3. \A b \in Bots : b # m.owner => dprice'[b][i] = dprice[b][i]  BY <1>9
  <2> QED  BY <1>2, <1>8, <1>12, <2>2, <2>3, PutOnSale
<1>14. CASE i # j
  <2>1. p \in QueriesWith(i) <=> m \in QueriesWith(i)  BY <1>4, <1>6, <1>14
  <2>2. (Has(sql', QueriesWith(i)) => Queried(i)) /\ Ones(sql', QueriesWith(i))
    BY <1>10, <1>11, <2>1
  <2>3. \A b \in Bots : dprice'[b][i] = dprice[b][i] /\ (i \in dbox'[b] => i \in dbox[b])
    BY <1>8, <1>9, <1>14
  <2> QED  BY <1>8, <1>12, <2>2, <2>3, NotItsQuery
<1> QED  BY <1>13, <1>14

LEMMA AddDoneApart ==
  ASSUME TypeOK, NEW i \in Items, Apart(i), AddDone PROVE Apart(i)'
<1> DEFINE m == Head(sql)
<1>1. m \in Queries /\ m.op = "add" /\ sql # <<>> /\ sql' = Tail(sql)
  BY SqlTakes DEF TypeOK, AddDone, AtSql
<1>2. m.owner \in Bots /\ m.item \in Items /\ m.price \in Nat  BY <1>1, QueryShapes
<1>3. \A b \in Bots, k \in Items : b # m.owner \/ k # m.item => dprice'[b][k] = dprice[b][k]
  BY <1>2, PutChanges DEF AddDone
<1>4. UNCHANGED <<bag, dbox, dheld, toDb>>  BY DEF AddDone, people, dboxes
<1>5. m \in QueriesWith(i) <=> i = m.item  BY <1>1 DEF QueriesWith
<1> HIDE DEF m
<1>6. /\ Queried(i) <=> m \in QueriesWith(i) \/ Has(sql', QueriesWith(i))
      /\ Ones(sql', QueriesWith(i))
      /\ ~(m \in QueriesWith(i) /\ Has(sql', QueriesWith(i)))
  BY <1>1, TookQuery DEF m
<1>7. (Has(toCore', AnswersWith(i)) <=> Answered(i)) /\ Ones(toCore', AnswersWith(i))
  BY SqlWires, QuietWires
<1>8. CASE i = m.item
  <2>1. \A b \in Bots : b # m.owner => dprice'[b][i] = dprice[b][i]  BY <1>3
  <2> QED  BY <1>2, <1>4, <1>5, <1>6, <1>7, <1>8, <2>1, PutOnSale
<1>9. CASE i # m.item
  <2>1. \A b \in Bots : dprice'[b][i] = dprice[b][i] /\ (i \in dbox'[b] => i \in dbox[b])
    BY <1>3, <1>4, <1>9
  <2> QED  BY <1>4, <1>6, <1>7, <2>1, NotItsQuery
<1> QED  BY <1>8, <1>9

LEMMA BoxAddDoneApart ==
  ASSUME TypeOK, NEW i \in Items, Apart(i), BoxAddDone PROVE Apart(i)'
<1> DEFINE m == Head(sql)
<1>1. m \in Queries /\ m.op = "boxadd" /\ sql # <<>> /\ sql' = Tail(sql)
  BY SqlTakes DEF TypeOK, BoxAddDone, AtSql
<1>2. m.owner \in Bots /\ m.item \in Items  BY <1>1, QueryShapes
<1>3. dbox' = [dbox EXCEPT ![m.owner] = @ \cup {m.item}]  BY DEF BoxAddDone
<1>4. UNCHANGED <<bag, dprice, dheld, toDb>>  BY DEF BoxAddDone, people, dshops
<1>5. m \in QueriesWith(i) <=> i = m.item  BY <1>1 DEF QueriesWith
<1> HIDE DEF m
<1>6. /\ Queried(i) <=> m \in QueriesWith(i) \/ Has(sql', QueriesWith(i))
      /\ Ones(sql', QueriesWith(i))
      /\ ~(m \in QueriesWith(i) /\ Has(sql', QueriesWith(i)))
  BY <1>1, TookQuery DEF m
<1>7. (Has(toCore', AnswersWith(i)) <=> Answered(i)) /\ Ones(toCore', AnswersWith(i))
  BY SqlWires, QuietWires
<1>8. CASE i = m.item
  <2>1. Queried(i)  BY <1>5, <1>6, <1>8
  <2>2. /\ AwayFromBags(i) /\ AwayFromSale(i) /\ AwayFromBoxes(i)
        /\ ~Asked(i) /\ ~Answered(i)
        /\ \A b \in Bots : ~Has(toDb, Handings(b, i)) /\ i \notin dheld[b]
    BY <2>1, QueriedOnly
  <2>3. \A b \in Bots : i \in dbox'[b] => b = m.owner
    BY <1>3, <2>2 DEF AwayFromBoxes, InBox, TypeOK, BoxesOK
  <2>4. OutOfBags(i) /\ OffSale(i) /\ NotHeld(i)
    BY <1>4, <2>2 DEF OutOfBags, OffSale, NotHeld, AwayFromBags, AwayFromSale, InBag, OnSale
  <2>5. NotAsked(i) /\ NotQueried(i) /\ NotAnswered(i) /\ NotHanded(i)
    BY <1>4, <1>5, <1>6, <1>7, <1>8, <2>2 DEF NotAsked, NotQueried, NotAnswered, NotHanded, Asked
  <2>6. InOrder(i)  BY <1>4, <1>6, <1>7 DEF InOrder, Apart, Singly, TakenOut
  <2> QED  BY <1>2, <2>3, <2>4, <2>5, <2>6, InTheBox
<1>9. CASE i # m.item
  <2>1. \A b \in Bots : dprice'[b][i] = dprice[b][i] /\ (i \in dbox'[b] => i \in dbox[b])
    BY <1>2, <1>3, <1>4, <1>9 DEF TypeOK, BoxesOK
  <2> QED  BY <1>4, <1>6, <1>7, <2>1, NotItsQuery
<1> QED  BY <1>8, <1>9

-----------------------------------------------------------------------------
(* Off the counter: what is removed or sold is on its way to the core.     *)

\* A line is only repriced while it is there.
LEMMA DbEditApart ==
  ASSUME TypeOK, NEW i \in Items, Apart(i), DbEdit PROVE Apart(i)'
<1> DEFINE m == Head(toDb)
<1>1. m \in Requests /\ m.op = "edit"  BY DbTakes DEF TypeOK, DbEdit
<1>2. m.owner \in Bots /\ m.item \in Items /\ m.price \in Nat  BY <1>1, RequestShapes
<1>3. \A b \in Bots : dprice'[b][i] > 0 => OnSale(i, b)
  <2>1. CASE dprice' = dprice  BY <2>1 DEF OnSale
  <2>2. CASE /\ HasLine(m.owner, m.item)
             /\ dprice' = [dprice EXCEPT ![m.owner] = [@ EXCEPT ![m.item] = m.price]]
    <3>1. \A b \in Bots, j \in Items : <<b, j>> # <<m.owner, m.item>> =>
            dprice'[b][j] = dprice[b][j]
      BY <1>2, <2>2, LineSet DEF TypeOK, ShopsOK
    <3>2. OnSale(m.item, m.owner)  BY <2>2 DEF HasLine, OnSale
    <3> QED  BY <3>1, <3>2 DEF OnSale
  <2> QED  BY <2>1, <2>2 DEF DbEdit, Editable, Repriced
<1>4. DbWire({"edit"}) /\ CoreWire({"edited"}) /\ sql' = sql  BY DbWires
<1>5. /\ Has(toDb', AsksWith(i)) <=> Asked(i)
      /\ Ones(toDb', AsksWith(i))
      /\ \A b \in Bots : Before(toDb', Handings(b, i), AsksWith(i))
      /\ \A b \in Bots : Has(toDb', Handings(b, i)) <=> Has(toDb, Handings(b, i))
      /\ (Has(toCore', AnswersWith(i)) <=> Answered(i)) /\ Ones(toCore', AnswersWith(i))
  BY <1>4, QuietWires
<1>6. UNCHANGED <<bag, dbox, dheld>>  BY DEF DbEdit, people, dboxes
<1>7. Stays(i)
  BY <1>3, <1>4, <1>5, <1>6 DEF Stays, Apart, Singly, InBag, InBox, Held, Queried
<1> QED  BY <1>7, ItemStays

\* What comes off the counter is answered for.
LEMMA OffTheCounter ==
  ASSUME TypeOK, NEW i, Apart(i), NEW o \in Bots, OnSale(i, o), ~(dprice'[o][i] > 0),
         \A b \in Bots : b # o => dprice'[b][i] = dprice[b][i],
         UNCHANGED <<bag, dbox, dheld, sql>>,
         Has(toDb', AsksWith(i)) <=> Asked(i), Ones(toDb', AsksWith(i)),
         \A b \in Bots : Before(toDb', Handings(b, i), AsksWith(i)),
         \A b \in Bots : Has(toDb', Handings(b, i)) <=> Has(toDb, Handings(b, i)),
         Ones(toCore, AnswersWith(i)) /\ ~Answered(i) => Ones(toCore', AnswersWith(i))
  PROVE  Apart(i)'
<1>1. /\ \A c \in Bots : OnSale(i, c) => c = o
      /\ AwayFromBags(i) /\ AwayFromBoxes(i) /\ AwayFromHolds(i) /\ AwayFromWires(i)
  BY Alone DEF Apart
<1>2. \A b \in Bots : ~Has(toDb, Handings(b, i))  BY DEF Apart, TakenOut
<1>3. OffSale(i)  BY <1>1 DEF OffSale, OnSale
<1>4. OutOfBags(i) /\ OutOfBoxes(i)
  BY <1>1 DEF OutOfBags, OutOfBoxes, AwayFromBags, AwayFromBoxes, InBag, InBox
<1>5. NotHeld(i)  BY <1>1 DEF NotHeld, AwayFromHolds, Held
<1>6. NotAsked(i) /\ NotQueried(i) /\ NotHanded(i)
  BY <1>1, <1>2 DEF NotAsked, NotQueried, NotHanded, AwayFromWires, Queried
<1>7. InOrder(i)  BY <1>1 DEF InOrder, Apart, Singly, AwayFromWires
<1> QED  BY <1>3, <1>4, <1>5, <1>6, <1>7, OnTheWire

\* A step that sets no line of the item and sends nothing with it.
LEMMA OtherLine ==
  ASSUME TypeOK, NEW i, Apart(i),
         \A b \in Bots : dprice'[b][i] > 0 => OnSale(i, b),
         UNCHANGED <<bag, dbox, dheld, sql>>,
         Has(toDb', AsksWith(i)) <=> Asked(i), Ones(toDb', AsksWith(i)),
         \A b \in Bots : Before(toDb', Handings(b, i), AsksWith(i)),
         \A b \in Bots : Has(toDb', Handings(b, i)) <=> Has(toDb, Handings(b, i)),
         Has(toCore', AnswersWith(i)) => Answered(i), Ones(toCore', AnswersWith(i))
  PROVE  Apart(i)'
<1>1. Stays(i)  BY DEF Stays, Apart, Singly, InBag, InBox, Held, Queried
<1> QED  BY <1>1, ItemStays

LEMMA DbRemoveApart ==
  ASSUME TypeOK, NEW i \in Items, Apart(i), DbRemove PROVE Apart(i)'
<1> DEFINE m == Head(toDb)
           a == [op |-> "removed", owner |-> m.owner, item |-> m.item]
<1>1. m \in Requests /\ m.op = "remove"  BY DbTakes DEF TypeOK, DbRemove
<1>2. m.owner \in Bots /\ m.item \in Items  BY <1>1, RequestShapes
<1>3. a \in Answers /\ a.op = "removed" /\ a.item = m.item  BY <1>2 DEF Answers, Named
<1>4. DbWire({"remove"}) /\ sql' = sql  BY DbWires
<1>6. /\ Has(toDb', AsksWith(i)) <=> Asked(i)
      /\ Ones(toDb', AsksWith(i))
      /\ \A b \in Bots : Before(toDb', Handings(b, i), AsksWith(i))
      /\ \A b \in Bots : Has(toDb', Handings(b, i)) <=> Has(toDb, Handings(b, i))
  <2>1. CoreWire({"removed"})  BY DbWires
  <2> QED  BY <1>4, <2>1, QuietWires
<1>7. UNCHANGED <<bag, dbox, dheld>>  BY DEF DbRemove, people, dboxes
<1>8. \/ /\ HasLine(m.owner, m.item)
         /\ dprice' = [dprice EXCEPT ![m.owner] = [@ EXCEPT ![m.item] = 0]]
         /\ toCore' = toCore \o <<a>>
      \/ dprice' = dprice /\ toCore' = toCore \o <<>>
  BY DEF DbRemove, ToCore
<1>9. Ones(toCore, AnswersWith(i))  BY DEF Apart, Singly
<1> HIDE DEF a
<1>10. CASE dprice' = dprice /\ toCore' = toCore \o <<>>
  <2>1. toCore' = toCore  BY <1>10, WiresAre, ConcatEmptySeq
  <2>2. /\ \A b \in Bots : dprice'[b][i] > 0 => OnSale(i, b)
        /\ Has(toCore', AnswersWith(i)) => Answered(i)
        /\ Ones(toCore', AnswersWith(i))
    BY <1>9, <1>10, <2>1 DEF OnSale, Answered
  <2> QED  BY <1>4, <1>6, <1>7, <2>2, OtherLine
<1>11. CASE /\ HasLine(m.owner, m.item)
            /\ dprice' = [dprice EXCEPT ![m.owner] = [@ EXCEPT ![m.item] = 0]]
            /\ toCore' = toCore \o <<a>>
  <2>1. /\ dprice'[m.owner][m.item] = 0
        /\ \A b \in Bots, j \in Items : <<b, j>> # <<m.owner, m.item>> =>
             dprice'[b][j] = dprice[b][j]
    BY <1>2, <1>11, LineSet DEF TypeOK, ShopsOK
  <2>2. /\ Has(toCore', AnswersWith(i)) <=> Answered(i) \/ a \in AnswersWith(i)
        /\ ~(Answered(i) /\ a \in AnswersWith(i)) => Ones(toCore', AnswersWith(i))
    BY <1>3, <1>9, <1>11, WiresAre, QueueSent DEF Answered
  <2>3. CASE i = m.item
    <3>1. OnSale(i, m.owner) /\ ~(dprice'[m.owner][i] > 0)
      BY <1>11, <2>1, <2>3 DEF HasLine, OnSale
    <3>2. \A b \in Bots : b # m.owner => dprice'[b][i] = dprice[b][i]  BY <2>1
    <3>3. Ones(toCore, AnswersWith(i)) /\ ~Answered(i) => Ones(toCore', AnswersWith(i))  BY <2>2
    <3> HIDE DEF m
    <3> QED  BY <1>2, <1>4, <1>6, <1>7, <3>1, <3>2, <3>3, OffTheCounter
  <2>4. CASE i # m.item
    <3>1. a \notin AnswersWith(i)  BY <1>3, <2>4 DEF AnswersWith
    <3>2. \A b \in Bots : dprice'[b][i] > 0 => OnSale(i, b)  BY <2>1, <2>4 DEF OnSale
    <3>3. (Has(toCore', AnswersWith(i)) => Answered(i)) /\ Ones(toCore', AnswersWith(i))
      BY <2>2, <3>1
    <3> QED  BY <1>4, <1>6, <1>7, <3>2, <3>3, OtherLine
  <2> QED  BY <2>3, <2>4
<1> QED  BY <1>8, <1>10, <1>11

LEMMA DbBuyApart ==
  ASSUME TypeOK, Purchases, NEW i \in Items, Apart(i), DbBuy PROVE Apart(i)'
<1> DEFINE m == Head(toDb)
           y == [op |-> "yang", owner |-> m.owner, yang |-> Taxed(dprice[m.owner][m.item])]
           a == [op |-> "sold", who |-> m.who, owner |-> m.owner, item |-> m.item]
<1>1. /\ m.owner \in Bots /\ m.item \in Items /\ m.who \in Bots
      /\ <<m.owner, m.item>> \in locked /\ HasLine(m.owner, m.item)
  BY PaymentLocked
<1>2. a \in Answers /\ a.op = "sold" /\ a.item = m.item  BY <1>1 DEF Answers, Shopping
<1>3. y \in Answers /\ y.op = "yang"
  <2>1. Taxed(dprice[m.owner][m.item]) \in Int
    BY <1>1, PriceAssumption DEF TypeOK, ShopsOK, Taxed
  <2> QED  BY <1>1, <2>1 DEF Answers, Paid
<1>4. DbWire({"buy"}) /\ CoreWire({"yang", "sold"}) /\ sql' = sql  BY DbWires
<1>5. /\ Has(toDb', AsksWith(i)) <=> Asked(i)
      /\ Ones(toDb', AsksWith(i))
      /\ \A b \in Bots : Before(toDb', Handings(b, i), AsksWith(i))
      /\ \A b \in Bots : Has(toDb', Handings(b, i)) <=> Has(toDb, Handings(b, i))
  BY <1>4, QuietWires
<1>6. UNCHANGED <<bag, dbox, dheld>>  BY DEF DbBuy, people
<1>7. \/ /\ dprice' = [dprice EXCEPT ![m.owner] = [@ EXCEPT ![m.item] = 0]]
         /\ toCore' = toCore \o <<y, a>>
      \/ dprice' = dprice /\ toCore' = toCore
  BY <1>1 DEF DbBuy, ToCore
<1>8. Ones(toCore, AnswersWith(i))  BY DEF Apart, Singly
<1> HIDE DEF a, y
<1>9. CASE dprice' = dprice /\ toCore' = toCore
  <2>1. /\ \A b \in Bots : dprice'[b][i] > 0 => OnSale(i, b)
        /\ Has(toCore', AnswersWith(i)) => Answered(i)
        /\ Ones(toCore', AnswersWith(i))
    BY <1>8, <1>9 DEF OnSale, Answered
  <2> QED  BY <1>4, <1>5, <1>6, <2>1, OtherLine
<1>10. CASE /\ dprice' = [dprice EXCEPT ![m.owner] = [@ EXCEPT ![m.item] = 0]]
            /\ toCore' = toCore \o <<y, a>>
  <2>1. /\ dprice'[m.owner][m.item] = 0
        /\ \A b \in Bots, j \in Items : <<b, j>> # <<m.owner, m.item>> =>
             dprice'[b][j] = dprice[b][j]
    BY <1>1, <1>10, LineSet DEF TypeOK, ShopsOK
  <2>2. y \notin AnswersWith(i)  BY <1>3 DEF AnswersWith
  <2>3. /\ Has(<<y, a>>, AnswersWith(i)) <=> a \in AnswersWith(i)
        /\ Ones(<<y, a>>, AnswersWith(i))
        /\ <<y, a>> \in Seq(Answers)
    BY <1>2, <1>3, <2>2, ShortQueues, Two
  <2>4. /\ Has(toCore', AnswersWith(i)) <=> Answered(i) \/ a \in AnswersWith(i)
        /\ ~(Answered(i) /\ a \in AnswersWith(i)) => Ones(toCore', AnswersWith(i))
    BY <1>8, <1>10, <2>3, WiresAre, QueueJoined DEF Answered
  <2>5. CASE i = m.item
    <3>1. OnSale(i, m.owner) /\ ~(dprice'[m.owner][i] > 0)
      BY <1>1, <2>1, <2>5 DEF HasLine, OnSale
    <3>2. \A b \in Bots : b # m.owner => dprice'[b][i] = dprice[b][i]  BY <2>1
    <3>3. Ones(toCore, AnswersWith(i)) /\ ~Answered(i) => Ones(toCore', AnswersWith(i))  BY <2>4
    <3> HIDE DEF m
    <3> QED  BY <1>1, <1>4, <1>5, <1>6, <3>1, <3>2, <3>3, OffTheCounter
  <2>6. CASE i # m.item
    <3>1. a \notin AnswersWith(i)  BY <1>2, <2>6 DEF AnswersWith
    <3>2. \A b \in Bots : dprice'[b][i] > 0 => OnSale(i, b)  BY <2>1, <2>6 DEF OnSale
    <3>3. (Has(toCore', AnswersWith(i)) => Answered(i)) /\ Ones(toCore', AnswersWith(i))
      BY <2>4, <3>1
    <3> QED  BY <1>4, <1>5, <1>6, <3>2, <3>3, OtherLine
  <2> QED  BY <2>5, <2>6
<1> QED  BY <1>7, <1>9, <1>10

-----------------------------------------------------------------------------
(* Back from the counter: into a bag, or asked into a safebox.             *)

\* What goes to the db core for an item that left the counter.
LEMMA GoneSends ==
  ASSUME NEW i, NEW m, m.owner \in Bots, m.item \in Items, NEW b \in Bots,
         NEW ms, ms = <<>> \/ ms = Boxed(b, m.item)
  PROVE  LET r == ms \o CloseIfEmpty(m)
         IN  /\ r \in Seq(Requests) /\ Ones(r, AsksWith(i))
             /\ Has(r, AsksWith(i)) <=> ms = Boxed(b, m.item) /\ i = m.item
             /\ \A c : ~Has(r, Handings(c, i)) /\ Before(r, Handings(c, i), AsksWith(i))
<1> DEFINE x == [op |-> "boxadd", owner |-> b, item |-> m.item]
           h == [op |-> "hardclose", owner |-> m.owner]
           r == ms \o CloseIfEmpty(m)
<1>1. x \in Requests /\ x.op = "boxadd" /\ x.item = m.item  BY DEF Requests, Named
<1>2. h \in Requests /\ h.op = "hardclose"  BY DEF Requests
<1>3. Boxed(b, m.item) = <<x>>  BY DEF Boxed
<1>4. CloseIfEmpty(m) = <<h>> \/ CloseIfEmpty(m) = <<>>  BY DEF CloseIfEmpty
<1> HIDE DEF x, h
<1>5. (x \in AsksWith(i) <=> i = m.item) /\ h \notin AsksWith(i)  BY <1>1, <1>2 DEF AsksWith
<1>6. \A c : x \notin Handings(c, i) /\ h \notin Handings(c, i)  BY <1>1, <1>2, NoHanding
<1>7. <<x>> # <<>>
  <2>1. Len(<<x>>) = 1 /\ Len(<<>>) = 0  OBVIOUS
  <2> QED  BY <2>1
<1>8. /\ ms \in Seq(Requests) /\ Ones(ms, AsksWith(i))
      /\ \A c : ~Has(ms, Handings(c, i))
      /\ Has(ms, AsksWith(i)) <=> ms = Boxed(b, m.item) /\ i = m.item
  <2>1. CASE ms = <<>>
    <3>1. ms # Boxed(b, m.item)  BY <1>3, <1>7, <2>1
    <3>2. \A S : ~Has(ms, S) /\ Ones(ms, S)  BY <2>1, ShortQueues
    <3> QED  BY <2>1, <3>1, <3>2, Nothing
  <2>2. CASE ms = <<x>>
    <3>1. \A S : (Has(ms, S) <=> x \in S) /\ Ones(ms, S)  BY <2>2, ShortQueues
    <3>2. ms \in Seq(Requests)  BY <1>1, <2>2, Single
    <3> QED  BY <1>3, <1>5, <1>6, <2>2, <3>1, <3>2
  <2> QED  BY <1>3, <2>1, <2>2
<1>9. /\ CloseIfEmpty(m) \in Seq(Requests) /\ Ones(CloseIfEmpty(m), AsksWith(i))
      /\ ~Has(CloseIfEmpty(m), AsksWith(i))
      /\ \A c : ~Has(CloseIfEmpty(m), Handings(c, i))
  <2>1. CASE CloseIfEmpty(m) = <<>>
    <3>1. \A S : ~Has(CloseIfEmpty(m), S) /\ Ones(CloseIfEmpty(m), S)  BY <2>1, ShortQueues
    <3> QED  BY <2>1, <3>1, Nothing
  <2>2. CASE CloseIfEmpty(m) = <<h>>
    <3>1. \A S : (Has(CloseIfEmpty(m), S) <=> h \in S) /\ Ones(CloseIfEmpty(m), S)
      BY <2>2, ShortQueues
    <3>2. CloseIfEmpty(m) \in Seq(Requests)  BY <1>2, <2>2, Single
    <3> QED  BY <1>5, <1>6, <3>1, <3>2
  <2> QED  BY <1>4, <2>1, <2>2
<1>10. /\ r \in Seq(Requests) /\ Ones(r, AsksWith(i))
       /\ Has(r, AsksWith(i)) <=> ms = Boxed(b, m.item) /\ i = m.item
       /\ \A c : ~Has(r, Handings(c, i))
  BY <1>8, <1>9, QueueJoined, Joined
<1>11. \A c : Before(r, Handings(c, i), AsksWith(i))
  <2> HIDE DEF r
  <2> QED  BY <1>10 DEF Has, Before
<1> QED  BY <1>10, <1>11

\* An answer for item j: into the bag of b, into its safebox, or lost.
Returns(i, j, b, given, boxed) ==
  /\ Answered(i) <=> i = j \/ Has(toCore', AnswersWith(i))
  /\ Ones(toCore', AnswersWith(i)) /\ ~(i = j /\ Has(toCore', AnswersWith(i)))
  /\ bag' = IF given THEN Given(b, j) ELSE bag
  /\ Has(toDb', AsksWith(i)) <=> Asked(i) \/ (boxed /\ i = j)
  /\ ~(Asked(i) /\ boxed /\ i = j) => Ones(toDb', AsksWith(i))
  /\ \A c \in Bots : /\ Has(toDb', Handings(c, i)) <=> Has(toDb, Handings(c, i))
                     /\ Before(toDb', Handings(c, i), AsksWith(i))
  /\ UNCHANGED <<dprice, dbox, dheld, sql>>

LEMMA ReturnsApart ==
  ASSUME TypeOK, NEW i \in Items, Apart(i), NEW j \in Items, NEW b \in Bots,
         NEW given \in BOOLEAN, NEW boxed \in BOOLEAN, ~(given /\ boxed),
         Returns(i, j, b, given, boxed)
  PROVE  Apart(i)'
<1>1. given => bag' = Given(b, j)  BY DEF Returns
<1>2. ~given => bag' = bag  BY DEF Returns
<1>3. bag \in [Bots -> SUBSET Items]  BY DEF TypeOK, PeopleOK
<1>4. \A c \in Bots : i \in bag'[c] => i \in bag[c] \/ (given /\ i = j /\ c = b)
  BY <1>1, <1>2, <1>3 DEF Given
<1>5. CASE i = j
  <2>1. Answered(i)  BY <1>5 DEF Returns
  <2>2. /\ AwayFromBags(i) /\ AwayFromSale(i) /\ AwayFromBoxes(i) /\ AwayFromHolds(i)
        /\ ~Asked(i) /\ ~Queried(i)
    BY <2>1, Alone DEF Apart
  <2>3. \A c \in Bots : ~Has(toDb, Handings(c, i))  BY <2>1 DEF Apart, TakenOut
  <2>4. OffSale(i) /\ OutOfBoxes(i)
    BY <2>2 DEF Returns, OffSale, OutOfBoxes, AwayFromSale, AwayFromBoxes, OnSale, InBox
  <2>5. NotHeld(i)  BY <2>2, <2>3 DEF Returns, NotHeld, AwayFromHolds, Held
  <2>6. NotQueried(i) /\ NotAnswered(i) /\ NotHanded(i)
    BY <1>5, <2>2, <2>3 DEF Returns, NotQueried, NotAnswered, NotHanded, Queried
  <2>7. InOrder(i)  BY <2>2 DEF Returns, InOrder, Apart, Singly
  <2>8. CASE given
    <3>1. NotAsked(i)  BY <2>2, <2>8 DEF Returns, NotAsked
    <3>2. \A c \in Bots : i \in bag'[c] => c = b  BY <1>4, <2>2 DEF AwayFromBags, InBag
    <3> QED  BY <2>4, <2>5, <2>6, <2>7, <3>1, <3>2, InTheBag
  <2>9. CASE ~given
    <3>1. OutOfBags(i)  BY <1>4, <2>2, <2>9 DEF OutOfBags, AwayFromBags, InBag
    <3> QED  BY <2>4, <2>5, <2>6, <2>7, <3>1, OnTheWire
  <2> QED  BY <2>8, <2>9
<1>6. CASE i # j
  <2>1. \A c \in Bots : i \in bag'[c] => InBag(i, c)  BY <1>4, <1>6 DEF InBag
  <2>2. Stays(i)
    BY <1>6, <2>1 DEF Returns, Stays, Apart, Singly, OnSale, InBox, Held, Queried
  <2> QED  BY <2>2, ItemStays
<1> QED  BY <1>5, <1>6

\* The wires of such an answer.
LEMMA ReturnWires ==
  ASSUME TypeOK, NEW i \in Items, Apart(i), NEW op \in {"removed", "sold"}, AtCore(op), TakenByCore,
         NEW b \in Bots, NEW ms, ms = <<>> \/ ms = Boxed(b, Head(toCore).item),
         NEW given \in BOOLEAN, given => ms = <<>>,
         UNCHANGED <<dprice, dbox, dheld, sql>>,
         \/ UNCHANGED toDb /\ bag' = bag
         \/ /\ toDb' = toDb \o (ms \o CloseIfEmpty(Head(toCore)))
            /\ bag' = IF given THEN Given(b, Head(toCore).item) ELSE bag
  PROVE  Apart(i)'
<1> DEFINE m == Head(toCore)
           r == ms \o CloseIfEmpty(m)
           boxed == ms = Boxed(b, m.item)
<1>1. m \in Answers /\ m.op = op /\ toCore # <<>> /\ toCore' = Tail(toCore)
  BY CoreTakes DEF TypeOK, AtCore, TakenByCore
<1>2. m.owner \in Bots /\ m.item \in Items  BY <1>1, AnswerShapes
<1>3. m \in AnswersWith(i) <=> i = m.item  BY <1>1 DEF AnswersWith
<1>4. /\ Answered(i) <=> i = m.item \/ Has(toCore', AnswersWith(i))
      /\ Ones(toCore', AnswersWith(i)) /\ ~(i = m.item /\ Has(toCore', AnswersWith(i)))
  <2>1. Ones(toCore, AnswersWith(i))  BY DEF Apart, Singly
  <2> HIDE DEF m
  <2>2. /\ Answered(i) <=> m \in AnswersWith(i) \/ Has(toCore', AnswersWith(i))
        /\ Ones(toCore', AnswersWith(i)) /\ ~(m \in AnswersWith(i) /\ Has(toCore', AnswersWith(i)))
    BY <1>1, <2>1, WiresAre, QueueTaken DEF Answered, m
  <2> QED  BY <1>3, <2>2
<1>5. /\ Ones(toDb, AsksWith(i))
      /\ \A c \in Bots : Before(toDb, Handings(c, i), AsksWith(i))
  BY DEF Apart, Singly, TakenOut
<1>6. /\ r \in Seq(Requests) /\ Ones(r, AsksWith(i))
      /\ Has(r, AsksWith(i)) <=> boxed /\ i = m.item
      /\ \A c : ~Has(r, Handings(c, i)) /\ Before(r, Handings(c, i), AsksWith(i))
  BY <1>2, GoneSends
<1>7. boxed \in BOOLEAN /\ ~(given /\ boxed)
  <2>1. Boxed(b, m.item) # <<>>
    <3>1. Len(<<[op |-> "boxadd", owner |-> b, item |-> m.item]>>) = 1 /\ Len(<<>>) = 0  OBVIOUS
    <3> QED  BY <3>1 DEF Boxed
  <2> QED  BY <2>1
<1> HIDE DEF m, r, boxed
<1>8. CASE UNCHANGED toDb /\ bag' = bag
  <2>1. Returns(i, m.item, b, FALSE, FALSE)  BY <1>4, <1>5, <1>8 DEF Returns, Asked
  <2> QED  BY <1>2, <2>1, ReturnsApart
<1>9. CASE toDb' = toDb \o r /\ bag' = IF given THEN Given(b, m.item) ELSE bag
  <2>1. /\ Has(toDb', AsksWith(i)) <=> Asked(i) \/ (boxed /\ i = m.item)
        /\ ~(Asked(i) /\ boxed /\ i = m.item) => Ones(toDb', AsksWith(i))
        /\ \A c \in Bots : /\ Has(toDb', Handings(c, i)) <=> Has(toDb, Handings(c, i))
                           /\ Before(toDb', Handings(c, i), AsksWith(i))
    BY <1>5, <1>6, <1>9, WiresAre, QueueJoined DEF Asked
  <2>2. Returns(i, m.item, b, given, boxed)  BY <1>4, <1>9, <2>1 DEF Returns
  <2> QED  BY <1>2, <1>7, <2>2, ReturnsApart
<1> QED  BY <1>8, <1>9 DEF m, r

LEMMA GoneApart ==
  ASSUME TypeOK, NEW i \in Items, Apart(i), NEW room \in BOOLEAN
  PROVE  (CoreRemoved(room) => Apart(i)') /\ (CoreSold(room) => Apart(i)')
<1> DEFINE m == Head(toCore)
<1>1. ASSUME CoreRemoved(room) PROVE Apart(i)'
  <2> DEFINE taken == world[m.owner] = "in" /\ room
             ms == IF taken THEN <<>> ELSE Boxed(m.owner, m.item)
  <2>1. m.owner \in Bots  BY <1>1, CoreTakes, AnswerShapes DEF TypeOK, CoreRemoved
  <2>2. taken \in BOOLEAN /\ (taken => ms = <<>>) /\ (ms = <<>> \/ ms = Boxed(m.owner, m.item))
    OBVIOUS
  <2>3. AtCore("removed") /\ TakenByCore /\ UNCHANGED <<dprice, dbox, dheld, sql>>
    BY <1>1 DEF CoreRemoved, dshops, dboxes
  <2>4. \/ UNCHANGED toDb /\ bag' = bag
        \/ /\ toDb' = toDb \o (ms \o CloseIfEmpty(m))
           /\ bag' = IF taken THEN Given(m.owner, m.item) ELSE bag
    BY <1>1 DEF CoreRemoved, ToDb
  <2> HIDE DEF taken, ms
  <2> QED  BY <2>1, <2>2, <2>3, <2>4, ReturnWires
<1>2. ASSUME CoreSold(room) PROVE Apart(i)'
  <2> DEFINE given == world[m.who] = "in" /\ room
             ms == IF world[m.who] = "in" /\ ~room THEN Boxed(m.who, m.item) ELSE <<>>
  <2>1. m.who \in Bots
    <3>1. m \in Answers /\ m.op = "sold"  BY <1>2, CoreTakes DEF TypeOK, CoreSold
    <3> QED  BY <3>1, AnswerShapes
  <2>2. given \in BOOLEAN /\ (given => ms = <<>>) /\ (ms = <<>> \/ ms = Boxed(m.who, m.item))
    OBVIOUS
  <2>3. AtCore("sold") /\ TakenByCore /\ UNCHANGED <<dprice, dbox, dheld, sql>>
    BY <1>2 DEF CoreSold, dshops, dboxes
  <2>4. \/ UNCHANGED toDb /\ bag' = bag
        \/ /\ toDb' = toDb \o (ms \o CloseIfEmpty(m))
           /\ bag' = IF given THEN Given(m.who, m.item) ELSE bag
    BY <1>2 DEF CoreSold, ToDb
  <2> HIDE DEF given, ms
  <2> QED  BY <2>1, <2>2, <2>3, <2>4, ReturnWires
<1> QED  BY <1>1, <1>2

-----------------------------------------------------------------------------
(* Out of the safebox: held while its owner is told.                       *)

LEMMA DbGetItemApart ==
  ASSUME TypeOK, NEW i \in Items, Apart(i), DbGetItem PROVE Apart(i)'
<1> DEFINE m == Head(toDb)
<1>1. m \in Requests /\ m.op = "getitem"  BY DbTakes DEF TypeOK, DbGetItem
<1>2. m.owner \in Bots /\ m.item \in Items  BY <1>1, RequestShapes
<1>3. DbWire({"getitem"}) /\ CoreWire({"confirm"}) /\ sql' = sql  BY DbWires
<1>4. /\ Has(toDb', AsksWith(i)) <=> Asked(i)
      /\ Ones(toDb', AsksWith(i))
      /\ \A b \in Bots : Before(toDb', Handings(b, i), AsksWith(i))
      /\ \A b \in Bots : Has(toDb', Handings(b, i)) <=> Has(toDb, Handings(b, i))
      /\ (Has(toCore', AnswersWith(i)) <=> Answered(i)) /\ Ones(toCore', AnswersWith(i))
  BY <1>3, QuietWires
<1>5. UNCHANGED <<bag, dprice>>  BY DEF DbGetItem, people, dshops
<1>6. dbox \in [Bots -> SUBSET Items] /\ dheld \in [Bots -> SUBSET Items]
  BY DEF TypeOK, BoxesOK
<1>7. dbox' = [dbox EXCEPT ![m.owner] = @ \ {m.item}]  BY DEF DbGetItem
<1>8. dheld' = IF m.item \in dbox[m.owner] THEN [dheld EXCEPT ![m.owner] = @ \cup {m.item}]
               ELSE dheld
  BY DEF DbGetItem
<1> HIDE DEF m
<1>9. \A b \in Bots : i \in dbox'[b] => i \in dbox[b] /\ ~(b = m.owner /\ i = m.item)
  BY <1>2, <1>6, <1>7
<1>10. \A b \in Bots : i \in dheld'[b] =>
         i \in dheld[b] \/ (b = m.owner /\ i = m.item /\ i \in dbox[b])
  BY <1>2, <1>6, <1>8
<1>11. CASE i = m.item /\ i \in dbox[m.owner]
  <2>1. InBox(i, m.owner)  BY <1>11 DEF InBox
  <2>2. /\ \A c \in Bots : InBox(i, c) => c = m.owner
        /\ AwayFromBags(i) /\ AwayFromSale(i) /\ AwayFromHolds(i) /\ AwayFromWires(i)
    BY <1>2, <2>1, Alone DEF Apart
  <2>3. \A b \in Bots : ~Has(toDb, Handings(b, i))  BY <1>2, <2>1 DEF Apart, TakenOut
  <2>4. \A b \in Bots : i \in dheld'[b] => b = m.owner
    BY <1>10, <2>2, <2>3 DEF AwayFromHolds, Held
  <2>5. OutOfBags(i) /\ OffSale(i)
    BY <1>5, <2>2 DEF OutOfBags, OffSale, AwayFromBags, AwayFromSale, InBag, OnSale
  <2>6. OutOfBoxes(i)  BY <1>9, <1>11, <2>2 DEF OutOfBoxes, InBox
  <2>7. NotAsked(i) /\ NotQueried(i) /\ NotAnswered(i) /\ NotHanded(i)
    BY <1>3, <1>4, <2>2, <2>3
       DEF NotAsked, NotQueried, NotAnswered, NotHanded, AwayFromWires, Queried
  <2>8. InOrder(i)  BY <1>3, <1>4 DEF InOrder, Apart, Singly
  <2> QED  BY <1>2, <2>4, <2>5, <2>6, <2>7, <2>8, BeingHeld
<1>12. CASE ~(i = m.item /\ i \in dbox[m.owner])
  <2>1. Stays(i)
    BY <1>3, <1>4, <1>5, <1>9, <1>10, <1>12
       DEF Stays, Apart, Singly, InBag, OnSale, InBox, Held, Queried
  <2> QED  BY <2>1, ItemStays
<1> QED  BY <1>11, <1>12

\* What is in a safebox is not held, nor is its owner being told.
LEMMA BoxedFree ==
  ASSUME NEW i, Apart(i), NEW b \in Bots, i \in dbox[b]
  PROVE  i \notin dheld[b]
<1>1. InBox(i, b)  BY DEF InBox
<1>2. ~Held(i, b)  BY <1>1, Alone DEF Apart, AwayFromHolds
<1>3. ~Has(toDb, Handings(b, i))  BY <1>1 DEF Apart, TakenOut
<1> QED  BY <1>2, <1>3 DEF Held

LEMMA ItemHeld ==
  ASSUME TypeOK, \A i \in Items : Apart(i), Withdrawals, DbGetItem PROVE Withdrawals'
<1> DEFINE m == Head(toDb)
           a == [op |-> "confirm", owner |-> m.owner, item |-> m.item]
<1>1. m \in Requests /\ m.op = "getitem"  BY DbTakes DEF TypeOK, DbGetItem
<1>2. m.owner \in Bots /\ m.item \in Items  BY <1>1, RequestShapes
<1>3. a \in Answers /\ a.op = "confirm" /\ a.owner = m.owner /\ a.item = m.item
  BY <1>2 DEF Answers, Named
<1>4. toDb # <<>> /\ toDb' = Tail(toDb)  BY DEF DbGetItem, AtDb, TakenByDb
<1>5. \/ /\ m.item \in dbox[m.owner]
         /\ dheld' = [dheld EXCEPT ![m.owner] = @ \cup {m.item}]
         /\ toCore' = toCore \o <<a>>
      \/ dheld' = dheld /\ toCore' = toCore \o <<>>
  BY DEF DbGetItem, ToCore
<1>6. dheld \in [Bots -> SUBSET Items]  BY DEF TypeOK, BoxesOK
<1> SUFFICES ASSUME NEW b \in Bots, NEW i \in Items PROVE Withdrawal(b, i)'
  BY DEF Withdrawals
<1>7. Withdrawal(b, i)  BY DEF Withdrawals
<1>8. m \notin Feedbacks(b, i)  BY <1>1 DEF Feedbacks
<1>9. /\ Has(toDb', Feedbacks(b, i)) <=> Has(toDb, Feedbacks(b, i))
      /\ Ones(toDb, Feedbacks(b, i)) => Ones(toDb', Feedbacks(b, i))
  BY <1>4, <1>8, WiresAre, QueueTaken
<1>10. a \in Confirms(b, i) <=> b = m.owner /\ i = m.item  BY <1>3 DEF Confirms
<1> HIDE DEF a
<1>11. CASE dheld' = dheld /\ toCore' = toCore \o <<>>
  <2>1. toCore' = toCore  BY <1>11, WiresAre, ConcatEmptySeq
  <2> QED  BY <1>7, <1>9, <1>11, <2>1 DEF Withdrawal, Token
<1>12. CASE /\ m.item \in dbox[m.owner]
            /\ dheld' = [dheld EXCEPT ![m.owner] = @ \cup {m.item}]
            /\ toCore' = toCore \o <<a>>
  <2>1. /\ Has(toCore', Confirms(b, i)) <=> Has(toCore, Confirms(b, i)) \/ a \in Confirms(b, i)
        /\ Ones(toCore, Confirms(b, i)) /\ ~(Has(toCore, Confirms(b, i)) /\ a \in Confirms(b, i)) =>
             Ones(toCore', Confirms(b, i))
    BY <1>3, <1>12, WiresAre, QueueSent
  <2>2. i \in dheld'[b] <=> i \in dheld[b] \/ a \in Confirms(b, i)
    BY <1>2, <1>6, <1>10, <1>12
  <2>3. a \in Confirms(b, i) => i \notin dheld[b]  BY <1>10, <1>12, BoxedFree
  <2> QED  BY <1>7, <1>9, <2>1, <2>2, <2>3 DEF Withdrawal, Token
<1> QED  BY <1>5, <1>11, <1>12

LEMMA FeedbackTaken ==
  ASSUME TypeOK, Withdrawals, DbFeedback PROVE Withdrawals'
<1> DEFINE m == Head(toDb)
<1>1. m \in Requests /\ m.op = "feedback"  BY DbTakes DEF TypeOK, DbFeedback
<1>2. m.owner \in Bots /\ m.item \in Items  BY <1>1, RequestShapes
<1>3. toDb # <<>> /\ toDb' = Tail(toDb) /\ toCore' = toCore
  BY DEF DbFeedback, AtDb, TakenByDb
<1>4. dheld' = [dheld EXCEPT ![m.owner] = @ \ {m.item}]  BY DEF DbFeedback
<1>5. dheld \in [Bots -> SUBSET Items]  BY DEF TypeOK, BoxesOK
<1> SUFFICES ASSUME NEW b \in Bots, NEW i \in Items PROVE Withdrawal(b, i)'
  BY DEF Withdrawals
<1>6. Withdrawal(b, i)  BY DEF Withdrawals
<1>7. m \in Feedbacks(b, i) <=> b = m.owner /\ i = m.item  BY <1>1 DEF Feedbacks
<1>8. /\ Has(toDb, Feedbacks(b, i)) <=> m \in Feedbacks(b, i) \/ Has(toDb', Feedbacks(b, i))
      /\ Ones(toDb, Feedbacks(b, i)) =>
           Ones(toDb', Feedbacks(b, i)) /\ ~(m \in Feedbacks(b, i) /\ Has(toDb', Feedbacks(b, i)))
  BY <1>3, WiresAre, QueueTaken
<1>9. i \in dheld'[b] <=> i \in dheld[b] /\ m \notin Feedbacks(b, i)
  BY <1>2, <1>4, <1>5, <1>7
<1> QED  BY <1>3, <1>6, <1>8, <1>9 DEF Withdrawal, Token

\* An item that is not taken goes back into the safebox it was held in.
LEMMA DbFeedbackApart ==
  ASSUME TypeOK, Withdrawals, NEW i \in Items, Apart(i), DbFeedback PROVE Apart(i)'
<1> DEFINE m == Head(toDb)
<1>1. m \in Requests /\ m.op = "feedback"  BY DbTakes DEF TypeOK, DbFeedback
<1>2. m.owner \in Bots /\ m.item \in Items /\ m.success \in BOOLEAN  BY <1>1, RequestShapes
<1>3. toDb # <<>> /\ toDb' = Tail(toDb) /\ toCore' = toCore /\ sql' = sql
  BY DEF DbFeedback, AtDb, TakenByDb
<1>4. OneLess(m, i)  BY <1>3, TookOne
<1>5. m \notin AsksWith(i)  BY <1>1 DEF AsksWith
<1>6. UNCHANGED <<bag, dprice>>  BY DEF DbFeedback, people, dshops
<1>7. dbox \in [Bots -> SUBSET Items] /\ dheld \in [Bots -> SUBSET Items]
  BY DEF TypeOK, BoxesOK
<1>8. dheld' = [dheld EXCEPT ![m.owner] = @ \ {m.item}]  BY DEF DbFeedback
<1>9. dbox' = IF m.item \in dheld[m.owner] /\ ~m.success
              THEN [dbox EXCEPT ![m.owner] = @ \cup {m.item}] ELSE dbox
  BY DEF DbFeedback
<1>10. \A b \in Bots : m \in Handings(b, i) <=> b = m.owner /\ i = m.item /\ m.success
  BY <1>1 DEF Handings, Feedbacks
<1>11. Ones(toCore, AnswersWith(i)) /\ Ones(sql, QueriesWith(i))  BY DEF Apart, Singly
<1>12. i = m.item => i \in dheld[m.owner] /\ (~m.success => ~Has(toDb, Handings(m.owner, i)))
  <2> SUFFICES ASSUME i = m.item
               PROVE  i \in dheld[m.owner] /\ (~m.success => ~Has(toDb, Handings(m.owner, i)))
    OBVIOUS
  <2>1. Withdrawal(m.owner, i)  BY <1>2 DEF Withdrawals
  <2>2. m \in Feedbacks(m.owner, i)  BY <1>1 DEF Feedbacks
  <2>3. Has(toDb, Feedbacks(m.owner, i)) /\ ~Has(toDb', Feedbacks(m.owner, i))
    BY <1>3, <2>1, <2>2, WiresAre, QueueTaken DEF Withdrawal, Token
  <2>4. ~Has(toDb', Handings(m.owner, i))  BY <2>3 DEF Has, Handings
  <2> QED  BY <1>2, <1>4, <1>10, <2>1, <2>3, <2>4 DEF Withdrawal, Token, OneLess
<1> HIDE DEF m
<1>13. \A b \in Bots : i \in dheld'[b] => i \in dheld[b] /\ ~(b = m.owner /\ i = m.item)
  BY <1>2, <1>7, <1>8
<1>14. \A b \in Bots : i \in dbox'[b] => i \in dbox[b] \/ (b = m.owner /\ i = m.item /\ ~m.success)
  BY <1>2, <1>7, <1>9
<1>15. CASE i = m.item /\ ~m.success
  <2>1. Held(i, m.owner)  BY <1>12, <1>15 DEF Held
  <2>2. /\ \A c \in Bots : Held(i, c) => c = m.owner
        /\ AwayFromBags(i) /\ AwayFromSale(i) /\ AwayFromBoxes(i) /\ AwayFromWires(i)
    BY <1>2, <2>1, Alone DEF Apart
  <2>3. \A b \in Bots : ~Has(toDb, Handings(b, i))  BY <1>2, <2>1 DEF Apart, TakenOut
  <2>4. \A b \in Bots : i \in dbox'[b] => b = m.owner  BY <1>14, <2>2 DEF AwayFromBoxes, InBox
  <2>5. OutOfBags(i) /\ OffSale(i)
    BY <1>6, <2>2 DEF OutOfBags, OffSale, AwayFromBags, AwayFromSale, InBag, OnSale
  <2>6. NotHeld(i)  BY <1>13, <1>15, <2>2, <2>3 DEF NotHeld, Held
  <2>7. NotAsked(i) /\ NotQueried(i) /\ NotAnswered(i) /\ NotHanded(i)
    BY <1>3, <1>4, <2>2, <2>3
       DEF NotAsked, NotQueried, NotAnswered, NotHanded, AwayFromWires, Queried, Answered, OneLess
  <2>8. InOrder(i)  BY <1>3, <1>4, <1>11 DEF InOrder, OneLess
  <2> QED  BY <1>2, <2>4, <2>5, <2>6, <2>7, <2>8, InTheBox
<1>16. CASE ~(i = m.item /\ ~m.success)
  <2>1. ASSUME NEW b \in Bots, i \in dheld'[b], ~Has(toDb', Handings(b, i)) PROVE Held(i, b)
    BY <1>4, <1>10, <1>13, <2>1 DEF OneLess, Held
  <2>2. Stays(i)
    BY <1>3, <1>4, <1>5, <1>6, <1>11, <1>14, <1>16, <2>1
       DEF Stays, OneLess, InBag, OnSale, InBox, Queried, Answered
  <2> QED  BY <2>2, ItemStays
<1> QED  BY <1>15, <1>16

-----------------------------------------------------------------------------
(* Its owner takes it, or says that it does not.                           *)

\* An item being confirmed is held, and nothing has been said of it yet.
LEMMA Confirmed ==
  ASSUME TypeOK, Withdrawals, NEW room \in BOOLEAN, CoreConfirm(room)
  PROVE  LET m == Head(toCore)
         IN  /\ m \in Answers /\ m.op = "confirm" /\ m.owner \in Bots /\ m.item \in Items
             /\ m.item \in dheld[m.owner]
             /\ ~Has(toDb, Feedbacks(m.owner, m.item)) /\ Held(m.item, m.owner)
<1> DEFINE m == Head(toCore)
<1>1. m \in Answers /\ m.op = "confirm"  BY CoreTakes DEF TypeOK, CoreConfirm
<1>2. m.owner \in Bots /\ m.item \in Items  BY <1>1, AnswerShapes
<1>3. Withdrawal(m.owner, m.item)  BY <1>2 DEF Withdrawals
<1>4. m \in Confirms(m.owner, m.item)  BY <1>1 DEF Confirms
<1>5. Has(toCore, Confirms(m.owner, m.item))
  BY <1>4, WiresAre, QueueTaken DEF CoreConfirm, AtCore
<1>6. m.item \in dheld[m.owner] /\ ~Has(toDb, Feedbacks(m.owner, m.item))
  BY <1>3, <1>5 DEF Withdrawal, Token
<1>7. Held(m.item, m.owner)  BY <1>6 DEF Held, Has, Handings
<1> QED  BY <1>1, <1>2, <1>6, <1>7

\* The feedback, and what becomes of the bag.
LEMMA FeedbackIs ==
  ASSUME TypeOK, Withdrawals, NEW room \in BOOLEAN, CoreConfirm(room)
  PROVE  \E taken \in BOOLEAN :
           LET m == Head(toCore)
               a == [op |-> "feedback", owner |-> m.owner, item |-> m.item, success |-> taken]
           IN  /\ a \in Requests
               /\ toDb' = toDb \o <<a>>
               /\ bag' = IF taken THEN Given(m.owner, m.item) ELSE bag
<1> DEFINE m == Head(toCore)
           taken == m.item \in cbox[m.owner] /\ world[m.owner] = "in" /\ room
           a == [op |-> "feedback", owner |-> m.owner, item |-> m.item, success |-> taken]
<1>1. taken \in BOOLEAN  OBVIOUS
<1>2. toDb' = toDb \o <<a>>  BY DEF CoreConfirm, ToDb
<1>3. bag' = IF taken THEN Given(m.owner, m.item) ELSE bag  BY DEF CoreConfirm
<1> HIDE DEF taken
<1>4. a \in Requests  BY <1>1, Confirmed DEF Requests
<1> QED  BY <1>1, <1>2, <1>3, <1>4

LEMMA ConfirmAnswered ==
  ASSUME TypeOK, Withdrawals, NEW room \in BOOLEAN, CoreConfirm(room) PROVE Withdrawals'
<1> DEFINE m == Head(toCore)
           a(taken) == [op |-> "feedback", owner |-> m.owner, item |-> m.item, success |-> taken]
<1>1. m \in Answers /\ m.op = "confirm" /\ m.owner \in Bots /\ m.item \in Items  BY Confirmed
<1>2. PICK taken \in BOOLEAN : a(taken) \in Requests /\ toDb' = toDb \o <<a(taken)>>
  BY FeedbackIs
<1>3. toCore # <<>> /\ toCore' = Tail(toCore) /\ dheld' = dheld
  BY DEF CoreConfirm, AtCore, TakenByCore, dboxes
<1> DEFINE f == a(taken)
<1>4. f \in Requests /\ f.op = "feedback" /\ f.owner = m.owner /\ f.item = m.item
      /\ toDb' = toDb \o <<f>>
  BY <1>2
<1> HIDE DEF f, a
<1> SUFFICES ASSUME NEW b \in Bots, NEW i \in Items PROVE Withdrawal(b, i)'
  BY DEF Withdrawals
<1>5. Withdrawal(b, i)  BY DEF Withdrawals
<1>6. /\ Has(toCore, Confirms(b, i)) <=> m \in Confirms(b, i) \/ Has(toCore', Confirms(b, i))
      /\ Ones(toCore, Confirms(b, i)) =>
           Ones(toCore', Confirms(b, i)) /\ ~(m \in Confirms(b, i) /\ Has(toCore', Confirms(b, i)))
  BY <1>3, WiresAre, QueueTaken
<1>7. m \in Confirms(b, i) <=> f \in Feedbacks(b, i)  BY <1>1, <1>4 DEF Confirms, Feedbacks
<1>8. /\ Has(toDb', Feedbacks(b, i)) <=> Has(toDb, Feedbacks(b, i)) \/ f \in Feedbacks(b, i)
      /\ Ones(toDb, Feedbacks(b, i)) /\ ~(Has(toDb, Feedbacks(b, i)) /\ f \in Feedbacks(b, i)) =>
           Ones(toDb', Feedbacks(b, i))
  BY <1>4, WiresAre, QueueSent
<1> QED  BY <1>3, <1>5, <1>6, <1>7, <1>8 DEF Withdrawal, Token

LEMMA CoreConfirmApart ==
  ASSUME TypeOK, Withdrawals, NEW i \in Items, Apart(i), NEW room \in BOOLEAN, CoreConfirm(room)
  PROVE  Apart(i)'
<1> DEFINE m == Head(toCore)
           a(taken) == [op |-> "feedback", owner |-> m.owner, item |-> m.item, success |-> taken]
<1>1. m \in Answers /\ m.op = "confirm" /\ m.owner \in Bots /\ m.item \in Items
      /\ Held(m.item, m.owner)
  BY Confirmed
<1>2. PICK taken \in BOOLEAN : /\ a(taken) \in Requests
                               /\ toDb' = toDb \o <<a(taken)>>
                               /\ bag' = IF taken THEN Given(m.owner, m.item) ELSE bag
  BY FeedbackIs
<1> DEFINE f == a(taken)
<1>3. f \in Requests /\ f.op = "feedback" /\ f.owner = m.owner /\ f.item = m.item
      /\ f.success = taken /\ toDb' = toDb \o <<f>>
  BY <1>2
<1>4. UNCHANGED <<dprice, dbox, dheld, sql>>  BY DEF CoreConfirm, dshops, dboxes
<1>5. (Has(toCore', AnswersWith(i)) <=> Answered(i)) /\ Ones(toCore', AnswersWith(i))
  <2>1. DbWire({"feedback"}) /\ CoreWire({"confirm"})  BY CoreWires
  <2> QED  BY <2>1, QuietWires
<1> HIDE DEF m, f, a
<1>6. \A c \in Bots : f \in Handings(c, i) <=> c = m.owner /\ i = m.item /\ taken
  BY <1>3 DEF Handings, Feedbacks
<1>7. f \notin AsksWith(i)  BY <1>3 DEF AsksWith
<1>8. /\ Ones(toDb, AsksWith(i)) /\ Ones(sql, QueriesWith(i))
      /\ \A c \in Bots : Before(toDb, Handings(c, i), AsksWith(i))
  BY DEF Apart, Singly, TakenOut
<1>9. /\ Has(toDb', AsksWith(i)) <=> Asked(i)
      /\ Ones(toDb', AsksWith(i))
      /\ \A c \in Bots : Has(toDb', Handings(c, i)) <=> Has(toDb, Handings(c, i)) \/ f \in Handings(c, i)
      /\ \A c \in Bots : f \notin Handings(c, i) \/ ~Asked(i) =>
                           Before(toDb', Handings(c, i), AsksWith(i))
  BY <1>3, <1>7, <1>8, WiresAre, QueueSent DEF Asked
<1>10. bag \in [Bots -> SUBSET Items]  BY DEF TypeOK, PeopleOK
<1>11. \A c \in Bots : i \in bag'[c] => i \in bag[c] \/ (taken /\ c = m.owner /\ i = m.item)
  <2>1. CASE taken  BY <1>1, <1>2, <1>10, <2>1 DEF Given
  <2>2. CASE ~taken  BY <1>2, <2>2
  <2> QED  BY <2>1, <2>2
<1>12. CASE i = m.item /\ taken
  <2>1. Held(i, m.owner)  BY <1>1, <1>12
  <2>2. /\ \A c \in Bots : Held(i, c) => c = m.owner
        /\ AwayFromBags(i) /\ AwayFromSale(i) /\ AwayFromBoxes(i) /\ AwayFromWires(i)
    BY <1>1, <2>1, Alone DEF Apart
  <2>3. \A b \in Bots : ~Has(toDb, Handings(b, i))  BY <1>1, <2>1 DEF Apart, TakenOut
  <2>4. \A c \in Bots : i \in bag'[c] => c = m.owner  BY <1>11, <2>2 DEF AwayFromBags, InBag
  <2>5. OffSale(i) /\ OutOfBoxes(i)
    BY <1>4, <2>2 DEF OffSale, OutOfBoxes, AwayFromSale, AwayFromBoxes, OnSale, InBox
  <2>6. NotHeld(i)  BY <1>4, <1>6, <1>9, <1>12, <2>2, <2>3 DEF NotHeld, Held
  <2>7. NotAsked(i) /\ NotQueried(i) /\ NotAnswered(i)
    BY <1>4, <1>5, <1>9, <2>2 DEF NotAsked, NotQueried, NotAnswered, AwayFromWires, Queried
  <2>8. InOrder(i)  BY <1>4, <1>5, <1>8, <1>9, <2>2 DEF InOrder, AwayFromWires
  <2> QED  BY <1>1, <2>4, <2>5, <2>6, <2>7, <2>8, InTheBag
<1>13. CASE ~(i = m.item /\ taken)
  <2>1. Stays(i)
    BY <1>4, <1>5, <1>6, <1>8, <1>9, <1>11, <1>13
       DEF Stays, InBag, OnSale, InBox, Held, Queried
  <2> QED  BY <2>1, ItemStays
<1> QED  BY <1>12, <1>13

-----------------------------------------------------------------------------
(* All together: what is set aside, and where the items are.               *)

Ledger == TypeOK /\ Purchases /\ Withdrawals /\ \A i \in Items : Apart(i)

LEMMA WithdrawalsStep ==
  ASSUME Ledger, [Next]_vars PROVE Withdrawals'
<1>1. CASE DbGetItem  BY <1>1, ItemHeld DEF Ledger
<1>2. CASE DbFeedback  BY <1>2, FeedbackTaken DEF Ledger
<1>3. CASE \E room \in BOOLEAN : CoreConfirm(room)  BY <1>3, ConfirmAnswered DEF Ledger
<1>4. CASE ~DbGetItem /\ ~DbFeedback /\ ~(\E room \in BOOLEAN : CoreConfirm(room))
  <2>1. PICK d, c : Wires(d, c)  BY StepWires DEF Ledger
  <2>2. "feedback" \notin d /\ "confirm" \notin c
    BY <1>4, <2>1 DEF Wires, DbReasons, CoreReasons
  <2>3. dheld' = dheld  BY <1>4, HoldsStay
  <2> SUFFICES ASSUME NEW b \in Bots, NEW i \in Items PROVE Withdrawal(b, i)'
    BY DEF Withdrawals
  <2>4. Confirms(b, i) \in SUBSET But(Answers, c) /\ Feedbacks(b, i) \in SUBSET But(Requests, d)
    BY <2>2, TokenKinds
  <2>5. Withdrawal(b, i)  BY DEF Ledger, Withdrawals
  <2> QED  BY <2>1, <2>3, <2>4, <2>5, WiresStay DEF Ledger, Withdrawal, Token
<1> QED  BY <1>1, <1>2, <1>3, <1>4

LEMMA ApartStep ==
  ASSUME Ledger, [Next]_vars, NEW i \in Items PROVE Apart(i)'
<1>1. TypeOK /\ Apart(i) /\ Purchases /\ Withdrawals /\ Owners \subseteq Bots
  BY BotsAssumption DEF Ledger
<1>2. CASE ~MovesItems  BY <1>1, <1>2, BystandersApart
<1>3. ASSUME NEW o \in Owners, VisitReopen(o) PROVE Apart(i)'  BY <1>1, <1>3, VisitsApart
<1>4. ASSUME NEW o \in Owners, NEW offer \in Lines, Submit(o, offer) PROVE Apart(i)'
  BY <1>1, <1>4, SubmitApart
<1>5. ASSUME NEW o \in Owners, NEW j \in Items, NEW p \in Prices[j], VisitAdd(o, j, p)
      PROVE  Apart(i)'
  BY <1>1, <1>5, VisitsApart
<1>6. CASE DbCreate \/ DbAdd \/ DbBoxAdd  BY <1>1, <1>6, DbQueriesApart
<1>7. CASE DbEdit  BY <1>1, <1>7, DbEditApart
<1>8. CASE DbRemove  BY <1>1, <1>8, DbRemoveApart
<1>9. CASE DbBuy  BY <1>1, <1>9, DbBuyApart
<1>10. CASE DbGetItem  BY <1>1, <1>10, DbGetItemApart
<1>11. CASE DbFeedback  BY <1>1, <1>11, DbFeedbackApart
<1>12. CASE CreateDone  BY <1>1, <1>12, CreateDoneApart
<1>13. CASE PutDone  BY <1>1, <1>13, PutDoneApart
<1>14. CASE AddDone  BY <1>1, <1>14, AddDoneApart
<1>15. CASE BoxAddDone  BY <1>1, <1>15, BoxAddDoneApart
<1>16. ASSUME NEW room \in BOOLEAN, CoreRemoved(room) \/ CoreSold(room) PROVE Apart(i)'
  BY <1>1, <1>16, GoneApart
<1>17. ASSUME NEW room \in BOOLEAN, CoreConfirm(room) PROVE Apart(i)'
  BY <1>1, <1>17, CoreConfirmApart
<1> QED
  BY <1>2, <1>3, <1>4, <1>5, <1>6, <1>7, <1>8, <1>9, <1>10, <1>11, <1>12, <1>13, <1>14, <1>15,
     <1>16, <1>17 DEF MovesItems

LEMMA LedgerStarts == Init => Ledger
<1> SUFFICES ASSUME Init PROVE Ledger  OBVIOUS
<1>1. \A S : /\ ~Has(toDb, S) /\ Ones(toDb, S)
             /\ ~Has(toCore, S) /\ Ones(toCore, S)
             /\ ~Has(sql, S) /\ Ones(sql, S)
  BY ShortQueues DEF Init
<1>2. \A S, T : Before(toDb, S, T)  BY ShortQueues DEF Init
<1>3. Purchases  BY <1>1 DEF Purchases, Purchase, Token, Init
<1>4. Withdrawals  BY <1>1 DEF Withdrawals, Withdrawal, Token, Init
<1>5. ASSUME NEW i \in Items PROVE Apart(i)
  <2>1. /\ AwayFromSale(i) /\ AwayFromBoxes(i) /\ AwayFromHolds(i) /\ AwayFromWires(i)
    <3>1. AwayFromSale(i)  BY <1>5 DEF Init, AwayFromSale, OnSale, NoLines
    <3>2. AwayFromBoxes(i) /\ AwayFromHolds(i)
      BY DEF Init, AwayFromBoxes, AwayFromHolds, InBox, Held
    <3>3. AwayFromWires(i)  BY <1>1 DEF AwayFromWires, Asked, Queried, Answered
    <3> QED  BY <3>1, <3>2, <3>3
  <2>2. \A b, c \in Bots : InBag(i, b) /\ InBag(i, c) => b = c
    <3>1. bag = Goods  BY DEF Init
    <3> QED  BY <3>1, StartAssumption DEF InBag
  <2>3. Elsewhere(i)  BY InOnePlace DEF Elsewheres
  <2>4. OnePlace(i)
    <3>1. CASE AwayFromBags(i)  BY <2>1, <2>3, <3>1 DEF Elsewhere, AwayFromWires
    <3>2. CASE ~AwayFromBags(i)
      <4>1. PICK b \in Bots : InBag(i, b)  BY <3>2 DEF AwayFromBags
      <4>2. \A c \in Bots : InBag(i, c) => c = b  BY <2>2, <4>1
      <4> QED  BY <2>1, <2>3, <4>2 DEF Elsewhere
    <3> QED  BY <3>1, <3>2
  <2> QED  BY <1>1, <1>2, <2>4 DEF Apart, Singly, TakenOut
<1> QED  BY <1>3, <1>4, <1>5, StartsTyped DEF Ledger

LEMMA LedgerStep == Ledger /\ [Next]_vars => Ledger'
<1> SUFFICES ASSUME Ledger, [Next]_vars PROVE Ledger'  OBVIOUS
<1>1. TypeOK'  BY StepsTyped DEF Ledger
<1>2. Purchases'  BY PurchasesStep DEF Ledger
<1>3. Withdrawals'  BY WithdrawalsStep
<1>4. (\A i \in Items : Apart(i))'  BY ApartStep
<1> QED  BY <1>1, <1>2, <1>3, <1>4 DEF Ledger

-----------------------------------------------------------------------------
(* Counting the copies.                                                    *)

LEMMA CountOne ==
  ASSUME NEW S, \A x, y \in S : x = y
  PROVE  Cardinality(S) \in {0, 1} /\ (S = {} => Cardinality(S) = 0)
<1>1. CASE S = {}  BY <1>1, FS_EmptySet
<1>2. CASE S # {}
  <2>1. PICK x \in S : TRUE  BY <1>2
  <2>2. S = {x}  BY <2>1
  <2> QED  BY <1>2, <2>2, FS_Singleton
<1> QED  BY <1>1, <1>2

\* The packets that hold an item, as InFlight counts them.
LEMMA FlightsAre ==
  ASSUME TypeOK, NEW i \in Items
  PROVE  /\ InFlight(toDb, {"create", "add", "boxadd"}, i) =
              {n \in 1..Len(toDb) : toDb[n] \in AsksWith(i)}
         /\ InFlight(sql, {"create", "put", "add", "boxadd"}, i) =
              {n \in 1..Len(sql) : sql[n] \in QueriesWith(i)}
         /\ InFlight(toCore, {"removed", "sold"}, i) =
              {n \in 1..Len(toCore) : toCore[n] \in AnswersWith(i)}
<1>1. /\ \A n \in 1..Len(toDb) : toDb[n] \in Requests
      /\ \A n \in 1..Len(sql) : sql[n] \in Queries
      /\ \A n \in 1..Len(toCore) : toCore[n] \in Answers
  BY WiresAre, ElementOfSeq
<1>2. InFlight(toDb, {"create", "add", "boxadd"}, i) =
        {n \in 1..Len(toDb) : toDb[n] \in AsksWith(i)}
  BY <1>1 DEF InFlight, AsksWith
<1>3. InFlight(sql, {"create", "put", "add", "boxadd"}, i) =
        {n \in 1..Len(sql) : sql[n] \in QueriesWith(i)}
  BY <1>1 DEF InFlight, QueriesWith
<1>4. InFlight(toCore, {"removed", "sold"}, i) =
        {n \in 1..Len(toCore) : toCore[n] \in AnswersWith(i)}
  BY <1>1 DEF InFlight, AnswersWith
<1> QED  BY <1>2, <1>3, <1>4

LEMMA HandedIs ==
  ASSUME TypeOK, NEW i \in Items, NEW b \in Bots
  PROVE  HandedOver(b, i) <=> Has(toDb, Handings(b, i))
<1>1. \A n \in 1..Len(toDb) : toDb[n] \in Requests  BY WiresAre, ElementOfSeq
<1> QED  BY <1>1 DEF HandedOver, Has, Handings, Feedbacks

LEMMA ApartCounts ==
  ASSUME TypeOK, NEW i \in Items, Apart(i) PROVE Copies(i) <= 1
<1> DEFINE B == {b \in Bots : i \in bag[b]}
           S == {o \in Bots : dprice[o][i] > 0}
           X == {b \in Bots : i \in dbox[b]}
           H == {b \in Bots : i \in dheld[b] /\ ~HandedOver(b, i)}
           D == InFlight(toDb, {"create", "add", "boxadd"}, i)
           Q == InFlight(sql, {"create", "put", "add", "boxadd"}, i)
           A == InFlight(toCore, {"removed", "sold"}, i)
<1>1. /\ \A x \in B : x \in Bots /\ InBag(i, x)
      /\ \A x \in S : x \in Bots /\ OnSale(i, x)
      /\ \A x \in X : x \in Bots /\ InBox(i, x)
      /\ \A x \in H : x \in Bots /\ Held(i, x)
  BY HandedIs DEF InBag, OnSale, InBox, Held
<1>2. /\ D = {n \in 1..Len(toDb) : toDb[n] \in AsksWith(i)}
      /\ Q = {n \in 1..Len(sql) : sql[n] \in QueriesWith(i)}
      /\ A = {n \in 1..Len(toCore) : toCore[n] \in AnswersWith(i)}
  BY FlightsAre
<1>3. Copies(i) = Cardinality(B) + Cardinality(S) + Cardinality(X) + Cardinality(H)
                  + Cardinality(D) + Cardinality(Q) + Cardinality(A)
  BY DEF Copies
<1>4. (D # {} => Asked(i)) /\ (Q # {} => Queried(i)) /\ (A # {} => Answered(i))
  BY <1>2 DEF Asked, Queried, Answered, Has
<1>5. /\ \A x, y \in D : x = y
      /\ \A x, y \in Q : x = y
      /\ \A x, y \in A : x = y
  BY <1>2 DEF Apart, Singly, Ones
<1> HIDE DEF B, S, X, H, D, Q, A
<1>6. OnePlace(i)  BY DEF Apart
<1>7. /\ \A b \in Bots : InBag(i, b) =>
              /\ \A c \in Bots : InBag(i, c) => c = b
              /\ AwayFromSale(i) /\ AwayFromBoxes(i) /\ AwayFromHolds(i) /\ AwayFromWires(i)
      /\ \A b \in Bots : OnSale(i, b) =>
              /\ \A c \in Bots : OnSale(i, c) => c = b
              /\ AwayFromBags(i) /\ AwayFromBoxes(i) /\ AwayFromHolds(i) /\ AwayFromWires(i)
  BY <1>6, Alone
<1>8. /\ \A b \in Bots : InBox(i, b) =>
              /\ \A c \in Bots : InBox(i, c) => c = b
              /\ AwayFromBags(i) /\ AwayFromSale(i) /\ AwayFromHolds(i) /\ AwayFromWires(i)
      /\ \A b \in Bots : Held(i, b) =>
              /\ \A c \in Bots : Held(i, c) => c = b
              /\ AwayFromBags(i) /\ AwayFromSale(i) /\ AwayFromBoxes(i) /\ AwayFromWires(i)
  BY <1>6, Alone
<1>9. ~(Asked(i) /\ Queried(i)) /\ ~(Asked(i) /\ Answered(i)) /\ ~(Queried(i) /\ Answered(i))
  BY <1>6, Alone
<1>10. /\ \A x, y \in B : x = y
       /\ \A x, y \in S : x = y
       /\ \A x, y \in X : x = y
       /\ \A x, y \in H : x = y
  BY <1>1, <1>7, <1>8
<1>11. /\ B # {} => S = {} /\ X = {} /\ H = {} /\ D = {} /\ Q = {} /\ A = {}
       /\ S # {} => X = {} /\ H = {} /\ D = {} /\ Q = {} /\ A = {}
  BY <1>1, <1>4, <1>7 DEF AwayFromSale, AwayFromBoxes, AwayFromHolds, AwayFromWires
<1>12. /\ X # {} => H = {} /\ D = {} /\ Q = {} /\ A = {}
       /\ H # {} => D = {} /\ Q = {} /\ A = {}
  BY <1>1, <1>4, <1>8 DEF AwayFromHolds, AwayFromWires
<1>13. (D # {} => Q = {} /\ A = {}) /\ (Q # {} => A = {})  BY <1>4, <1>9
<1>14. /\ Cardinality(B) \in {0, 1} /\ (B = {} => Cardinality(B) = 0)
       /\ Cardinality(S) \in {0, 1} /\ (S = {} => Cardinality(S) = 0)
       /\ Cardinality(X) \in {0, 1} /\ (X = {} => Cardinality(X) = 0)
       /\ Cardinality(H) \in {0, 1} /\ (H = {} => Cardinality(H) = 0)
  BY <1>10, CountOne
<1>15. /\ Cardinality(D) \in {0, 1} /\ (D = {} => Cardinality(D) = 0)
       /\ Cardinality(Q) \in {0, 1} /\ (Q = {} => Cardinality(Q) = 0)
       /\ Cardinality(A) \in {0, 1} /\ (A = {} => Cardinality(A) = 0)
  BY <1>5, CountOne
<1> QED  BY <1>3, <1>11, <1>12, <1>13, <1>14, <1>15

\* Bags, counters, safeboxes and packets never hold an item twice, however
\* purchases, removals and withdrawals cross (ikarus_shop_manager.cpp,
\* RecvShopSafeboxGetItemConfirm; IkarusShopCache.cpp, LockItem).
THEOREM NoItemTwice == Spec => []NeverTwice
<1>1. Ledger => NeverTwice  BY ApartCounts DEF Ledger, NeverTwice
<1> QED  BY <1>1, LedgerStarts, LedgerStep, PTL DEF Spec

\* Nothing stays set aside for an answer that does not come: once nothing is in
\* flight no line is locked and no item held (ikarus_shop_manager.cpp, the feedback
\* of RecvShopLockedBuyItemDBPacket for a buyer who has gone).
THEOREM NothingSetAside == Spec => [](Settled => locked = {} /\ \A b \in Bots : dheld[b] = {})
<1>1. ASSUME Ledger, Settled PROVE locked = {} /\ \A b \in Bots : dheld[b] = {}
  <2>1. \A T : ~Has(toDb, T) /\ ~Has(toCore, T)  BY <1>1, ShortQueues DEF Settled
  <2>2. \A o \in Bots, i \in Items : <<o, i>> \notin locked
    BY <1>1, <2>1 DEF Ledger, Purchases, Purchase, Token
  <2>3. \A b \in Bots, i \in Items : i \notin dheld[b]
    BY <1>1, <2>1 DEF Ledger, Withdrawals, Withdrawal, Token
  <2>4. locked \subseteq Bots \X Items /\ dheld \in [Bots -> SUBSET Items]
    BY <1>1 DEF Ledger, TypeOK, ShopsOK, BoxesOK
  <2> QED  BY <2>2, <2>3, <2>4
<1> QED  BY <1>1, LedgerStarts, LedgerStep, PTL DEF Spec
=============================================================================
