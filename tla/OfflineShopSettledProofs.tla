---------------------- MODULE OfflineShopSettledProofs ----------------------
(***************************************************************************)
(* Theorems about what the shops come to: nobody is overdrawn; once        *)
(* nothing is on its way, the core shows the shops and the money the db    *)
(* core has, nothing is locked, and no request that must be answered is    *)
(* open; items are only lost in two known ways; and no money is.           *)
(*                                                                         *)
(* The argument: each copy of a shop, of a purse and of a safebox is what  *)
(* the other will be once the packets between them have come, one after    *)
(* another.  Leads says so of a shop, Path of a purse; the rest says what  *)
(* each kind of packet may still find when it comes.  And all money there  *)
(* is, with what the packets to the db core are worth, only goes to the    *)
(* tax: a sum changes by what is moved.                                    *)
(***************************************************************************)
EXTENDS OfflineShopProofs, WellFoundedInduction

-----------------------------------------------------------------------------
(* Induction along a queue.                                                *)

\* A set of numbers has a least one.
LEMMA LeastNumber ==
  ASSUME NEW T, T \subseteq Nat, T # {}
  PROVE  \E n \in T : \A k \in T : n <= k
<1>1. PICK n \in T : \A k \in T : ~(<<k, n>> \in OpToRel(<, Nat))
  BY NatLessThanWellFounded, WFMin
<1>2. ASSUME NEW k \in T PROVE n <= k
  <2>1. k \in Nat /\ n \in Nat  OBVIOUS
  <2>2. SUFFICES ASSUME k < n PROVE FALSE  BY <2>1
  <2>3. <<k, n>> \in OpToRel(<, Nat)
    <3> DEFINE p == <<k, n>>
    <3>1. p \in Nat \X Nat /\ p[1] = k /\ p[2] = n  BY <2>1
    <3>2. p[1] < p[2]  BY <2>2, <3>1
    <3> HIDE DEF p
    <3>3. p \in OpToRel(<, Nat)  BY <3>1, <3>2 DEF OpToRel
    <3> QED  BY <3>3 DEF p
  <2> QED  BY <1>1, <2>3
<1> QED  BY <1>2

\* What holds at the start and passes from each to the next holds throughout.
LEMMA AllAlong ==
  ASSUME NEW N \in Nat, NEW G, 0 \in G, \A n \in 1..N : n - 1 \in G => n \in G
  PROVE  \A n \in 0..N : n \in G
<1> DEFINE T == {n \in 0..N : n \notin G}
<1>1. SUFFICES ASSUME T # {} PROVE FALSE  OBVIOUS
<1>2. T \subseteq Nat  OBVIOUS
<1>3. PICK n \in T : \A k \in T : n <= k  BY <1>1, <1>2, LeastNumber
<1>4. n \in 1..N  OBVIOUS
<1>5. n - 1 \in 0..N /\ ~(n <= n - 1)  BY <1>4
<1>6. n - 1 \in G  BY <1>3, <1>5
<1> QED  BY <1>4, <1>6

-----------------------------------------------------------------------------
(* Who changes what.                                                       *)

LEMMA TradeKeeps ==
  ASSUME Trade PROVE UNCHANGED <<world, cst, cprice, cbox, dshops, dboxes, toCore, sql>>
<1>1. ASSUME NEW o, NEW op, NEW i, NEW m, Visit(o, op, i, m)
      PROVE  UNCHANGED <<world, cst, cprice, cbox, dshops, dboxes, toCore, sql>>
  BY <1>1 DEF Visit
<1>2. CASE \E o \in Owners, offer \in Lines : Submit(o, offer)  BY <1>2 DEF Submit, core
<1>3. CASE \E o \in Owners : VisitReopen(o)  BY <1>1, <1>3 DEF VisitReopen
<1>4. CASE \E o \in Owners, i \in Items : \E p \in Prices[i] : VisitAdd(o, i, p) \/ VisitEdit(o, i, p)
  BY <1>1, <1>4 DEF VisitAdd, VisitEdit
<1>5. CASE \E o \in Owners, i \in Items : VisitRemove(o, i)  BY <1>1, <1>5 DEF VisitRemove
<1>6. CASE \E b \in Bots : VisitProceeds(b)  BY <1>6 DEF VisitProceeds
<1>7. CASE \E b \in Bots, i \in Items : VisitWithdraw(b, i)  BY <1>1, <1>7 DEF VisitWithdraw
<1>8. CASE \E b \in Bots, o \in Owners, i \in Items : Buy(b, o, i)  BY <1>8 DEF Buy, core
<1> QED  BY <1>2, <1>3, <1>4, <1>5, <1>6, <1>7, <1>8 DEF Trade

LEMMA StatesStay ==
  ASSUME [Next]_vars, ~CoreCreated, ~CoreClosed, ~CoreExpired
  PROVE  UNCHANGED cst
<1>1. CASE Trade  BY <1>1, TradeKeeps DEF dshops, dboxes
<1>2. CASE Journeys  BY <1>2 DEF Journeys, Leave, AskIn, Enter, people, core, dshops, dboxes
<1>3. CASE DbCore
  BY <1>3 DEF DbCore, DbCreate, DbAdd, DbEdit, DbRemove, DbLock, DbBuy, DbHardClose, DbGetYang,
              DbGetItem, DbFeedback, DbBoxAdd, DbLoadBox, people, core, dshops, dboxes
<1>4. CASE SqlResult
  BY <1>4 DEF SqlResult, CreateDone, PutDone, AddDone, BoxAddDone, people, core, dshops, dboxes
<1>5. CASE Core
  BY <1>5 DEF Core, CoreAdded, CoreEdited, CoreRefused, CoreLocked, CoreYang, CoreBoxed, CoreBox,
              CoreRemoved, CoreSold, CoreConfirm, people, core, dshops, dboxes
<1>6. CASE \E o \in Owners : Expire(o)  BY <1>6 DEF Expire, people, core, dshops, dboxes
<1>7. CASE UNCHANGED vars  BY <1>7 DEF vars, people, core, dshops, dboxes
<1> QED  BY <1>1, <1>2, <1>3, <1>4, <1>5, <1>6, <1>7 DEF Next

LEMMA LinesStay ==
  ASSUME [Next]_vars, ~CoreCreated, ~CoreAdded, ~CoreEdited, ~CoreClosed, ~(\E room \in BOOLEAN : CoreRemoved(room) \/ CoreSold(room))
  PROVE  UNCHANGED cprice
<1>1. CASE Trade  BY <1>1, TradeKeeps DEF dshops, dboxes
<1>2. CASE Journeys  BY <1>2 DEF Journeys, Leave, AskIn, Enter, people, core, dshops, dboxes
<1>3. CASE DbCore
  BY <1>3 DEF DbCore, DbCreate, DbAdd, DbEdit, DbRemove, DbLock, DbBuy, DbHardClose, DbGetYang,
              DbGetItem, DbFeedback, DbBoxAdd, DbLoadBox, people, core, dshops, dboxes
<1>4. CASE SqlResult
  BY <1>4 DEF SqlResult, CreateDone, PutDone, AddDone, BoxAddDone, people, core, dshops, dboxes
<1>5. CASE Core
  BY <1>5 DEF Core, CoreRefused, CoreLocked, CoreYang, CoreExpired, CoreBoxed, CoreBox,
              CoreConfirm, people, core, dshops, dboxes
<1>6. CASE \E o \in Owners : Expire(o)  BY <1>6 DEF Expire, people, core, dshops, dboxes
<1>7. CASE UNCHANGED vars  BY <1>7 DEF vars, people, core, dshops, dboxes
<1> QED  BY <1>1, <1>2, <1>3, <1>4, <1>5, <1>6, <1>7 DEF Next

LEMMA ShopsStay ==
  ASSUME [Next]_vars, ~DbHardClose, ~CreateDone, ~(\E o \in Owners : Expire(o))
  PROVE  UNCHANGED dst
<1>1. CASE Trade  BY <1>1, TradeKeeps DEF dshops, dboxes
<1>2. CASE Journeys  BY <1>2 DEF Journeys, Leave, AskIn, Enter, people, core, dshops, dboxes
<1>3. CASE DbCore
  BY <1>3 DEF DbCore, DbCreate, DbAdd, DbEdit, DbRemove, DbLock, DbBuy, DbGetYang, DbGetItem,
              DbFeedback, DbBoxAdd, DbLoadBox, people, core, dshops, dboxes
<1>4. CASE SqlResult
  BY <1>4 DEF SqlResult, PutDone, AddDone, BoxAddDone, people, core, dshops, dboxes
<1>5. CASE Core
  BY <1>5 DEF Core, CoreCreated, CoreAdded, CoreEdited, CoreRefused, CoreLocked, CoreYang,
              CoreClosed, CoreExpired, CoreBoxed, CoreBox, CoreRemoved, CoreSold, CoreConfirm,
              people, core, dshops, dboxes
<1>7. CASE UNCHANGED vars  BY <1>7 DEF vars, people, core, dshops, dboxes
<1> QED  BY <1>1, <1>2, <1>3, <1>4, <1>5, <1>7 DEF Next

LEMMA PricesStay ==
  ASSUME [Next]_vars, ~DbEdit, ~DbRemove, ~DbBuy, ~PutDone, ~AddDone
  PROVE  UNCHANGED dprice
<1>1. CASE Trade  BY <1>1, TradeKeeps DEF dshops, dboxes
<1>2. CASE Journeys  BY <1>2 DEF Journeys, Leave, AskIn, Enter, people, core, dshops, dboxes
<1>3. CASE DbCore
  BY <1>3 DEF DbCore, DbCreate, DbAdd, DbLock, DbHardClose, DbGetYang, DbGetItem, DbFeedback,
              DbBoxAdd, DbLoadBox, people, core, dshops, dboxes
<1>4. CASE SqlResult
  BY <1>4 DEF SqlResult, CreateDone, BoxAddDone, people, core, dshops, dboxes
<1>5. CASE Core
  BY <1>5 DEF Core, CoreCreated, CoreAdded, CoreEdited, CoreRefused, CoreLocked, CoreYang,
              CoreClosed, CoreExpired, CoreBoxed, CoreBox, CoreRemoved, CoreSold, CoreConfirm,
              people, core, dshops, dboxes
<1>6. CASE \E o \in Owners : Expire(o)  BY <1>6 DEF Expire, people, core, dshops, dboxes
<1>7. CASE UNCHANGED vars  BY <1>7 DEF vars, people, core, dshops, dboxes
<1> QED  BY <1>1, <1>2, <1>3, <1>4, <1>5, <1>6, <1>7 DEF Next

LEMMA QueriesStay ==
  ASSUME [Next]_vars, ~DbCreate, ~DbAdd, ~DbBoxAdd, ~CreateDone, ~PutDone, ~AddDone, ~BoxAddDone
  PROVE  UNCHANGED sql
<1>1. CASE Trade  BY <1>1, TradeKeeps DEF dshops, dboxes
<1>2. CASE Journeys  BY <1>2 DEF Journeys, Leave, AskIn, Enter, people, core, dshops, dboxes
<1>3. CASE DbCore
  BY <1>3 DEF DbCore, DbEdit, DbRemove, DbLock, DbBuy, DbHardClose, DbGetYang, DbGetItem,
              DbFeedback, DbLoadBox, people, core, dshops, dboxes
<1>4. CASE SqlResult
  BY <1>4 DEF SqlResult, people, core, dshops, dboxes
<1>5. CASE Core
  BY <1>5 DEF Core, CoreCreated, CoreAdded, CoreEdited, CoreRefused, CoreLocked, CoreYang,
              CoreClosed, CoreExpired, CoreBoxed, CoreBox, CoreRemoved, CoreSold, CoreConfirm,
              people, core, dshops, dboxes
<1>6. CASE \E o \in Owners : Expire(o)  BY <1>6 DEF Expire, people, core, dshops, dboxes
<1>7. CASE UNCHANGED vars  BY <1>7 DEF vars, people, core, dshops, dboxes
<1> QED  BY <1>1, <1>2, <1>3, <1>4, <1>5, <1>6, <1>7 DEF Next

LEMMA WorldStays ==
  ASSUME [Next]_vars, ~CoreBox, ~Journeys
  PROVE  UNCHANGED world
<1>1. CASE Trade  BY <1>1, TradeKeeps DEF dshops, dboxes
<1>3. CASE DbCore
  BY <1>3 DEF DbCore, DbCreate, DbAdd, DbEdit, DbRemove, DbLock, DbBuy, DbHardClose, DbGetYang,
              DbGetItem, DbFeedback, DbBoxAdd, DbLoadBox, people, core, dshops, dboxes
<1>4. CASE SqlResult
  BY <1>4 DEF SqlResult, CreateDone, PutDone, AddDone, BoxAddDone, people, core, dshops, dboxes
<1>5. CASE Core
  BY <1>5 DEF Core, CoreCreated, CoreAdded, CoreEdited, CoreRefused, CoreLocked, CoreYang,
              CoreClosed, CoreExpired, CoreBoxed, CoreRemoved, CoreSold, CoreConfirm, people, core,
              dshops, dboxes
<1>6. CASE \E o \in Owners : Expire(o)  BY <1>6 DEF Expire, people, core, dshops, dboxes
<1>7. CASE UNCHANGED vars  BY <1>7 DEF vars, people, core, dshops, dboxes
<1> QED  BY <1>1, <1>3, <1>4, <1>5, <1>6, <1>7 DEF Next

LEMMA BoxesStay ==
  ASSUME [Next]_vars, ~DbGetItem, ~DbFeedback, ~BoxAddDone
  PROVE  UNCHANGED dbox
<1>1. CASE Trade  BY <1>1, TradeKeeps DEF dshops, dboxes
<1>2. CASE Journeys  BY <1>2 DEF Journeys, Leave, AskIn, Enter, people, core, dshops, dboxes
<1>3. CASE DbCore
  BY <1>3 DEF DbCore, DbCreate, DbAdd, DbEdit, DbRemove, DbLock, DbBuy, DbHardClose, DbGetYang,
              DbBoxAdd, DbLoadBox, people, core, dshops, dboxes
<1>4. CASE SqlResult
  BY <1>4 DEF SqlResult, CreateDone, PutDone, AddDone, people, core, dshops, dboxes
<1>5. CASE Core
  BY <1>5 DEF Core, CoreCreated, CoreAdded, CoreEdited, CoreRefused, CoreLocked, CoreYang,
              CoreClosed, CoreExpired, CoreBoxed, CoreBox, CoreRemoved, CoreSold, CoreConfirm,
              people, core, dshops, dboxes
<1>6. CASE \E o \in Owners : Expire(o)  BY <1>6 DEF Expire, people, core, dshops, dboxes
<1>7. CASE UNCHANGED vars  BY <1>7 DEF vars, people, core, dshops, dboxes
<1> QED  BY <1>1, <1>2, <1>3, <1>4, <1>5, <1>6, <1>7 DEF Next

LEMMA CopiesStay ==
  ASSUME [Next]_vars, ~CoreBoxed, ~CoreBox, ~(\E room \in BOOLEAN : CoreConfirm(room))
  PROVE  UNCHANGED cbox
<1>1. CASE Trade  BY <1>1, TradeKeeps DEF dshops, dboxes
<1>2. CASE Journeys  BY <1>2 DEF Journeys, Leave, AskIn, Enter, people, core, dshops, dboxes
<1>3. CASE DbCore
  BY <1>3 DEF DbCore, DbCreate, DbAdd, DbEdit, DbRemove, DbLock, DbBuy, DbHardClose, DbGetYang,
              DbGetItem, DbFeedback, DbBoxAdd, DbLoadBox, people, core, dshops, dboxes
<1>4. CASE SqlResult
  BY <1>4 DEF SqlResult, CreateDone, PutDone, AddDone, BoxAddDone, people, core, dshops, dboxes
<1>5. CASE Core
  BY <1>5 DEF Core, CoreCreated, CoreAdded, CoreEdited, CoreRefused, CoreLocked, CoreYang,
              CoreClosed, CoreExpired, CoreRemoved, CoreSold, people, core, dshops, dboxes
<1>6. CASE \E o \in Owners : Expire(o)  BY <1>6 DEF Expire, people, core, dshops, dboxes
<1>7. CASE UNCHANGED vars  BY <1>7 DEF vars, people, core, dshops, dboxes
<1> QED  BY <1>1, <1>2, <1>3, <1>4, <1>5, <1>6, <1>7 DEF Next

LEMMA YangStays ==
  ASSUME [Next]_vars, ~DbBuy, ~DbGetYang
  PROVE  UNCHANGED dyang
<1>1. CASE Trade  BY <1>1, TradeKeeps DEF dshops, dboxes
<1>2. CASE Journeys  BY <1>2 DEF Journeys, Leave, AskIn, Enter, people, core, dshops, dboxes
<1>3. CASE DbCore
  BY <1>3 DEF DbCore, DbCreate, DbAdd, DbEdit, DbRemove, DbLock, DbHardClose, DbGetItem,
              DbFeedback, DbBoxAdd, DbLoadBox, people, core, dshops, dboxes
<1>4. CASE SqlResult
  BY <1>4 DEF SqlResult, CreateDone, PutDone, AddDone, BoxAddDone, people, core, dshops, dboxes
<1>5. CASE Core
  BY <1>5 DEF Core, CoreCreated, CoreAdded, CoreEdited, CoreRefused, CoreLocked, CoreYang,
              CoreClosed, CoreExpired, CoreBoxed, CoreBox, CoreRemoved, CoreSold, CoreConfirm,
              people, core, dshops, dboxes
<1>6. CASE \E o \in Owners : Expire(o)  BY <1>6 DEF Expire, people, core, dshops, dboxes
<1>7. CASE UNCHANGED vars  BY <1>7 DEF vars, people, core, dshops, dboxes
<1> QED  BY <1>1, <1>2, <1>3, <1>4, <1>5, <1>6, <1>7 DEF Next

LEMMA ProceedsStay ==
  ASSUME [Next]_vars, ~CoreYang, ~CoreBox, ~Trade
  PROVE  UNCHANGED cyang
<1>2. CASE Journeys  BY <1>2 DEF Journeys, Leave, AskIn, Enter, people, core, dshops, dboxes
<1>3. CASE DbCore
  BY <1>3 DEF DbCore, DbCreate, DbAdd, DbEdit, DbRemove, DbLock, DbBuy, DbHardClose, DbGetYang,
              DbGetItem, DbFeedback, DbBoxAdd, DbLoadBox, people, core, dshops, dboxes
<1>4. CASE SqlResult
  BY <1>4 DEF SqlResult, CreateDone, PutDone, AddDone, BoxAddDone, people, core, dshops, dboxes
<1>5. CASE Core
  BY <1>5 DEF Core, CoreCreated, CoreAdded, CoreEdited, CoreRefused, CoreLocked, CoreClosed,
              CoreExpired, CoreBoxed, CoreRemoved, CoreSold, CoreConfirm, people, core, dshops,
              dboxes
<1>6. CASE \E o \in Owners : Expire(o)  BY <1>6 DEF Expire, people, core, dshops, dboxes
<1>7. CASE UNCHANGED vars  BY <1>7 DEF vars, people, core, dshops, dboxes
<1> QED  BY <1>2, <1>3, <1>4, <1>5, <1>6, <1>7 DEF Next

LEMMA GoldStays ==
  ASSUME [Next]_vars, ~CoreLocked, ~Trade
  PROVE  UNCHANGED gold
<1>2. CASE Journeys  BY <1>2 DEF Journeys, Leave, AskIn, Enter, people, core, dshops, dboxes
<1>3. CASE DbCore
  BY <1>3 DEF DbCore, DbCreate, DbAdd, DbEdit, DbRemove, DbLock, DbBuy, DbHardClose, DbGetYang,
              DbGetItem, DbFeedback, DbBoxAdd, DbLoadBox, people, core, dshops, dboxes
<1>4. CASE SqlResult
  BY <1>4 DEF SqlResult, CreateDone, PutDone, AddDone, BoxAddDone, people, core, dshops, dboxes
<1>5. CASE Core
  BY <1>5 DEF Core, CoreCreated, CoreAdded, CoreEdited, CoreRefused, CoreYang, CoreClosed,
              CoreExpired, CoreBoxed, CoreBox, CoreRemoved, CoreSold, CoreConfirm, people, core,
              dshops, dboxes
<1>6. CASE \E o \in Owners : Expire(o)  BY <1>6 DEF Expire, people, core, dshops, dboxes
<1>7. CASE UNCHANGED vars  BY <1>7 DEF vars, people, core, dshops, dboxes
<1> QED  BY <1>2, <1>3, <1>4, <1>5, <1>6, <1>7 DEF Next

-----------------------------------------------------------------------------
(* The journal.                                                            *)

LEMMA EntryBegun ==
  ASSUME PeopleOK, NEW b \in Bots, NEW c \in Bots, NEW op, NEW i, NEW e, e # NoRequest
  PROVE  /\ Begin(c, op, i) /\ req[c] = NoRequest /\ e # <<op, i>> => (req'[b] = e <=> req[b] = e)
         /\ Begin(c, op, i) => req'[c] = <<op, i>> /\ (b # c => req'[b] = req[b])
         /\ Complete(c, op, i) /\ e # <<op, i>> => (req'[b] = e <=> req[b] = e)
         /\ Complete(c, op, i) => req'[c] # <<op, i>> \/ <<op, i>> = NoRequest
         /\ Complete(c, op, i) /\ b # c => req'[b] = req[b]
         /\ Complete(c, op, i) => req'[b] = req[b] \/ req'[b] = NoRequest
<1>1. DOMAIN req = Bots /\ req = [a \in Bots |-> req[a]]  BY DEF PeopleOK
<1>2. Begin(c, op, i) => req'[c] = <<op, i>> /\ (b # c => req'[b] = req[b])
  BY <1>1 DEF Begin
<1>3. Complete(c, op, i) =>
        /\ req[c] = <<op, i>> => req'[c] = NoRequest /\ (b # c => req'[b] = req[b])
        /\ req[c] # <<op, i>> => req' = req
  BY <1>1 DEF Complete
<1> QED  BY <1>2, <1>3

\* Requests of a kind are begun and completed by those who handle that kind.
Begins(op) ==
  \/ op = "create" /\ \E o \in Owners : VisitReopen(o) \/ \E offer \in Lines : Submit(o, offer)
  \/ op = "withdraw" /\ \E b \in Bots, i \in Items : VisitWithdraw(b, i)
  \/ op = "buy" /\ \E b \in Bots, o \in Owners, i \in Items : Buy(b, o, i)
Completes(op) ==
  \/ op = "create" /\ CoreCreated
  \/ op = "withdraw" /\ \E room \in BOOLEAN : CoreConfirm(room)
  \/ op = "buy" /\ (CoreRefused \/ CoreLocked \/ \E room \in BOOLEAN : CoreSold(room))

LEMMA JournalTrade ==
  ASSUME TypeOK, Trade, NEW b \in Bots, NEW op \in {"create", "withdraw", "buy"}, NEW i, ~Begins(op)
  PROVE  req'[b] = <<op, i>> <=> req[b] = <<op, i>>
<1> DEFINE e == <<op, i>>
<1>0. e # NoRequest /\ Owners \subseteq Bots  BY BotsAssumption DEF NoRequest
<1>p. PeopleOK  BY DEF TypeOK
<1>1. \A a, j : <<a, j>> = e => a = op  OBVIOUS
<1> HIDE DEF e
<1>2. \A c \in Bots : \A a, j : Begin(c, a, j) /\ req[c] = NoRequest /\ a # op => (req'[b] = e <=> req[b] = e)
  BY <1>0, <1>p, <1>1, EntryBegun
<1>3. \A c \in Bots : \A a, j, m : Visit(c, a, j, m) /\ a # op => (req'[b] = e <=> req[b] = e)
  BY <1>2 DEF Visit, Free
<1>4. ASSUME NEW o \in Owners, NEW offer \in Lines, Submit(o, offer) PROVE req'[b] = e <=> req[b] = e
  <2>1. op # "create"  BY <1>4 DEF Begins
  <2> QED  BY <1>0, <1>2, <1>4, <2>1 DEF Submit, Free
<1>5. ASSUME NEW o \in Owners, VisitReopen(o) PROVE req'[b] = e <=> req[b] = e
  <2>1. op # "create"  BY <1>5 DEF Begins
  <2> QED  BY <1>0, <1>3, <1>5, <2>1 DEF VisitReopen
<1>6. ASSUME NEW o \in Owners, NEW j \in Items, NEW p \in Prices[j], VisitAdd(o, j, p) \/ VisitEdit(o, j, p)
      PROVE  req'[b] = e <=> req[b] = e
  <2>1. op # "add" /\ op # "edit"  OBVIOUS
  <2> QED  BY <1>0, <1>3, <1>6, <2>1 DEF VisitAdd, VisitEdit
<1>7. ASSUME NEW o \in Owners, NEW j \in Items, VisitRemove(o, j) PROVE req'[b] = e <=> req[b] = e
  <2>1. op # "remove"  OBVIOUS
  <2> QED  BY <1>0, <1>3, <1>7, <2>1 DEF VisitRemove
<1>8. ASSUME NEW c \in Bots, VisitProceeds(c) PROVE req'[b] = e <=> req[b] = e
  BY <1>8 DEF VisitProceeds
<1>9. ASSUME NEW c \in Bots, NEW j \in Items, VisitWithdraw(c, j) PROVE req'[b] = e <=> req[b] = e
  <2>1. op # "withdraw"  BY <1>9 DEF Begins
  <2> QED  BY <1>3, <1>9, <2>1 DEF VisitWithdraw
<1>10. ASSUME NEW c \in Bots, NEW o \in Owners, NEW j \in Items, Buy(c, o, j)
       PROVE  req'[b] = e <=> req[b] = e
  <2>1. op # "buy"  BY <1>10 DEF Begins
  <2> QED  BY <1>2, <1>10, <2>1 DEF Buy, Free
<1> QED
  BY <1>4, <1>5, <1>6, <1>7, <1>8, <1>9, <1>10 DEF Trade, e

LEMMA JournalCore ==
  ASSUME TypeOK, Core, NEW b \in Bots, NEW op \in {"create", "withdraw", "buy"}, NEW i, ~Completes(op)
  PROVE  req'[b] = <<op, i>> <=> req[b] = <<op, i>>
<1> DEFINE e == <<op, i>>
           m == Head(toCore)
<1>0. e # NoRequest  BY DEF NoRequest
<1>p. PeopleOK  BY DEF TypeOK
<1>1. \A a, j : <<a, j>> = e => a = op  OBVIOUS
<1>m. \A a : AtCore(a) => m \in Answers /\ m.op = a  BY CoreTakes DEF TypeOK
<1> SUFFICES req'[b] = e <=> req[b] = e  OBVIOUS
<1> HIDE DEF e
<1>2. ASSUME NEW c \in Bots, NEW a, NEW j, Complete(c, a, j), a # op
      PROVE  req'[b] = e <=> req[b] = e
  <2>1. e # <<a, j>>  BY <1>1, <1>2
  <2> QED  BY <1>0, <1>p, <1>2, <2>1, EntryBegun
<1> HIDE DEF m
<1>s. m \in Answers => m.owner \in Bots /\ (m.op \in {"locked", "refused", "sold"} => m.who \in Bots)
  BY AnswerShapes
<1>3. CASE CoreCreated
  <2>1. op # "create"  BY <1>3 DEF Completes
  <2>2. Complete(m.owner, "create", None)  BY <1>3 DEF CoreCreated, m
  <2>3. m.owner \in Bots  BY <1>3, <1>m, <1>s DEF CoreCreated
  <2> QED  BY <1>2, <2>1, <2>2, <2>3
<1>4. CASE CoreAdded
  <2>1. req' = req \/ Complete(m.owner, "add", m.item)  BY <1>4 DEF CoreAdded, m
  <2>2. op # "add"  OBVIOUS
  <2>3. m.owner \in Bots  BY <1>4, <1>m, <1>s DEF CoreAdded
  <2> QED  BY <1>2, <2>1, <2>2, <2>3
<1>5. CASE CoreEdited
  <2>1. req' = req \/ Complete(m.owner, "edit", m.item)  BY <1>5 DEF CoreEdited, m
  <2>2. op # "edit"  OBVIOUS
  <2>3. m.owner \in Bots  BY <1>5, <1>m, <1>s DEF CoreEdited
  <2> QED  BY <1>2, <2>1, <2>2, <2>3
<1>6. ASSUME NEW room \in BOOLEAN, CoreRemoved(room) PROVE req'[b] = e <=> req[b] = e
  <2>1. req' = req \/ Complete(m.owner, "remove", m.item)  BY <1>6 DEF CoreRemoved, m
  <2>2. op # "remove"  OBVIOUS
  <2>3. m.owner \in Bots  BY <1>6, <1>m, <1>s DEF CoreRemoved
  <2> QED  BY <1>2, <2>1, <2>2, <2>3
<1>7. CASE CoreRefused \/ CoreLocked \/ \E room \in BOOLEAN : CoreSold(room)
  <2>1. op # "buy"  BY <1>7 DEF Completes
  <2>2. req' = req \/ Complete(m.who, "buy", m.item)  BY <1>7 DEF CoreRefused, CoreLocked, CoreSold, m
  <2>3. m.who \in Bots  BY <1>7, <1>m, <1>s DEF CoreRefused, CoreLocked, CoreSold
  <2> QED  BY <1>2, <2>1, <2>2, <2>3
<1>8. ASSUME NEW room \in BOOLEAN, CoreConfirm(room) PROVE req'[b] = e <=> req[b] = e
  <2>1. op # "withdraw"  BY <1>8 DEF Completes
  <2>2. Complete(m.owner, "withdraw", m.item)  BY <1>8 DEF CoreConfirm, m
  <2>3. m.owner \in Bots  BY <1>8, <1>m, <1>s DEF CoreConfirm
  <2> QED  BY <1>2, <2>1, <2>2, <2>3
<1>9. CASE CoreYang \/ CoreClosed \/ CoreExpired \/ CoreBoxed \/ CoreBox
  BY <1>9 DEF CoreYang, CoreClosed, CoreExpired, CoreBoxed, CoreBox, people
<1> QED  BY <1>3, <1>4, <1>5, <1>6, <1>7, <1>8, <1>9 DEF Core

LEMMA JournalSteps ==
  ASSUME TypeOK, [Next]_vars, NEW b \in Bots, NEW op \in {"create", "withdraw", "buy"}, NEW i,
         ~Begins(op), ~Completes(op)
  PROVE  req'[b] = <<op, i>> <=> req[b] = <<op, i>>
<1>1. CASE Trade  BY <1>1, JournalTrade
<1>2. CASE Core  BY <1>2, JournalCore
<1>3. CASE Journeys  BY <1>3 DEF Journeys, Leave, AskIn, Enter
<1>4. CASE DbCore
  BY <1>4 DEF DbCore, DbCreate, DbAdd, DbEdit, DbRemove, DbLock, DbBuy, DbHardClose, DbGetYang,
              DbGetItem, DbFeedback, DbBoxAdd, DbLoadBox, people
<1>5. CASE SqlResult  BY <1>5 DEF SqlResult, CreateDone, PutDone, AddDone, BoxAddDone, people
<1>6. CASE \E o \in Owners : Expire(o)  BY <1>6 DEF Expire, people
<1>7. CASE UNCHANGED vars  BY <1>7 DEF vars, people
<1> QED  BY <1>1, <1>2, <1>3, <1>4, <1>5, <1>6, <1>7 DEF Next

\* A visit's packet goes behind the one that takes the proceeds.
LEMMA VisitQueue ==
  ASSUME TypeOK, NEW o \in Bots, NEW op, NEW j, NEW m \in Requests, Visit(o, op, j, m)
  PROVE  /\ \A S : (\A g \in S : g.op # "getyang") =>
              /\ Has(toDb', S) <=> Has(toDb, S) \/ m \in S
              /\ Ones(toDb, S) /\ ~(Has(toDb, S) /\ m \in S) => Ones(toDb', S)
         /\ \A S, T : (\A g \in S \cup T : g.op # "getyang") /\ Before(toDb, S, T) =>
              /\ m \notin S => Before(toDb', S, T)
              /\ ~(m \in S /\ m \in T) /\ ~Has(toDb, T) => Before(toDb', S, T)
<1> DEFINE g == [op |-> "getyang", owner |-> o, yang |-> Claimable(o)]
           q == IF Claimable(o) > 0 THEN toDb \o <<g>> ELSE toDb
<1>1. g \in Requests /\ g.op = "getyang"  BY ClaimableIs DEF Requests, Paid
<1>2. toDb' = toDb \o (Claim(o) \o <<m>>)  BY DEF Visit, ToDb
<1>3. <<m>> \in Seq(Requests) /\ <<g>> \in Seq(Requests) /\ toDb \in Seq(Requests)
  BY <1>1, WiresAre, Single
<1>4. Claim(o) = IF Claimable(o) > 0 THEN <<g>> ELSE <<>>  BY DEF Claim
<1> HIDE DEF g
<1>5. toDb' = q \o <<m>> /\ q \in Seq(Requests)
  <2>1. CASE Claimable(o) > 0
    <3>1. toDb' = toDb \o (<<g>> \o <<m>>)  BY <1>2, <1>4, <2>1
    <3> QED  BY <1>3, <2>1, <3>1, ConcatAssociative, ConcatProperties
  <2>2. CASE ~(Claimable(o) > 0)
    <3>1. <<>> \o <<m>> = <<m>>  OBVIOUS
    <3> QED  BY <1>2, <1>3, <1>4, <2>2, <3>1
  <2> QED  BY <2>1, <2>2
<1>6. /\ \A S : (\A x \in S : x.op # "getyang") =>
           (Has(q, S) <=> Has(toDb, S)) /\ (Ones(toDb, S) => Ones(q, S))
      /\ \A S, T : (\A x \in S \cup T : x.op # "getyang") /\ Before(toDb, S, T) => Before(q, S, T)
  <2>1. \A S : (\A x \in S : x.op # "getyang") => g \notin S  BY <1>1
  <2>2. \A S, T : (\A x \in S \cup T : x.op # "getyang") => g \notin S /\ g \notin T  BY <1>1
  <2> QED  BY <1>1, <1>3, <2>1, <2>2, QueueSent
<1> HIDE DEF q
<1>7. /\ \A S : Has(q \o <<m>>, S) <=> Has(q, S) \/ m \in S
      /\ \A S : Ones(q, S) /\ ~(Has(q, S) /\ m \in S) => Ones(q \o <<m>>, S)
      /\ \A S, T : Before(q, S, T) /\ m \notin S => Before(q \o <<m>>, S, T)
      /\ \A S, T : Before(q, S, T) /\ ~(m \in S /\ m \in T) /\ ~Has(q, T) => Before(q \o <<m>>, S, T)
  BY <1>5, QueueSent
<1>8. ASSUME NEW S, \A x \in S : x.op # "getyang"
      PROVE  /\ Has(toDb', S) <=> Has(toDb, S) \/ m \in S
             /\ Ones(toDb, S) /\ ~(Has(toDb, S) /\ m \in S) => Ones(toDb', S)
  BY <1>5, <1>6, <1>7, <1>8
<1>9. ASSUME NEW S, NEW T, \A x \in S \cup T : x.op # "getyang", Before(toDb, S, T)
      PROVE  /\ m \notin S => Before(toDb', S, T)
             /\ ~(m \in S /\ m \in T) /\ ~Has(toDb, T) => Before(toDb', S, T)
  <2>1. Before(q, S, T) /\ (Has(q, T) <=> Has(toDb, T))  BY <1>6, <1>9
  <2> QED  BY <1>5, <1>7, <2>1
<1> QED  BY <1>8, <1>9

-----------------------------------------------------------------------------
(* What the packets of a queue make of a value, one after another.         *)

\* R says what a packet may make of a value: <<before, packet, after>>.
Treads(R, q, x, y, h) ==
  /\ h[0] = x /\ h[Len(q)] = y
  /\ \A n \in 1..Len(q) : <<h[n - 1], q[n], h[n]>> \in R
Path(R, V, q, x, y) == \E h \in [0..Len(q) -> V] : Treads(R, q, x, y, h)

LEMMA PathEnds ==
  ASSUME NEW R, NEW V, NEW X, NEW q \in Seq(X), NEW x, NEW y, Path(R, V, q, x, y)
  PROVE  x \in V /\ y \in V
<1>1. PICK h \in [0..Len(q) -> V] : Treads(R, q, x, y, h)  BY DEF Path
<1>2. 0 \in 0..Len(q) /\ Len(q) \in 0..Len(q)  OBVIOUS
<1> QED  BY <1>1, <1>2 DEF Treads

LEMMA PathNowhere ==
  ASSUME NEW R, NEW V, NEW x, NEW y, Path(R, V, <<>>, x, y) PROVE y = x
<1>1. Len(<<>>) = 0  OBVIOUS
<1> QED  BY <1>1 DEF Path, Treads

\* A queue whose packets change nothing.
LEMMA PathHere ==
  ASSUME NEW R, NEW V, NEW X, NEW q \in Seq(X), NEW x \in V, NEW S, ~Has(q, S),
         \A m \in X : m \in S \/ <<x, m, x>> \in R
  PROVE  Path(R, V, q, x, x)
<1> DEFINE h == [n \in 0..Len(q) |-> x]
<1>1. Len(q) \in Nat /\ \A n \in 1..Len(q) : q[n] \in X /\ n \in 0..Len(q) /\ n - 1 \in 0..Len(q)
  BY ElementOfSeq
<1>2. h \in [0..Len(q) -> V] /\ \A n \in 0..Len(q) : h[n] = x  OBVIOUS
<1> HIDE DEF h
<1>3. h[0] = x /\ h[Len(q)] = x  BY <1>1, <1>2
<1>4. ASSUME NEW n \in 1..Len(q) PROVE <<h[n - 1], q[n], h[n]>> \in R
  <2>1. h[n - 1] = x /\ h[n] = x /\ q[n] \in X /\ q[n] \notin S  BY <1>1, <1>2 DEF Has
  <2>2. <<x, q[n], x>> \in R  BY <2>1
  <2> QED  BY <2>1, <2>2
<1> QED  BY <1>2, <1>3, <1>4 DEF Path, Treads

\* The first packet, and the rest.
LEMMA PathOn ==
  ASSUME NEW R, NEW V, NEW X, NEW q \in Seq(X), q # <<>>, NEW x, NEW y, Path(R, V, q, x, y)
  PROVE  \E u \in V : <<x, Head(q), u>> \in R /\ Path(R, V, Tail(q), u, y)
<1>1. PICK h \in [0..Len(q) -> V] : Treads(R, q, x, y, h)  BY DEF Path
<1>2. /\ Head(q) = q[1] /\ Len(q) \in Nat /\ Len(q) > 0 /\ Len(Tail(q)) = Len(q) - 1
      /\ \A n \in 1..Len(q) - 1 : Tail(q)[n] = q[n + 1]
  BY HeadTailProperties, EmptySeq
<1> DEFINE g == [n \in 0..Len(q) - 1 |-> h[n + 1]]
<1>3. g \in [0..Len(Tail(q)) -> V] /\ \A n \in 0..Len(q) - 1 : g[n] = h[n + 1]  BY <1>1, <1>2
<1> HIDE DEF g
<1>4. 1 \in 1..Len(q) /\ h[1] \in V /\ g[0] = h[1] /\ 1 - 1 = 0  BY <1>1, <1>2, <1>3
<1>5. g[Len(Tail(q))] = y  BY <1>1, <1>2, <1>3 DEF Treads
<1>6. ASSUME NEW n \in 1..Len(Tail(q)) PROVE <<g[n - 1], Tail(q)[n], g[n]>> \in R
  <2>1. n + 1 \in 1..Len(q) /\ n - 1 \in 0..Len(q) - 1 /\ n \in 0..Len(q) - 1  BY <1>2
  <2>2. (n + 1) - 1 = n /\ (n - 1) + 1 = n  OBVIOUS
  <2>3. g[n - 1] = h[n] /\ g[n] = h[n + 1] /\ Tail(q)[n] = q[n + 1]  BY <1>2, <1>3, <2>1, <2>2
  <2>4. <<h[(n + 1) - 1], q[n + 1], h[n + 1]>> \in R  BY <1>1, <2>1 DEF Treads
  <2> QED  BY <2>2, <2>3, <2>4
<1>7. Path(R, V, Tail(q), h[1], y)  BY <1>3, <1>4, <1>5, <1>6 DEF Path, Treads
<1>8. <<x, Head(q), h[1]>> \in R  BY <1>1, <1>2, <1>4 DEF Treads
<1> QED  BY <1>4, <1>7, <1>8

\* One packet more.
LEMMA PathFurther ==
  ASSUME NEW R, NEW V, NEW X, NEW q \in Seq(X), NEW m \in X, NEW x, NEW y, NEW z \in V,
         Path(R, V, q, x, y), <<y, m, z>> \in R
  PROVE  Path(R, V, q \o <<m>>, x, z)
<1>1. PICK h \in [0..Len(q) -> V] : Treads(R, q, x, y, h)  BY DEF Path
<1> DEFINE r == q \o <<m>>
           g == [n \in 0..Len(q) + 1 |-> IF n <= Len(q) THEN h[n] ELSE z]
<1>2. /\ Len(q) \in Nat /\ Len(r) = Len(q) + 1 /\ r[Len(q) + 1] = m
      /\ \A n \in 1..Len(q) : r[n] = q[n]
  OBVIOUS
<1>3. /\ g \in [0..Len(r) -> V] /\ g[Len(q) + 1] = z
      /\ \A n \in 0..Len(q) : g[n] = h[n]
  BY <1>1, <1>2
<1> HIDE DEF g, r
<1>4. g[0] = x /\ g[Len(r)] = z /\ g[Len(q)] = y  BY <1>1, <1>2, <1>3 DEF Treads
<1>5. ASSUME NEW n \in 1..Len(r) PROVE <<g[n - 1], r[n], g[n]>> \in R
  <2>1. CASE n \in 1..Len(q)
    <3>1. n - 1 \in 0..Len(q) /\ n \in 0..Len(q)  BY <1>2, <2>1
    <3>2. g[n - 1] = h[n - 1] /\ g[n] = h[n] /\ r[n] = q[n]  BY <1>2, <1>3, <2>1, <3>1
    <3>3. <<h[n - 1], q[n], h[n]>> \in R  BY <1>1, <2>1 DEF Treads
    <3> QED  BY <3>2, <3>3
  <2>2. CASE n = Len(q) + 1
    <3>1. n - 1 = Len(q)  BY <1>2, <2>2
    <3>2. g[n - 1] = y /\ r[n] = m /\ g[n] = z  BY <1>2, <1>3, <1>4, <2>2, <3>1
    <3> QED  BY <3>2
  <2> QED  BY <1>2, <2>1, <2>2
<1> QED  BY <1>3, <1>4, <1>5 DEF Path, Treads, r

\* The way from each value of a queue to another, all shifted.
LEMMA PathMoved ==
  ASSUME NEW R, NEW V, NEW W, NEW X, NEW q \in Seq(X), NEW x, NEW y, Path(R, V, q, x, y), NEW f \in [V -> W],
         \A u, v \in V, m \in X : <<u, m, v>> \in R => <<f[u], m, f[v]>> \in R
  PROVE  Path(R, W, q, f[x], f[y])
<1>1. PICK h \in [0..Len(q) -> V] : Treads(R, q, x, y, h)  BY DEF Path
<1> DEFINE g == [n \in 0..Len(q) |-> f[h[n]]]
<1>2. Len(q) \in Nat /\ \A n \in 1..Len(q) : q[n] \in X /\ n \in 0..Len(q) /\ n - 1 \in 0..Len(q)
  BY ElementOfSeq
<1>3. g \in [0..Len(q) -> W] /\ \A n \in 0..Len(q) : g[n] = f[h[n]]  BY <1>1
<1> HIDE DEF g
<1>4. g[0] = f[x] /\ g[Len(q)] = f[y]  BY <1>1, <1>2, <1>3 DEF Treads
<1>5. ASSUME NEW n \in 1..Len(q) PROVE <<g[n - 1], q[n], g[n]>> \in R
  <2>1. <<h[n - 1], q[n], h[n]>> \in R  BY <1>1 DEF Treads
  <2>2. h[n - 1] \in V /\ h[n] \in V /\ q[n] \in X  BY <1>1, <1>2
  <2>3. <<f[h[n - 1]], q[n], f[h[n]]>> \in R  BY <2>1, <2>2
  <2> QED  BY <1>2, <1>3, <2>3
<1> QED  BY <1>3, <1>4, <1>5 DEF Path, Treads

\* Values that only packets of S leave.
LEMMA PathWithin ==
  ASSUME NEW R, NEW V, NEW X, NEW q \in Seq(X), NEW x, NEW y, Path(R, V, q, x, y), NEW S, ~Has(q, S),
         NEW W \in SUBSET V, x \in W,
         \A u \in W, v \in V, m \in X : <<u, m, v>> \in R => m \in S \/ v \in W
  PROVE  Path(R, W, q, x, y)
<1>1. PICK h \in [0..Len(q) -> V] : Treads(R, q, x, y, h)  BY DEF Path
<1> DEFINE G == {n \in 0..Len(q) : h[n] \in W}
<1>2. Len(q) \in Nat /\ \A n \in 1..Len(q) : q[n] \in X /\ n \in 0..Len(q) /\ n - 1 \in 0..Len(q)
  BY ElementOfSeq
<1>3. 0 \in G  BY <1>1, <1>2 DEF Treads
<1>4. ASSUME NEW n \in 1..Len(q), n - 1 \in G PROVE n \in G
  <2>1. h[n - 1] \in W /\ n \in 0..Len(q) /\ h[n] \in V /\ q[n] \in X /\ q[n] \notin S
    BY <1>1, <1>2, <1>4 DEF Has
  <2>2. <<h[n - 1], q[n], h[n]>> \in R  BY <1>1 DEF Treads
  <2>3. h[n] \in W  BY <2>1, <2>2
  <2> QED  BY <2>1, <2>3
<1>5. \A n \in 0..Len(q) : n \in G
  <2> HIDE DEF G
  <2> QED  BY <1>2, <1>3, <1>4, AllAlong
<1>6. h \in [0..Len(q) -> W]  BY <1>1, <1>5
<1> QED  BY <1>1, <1>6 DEF Path

\* Nothing happens to a value without the packets that change it.
LEMMA PathStill ==
  ASSUME NEW R, NEW V, NEW X, NEW q \in Seq(X), NEW x, NEW y, Path(R, V, q, x, y), NEW S, ~Has(q, S),
         \A u, v \in V, m \in X : <<u, m, v>> \in R => m \in S \/ v = u
  PROVE  y = x
<1>1. x \in V  BY PathEnds
<1>2. \A u \in {x}, v \in V, m \in X : <<u, m, v>> \in R => m \in S \/ v \in {x}  BY <1>1
<1>3. Path(R, {x}, q, x, y)
  <2> DEFINE W == {x}
  <2>1. W \in SUBSET V /\ x \in W  BY <1>1
  <2>2. \A u \in W, v \in V, m \in X : <<u, m, v>> \in R => m \in S \/ v \in W  BY <1>2
  <2> HIDE DEF W
  <2>3. Path(R, W, q, x, y)  BY <2>1, <2>2, PathWithin
  <2> QED  BY <2>3 DEF W
<1> QED  BY <1>3, PathEnds

\* Other packets come and go.
LEMMA PathUntouched ==
  ASSUME NEW R, NEW V, NEW X, NEW q \in Seq(X), NEW r, NEW x, NEW y, Path(R, V, q, x, y), NEW S,
         Untouched(q, r, X, S),
         \A u, v \in V, m \in X : m \in S \/ (<<u, m, v>> \in R <=> v = u)
  PROVE  Path(R, V, r, x, y)
<1>1. CASE r = q  BY <1>1
<1>2. CASE q # <<>> /\ r = Tail(q) /\ Head(q) \notin S
  <2>1. PICK u \in V : <<x, Head(q), u>> \in R /\ Path(R, V, Tail(q), u, y)  BY <1>2, PathOn
  <2>2. x \in V /\ Head(q) \in X  BY <1>2, PathEnds, HeadTailProperties
  <2>3. u = x  BY <1>2, <2>1, <2>2
  <2> QED  BY <1>2, <2>1, <2>3
<1>3. ASSUME NEW ms \in Seq(X), r = q \o ms, ~Has(ms, S) PROVE Path(R, V, r, x, y)
  <2>1. PICK h \in [0..Len(q) -> V] : Treads(R, q, x, y, h)  BY DEF Path
  <2> DEFINE g == [n \in 0..Len(r) |-> IF n <= Len(q) THEN h[n] ELSE y]
  <2>2. /\ Len(q) \in Nat /\ Len(ms) \in Nat /\ Len(r) = Len(q) + Len(ms)
        /\ \A n \in 1..Len(r) : r[n] = IF n <= Len(q) THEN q[n] ELSE ms[n - Len(q)]
    BY <1>3, ConcatProperties, LenProperties
  <2>3. y \in V  BY PathEnds
  <2>4. g \in [0..Len(r) -> V] /\ \A n \in 0..Len(r) : g[n] = IF n <= Len(q) THEN h[n] ELSE y
    BY <2>1, <2>2, <2>3
  <2> HIDE DEF g
  <2>5. g[0] = x /\ g[Len(r)] = y /\ g[Len(q)] = y
    <3>1. h[0] = x /\ h[Len(q)] = y  BY <2>1 DEF Treads
    <3>2. 0 \in 0..Len(r) /\ Len(r) \in 0..Len(r) /\ Len(q) \in 0..Len(r)  BY <2>2
    <3>3. g[0] = x  BY <2>2, <2>4, <3>1, <3>2
    <3>4. g[Len(q)] = y  BY <2>2, <2>4, <3>1, <3>2
    <3>5. g[Len(r)] = y
      <4>1. CASE Len(r) = Len(q)  BY <3>4, <4>1
      <4>2. CASE Len(r) # Len(q)
        <5>1. ~(Len(r) <= Len(q))  BY <2>2, <4>2
        <5> QED  BY <2>4, <3>2, <5>1
      <4> QED  BY <4>1, <4>2
    <3> QED  BY <3>3, <3>4, <3>5
  <2>6. ASSUME NEW n \in 1..Len(r) PROVE <<g[n - 1], r[n], g[n]>> \in R
    <3>1. CASE n <= Len(q)
      <4>1. n \in 1..Len(q) /\ n \in 0..Len(r) /\ n - 1 \in 0..Len(r) /\ n - 1 <= Len(q)  BY <2>2, <3>1
      <4>2. g[n - 1] = h[n - 1] /\ g[n] = h[n] /\ r[n] = q[n]  BY <2>2, <2>4, <3>1, <4>1
      <4>3. <<h[n - 1], q[n], h[n]>> \in R  BY <2>1, <4>1 DEF Treads
      <4> QED  BY <4>2, <4>3
    <3>2. CASE ~(n <= Len(q))
      <4>1. n - Len(q) \in 1..Len(ms) /\ n \in 0..Len(r) /\ n - 1 \in 0..Len(r)  BY <2>2, <3>2
      <4>2. r[n] = ms[n - Len(q)] /\ r[n] \in X /\ r[n] \notin S
        <5>1. r[n] = ms[n - Len(q)]  BY <2>2, <3>2
        <5> QED  BY <1>3, <4>1, <5>1, ElementOfSeq DEF Has
      <4>3. g[n] = y  BY <2>4, <3>2, <4>1
      <4>4. g[n - 1] = y
        <5>1. CASE n - 1 = Len(q)  BY <2>5, <5>1
        <5>2. CASE n - 1 # Len(q)
          <6>1. ~(n - 1 <= Len(q))  BY <2>2, <3>2, <5>2
          <6> QED  BY <2>4, <4>1, <6>1
        <5> QED  BY <5>1, <5>2
      <4>5. <<y, r[n], y>> \in R  BY <2>3, <4>2
      <4> QED  BY <4>3, <4>4, <4>5
    <3> QED  BY <3>1, <3>2
  <2> QED  BY <2>4, <2>5, <2>6 DEF Path, Treads
<1> QED  BY <1>1, <1>2, <1>3 DEF Untouched

-----------------------------------------------------------------------------
(* A bot's proceeds: what the core will have once every answer has come,   *)
(* and what the db core will have once every claim has.                    *)

Loads(b) == {m \in Requests : m.op = "loadbox" /\ m.owner = b}
Boxes(b) == {m \in Answers : m.op = "box" /\ m.owner = b}
Claims(b) == {m \in Requests : m.op = "getyang" /\ m.owner = b}
Earnings(b) == {m \in Answers : m.op \in {"yang", "box"} /\ m.owner = b}

Earns(b) ==
  {t \in Nat \X Answers \X Nat :
     \/ t[2] \notin Earnings(b) /\ t[3] = t[1]
     \/ t[2] \in Boxes(b) /\ t[3] = t[2].yang
     \/ t[2] \in Earnings(b) \ Boxes(b) /\ t[2].yang \in Nat /\ t[3] = t[1] + t[2].yang}
Pays(b) ==
  {t \in Nat \X Requests \X Nat :
     t[3] = IF t[2] \in Claims(b) THEN t[1] - t[2].yang ELSE t[1]}

Balanced(b) ==
  \E x \in Nat : /\ Path(Earns(b), Nat, toCore, cyang[b], x)
                 /\ Path(Pays(b), Nat, toDb, dyang[b], x)

\* While a bot is asked for, its safebox is on its way; nothing of it is claimed
\* behind that.
Sending(b) == Token(world[b] = "asked", toDb, Loads(b), toCore, Boxes(b))
Money(b) ==
  /\ Sending(b) /\ Before(toDb, Claims(b), Loads(b))
  /\ Has(toCore, Boxes(b)) => ~Has(toDb, Claims(b))
  /\ Balanced(b)

LEMMA EarnsIs ==
  ASSUME NEW b, NEW x \in Nat, NEW y \in Nat, NEW m \in Answers
  PROVE  <<x, m, y>> \in Earns(b) <=>
           \/ m \notin Earnings(b) /\ y = x
           \/ m \in Boxes(b) /\ y = m.yang
           \/ m \in Earnings(b) \ Boxes(b) /\ m.yang \in Nat /\ y = x + m.yang
<1> DEFINE t == <<x, m, y>>
<1>1. t \in Nat \X Answers \X Nat /\ t[1] = x /\ t[2] = m /\ t[3] = y  OBVIOUS
<1> HIDE DEF t
<1>2. t \in Earns(b) <=>
           \/ m \notin Earnings(b) /\ y = x
           \/ m \in Boxes(b) /\ y = m.yang
           \/ m \in Earnings(b) \ Boxes(b) /\ m.yang \in Nat /\ y = x + m.yang
  BY <1>1 DEF Earns
<1> QED  BY <1>2 DEF t

LEMMA PaysIs ==
  ASSUME NEW b, NEW x \in Nat, NEW y \in Nat, NEW m \in Requests
  PROVE  <<x, m, y>> \in Pays(b) <=> y = IF m \in Claims(b) THEN x - m.yang ELSE x
<1> DEFINE t == <<x, m, y>>
<1>1. t \in Nat \X Requests \X Nat /\ t[1] = x /\ t[2] = m /\ t[3] = y  OBVIOUS
<1> HIDE DEF t
<1>2. t \in Pays(b) <=> y = IF m \in Claims(b) THEN x - m.yang ELSE x  BY <1>1 DEF Pays
<1> QED  BY <1>2 DEF t

\* What other packets do to them.
LEMMA EarnsKept ==
  ASSUME NEW b, NEW q \in Seq(Answers), NEW r, NEW x, NEW y, Path(Earns(b), Nat, q, x, y),
         NEW S, Earnings(b) \subseteq S, Untouched(q, r, Answers, S)
  PROVE  Path(Earns(b), Nat, r, x, y)
<1>1. \A u, v \in Nat, m \in Answers : m \in S \/ (<<u, m, v>> \in Earns(b) <=> v = u)
  <2> TAKE u, v \in Nat, m \in Answers
  <2>1. CASE m \in S  BY <2>1
  <2>2. CASE m \notin S
    <3>1. m \notin Earnings(b) /\ m \notin Boxes(b)  BY <2>2 DEF Earnings, Boxes
    <3> QED  BY <3>1, EarnsIs
  <2> QED  BY <2>1, <2>2
<1> QED  BY <1>1, PathUntouched

LEMMA PaysKept ==
  ASSUME NEW b, NEW q \in Seq(Requests), NEW r, NEW x, NEW y, Path(Pays(b), Nat, q, x, y),
         NEW S, Claims(b) \subseteq S, Untouched(q, r, Requests, S)
  PROVE  Path(Pays(b), Nat, r, x, y)
<1>1. \A u, v \in Nat, m \in Requests : m \in S \/ (<<u, m, v>> \in Pays(b) <=> v = u)
  <2> TAKE u, v \in Nat, m \in Requests
  <2> QED  BY PaysIs
<1> QED  BY <1>1, PathUntouched

\* Without a safebox on its way the core's copy only grows: what is taken out
\* of it now is missing in the end.
LEMMA EarnsLess ==
  ASSUME NEW b, NEW q \in Seq(Answers), NEW x, NEW y, Path(Earns(b), Nat, q, x, y), ~Has(q, Boxes(b)),
         NEW w \in Nat, w <= x
  PROVE  x \in Nat /\ y \in Nat /\ x <= y /\ Path(Earns(b), Nat, q, x - w, y - w)
<1> DEFINE W == {v \in Nat : x <= v}
           f == [v \in W |-> v - w]
<1>1. x \in Nat /\ y \in Nat  BY PathEnds
<1>2. W \in SUBSET Nat /\ x \in W  BY <1>1
<1>3. \A u \in W, v \in Nat, m \in Answers : <<u, m, v>> \in Earns(b) => m \in Boxes(b) \/ v \in W
  <2> TAKE u \in W, v \in Nat, m \in Answers
  <2> QED  BY <1>1, EarnsIs
<1>4. Path(Earns(b), W, q, x, y)
  <2> HIDE DEF W
  <2> QED  BY <1>2, <1>3, PathWithin
<1>5. y \in W
  <2> HIDE DEF W
  <2> QED  BY <1>4, PathEnds
<1>6. f \in [W -> Nat] /\ f[x] = x - w /\ f[y] = y - w  BY <1>1, <1>2, <1>5
<1>b. \A m \in Answers : m \in Boxes(b) => m \in Earnings(b)  BY DEF Boxes, Earnings
<1>7. Path(Earns(b), Nat, q, x - w, y - w)
  <2> DEFINE R == {t \in Earns(b) : t[2] \notin Boxes(b)}
  <2>1. PICK h \in [0..Len(q) -> W] : Treads(Earns(b), q, x, y, h)
    <3> HIDE DEF W
    <3> QED  BY <1>4 DEF Path
  <2>2. Treads(R, q, x, y, h)
    <3>1. ASSUME NEW n \in 1..Len(q) PROVE <<h[n - 1], q[n], h[n]>> \in R
      <4>1. <<h[n - 1], q[n], h[n]>>[2] = q[n] /\ q[n] \notin Boxes(b)  BY DEF Has
      <4>2. <<h[n - 1], q[n], h[n]>> \in Earns(b)  BY <2>1 DEF Treads
      <4> QED  BY <4>1, <4>2
    <3> QED  BY <2>1, <3>1 DEF Treads
  <2>3. \A u, v \in W, m \in Answers : <<u, m, v>> \in R => <<f[u], m, f[v]>> \in R
    <3> TAKE u, v \in W, m \in Answers
    <3> HAVE <<u, m, v>> \in R
    <3>1. <<u, m, v>>[2] = m /\ <<f[u], m, f[v]>>[2] = m  OBVIOUS
    <3>2. m \notin Boxes(b) /\ <<u, m, v>> \in Earns(b)  BY <3>1
    <3>3. u \in Nat /\ v \in Nat /\ f[u] = u - w /\ f[v] = v - w /\ f[u] \in Nat /\ f[v] \in Nat
      BY <1>1
    <3>4. \/ m \notin Earnings(b) /\ v = u
          \/ m \in Earnings(b) \ Boxes(b) /\ m.yang \in Nat /\ v = u + m.yang
      BY <3>2, <3>3, EarnsIs
    <3>5. <<f[u], m, f[v]>> \in Earns(b)
      <4> HIDE DEF f
      <4>1. \/ m \notin Earnings(b) /\ f[v] = f[u]
            \/ m \in Earnings(b) \ Boxes(b) /\ m.yang \in Nat /\ f[v] = f[u] + m.yang
        BY <1>1, <3>3, <3>4
      <4> QED  BY <3>3, <4>1, EarnsIs
    <3> QED  BY <3>1, <3>2, <3>5
  <2>4. Path(R, W, q, x, y)  BY <2>1, <2>2 DEF Path
  <2>5. Path(R, Nat, q, f[x], f[y])
    <3> HIDE DEF R, W, f
    <3> QED  BY <1>6, <2>3, <2>4, PathMoved
  <2>6. Path(R, Nat, q, x - w, y - w)  BY <1>6, <2>5
  <2>7. \A h2 : Treads(R, q, x - w, y - w, h2) => Treads(Earns(b), q, x - w, y - w, h2)  BY DEF Treads
  <2> QED  BY <2>6, <2>7 DEF Path
<1> QED  BY <1>1, <1>5, <1>7

\* What is paid in comes out in the end.
LEMMA PaysMore ==
  ASSUME NEW b, NEW q \in Seq(Requests), NEW x, NEW y, Path(Pays(b), Nat, q, x, y), NEW c \in Nat
  PROVE  x \in Nat /\ y \in Nat /\ Path(Pays(b), Nat, q, x + c, y + c)
<1> DEFINE f == [v \in Nat |-> v + c]
<1>1. x \in Nat /\ y \in Nat  BY PathEnds
<1>2. f \in [Nat -> Nat] /\ f[x] = x + c /\ f[y] = y + c  BY <1>1
<1>3. \A u, v \in Nat, m \in Requests : <<u, m, v>> \in Pays(b) => <<f[u], m, f[v]>> \in Pays(b)
  <2> TAKE u, v \in Nat, m \in Requests
  <2> HAVE <<u, m, v>> \in Pays(b)
  <2>1. f[u] = u + c /\ f[v] = v + c /\ f[u] \in Nat /\ f[v] \in Nat  OBVIOUS
  <2>2. v = IF m \in Claims(b) THEN u - m.yang ELSE u  BY PaysIs
  <2>3. m \in Claims(b) => m.yang \in Int  BY RequestShapes DEF Claims
  <2> HIDE DEF f
  <2>4. f[v] = IF m \in Claims(b) THEN f[u] - m.yang ELSE f[u]  BY <2>1, <2>2, <2>3
  <2> QED  BY <2>1, <2>4, PaysIs
<1> HIDE DEF f
<1>4. Path(Pays(b), Nat, q, f[x], f[y])  BY <1>2, <1>3, PathMoved
<1> QED  BY <1>1, <1>2, <1>4

\* Without a claim on its way the db core has what it will have.
LEMMA PaysNothing ==
  ASSUME NEW b, NEW q \in Seq(Requests), NEW x, NEW y, Path(Pays(b), Nat, q, x, y), ~Has(q, Claims(b))
  PROVE  y = x
<1>1. \A u, v \in Nat, m \in Requests : <<u, m, v>> \in Pays(b) => m \in Claims(b) \/ v = u
  BY PaysIs
<1> QED  BY <1>1, PathStill

\* The price less the tax is not below zero.
LEMMA TaxedIs ==
  ASSUME NEW p \in Nat PROVE Taxed(p) \in Nat
<1> DEFINE a == p * Tax
<1>1. Tax \in Nat /\ 100 - Tax \in Nat  BY PriceAssumption
<1>2. a \in Nat /\ p * (100 - Tax) \in Nat /\ p * (100 - Tax) = 100 * p - a  BY <1>1
<1> HIDE DEF a
<1>3. a <= 100 * p  BY <1>2
<1>4. a \div 100 \in Nat /\ a \div 100 <= p  BY <1>2, <1>3
<1> QED  BY <1>4 DEF Taxed, a

\* None of it moves: other packets, other bots.
LEMMA MoneyStays ==
  ASSUME TypeOK, NEW b \in Bots, Money(b), (world'[b] = "asked") <=> (world[b] = "asked"),
         cyang'[b] = cyang[b], dyang'[b] = dyang[b],
         Untouched(toDb, toDb', Requests, Claims(b) \cup Loads(b)),
         Untouched(toCore, toCore', Answers, Earnings(b))
  PROVE  Money(b)'
<1> DEFINE S == Claims(b) \cup Loads(b)
<1>1. Claims(b) \in SUBSET S /\ Loads(b) \in SUBSET S /\ Boxes(b) \in SUBSET Earnings(b)
  BY DEF Boxes, Earnings
<1>2. /\ \A T \in SUBSET S : (Has(toDb', T) <=> Has(toDb, T)) /\ (Ones(toDb, T) => Ones(toDb', T))
      /\ \A T, U \in SUBSET S : Before(toDb, T, U) => Before(toDb', T, U)
  BY WiresAre, UntouchedKeeps
<1>3. \A T \in SUBSET Earnings(b) : (Has(toCore', T) <=> Has(toCore, T)) /\ (Ones(toCore, T) => Ones(toCore', T))
  BY WiresAre, UntouchedKeeps
<1> HIDE DEF S
<1>4. Sending(b)'  BY <1>1, <1>2, <1>3 DEF Money, Sending, Token
<1>5. Before(toDb', Claims(b), Loads(b)) /\ (Has(toCore', Boxes(b)) => ~Has(toDb', Claims(b)))
  BY <1>1, <1>2, <1>3 DEF Money
<1>6. PICK x \in Nat : /\ Path(Earns(b), Nat, toCore, cyang[b], x)
                       /\ Path(Pays(b), Nat, toDb, dyang[b], x)
  BY DEF Money, Balanced
<1>7. Path(Earns(b), Nat, toCore', cyang'[b], x)  BY <1>6, WiresAre, EarnsKept
<1>8. Path(Pays(b), Nat, toDb', dyang'[b], x)  BY <1>1, <1>6, WiresAre, PaysKept DEF S
<1>9. Balanced(b)'  BY <1>6, <1>7, <1>8 DEF Balanced
<1> QED  BY <1>4, <1>5, <1>9 DEF Money

\* Packets of no concern to it.
LEMMA MoneyWires ==
  ASSUME TypeOK, NEW b, NEW d, NEW c, Wires(d, c)
  PROVE  /\ "getyang" \notin d /\ "loadbox" \notin d =>
              Untouched(toDb, toDb', Requests, Claims(b) \cup Loads(b))
         /\ "yang" \notin c /\ "box" \notin c => Untouched(toCore, toCore', Answers, Earnings(b))
<1>1. ASSUME NEW q, NEW r, NEW X, NEW S, NEW T, Untouched(q, r, X, S), T \subseteq S
      PROVE  Untouched(q, r, X, T)
  <2>1. \A ms : Has(ms, T) => Has(ms, S)  BY <1>1 DEF Has
  <2>2. CASE \E ms \in Seq(X) : r = q \o ms /\ ~Has(ms, S)
    BY <2>1, <2>2 DEF Untouched
  <2>3. CASE r = q \/ (q # <<>> /\ r = Tail(q) /\ Head(q) \notin S)
    BY <1>1, <2>3 DEF Untouched
  <2> QED  BY <1>1, <2>2, <2>3 DEF Untouched
<1>2. "getyang" \notin d /\ "loadbox" \notin d => Claims(b) \cup Loads(b) \subseteq But(Requests, d)
  BY DEF Claims, Loads, But
<1>3. "yang" \notin c /\ "box" \notin c => Earnings(b) \subseteq But(Answers, c)
  BY DEF Earnings, But
<1> QED  BY <1>1, <1>2, <1>3 DEF Wires, DbWire, CoreWire

\* Who deals with safeboxes and yang.
MovesMoney ==
  Trade \/ Journeys \/ DbBuy \/ DbGetYang \/ DbLoadBox \/ CoreYang \/ CoreBox

LEMMA MoneyAside ==
  ASSUME TypeOK, [Next]_vars, ~MovesMoney, NEW b \in Bots, Money(b) PROVE Money(b)'
<1>1. PICK d, c : Wires(d, c)  BY StepWires
<1>2. "getyang" \notin d /\ "loadbox" \notin d
  <2>1. ~DbLoadBox /\ ~(\E a \in Bots : AskIn(a))  BY DEF MovesMoney, Journeys
  <2> QED  BY <1>1, <2>1 DEF Wires, DbReasons, MovesMoney
<1>3. "yang" \notin c /\ "box" \notin c  BY <1>1 DEF Wires, CoreReasons, MovesMoney
<1>4. world' = world /\ cyang' = cyang /\ dyang' = dyang
  BY WorldStays, ProceedsStay, YangStays DEF MovesMoney
<1> QED  BY <1>1, <1>2, <1>3, <1>4, MoneyWires, MoneyStays

LEMMA MoneyJourneys ==
  ASSUME TypeOK, NEW a \in Bots, Leave(a) \/ AskIn(a) \/ Enter(a), NEW b \in Bots, Money(b)
  PROVE  Money(b)'
<1>1. UNCHANGED <<toCore, cyang, dyang>>  BY DEF Leave, AskIn, Enter, core, dboxes
<1>w. world \in [Bots -> {"out", "asked", "loaded", "in"}]  BY DEF TypeOK, PeopleOK
<1>2. CASE Leave(a) \/ Enter(a)
  <2>1. UNCHANGED toDb  BY <1>2 DEF Leave, Enter
  <2>2. (world'[b] = "asked") <=> (world[b] = "asked")  BY <1>2, <1>w DEF Leave, Enter
  <2> QED  BY <1>1, <2>1, <2>2, MoneyStays DEF Untouched
<1>3. CASE AskIn(a)
  <2> DEFINE m == [op |-> "loadbox", owner |-> a]
  <2>1. toDb' = toDb \o <<m>>  BY <1>3 DEF AskIn, ToDb
  <2>2. m \in Requests /\ m.op = "loadbox" /\ m.owner = a  BY DEF Requests
  <2>3. world[a] = "out" /\ world'[a] = "asked" /\ \A c \in Bots : c # a => world'[c] = world[c]
    BY <1>3, <1>w DEF AskIn
  <2> HIDE DEF m
  <2>4. CASE a # b
    <3>1. m \notin Claims(b) \cup Loads(b)  BY <2>2, <2>4 DEF Claims, Loads
    <3>2. <<m>> \in Seq(Requests) /\ ~Has(<<m>>, Claims(b) \cup Loads(b))
      BY <2>2, <3>1, Single, ShortQueues
    <3>3. Untouched(toDb, toDb', Requests, Claims(b) \cup Loads(b))  BY <2>1, <3>2 DEF Untouched
    <3> QED  BY <1>1, <2>3, <2>4, <3>3, MoneyStays DEF Untouched
  <2>5. CASE a = b
    <3>1. m \in Loads(b) /\ m \notin Claims(b)  BY <2>2, <2>5 DEF Claims, Loads
    <3>2. ~Has(toDb, Loads(b)) /\ ~Has(toCore, Boxes(b))
      BY <2>3, <2>5 DEF Money, Sending, Token
    <3>3. /\ \A S : Has(toDb', S) <=> Has(toDb, S) \/ m \in S
          /\ \A S : Ones(toDb, S) /\ ~(Has(toDb, S) /\ m \in S) => Ones(toDb', S)
          /\ \A S, T : Before(toDb, S, T) /\ m \notin S => Before(toDb', S, T)
      BY <2>1, <2>2, WiresAre, QueueSent
    <3>4. Sending(b)'  BY <1>1, <2>3, <2>5, <3>1, <3>2, <3>3 DEF Money, Sending, Token
    <3>5. Before(toDb', Claims(b), Loads(b)) /\ ~Has(toCore', Boxes(b))
      BY <1>1, <3>1, <3>2, <3>3 DEF Money
    <3>6. PICK x \in Nat : /\ Path(Earns(b), Nat, toCore, cyang[b], x)
                           /\ Path(Pays(b), Nat, toDb, dyang[b], x)
      BY DEF Money, Balanced
    <3>7. Path(Pays(b), Nat, toDb', dyang'[b], x)
      <4>1. x \in Nat /\ <<x, m, x>> \in Pays(b)  BY <2>2, <3>1, <3>6, PaysIs
      <4> QED  BY <1>1, <2>1, <2>2, <3>6, <4>1, WiresAre, PathFurther
    <3>8. Balanced(b)'  BY <1>1, <3>6, <3>7 DEF Balanced
    <3> QED  BY <3>4, <3>5, <3>8 DEF Money
  <2> QED  BY <2>4, <2>5
<1> QED  BY <1>2, <1>3

\* A visit takes the proceeds as the core shows them, and asks for as much.
Dues == {m \in Requests : m.op \in {"buy", "getyang", "loadbox"}}
Collects(c, ms) ==
  /\ c \in Bots /\ world[c] = "in" /\ TakeProceeds(c)
  /\ ms \in Seq(Requests) /\ ~Has(ms, Dues) /\ toDb' = toDb \o (Claim(c) \o ms)

LEMMA TradeCollects ==
  ASSUME TypeOK, Trade
  PROVE  /\ UNCHANGED <<world, toCore, dyang>>
         /\ \/ /\ UNCHANGED <<cyang, gold>>
               /\ \E d, c : Wires(d, c) /\ {"buy", "getyang", "loadbox"} \cap d = {}
            \/ \E c, ms : Collects(c, ms)
<1>0. Owners \subseteq Bots  BY BotsAssumption
<1>1. ASSUME NEW o \in Bots, NEW op, NEW i, NEW m \in Requests, Visit(o, op, i, m),
             m.op \notin {"buy", "getyang", "loadbox"}
      PROVE  UNCHANGED <<world, toCore, dyang>> /\ \E c, ms : Collects(c, ms)
  <2>1. <<m>> \in Seq(Requests) /\ ~Has(<<m>>, Dues)  BY <1>1, Single, ShortQueues DEF Dues
  <2>2. Collects(o, <<m>>)  BY <1>1, <2>1 DEF Visit, Free, ToDb, Collects
  <2> QED  BY <1>1, <2>2 DEF Visit, dboxes
<1>2. ASSUME NEW o \in Bots, VisitReopen(o)
      PROVE  UNCHANGED <<world, toCore, dyang>> /\ \E c, ms : Collects(c, ms)
  <2> DEFINE m == [op |-> "create", owner |-> o, lines |-> NoLines]
  <2>1. m \in Requests /\ m.op = "create"  BY DEF Requests, Stocking, NoLines
  <2>2. Visit(o, "create", None, m)  BY <1>2 DEF VisitReopen
  <2> HIDE DEF m
  <2> QED  BY <1>1, <2>1, <2>2
<1>3. ASSUME NEW o \in Bots, NEW i \in Items, NEW p \in Prices[i], VisitAdd(o, i, p) \/ VisitEdit(o, i, p)
      PROVE  UNCHANGED <<world, toCore, dyang>> /\ \E c, ms : Collects(c, ms)
  <2> DEFINE m(op) == [op |-> op, owner |-> o, item |-> i, price |-> p]
  <2>1. \A op \in {"add", "edit"} : m(op) \in Requests /\ m(op).op = op  BY VisitPackets
  <2>2. PICK op \in {"add", "edit"} : Visit(o, op, i, m(op))  BY <1>3 DEF VisitAdd, VisitEdit
  <2> HIDE DEF m
  <2> QED  BY <1>1, <2>1, <2>2
<1>4. ASSUME NEW o \in Bots, NEW i \in Items, VisitRemove(o, i)
      PROVE  UNCHANGED <<world, toCore, dyang>> /\ \E c, ms : Collects(c, ms)
  <2> DEFINE m == [op |-> "remove", owner |-> o, item |-> i]
  <2>1. m \in Requests /\ m.op = "remove"  BY DEF Requests, Named
  <2>2. Visit(o, "remove", i, m)  BY <1>4 DEF VisitRemove
  <2> HIDE DEF m
  <2> QED  BY <1>1, <2>1, <2>2
<1>5. ASSUME NEW o \in Bots, NEW i \in Items, VisitWithdraw(o, i)
      PROVE  UNCHANGED <<world, toCore, dyang>> /\ \E c, ms : Collects(c, ms)
  <2> DEFINE m == [op |-> "getitem", owner |-> o, item |-> i]
  <2>1. m \in Requests /\ m.op = "getitem"  BY DEF Requests, Named
  <2>2. Visit(o, "withdraw", i, m)  BY <1>5 DEF VisitWithdraw
  <2> HIDE DEF m
  <2> QED  BY <1>1, <2>1, <2>2
<1>6. ASSUME NEW o \in Bots, VisitProceeds(o)
      PROVE  UNCHANGED <<world, toCore, dyang>> /\ \E c, ms : Collects(c, ms)
  <2>1. Claim(o) \in Seq(Requests)
    <3>1. [op |-> "getyang", owner |-> o, yang |-> Claimable(o)] \in Requests
      BY ClaimableIs DEF Requests, Paid
    <3> QED  BY <3>1, Single, Nothing DEF Claim
  <2>2. Claim(o) \o <<>> = Claim(o)  BY <2>1
  <2>3. <<>> \in Seq(Requests) /\ ~Has(<<>>, Dues)  BY ShortQueues, Nothing
  <2>4. Collects(o, <<>>)  BY <1>6, <2>2, <2>3 DEF VisitProceeds, Free, ToDb, Collects
  <2> QED  BY <1>6, <2>4 DEF VisitProceeds, dboxes
<1>7. ASSUME NEW o \in Owners, NEW offer \in Lines, Submit(o, offer)
      PROVE  /\ UNCHANGED <<world, toCore, dyang, cyang, gold>>
             /\ \E d, c : Wires(d, c) /\ {"buy", "getyang", "loadbox"} \cap d = {}
  <2>1. Wires({"create"}, {})  BY <1>0, <1>7, SubmitWires DEF Wires, DbReasons, CoreReasons
  <2>2. {"buy", "getyang", "loadbox"} \cap {"create"} = {}  OBVIOUS
  <2> QED  BY <1>7, <2>1, <2>2 DEF Submit, core, dboxes
<1>8. ASSUME NEW a \in Bots, NEW o \in Owners, NEW i \in Items, Buy(a, o, i)
      PROVE  /\ UNCHANGED <<world, toCore, dyang, cyang, gold>>
             /\ \E d, c : Wires(d, c) /\ {"buy", "getyang", "loadbox"} \cap d = {}
  <2>1. Wires({"lock"}, {})  BY <1>0, <1>8, TradeWires DEF Wires, DbReasons, CoreReasons
  <2>2. {"buy", "getyang", "loadbox"} \cap {"lock"} = {}  OBVIOUS
  <2> QED  BY <1>8, <2>1, <2>2 DEF Buy, core, dboxes
<1> QED  BY <1>0, <1>2, <1>3, <1>4, <1>5, <1>6, <1>7, <1>8 DEF Trade

LEMMA MoneyCollected ==
  ASSUME TypeOK, NEW c, NEW ms, Collects(c, ms), UNCHANGED <<world, toCore, dyang>>,
         NEW b \in Bots, Money(b)
  PROVE  Money(b)'
<1> DEFINE g == [op |-> "getyang", owner |-> c, yang |-> Claimable(c)]
           S == Claims(b) \cup Loads(b)
           t == Claimable(c)
<1>1. c \in Bots /\ world[c] = "in" /\ ms \in Seq(Requests) /\ ~Has(ms, Dues)
      /\ toDb' = toDb \o (Claim(c) \o ms) /\ cyang' = [cyang EXCEPT ![c] = @ - t]
  BY DEF Collects, TakeProceeds
<1>2. cyang \in [Bots -> Int] /\ t \in Int /\ (cyang[c] \in Nat => t \in Nat /\ t <= cyang[c])
  BY <1>1, ClaimableIs DEF TypeOK, MirrorOK
<1>3. g \in Requests /\ g.op = "getyang" /\ g.owner = c /\ g.yang = t
  BY <1>1, <1>2 DEF Requests, Paid
<1>4. Claim(c) = IF t > 0 THEN <<g>> ELSE <<>>  BY DEF Claim
<1> HIDE DEF g, t
<1>5. ~Has(ms, S)
  <2>1. S \subseteq Dues  BY DEF Claims, Loads, Dues
  <2> QED  BY <1>1, <2>1 DEF Has
<1>6. Claim(c) \in Seq(Requests)  BY <1>3, <1>4, Single, Nothing
<1>7. CASE c # b \/ ~(t > 0)
  <2>1. ~Has(Claim(c), S)
    <3>1. c # b => g \notin S  BY <1>3 DEF Claims, Loads
    <3> QED  BY <1>3, <1>4, <1>7, <3>1, ShortQueues
  <2>2. Claim(c) \o ms \in Seq(Requests) /\ ~Has(Claim(c) \o ms, S)
    BY <1>1, <1>5, <1>6, <2>1, QueueJoined, Joined
  <2> HIDE DEF S
  <2>3. Untouched(toDb, toDb', Requests, S)  BY <1>1, <2>2 DEF Untouched
  <2>4. cyang'[b] = cyang[b]
    <3>1. CASE c # b  BY <1>1, <1>2, <3>1
    <3>2. CASE c = b
      <4>1. PICK x \in Nat : Path(Earns(b), Nat, toCore, cyang[b], x)  BY DEF Money, Balanced
      <4>2. cyang[b] \in Nat  BY <4>1, WiresAre, PathEnds
      <4>3. t = 0  BY <1>2, <1>7, <3>2, <4>2
      <4> QED  BY <1>1, <1>2, <3>2, <4>3
    <3> QED  BY <3>1, <3>2
  <2> QED  BY <2>3, <2>4, MoneyStays DEF S, Untouched
<1>8. CASE c = b /\ t > 0
  <2> DEFINE q == toDb \o <<g>>
  <2>1. q \in Seq(Requests)  BY <1>3, WiresAre, Single, Joined
  <2>2. toDb' = q \o ms
    <3>1. toDb' = toDb \o (<<g>> \o ms)  BY <1>1, <1>4, <1>8
    <3>2. <<g>> \in Seq(Requests)  BY <1>3, Single
    <3>3. toDb \in Seq(Requests) /\ ms \in Seq(Requests)  BY <1>1, WiresAre
    <3>4. (toDb \o <<g>>) \o ms = toDb \o (<<g>> \o ms)  BY <3>2, <3>3, ConcatAssociative
    <3> QED  BY <3>1, <3>4
  <2>3. Untouched(q, toDb', Requests, S)  BY <1>1, <1>5, <2>2 DEF Untouched
  <2>4. ~Has(toDb, Loads(b)) /\ ~Has(toCore, Boxes(b))
    BY <1>1, <1>8 DEF Money, Sending, Token
  <2>5. g \in Claims(b) /\ g \notin Loads(b)  BY <1>3, <1>8 DEF Claims, Loads
  <2>6. /\ Has(q, Loads(b)) <=> Has(toDb, Loads(b))
        /\ Ones(toDb, Loads(b)) => Ones(q, Loads(b))
    BY <1>3, <2>5, WiresAre, QueueSent
  <2> HIDE DEF q
  <2>7. Loads(b) \in SUBSET S /\ Claims(b) \subseteq S  OBVIOUS
  <2>8. /\ Has(toDb', Loads(b)) <=> Has(q, Loads(b))
        /\ Ones(q, Loads(b)) => Ones(toDb', Loads(b))
    BY <2>1, <2>3, <2>7, UntouchedKeeps
  <2>9. Sending(b)' /\ ~Has(toDb', Loads(b))
    BY <1>1, <1>8, <2>4, <2>6, <2>8 DEF Money, Sending, Token
  <2>10. Before(toDb', Claims(b), Loads(b))  BY <2>9 DEF Before, Has
  <2>11. PICK x \in Nat : /\ Path(Earns(b), Nat, toCore, cyang[b], x)
                          /\ Path(Pays(b), Nat, toDb, dyang[b], x)
    BY DEF Money, Balanced
  <2>12. /\ cyang[b] \in Nat /\ t \in Nat /\ t <= cyang[b] /\ t <= x
         /\ Path(Earns(b), Nat, toCore, cyang[b] - t, x - t)
    <3>1. cyang[b] \in Nat /\ t \in Nat /\ t <= cyang[b]
      <4>1. cyang[b] \in Nat  BY <2>11, WiresAre, PathEnds
      <4> QED  BY <1>2, <1>8, <4>1
    <3>2. cyang[b] <= x /\ Path(Earns(b), Nat, toCore, cyang[b] - t, x - t)
      BY <2>4, <2>11, <3>1, WiresAre, EarnsLess
    <3> QED  BY <2>11, <3>1, <3>2
  <2>13. x - t \in Nat /\ <<x, g, x - t>> \in Pays(b)
    <3>1. x - t \in Nat  BY <2>11, <2>12
    <3> QED  BY <1>3, <1>8, <2>5, <2>11, <3>1, PaysIs
  <2>14. Path(Pays(b), Nat, q, dyang[b], x - t)
    BY <1>3, <2>11, <2>13, WiresAre, PathFurther DEF q
  <2>15. Path(Pays(b), Nat, toDb', dyang'[b], x - t)
    BY <2>1, <2>3, <2>7, <2>14, PaysKept
  <2>16. cyang'[b] = cyang[b] - t  BY <1>1, <1>2, <1>8
  <2>17. Balanced(b)'  BY <2>12, <2>13, <2>15, <2>16 DEF Balanced
  <2> QED  BY <2>4, <2>9, <2>10, <2>17 DEF Money
<1> QED  BY <1>7, <1>8

\* The db core takes a packet that is neither a claim nor asks for a safebox.
LEMMA DbTook ==
  ASSUME TypeOK, NEW op, AtDb(op), TakenByDb, op # "getyang", op # "loadbox", NEW b
  PROVE  Untouched(toDb, toDb', Requests, Claims(b) \cup Loads(b))
<1>1. toDb # <<>> /\ toDb' = Tail(toDb) /\ Head(toDb).op = op  BY DEF AtDb, TakenByDb
<1>2. Head(toDb) \notin Claims(b) \cup Loads(b)  BY <1>1 DEF Claims, Loads
<1> QED  BY <1>1, <1>2 DEF Untouched

LEMMA MoneyDbBuy ==
  ASSUME TypeOK, Purchases, DbBuy, NEW b \in Bots, Money(b) PROVE Money(b)'
<1> DEFINE m == Head(toDb)
           yang == Taxed(dprice[m.owner][m.item])
           y == [op |-> "yang", owner |-> m.owner, yang |-> yang]
           s == [op |-> "sold", who |-> m.who, owner |-> m.owner, item |-> m.item]
<1>1. m \in Requests /\ m.op = "buy" /\ m.who \in Bots /\ m.owner \in Bots /\ m.item \in Items
  BY DbTakes, RequestShapes DEF TypeOK, DbBuy
<1>2. Untouched(toDb, toDb', Requests, Claims(b) \cup Loads(b))  BY DbTook DEF DbBuy
<1>3. UNCHANGED <<world, cyang>>  BY DEF DbBuy, people, core
<1>4. dyang \in [Bots -> Int] /\ dprice[m.owner][m.item] \in Nat
  BY <1>1 DEF TypeOK, BoxesOK, ShopsOK
<1>5. yang \in Nat  BY <1>4, TaxedIs
<1>6. y \in Answers /\ s \in Answers /\ y.op = "yang" /\ y.owner = m.owner /\ y.yang = yang
      /\ s.op = "sold"
  BY <1>1, <1>5 DEF Answers, Paid, Shopping
<1>7. \/ UNCHANGED <<dyang, toCore>>
      \/ dyang' = [dyang EXCEPT ![m.owner] = @ + yang] /\ toCore' = toCore \o <<y, s>>
  BY DEF DbBuy, ToCore
<1> HIDE DEF m, yang, y, s
<1>8. CASE UNCHANGED <<dyang, toCore>>
  BY <1>2, <1>3, <1>8, MoneyStays DEF Untouched
<1>9. CASE dyang' = [dyang EXCEPT ![m.owner] = @ + yang] /\ toCore' = toCore \o <<y, s>>
  <2>1. s \notin Earnings(b) /\ s \notin Boxes(b) /\ y \notin Boxes(b)
        /\ (y \in Earnings(b) <=> m.owner = b)
    BY <1>6 DEF Earnings, Boxes
  <2>2. <<y, s>> \in Seq(Answers)  BY <1>6, Two
  <2>3. CASE m.owner # b
    <3>1. ~Has(<<y, s>>, Earnings(b))  BY <2>1, <2>3, ShortQueues
    <3>2. Untouched(toCore, toCore', Answers, Earnings(b))  BY <1>9, <2>2, <3>1 DEF Untouched
    <3>3. dyang'[b] = dyang[b]  BY <1>4, <1>9, <2>3
    <3> QED  BY <1>2, <1>3, <3>2, <3>3, MoneyStays
  <2>4. CASE m.owner = b
    <3>1. Untouched(toCore, toCore', Answers, Boxes(b))
      <4>1. ~Has(<<y, s>>, Boxes(b))  BY <2>1, ShortQueues
      <4> QED  BY <1>9, <2>2, <4>1 DEF Untouched
    <3>2. /\ Has(toCore', Boxes(b)) <=> Has(toCore, Boxes(b))
          /\ Ones(toCore, Boxes(b)) => Ones(toCore', Boxes(b))
      BY <3>1, WiresAre, UntouchedKeeps
    <3>3. /\ Has(toDb', Loads(b)) <=> Has(toDb, Loads(b))
          /\ Has(toDb', Claims(b)) <=> Has(toDb, Claims(b))
          /\ Ones(toDb, Loads(b)) => Ones(toDb', Loads(b))
          /\ Before(toDb, Claims(b), Loads(b)) => Before(toDb', Claims(b), Loads(b))
      BY <1>2, WiresAre, UntouchedKeeps
    <3>4. Sending(b)'  BY <1>3, <3>2, <3>3 DEF Money, Sending, Token
    <3>5. PICK x \in Nat : /\ Path(Earns(b), Nat, toCore, cyang[b], x)
                           /\ Path(Pays(b), Nat, toDb, dyang[b], x)
      BY DEF Money, Balanced
    <3>6. x + yang \in Nat /\ <<x, y, x + yang>> \in Earns(b) /\ <<x + yang, s, x + yang>> \in Earns(b)
      BY <1>5, <1>6, <2>1, <2>4, <3>5, EarnsIs
    <3>7. toCore' = (toCore \o <<y>>) \o <<s>>
      <4>1. <<y, s>> = <<y>> \o <<s>>
        <5> DEFINE p == <<y>>
                   r == <<s>>
                   z == <<y, s>>
        <5>1. p \in Seq(Answers) /\ r \in Seq(Answers) /\ Len(p) = 1 /\ Len(r) = 1
              /\ p[1] = y /\ r[1] = s
          BY <1>6
        <5>2. z \in Seq(Answers) /\ Len(z) = 2 /\ z[1] = y /\ z[2] = s  BY <1>6
        <5> HIDE DEF p, r, z
        <5>3. p \o r \in Seq(Answers) /\ Len(p \o r) = 2 /\ (p \o r)[1] = y /\ (p \o r)[2] = s
          BY <5>1, ConcatProperties
        <5>4. z = p \o r
          <6>1. \A n \in 1..2 : z[n] = (p \o r)[n]  BY <5>2, <5>3
          <6> QED  BY <5>2, <5>3, <6>1, SeqEqual
        <5> QED  BY <5>4 DEF p, r, z
      <4>2. <<y>> \in Seq(Answers) /\ <<s>> \in Seq(Answers)  BY <1>6, Single
      <4> QED  BY <1>9, <4>1, <4>2, WiresAre, ConcatAssociative
    <3>8. Path(Earns(b), Nat, toCore \o <<y>>, cyang[b], x + yang) /\ toCore \o <<y>> \in Seq(Answers)
      BY <1>6, <3>5, <3>6, WiresAre, PathFurther, Single, Joined
    <3>9. Path(Earns(b), Nat, toCore', cyang'[b], x + yang)
      <4> DEFINE r == toCore \o <<y>>
      <4>1. r \in Seq(Answers) /\ Path(Earns(b), Nat, r, cyang[b], x + yang) /\ toCore' = r \o <<s>>
        BY <3>7, <3>8
      <4> HIDE DEF r
      <4>2. Path(Earns(b), Nat, r \o <<s>>, cyang[b], x + yang)  BY <1>6, <3>6, <4>1, PathFurther
      <4> QED  BY <1>3, <4>1, <4>2
    <3>10. Path(Pays(b), Nat, toDb', dyang[b], x)  BY <1>2, <3>5, WiresAre, PaysKept
    <3>11. toDb' \in Seq(Requests)  BY <1>2, WiresAre, DbTakes DEF DbBuy, TakenByDb, TypeOK
    <3>12. Path(Pays(b), Nat, toDb', dyang[b] + yang, x + yang)  BY <1>5, <3>10, <3>11, PaysMore
    <3>13. dyang'[b] = dyang[b] + yang  BY <1>4, <1>9, <2>4
    <3>14. Balanced(b)'  BY <3>6, <3>9, <3>12, <3>13 DEF Balanced
    <3> QED  BY <3>2, <3>3, <3>4, <3>14 DEF Money
  <2> QED  BY <2>3, <2>4
<1> QED  BY <1>7, <1>8, <1>9

LEMMA MoneyDbGetYang ==
  ASSUME TypeOK, DbGetYang, NEW b \in Bots, Money(b) PROVE Money(b)'
<1> DEFINE m == Head(toDb)
<1>1. m \in Requests /\ m.op = "getyang" /\ m.owner \in Bots /\ m.yang \in Int
  BY DbTakes, RequestShapes DEF TypeOK, DbGetYang
<1>2. toDb # <<>> /\ toDb' = Tail(toDb)  BY DEF DbGetYang, AtDb, TakenByDb
<1>3. UNCHANGED <<world, cyang, toCore>>  BY DEF DbGetYang, people, core
<1>4. dyang' = [dyang EXCEPT ![m.owner] = @ - m.yang] /\ dyang \in [Bots -> Int]
  BY DEF DbGetYang, TypeOK, BoxesOK
<1>5. m \notin Loads(b) /\ (m \in Claims(b) <=> m.owner = b)  BY <1>1 DEF Loads, Claims
<1>6. /\ \A S : Has(toDb, S) <=> m \in S \/ Has(toDb', S)
      /\ \A S : Ones(toDb, S) => Ones(toDb', S)
      /\ \A S, T : Before(toDb, S, T) => Before(toDb', S, T)
  BY <1>2, WiresAre, QueueTaken
<1> HIDE DEF m
<1>7. Sending(b)'  BY <1>3, <1>5, <1>6 DEF Money, Sending, Token
<1>8. PICK x \in Nat : /\ Path(Earns(b), Nat, toCore, cyang[b], x)
                       /\ Path(Pays(b), Nat, toDb, dyang[b], x)
  BY DEF Money, Balanced
<1>9. PICK u \in Nat : <<dyang[b], m, u>> \in Pays(b) /\ Path(Pays(b), Nat, Tail(toDb), u, x)
  BY <1>2, <1>8, WiresAre, PathOn DEF m
<1>10. dyang[b] \in Nat  BY <1>8, WiresAre, PathEnds
<1>11. u = IF m \in Claims(b) THEN dyang[b] - m.yang ELSE dyang[b]  BY <1>1, <1>9, <1>10, PaysIs
<1>12. u = dyang'[b]  BY <1>1, <1>4, <1>5, <1>11
<1>13. Balanced(b)'  BY <1>2, <1>3, <1>8, <1>9, <1>12 DEF Balanced
<1> QED  BY <1>3, <1>6, <1>7, <1>13 DEF Money

\* A safebox sent holds what the core will have: nothing is claimed before it.
LEMMA MoneyDbLoadBox ==
  ASSUME TypeOK, DbLoadBox, NEW b \in Bots, Money(b) PROVE Money(b)'
<1> DEFINE m == Head(toDb)
           a == [op |-> "box", owner |-> m.owner, items |-> dbox[m.owner], yang |-> dyang[m.owner]]
<1>1. m \in Requests /\ m.op = "loadbox" /\ m.owner \in Bots
  BY DbTakes, RequestShapes DEF TypeOK, DbLoadBox
<1>2. toDb # <<>> /\ toDb' = Tail(toDb)  BY DEF DbLoadBox, AtDb, TakenByDb
<1>3. UNCHANGED <<world, cyang, dyang>>  BY DEF DbLoadBox, people, core, dboxes
<1>4. a \in Answers /\ a.op = "box" /\ a.owner = m.owner /\ a.yang = dyang[m.owner]
  BY <1>1 DEF TypeOK, BoxesOK, Answers
<1>5. toCore' = toCore \o <<a>>  BY DEF DbLoadBox, ToCore
<1>6. m \notin Claims(b) /\ (m \in Loads(b) <=> m.owner = b) /\ (a \in Boxes(b) <=> m.owner = b)
      /\ (a \in Earnings(b) <=> m.owner = b)
  BY <1>1, <1>4 DEF Loads, Claims, Boxes, Earnings
<1>7. /\ \A S : Has(toDb, S) <=> m \in S \/ Has(toDb', S)
      /\ \A S : Ones(toDb, S) => Ones(toDb', S) /\ ~(m \in S /\ Has(toDb', S))
      /\ \A S, T : Before(toDb, S, T) => Before(toDb', S, T) /\ (m \in T => ~Has(toDb, S))
  BY <1>2, WiresAre, QueueTaken
<1> HIDE DEF a
<1>8. /\ \A S : Has(toCore', S) <=> Has(toCore, S) \/ a \in S
      /\ \A S : Ones(toCore, S) /\ ~(Has(toCore, S) /\ a \in S) => Ones(toCore', S)
  BY <1>4, <1>5, WiresAre, QueueSent
<1>9. PICK x \in Nat : /\ Path(Earns(b), Nat, toCore, cyang[b], x)
                       /\ Path(Pays(b), Nat, toDb, dyang[b], x)
  BY DEF Money, Balanced
<1>10. PICK u \in Nat : <<dyang[b], m, u>> \in Pays(b) /\ Path(Pays(b), Nat, toDb', u, x)
  BY <1>2, <1>9, WiresAre, PathOn
<1>11. dyang[b] \in Nat  BY <1>9, WiresAre, PathEnds
<1>12. u = dyang[b]  BY <1>1, <1>6, <1>10, <1>11, PaysIs
<1> HIDE DEF m, a
<1>13. Sending(b)'
  <2>1. Ones(toDb', Loads(b)) /\ ~(m \in Loads(b) /\ Has(toDb', Loads(b)))
    BY <1>7 DEF Money, Sending, Token
  <2>2. m \in Loads(b) => ~Has(toCore, Boxes(b))  BY <1>7 DEF Money, Sending, Token
  <2> QED  BY <1>3, <1>6, <1>7, <1>8, <2>1, <2>2 DEF Money, Sending, Token
<1>14. Before(toDb', Claims(b), Loads(b)) /\ (m \in Loads(b) => ~Has(toDb', Claims(b)))
  BY <1>7 DEF Money
<1>15. Has(toCore', Boxes(b)) => ~Has(toDb', Claims(b))
  BY <1>6, <1>7, <1>8, <1>14 DEF Money
<1>16. <<x, a, x>> \in Earns(b)
  <2>1. CASE m.owner = b
    <3>1. x = dyang[b]
      <4>1. ~Has(toDb', Claims(b))  BY <1>6, <1>14, <2>1
      <4>2. toDb' \in Seq(Requests)  BY <1>2, WiresAre, Taken
      <4> QED  BY <1>10, <1>12, <4>1, <4>2, PaysNothing
    <3> QED  BY <1>4, <1>6, <1>9, <2>1, <3>1, EarnsIs
  <2>2. CASE m.owner # b  BY <1>4, <1>6, <1>9, <2>2, EarnsIs
  <2> QED  BY <2>1, <2>2
<1>17. Path(Earns(b), Nat, toCore', cyang'[b], x)
  BY <1>3, <1>4, <1>5, <1>9, <1>16, WiresAre, PathFurther
<1>18. Balanced(b)'  BY <1>3, <1>9, <1>10, <1>12, <1>17 DEF Balanced
<1> QED  BY <1>13, <1>14, <1>15, <1>18 DEF Money

LEMMA MoneyCoreYang ==
  ASSUME TypeOK, CoreYang, NEW b \in Bots, Money(b) PROVE Money(b)'
<1> DEFINE m == Head(toCore)
<1>1. m \in Answers /\ m.op = "yang" /\ m.owner \in Bots /\ m.yang \in Int
  BY CoreTakes, AnswerShapes DEF TypeOK, CoreYang
<1>2. toCore # <<>> /\ toCore' = Tail(toCore)  BY DEF CoreYang, AtCore, TakenByCore
<1>3. UNCHANGED <<world, dyang, toDb>>  BY DEF CoreYang, people, dboxes
<1>4. cyang' = [cyang EXCEPT ![m.owner] = @ + m.yang] /\ cyang \in [Bots -> Int]
  BY DEF CoreYang, TypeOK, MirrorOK
<1>5. m \notin Boxes(b) /\ (m \in Earnings(b) <=> m.owner = b)  BY <1>1 DEF Boxes, Earnings
<1>6. /\ \A S : Has(toCore, S) <=> m \in S \/ Has(toCore', S)
      /\ \A S : Ones(toCore, S) => Ones(toCore', S)
  BY <1>2, WiresAre, QueueTaken
<1>7. Sending(b)'  BY <1>3, <1>5, <1>6 DEF Money, Sending, Token
<1>8. PICK x \in Nat : /\ Path(Earns(b), Nat, toCore, cyang[b], x)
                       /\ Path(Pays(b), Nat, toDb, dyang[b], x)
  BY DEF Money, Balanced
<1>9. PICK u \in Nat : <<cyang[b], m, u>> \in Earns(b) /\ Path(Earns(b), Nat, toCore', u, x)
  BY <1>2, <1>8, WiresAre, PathOn
<1>10. cyang[b] \in Nat  BY <1>8, WiresAre, PathEnds
<1>11. u = IF m.owner = b THEN cyang[b] + m.yang ELSE cyang[b]
  BY <1>1, <1>5, <1>9, <1>10, EarnsIs
<1> HIDE DEF m
<1>12. u = cyang'[b]  BY <1>1, <1>4, <1>11
<1>13. Balanced(b)'  BY <1>3, <1>8, <1>9, <1>12 DEF Balanced
<1> QED  BY <1>3, <1>6, <1>7, <1>13 DEF Money

LEMMA MoneyCoreBox ==
  ASSUME TypeOK, CoreBox, NEW b \in Bots, Money(b) PROVE Money(b)'
<1> DEFINE m == Head(toCore)
<1>1. m \in Answers /\ m.op = "box" /\ m.owner \in Bots /\ m.yang \in Int
  BY CoreTakes, AnswerShapes DEF TypeOK, CoreBox
<1>2. toCore # <<>> /\ toCore' = Tail(toCore)  BY DEF CoreBox, AtCore, TakenByCore
<1>3. UNCHANGED <<dyang, toDb>>  BY DEF CoreBox, dboxes
<1>4. /\ cyang' = [cyang EXCEPT ![m.owner] = m.yang] /\ cyang \in [Bots -> Int]
      /\ world' = [world EXCEPT ![m.owner] = "loaded"]
      /\ world \in [Bots -> {"out", "asked", "loaded", "in"}]
  BY DEF CoreBox, TypeOK, MirrorOK, PeopleOK
<1>5. (m \in Boxes(b) <=> m.owner = b) /\ (m \in Earnings(b) <=> m.owner = b)
  BY <1>1 DEF Boxes, Earnings
<1>6. /\ \A S : Has(toCore, S) <=> m \in S \/ Has(toCore', S)
      /\ \A S : Ones(toCore, S) => Ones(toCore', S) /\ ~(m \in S /\ Has(toCore', S))
  BY <1>2, WiresAre, QueueTaken
<1>8. PICK x \in Nat : /\ Path(Earns(b), Nat, toCore, cyang[b], x)
                       /\ Path(Pays(b), Nat, toDb, dyang[b], x)
  BY DEF Money, Balanced
<1>9. PICK u \in Nat : <<cyang[b], m, u>> \in Earns(b) /\ Path(Earns(b), Nat, toCore', u, x)
  BY <1>2, <1>8, WiresAre, PathOn
<1>10. cyang[b] \in Nat  BY <1>8, WiresAre, PathEnds
<1>11. u = IF m.owner = b THEN m.yang ELSE cyang[b]
  BY <1>1, <1>5, <1>9, <1>10, EarnsIs
<1> HIDE DEF m
<1>7. Sending(b)'
  <2>1. world'[b] = IF m.owner = b THEN "loaded" ELSE world[b]  BY <1>1, <1>4
  <2>2. Ones(toCore', Boxes(b)) /\ (m.owner = b => ~Has(toCore', Boxes(b)))
    BY <1>5, <1>6 DEF Money, Sending, Token
  <2>3. m.owner = b => ~Has(toDb, Loads(b))  BY <1>5, <1>6 DEF Money, Sending, Token
  <2> QED  BY <1>3, <1>5, <1>6, <2>1, <2>2, <2>3 DEF Money, Sending, Token
<1>12. u = cyang'[b]  BY <1>1, <1>4, <1>11
<1>13. Balanced(b)'  BY <1>3, <1>8, <1>9, <1>12 DEF Balanced
<1> QED  BY <1>3, <1>6, <1>7, <1>13 DEF Money

LEMMA MoneyStep ==
  ASSUME TypeOK, Purchases, [Next]_vars, NEW b \in Bots, Money(b) PROVE Money(b)'
<1>1. CASE ~MovesMoney  BY <1>1, MoneyAside
<1>2. CASE Trade
  <2>1. UNCHANGED <<world, toCore, dyang>>  BY <1>2, TradeCollects
  <2>2. ASSUME UNCHANGED cyang, NEW d, NEW c, Wires(d, c), {"buy", "getyang", "loadbox"} \cap d = {}
        PROVE  Money(b)'
    <3>1. "getyang" \notin d /\ "loadbox" \notin d  BY <2>2
    <3>2. Untouched(toDb, toDb', Requests, Claims(b) \cup Loads(b))  BY <2>2, <3>1, MoneyWires
    <3>3. Untouched(toCore, toCore', Answers, Earnings(b))  BY <2>1 DEF Untouched
    <3> QED  BY <2>1, <2>2, <3>2, <3>3, MoneyStays
  <2>3. ASSUME NEW c, NEW ms, Collects(c, ms) PROVE Money(b)'  BY <2>1, <2>3, MoneyCollected
  <2> QED  BY <1>2, <2>2, <2>3, TradeCollects
<1>3. CASE Journeys  BY <1>3, MoneyJourneys DEF Journeys
<1> QED
  BY <1>1, <1>2, <1>3, MoneyDbBuy, MoneyDbGetYang, MoneyDbLoadBox, MoneyCoreYang, MoneyCoreBox
     DEF MovesMoney

LEMMA MoneyStarts == ASSUME Init PROVE \A b \in Bots : Money(b)
<1> TAKE b \in Bots
<1>1. toDb = <<>> /\ toCore = <<>> /\ world[b] = "in" /\ cyang[b] = 0 /\ dyang[b] = 0  BY DEF Init
<1>2. /\ \A S : ~Has(<<>>, S) /\ Ones(<<>>, S)
      /\ \A S, T : Before(<<>>, S, T)
  BY ShortQueues
<1>3. Path(Earns(b), Nat, <<>>, 0, 0)
  <2>1. \A m \in Answers : m \in Answers \/ <<0, m, 0>> \in Earns(b)  OBVIOUS
  <2>2. <<>> \in Seq(Answers) /\ ~Has(<<>>, Answers)  BY <1>2, Nothing
  <2> QED  BY <2>1, <2>2, PathHere
<1>4. Path(Pays(b), Nat, <<>>, 0, 0)
  <2>1. \A m \in Requests : m \in Requests \/ <<0, m, 0>> \in Pays(b)  OBVIOUS
  <2>2. <<>> \in Seq(Requests) /\ ~Has(<<>>, Requests)  BY <1>2, Nothing
  <2> QED  BY <2>1, <2>2, PathHere
<1>5. Balanced(b)  BY <1>1, <1>3, <1>4 DEF Balanced
<1>6. Sending(b)  BY <1>1, <1>2 DEF Sending, Token
<1> QED  BY <1>1, <1>2, <1>5, <1>6 DEF Money

LEMMA MoneyIs ==
  ASSUME TypeOK, NEW b \in Bots, Money(b) PROVE cyang[b] \in Nat /\ dyang[b] \in Nat
  BY WiresAre, PathEnds DEF Money, Balanced

-----------------------------------------------------------------------------
(* Purses.                                                                 *)

Solvent == \A b \in Bots : gold[b] >= 0

LEMMA SolventStep ==
  ASSUME TypeOK, [Next]_vars, Solvent, \A b \in Bots : Money(b) PROVE Solvent'
<1>1. gold \in [Bots -> Int] /\ cprice \in [Bots -> [Items -> Nat]]  BY DEF TypeOK, PeopleOK, MirrorOK
<1>2. CASE ~CoreLocked /\ ~Trade  BY <1>2, GoldStays DEF Solvent
<1>3. CASE CoreLocked
  <2> DEFINE m == Head(toCore)
  <2>1. m.who \in Bots /\ m.owner \in Bots /\ m.item \in Items
    BY <1>3, CoreTakes, AnswerShapes DEF TypeOK, CoreLocked
  <2>2. gold' = IF CanPay(m) THEN [gold EXCEPT ![m.who] = @ - cprice[m.owner][m.item]] ELSE gold
    BY <1>3 DEF CoreLocked
  <2>3. cprice[m.owner][m.item] \in Nat /\ (CanPay(m) => cprice[m.owner][m.item] <= gold[m.who])
    BY <1>1, <2>1 DEF CanPay
  <2> HIDE DEF m
  <2> QED  BY <1>1, <2>1, <2>2, <2>3 DEF Solvent
<1>4. CASE Trade
  <2>1. CASE UNCHANGED gold  BY <2>1 DEF Solvent
  <2>2. ASSUME NEW c, NEW ms, Collects(c, ms) PROVE Solvent'
    <3>1. c \in Bots /\ gold' = [gold EXCEPT ![c] = @ + Claimable(c)]  BY <2>2 DEF Collects, TakeProceeds
    <3>2. Claimable(c) \in Nat  BY <3>1, MoneyIs, ClaimableIs
    <3> QED  BY <1>1, <3>1, <3>2 DEF Solvent
  <2> QED  BY <1>4, <2>1, <2>2, TradeCollects
<1> QED  BY <1>2, <1>3, <1>4

Books == Ledger /\ Solvent /\ \A b \in Bots : Money(b)

LEMMA BooksStart == Init => Books
<1> SUFFICES ASSUME Init PROVE Books  OBVIOUS
<1>1. Solvent  BY StartAssumption DEF Init, Solvent
<1> QED  BY <1>1, LedgerStarts, MoneyStarts DEF Books

LEMMA BooksStep == Books /\ [Next]_vars => Books'
<1> SUFFICES ASSUME Books, [Next]_vars PROVE Books'  OBVIOUS
<1>1. Ledger' /\ TypeOK /\ Purchases  BY LedgerStep DEF Books, Ledger
<1>2. Solvent'  BY <1>1, SolventStep DEF Books
<1>3. ASSUME NEW b \in Bots PROVE Money(b)'  BY <1>1, MoneyStep DEF Books
<1> QED  BY <1>1, <1>2, <1>3 DEF Books

LEMMA BooksMean == Books => NeverOverdrawn
<1> SUFFICES ASSUME Books, NEW b \in Bots PROVE gold[b] >= 0 /\ cyang[b] >= 0 /\ dyang[b] >= 0
  BY DEF NeverOverdrawn
<1>1. cyang[b] \in Nat /\ dyang[b] \in Nat  BY MoneyIs DEF Books, Ledger
<1> QED  BY <1>1 DEF Books, Solvent

\* Whatever is claimed, bought and loaded at once, nobody spends what is not
\* there and the db core's TValutesInfo -= never goes below zero
\* (ClientManagerIkarusShop.cpp): a claim is for what the core's copy of the
\* safebox holds, and that is at most what the db core's does once the claims
\* before it are taken.
THEOREM NobodyOverdraws == Spec => []NeverOverdrawn
  BY BooksStart, BooksStep, BooksMean, PTL DEF Spec

-----------------------------------------------------------------------------
(* What the answers on the wire will make of the core's copy of a shop.    *)

Shelf == [st : {"none", "closed", "open"}, lines : [Items -> Nat]]
Showing(s, l) == [st |-> s, lines |-> l]
Quiet == {"refused", "yang", "boxed", "confirm", "box"}

\* An answer takes the core's copy of o's shop from s to t.  Nothing is edited,
\* removed, sold or closed that is not there.
Shows(o, s, m, t) ==
  \/ (m.owner # o \/ m.op \in Quiet \cup {"locked"}) /\ t = s
  \/ /\ m.owner = o /\ m.op = "created" /\ s.st # "open"
     /\ t = Showing("open", [i \in Items |-> IF m.lines[i] > 0 THEN m.lines[i] ELSE s.lines[i]])
  \/ m.owner = o /\ m.op = "added" /\ s.st = "none" /\ t = s
  \/ /\ m.owner = o /\ m.op = "added" /\ s.st # "none"
     /\ t = Showing(s.st, [s.lines EXCEPT ![m.item] = m.price])
  \/ /\ m.owner = o /\ m.op = "edited" /\ s.st # "none" /\ s.lines[m.item] > 0
     /\ t = Showing(s.st, [s.lines EXCEPT ![m.item] = m.price])
  \/ /\ m.owner = o /\ m.op \in {"removed", "sold"} /\ s.st # "none" /\ s.lines[m.item] > 0
     /\ t = Showing(s.st, [s.lines EXCEPT ![m.item] = 0])
  \/ /\ m.owner = o /\ m.op = "closed" /\ s.st # "none"
     /\ t = Showing("none", NoLines)
  \/ m.owner = o /\ m.op = "expired" /\ s.st = "open" /\ t = Showing("closed", s.lines)

\* The answers of q take it from s to t, one after another, and a line that a
\* buyer was promised has the price it will have in the end.
Along(o, q, s, t, h) ==
  /\ h[0] = s /\ h[Len(q)] = t
  /\ \A n \in 1..Len(q) : Shows(o, h[n - 1], q[n], h[n])
  /\ \A n \in 1..Len(q), i \in Items : q[n] \in Granted(o, i) => h[n - 1].lines[i] = t.lines[i]
Leads(o, q, s, t) == \E h \in [0..Len(q) -> Shelf] : Along(o, q, s, t, h)

LEMMA LeadsNowhere ==
  ASSUME NEW o, NEW s, NEW t, Leads(o, <<>>, s, t) PROVE t = s
<1>1. Len(<<>>) = 0  OBVIOUS
<1> QED  BY <1>1 DEF Leads, Along

LEMMA LeadsHere ==
  ASSUME NEW o, NEW s \in Shelf PROVE Leads(o, <<>>, s, s)
<1> DEFINE h == [n \in 0..0 |-> s]
<1>1. Len(<<>>) = 0 /\ 1..0 = {}  OBVIOUS
<1>2. h \in [0..Len(<<>>) -> Shelf] /\ h[0] = s  BY <1>1
<1> HIDE DEF h
<1>3. Along(o, <<>>, s, s, h)  BY <1>1, <1>2 DEF Along
<1> QED  BY <1>2, <1>3 DEF Leads

LEMMA LeadsOn ==
  ASSUME NEW X, NEW q \in Seq(X), q # <<>>, NEW o, NEW s, NEW t, Leads(o, q, s, t)
  PROVE  \E u \in Shelf : /\ Shows(o, s, Head(q), u) /\ Leads(o, Tail(q), u, t)
                          /\ \A i \in Items : Head(q) \in Granted(o, i) => s.lines[i] = t.lines[i]
<1>1. PICK h \in [0..Len(q) -> Shelf] : Along(o, q, s, t, h)  BY DEF Leads
<1>2. /\ Head(q) = q[1] /\ Len(q) \in Nat /\ Len(q) > 0 /\ Len(Tail(q)) = Len(q) - 1
      /\ \A n \in 1..Len(q) - 1 : Tail(q)[n] = q[n + 1]
  BY HeadTailProperties, EmptySeq
<1> DEFINE g == [n \in 0..Len(q) - 1 |-> h[n + 1]]
<1>3. g \in [0..Len(Tail(q)) -> Shelf] /\ \A n \in 0..Len(q) - 1 : g[n] = h[n + 1]  BY <1>1, <1>2
<1> HIDE DEF g
<1>4. 1 \in 1..Len(q) /\ h[1] \in Shelf /\ g[0] = h[1] /\ 1 - 1 = 0  BY <1>1, <1>2, <1>3
<1>5. g[Len(Tail(q))] = t  BY <1>1, <1>2, <1>3 DEF Along
<1>6. ASSUME NEW n \in 1..Len(Tail(q))
      PROVE  /\ Shows(o, g[n - 1], Tail(q)[n], g[n])
             /\ \A i \in Items : Tail(q)[n] \in Granted(o, i) => g[n - 1].lines[i] = t.lines[i]
  <2>1. n + 1 \in 1..Len(q) /\ n - 1 \in 0..Len(q) - 1 /\ n \in 0..Len(q) - 1  BY <1>2
  <2>2. (n + 1) - 1 = n /\ (n - 1) + 1 = n  OBVIOUS
  <2>3. g[n - 1] = h[n] /\ g[n] = h[n + 1] /\ Tail(q)[n] = q[n + 1]  BY <1>2, <1>3, <2>1, <2>2
  <2> QED  BY <1>1, <2>1, <2>2, <2>3 DEF Along
<1>7. Leads(o, Tail(q), h[1], t)  BY <1>3, <1>4, <1>5, <1>6 DEF Leads, Along
<1>8. Shows(o, s, Head(q), h[1])  BY <1>1, <1>2, <1>4 DEF Along
<1>9. \A i \in Items : Head(q) \in Granted(o, i) => s.lines[i] = t.lines[i]
  BY <1>1, <1>2, <1>4 DEF Along
<1> QED  BY <1>4, <1>7, <1>8, <1>9

LEMMA LeadsFurther ==
  ASSUME NEW X, NEW q \in Seq(X), NEW x \in X, NEW o, NEW s, NEW t \in Shelf, NEW u \in Shelf,
         Leads(o, q, s, t), Shows(o, t, x, u),
         \A i \in Items : Has(q, Granted(o, i)) \/ x \in Granted(o, i) => u.lines[i] = t.lines[i]
  PROVE  Leads(o, q \o <<x>>, s, u)
<1>1. PICK h \in [0..Len(q) -> Shelf] : Along(o, q, s, t, h)  BY DEF Leads
<1> DEFINE r == q \o <<x>>
           g == [n \in 0..Len(q) + 1 |-> IF n <= Len(q) THEN h[n] ELSE u]
<1>2. /\ Len(q) \in Nat /\ Len(r) = Len(q) + 1 /\ r[Len(q) + 1] = x
      /\ \A n \in 1..Len(q) : r[n] = q[n]
  OBVIOUS
<1>3. /\ g \in [0..Len(r) -> Shelf] /\ g[Len(q) + 1] = u
      /\ \A n \in 0..Len(q) : g[n] = h[n]
  BY <1>1, <1>2
<1> HIDE DEF g, r
<1>4. g[0] = s /\ g[Len(r)] = u /\ g[Len(q)] = t  BY <1>1, <1>2, <1>3 DEF Along
<1>5. ASSUME NEW n \in 1..Len(r)
      PROVE  /\ Shows(o, g[n - 1], r[n], g[n])
             /\ \A i \in Items : r[n] \in Granted(o, i) => g[n - 1].lines[i] = u.lines[i]
  <2>1. CASE n \in 1..Len(q)
    <3>1. n - 1 \in 0..Len(q) /\ n \in 0..Len(q)  BY <1>2, <2>1
    <3>2. g[n - 1] = h[n - 1] /\ g[n] = h[n] /\ r[n] = q[n]  BY <1>2, <1>3, <2>1, <3>1
    <3>3. Shows(o, h[n - 1], q[n], h[n])  BY <1>1, <2>1 DEF Along
    <3>4. ASSUME NEW i \in Items, q[n] \in Granted(o, i) PROVE h[n - 1].lines[i] = u.lines[i]
      <4>1. Has(q, Granted(o, i))  BY <2>1, <3>4 DEF Has
      <4>2. h[n - 1].lines[i] = t.lines[i]  BY <1>1, <2>1, <3>4 DEF Along
      <4> QED  BY <4>1, <4>2
    <3> QED  BY <3>2, <3>3, <3>4
  <2>2. CASE n = Len(q) + 1
    <3>1. n - 1 = Len(q)  BY <1>2, <2>2
    <3>2. g[n - 1] = t /\ r[n] = x /\ g[n] = u  BY <1>2, <1>3, <1>4, <2>2, <3>1
    <3> QED  BY <3>2
  <2> QED  BY <1>2, <2>1, <2>2
<1>6. Along(o, r, s, u, g)  BY <1>4, <1>5 DEF Along
<1> QED  BY <1>3, <1>6 DEF Leads, r

\* An answer has one effect.
LEMMA ShowsOne ==
  ASSUME NEW o, NEW s, NEW m, NEW t, NEW u, Shows(o, s, m, t), Shows(o, s, m, u)
  PROVE  t = u
  BY DEF Shows, Quiet

\* While no shop is on its way, one that is not there does not come to be, and
\* one that is not open does not open.
Createds(o) == {m \in Answers : m.op = "created" /\ m.owner = o}
Closeds(o) == {m \in Answers : m.op = "closed" /\ m.owner = o}

LEMMA StaysShut ==
  ASSUME NEW q \in Seq(Answers), NEW o, NEW s, NEW t, Leads(o, q, s, t),
         ~Has(q, Createds(o)), s.st # "open"
  PROVE  t.st # "open"
<1>1. PICK h \in [0..Len(q) -> Shelf] : Along(o, q, s, t, h)  BY DEF Leads
<1> DEFINE G == {n \in 0..Len(q) : h[n].st # "open"}
<1>2. Len(q) \in Nat  OBVIOUS
<1>3. 0 \in G  BY <1>1, <1>2 DEF Along
<1>4. ASSUME NEW n \in 1..Len(q), n - 1 \in G PROVE n \in G
  <2>1. h[n - 1].st # "open" /\ n \in 0..Len(q)  BY <1>2, <1>4
  <2>2. Shows(o, h[n - 1], q[n], h[n])  BY <1>1 DEF Along
  <2>3. q[n] \in Answers /\ q[n] \notin Createds(o)  BY <1>2, ElementOfSeq DEF Has
  <2>4. q[n].op # "created" \/ q[n].owner # o  BY <2>3 DEF Createds
  <2>5. h[n].st # "open"  BY <2>1, <2>2, <2>4 DEF Shows, Showing
  <2> QED  BY <2>1, <2>5
<1>5. \A n \in 0..Len(q) : n \in G
  <2> HIDE DEF G
  <2> QED  BY <1>2, <1>3, <1>4, AllAlong
<1>6. Len(q) \in 0..Len(q)  BY <1>2
<1>7. h[Len(q)].st # "open"  BY <1>5, <1>6
<1> QED  BY <1>1, <1>7 DEF Along

LEMMA StaysGone ==
  ASSUME NEW q \in Seq(Answers), NEW o, NEW s, NEW t, Leads(o, q, s, t),
         ~Has(q, Createds(o)), s.st = "none"
  PROVE  t = s /\ ~Has(q, Closeds(o))
<1>1. PICK h \in [0..Len(q) -> Shelf] : Along(o, q, s, t, h)  BY DEF Leads
<1> DEFINE G == {n \in 0..Len(q) : h[n] = s}
<1>2. Len(q) \in Nat  OBVIOUS
<1>3. 0 \in G  BY <1>1, <1>2 DEF Along
<1>4. ASSUME NEW n \in 1..Len(q), h[n - 1] = s
      PROVE  h[n] = s /\ q[n] \notin Closeds(o)
  <2>1. Shows(o, h[n - 1], q[n], h[n])  BY <1>1 DEF Along
  <2>2. q[n] \in Answers /\ q[n] \notin Createds(o)  BY <1>2, ElementOfSeq DEF Has
  <2>3. q[n].op # "created" \/ q[n].owner # o  BY <2>2 DEF Createds
  <2>4. q[n] \in Closeds(o) => q[n].owner = o /\ q[n].op = "closed"  BY DEF Closeds
  <2> QED  BY <1>4, <2>1, <2>3, <2>4 DEF Shows, Showing, Quiet
<1>5. \A n \in 1..Len(q) : n - 1 \in G => n \in G
  <2> TAKE n \in 1..Len(q)
  <2>1. n \in 0..Len(q)  BY <1>2
  <2> QED  BY <1>4, <2>1
<1>6. \A n \in 0..Len(q) : n \in G
  <2> HIDE DEF G
  <2> QED  BY <1>2, <1>3, <1>5, AllAlong
<1>7. Len(q) \in 0..Len(q)  BY <1>2
<1>8. h[Len(q)] = s  BY <1>6, <1>7
<1>9. ASSUME NEW n \in 1..Len(q) PROVE q[n] \notin Closeds(o)
  <2>1. n - 1 \in 0..Len(q)  BY <1>2
  <2>2. h[n - 1] = s  BY <1>6, <2>1
  <2> QED  BY <1>4, <2>2
<1> QED  BY <1>1, <1>8, <1>9 DEF Along, Has

-----------------------------------------------------------------------------
(* The core's copy and the db core's shop, with what is between them.      *)

Puts(o, i) == {m \in Queries : m.op = "put" /\ m.owner = o /\ m.lines[i] > 0}

Mirror(o) == Showing(cst[o], cprice[o])

\* What the core will show: the lines that are stored, and those that will be.
Due(o, t) ==
  /\ t.st = dst[o]
  /\ \A i \in Items : ~Has(sql, Puts(o, i)) => t.lines[i] = dprice[o][i]
  /\ \A i \in Items : \A m \in Puts(o, i) : Has(sql, {m}) => t.lines[i] = m.lines[i]
Mirrored(o) == \E t \in Shelf : Due(o, t) /\ Leads(o, toCore, Mirror(o), t)

LEMMA MirrorIs ==
  ASSUME MirrorOK, NEW o \in Bots
  PROVE  Mirror(o) \in Shelf /\ Mirror(o).st = cst[o] /\ Mirror(o).lines = cprice[o]
  BY DEF MirrorOK, Mirror, Showing, Shelf

LEMMA ShelfIs ==
  ASSUME NEW t \in Shelf
  PROVE  /\ t = Showing(t.st, t.lines) /\ t.st \in {"none", "closed", "open"}
         /\ t.lines \in [Items -> Nat]
  BY DEF Shelf, Showing

LEMMA ShowingIs ==
  ASSUME NEW s \in {"none", "closed", "open"}, NEW l \in [Items -> Nat]
  PROVE  Showing(s, l) \in Shelf /\ Showing(s, l).st = s /\ Showing(s, l).lines = l
  BY DEF Shelf, Showing

\* A shop that is not open here will not be refused there.
LEMMA NotYetOpen ==
  ASSUME TypeOK, NEW o \in Bots, Mirrored(o), ~Has(toCore, Createds(o)), cst[o] # "open"
  PROVE  dst[o] # "open"
<1>1. PICK t \in Shelf : Due(o, t) /\ Leads(o, toCore, Mirror(o), t)  BY DEF Mirrored
<1>2. Mirror(o).st = cst[o]  BY MirrorIs DEF TypeOK
<1>3. t.st # "open"  BY <1>1, <1>2, WiresAre, StaysShut
<1> QED  BY <1>1, <1>3 DEF Due

LEMMA NotYetThere ==
  ASSUME TypeOK, NEW o \in Bots, Mirrored(o), ~Has(toCore, Createds(o)), cst[o] = "none"
  PROVE  dst[o] = "none" /\ ~Has(toCore, Closeds(o))
<1>1. PICK t \in Shelf : Due(o, t) /\ Leads(o, toCore, Mirror(o), t)  BY DEF Mirrored
<1>2. Mirror(o).st = cst[o]  BY MirrorIs DEF TypeOK
<1>3. t = Mirror(o) /\ ~Has(toCore, Closeds(o))  BY <1>1, <1>2, WiresAre, StaysGone
<1> QED  BY <1>1, <1>2, <1>3 DEF Due

\* Nothing of it moves.
SameLines(o) ==
  /\ dst'[o] = dst[o] /\ dprice'[o] = dprice[o]
  /\ \A i \in Items : \A m \in Puts(o, i) : Has(sql', {m}) <=> Has(sql, {m})

LEMMA DueKept ==
  ASSUME NEW o, NEW t, Due(o, t), SameLines(o) PROVE Due(o, t)'
<1>1. ASSUME NEW i \in Items PROVE Has(sql, Puts(o, i)) => Has(sql', Puts(o, i))
  <2> SUFFICES ASSUME Has(sql, Puts(o, i)) PROVE Has(sql', Puts(o, i))  OBVIOUS
  <2>1. PICK n \in 1..Len(sql) : sql[n] \in Puts(o, i)  BY DEF Has
  <2>2. Has(sql, {sql[n]})  BY DEF Has
  <2>3. Has(sql', {sql[n]})  BY <2>1, <2>2 DEF SameLines
  <2> QED  BY <2>1, <2>3 DEF Has
<1>2. /\ t.st = dst'[o]
      /\ \A i \in Items : ~Has(sql', Puts(o, i)) => t.lines[i] = dprice'[o][i]
      /\ \A i \in Items : \A m \in Puts(o, i) : Has(sql', {m}) => t.lines[i] = m.lines[i]
  BY <1>1 DEF Due, SameLines
<1> QED  BY <1>2 DEF Due

LEMMA MirrorKept ==
  ASSUME NEW o, Mirrored(o), SameLines(o), cst'[o] = cst[o], cprice'[o] = cprice[o], toCore' = toCore
  PROVE  Mirrored(o)'
<1>1. PICK t \in Shelf : Due(o, t) /\ Leads(o, toCore, Mirror(o), t)  BY DEF Mirrored
<1>2. Due(o, t)'  BY <1>1, DueKept
<1>3. Mirror(o)' = Mirror(o)  BY DEF Mirror
<1>4. Leads(o, toCore', Mirror(o)', t)  BY <1>1, <1>3
<1> QED  BY <1>2, <1>4 DEF Mirrored

\* The core takes an answer.
LEMMA MirrorTaken ==
  ASSUME TypeOK, NEW o \in Bots, Mirrored(o), toCore # <<>>
  PROVE  \E u \in Shelf :
           /\ Shows(o, Mirror(o), Head(toCore), u)
           /\ /\ Mirror(o)' = u /\ toCore' = Tail(toCore)
              /\ dst'[o] = dst[o] /\ dprice'[o] = dprice[o] /\ sql' = sql
              => Mirrored(o)'
<1>1. PICK t \in Shelf : Due(o, t) /\ Leads(o, toCore, Mirror(o), t)  BY DEF Mirrored
<1>2. PICK u \in Shelf : Shows(o, Mirror(o), Head(toCore), u) /\ Leads(o, Tail(toCore), u, t)
  BY <1>1, WiresAre, LeadsOn
<1>3. ASSUME Mirror(o)' = u, toCore' = Tail(toCore),
             dst'[o] = dst[o], dprice'[o] = dprice[o], sql' = sql
      PROVE  Mirrored(o)'
  <2>1. Due(o, t)'  BY <1>1, <1>3 DEF Due
  <2>2. Leads(o, toCore', Mirror(o)', t)  BY <1>2, <1>3
  <2> QED  BY <2>1, <2>2 DEF Mirrored
<1> QED  BY <1>2, <1>3

\* The db core sends one.
LEMMA MirrorSent ==
  ASSUME TypeOK, NEW o \in Bots, NEW t \in Shelf, NEW u \in Shelf, NEW x \in Answers,
         Leads(o, toCore, Mirror(o), t), Shows(o, t, x, u), Due(o, u)',
         \A i \in Items : Has(toCore, Granted(o, i)) \/ x \in Granted(o, i) => u.lines[i] = t.lines[i],
         cst'[o] = cst[o], cprice'[o] = cprice[o], toCore' = toCore \o <<x>>
  PROVE  Mirrored(o)'
<1>1. Leads(o, toCore \o <<x>>, Mirror(o), u)  BY WiresAre, LeadsFurther
<1>2. Mirror(o)' = Mirror(o)  BY DEF Mirror
<1>3. Leads(o, toCore', Mirror(o)', u)  BY <1>1, <1>2
<1> QED  BY <1>3 DEF Mirrored

-----------------------------------------------------------------------------
(* What a step does to the queries.                                        *)

\* The query at the head, and the others, are typed.
LEMMA Queried1 ==
  ASSUME TypeOK, NEW op, AtSql(op)
  PROVE  /\ Head(sql) \in Queries /\ Head(sql).op = op /\ Tail(sql) \in Seq(Queries) /\ sql # <<>>
         /\ \A S : Has(sql, S) <=> Head(sql) \in S \/ Has(Tail(sql), S)
         /\ \A S : Ones(sql, S) => Ones(Tail(sql), S) /\ ~(Head(sql) \in S /\ Has(Tail(sql), S))
<1>1. sql # <<>>  BY DEF AtSql
<1> QED  BY <1>1, WiresAre, QueueTaken, SqlTakes DEF TypeOK

\* The new shop's lines are queried next.
LEMMA PutQuery ==
  ASSUME NEW m \in Queries, m.op = "create"
  PROVE  /\ [m EXCEPT !.op = "put"] \in Queries /\ [m EXCEPT !.op = "put"].op = "put"
         /\ [m EXCEPT !.op = "put"].owner = m.owner /\ [m EXCEPT !.op = "put"].lines = m.lines
<1>1. m \in Stocking({"create", "put"}) /\ m.lines \in [Items -> Nat] /\ m.owner \in Bots
  BY QueryShapes
<1>2. m = [op |-> "create", owner |-> m.owner, lines |-> m.lines]  BY <1>1 DEF Stocking
<1>3. [m EXCEPT !.op = "put"] = [op |-> "put", owner |-> m.owner, lines |-> m.lines]  BY <1>2
<1> QED  BY <1>1, <1>3 DEF Queries, Stocking

LEMMA CreateQueried ==
  ASSUME TypeOK, CreateDone
  PROVE  LET m == Head(sql)
             p == [m EXCEPT !.op = "put"]
         IN  /\ m \in Queries /\ m.op = "create" /\ m.owner \in Bots /\ m.lines \in [Items -> Nat]
             /\ p \in Queries /\ p.op = "put" /\ p.owner = m.owner /\ p.lines = m.lines
             /\ \A S : Has(sql, S) <=> m \in S \/ Has(Tail(sql), S)
             /\ \A S : Ones(sql, S) => Ones(Tail(sql), S) /\ ~(m \in S /\ Has(Tail(sql), S))
             /\ \A S : Has(sql', S) <=> Has(Tail(sql), S) \/ (m.lines # NoLines /\ p \in S)
             /\ \A S : Ones(Tail(sql), S) /\ ~(Has(Tail(sql), S) /\ p \in S) => Ones(sql', S)
             /\ sql' \in Seq(Queries)
<1> DEFINE m == Head(sql)
           p == [m EXCEPT !.op = "put"]
           q == Tail(sql)
<1>1. AtSql("create")  BY DEF CreateDone
<1>2. m \in Queries /\ m.op = "create" /\ q \in Seq(Queries)  BY <1>1, Queried1
<1>3. m.owner \in Bots /\ m.lines \in [Items -> Nat]  BY <1>2, QueryShapes
<1>4. p \in Queries /\ p.op = "put" /\ p.owner = m.owner /\ p.lines = m.lines  BY <1>2, PutQuery
<1>5. /\ \A S : Has(sql, S) <=> m \in S \/ Has(q, S)
      /\ \A S : Ones(sql, S) => Ones(q, S) /\ ~(m \in S /\ Has(q, S))
  BY <1>1, Queried1
<1>6. sql' = IF m.lines = NoLines THEN q ELSE Append(q, p)  BY DEF CreateDone
<1> HIDE DEF m, p, q
<1>7. Append(q, p) = q \o <<p>> /\ Append(q, p) \in Seq(Queries)  BY <1>2, <1>4
<1>8. /\ \A S : Has(q \o <<p>>, S) <=> Has(q, S) \/ p \in S
      /\ \A S : Ones(q, S) /\ ~(Has(q, S) /\ p \in S) => Ones(q \o <<p>>, S)
  BY <1>2, <1>4, QueueSent
<1>9. /\ \A S : Has(sql', S) <=> Has(q, S) \/ (m.lines # NoLines /\ p \in S)
      /\ \A S : Ones(q, S) /\ ~(Has(q, S) /\ p \in S) => Ones(sql', S)
      /\ sql' \in Seq(Queries)
  BY <1>2, <1>6, <1>7, <1>8
<1> QED  BY <1>2, <1>3, <1>4, <1>5, <1>9 DEF m, p, q

\* One line of the put at the head is stored.
LEMMA PutQueried ==
  ASSUME TypeOK, PutDone
  PROVE  LET m == Head(sql)
         IN  /\ m \in Queries /\ m.op = "put" /\ m.owner \in Bots /\ m.lines \in [Items -> Nat]
             /\ \A S : Has(sql, S) <=> m \in S \/ Has(Tail(sql), S)
             /\ \A S : Ones(sql, S) => Ones(Tail(sql), S) /\ ~(m \in S /\ Has(Tail(sql), S))
             /\ \E i \in Items :
                  LET rest == [m.lines EXCEPT ![i] = 0]
                      p == [m EXCEPT !.lines = rest]
                  IN  /\ m.lines[i] > 0 /\ Put(m.owner, i, m.lines[i])
                      /\ p \in Queries /\ p.op = "put" /\ p.owner = m.owner /\ p.lines = rest
                      /\ rest \in [Items -> Nat]
                      /\ \A S : Has(sql', S) <=> (rest # NoLines /\ p \in S) \/ Has(Tail(sql), S)
                      /\ \A S : Ones(Tail(sql), S) /\ ~(Has(Tail(sql), S) /\ p \in S) => Ones(sql', S)
<1> DEFINE m == Head(sql)
           q == Tail(sql)
<1>1. AtSql("put")  BY DEF PutDone
<1>2. m \in Queries /\ m.op = "put" /\ q \in Seq(Queries)  BY <1>1, Queried1
<1>3. m.owner \in Bots /\ m.lines \in [Items -> Nat] /\ m \in Stocking({"create", "put"})
  BY <1>2, QueryShapes
<1>5. /\ \A S : Has(sql, S) <=> m \in S \/ Has(q, S)
      /\ \A S : Ones(sql, S) => Ones(q, S) /\ ~(m \in S /\ Has(q, S))
  BY <1>1, Queried1
<1>6. PICK i \in Items :
        /\ m.lines[i] > 0 /\ Put(m.owner, i, m.lines[i])
        /\ sql' = IF [m.lines EXCEPT ![i] = 0] = NoLines THEN q
                  ELSE <<[m EXCEPT !.lines = [m.lines EXCEPT ![i] = 0]]>> \o q
  BY DEF PutDone
<1> DEFINE rest == [m.lines EXCEPT ![i] = 0]
           p == [m EXCEPT !.lines = rest]
<1>7. rest \in [Items -> Nat]  BY <1>3
<1>8. p = [op |-> "put", owner |-> m.owner, lines |-> rest]
  <2>1. m = [op |-> "put", owner |-> m.owner, lines |-> m.lines]  BY <1>2, <1>3 DEF Stocking
  <2> HIDE DEF rest
  <2> QED  BY <2>1
<1>9. sql' = IF rest = NoLines THEN q ELSE <<p>> \o q  BY <1>6
<1> HIDE DEF m, p, q, rest
<1>10. p \in Queries /\ p.op = "put" /\ p.owner = m.owner /\ p.lines = rest
  BY <1>3, <1>7, <1>8 DEF Queries, Stocking
<1>11. /\ \A S : Has(<<p>> \o q, S) <=> p \in S \/ Has(q, S)
       /\ \A S : Ones(q, S) /\ ~(Has(q, S) /\ p \in S) => Ones(<<p>> \o q, S)
  <2>1. <<p>> \in Seq(Queries)  BY <1>10, Single
  <2>2. \A S : (Has(<<p>>, S) <=> p \in S) /\ Ones(<<p>>, S)  BY ShortQueues
  <2> QED  BY <1>2, <2>1, <2>2, QueueJoined
<1>12. /\ \A S : Has(sql', S) <=> (rest # NoLines /\ p \in S) \/ Has(q, S)
       /\ \A S : Ones(q, S) /\ ~(Has(q, S) /\ p \in S) => Ones(sql', S)
  BY <1>9, <1>11
<1> QED  BY <1>2, <1>3, <1>5, <1>6, <1>7, <1>10, <1>12 DEF m, p, q, rest

\* Queries of a kind come and go only with those who deal with that kind.
Querying(op) ==
  \/ op = "create" /\ (DbCreate \/ CreateDone)
  \/ op = "put" /\ (CreateDone \/ PutDone)
  \/ op = "add" /\ (DbAdd \/ AddDone)
  \/ op = "boxadd" /\ (DbBoxAdd \/ BoxAddDone)

LEMMA QueriesAside ==
  ASSUME TypeOK, [Next]_vars, NEW S, \A m \in S : ~Querying(m.op)
  PROVE  (Has(sql', S) <=> Has(sql, S)) /\ (Ones(sql, S) => Ones(sql', S))
<1>1. CASE DbCreate \/ DbAdd \/ DbBoxAdd
  <2> DEFINE m == Head(toDb)
  <2>1. m \in Requests /\ m.op \in {"create", "add", "boxadd"} /\ m \in Queries
    BY <1>1, DbTakes, RequestShapes DEF TypeOK, DbCreate, DbAdd, DbBoxAdd
  <2>2. m \notin S
    <3>1. Querying(m.op)
      BY <1>1, DbTakes DEF TypeOK, Querying, DbCreate, DbAdd, DbBoxAdd
    <3> QED  BY <3>1
  <2>3. sql' = sql \/ sql' = Append(sql, m)  BY <1>1 DEF DbCreate, DbAdd, DbBoxAdd
  <2> HIDE DEF m
  <2>4. sql \in Seq(Queries)  BY WiresAre
  <2>5. Append(sql, m) = sql \o <<m>>  BY <2>1, <2>4
  <2>6. /\ Has(sql \o <<m>>, S) <=> Has(sql, S)
        /\ Ones(sql, S) => Ones(sql \o <<m>>, S)
    BY <2>1, <2>2, <2>4, QueueSent
  <2> QED  BY <2>3, <2>5, <2>6
<1>2. CASE CreateDone
  <2> DEFINE m == Head(sql)
             p == [m EXCEPT !.op = "put"]
  <2>1. m.op = "create" /\ p.op = "put"  BY <1>2, CreateQueried
  <2>2. m \notin S /\ p \notin S  BY <1>2, <2>1 DEF Querying
  <2> QED  BY <1>2, <2>2, CreateQueried
<1>3. CASE PutDone
  <2> DEFINE m == Head(sql)
  <2>1. \A x \in S : x.op # "put"  BY <1>3 DEF Querying
  <2>2. m \notin S /\ \A i \in Items : [m EXCEPT !.lines = [m.lines EXCEPT ![i] = 0]].op = "put"
             => [m EXCEPT !.lines = [m.lines EXCEPT ![i] = 0]] \notin S
    BY <1>3, <2>1, PutQueried
  <2> QED  BY <1>3, <2>2, PutQueried
<1>4. CASE AddDone \/ BoxAddDone
  <2>1. PICK op \in {"add", "boxadd"} : AtSql(op) /\ sql' = Tail(sql) /\ Querying(op)
    BY <1>4 DEF AddDone, BoxAddDone, Querying
  <2>2. Head(sql) \notin S  BY <2>1, Queried1
  <2> QED  BY <2>1, <2>2, Queried1
<1>5. CASE ~(DbCreate \/ DbAdd \/ DbBoxAdd \/ CreateDone \/ PutDone \/ AddDone \/ BoxAddDone)
  BY <1>5, QueriesStay
<1> QED  BY <1>1, <1>2, <1>3, <1>4, <1>5

-----------------------------------------------------------------------------
(* A shop being opened: one packet, query or answer for one request.       *)

Creates(o) == {m \in Requests : m.op = "create" /\ m.owner = o}
Creations(o) == {m \in Queries : m.op = "create" /\ m.owner = o}

Opening(o) ==
  /\ Ones(toDb, Creates(o)) /\ Ones(sql, Creations(o)) /\ Ones(toCore, Createds(o))
  /\ ~(Has(toDb, Creates(o)) /\ Has(sql, Creations(o)))
  /\ ~(Has(toDb, Creates(o)) /\ Has(toCore, Createds(o)))
  /\ ~(Has(sql, Creations(o)) /\ Has(toCore, Createds(o)))
  /\ req[o] = <<"create", None>> <=>
       Has(toDb, Creates(o)) \/ Has(sql, Creations(o)) \/ Has(toCore, Createds(o))
  /\ Has(toDb, Creates(o)) \/ Has(sql, Creations(o)) => cst[o] # "open"

\* The new shop's answer alone opens it here.
LEMMA StaysClosed ==
  ASSUME TypeOK, [Next]_vars, ~CoreCreated, NEW o \in Bots, cst[o] # "open" PROVE cst'[o] # "open"
<1>1. cst \in [Bots -> {"none", "closed", "open"}]  BY DEF TypeOK, MirrorOK
<1>2. CASE CoreClosed  BY <1>1, <1>2 DEF CoreClosed
<1>3. CASE CoreExpired  BY <1>1, <1>3 DEF CoreExpired
<1>4. CASE ~CoreClosed /\ ~CoreExpired  BY <1>4, StatesStay
<1> QED  BY <1>2, <1>3, <1>4

LEMMA CreatesStay ==
  ASSUME TypeOK, [Next]_vars, NEW o
  PROVE  /\ ~DbCreate /\ ~Begins("create") =>
              /\ Has(toDb', Creates(o)) <=> Has(toDb, Creates(o))
              /\ Ones(toDb, Creates(o)) => Ones(toDb', Creates(o))
         /\ ~DbCreate /\ ~CreateDone =>
              /\ Has(sql', Creations(o)) <=> Has(sql, Creations(o))
              /\ Ones(sql, Creations(o)) => Ones(sql', Creations(o))
         /\ ~CreateDone /\ ~CoreCreated =>
              /\ Has(toCore', Createds(o)) <=> Has(toCore, Createds(o))
              /\ Ones(toCore, Createds(o)) => Ones(toCore', Createds(o))
<1>1. PICK d, c : Wires(d, c)  BY StepWires
<1>2. "create" \notin d => Creates(o) \in SUBSET But(Requests, d)  BY DEF Creates, But
<1>3. "created" \notin c => Createds(o) \in SUBSET But(Answers, c)  BY DEF Createds, But
<1>4. ~DbCreate /\ ~Begins("create") => "create" \notin d  BY <1>1 DEF Wires, DbReasons, Begins
<1>5. ~CreateDone /\ ~CoreCreated => "created" \notin c  BY <1>1 DEF Wires, CoreReasons
<1>6. ~DbCreate /\ ~CreateDone => \A m \in Creations(o) : ~Querying(m.op)
  BY DEF Creations, Querying
<1>7. ~DbCreate /\ ~CreateDone =>
              /\ Has(sql', Creations(o)) <=> Has(sql, Creations(o))
              /\ Ones(sql, Creations(o)) => Ones(sql', Creations(o))
  BY <1>6, QueriesAside
<1> QED  BY <1>1, <1>2, <1>3, <1>4, <1>5, <1>7, WiresStay

LEMMA OpeningAside ==
  ASSUME TypeOK, [Next]_vars, NEW o \in Bots, Opening(o),
         ~DbCreate, ~CreateDone, ~CoreCreated, ~Begins("create")
  PROVE  Opening(o)'
<1>1. req'[o] = <<"create", None>> <=> req[o] = <<"create", None>>
  BY JournalSteps DEF Completes
<1>2. cst[o] # "open" => cst'[o] # "open"  BY StaysClosed
<1> QED  BY <1>1, <1>2, CreatesStay DEF Opening

\* It is asked for by who asks for nothing else.
LEMMA Opens ==
  ASSUME TypeOK, Begins("create")
  PROVE  \E o \in Owners, m \in Requests :
           /\ m.op = "create" /\ m.owner = o /\ req[o] = NoRequest /\ cst[o] # "open"
           /\ m.lines = NoLines \/ cst[o] = "none"
           /\ Begin(o, "create", None)
           /\ \A S : (\A g \in S : g.op # "getyang") =>
                /\ Has(toDb', S) <=> Has(toDb, S) \/ m \in S
                /\ Ones(toDb, S) /\ ~(Has(toDb, S) /\ m \in S) => Ones(toDb', S)
           /\ \A S, T : (\A g \in S \cup T : g.op # "getyang") /\ Before(toDb, S, T) =>
                /\ m \notin S => Before(toDb', S, T)
           /\ UNCHANGED <<cst, cprice, dst, dprice, toCore, sql>>
<1>0. Owners \subseteq Bots  BY BotsAssumption
<1>1. ASSUME NEW o \in Owners, VisitReopen(o)
      PROVE  \E m \in Requests :
           /\ m.op = "create" /\ m.owner = o /\ req[o] = NoRequest /\ cst[o] # "open"
           /\ m.lines = NoLines \/ cst[o] = "none"
           /\ Begin(o, "create", None)
           /\ \A S : (\A g \in S : g.op # "getyang") =>
                /\ Has(toDb', S) <=> Has(toDb, S) \/ m \in S
                /\ Ones(toDb, S) /\ ~(Has(toDb, S) /\ m \in S) => Ones(toDb', S)
           /\ \A S, T : (\A g \in S \cup T : g.op # "getyang") /\ Before(toDb, S, T) =>
                /\ m \notin S => Before(toDb', S, T)
           /\ UNCHANGED <<cst, cprice, dst, dprice, toCore, sql>>
  <2> DEFINE m == [op |-> "create", owner |-> o, lines |-> NoLines]
  <2>1. m \in Requests /\ m.op = "create" /\ m.owner = o /\ m.lines = NoLines
    BY <1>0 DEF Requests, Stocking, NoLines
  <2>2. Visit(o, "create", None, m) /\ cst[o] = "closed"  BY <1>1 DEF VisitReopen
  <2> HIDE DEF m
  <2>3. req[o] = NoRequest /\ Begin(o, "create", None)
        /\ UNCHANGED <<cst, cprice, dst, dprice, toCore, sql>>
    BY <2>2 DEF Visit, Free, dshops
  <2>4. /\ \A S : (\A g \in S : g.op # "getyang") =>
              /\ Has(toDb', S) <=> Has(toDb, S) \/ m \in S
              /\ Ones(toDb, S) /\ ~(Has(toDb, S) /\ m \in S) => Ones(toDb', S)
        /\ \A S, T : (\A g \in S \cup T : g.op # "getyang") /\ Before(toDb, S, T) =>
              /\ m \notin S => Before(toDb', S, T)
    BY <1>0, <2>1, <2>2, VisitQueue
  <2> QED  BY <2>1, <2>2, <2>3, <2>4
<1>2. ASSUME NEW o \in Owners, NEW offer \in Lines, Submit(o, offer)
      PROVE  \E m \in Requests :
           /\ m.op = "create" /\ m.owner = o /\ req[o] = NoRequest /\ cst[o] # "open"
           /\ m.lines = NoLines \/ cst[o] = "none"
           /\ Begin(o, "create", None)
           /\ \A S : (\A g \in S : g.op # "getyang") =>
                /\ Has(toDb', S) <=> Has(toDb, S) \/ m \in S
                /\ Ones(toDb, S) /\ ~(Has(toDb, S) /\ m \in S) => Ones(toDb', S)
           /\ \A S, T : (\A g \in S \cup T : g.op # "getyang") /\ Before(toDb, S, T) =>
                /\ m \notin S => Before(toDb', S, T)
           /\ UNCHANGED <<cst, cprice, dst, dprice, toCore, sql>>
  <2> DEFINE m == [op |-> "create", owner |-> o, lines |-> offer]
  <2>1. m \in Requests /\ m.op = "create" /\ m.owner = o
    <3>1. offer \in [Items -> Nat]  BY PriceAssumption DEF Lines
    <3> QED  BY <1>0, <3>1 DEF Requests, Stocking
  <2>2. toDb' = toDb \o <<m>> /\ cst[o] = "none" /\ req[o] = NoRequest /\ Begin(o, "create", None)
        /\ UNCHANGED <<cst, cprice, dst, dprice, toCore, sql>>
    BY <1>2 DEF Submit, Free, ToDb, core, dshops
  <2> HIDE DEF m
  <2>3. /\ \A S : Has(toDb \o <<m>>, S) <=> Has(toDb, S) \/ m \in S
        /\ \A S : Ones(toDb, S) /\ ~(Has(toDb, S) /\ m \in S) => Ones(toDb \o <<m>>, S)
        /\ \A S, T : Before(toDb, S, T) /\ m \notin S => Before(toDb \o <<m>>, S, T)
    BY <2>1, WiresAre, QueueSent
  <2> QED  BY <2>1, <2>2, <2>3
<1> QED  BY <1>1, <1>2 DEF Begins

LEMMA OpeningBegun ==
  ASSUME TypeOK, [Next]_vars, NEW o \in Bots, Opening(o), Begins("create") PROVE Opening(o)'
<1>1. PICK p \in Owners, m \in Requests :
           /\ m.op = "create" /\ m.owner = p /\ req[p] = NoRequest /\ cst[p] # "open"
           /\ Begin(p, "create", None)
           /\ \A S : (\A g \in S : g.op # "getyang") =>
                /\ Has(toDb', S) <=> Has(toDb, S) \/ m \in S
                /\ Ones(toDb, S) /\ ~(Has(toDb, S) /\ m \in S) => Ones(toDb', S)
           /\ UNCHANGED <<cst, cprice, dst, dprice, toCore, sql>>
  BY Opens
<1>2. p \in Bots  BY BotsAssumption
<1>3. \A g \in Creates(o) : g.op # "getyang"  BY DEF Creates
<1>4. /\ Has(toDb', Creates(o)) <=> Has(toDb, Creates(o)) \/ m \in Creates(o)
      /\ Ones(toDb, Creates(o)) /\ ~(Has(toDb, Creates(o)) /\ m \in Creates(o)) => Ones(toDb', Creates(o))
  BY <1>1, <1>3
<1>5. m \in Creates(o) <=> p = o  BY <1>1 DEF Creates
<1>6. PeopleOK  BY DEF TypeOK
<1>7. req'[p] = <<"create", None>> /\ (o # p => req'[o] = req[o])
  <2>1. <<"create", None>> # NoRequest  BY DEF NoRequest
  <2> QED  BY <1>1, <1>2, <1>6, <2>1, EntryBegun
<1>8. NoRequest # <<"create", None>>  BY DEF NoRequest
<1>9. p = o => ~Has(toDb, Creates(o)) /\ ~Has(sql, Creations(o)) /\ ~Has(toCore, Createds(o))
  BY <1>1, <1>8 DEF Opening
<1> QED  BY <1>1, <1>4, <1>5, <1>7, <1>9 DEF Opening

\* The db core has no open shop for a new one to be refused for.
LEMMA CreateTaken ==
  ASSUME TypeOK, DbCreate, \A o \in Bots : Opening(o) /\ Mirrored(o)
  PROVE  LET m == Head(toDb)
         IN  /\ m \in Requests /\ m \in Queries /\ m.op = "create" /\ m.owner \in Bots
             /\ m.lines \in [Items -> Nat] /\ dst[m.owner] # "open"
             /\ sql' = sql \o <<m>> /\ toDb # <<>> /\ toDb' = Tail(toDb)
             /\ UNCHANGED <<cst, cprice, dst, dprice, toCore, req>>
<1> DEFINE m == Head(toDb)
<1>1. m \in Requests /\ m.op = "create" /\ m \in Queries /\ m.owner \in Bots /\ m.lines \in [Items -> Nat]
  BY DbTakes, RequestShapes DEF TypeOK, DbCreate
<1>2. toDb # <<>> /\ toDb' = Tail(toDb) /\ UNCHANGED <<cst, cprice, dst, dprice, toCore, req>>
  BY DEF DbCreate, AtDb, TakenByDb, people, core, dshops
<1>3. m \in Creates(m.owner)  BY <1>1 DEF Creates
<1>4. Has(toDb, Creates(m.owner))  BY <1>2, <1>3, WiresAre, QueueTaken
<1>5. ~Has(toCore, Createds(m.owner)) /\ cst[m.owner] # "open" /\ Mirrored(m.owner)
  BY <1>1, <1>4 DEF Opening
<1>6. dst[m.owner] # "open"  BY <1>1, <1>5, NotYetOpen
<1>7. sql' = Append(sql, m)  BY <1>6 DEF DbCreate
<1>8. sql \in Seq(Queries)  BY WiresAre
<1> HIDE DEF m
<1>9. Append(sql, m) = sql \o <<m>>  BY <1>1, <1>8
<1> QED  BY <1>1, <1>2, <1>6, <1>7, <1>9 DEF m

LEMMA OpeningQueried ==
  ASSUME TypeOK, DbCreate, \A p \in Bots : Opening(p) /\ Mirrored(p), NEW o \in Bots
  PROVE  Opening(o)'
<1> DEFINE m == Head(toDb)
<1>1. /\ m \in Requests /\ m \in Queries /\ m.op = "create" /\ m.owner \in Bots
      /\ sql' = sql \o <<m>> /\ toDb # <<>> /\ toDb' = Tail(toDb)
      /\ UNCHANGED <<cst, toCore, req>>
  BY CreateTaken
<1>2. (m \in Creates(o) <=> m.owner = o) /\ (m \in Creations(o) <=> m.owner = o)
  BY <1>1 DEF Creates, Creations
<1>3. /\ \A S : Has(toDb, S) <=> m \in S \/ Has(toDb', S)
      /\ \A S : Ones(toDb, S) => Ones(toDb', S) /\ ~(m \in S /\ Has(toDb', S))
  BY <1>1, WiresAre, QueueTaken
<1>4. /\ \A S : Has(sql', S) <=> Has(sql, S) \/ m \in S
      /\ \A S : Ones(sql, S) /\ ~(Has(sql, S) /\ m \in S) => Ones(sql', S)
  BY <1>1, WiresAre, QueueSent
<1> HIDE DEF m
<1>5. Opening(o)  OBVIOUS
<1> QED  BY <1>1, <1>2, <1>3, <1>4, <1>5 DEF Opening

LEMMA OpeningDone ==
  ASSUME TypeOK, CreateDone, NEW o \in Bots, Opening(o) PROVE Opening(o)'
<1> DEFINE m == Head(sql)
           p == [m EXCEPT !.op = "put"]
           a == [op |-> "created", owner |-> m.owner, lines |-> m.lines]
<1>1. /\ m \in Queries /\ m.op = "create" /\ m.owner \in Bots /\ m.lines \in [Items -> Nat]
      /\ p.op = "put"
      /\ \A S : Has(sql, S) <=> m \in S \/ Has(Tail(sql), S)
      /\ \A S : Ones(sql, S) => Ones(Tail(sql), S) /\ ~(m \in S /\ Has(Tail(sql), S))
      /\ \A S : Has(sql', S) <=> Has(Tail(sql), S) \/ (m.lines # NoLines /\ p \in S)
      /\ \A S : Ones(Tail(sql), S) /\ ~(Has(Tail(sql), S) /\ p \in S) => Ones(sql', S)
  BY CreateQueried
<1>2. a \in Answers /\ a.op = "created" /\ a.owner = m.owner  BY <1>1 DEF Answers, Stocking
<1>3. toCore' = toCore \o <<a>> /\ UNCHANGED <<toDb, req, cst>>
  BY DEF CreateDone, ToCore, people, core
<1>4. (m \in Creations(o) <=> m.owner = o) /\ p \notin Creations(o) /\ (a \in Createds(o) <=> m.owner = o)
  BY <1>1, <1>2 DEF Creations, Createds
<1> HIDE DEF m, p, a
<1>5. /\ \A S : Has(toCore', S) <=> Has(toCore, S) \/ a \in S
      /\ \A S : Ones(toCore, S) /\ ~(Has(toCore, S) /\ a \in S) => Ones(toCore', S)
  BY <1>2, <1>3, WiresAre, QueueSent
<1> QED  BY <1>1, <1>3, <1>4, <1>5 DEF Opening

LEMMA OpeningOver ==
  ASSUME TypeOK, CoreCreated, NEW o \in Bots, Opening(o) PROVE Opening(o)'
<1> DEFINE m == Head(toCore)
<1>1. m \in Answers /\ m.op = "created" /\ m.owner \in Bots
  BY CoreTakes, AnswerShapes DEF TypeOK, CoreCreated
<1>2. toCore # <<>> /\ toCore' = Tail(toCore) /\ UNCHANGED <<toDb, sql>>
  BY DEF CoreCreated, AtCore, TakenByCore
<1>3. cst' = [cst EXCEPT ![m.owner] = "open"] /\ Complete(m.owner, "create", None)
  BY DEF CoreCreated
<1>4. m \in Createds(o) <=> m.owner = o  BY <1>1 DEF Createds
<1>5. /\ \A S : Has(toCore, S) <=> m \in S \/ Has(toCore', S)
      /\ \A S : Ones(toCore, S) => Ones(toCore', S) /\ ~(m \in S /\ Has(toCore', S))
  BY <1>2, WiresAre, QueueTaken
<1> HIDE DEF m
<1>6. PeopleOK /\ cst \in [Bots -> {"none", "closed", "open"}]  BY DEF TypeOK, MirrorOK
<1>7. o # m.owner => cst'[o] = cst[o]  BY <1>1, <1>3, <1>6
<1>8. (o = m.owner => req'[o] # <<"create", None>>) /\ (o # m.owner => req'[o] = req[o])
  <2> DEFINE e == <<"create", None>>
  <2>1. e # NoRequest  BY DEF NoRequest
  <2>2. DOMAIN req = Bots  BY <1>6 DEF PeopleOK
  <2>3. Complete(m.owner, "create", None) => req'[m.owner] # e
    BY <1>1, <2>1, <2>2 DEF Complete
  <2>4. Complete(m.owner, "create", None) /\ o # m.owner => req'[o] = req[o]
    BY <1>1, <2>2 DEF Complete
  <2> HIDE DEF e
  <2>5. (o = m.owner => req'[o] # e) /\ (o # m.owner => req'[o] = req[o])
    BY <1>3, <2>3, <2>4
  <2> QED  BY <2>5 DEF e
<1>9. CASE o = m.owner
  <2>1. ~Has(toDb, Creates(o)) /\ ~Has(sql, Creations(o))  BY <1>4, <1>5, <1>9 DEF Opening
  <2>2. ~Has(toCore', Createds(o)) /\ Ones(toCore', Createds(o))  BY <1>4, <1>5, <1>9 DEF Opening
  <2> QED  BY <1>2, <1>8, <1>9, <2>1, <2>2 DEF Opening
<1>10. CASE o # m.owner  BY <1>2, <1>4, <1>5, <1>7, <1>8, <1>10 DEF Opening
<1> QED  BY <1>9, <1>10

LEMMA OpeningStep ==
  ASSUME TypeOK, [Next]_vars, \A p \in Bots : Opening(p) /\ Mirrored(p), NEW o \in Bots
  PROVE  Opening(o)'
  BY OpeningAside, OpeningBegun, OpeningQueried, OpeningDone, OpeningOver

-----------------------------------------------------------------------------
(* A new shop's lines, from the request to the shelf, and the closing of   *)
(* the shop: the lines go to a shop that is not there yet and will not be  *)
(* closed before they are stored.                                          *)

Offers(o) == {m \in Creates(o) : m.lines # NoLines}
OfferQueries(o) == {m \in Creations(o) : m.lines # NoLines}
Openings(o) == {m \in Createds(o) : m.lines # NoLines}
Announced(o, i) == {m \in Createds(o) : m.lines[i] > 0}
Stockings(o) == {m \in Queries : m.op = "put" /\ m.owner = o /\ m.lines # NoLines}
Closings(o) == {m \in Requests : m.op = "hardclose" /\ m.owner = o}

\* New lines go to no shop that is there.
Unseen(o) ==
  Has(toDb, Offers(o)) \/ Has(sql, OfferQueries(o)) \/ Has(toCore, Openings(o)) => cst[o] = "none"
\* A closing is handled before the next new shop is.
ClosedBefore(o) ==
  /\ Before(toDb, Closings(o), Offers(o))
  /\ Has(sql, OfferQueries(o)) => ~Has(toDb, Closings(o))
\* The shop whose lines are being stored is there, and stays.
KeptOpen(o) ==
  Has(sql, Stockings(o)) => dst[o] # "none" /\ ~Has(toDb, Closings(o)) /\ ~Has(toCore, Closeds(o))
\* The core shows them, or will.
ShownSoon(o) ==
  \A i \in Items : Has(sql, Puts(o, i)) => cprice[o][i] > 0 \/ Has(toCore, Announced(o, i))
NoneEmpty(o) == dst[o] = "none" => dprice[o] = NoLines

Shelving(o) ==
  /\ Unseen(o) /\ ClosedBefore(o) /\ KeptOpen(o) /\ ShownSoon(o)
  /\ Ones(sql, Stockings(o)) /\ NoneEmpty(o)

LEMMA LineThere ==
  ASSUME NEW f \in [Items -> Nat]
  PROVE  (f # NoLines <=> \E i \in Items : f[i] > 0) /\ (f = NoLines <=> \A i \in Items : f[i] = 0)
<1>1. (\A i \in Items : f[i] = 0) => f = NoLines  BY DEF NoLines
<1>2. f = NoLines => \A i \in Items : f[i] = 0  BY DEF NoLines
<1>3. \A i \in Items : f[i] \in Nat  OBVIOUS
<1> QED  BY <1>1, <1>2, <1>3

LEMMA PutsAre ==
  ASSUME NEW o, NEW i \in Items
  PROVE  /\ Puts(o, i) \subseteq Stockings(o) /\ Puts(o, i) \subseteq QueriesWith(i)
         /\ Announced(o, i) \subseteq Openings(o)
<1>1. \A m \in Queries : m.op = "put" => m.lines \in [Items -> Nat]  BY QueryShapes
<1>2. \A m \in Answers : m.op = "created" => m.lines \in [Items -> Nat]  BY AnswerShapes
<1> QED  BY <1>1, <1>2, LineThere DEF Puts, Stockings, QueriesWith, Announced, Openings, Createds

LEMMA HasMore ==
  ASSUME NEW q, NEW S, NEW T, S \subseteq T, Has(q, S) PROVE Has(q, T)
  BY DEF Has

\* What is on its way changes with those who handle it.
LEMMA OffersStay ==
  ASSUME TypeOK, [Next]_vars, NEW o
  PROVE  /\ ~DbCreate /\ ~Begins("create") => (Has(toDb', Offers(o)) <=> Has(toDb, Offers(o)))
         /\ ~DbCreate /\ ~CreateDone => (Has(sql', OfferQueries(o)) <=> Has(sql, OfferQueries(o)))
         /\ ~CreateDone /\ ~CoreCreated =>
              /\ Has(toCore', Openings(o)) <=> Has(toCore, Openings(o))
              /\ \A i \in Items : Has(toCore', Announced(o, i)) <=> Has(toCore, Announced(o, i))
         /\ ~CreateDone /\ ~PutDone =>
              /\ Has(sql', Stockings(o)) <=> Has(sql, Stockings(o))
              /\ Ones(sql, Stockings(o)) => Ones(sql', Stockings(o))
              /\ \A i \in Items : Has(sql', Puts(o, i)) <=> Has(sql, Puts(o, i))
         /\ ~DbHardClose /\ ~(\E room \in BOOLEAN : CoreRemoved(room) \/ CoreSold(room)) =>
              (Has(toDb', Closings(o)) <=> Has(toDb, Closings(o)))
         /\ ~DbHardClose /\ ~CoreClosed => (Has(toCore', Closeds(o)) <=> Has(toCore, Closeds(o)))
         /\ /\ ~DbHardClose /\ ~(\E room \in BOOLEAN : CoreRemoved(room) \/ CoreSold(room))
            /\ ~DbCreate /\ ~Begins("create")
            => (Before(toDb, Closings(o), Offers(o)) => Before(toDb', Closings(o), Offers(o)))
<1>1. PICK d, c : Wires(d, c)  BY StepWires
<1>2. "create" \notin d => Offers(o) \in SUBSET But(Requests, d)  BY DEF Offers, Creates, But
<1>3. "created" \notin c => /\ Openings(o) \in SUBSET But(Answers, c)
                            /\ \A i \in Items : Announced(o, i) \in SUBSET But(Answers, c)
  BY DEF Openings, Announced, Createds, But
<1>4. "hardclose" \notin d => Closings(o) \in SUBSET But(Requests, d)  BY DEF Closings, But
<1>5. "closed" \notin c => Closeds(o) \in SUBSET But(Answers, c)  BY DEF Closeds, But
<1>6. ~DbCreate /\ ~Begins("create") => "create" \notin d  BY <1>1 DEF Wires, DbReasons, Begins
<1>7. ~CreateDone /\ ~CoreCreated => "created" \notin c  BY <1>1 DEF Wires, CoreReasons
<1>8. ~DbHardClose /\ ~(\E room \in BOOLEAN : CoreRemoved(room) \/ CoreSold(room)) => "hardclose" \notin d
  BY <1>1 DEF Wires, DbReasons
<1>9. ~DbHardClose /\ ~CoreClosed => "closed" \notin c  BY <1>1 DEF Wires, CoreReasons
<1>10. ~DbCreate /\ ~CreateDone => (Has(sql', OfferQueries(o)) <=> Has(sql, OfferQueries(o)))
  <2>1. ~DbCreate /\ ~CreateDone => \A m \in OfferQueries(o) : ~Querying(m.op)
    BY DEF OfferQueries, Creations, Querying
  <2> QED  BY <2>1, QueriesAside
<1>11. ~CreateDone /\ ~PutDone =>
              /\ Has(sql', Stockings(o)) <=> Has(sql, Stockings(o))
              /\ Ones(sql, Stockings(o)) => Ones(sql', Stockings(o))
              /\ \A i \in Items : Has(sql', Puts(o, i)) <=> Has(sql, Puts(o, i))
  <2>1. ~CreateDone /\ ~PutDone =>
          (\A m \in Stockings(o) : ~Querying(m.op)) /\ \A i \in Items : \A m \in Puts(o, i) : ~Querying(m.op)
    BY DEF Stockings, Puts, Querying
  <2> QED  BY <2>1, QueriesAside
<1>12. "create" \notin d => (Has(toDb', Offers(o)) <=> Has(toDb, Offers(o)))
  BY <1>1, <1>2, WiresStay
<1>13. "created" \notin c =>
         /\ Has(toCore', Openings(o)) <=> Has(toCore, Openings(o))
         /\ \A i \in Items : Has(toCore', Announced(o, i)) <=> Has(toCore, Announced(o, i))
  BY <1>1, <1>3, WiresStay
<1>14. "hardclose" \notin d => (Has(toDb', Closings(o)) <=> Has(toDb, Closings(o)))
  BY <1>1, <1>4, WiresStay
<1>15. "closed" \notin c => (Has(toCore', Closeds(o)) <=> Has(toCore, Closeds(o)))
  BY <1>1, <1>5, WiresStay
<1>16. "create" \notin d /\ "hardclose" \notin d =>
         (Before(toDb, Closings(o), Offers(o)) => Before(toDb', Closings(o), Offers(o)))
  BY <1>1, <1>2, <1>4, WiresStay
<1> QED
  BY <1>6, <1>7, <1>8, <1>9, <1>10, <1>11, <1>12, <1>13, <1>14, <1>15, <1>16

\* A shop of the db core that is not there is empty.
LEMMA NoneEmptyStep ==
  ASSUME TypeOK, [Next]_vars, NEW o \in Bots, NoneEmpty(o) PROVE NoneEmpty(o)'
<1>0. ShopsOK /\ ShopsOK'  BY StepsTyped DEF TypeOK
<1>1. ASSUME dst[o] = "none", dst'[o] = "none" PROVE dprice'[o] = NoLines
  <2>1. dprice[o] = NoLines  BY <1>1 DEF NoneEmpty
  <2>2. ASSUME NEW p \in Bots, NEW i \in Items, NEW x, dst[p] # "none",
               dprice' = [dprice EXCEPT ![p] = [@ EXCEPT ![i] = x]]
        PROVE  dprice'[o] = dprice[o]
    BY <1>0, <1>1, <2>2 DEF ShopsOK
  <2>3. CASE DbEdit
    <3>1. Head(toDb).owner \in Bots /\ Head(toDb).item \in Items
      BY <2>3, DbTakes, RequestShapes DEF TypeOK, DbEdit
    <3> QED  BY <2>1, <2>2, <2>3, <3>1 DEF DbEdit, Editable, Repriced, HasLine
  <2>4. CASE DbRemove
    <3>1. Head(toDb).owner \in Bots /\ Head(toDb).item \in Items
      BY <2>4, DbTakes, RequestShapes DEF TypeOK, DbRemove
    <3> QED  BY <2>1, <2>2, <2>4, <3>1 DEF DbRemove, HasLine
  <2>5. CASE DbBuy
    <3>1. Head(toDb).owner \in Bots /\ Head(toDb).item \in Items
      BY <2>5, DbTakes, RequestShapes DEF TypeOK, DbBuy
    <3> QED  BY <2>1, <2>2, <2>5, <3>1 DEF DbBuy, HasLine
  <2>6. CASE PutDone
    <3>1. Head(sql).owner \in Bots /\ \E i \in Items : Put(Head(sql).owner, i, Head(sql).lines[i])
      BY <2>6, PutQueried
    <3> QED  BY <2>1, <2>2, <3>1 DEF Put
  <2>7. CASE AddDone
    <3>1. Head(sql).owner \in Bots /\ Head(sql).item \in Items
      BY <2>7, SqlTakes, QueryShapes DEF TypeOK, AddDone
    <3> QED  BY <2>1, <2>2, <2>7, <3>1 DEF AddDone, Put
  <2>8. CASE ~DbEdit /\ ~DbRemove /\ ~DbBuy /\ ~PutDone /\ ~AddDone  BY <2>1, <2>8, PricesStay
  <2> QED  BY <2>3, <2>4, <2>5, <2>6, <2>7, <2>8
<1>2. ASSUME dst[o] # "none", dst'[o] = "none" PROVE dprice'[o] = NoLines
  <2>1. CASE DbHardClose
    <3>1. Head(toDb).owner \in Bots  BY <2>1, DbTakes, RequestShapes DEF TypeOK, DbHardClose
    <3> QED  BY <1>0, <1>2, <2>1, <3>1 DEF DbHardClose, ShopsOK
  <2>2. CASE CreateDone
    <3>1. Head(sql).owner \in Bots  BY <2>2, CreateQueried
    <3> QED  BY <1>0, <1>2, <2>2, <3>1 DEF CreateDone, ShopsOK
  <2>3. CASE \E p \in Owners : Expire(p)
    BY <1>0, <1>2, <2>3, BotsAssumption DEF Expire, ShopsOK
  <2>4. CASE ~DbHardClose /\ ~CreateDone /\ ~\E p \in Owners : Expire(p)  BY <1>2, <2>4, ShopsStay
  <2> QED  BY <2>1, <2>2, <2>3, <2>4
<1> QED  BY <1>1, <1>2 DEF NoneEmpty

Gone == \E room \in BOOLEAN : CoreRemoved(room) \/ CoreSold(room)

LEMMA NoneStays ==
  ASSUME TypeOK, [Next]_vars, ~CoreCreated, NEW o \in Bots, cst[o] = "none" PROVE cst'[o] = "none"
<1>1. cst \in [Bots -> {"none", "closed", "open"}]  BY DEF TypeOK, MirrorOK
<1>2. CASE CoreClosed  BY <1>1, <1>2 DEF CoreClosed
<1>3. CASE CoreExpired  BY <1>1, <1>3 DEF CoreExpired
<1>4. CASE ~CoreClosed /\ ~CoreExpired  BY <1>4, StatesStay
<1> QED  BY <1>2, <1>3, <1>4

LEMMA ThereStays ==
  ASSUME TypeOK, [Next]_vars, ~DbHardClose, NEW o \in Bots, dst[o] # "none" PROVE dst'[o] # "none"
<1>1. dst \in [Bots -> {"none", "closed", "open"}]  BY DEF TypeOK, ShopsOK
<1>2. CASE CreateDone  BY <1>1, <1>2 DEF CreateDone
<1>3. CASE \E p \in Owners : Expire(p)  BY <1>1, <1>3 DEF Expire
<1>4. CASE ~CreateDone /\ ~\E p \in Owners : Expire(p)  BY <1>4, ShopsStay
<1> QED  BY <1>2, <1>3, <1>4

LEMMA LineKept ==
  ASSUME TypeOK, [Next]_vars, ~CoreClosed, ~Gone, NEW o \in Bots, NEW i \in Items, cprice[o][i] > 0
  PROVE  cprice'[o][i] > 0
<1> DEFINE m == Head(toCore)
<1>1. cprice \in [Bots -> [Items -> Nat]]  BY DEF TypeOK, MirrorOK
<1>2. ASSUME NEW op \in {"created", "added", "edited"}, AtCore(op)
      PROVE  m.owner \in Bots /\ (op = "created" => m.lines \in [Items -> Nat])
             /\ (op # "created" => m.item \in Items /\ m.price > 0)
  BY <1>2, CoreTakes, AnswerShapes DEF TypeOK
<1>3. CASE CoreCreated
  <2>1. m.owner \in Bots /\ m.lines \in [Items -> Nat]  BY <1>2, <1>3 DEF CoreCreated
  <2>2. cprice' = [cprice EXCEPT ![m.owner] =
                         [j \in Items |-> IF m.lines[j] > 0 THEN m.lines[j] ELSE @[j]]]
    BY <1>3 DEF CoreCreated
  <2> HIDE DEF m
  <2>3. CASE m.owner = o
    <3>1. cprice'[o] = [j \in Items |-> IF m.lines[j] > 0 THEN m.lines[j] ELSE cprice[o][j]]
      BY <1>1, <2>2, <2>3
    <3>2. cprice'[o][i] = IF m.lines[i] > 0 THEN m.lines[i] ELSE cprice[o][i]  BY <3>1
    <3> QED  BY <3>2
  <2>4. CASE m.owner # o  BY <1>1, <2>2, <2>4
  <2> QED  BY <2>3, <2>4
<1>4. CASE CoreAdded
  <2>1. m.owner \in Bots /\ m.item \in Items /\ m.price > 0  BY <1>2, <1>4 DEF CoreAdded
  <2>2. cprice' = cprice \/ cprice' = [cprice EXCEPT ![m.owner] = [@ EXCEPT ![m.item] = m.price]]
    BY <1>4 DEF CoreAdded
  <2> HIDE DEF m
  <2> QED  BY <1>1, <2>1, <2>2
<1>5. CASE CoreEdited
  <2>1. m.owner \in Bots /\ m.item \in Items /\ m.price > 0  BY <1>2, <1>5 DEF CoreEdited
  <2>2. cprice' = cprice \/ cprice' = [cprice EXCEPT ![m.owner] = [@ EXCEPT ![m.item] = m.price]]
    BY <1>5 DEF CoreEdited
  <2> HIDE DEF m
  <2> QED  BY <1>1, <2>1, <2>2
<1>6. CASE ~CoreCreated /\ ~CoreAdded /\ ~CoreEdited  BY <1>6, LinesStay DEF Gone
<1> QED  BY <1>3, <1>4, <1>5, <1>6

LEMMA ShelvingAside ==
  ASSUME TypeOK, [Next]_vars, NEW o \in Bots, Shelving(o),
         ~DbCreate, ~CreateDone, ~PutDone, ~CoreCreated, ~CoreClosed, ~Begins("create"),
         ~DbHardClose, ~Gone
  PROVE  Shelving(o)'
<1>1. Unseen(o)'  BY NoneStays, OffersStay DEF Shelving, Unseen
<1>2. ClosedBefore(o)'  BY OffersStay DEF Shelving, ClosedBefore, Gone
<1>3. KeptOpen(o)'  BY ThereStays, OffersStay DEF Shelving, KeptOpen, Gone
<1>4. ShownSoon(o)'  BY LineKept, OffersStay DEF Shelving, ShownSoon
<1>5. Ones(sql', Stockings(o))  BY OffersStay DEF Shelving
<1>6. NoneEmpty(o)'  BY NoneEmptyStep DEF Shelving
<1> QED  BY <1>1, <1>2, <1>3, <1>4, <1>5, <1>6 DEF Shelving

LEMMA ShelvingBegun ==
  ASSUME TypeOK, [Next]_vars, NEW o \in Bots, Shelving(o), Begins("create")
  PROVE  Shelving(o)'
<1>1. PICK p \in Owners, m \in Requests :
           /\ m.op = "create" /\ m.owner = p
           /\ m.lines = NoLines \/ cst[p] = "none"
           /\ \A S : (\A g \in S : g.op # "getyang") =>
                /\ Has(toDb', S) <=> Has(toDb, S) \/ m \in S
           /\ \A S, T : (\A g \in S \cup T : g.op # "getyang") /\ Before(toDb, S, T) =>
                /\ m \notin S => Before(toDb', S, T)
           /\ UNCHANGED <<cst, cprice, dst, dprice, toCore, sql>>
  BY Opens
<1>2. (\A g \in Offers(o) : g.op # "getyang") /\ (\A g \in Closings(o) : g.op # "getyang")
  BY DEF Offers, Creates, Closings
<1>3. m \notin Closings(o) /\ (m \in Offers(o) => cst[o] = "none")
  BY <1>1 DEF Offers, Creates, Closings
<1>4. Has(toDb', Offers(o)) <=> Has(toDb, Offers(o)) \/ m \in Offers(o)  BY <1>1, <1>2
<1>5. Has(toDb', Closings(o)) <=> Has(toDb, Closings(o))  BY <1>1, <1>2, <1>3
<1>6. Before(toDb, Closings(o), Offers(o)) => Before(toDb', Closings(o), Offers(o))
  <2>1. \A g \in Closings(o) \cup Offers(o) : g.op # "getyang"  BY <1>2
  <2> QED  BY <1>1, <1>3, <2>1
<1>7. Unseen(o)'  BY <1>1, <1>3, <1>4 DEF Shelving, Unseen
<1>8. ClosedBefore(o)'  BY <1>1, <1>5, <1>6 DEF Shelving, ClosedBefore
<1>9. KeptOpen(o)'  BY <1>1, <1>5 DEF Shelving, KeptOpen
<1>10. ShownSoon(o)' /\ Ones(sql', Stockings(o)) /\ NoneEmpty(o)'
  BY <1>1 DEF Shelving, ShownSoon, NoneEmpty
<1> QED  BY <1>7, <1>8, <1>9, <1>10 DEF Shelving

LEMMA ShelvingQueried ==
  ASSUME TypeOK, DbCreate, \A p \in Bots : Opening(p) /\ Mirrored(p), NEW o \in Bots, Shelving(o)
  PROVE  Shelving(o)'
<1> DEFINE m == Head(toDb)
<1>1. /\ m \in Requests /\ m \in Queries /\ m.op = "create"
      /\ sql' = sql \o <<m>> /\ toDb # <<>> /\ toDb' = Tail(toDb)
      /\ UNCHANGED <<cst, cprice, dst, dprice, toCore>>
  BY CreateTaken
<1>2. /\ m \in OfferQueries(o) <=> m \in Offers(o)
      /\ m \notin Closings(o) /\ m \notin Stockings(o) /\ \A i \in Items : m \notin Puts(o, i)
  BY <1>1 DEF Offers, Creates, OfferQueries, Creations, Closings, Stockings, Puts
<1>3. /\ \A S : Has(toDb, S) <=> m \in S \/ Has(toDb', S)
      /\ \A S, T : Before(toDb, S, T) => Before(toDb', S, T) /\ (m \in T => ~Has(toDb, S))
  BY <1>1, WiresAre, QueueTaken
<1>4. /\ \A S : Has(sql', S) <=> Has(sql, S) \/ m \in S
      /\ \A S : Ones(sql, S) /\ ~(Has(sql, S) /\ m \in S) => Ones(sql', S)
  BY <1>1, WiresAre, QueueSent
<1> HIDE DEF m
<1>5. Unseen(o)'  BY <1>1, <1>2, <1>3, <1>4 DEF Shelving, Unseen
<1>6. ClosedBefore(o)'  BY <1>1, <1>2, <1>3, <1>4 DEF Shelving, ClosedBefore
<1>7. KeptOpen(o)'  BY <1>1, <1>2, <1>3, <1>4 DEF Shelving, KeptOpen
<1>8. ShownSoon(o)' /\ Ones(sql', Stockings(o)) /\ NoneEmpty(o)'
  BY <1>1, <1>2, <1>4 DEF Shelving, ShownSoon, NoneEmpty
<1> QED  BY <1>5, <1>6, <1>7, <1>8 DEF Shelving

LEMMA ShelvingDone ==
  ASSUME TypeOK, [Next]_vars, CreateDone, NEW o \in Bots, Opening(o), Mirrored(o), Shelving(o)
  PROVE  Shelving(o)'
<1> DEFINE m == Head(sql)
           p == [m EXCEPT !.op = "put"]
           a == [op |-> "created", owner |-> m.owner, lines |-> m.lines]
<1>1. /\ m \in Queries /\ m.op = "create" /\ m.owner \in Bots /\ m.lines \in [Items -> Nat]
      /\ p \in Queries /\ p.op = "put" /\ p.owner = m.owner /\ p.lines = m.lines
      /\ \A S : Has(sql, S) <=> m \in S \/ Has(Tail(sql), S)
      /\ \A S : Ones(sql, S) => Ones(Tail(sql), S) /\ ~(m \in S /\ Has(Tail(sql), S))
      /\ \A S : Has(sql', S) <=> Has(Tail(sql), S) \/ (m.lines # NoLines /\ p \in S)
      /\ \A S : Ones(Tail(sql), S) /\ ~(Has(Tail(sql), S) /\ p \in S) => Ones(sql', S)
  BY CreateQueried
<1>2. a \in Answers /\ a.op = "created" /\ a.owner = m.owner /\ a.lines = m.lines
  BY <1>1 DEF Answers, Stocking
<1>3. toCore' = toCore \o <<a>> /\ UNCHANGED <<toDb, cst, cprice, dprice>>
      /\ dst' = [dst EXCEPT ![m.owner] = "open"]
  BY DEF CreateDone, ToCore, people, core
<1>4. \A S : Has(toCore', S) <=> Has(toCore, S) \/ a \in S
  BY <1>2, <1>3, WiresAre, QueueSent
<1>5. dst \in [Bots -> {"none", "closed", "open"}]  BY DEF TypeOK, ShopsOK
<1> HIDE DEF m, p, a
<1>6. /\ p \notin OfferQueries(o) /\ a \notin Closeds(o) /\ m \notin Stockings(o)
      /\ (a \in Openings(o) <=> m \in OfferQueries(o))
      /\ (m.lines # NoLines /\ p \in Stockings(o) <=> m \in OfferQueries(o))
      /\ \A i \in Items : m \notin Puts(o, i) /\ (p \in Puts(o, i) => a \in Announced(o, i))
  BY <1>1, <1>2 DEF OfferQueries, Creations, Closeds, Openings, Createds, Stockings, Puts, Announced
<1>7. Unseen(o)'
  <2>1. Has(sql', OfferQueries(o)) => Has(sql, OfferQueries(o))  BY <1>1, <1>6
  <2>2. Has(toCore', Openings(o)) => Has(toCore, Openings(o)) \/ Has(sql, OfferQueries(o))
    BY <1>1, <1>4, <1>6
  <2> QED  BY <1>3, <2>1, <2>2 DEF Shelving, Unseen
<1>8. ClosedBefore(o)'
  <2>1. Has(sql', OfferQueries(o)) => Has(sql, OfferQueries(o))  BY <1>1, <1>6
  <2> QED  BY <1>3, <2>1 DEF Shelving, ClosedBefore
<1>9. m \in OfferQueries(o) => /\ dst[o] = "none" /\ ~Has(toDb, Closings(o)) /\ ~Has(toCore, Closeds(o))
                               /\ ~Has(sql, Stockings(o)) /\ m.owner = o
  <2>1. SUFFICES ASSUME m \in OfferQueries(o)
                 PROVE  /\ dst[o] = "none" /\ ~Has(toDb, Closings(o)) /\ ~Has(toCore, Closeds(o))
                        /\ ~Has(sql, Stockings(o)) /\ m.owner = o
    OBVIOUS
  <2>2. Has(sql, OfferQueries(o)) /\ m \in Creations(o) /\ m.owner = o  BY <1>1, <2>1 DEF OfferQueries, Creations
  <2>3. cst[o] = "none" /\ ~Has(toDb, Closings(o))
    BY <2>2 DEF Shelving, Unseen, ClosedBefore
  <2>4. ~Has(toCore, Createds(o))  BY <1>1, <2>2 DEF Opening
  <2>5. dst[o] = "none" /\ ~Has(toCore, Closeds(o))  BY <2>3, <2>4, NotYetThere
  <2>6. ~Has(sql, Stockings(o))  BY <2>5 DEF Shelving, KeptOpen
  <2> QED  BY <2>2, <2>3, <2>5, <2>6
<1>10. KeptOpen(o)'
  <2>1. Has(sql', Stockings(o)) => m \in OfferQueries(o) \/ Has(sql, Stockings(o))  BY <1>1, <1>6
  <2>2. Has(toCore', Closeds(o)) <=> Has(toCore, Closeds(o))  BY <1>4, <1>6
  <2>3. dst'[o] = "open" \/ dst'[o] = dst[o]  BY <1>3, <1>5
  <2>4. m.owner = o => dst'[o] = "open"  BY <1>3, <1>5
  <2> QED  BY <1>3, <1>9, <2>1, <2>2, <2>3, <2>4 DEF Shelving, KeptOpen
<1>11. ShownSoon(o)'
  <2> SUFFICES ASSUME NEW i \in Items, Has(sql', Puts(o, i))
               PROVE  cprice[o][i] > 0 \/ Has(toCore', Announced(o, i))
    BY <1>3 DEF ShownSoon
  <2>1. Has(sql, Puts(o, i)) \/ a \in Announced(o, i)  BY <1>1, <1>6
  <2> QED  BY <1>4, <2>1 DEF Shelving, ShownSoon
<1>12. Ones(sql', Stockings(o))
  <2>1. Ones(Tail(sql), Stockings(o))  BY <1>1 DEF Shelving
  <2>2. m \in OfferQueries(o) => ~Has(Tail(sql), Stockings(o))  BY <1>1, <1>9
  <2>3. CASE m.lines = NoLines
    <3>1. sql' = Tail(sql)  BY <2>3 DEF CreateDone, m
    <3> QED  BY <2>1, <3>1
  <2>4. CASE m.lines # NoLines  BY <1>1, <1>6, <2>1, <2>2, <2>4
  <2> QED  BY <2>3, <2>4
<1>13. NoneEmpty(o)'  BY NoneEmptyStep DEF Shelving
<1> QED  BY <1>7, <1>8, <1>10, <1>11, <1>12, <1>13 DEF Shelving

LEMMA ShelvingStored ==
  ASSUME TypeOK, [Next]_vars, PutDone, NEW o \in Bots, Shelving(o) PROVE Shelving(o)'
<1> DEFINE m == Head(sql)
<1>1. /\ m \in Queries /\ m.op = "put" /\ m.owner \in Bots /\ m.lines \in [Items -> Nat]
      /\ \A S : Has(sql, S) <=> m \in S \/ Has(Tail(sql), S)
      /\ \A S : Ones(sql, S) => Ones(Tail(sql), S) /\ ~(m \in S /\ Has(Tail(sql), S))
  BY PutQueried
<1>2. PICK i \in Items, rest \in [Items -> Nat], p \in Queries :
        /\ m.lines[i] > 0 /\ rest = [m.lines EXCEPT ![i] = 0]
        /\ p.op = "put" /\ p.owner = m.owner /\ p.lines = rest
        /\ \A S : Has(sql', S) <=> (rest # NoLines /\ p \in S) \/ Has(Tail(sql), S)
        /\ \A S : Ones(Tail(sql), S) /\ ~(Has(Tail(sql), S) /\ p \in S) => Ones(sql', S)
  BY PutQueried
<1>3. UNCHANGED <<toDb, toCore, cst, cprice, dst>>  BY DEF PutDone, people, core
<1> HIDE DEF m
<1>4. m.lines # NoLines  BY <1>1, <1>2, LineThere
<1>5. (p \in Stockings(o) => m \in Stockings(o)) /\ p \notin OfferQueries(o) /\ m \notin OfferQueries(o)
  BY <1>1, <1>2, <1>4 DEF Stockings, OfferQueries, Creations
<1>6. \A j \in Items : p \in Puts(o, j) => m \in Puts(o, j)
  <2> SUFFICES ASSUME NEW j \in Items, p \in Puts(o, j) PROVE m \in Puts(o, j)  OBVIOUS
  <2>1. rest[j] > 0 /\ p.owner = o  BY <1>2 DEF Puts
  <2>2. m.lines[j] > 0  BY <1>1, <1>2, <2>1
  <2> QED  BY <1>1, <1>2, <2>1, <2>2 DEF Puts
<1>7. Unseen(o)' /\ ClosedBefore(o)'
  <2>1. Has(sql', OfferQueries(o)) => Has(sql, OfferQueries(o))  BY <1>1, <1>2, <1>5
  <2> QED  BY <1>3, <2>1 DEF Shelving, Unseen, ClosedBefore
<1>8. KeptOpen(o)'
  <2>1. Has(sql', Stockings(o)) => Has(sql, Stockings(o))  BY <1>1, <1>2, <1>5
  <2> QED  BY <1>3, <2>1 DEF Shelving, KeptOpen
<1>9. ShownSoon(o)'
  <2>1. \A j \in Items : Has(sql', Puts(o, j)) => Has(sql, Puts(o, j))  BY <1>1, <1>2, <1>6
  <2> QED  BY <1>3, <2>1 DEF Shelving, ShownSoon
<1>10. Ones(sql', Stockings(o))  BY <1>1, <1>2, <1>5 DEF Shelving
<1>11. NoneEmpty(o)'  BY NoneEmptyStep DEF Shelving
<1> QED  BY <1>7, <1>8, <1>9, <1>10, <1>11 DEF Shelving

LEMMA ShelvingOpened ==
  ASSUME TypeOK, [Next]_vars, CoreCreated, NEW o \in Bots, Opening(o), Shelving(o) PROVE Shelving(o)'
<1> DEFINE m == Head(toCore)
<1>1. m \in Answers /\ m.op = "created" /\ m.owner \in Bots /\ m.lines \in [Items -> Nat]
  BY CoreTakes, AnswerShapes DEF TypeOK, CoreCreated
<1>2. toCore # <<>> /\ toCore' = Tail(toCore) /\ UNCHANGED <<toDb, sql, dst, dprice>>
  BY DEF CoreCreated, AtCore, TakenByCore, dshops
<1>3. cst' = [cst EXCEPT ![m.owner] = "open"]
      /\ cprice' = [cprice EXCEPT ![m.owner] =
                         [i \in Items |-> IF m.lines[i] > 0 THEN m.lines[i] ELSE @[i]]]
  BY DEF CoreCreated
<1>4. /\ \A S : Has(toCore, S) <=> m \in S \/ Has(toCore', S)
      /\ \A S : Ones(toCore, S) => Ones(toCore', S) /\ ~(m \in S /\ Has(toCore', S))
  BY <1>2, WiresAre, QueueTaken
<1>5. ~CoreClosed /\ ~Gone
  BY <1>1 DEF CoreClosed, Gone, CoreRemoved, CoreSold, AtCore
<1> HIDE DEF m
<1>6. MirrorOK  BY DEF TypeOK
<1>7. m \in Createds(o) <=> m.owner = o  BY <1>1 DEF Createds
<1>8. Unseen(o)'
  <2>1. CASE m.owner = o
    <3>1. ~Has(toDb, Creates(o)) /\ ~Has(sql, Creations(o)) /\ ~Has(toCore', Createds(o))
      BY <1>4, <1>7, <2>1 DEF Opening
    <3>2. Offers(o) \subseteq Creates(o) /\ OfferQueries(o) \subseteq Creations(o)
          /\ Openings(o) \subseteq Createds(o)
      BY DEF Offers, OfferQueries, Openings
    <3>3. ~Has(toDb, Offers(o)) /\ ~Has(sql, OfferQueries(o)) /\ ~Has(toCore', Openings(o))
      BY <3>1, <3>2, HasMore
    <3> QED  BY <1>2, <3>3 DEF Unseen
  <2>2. CASE m.owner # o
    <3>1. cst'[o] = cst[o]  BY <1>1, <1>3, <1>6, <2>2 DEF MirrorOK
    <3>2. Has(toCore', Openings(o)) => Has(toCore, Openings(o))  BY <1>4
    <3> QED  BY <1>2, <3>1, <3>2 DEF Shelving, Unseen
  <2> QED  BY <2>1, <2>2
<1>9. ClosedBefore(o)'  BY <1>2 DEF Shelving, ClosedBefore
<1>10. KeptOpen(o)'
  <2>1. Has(toCore', Closeds(o)) => Has(toCore, Closeds(o))  BY <1>4
  <2> QED  BY <1>2, <2>1 DEF Shelving, KeptOpen
<1>11. ShownSoon(o)'
  <2> SUFFICES ASSUME NEW i \in Items, Has(sql, Puts(o, i))
               PROVE  cprice'[o][i] > 0 \/ Has(toCore', Announced(o, i))
    BY <1>2 DEF ShownSoon
  <2>1. cprice[o][i] > 0 \/ m \in Announced(o, i) \/ Has(toCore', Announced(o, i))
    BY <1>4 DEF Shelving, ShownSoon
  <2>2. CASE cprice[o][i] > 0  BY <1>5, <2>2, LineKept
  <2>3. CASE m \in Announced(o, i)
    <3>1. m.owner = o /\ m.lines[i] > 0  BY <2>3 DEF Announced, Createds
    <3>2. cprice'[o] = [j \in Items |-> IF m.lines[j] > 0 THEN m.lines[j] ELSE cprice[o][j]]
      BY <1>3, <1>6, <3>1 DEF MirrorOK
    <3>3. cprice'[o][i] = m.lines[i]  BY <3>1, <3>2
    <3> QED  BY <3>1, <3>3
  <2> QED  BY <2>1, <2>2, <2>3
<1>12. Ones(sql', Stockings(o)) /\ NoneEmpty(o)'  BY <1>2 DEF Shelving, NoneEmpty
<1> QED  BY <1>8, <1>9, <1>10, <1>11, <1>12 DEF Shelving

LEMMA ShelvingClosing ==
  ASSUME TypeOK, [Next]_vars, DbHardClose, NEW o \in Bots, Shelving(o) PROVE Shelving(o)'
<1> DEFINE m == Head(toDb)
           a == [op |-> "closed", owner |-> m.owner]
<1>1. m \in Requests /\ m.op = "hardclose" /\ m.owner \in Bots
  BY DbTakes, RequestShapes DEF TypeOK, DbHardClose
<1>2. toDb # <<>> /\ toDb' = Tail(toDb) /\ UNCHANGED <<cst, cprice, sql>>
  BY DEF DbHardClose, AtDb, TakenByDb, core
<1>3. (toCore' = toCore \o <<a>> \/ toCore' = toCore)
      /\ (dst' = dst \/ dst' = [dst EXCEPT ![m.owner] = "none"])
  <2>1. toCore \in Seq(Answers)  BY WiresAre
  <2>2. toCore \o <<>> = toCore  BY <2>1, ConcatProperties
  <2> QED  BY <2>2 DEF DbHardClose, ToCore
<1>4. a \in Answers /\ a.op = "closed" /\ a.owner = m.owner  BY <1>1 DEF Answers
<1>5. /\ \A S : Has(toDb, S) <=> m \in S \/ Has(toDb', S)
      /\ \A S, T : Before(toDb, S, T) => Before(toDb', S, T)
  BY <1>2, WiresAre, QueueTaken
<1> HIDE DEF m, a
<1>6. \A S : a \notin S => (Has(toCore', S) <=> Has(toCore, S))
  <2>1. \A S : Has(toCore \o <<a>>, S) <=> Has(toCore, S) \/ a \in S  BY <1>4, WiresAre, QueueSent
  <2> QED  BY <1>3, <2>1
<1>7. a \notin Openings(o) /\ (\A i \in Items : a \notin Announced(o, i)) /\ (a \in Closeds(o) => m.owner = o)
  BY <1>4 DEF Openings, Announced, Createds, Closeds
<1>8. m.owner = o => ~Has(sql, Stockings(o))
  <2>1. m.owner = o => m \in Closings(o)  BY <1>1 DEF Closings
  <2> QED  BY <1>5, <2>1 DEF Shelving, KeptOpen
<1>9. Unseen(o)' /\ ClosedBefore(o)'
  BY <1>2, <1>5, <1>6, <1>7 DEF Shelving, Unseen, ClosedBefore
<1>10. KeptOpen(o)'
  <2>1. ShopsOK  BY DEF TypeOK
  <2>2. m.owner # o => dst'[o] = dst[o]  BY <1>1, <1>3, <2>1 DEF ShopsOK
  <2> QED  BY <1>2, <1>5, <1>6, <1>7, <1>8, <2>2 DEF Shelving, KeptOpen
<1>11. ShownSoon(o)' /\ Ones(sql', Stockings(o))
  BY <1>2, <1>6, <1>7 DEF Shelving, ShownSoon
<1>12. NoneEmpty(o)'  BY NoneEmptyStep DEF Shelving
<1> QED  BY <1>9, <1>10, <1>11, <1>12 DEF Shelving

LEMMA ShelvingShut ==
  ASSUME TypeOK, [Next]_vars, CoreClosed, NEW o \in Bots, Shelving(o) PROVE Shelving(o)'
<1> DEFINE m == Head(toCore)
<1>1. m \in Answers /\ m.op = "closed" /\ m.owner \in Bots
  BY CoreTakes, AnswerShapes DEF TypeOK, CoreClosed
<1>2. toCore # <<>> /\ toCore' = Tail(toCore) /\ UNCHANGED <<toDb, sql, dst, dprice>>
      /\ cprice' = [cprice EXCEPT ![m.owner] = NoLines]
  BY DEF CoreClosed, AtCore, TakenByCore, dshops
<1>3. \A S : Has(toCore, S) <=> m \in S \/ Has(toCore', S)
  BY <1>2, WiresAre, QueueTaken
<1>4. ~CoreCreated  BY <1>1 DEF CoreCreated, AtCore
<1> HIDE DEF m
<1>5. m \notin Openings(o) /\ (\A i \in Items : m \notin Announced(o, i)) /\ (m.owner = o => m \in Closeds(o))
  BY <1>1 DEF Openings, Announced, Createds, Closeds
<1>6. Unseen(o)'  BY <1>2, <1>3, <1>4, <1>5, NoneStays DEF Shelving, Unseen
<1>7. ClosedBefore(o)'  BY <1>2 DEF Shelving, ClosedBefore
<1>8. KeptOpen(o)'  BY <1>2, <1>3 DEF Shelving, KeptOpen
<1>9. ShownSoon(o)'
  <2> SUFFICES ASSUME NEW i \in Items, Has(sql, Puts(o, i))
               PROVE  cprice'[o][i] > 0 \/ Has(toCore', Announced(o, i))
    BY <1>2 DEF ShownSoon
  <2>1. Has(sql, Stockings(o))  BY PutsAre, HasMore
  <2>2. m.owner # o  BY <1>3, <1>5, <2>1 DEF Shelving, KeptOpen
  <2>3. cprice'[o] = cprice[o]  BY <1>1, <1>2, <2>2 DEF TypeOK, MirrorOK
  <2> QED  BY <1>3, <1>5, <2>3 DEF Shelving, ShownSoon
<1>10. Ones(sql', Stockings(o)) /\ NoneEmpty(o)'  BY <1>2 DEF Shelving, NoneEmpty
<1> QED  BY <1>6, <1>7, <1>8, <1>9, <1>10 DEF Shelving

\* What goes with a line that is sold or taken off.
LEMMA GoneTakes ==
  ASSUME TypeOK, Gone
  PROVE  LET m == Head(toCore)
         IN  /\ m \in Answers /\ m.op \in {"removed", "sold"} /\ m.owner \in Bots /\ m.item \in Items
             /\ toCore # <<>> /\ toCore' = Tail(toCore) /\ UNCHANGED <<cst, dst, dprice, sql>>
             /\ \/ cprice' = cprice /\ toDb' = toDb /\ ~OnMirror(m)
                \/ /\ OnMirror(m) /\ cprice' = Without(m)
                   /\ \E b \in Bots : \E ms : /\ ms = <<>> \/ ms = Boxed(b, m.item)
                                              /\ toDb' = toDb \o (ms \o CloseIfEmpty(m))
<1> DEFINE m == Head(toCore)
<1>1. PICK room \in BOOLEAN : CoreRemoved(room) \/ CoreSold(room)  BY DEF Gone
<1>2. m \in Answers /\ m.op \in {"removed", "sold"} /\ m.owner \in Bots /\ m.item \in Items
      /\ (m.op = "sold" => m.who \in Bots)
  BY <1>1, CoreTakes, AnswerShapes DEF TypeOK, CoreRemoved, CoreSold
<1>3. toCore # <<>> /\ toCore' = Tail(toCore) /\ UNCHANGED <<cst, dst, dprice, sql>>
  BY <1>1 DEF CoreRemoved, CoreSold, AtCore, TakenByCore, dshops
<1>4. CASE CoreRemoved(room)
  <2> DEFINE ms == IF world[m.owner] = "in" /\ room THEN <<>> ELSE Boxed(m.owner, m.item)
  <2>1. CASE OnMirror(m)
    <3>1. cprice' = Without(m) /\ toDb' = toDb \o (ms \o CloseIfEmpty(m))
      BY <1>4, <2>1 DEF CoreRemoved, ToDb
    <3>2. ms = <<>> \/ ms = Boxed(m.owner, m.item)  OBVIOUS
    <3> HIDE DEF m, ms
    <3> QED  BY <1>2, <1>3, <2>1, <3>1, <3>2 DEF m
  <2>2. CASE ~OnMirror(m)  BY <1>2, <1>3, <1>4, <2>2 DEF CoreRemoved
  <2> QED  BY <2>1, <2>2
<1>5. CASE CoreSold(room)
  <2> DEFINE ms == IF world[m.who] = "in" /\ ~room THEN Boxed(m.who, m.item) ELSE <<>>
  <2>0. m.who \in Bots  BY <1>2, <1>5 DEF CoreSold, AtCore
  <2>1. CASE OnMirror(m)
    <3>1. cprice' = Without(m) /\ toDb' = toDb \o (ms \o CloseIfEmpty(m))
      BY <1>5, <2>1 DEF CoreSold, ToDb
    <3>2. ms = <<>> \/ ms = Boxed(m.who, m.item)  OBVIOUS
    <3> HIDE DEF m, ms
    <3> QED  BY <1>2, <1>3, <2>0, <2>1, <3>1, <3>2 DEF m
  <2>2. CASE ~OnMirror(m)  BY <1>2, <1>3, <1>5, <2>2 DEF CoreSold
  <2> QED  BY <2>1, <2>2
<1> QED  BY <1>1, <1>4, <1>5

LEMMA GoneAsks ==
  ASSUME NEW m, m.owner \in Bots, m.item \in Items, NEW b \in Bots, NEW ms,
         ms = <<>> \/ ms = Boxed(b, m.item), NEW o
  PROVE  LET r == ms \o CloseIfEmpty(m)
         IN  /\ r \in Seq(Requests) /\ ~Has(r, Offers(o)) /\ Before(r, Closings(o), Offers(o))
             /\ Has(r, Closings(o)) => o = m.owner /\ Without(m)[m.owner] = NoLines
<1> DEFINE x == [op |-> "boxadd", owner |-> b, item |-> m.item]
           h == [op |-> "hardclose", owner |-> m.owner]
           r == ms \o CloseIfEmpty(m)
<1>1. x \in Requests /\ x.op = "boxadd"  BY DEF Requests, Named
<1>2. h \in Requests /\ h.op = "hardclose" /\ h.owner = m.owner  BY DEF Requests
<1>3. Boxed(b, m.item) = <<x>>  BY DEF Boxed
<1>4. \/ CloseIfEmpty(m) = <<h>> /\ Without(m)[m.owner] = NoLines
      \/ CloseIfEmpty(m) = <<>>
  BY DEF CloseIfEmpty
<1> HIDE DEF x, h
<1>5. x \notin Offers(o) /\ h \notin Offers(o) /\ x \notin Closings(o) /\ (h \in Closings(o) => o = m.owner)
  BY <1>1, <1>2 DEF Offers, Creates, Closings
<1>6. ms \in Seq(Requests) /\ ~Has(ms, Offers(o)) /\ ~Has(ms, Closings(o))
  <2>1. CASE ms = <<>>  BY <2>1, ShortQueues, Nothing
  <2>2. CASE ms = <<x>>  BY <1>1, <1>5, <2>2, ShortQueues, Single
  <2> QED  BY <1>3, <2>1, <2>2
<1>7. /\ CloseIfEmpty(m) \in Seq(Requests) /\ ~Has(CloseIfEmpty(m), Offers(o))
      /\ Has(CloseIfEmpty(m), Closings(o)) => o = m.owner /\ Without(m)[m.owner] = NoLines
  <2>1. CASE CloseIfEmpty(m) = <<>>  BY <2>1, ShortQueues, Nothing
  <2>2. CASE CloseIfEmpty(m) = <<h>> /\ Without(m)[m.owner] = NoLines
    BY <1>2, <1>5, <2>2, ShortQueues, Single
  <2> QED  BY <1>4, <2>1, <2>2
<1>8. r \in Seq(Requests)  BY <1>6, <1>7, Joined
<1>9. ~Has(r, Offers(o)) /\ (Has(r, Closings(o)) => o = m.owner /\ Without(m)[m.owner] = NoLines)
  BY <1>6, <1>7, QueueJoined
<1> HIDE DEF r
<1>10. Before(r, Closings(o), Offers(o))  BY <1>9 DEF Before, Has
<1> QED  BY <1>8, <1>9, <1>10 DEF r

LEMMA ShelvingGone ==
  ASSUME TypeOK, [Next]_vars, Gone, \A i \in Items : Apart(i), NEW o \in Bots, Shelving(o)
  PROVE  Shelving(o)'
<1> DEFINE m == Head(toCore)
<1>1. /\ m \in Answers /\ m.op \in {"removed", "sold"} /\ m.owner \in Bots /\ m.item \in Items
      /\ toCore # <<>> /\ toCore' = Tail(toCore) /\ UNCHANGED <<cst, dst, dprice, sql>>
      /\ \/ cprice' = cprice /\ toDb' = toDb
         \/ /\ OnMirror(m) /\ cprice' = Without(m)
            /\ \E b \in Bots : \E ms : /\ ms = <<>> \/ ms = Boxed(b, m.item)
                                       /\ toDb' = toDb \o (ms \o CloseIfEmpty(m))
  BY GoneTakes
<1>2. \A S : Has(toCore, S) <=> m \in S \/ Has(toCore', S)
  BY <1>1, WiresAre, QueueTaken
<1> HIDE DEF m
<1>3. cprice \in [Bots -> [Items -> Nat]] /\ cst \in [Bots -> {"none", "closed", "open"}]
  BY DEF TypeOK, MirrorOK
<1>4. m \notin Openings(o) /\ (\A i \in Items : m \notin Announced(o, i)) /\ m \in AnswersWith(m.item)
  BY <1>1 DEF Openings, Announced, Createds, AnswersWith
<1>5. Unseen(o) /\ ClosedBefore(o) /\ KeptOpen(o) /\ ShownSoon(o) /\ Ones(sql, Stockings(o)) /\ NoneEmpty(o)
  BY DEF Shelving
<1>6. \A i \in Items : Has(sql, Puts(o, i)) => i # m.item
  <2> SUFFICES ASSUME Has(sql, Puts(o, m.item)) PROVE FALSE  BY <1>1
  <2>1. Queried(m.item)  BY <1>1, PutsAre, HasMore DEF Queried
  <2>2. ~Answered(m.item)  BY <1>1, <2>1, QueriedOnly
  <2>3. Has(toCore, AnswersWith(m.item))  BY <1>2, <1>4
  <2> QED  BY <2>2, <2>3 DEF Answered
<1>7. \A i \in Items : i # m.item \/ m.owner # o => cprice'[o][i] = cprice[o][i]
  <2>1. cprice' = cprice \/ cprice' = [cprice EXCEPT ![m.owner] = [@ EXCEPT ![m.item] = 0]]
    BY <1>1 DEF Without
  <2>2. m.owner \in Bots /\ m.item \in Items  BY <1>1
  <2> QED  BY <1>3, <2>1, <2>2
<1>8. ShownSoon(o)'
  <2> SUFFICES ASSUME NEW i \in Items, Has(sql, Puts(o, i))
               PROVE  cprice'[o][i] > 0 \/ Has(toCore', Announced(o, i))
    BY <1>1 DEF ShownSoon
  <2>1. cprice'[o][i] = cprice[o][i]  BY <1>6, <1>7
  <2> QED  BY <1>2, <1>4, <1>5, <2>1 DEF ShownSoon
<1>9. /\ Has(toDb', Offers(o)) <=> Has(toDb, Offers(o))
      /\ Before(toDb', Closings(o), Offers(o))
      /\ Has(toDb', Closings(o)) => \/ Has(toDb, Closings(o))
                                    \/ OnMirror(m) /\ o = m.owner /\ Without(m)[o] = NoLines
  <2>1. CASE toDb' = toDb  BY <1>5, <2>1 DEF ClosedBefore
  <2>2. CASE OnMirror(m) /\ \E b \in Bots : \E ms : /\ ms = <<>> \/ ms = Boxed(b, m.item)
                                                    /\ toDb' = toDb \o (ms \o CloseIfEmpty(m))
    <3>0. PICK b \in Bots : \E ms : /\ ms = <<>> \/ ms = Boxed(b, m.item)
                                    /\ toDb' = toDb \o (ms \o CloseIfEmpty(m))
      BY <2>2
    <3>1. PICK ms : /\ ms = <<>> \/ ms = Boxed(b, m.item)
                    /\ toDb' = toDb \o (ms \o CloseIfEmpty(m))
      BY <3>0
    <3> DEFINE r == ms \o CloseIfEmpty(m)
    <3>2. /\ r \in Seq(Requests) /\ ~Has(r, Offers(o)) /\ Before(r, Closings(o), Offers(o))
          /\ Has(r, Closings(o)) => o = m.owner /\ Without(m)[m.owner] = NoLines
      BY <1>1, <3>1, GoneAsks
    <3>3. toDb' = toDb \o r /\ toDb \in Seq(Requests)  BY <3>1, WiresAre
    <3> HIDE DEF r
    <3>4. /\ Has(toDb', Offers(o)) <=> Has(toDb, Offers(o))
          /\ Has(toDb', Closings(o)) <=> Has(toDb, Closings(o)) \/ Has(r, Closings(o))
          /\ Before(toDb, Closings(o), Offers(o)) /\ ~(Has(toDb, Offers(o)) /\ Has(r, Closings(o)))
             => Before(toDb', Closings(o), Offers(o))
      BY <3>2, <3>3, QueueJoined
    <3>5. ~(Has(toDb, Offers(o)) /\ Has(r, Closings(o)))
      BY <1>5, <2>2, <3>2 DEF Unseen, OnMirror
    <3> QED  BY <1>5, <2>2, <3>2, <3>4, <3>5 DEF ClosedBefore
  <2> QED  BY <1>1, <2>1, <2>2
<1>10. OnMirror(m) /\ o = m.owner /\ Without(m)[o] = NoLines =>
         ~Has(sql, Stockings(o)) /\ ~Has(sql, OfferQueries(o))
  <2> SUFFICES ASSUME OnMirror(m), o = m.owner, Without(m)[o] = NoLines
               PROVE  ~Has(sql, Stockings(o)) /\ ~Has(sql, OfferQueries(o))
    OBVIOUS
  <2>1. cst[o] # "none"  BY DEF OnMirror
  <2>2. ~Has(sql, OfferQueries(o)) /\ ~Has(toCore, Openings(o))  BY <1>5, <2>1 DEF Unseen
  <2>3. ASSUME Has(sql, Stockings(o)) PROVE FALSE
    <3>1. PICK n \in 1..Len(sql) : sql[n] \in Stockings(o)  BY <2>3 DEF Has
    <3>2. sql[n].lines \in [Items -> Nat] /\ sql[n].lines # NoLines  BY <3>1, QueryShapes DEF Stockings
    <3>3. PICK i \in Items : sql[n].lines[i] > 0  BY <3>2, LineThere
    <3>4. Has(sql, Puts(o, i))  BY <3>1, <3>3 DEF Has, Puts, Stockings
    <3>5. ~Has(toCore, Announced(o, i))  BY <2>2, PutsAre, HasMore
    <3>6. cprice[o][i] > 0  BY <1>5, <3>4, <3>5 DEF ShownSoon
    <3>7. i # m.item  BY <1>6, <3>4
    <3>8. Without(m)[o][i] = cprice[o][i]  BY <1>1, <1>3, <3>7 DEF Without
    <3>9. NoLines[i] = 0  BY DEF NoLines
    <3> QED  BY <3>6, <3>8, <3>9
  <2> QED  BY <2>2, <2>3
<1>11. Unseen(o)'  BY <1>1, <1>2, <1>5, <1>9 DEF Unseen
<1>12. ClosedBefore(o)'  BY <1>1, <1>5, <1>9, <1>10 DEF ClosedBefore
<1>13. KeptOpen(o)'  BY <1>1, <1>2, <1>5, <1>9, <1>10 DEF KeptOpen
<1>14. Ones(sql', Stockings(o)) /\ NoneEmpty(o)'  BY <1>1, <1>5 DEF NoneEmpty
<1> QED  BY <1>8, <1>11, <1>12, <1>13, <1>14 DEF Shelving

LEMMA ShelvingStep ==
  ASSUME TypeOK, [Next]_vars, \A i \in Items : Apart(i),
         \A p \in Bots : Opening(p) /\ Mirrored(p) /\ Shelving(p), NEW o \in Bots
  PROVE  Shelving(o)'
  BY ShelvingAside, ShelvingBegun, ShelvingQueried, ShelvingDone, ShelvingStored, ShelvingOpened,
     ShelvingClosing, ShelvingShut, ShelvingGone

-----------------------------------------------------------------------------
(* The mirror, step by step.                                               *)

LEMMA PutsKept ==
  ASSUME TypeOK, [Next]_vars, ~CreateDone, ~PutDone, NEW o, dst'[o] = dst[o], dprice'[o] = dprice[o]
  PROVE  SameLines(o)
<1> SUFFICES ASSUME NEW i \in Items, NEW m \in Puts(o, i) PROVE Has(sql', {m}) <=> Has(sql, {m})
  BY DEF SameLines
<1>1. \A x \in {m} : ~Querying(x.op)  BY DEF Puts, Querying
<1> QED  BY <1>1, QueriesAside

\* An answer that is no news to it.
LEMMA MirrorQuiet ==
  ASSUME TypeOK, [Next]_vars, NEW o \in Bots, Mirrored(o), ~CreateDone, ~PutDone,
         cst'[o] = cst[o], cprice'[o] = cprice[o], dst'[o] = dst[o], dprice'[o] = dprice[o],
         NEW x \in Answers, x.owner # o \/ x.op \in Quiet \cup {"locked"},
         toCore' = toCore \o <<x>>
  PROVE  Mirrored(o)'
<1>1. PICK t \in Shelf : Due(o, t) /\ Leads(o, toCore, Mirror(o), t)  BY DEF Mirrored
<1>2. Due(o, t)'  BY <1>1, PutsKept, DueKept
<1>3. Shows(o, t, x, t)  BY DEF Shows
<1> QED  BY <1>1, <1>2, <1>3, MirrorSent

LEMMA MirrorSteady ==
  ASSUME TypeOK, [Next]_vars, NEW o \in Bots, Mirrored(o), ~CreateDone, ~PutDone,
         cst'[o] = cst[o], cprice'[o] = cprice[o], dst'[o] = dst[o], dprice'[o] = dprice[o],
         toCore' = toCore
  PROVE  Mirrored(o)'
  BY PutsKept, MirrorKept

\* Each handler of the core does to its copy what the answer shows.
LEMMA CoreShows ==
  ASSUME TypeOK, Core, NEW o \in Bots, NEW u \in Shelf, Shows(o, Mirror(o), Head(toCore), u)
  PROVE  Mirror(o)' = u
<1> DEFINE m == Head(toCore)
           s == Mirror(o)
<1>1. \A op : AtCore(op) => m \in Answers /\ m.op = op  BY CoreTakes DEF TypeOK
<1>2. MirrorOK /\ s.st = cst[o] /\ s.lines = cprice[o]  BY MirrorIs DEF TypeOK
<1>3. cst \in [Bots -> {"none", "closed", "open"}] /\ cprice \in [Bots -> [Items -> Nat]]
  BY <1>2 DEF MirrorOK
<1>4. Shows(o, s, m, u)  OBVIOUS
<1>5. s = Showing(cst[o], cprice[o]) /\ Mirror(o)' = Showing(cst'[o], cprice'[o])  BY DEF Mirror
<1>6. m \in Answers => m.owner \in Bots
                       /\ (m.op \in {"added", "edited", "removed", "sold"} => m.item \in Items)
  BY AnswerShapes
<1>7. CASE CoreCreated
  <2>1. m \in Answers /\ m.op = "created"  BY <1>1, <1>7 DEF CoreCreated
  <2>2. cst' = [cst EXCEPT ![m.owner] = "open"]
        /\ cprice' = [cprice EXCEPT ![m.owner] =
                         [i \in Items |-> IF m.lines[i] > 0 THEN m.lines[i] ELSE @[i]]]
    BY <1>7 DEF CoreCreated
  <2> HIDE DEF m, s
  <2>3. CASE m.owner = o
    <3>1. u = Showing("open", [i \in Items |-> IF m.lines[i] > 0 THEN m.lines[i] ELSE s.lines[i]])
      BY <1>4, <2>1, <2>3 DEF Shows, Quiet
    <3>2. cst'[o] = "open"
          /\ cprice'[o] = [i \in Items |-> IF m.lines[i] > 0 THEN m.lines[i] ELSE cprice[o][i]]
      BY <1>3, <2>2, <2>3
    <3> QED  BY <1>2, <1>5, <3>1, <3>2
  <2>4. CASE m.owner # o
    <3>1. u = s  BY <1>4, <2>4 DEF Shows
    <3> QED  BY <1>3, <1>5, <2>2, <2>4, <3>1
  <2> QED  BY <2>3, <2>4
<1>8. CASE CoreAdded
  <2>1. m \in Answers /\ m.op = "added"  BY <1>1, <1>8 DEF CoreAdded
  <2>2. /\ cst' = cst
        /\ cst[m.owner] = "none" => cprice' = cprice
        /\ cst[m.owner] # "none" => cprice' = [cprice EXCEPT ![m.owner] = [@ EXCEPT ![m.item] = m.price]]
    BY <1>8 DEF CoreAdded
  <2> HIDE DEF m, s
  <2>3. CASE m.owner = o
    <3>1. /\ s.st = "none" => u = s
          /\ s.st # "none" => u = Showing(s.st, [s.lines EXCEPT ![m.item] = m.price])
      BY <1>4, <2>1, <2>3 DEF Shows, Quiet
    <3>2. cst[o] # "none" => cprice'[o] = [cprice[o] EXCEPT ![m.item] = m.price]
      BY <1>3, <2>2, <2>3
    <3> QED  BY <1>2, <1>5, <2>2, <2>3, <3>1, <3>2
  <2>4. CASE m.owner # o
    <3>1. u = s  BY <1>4, <2>4 DEF Shows
    <3>2. cprice'[o] = cprice[o]  BY <1>3, <2>2, <2>4
    <3> QED  BY <1>5, <2>2, <3>1, <3>2
  <2> QED  BY <2>3, <2>4
<1>9. CASE CoreEdited
  <2>1. m \in Answers /\ m.op = "edited"  BY <1>1, <1>9 DEF CoreEdited
  <2>2. /\ cst' = cst /\ (cprice' = cprice \/ cprice' = [cprice EXCEPT ![m.owner] = [@ EXCEPT ![m.item] = m.price]])
        /\ cst[m.owner] # "none" /\ cprice[m.owner][m.item] > 0 =>
             cprice' = [cprice EXCEPT ![m.owner] = [@ EXCEPT ![m.item] = m.price]]
    BY <1>9 DEF CoreEdited
  <2> HIDE DEF m, s
  <2>3. CASE m.owner = o
    <3>1. s.st # "none" /\ s.lines[m.item] > 0 /\ u = Showing(s.st, [s.lines EXCEPT ![m.item] = m.price])
      BY <1>4, <2>1, <2>3 DEF Shows, Quiet
    <3>2. cprice' = [cprice EXCEPT ![o] = [@ EXCEPT ![m.item] = m.price]]
      BY <1>2, <2>2, <2>3, <3>1
    <3>3. cprice'[o] = [cprice[o] EXCEPT ![m.item] = m.price]  BY <1>3, <3>2
    <3> QED  BY <1>2, <1>5, <2>2, <3>1, <3>3
  <2>4. CASE m.owner # o
    <3>1. u = s  BY <1>4, <2>4 DEF Shows
    <3>2. cprice'[o] = cprice[o]  BY <1>3, <2>2, <2>4
    <3> QED  BY <1>5, <2>2, <3>1, <3>2
  <2> QED  BY <2>3, <2>4
<1>10. CASE Gone
  <2>1. /\ m \in Answers /\ m.op \in {"removed", "sold"} /\ cst' = cst
        /\ (cprice' = cprice /\ ~OnMirror(m)) \/ (cprice' = Without(m) /\ OnMirror(m))
    BY <1>10, GoneTakes DEF TypeOK
  <2> HIDE DEF m, s
  <2>3. CASE m.owner = o
    <3>1. s.st # "none" /\ s.lines[m.item] > 0 /\ u = Showing(s.st, [s.lines EXCEPT ![m.item] = 0])
      BY <1>4, <2>1, <2>3 DEF Shows, Quiet
    <3>2. OnMirror(m)  BY <1>2, <2>3, <3>1 DEF OnMirror
    <3>3. cprice' = [cprice EXCEPT ![o] = [@ EXCEPT ![m.item] = 0]]  BY <2>1, <2>3, <3>2 DEF Without
    <3>4. cprice'[o] = [cprice[o] EXCEPT ![m.item] = 0]  BY <1>3, <3>3
    <3> QED  BY <1>2, <1>5, <2>1, <3>1, <3>4
  <2>4. CASE m.owner # o
    <3>1. u = s  BY <1>4, <2>4 DEF Shows
    <3>2. cprice' = cprice \/ cprice' = [cprice EXCEPT ![m.owner] = [@ EXCEPT ![m.item] = 0]]
      BY <2>1 DEF Without
    <3>3. cprice'[o] = cprice[o]  BY <1>3, <2>4, <3>2
    <3> QED  BY <1>5, <2>1, <3>1, <3>3
  <2> QED  BY <2>3, <2>4
<1>11. CASE CoreClosed
  <2>1. m \in Answers /\ m.op = "closed"  BY <1>1, <1>11 DEF CoreClosed
  <2>2. cst' = [cst EXCEPT ![m.owner] = "none"] /\ cprice' = [cprice EXCEPT ![m.owner] = NoLines]
    BY <1>11 DEF CoreClosed
  <2> HIDE DEF m, s
  <2>3. CASE m.owner = o
    <3>1. u = Showing("none", NoLines)  BY <1>4, <2>1, <2>3 DEF Shows, Quiet
    <3> QED  BY <1>3, <1>5, <2>2, <2>3, <3>1
  <2>4. CASE m.owner # o
    <3>1. u = s  BY <1>4, <2>4 DEF Shows
    <3> QED  BY <1>3, <1>5, <2>2, <2>4, <3>1
  <2> QED  BY <2>3, <2>4
<1>12. CASE CoreExpired
  <2>1. m \in Answers /\ m.op = "expired"  BY <1>1, <1>12 DEF CoreExpired
  <2>2. cst' = [cst EXCEPT ![m.owner] = IF @ = "none" THEN @ ELSE "closed"] /\ cprice' = cprice
    BY <1>12 DEF CoreExpired
  <2> HIDE DEF m, s
  <2>3. CASE m.owner = o
    <3>1. s.st = "open" /\ u = Showing("closed", s.lines)  BY <1>4, <2>1, <2>3 DEF Shows, Quiet
    <3>2. cst'[o] = "closed"  BY <1>2, <1>3, <2>2, <2>3, <3>1
    <3> QED  BY <1>2, <1>5, <2>2, <3>1, <3>2
  <2>4. CASE m.owner # o
    <3>1. u = s  BY <1>4, <2>4 DEF Shows
    <3>2. cst'[o] = cst[o]  BY <1>3, <2>2, <2>4
    <3> QED  BY <1>5, <2>2, <3>1, <3>2
  <2> QED  BY <2>3, <2>4
<1>13. CASE CoreRefused \/ CoreLocked \/ CoreYang \/ CoreBoxed \/ CoreBox \/ \E room \in BOOLEAN : CoreConfirm(room)
  <2>1. m.op \in Quiet \cup {"locked"}
    BY <1>1, <1>13 DEF CoreRefused, CoreLocked, CoreYang, CoreBoxed, CoreBox, CoreConfirm, Quiet
  <2>2. UNCHANGED <<cst, cprice>>
    BY <1>13 DEF CoreRefused, CoreLocked, CoreYang, CoreBoxed, CoreBox, CoreConfirm, core
  <2> HIDE DEF m, s
  <2>3. u = s  BY <1>4, <2>1 DEF Shows, Quiet
  <2> QED  BY <1>5, <2>2, <2>3
<1> QED  BY <1>7, <1>8, <1>9, <1>10, <1>11, <1>12, <1>13 DEF Core, Gone

LEMMA MirrorCore ==
  ASSUME TypeOK, Core, NEW o \in Bots, Mirrored(o) PROVE Mirrored(o)'
<1>1. toCore # <<>> /\ toCore' = Tail(toCore) /\ UNCHANGED <<dst, dprice, sql>>
  BY DEF Core, CoreCreated, CoreAdded, CoreEdited, CoreRefused, CoreLocked, CoreYang, CoreClosed,
         CoreExpired, CoreBoxed, CoreBox, CoreRemoved, CoreSold, CoreConfirm, AtCore, TakenByCore, dshops
<1>2. PICK u \in Shelf :
           /\ Shows(o, Mirror(o), Head(toCore), u)
           /\ /\ Mirror(o)' = u /\ toCore' = Tail(toCore)
              /\ dst'[o] = dst[o] /\ dprice'[o] = dprice[o] /\ sql' = sql
              => Mirrored(o)'
  BY <1>1, MirrorTaken
<1>3. Mirror(o)' = u  BY <1>2, CoreShows
<1> QED  BY <1>1, <1>2, <1>3

\* A line that is on sale is in no query, and a buyer's line is on sale.
LEMMA LineStored ==
  ASSUME TypeOK, Ledger, NEW o \in Bots, NEW i \in Items
  PROVE  /\ dprice[o][i] > 0 => ~Has(sql, Puts(o, i)) /\ ~Queried(i)
         /\ Has(toCore, Granted(o, i)) => <<o, i>> \in locked /\ dprice[o][i] > 0
         /\ Has(toCore, Granted(o, i)) => ~Has(toDb, Payments(o, i))
<1>1. dprice[o][i] > 0 => ~Queried(i)
  BY QueriedOnly DEF Ledger, AwayFromSale, OnSale
<1>2. Has(sql, Puts(o, i)) => Queried(i)  BY PutsAre, HasMore DEF Queried
<1>3. Has(toCore, Granted(o, i)) => <<o, i>> \in locked /\ ~Has(toDb, Payments(o, i))
  BY DEF Ledger, Purchases, Purchase, Token
<1>4. <<o, i>> \in locked => dprice[o][i] > 0
  <2>1. <<o, i>>[1] = o /\ <<o, i>>[2] = i  OBVIOUS
  <2> QED  BY <2>1 DEF TypeOK, LockedOnSale, HasLine
<1> QED  BY <1>1, <1>2, <1>3, <1>4

\* One line of it gets another price, and the answer says so.
LEMMA MirrorLine ==
  ASSUME TypeOK, Ledger, NEW o \in Bots, NEW i \in Items, NEW p \in Nat, NEW t \in Shelf,
         Due(o, t), ~Has(sql, Puts(o, i)),
         dst'[o] = dst[o], dprice'[o] = [dprice[o] EXCEPT ![i] = p],
         \A j \in Items : \A m \in Puts(o, j) : Has(sql', {m}) <=> Has(sql, {m})
  PROVE  \E u \in Shelf : /\ u = Showing(t.st, [t.lines EXCEPT ![i] = p]) /\ Due(o, u)'
                          /\ \A j \in Items : j # i => u.lines[j] = t.lines[j]
<1> DEFINE u == Showing(t.st, [t.lines EXCEPT ![i] = p])
<1>1. t.st \in {"none", "closed", "open"} /\ t.lines \in [Items -> Nat]  BY ShelfIs
<1>2. [t.lines EXCEPT ![i] = p] \in [Items -> Nat]  BY <1>1
<1>3. u \in Shelf /\ u.st = t.st /\ u.lines = [t.lines EXCEPT ![i] = p]  BY <1>1, <1>2, ShowingIs
<1> HIDE DEF u
<1>4. u.lines[i] = p /\ \A j \in Items : j # i => u.lines[j] = t.lines[j]  BY <1>1, <1>3
<1>5. dprice \in [Bots -> [Items -> Nat]]  BY DEF TypeOK, ShopsOK
<1>6. dprice'[o][i] = p /\ \A j \in Items : j # i => dprice'[o][j] = dprice[o][j]  BY <1>5
<1>7. \A m \in Puts(o, i) : ~Has(sql, {m})
  <2> TAKE m \in Puts(o, i)
  <2>1. {m} \subseteq Puts(o, i)  OBVIOUS
  <2> QED  BY <2>1, HasMore
<1>8. \A j \in Items : Has(sql, Puts(o, j)) => Has(sql', Puts(o, j))
  <2> SUFFICES ASSUME NEW j \in Items, Has(sql, Puts(o, j)) PROVE Has(sql', Puts(o, j))  OBVIOUS
  <2>1. PICK n \in 1..Len(sql) : sql[n] \in Puts(o, j)  BY DEF Has
  <2>2. Has(sql, {sql[n]})  BY DEF Has
  <2>3. Has(sql', {sql[n]})  BY <2>1, <2>2
  <2> QED  BY <2>1, <2>3 DEF Has
<1>9. /\ u.st = dst'[o]
      /\ \A j \in Items : ~Has(sql', Puts(o, j)) => u.lines[j] = dprice'[o][j]
      /\ \A j \in Items : \A m \in Puts(o, j) : Has(sql', {m}) => u.lines[j] = m.lines[j]
  BY <1>3, <1>4, <1>6, <1>7, <1>8 DEF Due
<1>10. Due(o, u)'  BY <1>9 DEF Due
<1> QED  BY <1>3, <1>4, <1>10 DEF u

\* Repricings and removals of lines that nobody is buying.
LEMMA MirrorRepriced ==
  ASSUME TypeOK, Ledger, [Next]_vars, DbEdit \/ DbRemove, NEW o \in Bots, Mirrored(o)
  PROVE  Mirrored(o)'
<1> DEFINE m == Head(toDb)
           p == IF DbEdit THEN m.price ELSE 0
           x == IF DbEdit THEN [op |-> "edited", owner |-> m.owner, item |-> m.item, price |-> m.price]
                ELSE [op |-> "removed", owner |-> m.owner, item |-> m.item]
           taken == IF DbEdit THEN Editable(m) /\ <<m.owner, m.item>> \notin locked
                    ELSE HasLine(m.owner, m.item) /\ <<m.owner, m.item>> \notin locked
<1>1. m \in Requests /\ m.owner \in Bots /\ m.item \in Items /\ p \in Nat /\ (DbEdit => p > 0)
  <2>1. CASE DbEdit  BY <2>1, DbTakes, RequestShapes DEF TypeOK, DbEdit
  <2>2. CASE ~DbEdit  BY <2>2, DbTakes, RequestShapes DEF TypeOK, DbRemove
  <2> QED  BY <2>1, <2>2
<1>2. /\ x \in Answers /\ x.owner = m.owner /\ x.item = m.item
      /\ (x.op = "edited" /\ x.price = p) \/ (x.op = "removed" /\ p = 0)
  <2>1. CASE DbEdit
    <3>1. m.price \in Nat \ {0}  BY <1>1, <2>1
    <3> QED  BY <1>1, <2>1, <3>1 DEF Answers, Priced
  <2>2. CASE ~DbEdit  BY <1>1, <2>2 DEF Answers, Named
  <2> QED  BY <2>1, <2>2
<1>3. toCore \in Seq(Answers) /\ toCore \o <<>> = toCore  BY WiresAre, ConcatProperties
<1>4. /\ UNCHANGED <<cst, cprice, dst, sql>>
      /\ taken => toCore' = toCore \o <<x>> /\ dprice' = [dprice EXCEPT ![m.owner] = [@ EXCEPT ![m.item] = p]]
      /\ ~taken => toCore' = toCore /\ dprice' = dprice
  <2>1. CASE DbEdit  BY <1>3, <2>1 DEF DbEdit, Repriced, ToCore, core
  <2>2. CASE ~DbEdit  BY <1>3, <2>2 DEF DbRemove, ToCore, core
  <2> QED  BY <2>1, <2>2
<1>5. ~CreateDone /\ ~PutDone
  <2>1. toDb # <<>> /\ toDb' = Tail(toDb)  BY DEF DbEdit, DbRemove, AtDb, TakenByDb
  <2>2. toDb' # toDb
    <3>1. Len(Tail(toDb)) # Len(toDb)  BY <2>1, WiresAre, HeadTailProperties, EmptySeq
    <3> QED  BY <2>1, <3>1
  <2> QED  BY <2>2 DEF CreateDone, PutDone
<1>6. dprice \in [Bots -> [Items -> Nat]]  BY DEF TypeOK, ShopsOK
<1>7. taken => dst[m.owner] # "none" /\ dprice[m.owner][m.item] > 0 /\ <<m.owner, m.item>> \notin locked
  BY DEF Editable, HasLine
<1> HIDE DEF m, p, x, taken
<1>8. CASE ~taken  BY <1>4, <1>5, <1>8, MirrorSteady
<1>9. CASE taken /\ o # m.owner
  <2>1. dprice'[o] = dprice[o]  BY <1>4, <1>6, <1>9
  <2>2. UNCHANGED <<cst, cprice, dst>> /\ toCore' = toCore \o <<x>> /\ x.owner # o  BY <1>2, <1>4, <1>9
  <2> QED  BY <1>2, <1>5, <2>1, <2>2, MirrorQuiet
<1>10. CASE taken /\ o = m.owner
  <2>1. PICK t \in Shelf : Due(o, t) /\ Leads(o, toCore, Mirror(o), t)  BY DEF Mirrored
  <2>2. dprice'[o] = [dprice[o] EXCEPT ![m.item] = p]  BY <1>4, <1>6, <1>10
  <2>3. ~Has(sql, Puts(o, m.item)) /\ ~Has(toCore, Granted(o, m.item))
    BY <1>1, <1>7, <1>10, LineStored
  <2>i. PICK i \in Items, k \in Nat : i = m.item /\ k = p  BY <1>1
  <2>4. PICK u \in Shelf : /\ u = Showing(t.st, [t.lines EXCEPT ![i] = k]) /\ Due(o, u)'
                           /\ \A j \in Items : j # i => u.lines[j] = t.lines[j]
    <3>1. dprice'[o] = [dprice[o] EXCEPT ![i] = k] /\ ~Has(sql, Puts(o, i))  BY <2>2, <2>3, <2>i
    <3>2. sql' = sql /\ dst'[o] = dst[o]  BY <1>4
    <3> QED  BY <2>1, <3>1, <3>2, MirrorLine
  <2>5. t.st # "none" /\ t.lines[m.item] > 0  BY <1>1, <1>7, <1>10, <2>1, <2>3 DEF Due
  <2>6. Shows(o, t, x, u)  BY <1>2, <1>10, <2>4, <2>5, <2>i DEF Shows
  <2>7. \A j \in Items : Has(toCore, Granted(o, j)) \/ x \in Granted(o, j) => u.lines[j] = t.lines[j]
    <3>1. \A j \in Items : x \notin Granted(o, j)  BY <1>2 DEF Granted
    <3> QED  BY <2>3, <2>4, <2>i, <3>1
  <2>8. cst'[o] = cst[o] /\ cprice'[o] = cprice[o] /\ toCore' = toCore \o <<x>>  BY <1>4, <1>10
  <2>9. PICK z \in Answers : z = x  BY <1>2
  <2> QED  BY <2>1, <2>4, <2>6, <2>7, <2>8, <2>9, MirrorSent
<1> QED  BY <1>8, <1>9, <1>10

LEMMA MirrorBought ==
  ASSUME TypeOK, Ledger, [Next]_vars, DbBuy, NEW o \in Bots, Mirrored(o) PROVE Mirrored(o)'
<1> DEFINE m == Head(toDb)
           y == [op |-> "yang", owner |-> m.owner, yang |-> Taxed(dprice[m.owner][m.item])]
           x == [op |-> "sold", who |-> m.who, owner |-> m.owner, item |-> m.item]
<1>0. Purchases  BY DEF Ledger
<1>1. /\ m \in Requests /\ m.op = "buy" /\ m.owner \in Bots /\ m.item \in Items /\ m.who \in Bots
      /\ <<m.owner, m.item>> \in locked /\ HasLine(m.owner, m.item)
  BY <1>0, PaymentLocked, DbTakes DEF TypeOK, DbBuy
<1>2. UNCHANGED <<cst, cprice, dst, sql>> /\ toDb # <<>> /\ toDb' = Tail(toDb)
  BY DEF DbBuy, core, AtDb, TakenByDb
<1>3. \/ UNCHANGED <<dprice, toCore>>
      \/ /\ toCore' = toCore \o <<y, x>>
         /\ dprice' = [dprice EXCEPT ![m.owner] = [@ EXCEPT ![m.item] = 0]]
  BY <1>1 DEF DbBuy, ToCore
<1>4. dprice \in [Bots -> [Items -> Nat]]  BY DEF TypeOK, ShopsOK
<1>5. y \in Answers /\ y.op = "yang" /\ y.owner = m.owner
  <2>1. dprice[m.owner][m.item] \in Nat  BY <1>1, <1>4
  <2>2. Taxed(dprice[m.owner][m.item]) \in Int  BY <2>1, TaxedIs
  <2> QED  BY <1>1, <2>2 DEF Answers, Paid
<1>6. x \in Answers /\ x.op = "sold" /\ x.owner = m.owner /\ x.item = m.item
  BY <1>1 DEF Answers, Shopping
<1>7. ~CreateDone /\ ~PutDone
  <2>2. toDb' # toDb
    <3>1. Len(Tail(toDb)) # Len(toDb)  BY <1>2, WiresAre, HeadTailProperties, EmptySeq
    <3> QED  BY <1>2, <3>1
  <2> QED  BY <2>2 DEF CreateDone, PutDone
<1>8. Has(toDb, Payments(m.owner, m.item))
  <2>1. m \in Payments(m.owner, m.item)  BY <1>1 DEF Payments
  <2> QED  BY <1>2, <2>1, WiresAre, QueueTaken
<1> HIDE DEF m, y, x
<1>9. CASE UNCHANGED <<dprice, toCore>>  BY <1>2, <1>7, <1>9, MirrorSteady
<1>10. CASE /\ toCore' = toCore \o <<y, x>>
            /\ dprice' = [dprice EXCEPT ![m.owner] = [@ EXCEPT ![m.item] = 0]]
  <2>1. PICK t \in Shelf : Due(o, t) /\ Leads(o, toCore, Mirror(o), t)  BY DEF Mirrored
  <2>2. toCore \in Seq(Answers)  BY WiresAre
  <2>3. Leads(o, toCore \o <<y>>, Mirror(o), t)
    <3>1. Shows(o, t, y, t)  BY <1>5 DEF Shows, Quiet
    <3> QED  BY <1>5, <2>1, <2>2, <3>1, LeadsFurther
  <2> DEFINE q == toCore \o <<y>>
  <2>4. q \in Seq(Answers) /\ toCore' = q \o <<x>>
    <3>1. <<y>> \in Seq(Answers) /\ <<x>> \in Seq(Answers)  BY <1>5, <1>6, Single
    <3>2. q \in Seq(Answers) /\ q \o <<x>> = toCore \o (<<y>> \o <<x>>)
      BY <2>2, <3>1, ConcatProperties, ConcatAssociative
    <3>3. <<y>> \o <<x>> = <<y, x>>
      <4>1. <<y>> \o <<x>> \in Seq({y, x}) /\ <<y, x>> \in Seq({y, x})  OBVIOUS
      <4>2. Len(<<y>> \o <<x>>) = 2 /\ Len(<<y, x>>) = 2  OBVIOUS
      <4>3. (<<y>> \o <<x>>)[1] = y /\ (<<y>> \o <<x>>)[2] = x /\ <<y, x>>[1] = y /\ <<y, x>>[2] = x  OBVIOUS
      <4>4. \A n \in 1..2 : (<<y>> \o <<x>>)[n] = <<y, x>>[n]  BY <4>3
      <4> QED  BY <4>1, <4>2, <4>4, SeqEqual
    <3> QED  BY <1>10, <3>2, <3>3
  <2> HIDE DEF q
  <2>5. PICK u \in Shelf :
          /\ Shows(o, t, x, u) /\ Due(o, u)'
          /\ \A i \in Items : Has(q, Granted(o, i)) \/ x \in Granted(o, i) => u.lines[i] = t.lines[i]
    <3>1. \A i \in Items : x \notin Granted(o, i) /\ y \notin Granted(o, i)  BY <1>5, <1>6 DEF Granted
    <3>2. \A i \in Items : Has(q, Granted(o, i)) <=> Has(toCore, Granted(o, i))
      BY <1>5, <2>2, <3>1, QueueSent DEF q
    <3>3. CASE o # m.owner
      <4>1. dprice'[o] = dprice[o] /\ dst'[o] = dst[o]  BY <1>2, <1>4, <1>10, <3>3
      <4>2. Due(o, t)'  BY <1>7, <2>1, <4>1, PutsKept, DueKept
      <4>3. Shows(o, t, x, t)  BY <1>6, <3>3 DEF Shows
      <4> QED  BY <4>2, <4>3
    <3>4. CASE o = m.owner
      <4>1. dst[o] # "none" /\ dprice[o][m.item] > 0  BY <1>1, <3>4 DEF HasLine
      <4>2. ~Has(sql, Puts(o, m.item)) /\ ~Has(toCore, Granted(o, m.item))
        BY <1>1, <1>8, <3>4, <4>1, LineStored
      <4>3. dprice'[o] = [dprice[o] EXCEPT ![m.item] = 0]  BY <1>4, <1>10, <3>4
      <4>i. PICK i \in Items : i = m.item  BY <1>1
      <4>4. PICK u \in Shelf : /\ u = Showing(t.st, [t.lines EXCEPT ![i] = 0]) /\ Due(o, u)'
                               /\ \A j \in Items : j # i => u.lines[j] = t.lines[j]
        <5>1. dprice'[o] = [dprice[o] EXCEPT ![i] = 0] /\ ~Has(sql, Puts(o, i))  BY <4>2, <4>3, <4>i
        <5>2. sql' = sql /\ dst'[o] = dst[o]  BY <1>2
        <5> QED  BY <2>1, <5>1, <5>2, MirrorLine
      <4>5. t.st # "none" /\ t.lines[m.item] > 0  BY <1>1, <2>1, <4>1, <4>2 DEF Due
      <4>6. Shows(o, t, x, u)  BY <1>6, <3>4, <4>4, <4>5, <4>i DEF Shows
      <4>7. \A j \in Items : Has(q, Granted(o, j)) \/ x \in Granted(o, j) => u.lines[j] = t.lines[j]
        BY <3>1, <3>2, <4>2, <4>4, <4>i
      <4> QED  BY <4>4, <4>6, <4>7
    <3> QED  BY <3>3, <3>4
  <2>6. Leads(o, toCore', Mirror(o), u)  BY <1>6, <2>3, <2>4, <2>5, LeadsFurther DEF q
  <2>7. Mirror(o)' = Mirror(o)  BY <1>2 DEF Mirror
  <2>8. Leads(o, toCore', Mirror(o)', u)  BY <2>6, <2>7
  <2> QED  BY <2>5, <2>8 DEF Mirrored
<1> QED  BY <1>3, <1>9, <1>10

\* The shop is closed for good: nothing is on it, and nothing will be.
LEMMA MirrorShut ==
  ASSUME TypeOK, [Next]_vars, DbHardClose, NEW o \in Bots, Shelving(o), Mirrored(o)
  PROVE  Mirrored(o)'
<1> DEFINE m == Head(toDb)
           x == [op |-> "closed", owner |-> m.owner]
           taken == dst[m.owner] # "none" /\ dprice[m.owner] = NoLines
<1>1. m \in Requests /\ m.op = "hardclose" /\ m.owner \in Bots
  BY DbTakes, RequestShapes DEF TypeOK, DbHardClose
<1>2. x \in Answers /\ x.op = "closed" /\ x.owner = m.owner  BY <1>1 DEF Answers
<1>3. toCore \in Seq(Answers) /\ toCore \o <<>> = toCore  BY WiresAre, ConcatProperties
<1>4. /\ UNCHANGED <<cst, cprice, dprice, sql>> /\ toDb # <<>> /\ toDb' = Tail(toDb)
      /\ taken => toCore' = toCore \o <<x>> /\ dst' = [dst EXCEPT ![m.owner] = "none"]
      /\ ~taken => toCore' = toCore /\ dst' = dst
  BY <1>3 DEF DbHardClose, ToCore, core, AtDb, TakenByDb
<1>5. ~CreateDone /\ ~PutDone
  <2>2. toDb' # toDb
    <3>1. Len(Tail(toDb)) # Len(toDb)  BY <1>4, WiresAre, HeadTailProperties, EmptySeq
    <3> QED  BY <1>4, <3>1
  <2> QED  BY <2>2 DEF CreateDone, PutDone
<1>6. dst \in [Bots -> {"none", "closed", "open"}] /\ dprice \in [Bots -> [Items -> Nat]]
  BY DEF TypeOK, ShopsOK
<1>7. m.owner = o => Has(toDb, Closings(o))
  <2>1. m.owner = o => m \in Closings(o)  BY <1>1 DEF Closings
  <2> QED  BY <1>4, <2>1, WiresAre, QueueTaken
<1>8. taken <=> dst[m.owner] # "none" /\ dprice[m.owner] = NoLines  OBVIOUS
<1> HIDE DEF m, x, taken
<1>9. CASE ~taken  BY <1>4, <1>5, <1>9, MirrorSteady
<1>10. CASE taken /\ o # m.owner
  <2>1. dst'[o] = dst[o]  BY <1>4, <1>6, <1>10
  <2>2. UNCHANGED <<cst, cprice, dprice>> /\ toCore' = toCore \o <<x>> /\ x.owner # o  BY <1>2, <1>4, <1>10
  <2>3. PICK z \in Answers : z = x  BY <1>2
  <2> QED  BY <1>5, <2>1, <2>2, <2>3, MirrorQuiet
<1>11. CASE taken /\ o = m.owner
  <2>1. PICK t \in Shelf : Due(o, t) /\ Leads(o, toCore, Mirror(o), t)  BY DEF Mirrored
  <2>2. dst[o] # "none" /\ dprice[o] = NoLines  BY <1>8, <1>11
  <2>3. \A i \in Items : ~Has(sql, Puts(o, i))
    BY <1>7, <1>11, PutsAre, HasMore DEF Shelving, KeptOpen
  <2>4. t.lines = NoLines
    <3>1. \A i \in Items : t.lines[i] = 0  BY <2>1, <2>2, <2>3 DEF Due, NoLines
    <3> QED  BY <3>1, ShelfIs, LineThere
  <2> DEFINE u == Showing("none", NoLines)
  <2>5. u \in Shelf /\ u.st = "none" /\ u.lines = NoLines
    <3>1. NoLines \in [Items -> Nat]  BY DEF NoLines
    <3> QED  BY <3>1, ShowingIs
  <2>6. Shows(o, t, x, u)  BY <1>2, <1>11, <2>1, <2>2 DEF Shows, Due
  <2> HIDE DEF u
  <2>7. PICK v \in Shelf : v = u  BY <2>5
  <2>8. dst'[o] = "none" /\ dprice'[o] = NoLines /\ sql' = sql  BY <1>4, <1>6, <1>11, <2>2
  <2>9. Due(o, v)'
    <3>1. \A i \in Items : \A g \in Puts(o, i) : ~Has(sql, {g})
      <4> SUFFICES ASSUME NEW i \in Items, NEW g \in Puts(o, i) PROVE ~Has(sql, {g})  OBVIOUS
      <4>1. {g} \subseteq Puts(o, i)  OBVIOUS
      <4> QED  BY <2>3, <4>1, HasMore
    <3> QED  BY <2>5, <2>7, <2>8, <3>1 DEF Due
  <2>10. PICK z \in Answers : z = x  BY <1>2
  <2>11. cst'[o] = cst[o] /\ cprice'[o] = cprice[o] /\ toCore' = toCore \o <<z>>  BY <1>4, <1>11, <2>10
  <2>12. \A i \in Items : v.lines[i] = t.lines[i]  BY <2>4, <2>5, <2>7
  <2>13. Shows(o, t, z, v)  BY <2>6, <2>7, <2>10
  <2> QED  BY <2>1, <2>9, <2>11, <2>12, <2>13, MirrorSent
<1> QED  BY <1>9, <1>10, <1>11

\* A shop's time is over.
LEMMA MirrorExpired ==
  ASSUME TypeOK, [Next]_vars, NEW p \in Owners, Expire(p), NEW o \in Bots, Mirrored(o)
  PROVE  Mirrored(o)'
<1>0. p \in Bots  BY BotsAssumption
<1>1. PICK x \in Answers : x.op = "expired" /\ x.owner = p /\ toCore' = toCore \o <<x>>
  <2>1. [op |-> "expired", owner |-> p] \in Answers  BY <1>0 DEF Answers
  <2> QED  BY <2>1 DEF Expire, ToCore
<1>2. UNCHANGED <<cst, cprice, dprice, sql>> /\ dst' = [dst EXCEPT ![p] = "closed"] /\ dst[p] = "open"
  BY DEF Expire, core
<1>3. dst \in [Bots -> {"none", "closed", "open"}]  BY DEF TypeOK, ShopsOK
<1>4. PICK t \in Shelf : Due(o, t) /\ Leads(o, toCore, Mirror(o), t)  BY DEF Mirrored
<1>5. CASE o # p
  <2>1. SameLines(o)  BY <1>2, <1>3, <1>5 DEF SameLines
  <2>2. Due(o, t)'  BY <1>4, <2>1, DueKept
  <2>3. Shows(o, t, x, t)  BY <1>1, <1>5 DEF Shows
  <2>4. cst'[o] = cst[o] /\ cprice'[o] = cprice[o]  BY <1>2
  <2> QED  BY <1>1, <1>4, <2>2, <2>3, <2>4, MirrorSent
<1>6. CASE o = p
  <2>1. PICK u \in Shelf : u = Showing("closed", t.lines) /\ u.st = "closed" /\ u.lines = t.lines
    BY ShelfIs, ShowingIs
  <2>2. Shows(o, t, x, u)  BY <1>1, <1>2, <1>4, <1>6, <2>1 DEF Shows, Due
  <2>3. dst'[o] = "closed" /\ dprice' = dprice /\ sql' = sql  BY <1>2, <1>3, <1>6
  <2>4. Due(o, u)'  BY <1>4, <2>1, <2>3 DEF Due
  <2>5. cst'[o] = cst[o] /\ cprice'[o] = cprice[o]  BY <1>2
  <2>6. \A i \in Items : u.lines[i] = t.lines[i]  BY <2>1
  <2> QED  BY <1>1, <1>4, <2>2, <2>4, <2>5, <2>6, MirrorSent
<1> QED  BY <1>5, <1>6

\* A line joins a shop that is there; one of no shop is dropped on both sides.
LEMMA MirrorAdded ==
  ASSUME TypeOK, Ledger, [Next]_vars, AddDone, NEW o \in Bots, Mirrored(o)
  PROVE  Mirrored(o)'
<1> DEFINE m == Head(sql)
           x == [op |-> "added", owner |-> m.owner, item |-> m.item, price |-> m.price]
<1>1. m \in Queries /\ m.op = "add" /\ m.owner \in Bots /\ m.item \in Items /\ m.price \in Nat \ {0}
  BY SqlTakes, QueryShapes DEF TypeOK, AddDone
<1>2. x \in Answers /\ x.op = "added" /\ x.owner = m.owner /\ x.item = m.item /\ x.price = m.price
  BY <1>1 DEF Answers, Priced
<1>3. UNCHANGED <<cst, cprice, dst>> /\ toCore' = toCore \o <<x>> /\ Put(m.owner, m.item, m.price)
  BY DEF AddDone, ToCore, core
<1>4. ~CreateDone /\ ~PutDone
  BY <1>1 DEF CreateDone, PutDone, AtSql
<1>5. dst \in [Bots -> {"none", "closed", "open"}] /\ dprice \in [Bots -> [Items -> Nat]]
  BY DEF TypeOK, ShopsOK
<1>6. Queried(m.item) /\ \A i \in Items : ~(m \in QueriesWith(i)) \/ i = m.item
  <2>1. m \in QueriesWith(m.item)  BY <1>1 DEF QueriesWith
  <2>2. sql # <<>>  BY DEF AddDone, AtSql
  <2>3. Queried(m.item)  BY <2>1, <2>2, WiresAre, QueueTaken DEF Queried
  <2> QED  BY <1>1, <2>3 DEF QueriesWith
<1> HIDE DEF m, x
<1>7. PICK i \in Items, p \in Nat, z \in Answers : i = m.item /\ p = m.price /\ z = x  BY <1>1, <1>2
<1>8. dprice[m.owner][i] = 0 /\ Apart(i)
  <2>1. Apart(i)  BY DEF Ledger
  <2>2. Queried(i)  BY <1>6, <1>7
  <2>3. ~(dprice[m.owner][i] > 0)  BY <1>1, <2>1, <2>2, QueriedOnly DEF AwayFromSale, OnSale
  <2> QED  BY <1>1, <1>5, <2>1, <2>3
<1>9. CASE o # m.owner
  <2>1. dprice'[o] = dprice[o]  BY <1>1, <1>3, <1>5, <1>9 DEF Put
  <2>2. cst'[o] = cst[o] /\ cprice'[o] = cprice[o] /\ dst'[o] = dst[o]
        /\ z.owner # o /\ toCore' = toCore \o <<z>>
    BY <1>2, <1>3, <1>7, <1>9
  <2> QED  BY <1>4, <2>1, <2>2, MirrorQuiet
<1>10. CASE o = m.owner
  <2>1. PICK t \in Shelf : Due(o, t) /\ Leads(o, toCore, Mirror(o), t)  BY DEF Mirrored
  <2>2. ~Has(sql, Puts(o, i)) /\ ~Has(toCore, Granted(o, i))
    <3>1. Has(toCore, Granted(o, i)) => dprice[o][i] > 0  BY LineStored
    <3>2. m \notin Puts(o, i) /\ m \in QueriesWith(i) /\ Puts(o, i) \subseteq QueriesWith(i)
      BY <1>1, <1>7, PutsAre DEF Puts, QueriesWith
    <3>3. ~Has(Tail(sql), QueriesWith(i))
      BY <1>8, <3>2, TookQuery DEF AddDone, AtSql, m
    <3>4. ~Has(Tail(sql), Puts(o, i))  BY <3>2, <3>3, HasMore
    <3>5. Has(sql, Puts(o, i)) <=> m \in Puts(o, i) \/ Has(Tail(sql), Puts(o, i))
      BY Queried1 DEF AddDone, m
    <3> QED  BY <1>8, <1>10, <3>1, <3>2, <3>4, <3>5
  <2>3. cst'[o] = cst[o] /\ cprice'[o] = cprice[o] /\ dst'[o] = dst[o] /\ toCore' = toCore \o <<z>>
        /\ z.op = "added" /\ z.owner = o /\ z.item = i /\ z.price = p
    BY <1>2, <1>3, <1>7, <1>10
  <2>4. CASE dst[o] = "none"
    <3>1. dprice' = dprice  BY <1>3, <1>10, <2>4 DEF Put
    <3>2. Due(o, t)'  BY <1>4, <2>1, <2>3, <3>1, PutsKept, DueKept
    <3>3. Shows(o, t, z, t)  BY <2>1, <2>3, <2>4 DEF Shows, Due
    <3> QED  BY <2>1, <2>3, <3>2, <3>3, MirrorSent
  <2>5. CASE dst[o] # "none"
    <3>1. dprice' = [dprice EXCEPT ![o] = [@ EXCEPT ![i] = p]]
      BY <1>3, <1>7, <1>8, <1>10, <2>5 DEF Put
    <3>2. dprice'[o] = [dprice[o] EXCEPT ![i] = p]  BY <1>5, <3>1
    <3>3. \A j \in Items : \A g \in Puts(o, j) : Has(sql', {g}) <=> Has(sql, {g})
      <4> SUFFICES ASSUME NEW j \in Items, NEW g \in Puts(o, j)
                   PROVE  Has(sql', {g}) <=> Has(sql, {g})
        OBVIOUS
      <4>1. \A y \in {g} : ~Querying(y.op)  BY <1>4 DEF Puts, Querying
      <4> QED  BY <4>1, QueriesAside
    <3>4. PICK u \in Shelf : /\ u = Showing(t.st, [t.lines EXCEPT ![i] = p]) /\ Due(o, u)'
                             /\ \A j \in Items : j # i => u.lines[j] = t.lines[j]
      <4>1. Due(o, t) /\ ~Has(sql, Puts(o, i)) /\ dst'[o] = dst[o]  BY <2>1, <2>2, <2>3
      <4>2. \A j \in Items : \A m_1 \in Puts(o, j) : Has(sql', {m_1}) <=> Has(sql, {m_1})  BY <3>3
      <4>3. TypeOK /\ Ledger /\ o \in Bots /\ i \in Items /\ p \in Nat /\ t \in Shelf  OBVIOUS
      <4>4. ~Has(sql, Puts(o, i))  BY <4>1
      <4>5. Due(o, t)  BY <4>1
      <4>6. dst'[o] = dst[o]  BY <4>1
      <4> QED  BY <3>2, <4>2, <4>3, <4>4, <4>5, <4>6, MirrorLine, SMTT(60)
    <3>5. Shows(o, t, z, u)  BY <2>1, <2>3, <2>5, <3>4 DEF Shows, Due
    <3>6. \A j \in Items : Has(toCore, Granted(o, j)) \/ z \in Granted(o, j) => u.lines[j] = t.lines[j]
      <4>1. \A j \in Items : z \notin Granted(o, j)  BY <2>3 DEF Granted
      <4> QED  BY <2>2, <3>4, <4>1
    <3> QED  BY <2>1, <2>3, <3>4, <3>5, <3>6, MirrorSent
  <2> QED  BY <2>4, <2>5
<1> QED  BY <1>9, <1>10

\* A new shop, or one that opens again.
LEMMA MirrorOpened ==
  ASSUME TypeOK, Ledger, [Next]_vars, CreateDone,
         NEW o \in Bots, Opening(o), Shelving(o), Mirrored(o)
  PROVE  Mirrored(o)'
<1> DEFINE m == Head(sql)
           p == [m EXCEPT !.op = "put"]
           a == [op |-> "created", owner |-> m.owner, lines |-> m.lines]
<1>1. /\ m \in Queries /\ m.op = "create" /\ m.owner \in Bots /\ m.lines \in [Items -> Nat]
      /\ p \in Queries /\ p.op = "put" /\ p.owner = m.owner /\ p.lines = m.lines
      /\ \A S : Has(sql, S) <=> m \in S \/ Has(Tail(sql), S)
      /\ \A S : Has(sql', S) <=> Has(Tail(sql), S) \/ (m.lines # NoLines /\ p \in S)
  BY CreateQueried
<1>2. a \in Answers /\ a.op = "created" /\ a.owner = m.owner /\ a.lines = m.lines
  BY <1>1 DEF Answers, Stocking
<1>3. toCore' = toCore \o <<a>> /\ UNCHANGED <<cst, cprice, dprice>>
      /\ dst' = [dst EXCEPT ![m.owner] = "open"]
  BY DEF CreateDone, ToCore, core
<1>4. dst \in [Bots -> {"none", "closed", "open"}] /\ dprice \in [Bots -> [Items -> Nat]]
  BY DEF TypeOK, ShopsOK
<1>5. PICK t \in Shelf : Due(o, t) /\ Leads(o, toCore, Mirror(o), t)  BY DEF Mirrored
<1>6. t.lines \in [Items -> Nat] /\ t.st \in {"none", "closed", "open"}  BY ShelfIs
<1> HIDE DEF m, p, a
<1>7. PICK z \in Answers : z = a  BY <1>2
<1>8. CASE o # m.owner
  <2>1. \A i \in Items : \A g \in Puts(o, i) : Has(sql', {g}) <=> Has(sql, {g})
    <3> SUFFICES ASSUME NEW i \in Items, NEW g \in Puts(o, i)
                 PROVE  Has(sql', {g}) <=> Has(sql, {g})
      OBVIOUS
    <3>1. m \notin {g} /\ p \notin {g}  BY <1>1, <1>8 DEF Puts
    <3> QED  BY <1>1, <3>1
  <2>2. dst'[o] = dst[o] /\ dprice'[o] = dprice[o]  BY <1>3, <1>4, <1>8
  <2>3. Due(o, t)'  BY <1>5, <2>1, <2>2, DueKept DEF SameLines
  <2>4. Shows(o, t, z, t)  BY <1>2, <1>7, <1>8 DEF Shows
  <2>5. cst'[o] = cst[o] /\ cprice'[o] = cprice[o] /\ toCore' = toCore \o <<z>>  BY <1>3, <1>7
  <2> QED  BY <1>5, <2>3, <2>4, <2>5, MirrorSent
<1>9. CASE o = m.owner
  <2>1. dst[o] # "open"
    <3>1. Has(sql, Creations(o))  BY <1>1, <1>9 DEF Creations
    <3>2. ~Has(toCore, Createds(o)) /\ cst[o] # "open"  BY <3>1 DEF Opening
    <3> QED  BY <3>2, NotYetOpen
  <2>2. m.lines # NoLines => \A i \in Items : ~Has(sql, Puts(o, i))
    <3> SUFFICES ASSUME m.lines # NoLines, NEW i \in Items PROVE ~Has(sql, Puts(o, i))  OBVIOUS
    <3>1. Has(sql, Creations(o)) /\ Has(sql, OfferQueries(o))
      BY <1>1, <1>9 DEF Creations, OfferQueries
    <3>2. ~Has(toCore, Createds(o)) /\ cst[o] = "none"  BY <3>1 DEF Opening, Shelving, Unseen
    <3>3. dst[o] = "none"  BY <3>2, NotYetThere
    <3>4. ~Has(sql, Stockings(o))  BY <3>3 DEF Shelving, KeptOpen
    <3> QED  BY <3>4, PutsAre, HasMore
  <2> DEFINE f == [i \in Items |-> IF m.lines[i] > 0 THEN m.lines[i] ELSE t.lines[i]]
  <2>3. f \in [Items -> Nat]  BY <1>1, <1>6
  <2>4. \A i \in Items : f[i] = IF m.lines[i] > 0 THEN m.lines[i] ELSE t.lines[i]  OBVIOUS
  <2>5. Showing("open", f) \in Shelf /\ Showing("open", f).st = "open" /\ Showing("open", f).lines = f
    BY <2>3, ShowingIs
  <2>6. Shows(o, t, a, Showing("open", f))
    <3>1. t.st # "open"  BY <1>5, <2>1 DEF Due
    <3> QED  BY <1>2, <1>9, <3>1 DEF Shows
  <2> HIDE DEF f
  <2>7. PICK u \in Shelf : u = Showing("open", f)  BY <2>5
  <2>8. dst'[o] = "open" /\ dprice' = dprice  BY <1>3, <1>4, <1>9
  <2>9. \A i \in Items : ~Has(sql', Puts(o, i)) => u.lines[i] = dprice'[o][i]
    <3> SUFFICES ASSUME NEW i \in Items, ~Has(sql', Puts(o, i)) PROVE u.lines[i] = dprice[o][i]
      BY <2>8
    <3>1. ~(m.lines[i] > 0)
      <4>1. m.lines[i] > 0 => m.lines # NoLines  BY <1>1, LineThere
      <4>2. m.lines[i] > 0 => p \in Puts(o, i)  BY <1>1, <1>9 DEF Puts
      <4> QED  BY <1>1, <4>1, <4>2
    <3>2. ~Has(sql, Puts(o, i))
      <4>1. m \notin Puts(o, i)  BY <1>1 DEF Puts
      <4> QED  BY <1>1, <4>1
    <3> QED  BY <1>5, <2>4, <2>5, <2>7, <3>1, <3>2 DEF Due
  <2>10. \A i \in Items : \A g \in Puts(o, i) : Has(sql', {g}) => u.lines[i] = g.lines[i]
    <3> SUFFICES ASSUME NEW i \in Items, NEW g \in Puts(o, i), Has(sql', {g})
                 PROVE  u.lines[i] = g.lines[i]
      OBVIOUS
    <3>1. CASE m.lines # NoLines
      <4>1. ~Has(sql, {g})
        <5>1. {g} \subseteq Puts(o, i)  OBVIOUS
        <5> QED  BY <2>2, <3>1, <5>1, HasMore
      <4>2. g = p  BY <1>1, <4>1
      <4>3. g.lines = m.lines /\ m.lines[i] > 0  BY <1>1, <4>2 DEF Puts
      <4> QED  BY <2>4, <2>5, <2>7, <4>3
    <3>2. CASE m.lines = NoLines
      <4>1. Has(sql, {g})  BY <1>1, <3>2
      <4>2. t.lines[i] = g.lines[i]  BY <1>5, <4>1 DEF Due
      <4>3. ~(m.lines[i] > 0)  BY <3>2 DEF NoLines
      <4> QED  BY <2>4, <2>5, <2>7, <4>2, <4>3
    <3> QED  BY <3>1, <3>2
  <2>11. Due(o, u)'  BY <2>5, <2>7, <2>8, <2>9, <2>10 DEF Due
  <2>12. \A i \in Items : Has(toCore, Granted(o, i)) \/ z \in Granted(o, i) => u.lines[i] = t.lines[i]
    <3> SUFFICES ASSUME NEW i \in Items, Has(toCore, Granted(o, i)) \/ z \in Granted(o, i)
                 PROVE  u.lines[i] = t.lines[i]
      OBVIOUS
    <3>1. z \notin Granted(o, i)  BY <1>2, <1>7 DEF Granted
    <3>2. ~Queried(i)  BY <3>1, LineStored
    <3>3. ~(m.lines[i] > 0)
      <4>1. m.lines[i] > 0 => m \in QueriesWith(i)  BY <1>1 DEF QueriesWith
      <4> QED  BY <1>1, <3>2, <4>1 DEF Queried
    <3> QED  BY <2>4, <2>5, <2>7, <3>3
  <2>13. cst'[o] = cst[o] /\ cprice'[o] = cprice[o] /\ toCore' = toCore \o <<z>>  BY <1>3, <1>7
  <2>14. Shows(o, t, z, u)  BY <1>7, <2>6, <2>7
  <2>15. Leads(o, toCore, Mirror(o), t)  BY <1>5
  <2> QED  BY <2>11, <2>12, <2>13, <2>14, <2>15, MirrorSent
<1> QED  BY <1>8, <1>9

\* One of its lines is stored, as it has been announced.
LEMMA MirrorStored ==
  ASSUME TypeOK, Ledger, [Next]_vars, PutDone, NEW o \in Bots, Shelving(o), Mirrored(o)
  PROVE  Mirrored(o)'
<1> DEFINE m == Head(sql)
<1>1. /\ m \in Queries /\ m.op = "put" /\ m.owner \in Bots /\ m.lines \in [Items -> Nat]
      /\ \A S : Has(sql, S) <=> m \in S \/ Has(Tail(sql), S)
  BY PutQueried
<1>2. PICK i \in Items, rest \in [Items -> Nat], p \in Queries :
        /\ m.lines[i] > 0 /\ rest = [m.lines EXCEPT ![i] = 0] /\ Put(m.owner, i, m.lines[i])
        /\ p.op = "put" /\ p.owner = m.owner /\ p.lines = rest
        /\ \A S : Has(sql', S) <=> (rest # NoLines /\ p \in S) \/ Has(Tail(sql), S)
  BY PutQueried
<1>3. UNCHANGED <<toCore, cst, cprice, dst>>  BY DEF PutDone, core
<1>4. dprice \in [Bots -> [Items -> Nat]]  BY DEF TypeOK, ShopsOK
<1> HIDE DEF m
<1>5. CASE o # m.owner
  <2>1. \A j \in Items : \A g \in Puts(o, j) : Has(sql', {g}) <=> Has(sql, {g})
    <3> SUFFICES ASSUME NEW j \in Items, NEW g \in Puts(o, j)
                 PROVE  Has(sql', {g}) <=> Has(sql, {g})
      OBVIOUS
    <3>1. m \notin {g} /\ p \notin {g}  BY <1>1, <1>2, <1>5 DEF Puts
    <3> QED  BY <1>1, <1>2, <3>1
  <2>2. dprice'[o] = dprice[o]  BY <1>1, <1>2, <1>4, <1>5 DEF Put
  <2>3. SameLines(o)  BY <1>3, <2>1, <2>2 DEF SameLines
  <2> QED  BY <1>3, <2>3, MirrorKept
<1>6. CASE o = m.owner
  <2>1. PICK t \in Shelf : Due(o, t) /\ Leads(o, toCore, Mirror(o), t)  BY DEF Mirrored
  <2>2. m \in Puts(o, i) /\ Has(sql, Puts(o, i)) /\ Has(sql, {m})  BY <1>1, <1>2, <1>6 DEF Puts
  <2>3. t.lines[i] = m.lines[i]  BY <2>1, <2>2 DEF Due
  <2>4. dst[o] # "none"
    <3>1. Has(sql, Stockings(o))  BY <2>2, PutsAre, HasMore
    <3> QED  BY <3>1 DEF Shelving, KeptOpen
  <2>5. dprice[o][i] = 0
    <3>1. ~(dprice[o][i] > 0)  BY <2>2, LineStored
    <3> QED  BY <1>4, <3>1
  <2>6. dprice'[o] = [dprice[o] EXCEPT ![i] = m.lines[i]]
    <3>1. dprice' = [dprice EXCEPT ![o] = [@ EXCEPT ![i] = m.lines[i]]]
      BY <1>2, <1>6, <2>4, <2>5 DEF Put
    <3> QED  BY <1>4, <3>1
  <2>7. dprice'[o][i] = m.lines[i] /\ \A j \in Items : j # i => dprice'[o][j] = dprice[o][j]
    BY <1>4, <2>6
  <2>8. rest[i] = 0 /\ \A j \in Items : j # i => rest[j] = m.lines[j]  BY <1>1, <1>2
  <2>9. \A j \in Items : j # i => (p \in Puts(o, j) <=> m \in Puts(o, j))
    BY <1>1, <1>2, <2>8 DEF Puts
  <2>10. \A j \in Items : ~Has(sql', Puts(o, j)) => t.lines[j] = dprice'[o][j]
    <3> SUFFICES ASSUME NEW j \in Items, ~Has(sql', Puts(o, j)) PROVE t.lines[j] = dprice'[o][j]
      OBVIOUS
    <3>1. CASE j = i  BY <2>3, <2>7, <3>1
    <3>2. CASE j # i
      <4>1. m \notin Puts(o, j)
        <5>1. SUFFICES ASSUME m \in Puts(o, j) PROVE FALSE  OBVIOUS
        <5>2. p \in Puts(o, j) /\ rest[j] > 0  BY <1>2, <2>9, <3>2, <5>1 DEF Puts
        <5>3. rest # NoLines  BY <5>2, LineThere
        <5> QED  BY <1>2, <5>2, <5>3
      <4>2. ~Has(sql, Puts(o, j))  BY <1>1, <1>2, <4>1
      <4> QED  BY <2>1, <2>7, <3>2, <4>2 DEF Due
    <3> QED  BY <3>1, <3>2
  <2>11. \A j \in Items : \A g \in Puts(o, j) : Has(sql', {g}) => t.lines[j] = g.lines[j]
    <3> SUFFICES ASSUME NEW j \in Items, NEW g \in Puts(o, j), Has(sql', {g})
                 PROVE  t.lines[j] = g.lines[j]
      OBVIOUS
    <3>1. CASE g = p
      <4>1. p \in Puts(o, j) /\ rest[j] > 0 /\ j # i /\ g.lines[j] = m.lines[j]
        BY <1>2, <2>8, <3>1 DEF Puts
      <4>2. m \in Puts(o, j)  BY <2>9, <4>1
      <4>3. t.lines[j] = m.lines[j]  BY <2>1, <2>2, <4>2 DEF Due
      <4> QED  BY <4>1, <4>3
    <3>2. CASE g # p
      <4>1. Has(sql, {g})  BY <1>1, <1>2, <3>2
      <4> QED  BY <2>1, <4>1 DEF Due
    <3> QED  BY <3>1, <3>2
  <2>12. Due(o, t)'
    <3>1. t.st = dst'[o]  BY <1>3, <2>1 DEF Due
    <3> QED  BY <2>10, <2>11, <3>1 DEF Due
  <2>13. Mirror(o)' = Mirror(o)  BY <1>3 DEF Mirror
  <2>14. Leads(o, toCore', Mirror(o)', t)  BY <1>3, <2>1, <2>13
  <2> QED  BY <2>12, <2>14 DEF Mirrored
<1> QED  BY <1>5, <1>6

\* Answers that are about no line.
LEMMA MirrorAnswered ==
  ASSUME TypeOK, [Next]_vars, DbLock \/ DbGetItem \/ DbLoadBox \/ BoxAddDone,
         ~CreateDone, ~PutDone, NEW o \in Bots, Mirrored(o)
  PROVE  Mirrored(o)'
<1>1. UNCHANGED <<cst, cprice, dst, dprice>>
  BY DEF DbLock, DbGetItem, DbLoadBox, BoxAddDone, core, dshops
<1>2. toCore \in Seq(Answers) /\ toCore \o <<>> = toCore  BY WiresAre, ConcatProperties
<1>3. toCore' = toCore \/ \E x \in Answers : x.op \in Quiet \cup {"locked"} /\ toCore' = toCore \o <<x>>
  <2>1. CASE DbLock
    <3> DEFINE m == Head(toDb)
               x == [op |-> IF MayLock(m) THEN "locked" ELSE "refused",
                     who |-> m.who, owner |-> m.owner, item |-> m.item]
    <3>1. m.who \in Bots /\ m.owner \in Bots /\ m.item \in Items
      BY <2>1, DbTakes, RequestShapes DEF TypeOK, DbLock
    <3>2. x \in Answers /\ x.op \in Quiet \cup {"locked"}  BY <3>1 DEF Answers, Shopping, Quiet
    <3>3. toCore' = toCore \o <<x>>  BY <2>1 DEF DbLock, ToCore
    <3> QED  BY <3>2, <3>3
  <2>2. CASE DbGetItem
    <3> DEFINE m == Head(toDb)
               x == [op |-> "confirm", owner |-> m.owner, item |-> m.item]
    <3>1. m.owner \in Bots /\ m.item \in Items
      BY <2>2, DbTakes, RequestShapes DEF TypeOK, DbGetItem
    <3>2. x \in Answers /\ x.op \in Quiet \cup {"locked"}  BY <3>1 DEF Answers, Named, Quiet
    <3>3. toCore' = toCore \o <<x>> \/ toCore' = toCore  BY <1>2, <2>2 DEF DbGetItem, ToCore
    <3> QED  BY <3>2, <3>3
  <2>3. CASE DbLoadBox
    <3> DEFINE b == Head(toDb).owner
               x == [op |-> "box", owner |-> b, items |-> dbox[b], yang |-> dyang[b]]
    <3>1. b \in Bots  BY <2>3, DbTakes, RequestShapes DEF TypeOK, DbLoadBox
    <3>2. dbox[b] \in SUBSET Items /\ dyang[b] \in Int  BY <3>1 DEF TypeOK, BoxesOK
    <3>3. x \in Answers /\ x.op \in Quiet \cup {"locked"}  BY <3>1, <3>2 DEF Answers, Quiet
    <3>4. toCore' = toCore \o <<x>>  BY <2>3 DEF DbLoadBox, ToCore
    <3> QED  BY <3>3, <3>4
  <2>4. CASE BoxAddDone
    <3> DEFINE m == Head(sql)
               x == [op |-> "boxed", owner |-> m.owner, item |-> m.item]
    <3>1. m.owner \in Bots /\ m.item \in Items
      BY <2>4, SqlTakes, QueryShapes DEF TypeOK, BoxAddDone
    <3>2. x \in Answers /\ x.op \in Quiet \cup {"locked"}  BY <3>1 DEF Answers, Named, Quiet
    <3>3. toCore' = toCore \o <<x>>  BY <2>4 DEF BoxAddDone, ToCore
    <3> QED  BY <3>2, <3>3
  <2> QED  BY <2>1, <2>2, <2>3, <2>4
<1> QED  BY <1>1, <1>3, MirrorQuiet, MirrorSteady

\* Nothing that concerns the shops.
LEMMA MirrorAside ==
  ASSUME TypeOK, [Next]_vars, ~CreateDone, ~PutDone, NEW o \in Bots, Mirrored(o),
         \/ DbCreate \/ DbAdd \/ DbBoxAdd \/ DbGetYang \/ DbFeedback
         \/ Trade \/ Journeys \/ UNCHANGED vars
  PROVE  Mirrored(o)'
<1>1. CASE DbCreate \/ DbAdd \/ DbBoxAdd \/ DbGetYang \/ DbFeedback \/ UNCHANGED vars
  <2>1. UNCHANGED <<cst, cprice, dst, dprice, toCore>>
    BY <1>1 DEF DbCreate, DbAdd, DbBoxAdd, DbGetYang, DbFeedback, vars, core, dshops
  <2> QED  BY <2>1, MirrorSteady
<1>2. CASE Trade \/ Journeys
  <2>1. UNCHANGED <<cst, cprice, dst, dprice, toCore>>
    <3>1. CASE Trade  BY <3>1, TradeKeeps DEF dshops
    <3>2. CASE Journeys  BY <3>2 DEF Journeys, Leave, AskIn, Enter, core, dshops
    <3> QED  BY <1>2, <3>1, <3>2
  <2> QED  BY <2>1, MirrorSteady
<1> QED  BY <1>1, <1>2

LEMMA MirroredStep ==
  ASSUME TypeOK, Ledger, [Next]_vars, NEW o \in Bots, Opening(o), Shelving(o), Mirrored(o)
  PROVE  Mirrored(o)'
<1>1. CASE Core  BY <1>1, MirrorCore
<1>2. CASE CreateDone  BY <1>2, MirrorOpened
<1>3. CASE PutDone  BY <1>3, MirrorStored
<1>4. CASE AddDone  BY <1>4, MirrorAdded
<1>5. CASE DbEdit \/ DbRemove  BY <1>5, MirrorRepriced
<1>6. CASE DbBuy  BY <1>6, MirrorBought
<1>7. CASE DbHardClose  BY <1>7, MirrorShut
<1>8. CASE \E p \in Owners : Expire(p)  BY <1>8, MirrorExpired
<1>9. CASE ~CreateDone /\ ~PutDone /\ (DbLock \/ DbGetItem \/ DbLoadBox \/ BoxAddDone)
  BY <1>9, MirrorAnswered
<1>10. CASE /\ ~CreateDone /\ ~PutDone
            /\ \/ DbCreate \/ DbAdd \/ DbBoxAdd \/ DbGetYang \/ DbFeedback
               \/ Trade \/ Journeys \/ UNCHANGED vars
  BY <1>10, MirrorAside
<1> QED
  BY <1>1, <1>2, <1>3, <1>4, <1>5, <1>6, <1>7, <1>8, <1>9, <1>10 DEF Next, DbCore, SqlResult

-----------------------------------------------------------------------------
(* All of it together.                                                     *)

Shops == \A o \in Bots : Opening(o) /\ Shelving(o) /\ Mirrored(o)

LEMMA ShopsStart == ASSUME Init PROVE Shops
<1> SUFFICES ASSUME NEW o \in Bots PROVE Opening(o) /\ Shelving(o) /\ Mirrored(o)  BY DEF Shops
<1>1. /\ toDb = <<>> /\ toCore = <<>> /\ sql = <<>> /\ req[o] = NoRequest
      /\ cst[o] = "none" /\ cprice[o] = NoLines /\ dst[o] = "none" /\ dprice[o] = NoLines
  BY DEF Init
<1>2. /\ \A S : ~Has(<<>>, S) /\ Ones(<<>>, S)
      /\ \A S, T : Before(<<>>, S, T)
  BY ShortQueues
<1>3. Opening(o)  BY <1>1, <1>2 DEF Opening, NoRequest
<1>4. Shelving(o)
  BY <1>1, <1>2 DEF Shelving, Unseen, ClosedBefore, KeptOpen, ShownSoon, NoneEmpty
<1>5. Mirrored(o)
  <2>1. NoLines \in [Items -> Nat]  BY DEF NoLines
  <2>2. Mirror(o) \in Shelf /\ Mirror(o).st = "none" /\ Mirror(o).lines = NoLines
    BY <1>1, <2>1, ShowingIs DEF Mirror
  <2>3. Leads(o, toCore, Mirror(o), Mirror(o))  BY <1>1, <2>2, LeadsHere
  <2>4. Due(o, Mirror(o))  BY <1>1, <1>2, <2>2 DEF Due
  <2> QED  BY <2>2, <2>3, <2>4 DEF Mirrored
<1> QED  BY <1>3, <1>4, <1>5

LEMMA ShopsStep == ASSUME Ledger, Shops, [Next]_vars PROVE Shops'
<1>1. TypeOK /\ \A i \in Items : Apart(i)  BY DEF Ledger
<1>2. \A o \in Bots : Opening(o)'  BY <1>1, OpeningStep DEF Shops
<1>3. \A o \in Bots : Shelving(o)'  BY <1>1, ShelvingStep DEF Shops
<1>4. \A o \in Bots : Mirrored(o)'  BY <1>1, MirroredStep DEF Shops
<1> QED  BY <1>2, <1>3, <1>4 DEF Shops

Standing == Books /\ Shops

LEMMA StandingStart == Init => Standing
  BY BooksStart, ShopsStart DEF Standing

LEMMA StandingStep == Standing /\ [Next]_vars => Standing'
  BY BooksStep, ShopsStep DEF Standing, Books

\* What is in no answer any more is on both sides.
LEMMA StandingMeans == Standing => MirrorSettles
<1> SUFFICES ASSUME Standing, Settled
             PROVE  /\ cst = dst /\ cyang = dyang
                    /\ \A o \in Bots : dst[o] # "none" => cprice[o] = dprice[o]
  BY DEF MirrorSettles
<1>1. TypeOK /\ \A o \in Bots : Mirrored(o) /\ Money(o)  BY DEF Standing, Books, Ledger, Shops
<1>2. toDb = <<>> /\ toCore = <<>> /\ sql = <<>>  BY DEF Settled
<1>3. \A S : ~Has(<<>>, S)  BY ShortQueues
<1>4. ASSUME NEW o \in Bots PROVE cst[o] = dst[o] /\ cprice[o] = dprice[o] /\ cyang[o] = dyang[o]
  <2>1. PICK t \in Shelf : Due(o, t) /\ Leads(o, toCore, Mirror(o), t)  BY <1>1 DEF Mirrored
  <2>2. t = Mirror(o)  BY <1>2, <2>1, LeadsNowhere
  <2>3. MirrorOK /\ ShopsOK /\ BoxesOK  BY <1>1 DEF TypeOK
  <2>4. t.st = cst[o] /\ t.lines = cprice[o]  BY <2>2, <2>3, MirrorIs
  <2>5. cst[o] = dst[o] /\ \A i \in Items : cprice[o][i] = dprice[o][i]
    BY <1>2, <1>3, <2>1, <2>4 DEF Due
  <2>6. cprice[o] \in [Items -> Nat] /\ dprice[o] \in [Items -> Nat]
    BY <2>3 DEF MirrorOK, ShopsOK
  <2>7. cprice[o] = dprice[o]  BY <2>5, <2>6
  <2>8. world[o] # "asked"  BY <1>1, <1>2, <1>3 DEF Money, Sending, Token
  <2>9. cyang[o] = dyang[o]
    BY <1>1, <1>2, <2>8, PathNowhere DEF Money, Balanced
  <2> QED  BY <2>5, <2>7, <2>9
<1>5. cst = dst /\ cyang = dyang
  <2>1. /\ cst \in [Bots -> {"none", "closed", "open"}] /\ dst \in [Bots -> {"none", "closed", "open"}]
        /\ cyang \in [Bots -> Int] /\ dyang \in [Bots -> Int]
    BY <1>1 DEF TypeOK, MirrorOK, ShopsOK, BoxesOK
  <2> QED  BY <1>4, <2>1
<1> QED  BY <1>4, <1>5

\* Whatever was opened, added, edited, removed, bought, closed and claimed at
\* once, and in whatever order the SQL thread's results came between them: once
\* nothing is on its way, every shop and every line the core shows is the db
\* core's, and so is the money.
THEOREM MirrorsSettle == Spec => []MirrorSettles
  BY StandingStart, StandingStep, StandingMeans, PTL DEF Spec

-----------------------------------------------------------------------------
(* A purchase: while its request is open, one of its packets is on its way.*)

Bids(b, i) == {m \in Requests : m.op = "lock" /\ m.who = b /\ m.item = i}
Deals(b, i) == {m \in Answers : m.op \in {"locked", "refused", "sold"} /\ m.who = b /\ m.item = i}
Paying(b, i) == {m \in Requests : m.op = "buy" /\ m.who = b /\ m.item = i /\ m.success}

Buying(b, i) ==
  req[b] = <<"buy", i>> =>
    Has(toDb, Bids(b, i)) \/ Has(toCore, Deals(b, i)) \/ Has(toDb, Paying(b, i))

LEMMA BuyingAside ==
  ASSUME TypeOK, [Next]_vars, ~DbLock, ~DbBuy, ~Completes("buy"), ~Begins("buy"),
         NEW b \in Bots, NEW i, Buying(b, i)
  PROVE  Buying(b, i)'
<1>1. PICK d, c : Wires(d, c)  BY StepWires
<1>2. "lock" \notin d /\ "buy" \notin d
  BY <1>1 DEF Wires, DbReasons, Begins, Completes
<1>3. "locked" \notin c /\ "refused" \notin c /\ "sold" \notin c
  BY <1>1 DEF Wires, CoreReasons, Completes
<1>4. /\ Bids(b, i) \in SUBSET But(Requests, d) /\ Paying(b, i) \in SUBSET But(Requests, d)
      /\ Deals(b, i) \in SUBSET But(Answers, c)
  BY <1>2, <1>3 DEF Bids, Paying, Deals, But
<1>5. /\ Has(toDb', Bids(b, i)) <=> Has(toDb, Bids(b, i))
      /\ Has(toDb', Paying(b, i)) <=> Has(toDb, Paying(b, i))
      /\ Has(toCore', Deals(b, i)) <=> Has(toCore, Deals(b, i))
  BY <1>1, <1>4, WiresStay
<1>6. req'[b] = <<"buy", i>> <=> req[b] = <<"buy", i>>  BY JournalSteps
<1> QED  BY <1>5, <1>6 DEF Buying

LEMMA BuyingBegun ==
  ASSUME TypeOK, Begins("buy"), NEW b \in Bots, NEW i, Buying(b, i) PROVE Buying(b, i)'
<1>1. PICK c \in Bots, o \in Owners, j \in Items : Buy(c, o, j)  BY DEF Begins
<1> DEFINE m == [op |-> "lock", who |-> c, owner |-> o, item |-> j, seen |-> cprice[o][j]]
<1>2. o \in Bots  BY BotsAssumption
<1>3. m \in Requests /\ m.op = "lock" /\ m.who = c /\ m.item = j
  <2>1. cprice[o][j] \in Nat  BY <1>2 DEF TypeOK, MirrorOK
  <2> QED  BY <1>2, <2>1 DEF Requests
<1>4. toDb' = toDb \o <<m>> /\ toCore' = toCore /\ Begin(c, "buy", j)  BY <1>1 DEF Buy, ToDb
<1> HIDE DEF m
<1>5. \A S : Has(toDb', S) <=> Has(toDb, S) \/ m \in S  BY <1>3, <1>4, WiresAre, QueueSent
<1>6. req'[c] = <<"buy", j>> /\ (b # c => req'[b] = req[b])
  <2>1. PeopleOK  BY DEF TypeOK
  <2>2. <<"buy", j>> # NoRequest  BY DEF NoRequest
  <2> QED  BY <1>4, <2>1, <2>2, EntryBegun
<1>7. CASE b # c  BY <1>4, <1>5, <1>6, <1>7 DEF Buying
<1>8. CASE b = c
  <2>1. SUFFICES ASSUME req'[b] = <<"buy", i>> PROVE Has(toDb', Bids(b, i))  BY DEF Buying
  <2>2. i = j  BY <1>6, <1>8, <2>1
  <2>3. m \in Bids(b, i)  BY <1>3, <1>8, <2>2 DEF Bids
  <2> QED  BY <1>5, <2>3
<1> QED  BY <1>7, <1>8

LEMMA BuyingLocked ==
  ASSUME TypeOK, DbLock, NEW b \in Bots, NEW i, Buying(b, i) PROVE Buying(b, i)'
<1> DEFINE m == Head(toDb)
           a == [op |-> IF MayLock(m) THEN "locked" ELSE "refused",
                 who |-> m.who, owner |-> m.owner, item |-> m.item]
<1>1. m \in Requests /\ m.op = "lock" /\ m.who \in Bots /\ m.owner \in Bots /\ m.item \in Items
  BY DbTakes, RequestShapes DEF TypeOK, DbLock
<1>2. a \in Answers /\ a.op \in {"locked", "refused"} /\ a.who = m.who /\ a.item = m.item
  BY <1>1 DEF Answers, Shopping
<1>3. toCore' = toCore \o <<a>> /\ toDb # <<>> /\ toDb' = Tail(toDb) /\ req' = req
  BY DEF DbLock, ToCore, AtDb, TakenByDb, people
<1> HIDE DEF m, a
<1>4. \A S : Has(toCore', S) <=> Has(toCore, S) \/ a \in S  BY <1>2, <1>3, WiresAre, QueueSent
<1>5. \A S : Has(toDb, S) <=> m \in S \/ Has(toDb', S)  BY <1>3, WiresAre, QueueTaken DEF m
<1>6. m \notin Paying(b, i) /\ (m \in Bids(b, i) => a \in Deals(b, i))
  BY <1>1, <1>2 DEF Paying, Bids, Deals
<1> QED  BY <1>3, <1>4, <1>5, <1>6 DEF Buying

LEMMA BuyingPaid ==
  ASSUME TypeOK, Purchases, DbBuy, NEW b \in Bots, NEW i, Buying(b, i) PROVE Buying(b, i)'
<1> DEFINE m == Head(toDb)
           y == [op |-> "yang", owner |-> m.owner, yang |-> Taxed(dprice[m.owner][m.item])]
           x == [op |-> "sold", who |-> m.who, owner |-> m.owner, item |-> m.item]
<1>1. /\ m \in Requests /\ m.op = "buy" /\ m.owner \in Bots /\ m.item \in Items /\ m.who \in Bots
      /\ HasLine(m.owner, m.item)
  BY PaymentLocked, DbTakes DEF TypeOK, DbBuy
<1>2. toDb # <<>> /\ toDb' = Tail(toDb) /\ req' = req  BY DEF DbBuy, people, AtDb, TakenByDb
<1>3. (~m.success /\ toCore' = toCore) \/ toCore' = toCore \o <<y, x>>
  BY <1>1 DEF DbBuy, ToCore
<1>4. y \in Answers
  <2>1. dprice[m.owner][m.item] \in Nat  BY <1>1 DEF TypeOK, ShopsOK
  <2>2. Taxed(dprice[m.owner][m.item]) \in Int  BY <2>1, TaxedIs
  <2> QED  BY <1>1, <2>2 DEF Answers, Paid
<1>5. x \in Answers /\ x.op = "sold" /\ x.who = m.who /\ x.item = m.item
  BY <1>1 DEF Answers, Shopping
<1>6. \A S : Has(toDb, S) <=> m \in S \/ Has(toDb', S)  BY <1>2, WiresAre, QueueTaken
<1> HIDE DEF m, y, x
<1>7. \A S : Has(toCore \o <<y, x>>, S) <=> Has(toCore, S) \/ y \in S \/ x \in S
  <2>1. <<y, x>> \in Seq(Answers)  BY <1>4, <1>5
  <2>2. \A S : Has(<<y, x>>, S) <=> y \in S \/ x \in S  BY ShortQueues
  <2> QED  BY <2>1, <2>2, WiresAre, QueueJoined
<1>8. /\ m \notin Bids(b, i)
      /\ m \in Paying(b, i) => m.success /\ x \in Deals(b, i)
  BY <1>1, <1>5 DEF Bids, Paying, Deals
<1>9. /\ Has(toCore, Deals(b, i)) \/ m \in Paying(b, i) => Has(toCore', Deals(b, i))
  BY <1>3, <1>7, <1>8
<1> QED  BY <1>2, <1>6, <1>8, <1>9 DEF Buying

\* The core's answer to a buyer, and what is left of its request then.
LEMMA BuyingCompleted ==
  ASSUME TypeOK, NEW op \in {"locked", "refused", "sold"}, AtCore(op), TakenByCore,
         Complete(Head(toCore).who, "buy", Head(toCore).item),
         NEW b \in Bots, NEW i, Buying(b, i),
         Has(toDb, Bids(b, i)) => Has(toDb', Bids(b, i)),
         Has(toDb, Paying(b, i)) => Has(toDb', Paying(b, i))
  PROVE  Buying(b, i)'
<1> DEFINE m == Head(toCore)
<1>1. m \in Answers /\ m.op = op /\ m.who \in Bots  BY CoreTakes, AnswerShapes DEF TypeOK
<1>2. toCore # <<>> /\ toCore' = Tail(toCore)  BY DEF AtCore, TakenByCore
<1>3. \A S : Has(toCore, S) <=> m \in S \/ Has(toCore', S)  BY <1>2, WiresAre, QueueTaken
<1>4. Complete(m.who, "buy", m.item)  OBVIOUS
<1> HIDE DEF m
<1>5. SUFFICES ASSUME req'[b] = <<"buy", i>>
               PROVE  Has(toDb', Bids(b, i)) \/ Has(toCore', Deals(b, i)) \/ Has(toDb', Paying(b, i))
  BY DEF Buying
<1>6. PeopleOK /\ <<"buy", i>> # NoRequest  BY DEF TypeOK, NoRequest
<1>7. req[b] = <<"buy", i>>
  <2>1. req'[b] = req[b] \/ req'[b] = NoRequest  BY <1>1, <1>4, <1>6, EntryBegun
  <2> QED  BY <1>5, <1>6, <2>1
<1>8. m \notin Deals(b, i)
  <2>1. SUFFICES ASSUME m \in Deals(b, i) PROVE FALSE  OBVIOUS
  <2>2. Complete(b, "buy", i)  BY <1>4, <2>1 DEF Deals
  <2>3. DOMAIN req = Bots  BY <1>6 DEF PeopleOK
  <2>4. req'[b] # <<"buy", i>>  BY <1>6, <2>2, <2>3 DEF Complete
  <2> QED  BY <1>5, <2>4
<1> QED  BY <1>3, <1>7, <1>8 DEF Buying

LEMMA BuyingAnswered ==
  ASSUME TypeOK, CoreLocked \/ CoreRefused, NEW b \in Bots, NEW i, Buying(b, i)
  PROVE  Buying(b, i)'
<1>1. CASE CoreRefused
  <2>1. AtCore("refused") /\ TakenByCore /\ toDb' = toDb
        /\ Complete(Head(toCore).who, "buy", Head(toCore).item)
    BY <1>1 DEF CoreRefused
  <2> QED  BY <2>1, BuyingCompleted
<1>2. CASE CoreLocked
  <2> DEFINE m == Head(toCore)
             x == [op |-> "buy", who |-> m.who, owner |-> m.owner, item |-> m.item,
                   success |-> CanPay(m)]
  <2>1. AtCore("locked") /\ TakenByCore /\ toDb' = toDb \o <<x>>
        /\ (CanPay(m) => req' = req)
        /\ (~CanPay(m) => Complete(m.who, "buy", m.item))
    BY <1>2 DEF CoreLocked, ToDb
  <2>2. m \in Answers /\ m.op = "locked" /\ m.who \in Bots /\ m.owner \in Bots /\ m.item \in Items
    BY <1>2, CoreTakes, AnswerShapes DEF TypeOK, CoreLocked
  <2>3. x \in Requests /\ x.op = "buy" /\ x.who = m.who /\ x.item = m.item /\ (x.success <=> CanPay(m))
    <3>1. CanPay(m) \in BOOLEAN  BY DEF CanPay, OnMirror
    <3> QED  BY <2>2, <3>1 DEF Requests
  <2>4. \A S : Has(toCore, S) <=> m \in S \/ Has(toCore', S)
    BY <2>1, WiresAre, QueueTaken DEF AtCore, TakenByCore
  <2> HIDE DEF x
  <2>5. \A S : Has(toDb', S) <=> Has(toDb, S) \/ x \in S  BY <2>1, <2>3, WiresAre, QueueSent
  <2>6. CASE ~CanPay(m)  BY <2>1, <2>5, <2>6, BuyingCompleted
  <2>7. CASE CanPay(m)
    <3>1. m \in Deals(b, i) => x \in Paying(b, i)  BY <2>3, <2>7 DEF Deals, Paying
    <3> HIDE DEF m
    <3> QED  BY <2>1, <2>4, <2>5, <2>7, <3>1 DEF Buying
  <2> QED  BY <2>6, <2>7
<1> QED  BY <1>1, <1>2

\* What is sold is on the core's copy of the shop too.
LEMMA SoldThere ==
  ASSUME TypeOK, NEW op \in {"sold", "removed"}, AtCore(op), \A o \in Bots : Mirrored(o)
  PROVE  OnMirror(Head(toCore))
<1> DEFINE m == Head(toCore)
<1>1. m \in Answers /\ m.op = op /\ m.owner \in Bots  BY CoreTakes, AnswerShapes DEF TypeOK
<1>2. toCore # <<>>  BY DEF AtCore
<1>3. \A o \in Bots : \E u \in Shelf : Shows(o, Mirror(o), m, u)  BY <1>2, MirrorTaken
<1>4. MirrorOK  BY DEF TypeOK
<1> HIDE DEF m
<1>5. PICK o \in Bots : o = m.owner  BY <1>1
<1>6. PICK u \in Shelf : Shows(o, Mirror(o), m, u)  BY <1>3
<1>7. Mirror(o).st # "none" /\ Mirror(o).lines[m.item] > 0  BY <1>1, <1>5, <1>6 DEF Shows, Quiet
<1>8. Mirror(o).st = cst[o] /\ Mirror(o).lines = cprice[o]  BY <1>4, MirrorIs
<1>9. OnMirror(m)  BY <1>5, <1>7, <1>8 DEF OnMirror
<1> QED  BY <1>9 DEF m

LEMMA BuyingSold ==
  ASSUME TypeOK, \A o \in Bots : Mirrored(o), NEW room \in BOOLEAN, CoreSold(room),
         NEW b \in Bots, NEW i, Buying(b, i)
  PROVE  Buying(b, i)'
<1>1. AtCore("sold") /\ TakenByCore  BY DEF CoreSold
<1>2. OnMirror(Head(toCore))  BY <1>1, SoldThere
<1>3. Complete(Head(toCore).who, "buy", Head(toCore).item)  BY <1>2 DEF CoreSold
<1>4. Untouched(toDb, toDb', Requests, But(Requests, {"boxadd", "hardclose"}))
  BY GoneWires DEF DbWire
<1>5. Bids(b, i) \in SUBSET But(Requests, {"boxadd", "hardclose"})
      /\ Paying(b, i) \in SUBSET But(Requests, {"boxadd", "hardclose"})
  BY DEF Bids, Paying, But
<1>6. (Has(toDb', Bids(b, i)) <=> Has(toDb, Bids(b, i))) /\ (Has(toDb', Paying(b, i)) <=> Has(toDb, Paying(b, i)))
  BY <1>4, <1>5, WiresAre, UntouchedKeeps
<1> QED  BY <1>1, <1>3, <1>6, BuyingCompleted

LEMMA BuyingStep ==
  ASSUME TypeOK, Purchases, \A o \in Bots : Mirrored(o), [Next]_vars,
         NEW b \in Bots, NEW i, Buying(b, i)
  PROVE  Buying(b, i)'
<1>1. CASE DbLock  BY <1>1, BuyingLocked
<1>2. CASE DbBuy  BY <1>2, BuyingPaid
<1>3. CASE CoreLocked \/ CoreRefused  BY <1>3, BuyingAnswered
<1>4. CASE \E room \in BOOLEAN : CoreSold(room)  BY <1>4, BuyingSold
<1>5. CASE Begins("buy")  BY <1>5, BuyingBegun
<1>6. CASE ~DbLock /\ ~DbBuy /\ ~Completes("buy") /\ ~Begins("buy")  BY <1>6, BuyingAside
<1> QED  BY <1>1, <1>2, <1>3, <1>4, <1>5, <1>6 DEF Completes

-----------------------------------------------------------------------------
(* A withdrawal: the request or its answer is on its way, and what the     *)
(* core shows in its copy of a safebox the db core has in it, hands out or *)
(* is getting back.                                                        *)

Takes(b, i) == {m \in Requests : m.op = "getitem" /\ m.owner = b /\ m.item = i}
Declines(b, i) == {m \in Feedbacks(b, i) : ~m.success}
Boxings(b, i) == {m \in Answers : m.op = "boxed" /\ m.owner = b /\ m.item = i}
BoxesWith(b, i) == {m \in Boxes(b) : i \in m.items}

Sought(b, i) ==
  \/ i \in cbox[b] \/ Has(toCore, Boxings(b, i)) \/ Has(toCore, BoxesWith(b, i))
  \/ Has(toDb, Takes(b, i))
Stored(b, i) == i \in dbox[b] \/ Has(toCore, Confirms(b, i)) \/ Has(toDb, Declines(b, i))

Fetching(b, i) ==
  /\ Token(req[b] = <<"withdraw", i>>, toDb, Takes(b, i), toCore, Confirms(b, i))
  /\ Sought(b, i) => Stored(b, i)
  /\ Before(toDb, Declines(b, i), Takes(b, i))
  /\ Before(toCore, Boxings(b, i), Confirms(b, i))

LEMMA FetchKinds ==
  ASSUME NEW b, NEW i
  PROVE  /\ \A d : "getitem" \notin d => Takes(b, i) \in SUBSET But(Requests, d)
         /\ \A d : "feedback" \notin d => Declines(b, i) \in SUBSET But(Requests, d)
         /\ \A c : "confirm" \notin c => Confirms(b, i) \in SUBSET But(Answers, c)
         /\ \A c : "boxed" \notin c => Boxings(b, i) \in SUBSET But(Answers, c)
         /\ \A c : "box" \notin c => BoxesWith(b, i) \in SUBSET But(Answers, c)
<1>1. \A d : "getitem" \notin d => Takes(b, i) \in SUBSET But(Requests, d)  BY DEF Takes, But
<1>2. \A d : "feedback" \notin d => Declines(b, i) \in SUBSET But(Requests, d)
  BY DEF Declines, Feedbacks, But
<1>3. \A c : "confirm" \notin c => Confirms(b, i) \in SUBSET But(Answers, c)  BY DEF Confirms, But
<1>4. \A c : "boxed" \notin c => Boxings(b, i) \in SUBSET But(Answers, c)  BY DEF Boxings, But
<1>5. \A c : "box" \notin c => BoxesWith(b, i) \in SUBSET But(Answers, c)
  BY DEF BoxesWith, Boxes, But
<1> QED  BY <1>1, <1>2, <1>3, <1>4, <1>5

LEMMA FetchingAside ==
  ASSUME TypeOK, [Next]_vars, ~DbGetItem, ~DbFeedback, ~DbLoadBox, ~BoxAddDone, ~CoreBoxed, ~CoreBox,
         ~Completes("withdraw"), ~Begins("withdraw"), NEW b \in Bots, NEW i, Fetching(b, i)
  PROVE  Fetching(b, i)'
<1>1. PICK d, c : Wires(d, c)  BY StepWires
<1>2. "getitem" \notin d /\ "feedback" \notin d
  BY <1>1 DEF Wires, DbReasons, Begins, Completes
<1>3. "confirm" \notin c /\ "boxed" \notin c /\ "box" \notin c
  BY <1>1 DEF Wires, CoreReasons, Completes
<1>4. Takes(b, i) \in SUBSET But(Requests, d) /\ Declines(b, i) \in SUBSET But(Requests, d)
  BY <1>2, FetchKinds
<1>5. /\ Confirms(b, i) \in SUBSET But(Answers, c) /\ Boxings(b, i) \in SUBSET But(Answers, c)
      /\ BoxesWith(b, i) \in SUBSET But(Answers, c)
  BY <1>3, FetchKinds
<1>6. /\ Has(toDb', Takes(b, i)) <=> Has(toDb, Takes(b, i))
      /\ Ones(toDb, Takes(b, i)) => Ones(toDb', Takes(b, i))
      /\ Has(toDb', Declines(b, i)) <=> Has(toDb, Declines(b, i))
      /\ Before(toDb, Declines(b, i), Takes(b, i)) => Before(toDb', Declines(b, i), Takes(b, i))
  BY <1>1, <1>4, WiresStay
<1>7. /\ Has(toCore', Confirms(b, i)) <=> Has(toCore, Confirms(b, i))
      /\ Ones(toCore, Confirms(b, i)) => Ones(toCore', Confirms(b, i))
      /\ Has(toCore', Boxings(b, i)) <=> Has(toCore, Boxings(b, i))
      /\ Has(toCore', BoxesWith(b, i)) <=> Has(toCore, BoxesWith(b, i))
      /\ Before(toCore, Boxings(b, i), Confirms(b, i)) => Before(toCore', Boxings(b, i), Confirms(b, i))
  BY <1>1, <1>5, WiresStay
<1>8. req'[b] = <<"withdraw", i>> <=> req[b] = <<"withdraw", i>>  BY JournalSteps
<1>9. dbox' = dbox  BY BoxesStay
<1>10. cbox' = cbox  BY CopiesStay DEF Completes
<1> QED  BY <1>6, <1>7, <1>8, <1>9, <1>10 DEF Fetching, Token, Sought, Stored

LEMMA FetchingBegun ==
  ASSUME TypeOK, Begins("withdraw"), NEW b \in Bots, NEW i, Fetching(b, i) PROVE Fetching(b, i)'
<1>1. PICK c \in Bots, j \in Items : VisitWithdraw(c, j)  BY DEF Begins
<1> DEFINE m == [op |-> "getitem", owner |-> c, item |-> j]
<1>2. m \in Requests /\ m.op = "getitem" /\ m.owner = c /\ m.item = j
  BY DEF Requests, Named
<1>3. /\ Visit(c, "withdraw", j, m) /\ j \in cbox[c]
      /\ req[c] = NoRequest /\ Begin(c, "withdraw", j)
      /\ UNCHANGED <<cbox, dbox, toCore>>
  BY <1>1 DEF VisitWithdraw, Visit, Free, dboxes
<1> HIDE DEF m
<1>4. \A S : (\A g \in S : g.op # "getyang") =>
         /\ Has(toDb', S) <=> Has(toDb, S) \/ m \in S
         /\ Ones(toDb, S) /\ ~(Has(toDb, S) /\ m \in S) => Ones(toDb', S)
  BY <1>2, <1>3, VisitQueue
<1>5. \A S, T : (\A g \in S \cup T : g.op # "getyang") /\ Before(toDb, S, T) /\ m \notin S =>
         Before(toDb', S, T)
  BY <1>2, <1>3, VisitQueue
<1>6. /\ \A g \in Takes(b, i) : g.op # "getyang"
      /\ \A g \in Declines(b, i) : g.op # "getyang"
      /\ \A g \in Declines(b, i) \cup Takes(b, i) : g.op # "getyang"
      /\ m \notin Declines(b, i)
      /\ m \in Takes(b, i) <=> b = c /\ i = j
  BY <1>2 DEF Takes, Declines, Feedbacks
<1>7. /\ Has(toDb', Takes(b, i)) <=> Has(toDb, Takes(b, i)) \/ (b = c /\ i = j)
      /\ Ones(toDb, Takes(b, i)) /\ ~(Has(toDb, Takes(b, i)) /\ b = c /\ i = j) => Ones(toDb', Takes(b, i))
      /\ Has(toDb', Declines(b, i)) <=> Has(toDb, Declines(b, i))
  BY <1>4, <1>6
<1>8. Before(toDb', Declines(b, i), Takes(b, i))  BY <1>5, <1>6 DEF Fetching
<1>9. Sought(b, i)' => Sought(b, i)  BY <1>3, <1>7 DEF Sought
<1>10. Stored(b, i) => Stored(b, i)'  BY <1>3, <1>7 DEF Stored
<1>11. Token(req[b] = <<"withdraw", i>>, toDb, Takes(b, i), toCore, Confirms(b, i))'
  <2>1. PeopleOK /\ <<"withdraw", i>> # NoRequest  BY DEF TypeOK, NoRequest
  <2>2. Token(req[b] = <<"withdraw", i>>, toDb, Takes(b, i), toCore, Confirms(b, i))  BY DEF Fetching
  <2>3. CASE b = c /\ i = j
    <3>1. req[b] # <<"withdraw", i>>  BY <1>3, <2>1, <2>3
    <3>2. req'[b] = <<"withdraw", i>>  BY <1>3, <2>1, <2>3, EntryBegun
    <3> QED  BY <1>3, <1>7, <2>2, <2>3, <3>1, <3>2 DEF Token
  <2>4. CASE ~(b = c /\ i = j)
    <3>1. req'[b] = <<"withdraw", i>> <=> req[b] = <<"withdraw", i>>
      <4>1. CASE b # c  BY <1>3, <2>1, <4>1, EntryBegun
      <4>2. CASE b = c
        <5>1. <<"withdraw", i>> # <<"withdraw", j>>  BY <2>4, <4>2
        <5> QED  BY <1>3, <2>1, <4>2, <5>1, EntryBegun
      <4> QED  BY <4>1, <4>2
    <3> QED  BY <1>3, <1>7, <2>2, <2>4, <3>1 DEF Token
  <2> QED  BY <2>3, <2>4
<1>12. Before(toCore', Boxings(b, i), Confirms(b, i))  BY <1>3 DEF Fetching
<1> QED  BY <1>8, <1>9, <1>10, <1>11, <1>12 DEF Fetching

\* The db core holds the item back and confirms it, or does not have it.
LEMMA FetchingHeld ==
  ASSUME TypeOK, DbGetItem, NEW b \in Bots, NEW i, Fetching(b, i) PROVE Fetching(b, i)'
<1> DEFINE m == Head(toDb)
           a == [op |-> "confirm", owner |-> m.owner, item |-> m.item]
<1>1. m \in Requests /\ m.op = "getitem" /\ m.owner \in Bots /\ m.item \in Items
  BY DbTakes, RequestShapes DEF TypeOK, DbGetItem
<1>2. a \in Answers /\ a.op = "confirm" /\ a.owner = m.owner /\ a.item = m.item
  BY <1>1 DEF Answers, Named
<1>3. toDb # <<>> /\ toDb' = Tail(toDb) /\ UNCHANGED <<req, cbox>>
  BY DEF DbGetItem, AtDb, TakenByDb, people, core
<1>4. /\ m.item \in dbox[m.owner] => toCore' = toCore \o <<a>>
      /\ m.item \notin dbox[m.owner] => toCore' = toCore \o <<>>
  BY DEF DbGetItem, ToCore
<1>5. dbox' = [dbox EXCEPT ![m.owner] = @ \ {m.item}]  BY DEF DbGetItem
<1>6. i \in dbox'[b] <=> i \in dbox[b] /\ ~(b = m.owner /\ i = m.item)
  BY <1>1, <1>5 DEF TypeOK, BoxesOK
<1>7. /\ \A S : Has(toDb, S) <=> m \in S \/ Has(toDb', S)
      /\ \A S : Ones(toDb, S) => Ones(toDb', S) /\ ~(m \in S /\ Has(toDb', S))
      /\ \A S, T : Before(toDb, S, T) => Before(toDb', S, T) /\ (m \in T => ~Has(toDb, S))
  BY <1>3, WiresAre, QueueTaken
<1>8. m.item \notin dbox[m.owner] => toCore' = toCore
  <2>1. \A q \in Seq(Answers) : q \o <<>> = q  OBVIOUS
  <2>2. toCore \o <<>> = toCore  BY <2>1, WiresAre
  <2> QED  BY <1>4, <2>2
<1> HIDE DEF m, a
<1>9. m.item \in dbox[m.owner] =>
        /\ \A S : Has(toCore', S) <=> Has(toCore, S) \/ a \in S
        /\ \A S : Ones(toCore, S) /\ ~(Has(toCore, S) /\ a \in S) => Ones(toCore', S)
        /\ \A S, T : Before(toCore, S, T) /\ a \notin S => Before(toCore', S, T)
  <2>1. SUFFICES ASSUME m.item \in dbox[m.owner]
                 PROVE  /\ \A S : Has(toCore', S) <=> Has(toCore, S) \/ a \in S
                        /\ \A S : Ones(toCore, S) /\ ~(Has(toCore, S) /\ a \in S) => Ones(toCore', S)
                        /\ \A S, T : Before(toCore, S, T) /\ a \notin S => Before(toCore', S, T)
    OBVIOUS
  <2>2. toCore' = toCore \o <<a>>  BY <1>4, <2>1
  <2>3. toCore \in Seq(Answers) /\ a \in Answers  BY <1>2, WiresAre
  <2> QED  BY <2>2, <2>3, QueueSent
<1>10. /\ m \notin Declines(b, i) /\ a \notin Boxings(b, i) /\ a \notin BoxesWith(b, i)
       /\ m \in Takes(b, i) <=> b = m.owner /\ i = m.item
       /\ a \in Confirms(b, i) <=> b = m.owner /\ i = m.item
  BY <1>1, <1>2 DEF Declines, Feedbacks, Boxings, BoxesWith, Boxes, Takes, Confirms
<1>11. Before(toDb', Declines(b, i), Takes(b, i))  BY <1>7 DEF Fetching
<1>12. Before(toCore', Boxings(b, i), Confirms(b, i))  BY <1>8, <1>9, <1>10 DEF Fetching
<1>13. Token(req[b] = <<"withdraw", i>>, toDb, Takes(b, i), toCore, Confirms(b, i))  BY DEF Fetching
<1>14. CASE ~(b = m.owner /\ i = m.item)
  <2>1. /\ Has(toCore', Confirms(b, i)) <=> Has(toCore, Confirms(b, i))
        /\ Ones(toCore, Confirms(b, i)) => Ones(toCore', Confirms(b, i))
        /\ Has(toCore', Boxings(b, i)) <=> Has(toCore, Boxings(b, i))
        /\ Has(toCore', BoxesWith(b, i)) <=> Has(toCore, BoxesWith(b, i))
    BY <1>8, <1>9, <1>10, <1>14
  <2>2. /\ Has(toDb', Takes(b, i)) <=> Has(toDb, Takes(b, i))
        /\ Ones(toDb, Takes(b, i)) => Ones(toDb', Takes(b, i))
        /\ Has(toDb', Declines(b, i)) <=> Has(toDb, Declines(b, i))
    BY <1>7, <1>10, <1>14
  <2>3. Token(req[b] = <<"withdraw", i>>, toDb, Takes(b, i), toCore, Confirms(b, i))'
    BY <1>3, <1>13, <2>1, <2>2 DEF Token
  <2>4. Sought(b, i)' => Stored(b, i)'
    BY <1>3, <1>6, <1>14, <2>1, <2>2 DEF Sought, Stored, Fetching
  <2> QED  BY <1>11, <1>12, <2>3, <2>4 DEF Fetching
<1>15. CASE b = m.owner /\ i = m.item
  <2>1. m \in Takes(b, i) /\ a \in Confirms(b, i)  BY <1>10, <1>15
  <2>2. Has(toDb, Takes(b, i)) /\ ~Has(toDb', Takes(b, i)) /\ Ones(toDb', Takes(b, i))
    BY <1>7, <1>13, <2>1 DEF Token
  <2>3. ~Has(toCore, Confirms(b, i)) /\ Ones(toCore, Confirms(b, i)) /\ req[b] = <<"withdraw", i>>
    BY <1>13, <2>2 DEF Token
  <2>4. ~Has(toDb, Declines(b, i))  BY <1>7, <2>1 DEF Fetching
  <2>5. i \in dbox[b]  BY <2>2, <2>3, <2>4 DEF Fetching, Sought, Stored
  <2>6. Has(toCore', Confirms(b, i)) /\ Ones(toCore', Confirms(b, i))
    BY <1>9, <1>15, <2>1, <2>3, <2>5
  <2>7. Token(req[b] = <<"withdraw", i>>, toDb, Takes(b, i), toCore, Confirms(b, i))'
    BY <1>3, <2>2, <2>3, <2>6 DEF Token
  <2>8. Stored(b, i)'  BY <2>6 DEF Stored
  <2> QED  BY <1>11, <1>12, <2>7, <2>8 DEF Fetching
<1> QED  BY <1>14, <1>15

\* What the core would not take is back in the box.
LEMMA FetchingBack ==
  ASSUME TypeOK, Withdrawals, DbFeedback, NEW b \in Bots, NEW i \in Items, Fetching(b, i)
  PROVE  Fetching(b, i)'
<1> DEFINE m == Head(toDb)
<1>1. m \in Requests /\ m.op = "feedback" /\ m.owner \in Bots /\ m.item \in Items
  BY DbTakes, RequestShapes DEF TypeOK, DbFeedback
<1>2. toDb # <<>> /\ toDb' = Tail(toDb) /\ UNCHANGED <<req, cbox, toCore>>
  BY DEF DbFeedback, AtDb, TakenByDb, people, core
<1>3. dbox' = IF m.item \in dheld[m.owner] /\ ~m.success
              THEN [dbox EXCEPT ![m.owner] = @ \cup {m.item}] ELSE dbox
  BY DEF DbFeedback
<1>4. /\ \A S : Has(toDb, S) <=> m \in S \/ Has(toDb', S)
      /\ \A S : Ones(toDb, S) => Ones(toDb', S) /\ ~(m \in S /\ Has(toDb', S))
      /\ \A S, T : Before(toDb, S, T) => Before(toDb', S, T)
  BY <1>2, WiresAre, QueueTaken
<1> HIDE DEF m
<1>5. i \in dbox[b] => i \in dbox'[b]  BY <1>1, <1>3 DEF TypeOK, BoxesOK
<1>6. m \in Declines(b, i) => i \in dbox'[b]
  <2>1. SUFFICES ASSUME m \in Declines(b, i) PROVE i \in dbox'[b]  OBVIOUS
  <2>2. m \in Feedbacks(b, i) /\ m.owner = b /\ m.item = i /\ ~m.success
    BY <2>1 DEF Declines, Feedbacks
  <2>3. Has(toDb, Feedbacks(b, i))  BY <1>4, <2>2
  <2>4. i \in dheld[b]  BY <2>3 DEF Withdrawals, Withdrawal, Token
  <2> QED  BY <1>3, <2>2, <2>4 DEF TypeOK, BoxesOK
<1>7. m \notin Takes(b, i)  BY <1>1 DEF Takes
<1>8. /\ Has(toDb', Takes(b, i)) <=> Has(toDb, Takes(b, i))
      /\ Ones(toDb, Takes(b, i)) => Ones(toDb', Takes(b, i))
      /\ Has(toDb, Declines(b, i)) => Has(toDb', Declines(b, i)) \/ i \in dbox'[b]
  BY <1>4, <1>6, <1>7
<1>9. Token(req[b] = <<"withdraw", i>>, toDb, Takes(b, i), toCore, Confirms(b, i))'
  BY <1>2, <1>8 DEF Token, Fetching
<1>10. Sought(b, i)' => Sought(b, i)  BY <1>2, <1>8 DEF Sought
<1>11. Stored(b, i) => Stored(b, i)'  BY <1>2, <1>5, <1>8 DEF Stored
<1>12. Before(toDb', Declines(b, i), Takes(b, i)) /\ Before(toCore', Boxings(b, i), Confirms(b, i))
  BY <1>2, <1>4 DEF Fetching
<1> QED  BY <1>9, <1>10, <1>11, <1>12 DEF Fetching

\* The whole box, as it is now.
LEMMA FetchingLoaded ==
  ASSUME TypeOK, DbLoadBox, NEW b \in Bots, NEW i, Fetching(b, i) PROVE Fetching(b, i)'
<1> DEFINE m == Head(toDb)
           a == [op |-> "box", owner |-> m.owner, items |-> dbox[m.owner], yang |-> dyang[m.owner]]
<1>1. m \in Requests /\ m.op = "loadbox" /\ m.owner \in Bots
  BY DbTakes, RequestShapes DEF TypeOK, DbLoadBox
<1>2. a \in Answers /\ a.op = "box" /\ a.owner = m.owner /\ a.items = dbox[m.owner]
  <2>1. dbox[m.owner] \in SUBSET Items /\ dyang[m.owner] \in Int  BY <1>1 DEF TypeOK, BoxesOK
  <2> QED  BY <1>1, <2>1 DEF Answers
<1>3. toDb # <<>> /\ toDb' = Tail(toDb) /\ UNCHANGED <<req, cbox, dbox>> /\ toCore' = toCore \o <<a>>
  BY DEF DbLoadBox, AtDb, TakenByDb, people, core, dboxes, ToCore
<1>4. /\ \A S : Has(toDb, S) <=> m \in S \/ Has(toDb', S)
      /\ \A S : Ones(toDb, S) => Ones(toDb', S)
      /\ \A S, T : Before(toDb, S, T) => Before(toDb', S, T)
  BY <1>3, WiresAre, QueueTaken
<1> HIDE DEF m, a
<1>5. /\ \A S : Has(toCore', S) <=> Has(toCore, S) \/ a \in S
      /\ \A S : Ones(toCore, S) /\ ~(Has(toCore, S) /\ a \in S) => Ones(toCore', S)
      /\ \A S, T : Before(toCore, S, T) /\ a \notin S => Before(toCore', S, T)
  BY <1>2, <1>3, WiresAre, QueueSent
<1>6. /\ m \notin Takes(b, i) /\ m \notin Declines(b, i)
      /\ a \notin Confirms(b, i) /\ a \notin Boxings(b, i)
      /\ a \in BoxesWith(b, i) => i \in dbox[b]
  BY <1>1, <1>2 DEF Takes, Declines, Feedbacks, Confirms, Boxings, BoxesWith, Boxes
<1>7. /\ Has(toDb', Takes(b, i)) <=> Has(toDb, Takes(b, i))
      /\ Has(toDb', Declines(b, i)) <=> Has(toDb, Declines(b, i))
      /\ Has(toCore', Confirms(b, i)) <=> Has(toCore, Confirms(b, i))
      /\ Has(toCore', Boxings(b, i)) <=> Has(toCore, Boxings(b, i))
      /\ Has(toCore', BoxesWith(b, i)) => Has(toCore, BoxesWith(b, i)) \/ i \in dbox[b]
  BY <1>4, <1>5, <1>6
<1>8. Token(req[b] = <<"withdraw", i>>, toDb, Takes(b, i), toCore, Confirms(b, i))'
  BY <1>3, <1>4, <1>5, <1>6, <1>7 DEF Token, Fetching
<1>9. Sought(b, i)' => Stored(b, i)'  BY <1>3, <1>7 DEF Sought, Stored, Fetching
<1>10. Before(toDb', Declines(b, i), Takes(b, i)) /\ Before(toCore', Boxings(b, i), Confirms(b, i))
  BY <1>4, <1>5, <1>6 DEF Fetching
<1> QED  BY <1>8, <1>9, <1>10 DEF Fetching

\* Nothing in the box is being handed out when it is put there.
LEMMA FetchingBoxed ==
  ASSUME Ledger, BoxAddDone, NEW b \in Bots, NEW i \in Items, Fetching(b, i) PROVE Fetching(b, i)'
<1> DEFINE m == Head(sql)
           a == [op |-> "boxed", owner |-> m.owner, item |-> m.item]
<1>0. TypeOK  BY DEF Ledger
<1>1. m \in Queries /\ m.op = "boxadd" /\ m.owner \in Bots /\ m.item \in Items
      /\ \A S : m \in S => Has(sql, S)
  BY <1>0, Queried1, QueryShapes DEF BoxAddDone
<1>2. a \in Answers /\ a.op = "boxed" /\ a.owner = m.owner /\ a.item = m.item
  BY <1>1 DEF Answers, Named
<1>3. UNCHANGED <<req, cbox, toDb>> /\ toCore' = toCore \o <<a>>
      /\ dbox' = [dbox EXCEPT ![m.owner] = @ \cup {m.item}]
  BY DEF BoxAddDone, people, core, ToCore
<1> HIDE DEF m, a
<1>4. /\ \A S : Has(toCore', S) <=> Has(toCore, S) \/ a \in S
      /\ \A S : Ones(toCore, S) /\ ~(Has(toCore, S) /\ a \in S) => Ones(toCore', S)
      /\ \A S, T : Before(toCore, S, T) /\ a \notin S => Before(toCore', S, T)
      /\ \A S, T : Before(toCore, S, T) /\ ~(a \in S /\ a \in T) /\ ~Has(toCore, T) => Before(toCore', S, T)
  BY <1>0, <1>2, <1>3, WiresAre, QueueSent
<1>5. /\ a \notin Confirms(b, i) /\ a \notin BoxesWith(b, i)
      /\ a \in Boxings(b, i) <=> b = m.owner /\ i = m.item
  BY <1>2 DEF Confirms, BoxesWith, Boxes, Boxings
<1>6. i \in dbox'[b] <=> i \in dbox[b] \/ (b = m.owner /\ i = m.item)
  BY <1>0, <1>1, <1>3 DEF TypeOK, BoxesOK
<1>7. /\ Has(toCore', Confirms(b, i)) <=> Has(toCore, Confirms(b, i))
      /\ Has(toCore', Boxings(b, i)) => Has(toCore, Boxings(b, i)) \/ i \in dbox'[b]
      /\ Has(toCore', BoxesWith(b, i)) <=> Has(toCore, BoxesWith(b, i))
  BY <1>4, <1>5, <1>6
<1>8. Token(req[b] = <<"withdraw", i>>, toDb, Takes(b, i), toCore, Confirms(b, i))'
  BY <1>3, <1>4, <1>5, <1>7 DEF Token, Fetching
<1>9. Sought(b, i)' => Stored(b, i)'  BY <1>3, <1>6, <1>7 DEF Sought, Stored, Fetching
<1>10. Before(toCore', Boxings(b, i), Confirms(b, i))
  <2>1. CASE ~(b = m.owner /\ i = m.item)  BY <1>4, <1>5, <2>1 DEF Fetching
  <2>2. CASE b = m.owner /\ i = m.item
    <3>1. m \in QueriesWith(i)  BY <1>1, <2>2 DEF QueriesWith
    <3>2. Queried(i)  BY <1>1, <3>1 DEF Queried
    <3>3. i \notin dheld[b]  BY <3>2, QueriedOnly DEF Ledger
    <3>4. ~Has(toCore, Confirms(b, i))  BY <3>3 DEF Ledger, Withdrawals, Withdrawal, Token
    <3> QED  BY <1>4, <1>5, <3>4 DEF Fetching
  <2> QED  BY <2>1, <2>2
<1>11. Before(toDb', Declines(b, i), Takes(b, i))  BY <1>3 DEF Fetching
<1> QED  BY <1>8, <1>9, <1>10, <1>11 DEF Fetching

\* The core's copy of the box follows what the db core said of it.
LEMMA FetchingShown ==
  ASSUME TypeOK, CoreBoxed \/ CoreBox, NEW b \in Bots, NEW i, Fetching(b, i) PROVE Fetching(b, i)'
<1> DEFINE m == Head(toCore)
<1>1. m \in Answers /\ m.op \in {"boxed", "box"} /\ m.owner \in Bots
  BY CoreTakes, AnswerShapes DEF TypeOK, CoreBoxed, CoreBox
<1>2. toCore # <<>> /\ toCore' = Tail(toCore) /\ UNCHANGED <<req, dbox, toDb>>
  BY DEF CoreBoxed, CoreBox, AtCore, TakenByCore, people, dboxes
<1>3. \/ m.op = "boxed" /\ cbox' = [cbox EXCEPT ![m.owner] = @ \cup {m.item}]
      \/ m.op = "box" /\ cbox' = [cbox EXCEPT ![m.owner] = m.items]
  BY DEF CoreBoxed, CoreBox, AtCore
<1>4. /\ \A S : Has(toCore, S) <=> m \in S \/ Has(toCore', S)
      /\ \A S : Ones(toCore, S) => Ones(toCore', S)
      /\ \A S, T : Before(toCore, S, T) => Before(toCore', S, T)
  BY <1>2, WiresAre, QueueTaken
<1> HIDE DEF m
<1>5. m \notin Confirms(b, i)  BY <1>1 DEF Confirms
<1>6. i \in cbox'[b] => i \in cbox[b] \/ m \in Boxings(b, i) \/ m \in BoxesWith(b, i)
  <2>1. cbox \in [Bots -> SUBSET Items]  BY DEF TypeOK, MirrorOK
  <2>2. b # m.owner => cbox'[b] = cbox[b]  BY <1>3, <2>1
  <2>3. CASE m.op = "boxed" /\ b = m.owner
    <3>1. cbox'[b] = cbox[b] \cup {m.item}  BY <1>1, <1>3, <2>1, <2>3
    <3> QED  BY <1>1, <2>3, <3>1 DEF Boxings
  <2>4. CASE m.op = "box" /\ b = m.owner
    <3>1. cbox'[b] = m.items  BY <1>1, <1>3, <2>1, <2>4
    <3> QED  BY <1>1, <2>4, <3>1 DEF BoxesWith, Boxes
  <2> QED  BY <1>1, <2>2, <2>3, <2>4
<1>7. /\ Has(toCore', Confirms(b, i)) <=> Has(toCore, Confirms(b, i))
      /\ Sought(b, i)' => Sought(b, i)
  BY <1>2, <1>4, <1>5, <1>6 DEF Sought
<1>8. Token(req[b] = <<"withdraw", i>>, toDb, Takes(b, i), toCore, Confirms(b, i))'
  BY <1>2, <1>4, <1>7 DEF Token, Fetching
<1>9. Stored(b, i) => Stored(b, i)'  BY <1>2, <1>7 DEF Stored
<1>10. Before(toCore', Boxings(b, i), Confirms(b, i)) /\ Before(toDb', Declines(b, i), Takes(b, i))
  BY <1>2, <1>4 DEF Fetching
<1> QED  BY <1>7, <1>8, <1>9, <1>10 DEF Fetching

\* A confirmed item leaves the core's copy of the box with the last word about
\* it, or is declined: either way the request is done.
LEMMA FetchingConfirmed ==
  ASSUME Ledger, NEW room \in BOOLEAN, CoreConfirm(room), NEW b \in Bots, Money(b),
         NEW i \in Items, Fetching(b, i)
  PROVE  Fetching(b, i)'
<1> DEFINE m == Head(toCore)
           taken == m.item \in cbox[m.owner] /\ world[m.owner] = "in" /\ room
           a == [op |-> "feedback", owner |-> m.owner, item |-> m.item, success |-> taken]
<1>0. TypeOK /\ Withdrawals  BY DEF Ledger
<1>1. m \in Answers /\ m.op = "confirm" /\ m.owner \in Bots /\ m.item \in Items
  BY <1>0, Confirmed
<1>2. taken \in BOOLEAN /\ (taken => world[m.owner] = "in")  OBVIOUS
<1>3. cbox' = IF taken THEN [cbox EXCEPT ![m.owner] = @ \ {m.item}] ELSE cbox
  BY DEF CoreConfirm
<1>4. toDb' = toDb \o <<a>>  BY DEF CoreConfirm, ToDb
<1>5. toCore # <<>> /\ toCore' = Tail(toCore) /\ dbox' = dbox
  BY DEF CoreConfirm, AtCore, TakenByCore, dboxes
<1>16. Complete(m.owner, "withdraw", m.item)  BY DEF CoreConfirm
<1> HIDE DEF taken
<1>6. a \in Requests /\ a.op = "feedback" /\ a.owner = m.owner /\ a.item = m.item /\ (a.success <=> taken)
  BY <1>1, <1>2 DEF Requests
<1> HIDE DEF a
<1>7. /\ \A S : Has(toCore, S) <=> m \in S \/ Has(toCore', S)
      /\ \A S : Ones(toCore, S) => Ones(toCore', S) /\ ~(m \in S /\ Has(toCore', S))
      /\ \A S, T : Before(toCore, S, T) => Before(toCore', S, T) /\ (m \in T => ~Has(toCore, S))
  BY <1>0, <1>5, WiresAre, QueueTaken
<1>8. /\ \A S : Has(toDb', S) <=> Has(toDb, S) \/ a \in S
      /\ \A S : Ones(toDb, S) /\ ~(Has(toDb, S) /\ a \in S) => Ones(toDb', S)
      /\ \A S, T : Before(toDb, S, T) /\ a \notin S => Before(toDb', S, T)
      /\ \A S, T : Before(toDb, S, T) /\ ~(a \in S /\ a \in T) /\ ~Has(toDb, T) => Before(toDb', S, T)
  BY <1>0, <1>4, <1>6, WiresAre, QueueSent
<1> HIDE DEF m
<1>9. /\ m \in Confirms(b, i) <=> b = m.owner /\ i = m.item
      /\ m \notin Boxings(b, i) /\ m \notin BoxesWith(b, i)
      /\ a \notin Takes(b, i)
      /\ a \in Declines(b, i) <=> b = m.owner /\ i = m.item /\ ~taken
  BY <1>1, <1>6 DEF Confirms, Boxings, BoxesWith, Boxes, Takes, Declines, Feedbacks
<1>10. Before(toCore', Boxings(b, i), Confirms(b, i))  BY <1>7 DEF Fetching
<1>11. /\ Has(toDb', Takes(b, i)) <=> Has(toDb, Takes(b, i))
       /\ Ones(toDb, Takes(b, i)) => Ones(toDb', Takes(b, i))
       /\ Has(toDb, Declines(b, i)) => Has(toDb', Declines(b, i))
  BY <1>8, <1>9
<1>12. Token(req[b] = <<"withdraw", i>>, toDb, Takes(b, i), toCore, Confirms(b, i))  BY DEF Fetching
<1>13. PeopleOK /\ <<"withdraw", i>> # NoRequest /\ cbox \in [Bots -> SUBSET Items]
  BY <1>0 DEF TypeOK, NoRequest, MirrorOK
<1>14. CASE ~(b = m.owner /\ i = m.item)
  <2>1. /\ Has(toCore', Confirms(b, i)) <=> Has(toCore, Confirms(b, i))
        /\ Ones(toCore, Confirms(b, i)) => Ones(toCore', Confirms(b, i))
        /\ Has(toCore', Boxings(b, i)) <=> Has(toCore, Boxings(b, i))
        /\ Has(toCore', BoxesWith(b, i)) <=> Has(toCore, BoxesWith(b, i))
    BY <1>7, <1>9, <1>14
  <2>2. req'[b] = <<"withdraw", i>> <=> req[b] = <<"withdraw", i>>
    <3>1. PICK j \in Items, c \in Bots : j = m.item /\ c = m.owner  BY <1>1
    <3>2. req' = IF req[c] = <<"withdraw", j>> THEN [req EXCEPT ![c] = NoRequest] ELSE req
      BY <1>16, <3>1 DEF Complete
    <3>3. req[b] = <<"withdraw", i>> /\ b = c => <<"withdraw", i>> # <<"withdraw", j>>  BY <1>14, <3>1
    <3> QED  BY <1>13, <3>2, <3>3 DEF PeopleOK
  <2>3. Token(req[b] = <<"withdraw", i>>, toDb, Takes(b, i), toCore, Confirms(b, i))'
    BY <1>11, <1>12, <2>1, <2>2 DEF Token
  <2>4. i \in cbox'[b] => i \in cbox[b]  BY <1>1, <1>3, <1>13
  <2>5. Sought(b, i)' => Stored(b, i)'
    BY <1>5, <1>11, <2>1, <2>4 DEF Sought, Stored, Fetching
  <2>6. Before(toDb', Declines(b, i), Takes(b, i))  BY <1>8, <1>9, <1>14 DEF Fetching
  <2> QED  BY <1>10, <2>3, <2>5, <2>6 DEF Fetching
<1>15. CASE b = m.owner /\ i = m.item
  <2>1. m \in Confirms(b, i)  BY <1>9, <1>15
  <2>2. ~Has(toCore', Confirms(b, i)) /\ Ones(toCore', Confirms(b, i)) /\ ~Has(toDb, Takes(b, i))
    BY <1>7, <1>12, <2>1 DEF Token
  <2>3. ~Has(toCore', Boxings(b, i))  BY <1>7, <2>1 DEF Fetching
  <2>4. req'[b] # <<"withdraw", i>>
    <3>1. req'[m.owner] # <<"withdraw", m.item>> \/ <<"withdraw", m.item>> = NoRequest
      BY <1>1, <1>13, <1>16, EntryBegun
    <3> QED  BY <1>13, <1>15, <3>1
  <2>5. ~Has(toDb', Takes(b, i))  BY <1>11, <2>2
  <2>6. Ones(toDb', Takes(b, i))  BY <1>11, <1>12 DEF Token
  <2>7. Token(req[b] = <<"withdraw", i>>, toDb, Takes(b, i), toCore, Confirms(b, i))'
    BY <2>2, <2>4, <2>5, <2>6 DEF Token
  <2>8. Before(toDb', Declines(b, i), Takes(b, i))  BY <1>8, <1>9, <2>2 DEF Fetching
  <2>9. Sought(b, i)' => Stored(b, i)'
    <3>1. CASE ~taken  BY <1>8, <1>9, <1>15, <3>1 DEF Stored
    <3>2. CASE taken
      <4>1. i \notin cbox'[b]  BY <1>1, <1>3, <1>13, <1>15, <3>2
      <4>2. world[b] = "in"  BY <1>2, <1>15, <3>2
      <4>3. ~Has(toCore, Boxes(b))  BY <4>2 DEF Money, Sending, Token
      <4>4. ~Has(toCore', Boxes(b))  BY <1>7, <4>3
      <4>5. ~Has(toCore', BoxesWith(b, i))  BY <4>4, HasMore DEF BoxesWith
      <4> QED  BY <2>3, <2>5, <4>1, <4>5 DEF Sought
    <3> QED  BY <3>1, <3>2
  <2> QED  BY <1>10, <2>7, <2>8, <2>9 DEF Fetching
<1> QED  BY <1>14, <1>15

LEMMA FetchingStep ==
  ASSUME Ledger, [Next]_vars, NEW b \in Bots, Money(b), NEW i \in Items, Fetching(b, i)
  PROVE  Fetching(b, i)'
<1>0. TypeOK /\ Withdrawals  BY DEF Ledger
<1>1. CASE DbGetItem  BY <1>0, <1>1, FetchingHeld
<1>2. CASE DbFeedback  BY <1>0, <1>2, FetchingBack
<1>3. CASE DbLoadBox  BY <1>0, <1>3, FetchingLoaded
<1>4. CASE BoxAddDone  BY <1>4, FetchingBoxed
<1>5. CASE CoreBoxed \/ CoreBox  BY <1>0, <1>5, FetchingShown
<1>6. CASE Completes("withdraw")  BY <1>6, FetchingConfirmed DEF Completes
<1>7. CASE Begins("withdraw")  BY <1>0, <1>7, FetchingBegun
<1>8. CASE ~DbGetItem /\ ~DbFeedback /\ ~DbLoadBox /\ ~BoxAddDone /\ ~CoreBoxed /\ ~CoreBox
           /\ ~Completes("withdraw") /\ ~Begins("withdraw")
  BY <1>0, <1>8, FetchingAside
<1> QED  BY <1>1, <1>2, <1>3, <1>4, <1>5, <1>6, <1>7, <1>8

\* What a request to open a shop, or to withdraw, can be about.
Asking(b, i) ==
  /\ req[b] = <<"create", i>> => i = None
  /\ req[b] = <<"withdraw", i>> => i \in Items

LEMMA AskingCreates ==
  ASSUME TypeOK, [Next]_vars, NEW b \in Bots, NEW i, Asking(b, i), req'[b] = <<"create", i>>
  PROVE  i = None
<1>0. PeopleOK /\ <<"create", i>> # NoRequest  BY DEF TypeOK, NoRequest
<1>1. CASE Begins("create")
  <2>1. PICK o \in Owners, m \in Requests : req[o] = NoRequest /\ Begin(o, "create", None)  BY <1>1, Opens
  <2>2. o \in Bots  BY BotsAssumption
  <2>3. CASE b = o
    <3>1. req'[b] = <<"create", None>>  BY <1>0, <2>1, <2>2, <2>3, EntryBegun
    <3> QED  BY <3>1
  <2>4. CASE b # o
    <3>1. req'[b] = req[b]  BY <1>0, <2>1, <2>2, <2>4, EntryBegun
    <3> QED  BY <3>1 DEF Asking
  <2> QED  BY <2>3, <2>4
<1>2. CASE Completes("create")
  <2>1. CoreCreated  BY <1>2 DEF Completes
  <2>2. PICK o \in Bots : o = Head(toCore).owner
    BY <2>1, CoreTakes, AnswerShapes DEF TypeOK, CoreCreated
  <2>3. Complete(o, "create", None)  BY <2>1, <2>2 DEF CoreCreated
  <2>4. req'[b] = req[b] \/ req'[b] = NoRequest  BY <1>0, <2>3, EntryBegun
  <2> QED  BY <1>0, <2>4 DEF Asking
<1>3. CASE ~Begins("create") /\ ~Completes("create")
  <2>1. req[b] = <<"create", i>>  BY <1>3, JournalSteps
  <2> QED  BY <2>1 DEF Asking
<1> QED  BY <1>1, <1>2, <1>3

LEMMA AskingWithdraws ==
  ASSUME TypeOK, [Next]_vars, NEW b \in Bots, NEW i, Asking(b, i), req'[b] = <<"withdraw", i>>
  PROVE  i \in Items
<1>0. PeopleOK /\ <<"withdraw", i>> # NoRequest  BY DEF TypeOK, NoRequest
<1>1. CASE Begins("withdraw")
  <2>1. PICK c \in Bots, j \in Items : VisitWithdraw(c, j)  BY <1>1 DEF Begins
  <2>2. Begin(c, "withdraw", j) /\ <<"withdraw", j>> # NoRequest
    BY <2>1 DEF VisitWithdraw, Visit, NoRequest
  <2>3. CASE b = c
    <3>1. req'[b] = <<"withdraw", j>>  BY <1>0, <2>2, <2>3, EntryBegun
    <3> QED  BY <3>1
  <2>4. CASE b # c
    <3>1. req'[b] = req[b]  BY <1>0, <2>2, <2>4, EntryBegun
    <3> QED  BY <3>1 DEF Asking
  <2> QED  BY <2>3, <2>4
<1>2. CASE Completes("withdraw")
  <2>1. PICK room \in BOOLEAN : CoreConfirm(room)  BY <1>2 DEF Completes
  <2>2. PICK c \in Bots, j \in Items : c = Head(toCore).owner /\ j = Head(toCore).item
    BY <2>1, CoreTakes, AnswerShapes DEF TypeOK, CoreConfirm
  <2>3. Complete(c, "withdraw", j)  BY <2>1, <2>2 DEF CoreConfirm
  <2>4. req'[b] = req[b] \/ req'[b] = NoRequest  BY <1>0, <2>3, EntryBegun
  <2> QED  BY <1>0, <2>4 DEF Asking
<1>3. CASE ~Begins("withdraw") /\ ~Completes("withdraw")
  <2>1. req[b] = <<"withdraw", i>>  BY <1>3, JournalSteps
  <2> QED  BY <2>1 DEF Asking
<1> QED  BY <1>1, <1>2, <1>3

LEMMA AskingStep ==
  ASSUME TypeOK, [Next]_vars, NEW b \in Bots, NEW i, Asking(b, i) PROVE Asking(b, i)'
<1>1. req'[b] = <<"create", i>> => i = None  BY AskingCreates
<1>2. req'[b] = <<"withdraw", i>> => i \in Items  BY AskingWithdraws
<1> QED  BY <1>1, <1>2 DEF Asking

-----------------------------------------------------------------------------
(* Every request that must be answered will be.                            *)

Answering ==
  \A b \in Bots : /\ \A i \in Items : Fetching(b, i)
                  /\ \A i \in Items \cup {None} : Buying(b, i) /\ Asking(b, i)

Attending == Standing /\ Answering

LEMMA AttendingStart == Init => Attending
<1> SUFFICES ASSUME Init PROVE Attending  OBVIOUS
<1>1. Standing  BY StandingStart
<1> SUFFICES ASSUME NEW b \in Bots
             PROVE  /\ \A i \in Items : Fetching(b, i)
                    /\ \A i \in Items \cup {None} : Buying(b, i) /\ Asking(b, i)
  BY <1>1 DEF Attending, Answering
<1>2. toDb = <<>> /\ toCore = <<>> /\ req[b] = NoRequest /\ cbox[b] = {}  BY DEF Init
<1>3. /\ \A S : ~Has(<<>>, S) /\ Ones(<<>>, S)
      /\ \A S, T : Before(<<>>, S, T)
  BY ShortQueues
<1>4. \A i : req[b] # <<"create", i>> /\ req[b] # <<"withdraw", i>> /\ req[b] # <<"buy", i>>
  BY <1>2 DEF NoRequest
<1>5. ASSUME NEW i PROVE Fetching(b, i) /\ Buying(b, i) /\ Asking(b, i)
  <2>1. Token(req[b] = <<"withdraw", i>>, toDb, Takes(b, i), toCore, Confirms(b, i))
    BY <1>2, <1>3, <1>4 DEF Token
  <2>2. ~Sought(b, i)  BY <1>2, <1>3 DEF Sought
  <2>3. Fetching(b, i)  BY <1>2, <1>3, <2>1, <2>2 DEF Fetching
  <2> QED  BY <1>4, <2>3 DEF Buying, Asking
<1> QED  BY <1>5

LEMMA AttendingStep == Attending /\ [Next]_vars => Attending'
<1> SUFFICES ASSUME Attending, [Next]_vars PROVE Attending'  OBVIOUS
<1>1. Standing'  BY StandingStep DEF Attending
<1>2. /\ Ledger /\ TypeOK /\ Purchases
      /\ \A o \in Bots : Mirrored(o)
      /\ \A b \in Bots : Money(b)
  BY DEF Attending, Standing, Books, Ledger, Shops
<1>3. ASSUME NEW b \in Bots, NEW i \in Items PROVE Fetching(b, i)'
  BY <1>2, FetchingStep DEF Attending, Answering
<1>4. ASSUME NEW b \in Bots, NEW i \in Items \cup {None} PROVE Buying(b, i)' /\ Asking(b, i)'
  <2>1. Buying(b, i) /\ Asking(b, i)  BY DEF Attending, Answering
  <2> QED  BY <1>2, <2>1, BuyingStep, AskingStep
<1> QED  BY <1>1, <1>3, <1>4 DEF Attending, Answering

\* With nothing on its way there is nothing the journal could wait for.
LEMMA AttendingMeans == Attending => NobodyWaits
<1> SUFFICES ASSUME Attending, Settled
             PROVE  /\ locked = {}
                    /\ \A b \in Bots : req[b][1] \in {"none", "add", "edit", "remove"}
  BY DEF NobodyWaits
<1>1. toDb = <<>> /\ toCore = <<>> /\ sql = <<>> /\ \A S : ~Has(<<>>, S)
  BY ShortQueues DEF Settled
<1>2. TypeOK /\ Purchases /\ Shops  BY DEF Attending, Standing, Books, Ledger
<1>3. locked = {}
  <2>1. ASSUME NEW line \in locked PROVE FALSE
    <3>1. PICK o \in Bots, i \in Items : line = <<o, i>>  BY <1>2 DEF TypeOK, ShopsOK
    <3> QED  BY <1>1, <1>2, <2>1, <3>1 DEF Purchases, Purchase, Token
  <2> QED  BY <2>1
<1>4. ASSUME NEW b \in Bots PROVE req[b][1] \in {"none", "add", "edit", "remove"}
  <2>1. PICK op \in Ops, i \in Items \cup {None} : req[b] = <<op, i>>  BY <1>2 DEF TypeOK, PeopleOK
  <2>2. req[b][1] = op  BY <2>1
  <2>3. Asking(b, i) /\ Buying(b, i) /\ (i \in Items => Fetching(b, i))
    BY DEF Attending, Answering
  <2>4. op # "create"
    <3>1. req[b] # <<"create", None>>  BY <1>1, <1>2 DEF Shops, Opening
    <3> QED  BY <2>1, <2>3, <3>1 DEF Asking
  <2>5. op # "withdraw"
    <3>1. SUFFICES ASSUME op = "withdraw" PROVE FALSE  OBVIOUS
    <3>2. Fetching(b, i)  BY <2>1, <2>3, <3>1 DEF Asking
    <3> QED  BY <1>1, <2>1, <3>1, <3>2 DEF Fetching, Token
  <2>6. op # "buy"
    <3>1. SUFFICES ASSUME op = "buy" PROVE FALSE  OBVIOUS
    <3> QED  BY <1>1, <2>1, <2>3, <3>1 DEF Buying
  <2> QED  BY <2>1, <2>2, <2>4, <2>5, <2>6 DEF Ops
<1> QED  BY <1>3, <1>4

\* Whoever has left, been refused, found a bag full or a line gone: with nothing
\* on its way no line is locked and no request to buy, to open a shop or to
\* withdraw is left open.
THEOREM NobodyIsLeftWaiting == Spec => []NobodyWaits
  BY AttendingStart, AttendingStep, AttendingMeans, PTL DEF Spec

-----------------------------------------------------------------------------
(* What becomes of an item: it stays where it is, or it arrives elsewhere. *)

Somewhere(i) ==
  \/ \E b \in Bots : InBag(i, b) \/ OnSale(i, b) \/ InBox(i, b) \/ Held(i, b)
  \/ Asked(i) \/ Queried(i) \/ Answered(i)

\* An item that is counted once is somewhere, and the other way around.
LEMMA CountedThere ==
  ASSUME TypeOK, NEW i \in Items, Apart(i) PROVE Copies(i) = 1 <=> Somewhere(i)
<1> DEFINE B == {b \in Bots : i \in bag[b]}
           S == {o \in Bots : dprice[o][i] > 0}
           X == {b \in Bots : i \in dbox[b]}
           H == {b \in Bots : i \in dheld[b] /\ ~HandedOver(b, i)}
           D == InFlight(toDb, {"create", "add", "boxadd"}, i)
           Q == InFlight(sql, {"create", "put", "add", "boxadd"}, i)
           A == InFlight(toCore, {"removed", "sold"}, i)
<1>1. /\ IsFiniteSet(B) /\ IsFiniteSet(S) /\ IsFiniteSet(X) /\ IsFiniteSet(H)
      /\ IsFiniteSet(D) /\ IsFiniteSet(Q) /\ IsFiniteSet(A)
  <2>1. B \subseteq Bots /\ S \subseteq Bots /\ X \subseteq Bots /\ H \subseteq Bots  OBVIOUS
  <2>2. Len(toDb) \in Nat /\ Len(sql) \in Nat /\ Len(toCore) \in Nat  BY WiresAre
  <2>3. D \subseteq 1..Len(toDb) /\ Q \subseteq 1..Len(sql) /\ A \subseteq 1..Len(toCore)
    BY DEF InFlight
  <2>4. IsFiniteSet(1..Len(toDb)) /\ IsFiniteSet(1..Len(sql)) /\ IsFiniteSet(1..Len(toCore))
    BY <2>2, FS_Interval
  <2> HIDE DEF B, S, X, H, D, Q, A
  <2> QED  BY <2>1, <2>3, <2>4, BotsAssumption, FS_Subset
<1>2. Copies(i) = Cardinality(B) + Cardinality(S) + Cardinality(X) + Cardinality(H)
                  + Cardinality(D) + Cardinality(Q) + Cardinality(A)
  BY DEF Copies
<1>3. Somewhere(i) <=> B # {} \/ S # {} \/ X # {} \/ H # {} \/ D # {} \/ Q # {} \/ A # {}
  <2>1. /\ D = {n \in 1..Len(toDb) : toDb[n] \in AsksWith(i)}
        /\ Q = {n \in 1..Len(sql) : sql[n] \in QueriesWith(i)}
        /\ A = {n \in 1..Len(toCore) : toCore[n] \in AnswersWith(i)}
    BY FlightsAre
  <2>2. (Asked(i) <=> D # {}) /\ (Queried(i) <=> Q # {}) /\ (Answered(i) <=> A # {})
    BY <2>1 DEF Asked, Queried, Answered, Has
  <2>3. /\ (\E b \in Bots : InBag(i, b)) <=> B # {}
        /\ (\E b \in Bots : OnSale(i, b)) <=> S # {}
        /\ (\E b \in Bots : InBox(i, b)) <=> X # {}
        /\ (\E b \in Bots : Held(i, b)) <=> H # {}
    BY HandedIs DEF InBag, OnSale, InBox, Held
  <2> HIDE DEF B, S, X, H, D, Q, A
  <2> QED  BY <2>2, <2>3 DEF Somewhere
<1>4. Copies(i) <= 1  BY ApartCounts
<1> HIDE DEF B, S, X, H, D, Q, A
<1>5. /\ Cardinality(B) \in Nat /\ Cardinality(S) \in Nat /\ Cardinality(X) \in Nat
      /\ Cardinality(H) \in Nat /\ Cardinality(D) \in Nat /\ Cardinality(Q) \in Nat
      /\ Cardinality(A) \in Nat
  BY <1>1, FS_CardinalityType
<1>6. /\ (Cardinality(B) = 0 <=> B = {}) /\ (Cardinality(S) = 0 <=> S = {})
      /\ (Cardinality(X) = 0 <=> X = {}) /\ (Cardinality(H) = 0 <=> H = {})
      /\ (Cardinality(D) = 0 <=> D = {}) /\ (Cardinality(Q) = 0 <=> Q = {})
      /\ (Cardinality(A) = 0 <=> A = {})
  BY <1>1, FS_EmptySet
<1>7. PICK b, s, x, h, d, q, a \in Nat :
        /\ b = Cardinality(B) /\ s = Cardinality(S) /\ x = Cardinality(X) /\ h = Cardinality(H)
        /\ d = Cardinality(D) /\ q = Cardinality(Q) /\ a = Cardinality(A)
  BY <1>5
<1>8. Copies(i) = b + s + x + h + d + q + a  BY <1>2, <1>7
<1>9. Copies(i) = 1 <=> ~(b = 0 /\ s = 0 /\ x = 0 /\ h = 0 /\ d = 0 /\ q = 0 /\ a = 0)
  BY <1>4, <1>8
<1> QED  BY <1>3, <1>6, <1>7, <1>9

\* Where an item is after a step.
LEMMA SomewhereNext ==
  ASSUME NEW i,
         \/ \E b \in Bots : \/ i \in bag'[b] \/ dprice'[b][i] > 0 \/ i \in dbox'[b]
                            \/ i \in dheld'[b] /\ ~Has(toDb', Handings(b, i))
         \/ Has(toDb', AsksWith(i)) \/ Has(sql', QueriesWith(i)) \/ Has(toCore', AnswersWith(i))
  PROVE  Somewhere(i)'
  BY DEF Somewhere, InBag, OnSale, InBox, Held, Asked, Queried, Answered

\* What a step may leave as it is.
BagsLast(i) == \A b \in Bots : i \in bag[b] => i \in bag'[b]
SaleLasts(i) == \A b \in Bots : dprice[b][i] > 0 => dprice'[b][i] > 0
BoxesLast(i) == \A b \in Bots : i \in dbox[b] => i \in dbox'[b]
HoldsLast(i) == \A b \in Bots : Held(i, b) => i \in dheld'[b] /\ ~Has(toDb', Handings(b, i))
AsksLast(i) == Asked(i) => Has(toDb', AsksWith(i))
QueriesLast(i) == Queried(i) => Has(sql', QueriesWith(i))
AnswersLast(i) == Answered(i) => Has(toCore', AnswersWith(i))

LEMMA AllLast ==
  ASSUME NEW i, Somewhere(i), BagsLast(i), SaleLasts(i), BoxesLast(i), HoldsLast(i),
         AsksLast(i), QueriesLast(i), AnswersLast(i)
  PROVE  Somewhere(i)'
<1>1. CASE \E b \in Bots : InBag(i, b) \/ OnSale(i, b) \/ InBox(i, b) \/ Held(i, b)
  BY <1>1, SomewhereNext DEF InBag, OnSale, InBox, BagsLast, SaleLasts, BoxesLast, HoldsLast
<1>2. CASE Asked(i) \/ Queried(i) \/ Answered(i)
  BY <1>2, SomewhereNext DEF AsksLast, QueriesLast, AnswersLast
<1> QED  BY <1>1, <1>2 DEF Somewhere

LEMMA UnchangedLast ==
  ASSUME NEW i
  PROVE  /\ bag' = bag => BagsLast(i)
         /\ dprice' = dprice => SaleLasts(i)
         /\ dbox' = dbox => BoxesLast(i)
         /\ dheld' = dheld /\ (\A b \in Bots : Has(toDb', Handings(b, i)) => Has(toDb, Handings(b, i)))
              => HoldsLast(i)
         /\ toDb' = toDb => AsksLast(i)
         /\ sql' = sql => QueriesLast(i)
         /\ toCore' = toCore => AnswersLast(i)
  BY DEF BagsLast, SaleLasts, BoxesLast, HoldsLast, AsksLast, QueriesLast, AnswersLast,
         Held, Asked, Queried, Answered

\* The wires of a step that moves other kinds of packets only.
LEMMA WiresLast ==
  ASSUME TypeOK, NEW i, Apart(i), NEW d, NEW c, DbWire(d), CoreWire(c)
  PROVE  /\ "create" \notin d /\ "add" \notin d /\ "boxadd" \notin d => AsksLast(i)
         /\ dheld' = dheld /\ "feedback" \notin d => HoldsLast(i)
         /\ "removed" \notin c /\ "sold" \notin c => AnswersLast(i)
<1>1. /\ "create" \notin d /\ "add" \notin d /\ "boxadd" \notin d => (Has(toDb', AsksWith(i)) <=> Asked(i))
      /\ "feedback" \notin d =>
           \A b \in Bots : Has(toDb', Handings(b, i)) <=> Has(toDb, Handings(b, i))
      /\ "removed" \notin c /\ "sold" \notin c => (Has(toCore', AnswersWith(i)) <=> Answered(i))
  BY QuietWires
<1> QED  BY <1>1, UnchangedLast DEF AsksLast, AnswersLast

LEMMA BystandersLast ==
  ASSUME TypeOK, NEW i, Apart(i), Somewhere(i), [Next]_vars, ~MovesItems PROVE Somewhere(i)'
<1>1. PICK d, c : Wires(d, c)  BY StepWires
<1>2. /\ "create" \notin d /\ "add" \notin d /\ "boxadd" \notin d /\ "feedback" \notin d
      /\ "removed" \notin c /\ "sold" \notin c
  BY <1>1 DEF Wires, DbReasons, CoreReasons, MovesItems
<1>3. UNCHANGED <<bag, dprice, dbox, dheld, sql>>  BY Bystanders
<1>4. DbWire(d) /\ CoreWire(c)  BY <1>1 DEF Wires
<1>5. AsksLast(i) /\ HoldsLast(i) /\ AnswersLast(i)  BY <1>2, <1>3, <1>4, WiresLast
<1> QED  BY <1>3, <1>5, UnchangedLast, AllLast

\* Out of the bag.
LEMMA AskedInstead ==
  ASSUME NEW i, Somewhere(i), NEW m, OneMore(m, i),
         m \notin AsksWith(i) => BagsLast(i),
         UNCHANGED <<dprice, dbox, dheld, sql, toCore>>
  PROVE  Somewhere(i)'
<1>1. CASE m \in AsksWith(i)  BY <1>1, SomewhereNext DEF OneMore
<1>2. CASE m \notin AsksWith(i)
  <2>1. AsksLast(i) /\ HoldsLast(i)  BY UnchangedLast DEF OneMore, AsksLast
  <2> QED  BY <1>2, <2>1, UnchangedLast, AllLast
<1> QED  BY <1>1, <1>2

LEMMA SubmitLast ==
  ASSUME TypeOK, NEW i \in Items, Apart(i), Somewhere(i), NEW o \in Bots, NEW offer \in Lines,
         Submit(o, offer)
  PROVE  Somewhere(i)'
<1> DEFINE m == [op |-> "create", owner |-> o, lines |-> offer]
<1>1. offer \in [Items -> Nat]  BY PriceAssumption DEF Lines
<1>2. m \in Requests  BY <1>1 DEF Requests, Stocking
<1>3. toDb' = toDb \o <<m>>  BY DEF Submit, ToDb
<1>4. m.op = "create" /\ m.lines = offer  OBVIOUS
<1>5. m \in AsksWith(i) <=> offer[i] > 0  BY <1>2, <1>4 DEF AsksWith
<1>6. bag' = [bag EXCEPT ![o] = {j \in @ : offer[j] = 0}]  BY DEF Submit
<1>7. UNCHANGED <<dprice, dbox, dheld, sql, toCore>>  BY DEF Submit, dshops, dboxes
<1> HIDE DEF m
<1>8. OneMore(m, i)  BY <1>2, <1>3, <1>4, SentOne
<1>9. m \notin AsksWith(i) => BagsLast(i)
  BY <1>1, <1>5, <1>6 DEF BagsLast, TypeOK, PeopleOK
<1> QED  BY <1>7, <1>8, <1>9, AskedInstead

LEMMA VisitsLast ==
  ASSUME TypeOK, NEW i \in Items, Apart(i), Somewhere(i), NEW o \in Bots
  PROVE  /\ VisitReopen(o) => Somewhere(i)'
         /\ \A j \in Items : \A p \in Prices[j] : VisitAdd(o, j, p) => Somewhere(i)'
<1>1. ASSUME VisitReopen(o) PROVE Somewhere(i)'
  <2> DEFINE m == [op |-> "create", owner |-> o, lines |-> NoLines]
  <2>1. m \in Requests  BY DEF Requests, Stocking, NoLines
  <2>2. Visit(o, "create", None, m) /\ UNCHANGED bag  BY <1>1 DEF VisitReopen
  <2>3. m.op # "feedback"  OBVIOUS
  <2>4. UNCHANGED <<dprice, dbox, dheld, sql, toCore>>  BY <2>2 DEF Visit, dshops, dboxes
  <2> HIDE DEF m
  <2>5. OneMore(m, i)  BY <2>1, <2>2, <2>3, VisitSent
  <2> QED  BY <2>2, <2>4, <2>5, AskedInstead, UnchangedLast
<1>2. ASSUME NEW j \in Items, NEW p \in Prices[j], VisitAdd(o, j, p) PROVE Somewhere(i)'
  <2> DEFINE m == [op |-> "add", owner |-> o, item |-> j, price |-> p]
  <2>1. m \in Requests  BY VisitPackets
  <2>2. Visit(o, "add", j, m) /\ bag' = [bag EXCEPT ![o] = @ \ {j}]  BY <1>2 DEF VisitAdd
  <2>3. m.op = "add" /\ m.item = j  OBVIOUS
  <2>4. UNCHANGED <<dprice, dbox, dheld, sql, toCore>>  BY <2>2 DEF Visit, dshops, dboxes
  <2> HIDE DEF m
  <2>5. m \in AsksWith(i) <=> i = j  BY <2>1, <2>3 DEF AsksWith
  <2>6. OneMore(m, i)  BY <2>1, <2>2, <2>3, VisitSent
  <2>7. m \notin AsksWith(i) => BagsLast(i)  BY <2>2, <2>5 DEF BagsLast, TypeOK, PeopleOK
  <2> QED  BY <2>4, <2>6, <2>7, AskedInstead
<1> QED  BY <1>1, <1>2

-----------------------------------------------------------------------------
(* Through the db core.                                                    *)

\* A new shop is not refused while it has goods on it: its owner has none.
LEMMA OfferTaken ==
  ASSUME TypeOK, Shops, DbCreate PROVE dst[Head(toDb).owner] # "open"
<1> DEFINE m == Head(toDb)
<1>1. m \in Requests /\ m.op = "create" /\ toDb # <<>>
  BY DbTakes DEF TypeOK, DbCreate, AtDb
<1>2. m.owner \in Bots  BY <1>1, RequestShapes
<1>3. m \in Creates(m.owner)  BY <1>1 DEF Creates
<1> HIDE DEF m
<1>4. Has(toDb, Creates(m.owner))  BY <1>1, <1>3, WiresAre, QueueTaken DEF m
<1>5. ~Has(toCore, Createds(m.owner)) /\ cst[m.owner] # "open"  BY <1>2, <1>4 DEF Shops, Opening
<1>6. dst[m.owner] # "open"  BY <1>2, <1>5, NotYetOpen DEF Shops
<1> QED  BY <1>6 DEF m

LEMMA QueriedInstead ==
  ASSUME TypeOK, NEW i \in Items, Apart(i), Somewhere(i), NEW op \in {"create", "add", "boxadd"},
         AtDb(op), TakenByDb, UNCHANGED <<bag, dprice, dbox, dheld, toCore>>,
         \/ sql' = Append(sql, Head(toDb))
         \/ sql' = sql /\ Head(toDb) \notin AsksWith(i)
  PROVE  Somewhere(i)'
<1> DEFINE m == Head(toDb)
<1>1. m \in Requests /\ m.op = op /\ toDb # <<>> /\ toDb' = Tail(toDb)
  BY DbTakes DEF TypeOK, AtDb, TakenByDb
<1>2. m \in Queries  BY <1>1, RequestShapes
<1>3. m \in AsksWith(i) <=> m \in QueriesWith(i)  BY <1>1, <1>2 DEF AsksWith, QueriesWith
<1>4. OneLess(m, i)  BY <1>1, TookOne
<1>5. HoldsLast(i)  BY <1>4, UnchangedLast DEF OneLess
<1> HIDE DEF m
<1>6. Append(sql, m) = sql \o <<m>>  BY <1>2, WiresAre, AppendIsConcat
<1>7. sql' = sql \o <<m>> => (Has(sql', QueriesWith(i)) <=> Queried(i) \/ m \in QueriesWith(i))
  <2> SUFFICES ASSUME sql' = sql \o <<m>>
               PROVE  Has(sql', QueriesWith(i)) <=> Queried(i) \/ m \in QueriesWith(i)
    OBVIOUS
  <2> QED  BY <1>2, WiresAre, QueueSent DEF Queried
<1>8. sql' = sql \o <<m>> \/ (sql' = sql /\ m \notin AsksWith(i))  BY <1>6 DEF m
<1>9. CASE m \in AsksWith(i)  BY <1>3, <1>7, <1>8, <1>9, SomewhereNext
<1>10. CASE m \notin AsksWith(i)
  <2>1. AsksLast(i)  BY <1>4, <1>10 DEF OneLess, AsksLast
  <2>2. QueriesLast(i)  BY <1>7, <1>8, UnchangedLast DEF QueriesLast
  <2> QED  BY <1>5, <2>1, <2>2, UnchangedLast, AllLast
<1> QED  BY <1>9, <1>10

LEMMA DbQueriesLast ==
  ASSUME TypeOK, Shops, NEW i \in Items, Apart(i), Somewhere(i), ~CounterGone(i),
         DbCreate \/ DbAdd \/ DbBoxAdd
  PROVE  Somewhere(i)'
<1>1. UNCHANGED <<bag, dprice, dbox, dheld, toCore>>
  BY DEF DbCreate, DbAdd, DbBoxAdd, people, dshops, dboxes
<1>2. CASE DbCreate
  <2>1. sql' = Append(sql, Head(toDb))  BY <1>2, OfferTaken DEF DbCreate
  <2> QED  BY <1>1, <1>2, <2>1, QueriedInstead DEF DbCreate
<1>3. CASE DbAdd
  <2>1. Head(toDb).op = "add"  BY <1>3 DEF DbAdd, AtDb
  <2>2. \/ sql' = Append(sql, Head(toDb))
        \/ sql' = sql /\ Head(toDb).item # i
    BY <1>3 DEF DbAdd, CounterGone
  <2>3. Head(toDb).item # i => Head(toDb) \notin AsksWith(i)  BY <2>1 DEF AsksWith
  <2> QED  BY <1>1, <1>3, <2>2, <2>3, QueriedInstead DEF DbAdd
<1>4. CASE DbBoxAdd  BY <1>1, <1>4, QueriedInstead DEF DbBoxAdd
<1> QED  BY <1>2, <1>3, <1>4

LEMMA DbEditLast ==
  ASSUME TypeOK, NEW i \in Items, Apart(i), Somewhere(i), DbEdit PROVE Somewhere(i)'
<1> DEFINE m == Head(toDb)
<1>1. m \in Requests /\ m.op = "edit"  BY DbTakes DEF TypeOK, DbEdit
<1>2. m.owner \in Bots /\ m.item \in Items /\ m.price \in Nat /\ m.price > 0  BY <1>1, RequestShapes
<1>3. SaleLasts(i)
  <2>1. CASE dprice' = dprice  BY <2>1, UnchangedLast
  <2>2. CASE dprice' = [dprice EXCEPT ![m.owner] = [@ EXCEPT ![m.item] = m.price]]
    <3>1. /\ dprice'[m.owner][m.item] = m.price
          /\ \A b \in Bots, j \in Items : <<b, j>> # <<m.owner, m.item>> =>
               dprice'[b][j] = dprice[b][j]
      BY <1>2, <2>2, LineSet DEF TypeOK, ShopsOK
    <3> QED  BY <1>2, <3>1 DEF SaleLasts
  <2> QED  BY <2>1, <2>2 DEF DbEdit, Repriced
<1>4. DbWire({"edit"}) /\ CoreWire({"edited"}) /\ sql' = sql  BY DbWires
<1>5. UNCHANGED <<bag, dbox, dheld>>  BY DEF DbEdit, people, dboxes
<1>6. AsksLast(i) /\ HoldsLast(i) /\ AnswersLast(i)  BY <1>4, <1>5, WiresLast
<1> QED  BY <1>3, <1>4, <1>5, <1>6, UnchangedLast, AllLast

\* Off the counter, but answered for.
LEMMA AnsweredInstead ==
  ASSUME TypeOK, NEW i \in Items, Somewhere(i), NEW o \in Bots, NEW j \in Items, NEW a \in Answers,
         a.op \in {"removed", "sold"}, a.item = j,
         dprice' = [dprice EXCEPT ![o] = [@ EXCEPT ![j] = 0]],
         \A S : Has(toCore, S) \/ a \in S => Has(toCore', S),
         UNCHANGED <<bag, dbox, dheld, sql>>, AsksLast(i), HoldsLast(i)
  PROVE  Somewhere(i)'
<1>1. AnswersLast(i)  BY DEF AnswersLast, Answered
<1>2. CASE i = j
  <2>1. a \in AnswersWith(i)  BY <1>2 DEF AnswersWith
  <2>2. Has(toCore', AnswersWith(i))  BY <2>1
  <2> QED  BY <2>2, SomewhereNext
<1>3. CASE i # j
  <2>1. \A b \in Bots, k \in Items : <<b, k>> # <<o, j>> => dprice'[b][k] = dprice[b][k]
    BY LineSet DEF TypeOK, ShopsOK
  <2>2. SaleLasts(i)  BY <1>3, <2>1 DEF SaleLasts
  <2> QED  BY <1>1, <2>2, UnchangedLast, AllLast
<1> QED  BY <1>2, <1>3

LEMMA DbRemoveLast ==
  ASSUME TypeOK, NEW i \in Items, Apart(i), Somewhere(i), DbRemove PROVE Somewhere(i)'
<1> DEFINE m == Head(toDb)
           a == [op |-> "removed", owner |-> m.owner, item |-> m.item]
<1>1. m \in Requests /\ m.op = "remove"  BY DbTakes DEF TypeOK, DbRemove
<1>2. m.owner \in Bots /\ m.item \in Items  BY <1>1, RequestShapes
<1>3. a \in Answers /\ a.op = "removed" /\ a.item = m.item  BY <1>2 DEF Answers, Named
<1>4. DbWire({"remove"}) /\ CoreWire({"removed"}) /\ sql' = sql  BY DbWires
<1>5. UNCHANGED <<bag, dbox, dheld>>  BY DEF DbRemove, people, dboxes
<1>6. AsksLast(i) /\ HoldsLast(i)  BY <1>4, <1>5, WiresLast
<1>7. \/ /\ dprice' = [dprice EXCEPT ![m.owner] = [@ EXCEPT ![m.item] = 0]]
         /\ toCore' = toCore \o <<a>>
      \/ dprice' = dprice /\ toCore' = toCore \o <<>>
  BY DEF DbRemove, ToCore
<1> HIDE DEF m, a
<1>8. CASE dprice' = dprice /\ toCore' = toCore \o <<>>
  <2>1. toCore' = toCore  BY <1>8, WiresAre, ConcatEmptySeq
  <2> QED  BY <1>4, <1>5, <1>6, <1>8, <2>1, UnchangedLast, AllLast
<1>9. CASE /\ dprice' = [dprice EXCEPT ![m.owner] = [@ EXCEPT ![m.item] = 0]]
           /\ toCore' = toCore \o <<a>>
  <2>1. \A S : Has(toCore', S) <=> Has(toCore, S) \/ a \in S
    BY <1>3, <1>9, WiresAre, QueueSent
  <2> QED  BY <1>2, <1>3, <1>4, <1>5, <1>6, <1>9, <2>1, AnsweredInstead
<1> QED  BY <1>7, <1>8, <1>9

LEMMA DbBuyLast ==
  ASSUME TypeOK, Purchases, NEW i \in Items, Apart(i), Somewhere(i), DbBuy PROVE Somewhere(i)'
<1> DEFINE m == Head(toDb)
           y == [op |-> "yang", owner |-> m.owner, yang |-> Taxed(dprice[m.owner][m.item])]
           a == [op |-> "sold", who |-> m.who, owner |-> m.owner, item |-> m.item]
<1>1. /\ m.owner \in Bots /\ m.item \in Items /\ m.who \in Bots
      /\ <<m.owner, m.item>> \in locked /\ HasLine(m.owner, m.item)
  BY PaymentLocked
<1>2. a \in Answers /\ a.op = "sold" /\ a.item = m.item  BY <1>1 DEF Answers, Shopping
<1>3. y \in Answers
  <2>1. Taxed(dprice[m.owner][m.item]) \in Int
    BY <1>1, PriceAssumption DEF TypeOK, ShopsOK, Taxed
  <2> QED  BY <1>1, <2>1 DEF Answers, Paid
<1>4. DbWire({"buy"}) /\ CoreWire({"yang", "sold"}) /\ sql' = sql  BY DbWires
<1>5. UNCHANGED <<bag, dbox, dheld>>  BY DEF DbBuy, people
<1>6. AsksLast(i) /\ HoldsLast(i)  BY <1>4, <1>5, WiresLast
<1>7. \/ /\ dprice' = [dprice EXCEPT ![m.owner] = [@ EXCEPT ![m.item] = 0]]
         /\ toCore' = toCore \o <<y, a>>
      \/ dprice' = dprice /\ toCore' = toCore
  BY <1>1 DEF DbBuy, ToCore
<1> HIDE DEF m, a, y
<1>8. CASE dprice' = dprice /\ toCore' = toCore
  BY <1>4, <1>5, <1>6, <1>8, UnchangedLast, AllLast
<1>9. CASE /\ dprice' = [dprice EXCEPT ![m.owner] = [@ EXCEPT ![m.item] = 0]]
           /\ toCore' = toCore \o <<y, a>>
  <2>1. <<y, a>> \in Seq(Answers)  BY <1>2, <1>3, Two
  <2>2. \A S : a \in S => Has(<<y, a>>, S)
    <3> SUFFICES ASSUME NEW S, a \in S PROVE Has(<<y, a>>, S)  OBVIOUS
    <3>1. 2 \in 1..Len(<<y, a>>) /\ <<y, a>>[2] = a  OBVIOUS
    <3> QED  BY <3>1 DEF Has
  <2>3. \A S : Has(toCore', S) <=> Has(toCore, S) \/ Has(<<y, a>>, S)
    BY <1>9, <2>1, WiresAre, QueueJoined
  <2> QED  BY <1>1, <1>2, <1>4, <1>5, <1>6, <1>9, <2>2, <2>3, AnsweredInstead
<1> QED  BY <1>7, <1>8, <1>9

LEMMA DbGetItemLast ==
  ASSUME TypeOK, NEW i \in Items, Apart(i), Somewhere(i), DbGetItem PROVE Somewhere(i)'
<1> DEFINE m == Head(toDb)
<1>1. m \in Requests /\ m.op = "getitem"  BY DbTakes DEF TypeOK, DbGetItem
<1>2. m.owner \in Bots /\ m.item \in Items  BY <1>1, RequestShapes
<1>3. DbWire({"getitem"}) /\ CoreWire({"confirm"}) /\ sql' = sql  BY DbWires
<1>4. \A b \in Bots : Has(toDb', Handings(b, i)) <=> Has(toDb, Handings(b, i))
  BY <1>3, QuietWires
<1>5. UNCHANGED <<bag, dprice>>  BY DEF DbGetItem, people, dshops
<1>6. dbox \in [Bots -> SUBSET Items] /\ dheld \in [Bots -> SUBSET Items]
  BY DEF TypeOK, BoxesOK
<1>7. dbox' = [dbox EXCEPT ![m.owner] = @ \ {m.item}]  BY DEF DbGetItem
<1>8. dheld' = IF m.item \in dbox[m.owner] THEN [dheld EXCEPT ![m.owner] = @ \cup {m.item}]
               ELSE dheld
  BY DEF DbGetItem
<1> HIDE DEF m
<1>9. AsksLast(i) /\ AnswersLast(i)  BY <1>3, WiresLast
<1>10. HoldsLast(i)  BY <1>2, <1>4, <1>6, <1>8 DEF HoldsLast, Held
<1>11. CASE i = m.item /\ i \in dbox[m.owner]
  <2>1. ~Has(toDb', Handings(m.owner, i))  BY <1>2, <1>4, <1>11 DEF Apart, TakenOut, InBox
  <2>2. i \in dheld'[m.owner]  BY <1>2, <1>6, <1>8, <1>11
  <2> QED  BY <1>2, <2>1, <2>2, SomewhereNext
<1>12. CASE ~(i = m.item /\ i \in dbox[m.owner])
  <2>1. BoxesLast(i)  BY <1>2, <1>6, <1>7, <1>12 DEF BoxesLast
  <2> QED  BY <1>3, <1>5, <1>9, <1>10, <2>1, UnchangedLast, AllLast
<1> QED  BY <1>11, <1>12

LEMMA DbFeedbackLast ==
  ASSUME TypeOK, Withdrawals, NEW i \in Items, Apart(i), Somewhere(i), DbFeedback
  PROVE  Somewhere(i)'
<1> DEFINE m == Head(toDb)
<1>1. m \in Requests /\ m.op = "feedback"  BY DbTakes DEF TypeOK, DbFeedback
<1>2. m.owner \in Bots /\ m.item \in Items /\ m.success \in BOOLEAN  BY <1>1, RequestShapes
<1>3. toDb # <<>> /\ toDb' = Tail(toDb) /\ toCore' = toCore /\ sql' = sql
  BY DEF DbFeedback, AtDb, TakenByDb
<1>4. OneLess(m, i)  BY <1>3, TookOne
<1>5. m \notin AsksWith(i)  BY <1>1 DEF AsksWith
<1>6. UNCHANGED <<bag, dprice>>  BY DEF DbFeedback, people, dshops
<1>7. dbox \in [Bots -> SUBSET Items] /\ dheld \in [Bots -> SUBSET Items]
  BY DEF TypeOK, BoxesOK
<1>8. dheld' = [dheld EXCEPT ![m.owner] = @ \ {m.item}]  BY DEF DbFeedback
<1>9. dbox' = IF m.item \in dheld[m.owner] /\ ~m.success
              THEN [dbox EXCEPT ![m.owner] = @ \cup {m.item}] ELSE dbox
  BY DEF DbFeedback
<1>10. m.success => m \in Handings(m.owner, m.item)  BY <1>1 DEF Handings, Feedbacks
<1> HIDE DEF m
<1>11. AsksLast(i) /\ BoxesLast(i)
  BY <1>2, <1>4, <1>5, <1>7, <1>9 DEF OneLess, AsksLast, BoxesLast
<1>12. CASE i = m.item /\ Held(i, m.owner)
  <2>1. ~m.success  BY <1>2, <1>4, <1>10, <1>12 DEF Held, OneLess
  <2>2. i \in dbox'[m.owner]  BY <1>2, <1>7, <1>9, <1>12, <2>1 DEF Held
  <2> QED  BY <1>2, <2>2, SomewhereNext
<1>13. CASE ~(i = m.item /\ Held(i, m.owner))
  <2>1. HoldsLast(i)  BY <1>2, <1>4, <1>7, <1>8, <1>13 DEF HoldsLast, Held, OneLess
  <2> QED  BY <1>3, <1>6, <1>11, <2>1, UnchangedLast, AllLast
<1> QED  BY <1>12, <1>13

-----------------------------------------------------------------------------
(* Results of the queries.                                                 *)

LEMMA CreateDoneLast ==
  ASSUME TypeOK, NEW i \in Items, Apart(i), Somewhere(i), CreateDone PROVE Somewhere(i)'
<1> DEFINE m == Head(sql)
           p == [m EXCEPT !.op = "put"]
<1>1. m \in Queries /\ m.op = "create" /\ Tail(sql) \in Seq(Queries) /\ sql # <<>>
  BY SqlTakes DEF TypeOK, CreateDone, AtSql
<1>2. m \in Stocking({"create", "put"})  BY <1>1, QueryShapes
<1>3. p \in Queries /\ p.op = "put" /\ p.lines = m.lines  BY <1>2 DEF Stocking, Queries
<1>4. p \in QueriesWith(i) <=> m \in QueriesWith(i)  BY <1>1, <1>3 DEF QueriesWith
<1>5. /\ m.lines = NoLines => m \notin QueriesWith(i)
      /\ sql' = IF m.lines = NoLines THEN Tail(sql) ELSE Append(Tail(sql), p)
  BY <1>1 DEF CreateDone, QueriesWith, NoLines
<1> HIDE DEF m, p
<1>6. Append(Tail(sql), p) = Tail(sql) \o <<p>>  BY <1>1, <1>3, AppendIsConcat
<1>7. Queried(i) <=> m \in QueriesWith(i) \/ Has(Tail(sql), QueriesWith(i))
  BY <1>1, TookQuery DEF m
<1>8. QueriesLast(i)
  <2>1. CASE sql' = Tail(sql) /\ m \notin QueriesWith(i)  BY <1>7, <2>1 DEF QueriesLast
  <2>2. CASE sql' = Tail(sql) \o <<p>>
    <3>1. Has(sql', QueriesWith(i)) <=> Has(Tail(sql), QueriesWith(i)) \/ p \in QueriesWith(i)
      BY <1>1, <1>3, <2>2, QueueSent
    <3> QED  BY <1>4, <1>7, <3>1 DEF QueriesLast
  <2> QED  BY <1>5, <1>6, <2>1, <2>2
<1>9. UNCHANGED <<bag, dprice, dbox, dheld, toDb>>  BY DEF CreateDone, people, dboxes
<1>10. AnswersLast(i)  BY SqlWires, WiresLast
<1> QED  BY <1>8, <1>9, <1>10, UnchangedLast, AllLast

\* A line is stored where its shop is there, and nothing was on sale there.
LEMMA PutInstead ==
  ASSUME TypeOK, NEW i \in Items, Apart(i), Queried(i), NEW o \in Bots, NEW p \in Nat \ {0},
         dst[o] # "none", Put(o, i, p)
  PROVE  Somewhere(i)'
<1>1. ~OnSale(i, o)  BY QueriedOnly DEF AwayFromSale
<1>2. dprice \in [Bots -> [Items -> Nat]]  BY DEF TypeOK, ShopsOK
<1>3. dprice[o][i] = 0  BY <1>1, <1>2 DEF OnSale
<1>4. dprice' = [dprice EXCEPT ![o] = [@ EXCEPT ![i] = p]]  BY <1>3 DEF Put
<1>5. dprice'[o][i] = p  BY <1>2, <1>4, LineSet
<1> QED  BY <1>5, SomewhereNext

LEMMA PutDoneLast ==
  ASSUME TypeOK, Shops, NEW i \in Items, Apart(i), Somewhere(i), PutDone PROVE Somewhere(i)'
<1> DEFINE m == Head(sql)
<1>1. m \in Queries /\ m.op = "put" /\ Tail(sql) \in Seq(Queries) /\ sql # <<>>
  BY SqlTakes DEF TypeOK, PutDone, AtSql
<1>2. m \in Stocking({"create", "put"}) /\ m.owner \in Bots /\ m.lines \in [Items -> Nat]
  BY <1>1, QueryShapes
<1>3. PICK j \in Items : /\ m.lines[j] > 0
                         /\ Put(m.owner, j, m.lines[j])
                         /\ sql' = IF [m.lines EXCEPT ![j] = 0] = NoLines THEN Tail(sql)
                                   ELSE <<[m EXCEPT !.lines = [m.lines EXCEPT ![j] = 0]]>> \o Tail(sql)
  BY DEF PutDone
<1> DEFINE rest == [m.lines EXCEPT ![j] = 0]
           p == [m EXCEPT !.lines = rest]
<1>4. rest \in [Items -> Nat] /\ rest[i] = IF i = j THEN 0 ELSE m.lines[i]  BY <1>2
<1>5. p \in Queries /\ p.op = "put" /\ p.lines = rest  BY <1>1, <1>2, <1>4 DEF Stocking, Queries
<1>6. /\ m \in QueriesWith(i) <=> m.lines[i] > 0
      /\ p \in QueriesWith(i) <=> rest[i] > 0
  BY <1>1, <1>5 DEF QueriesWith
<1>7. IF rest = NoLines THEN sql' = Tail(sql) ELSE sql' = <<p>> \o Tail(sql)  BY <1>3
<1>8. UNCHANGED <<bag, dbox, dheld, toDb, toCore>>  BY DEF PutDone, people, dboxes
<1>9. \A b \in Bots, k \in Items : b # m.owner \/ k # j => dprice'[b][k] = dprice[b][k]
  BY <1>2, <1>3, PutChanges
<1>10. dst[m.owner] # "none"
  <2>1. m.lines # NoLines  BY <1>3 DEF NoLines
  <2>2. m \in Stockings(m.owner)  BY <1>1, <2>1 DEF Stockings
  <2> HIDE DEF m
  <2>3. Has(sql, Stockings(m.owner))  BY <1>1, <2>2, WiresAre, QueueTaken DEF m
  <2> QED  BY <1>2, <2>3 DEF Shops, Shelving, KeptOpen
<1>11. rest = NoLines => rest[i] = 0  BY DEF NoLines
<1> HIDE DEF m, rest, p
<1>12. Queried(i) <=> m \in QueriesWith(i) \/ Has(Tail(sql), QueriesWith(i))
  BY <1>1, TookQuery DEF m
<1>13. p \in QueriesWith(i) \/ Has(Tail(sql), QueriesWith(i)) => Has(sql', QueriesWith(i))
  <2>1. CASE sql' = Tail(sql) /\ rest = NoLines  BY <1>4, <1>6, <1>11, <2>1
  <2>2. CASE sql' = <<p>> \o Tail(sql)
    <3>1. <<p>> \in Seq(Queries)  BY <1>5, Single
    <3>2. Has(<<p>>, QueriesWith(i)) <=> p \in QueriesWith(i)  BY ShortQueues
    <3>3. Has(sql', QueriesWith(i)) <=> Has(<<p>>, QueriesWith(i)) \/ Has(Tail(sql), QueriesWith(i))
      BY <1>1, <2>2, <3>1, QueueJoined
    <3> QED  BY <3>2, <3>3
  <2> QED  BY <1>7, <2>1, <2>2
<1>14. CASE i = j
  <2>1. Queried(i)  BY <1>3, <1>6, <1>12, <1>14
  <2>2. m.lines[i] \in Nat \ {0}  BY <1>2, <1>3, <1>14
  <2> QED  BY <1>2, <1>3, <1>10, <1>14, <2>1, <2>2, PutInstead
<1>15. CASE i # j
  <2>1. QueriesLast(i)  BY <1>4, <1>6, <1>12, <1>13, <1>15 DEF QueriesLast
  <2>2. SaleLasts(i)  BY <1>9, <1>15 DEF SaleLasts
  <2> QED  BY <1>8, <2>1, <2>2, UnchangedLast, AllLast
<1> QED  BY <1>14, <1>15

LEMMA AddDoneLast ==
  ASSUME TypeOK, NEW i \in Items, Apart(i), Somewhere(i), ~CounterGone(i), AddDone
  PROVE  Somewhere(i)'
<1> DEFINE m == Head(sql)
<1>1. m \in Queries /\ m.op = "add" /\ sql # <<>> /\ sql' = Tail(sql) /\ AtSql("add")
  BY SqlTakes DEF TypeOK, AddDone, AtSql
<1>2. m.owner \in Bots /\ m.item \in Items /\ m.price \in Nat \ {0}  BY <1>1, QueryShapes
<1>3. Put(m.owner, m.item, m.price)  BY DEF AddDone
<1>4. UNCHANGED <<bag, dbox, dheld, toDb>>  BY DEF AddDone, people, dboxes
<1>5. m \in QueriesWith(i) <=> i = m.item  BY <1>1 DEF QueriesWith
<1>6. i = m.item => dst[m.owner] # "none"  BY <1>1 DEF CounterGone
<1> HIDE DEF m
<1>7. Queried(i) <=> m \in QueriesWith(i) \/ Has(sql', QueriesWith(i))
  BY <1>1, TookQuery DEF m
<1>8. AnswersLast(i)  BY SqlWires, WiresLast
<1>9. CASE i = m.item
  <2>1. Queried(i)  BY <1>5, <1>7, <1>9
  <2> QED  BY <1>2, <1>3, <1>6, <1>9, <2>1, PutInstead
<1>10. CASE i # m.item
  <2>1. \A b \in Bots : dprice'[b][i] = dprice[b][i]  BY <1>2, <1>3, <1>10, PutChanges
  <2>2. SaleLasts(i) /\ QueriesLast(i)  BY <1>5, <1>7, <1>10, <2>1 DEF SaleLasts, QueriesLast
  <2> QED  BY <1>4, <1>8, <2>2, UnchangedLast, AllLast
<1> QED  BY <1>9, <1>10

LEMMA BoxAddDoneLast ==
  ASSUME TypeOK, NEW i \in Items, Apart(i), Somewhere(i), BoxAddDone PROVE Somewhere(i)'
<1> DEFINE m == Head(sql)
<1>1. m \in Queries /\ m.op = "boxadd" /\ sql # <<>> /\ sql' = Tail(sql)
  BY SqlTakes DEF TypeOK, BoxAddDone, AtSql
<1>2. m.owner \in Bots /\ m.item \in Items  BY <1>1, QueryShapes
<1>3. dbox' = [dbox EXCEPT ![m.owner] = @ \cup {m.item}]  BY DEF BoxAddDone
<1>4. UNCHANGED <<bag, dprice, dheld, toDb>>  BY DEF BoxAddDone, people, dshops
<1>5. m \in QueriesWith(i) <=> i = m.item  BY <1>1 DEF QueriesWith
<1>6. dbox \in [Bots -> SUBSET Items]  BY DEF TypeOK, BoxesOK
<1> HIDE DEF m
<1>7. Queried(i) <=> m \in QueriesWith(i) \/ Has(sql', QueriesWith(i))
  BY <1>1, TookQuery DEF m
<1>8. AnswersLast(i)  BY SqlWires, WiresLast
<1>9. CASE i = m.item
  <2>1. i \in dbox'[m.owner]  BY <1>2, <1>3, <1>6, <1>9
  <2> QED  BY <1>2, <2>1, SomewhereNext
<1>10. CASE i # m.item
  <2>1. QueriesLast(i)  BY <1>5, <1>7, <1>10 DEF QueriesLast
  <2>2. BoxesLast(i)  BY <1>2, <1>3, <1>6 DEF BoxesLast
  <2> QED  BY <1>4, <1>8, <2>1, <2>2, UnchangedLast, AllLast
<1> QED  BY <1>9, <1>10

-----------------------------------------------------------------------------
(* At the core.                                                            *)

\* An answer brings the item to a bag or asks it into a safebox; the core
\* still shows the line it came from.
LEMMA ReturnedInstead ==
  ASSUME TypeOK, NEW i \in Items, Apart(i), Somewhere(i), NEW op \in {"removed", "sold"}, AtCore(op),
         TakenByCore, NEW b \in Bots, NEW ms, ms = <<>> \/ ms = Boxed(b, Head(toCore).item),
         NEW given \in BOOLEAN, Head(toCore).item = i => given \/ ms # <<>>,
         UNCHANGED <<dprice, dbox, dheld, sql>>,
         toDb' = toDb \o (ms \o CloseIfEmpty(Head(toCore))),
         bag' = IF given THEN Given(b, Head(toCore).item) ELSE bag
  PROVE  Somewhere(i)'
<1> DEFINE m == Head(toCore)
           r == ms \o CloseIfEmpty(m)
<1>1. m \in Answers /\ m.op = op /\ toCore # <<>> /\ toCore' = Tail(toCore)
  BY CoreTakes DEF TypeOK, AtCore, TakenByCore
<1>2. m.owner \in Bots /\ m.item \in Items  BY <1>1, AnswerShapes
<1>3. m \in AnswersWith(i) => i = m.item  BY <1>1 DEF AnswersWith
<1>4. /\ r \in Seq(Requests)
      /\ Has(r, AsksWith(i)) <=> ms = Boxed(b, m.item) /\ i = m.item
      /\ \A c : ~Has(r, Handings(c, i))
  BY <1>2, GoneSends
<1>5. Answered(i) <=> m \in AnswersWith(i) \/ Has(toCore', AnswersWith(i))
  BY <1>1, WiresAre, QueueTaken DEF Answered
<1>6. bag \in [Bots -> SUBSET Items]  BY DEF TypeOK, PeopleOK
<1> HIDE DEF m, r
<1>7. toDb' = toDb \o r  BY DEF r, m
<1>8. /\ Has(toDb', AsksWith(i)) <=> Asked(i) \/ Has(r, AsksWith(i))
      /\ \A c \in Bots : Has(toDb', Handings(c, i)) <=> Has(toDb, Handings(c, i))
  <2>1. toDb \in Seq(Requests)  BY WiresAre
  <2>2. \A S : Has(toDb \o r, S) <=> Has(toDb, S) \/ Has(r, S)  BY <1>4, <2>1, QueueJoined
  <2>3. \A S : Has(toDb', S) <=> Has(toDb, S) \/ Has(r, S)  BY <1>7, <2>2
  <2> QED  BY <1>4, <2>3 DEF Asked
<1>9. bag' = IF given THEN [bag EXCEPT ![b] = @ \cup {m.item}] ELSE bag  BY DEF Given, m
<1>10. CASE i = m.item
  <2>1. CASE given
    <3>1. i \in bag'[b]  BY <1>6, <1>9, <1>10, <2>1
    <3> QED  BY <3>1, SomewhereNext
  <2>2. CASE ms = Boxed(b, m.item)
    <3>1. Has(toDb', AsksWith(i))  BY <1>4, <1>8, <1>10, <2>2
    <3> QED  BY <3>1, SomewhereNext
  <2> QED  BY <1>10, <2>1, <2>2 DEF m
<1>11. CASE i # m.item
  <2>1. AsksLast(i) /\ AnswersLast(i)  BY <1>3, <1>5, <1>8, <1>11 DEF AsksLast, AnswersLast
  <2>2. BagsLast(i)  BY <1>6, <1>9 DEF BagsLast
  <2>3. HoldsLast(i)  BY <1>8, UnchangedLast
  <2> QED  BY <2>1, <2>2, <2>3, UnchangedLast, AllLast
<1> QED  BY <1>10, <1>11

LEMMA GoneLast ==
  ASSUME TypeOK, Shops, NEW i \in Items, Apart(i), Somewhere(i), ~BuyerGone(i),
         NEW room \in BOOLEAN
  PROVE  (CoreRemoved(room) => Somewhere(i)') /\ (CoreSold(room) => Somewhere(i)')
<1> DEFINE m == Head(toCore)
<1>0. \A b : Boxed(b, m.item) # <<>>
  <2> SUFFICES ASSUME NEW b PROVE Boxed(b, m.item) # <<>>  OBVIOUS
  <2>1. Len(<<[op |-> "boxadd", owner |-> b, item |-> m.item]>>) = 1 /\ Len(<<>>) = 0  OBVIOUS
  <2> QED  BY <2>1 DEF Boxed
<1>1. ASSUME CoreRemoved(room) PROVE Somewhere(i)'
  <2> DEFINE taken == world[m.owner] = "in" /\ room
             ms == IF taken THEN <<>> ELSE Boxed(m.owner, m.item)
  <2>1. m.owner \in Bots  BY <1>1, CoreTakes, AnswerShapes DEF TypeOK, CoreRemoved
  <2>2. taken \in BOOLEAN /\ (ms = <<>> \/ ms = Boxed(m.owner, m.item)) /\ (taken \/ ms # <<>>)
    BY <1>0
  <2>3. AtCore("removed") /\ TakenByCore /\ UNCHANGED <<dprice, dbox, dheld, sql>>
    BY <1>1 DEF CoreRemoved, dshops, dboxes
  <2>4. OnMirror(m)  BY <2>3, SoldThere DEF Shops
  <2>5. /\ toDb' = toDb \o (ms \o CloseIfEmpty(m))
        /\ bag' = IF taken THEN Given(m.owner, m.item) ELSE bag
    BY <1>1, <2>4 DEF CoreRemoved, ToDb
  <2> HIDE DEF taken, ms
  <2> QED  BY <2>1, <2>2, <2>3, <2>5, ReturnedInstead
<1>2. ASSUME CoreSold(room) PROVE Somewhere(i)'
  <2> DEFINE here == world[m.who] = "in"
             given == here /\ room
             ms == IF here /\ ~room THEN Boxed(m.who, m.item) ELSE <<>>
  <2>1. m.who \in Bots  BY <1>2, CoreTakes, AnswerShapes DEF TypeOK, CoreSold
  <2>2. AtCore("sold") /\ TakenByCore /\ UNCHANGED <<dprice, dbox, dheld, sql>>
    BY <1>2 DEF CoreSold, dshops, dboxes
  <2>3. m.item = i => here  BY <2>2 DEF BuyerGone
  <2>4. /\ given \in BOOLEAN /\ (ms = <<>> \/ ms = Boxed(m.who, m.item))
        /\ m.item = i => given \/ ms # <<>>
    BY <1>0, <2>3
  <2>5. OnMirror(m)  BY <2>2, SoldThere DEF Shops
  <2>6. /\ toDb' = toDb \o (ms \o CloseIfEmpty(m))
        /\ bag' = IF given THEN Given(m.who, m.item) ELSE bag
    BY <1>2, <2>5 DEF CoreSold, ToDb
  <2> HIDE DEF given, ms
  <2> QED  BY <2>1, <2>2, <2>4, <2>6, ReturnedInstead
<1> QED  BY <1>1, <1>2

LEMMA CoreConfirmLast ==
  ASSUME TypeOK, Withdrawals, NEW i \in Items, Apart(i), Somewhere(i), NEW room \in BOOLEAN,
         CoreConfirm(room)
  PROVE  Somewhere(i)'
<1> DEFINE m == Head(toCore)
           a(taken) == [op |-> "feedback", owner |-> m.owner, item |-> m.item, success |-> taken]
<1>1. m \in Answers /\ m.op = "confirm" /\ m.owner \in Bots /\ m.item \in Items
      /\ m.item \in dheld[m.owner] /\ Held(m.item, m.owner)
  BY Confirmed
<1>2. PICK taken \in BOOLEAN : /\ a(taken) \in Requests
                               /\ toDb' = toDb \o <<a(taken)>>
                               /\ bag' = IF taken THEN Given(m.owner, m.item) ELSE bag
  BY FeedbackIs
<1> DEFINE f == a(taken)
<1>3. f \in Requests /\ f.op = "feedback" /\ f.owner = m.owner /\ f.item = m.item
      /\ f.success = taken /\ toDb' = toDb \o <<f>>
  BY <1>2
<1>4. UNCHANGED <<dprice, dbox, dheld, sql>>  BY DEF CoreConfirm, dshops, dboxes
<1>5. AnswersLast(i)
  <2>1. DbWire({"feedback"}) /\ CoreWire({"confirm"})  BY CoreWires
  <2> QED  BY <2>1, WiresLast
<1>6. bag \in [Bots -> SUBSET Items]  BY DEF TypeOK, PeopleOK
<1>7. bag' = IF taken THEN [bag EXCEPT ![m.owner] = @ \cup {m.item}] ELSE bag  BY <1>2 DEF Given
<1> HIDE DEF m, f, a
<1>8. \A c \in Bots : f \in Handings(c, i) <=> c = m.owner /\ i = m.item /\ taken
  BY <1>3 DEF Handings, Feedbacks
<1>9. /\ Asked(i) => Has(toDb', AsksWith(i))
      /\ \A c \in Bots : Has(toDb', Handings(c, i)) <=> Has(toDb, Handings(c, i)) \/ f \in Handings(c, i)
  BY <1>3, WiresAre, QueueSent DEF Asked
<1>10. CASE i = m.item /\ taken
  <2>1. i \in bag'[m.owner]  BY <1>1, <1>6, <1>7, <1>10
  <2> QED  BY <1>1, <2>1, SomewhereNext
<1>11. CASE ~(i = m.item /\ taken)
  <2>1. HoldsLast(i)  BY <1>4, <1>8, <1>9, <1>11 DEF HoldsLast, Held
  <2>2. AsksLast(i)  BY <1>9 DEF AsksLast
  <2>3. BagsLast(i)  BY <1>6, <1>7 DEF BagsLast
  <2> QED  BY <1>4, <1>5, <2>1, <2>2, <2>3, UnchangedLast, AllLast
<1> QED  BY <1>10, <1>11

-----------------------------------------------------------------------------
LEMMA SomewhereStep ==
  ASSUME Ledger, Shops, NEW i \in Items, Somewhere(i), ~BuyerGone(i), ~CounterGone(i), [Next]_vars
  PROVE  Somewhere(i)'
<1>1. TypeOK /\ Purchases /\ Withdrawals /\ Apart(i)  BY DEF Ledger
<1>2. CASE ~MovesItems  BY <1>1, <1>2, BystandersLast
<1>3. CASE \E o \in Owners : VisitReopen(o) \/ \E offer \in Lines : Submit(o, offer)
  BY <1>1, <1>3, BotsAssumption, VisitsLast, SubmitLast
<1>4. CASE \E o \in Owners, j \in Items : \E p \in Prices[j] : VisitAdd(o, j, p)
  BY <1>1, <1>4, BotsAssumption, VisitsLast
<1>5. CASE DbCreate \/ DbAdd \/ DbBoxAdd  BY <1>1, <1>5, DbQueriesLast
<1>6. CASE DbEdit \/ DbRemove \/ DbBuy  BY <1>1, <1>6, DbEditLast, DbRemoveLast, DbBuyLast
<1>7. CASE DbGetItem \/ DbFeedback  BY <1>1, <1>7, DbGetItemLast, DbFeedbackLast
<1>8. CASE CreateDone \/ PutDone  BY <1>1, <1>8, CreateDoneLast, PutDoneLast
<1>9. CASE AddDone \/ BoxAddDone  BY <1>1, <1>9, AddDoneLast, BoxAddDoneLast
<1>10. CASE \E room \in BOOLEAN : CoreRemoved(room) \/ CoreSold(room) \/ CoreConfirm(room)
  BY <1>1, <1>10, GoneLast, CoreConfirmLast
<1> QED
  BY <1>2, <1>3, <1>4, <1>5, <1>6, <1>7, <1>8, <1>9, <1>10 DEF MovesItems

Counted ==
  \A i \in Items : TypeOK /\ Apart(i) => (Copies(i) = 1 <=> Somewhere(i))

LEMMA CountedIs == Counted  BY CountedThere DEF Counted

LEMMA CountedNext == Counted'  BY CountedIs, PTL

\* An item is only lost to a buyer who has paid and left, or to a counter that
\* the db core has closed for good (ikarus_shop_manager.cpp and
\* ClientManagerIkarusShop.cpp): every other answer is one its reader can use.
THEOREM NothingElseIsLost == Spec => LossesAreKnown
<1>1. ASSUME Standing, Ledger', [Next]_vars, NEW i \in Items,
             Copies(i) = 1, ~BuyerGone(i), ~CounterGone(i)
      PROVE  Copies(i)' = 1
  <2>1. Ledger /\ Shops  BY <1>1 DEF Standing, Books
  <2>2. Somewhere(i)  BY <1>1, <2>1, CountedThere DEF Ledger
  <2>3. Somewhere(i)'  BY <1>1, <2>1, <2>2, SomewhereStep
  <2>4. (TypeOK /\ Apart(i) => (Copies(i) = 1 <=> Somewhere(i)))'  BY CountedNext DEF Counted
  <2>5. (TypeOK /\ Apart(i))'  BY <1>1 DEF Ledger
  <2> QED  BY <2>3, <2>4, <2>5
<1>2. Standing => Ledger  BY DEF Standing, Books
<1>3. Standing /\ Standing' /\ [Next]_vars =>
        [\A i \in Items : Copies(i)' # 1 /\ Copies(i) = 1 => BuyerGone(i) \/ CounterGone(i)]_vars
  <2>1. Standing' => Ledger'  BY DEF Standing, Books
  <2> QED  BY <1>1, <2>1
<1> QED  BY <1>3, StandingStart, StandingStep, PTL DEF Spec, LossesAreKnown

-----------------------------------------------------------------------------
(* What a sum comes to, in whatever order it is taken.                     *)

Chosen(s) == CHOOSE x \in s : TRUE
Recurs(f, g, s) == g[s] = IF s = {} THEN 0 ELSE f[Chosen(s)] + g[s \ {Chosen(s)}]
SumOf(f, S, g) ==
  g = [s \in SUBSET S |-> IF s = {} THEN 0 ELSE f[Chosen(s)] + g[s \ {Chosen(s)}]]
Sums(f, S, g) == g \in [SUBSET S -> Int] /\ \A s \in SUBSET S : Recurs(f, g, s)

LEMMA ChosenIn ==
  ASSUME NEW s, s # {} PROVE Chosen(s) \in s
  BY DEF Chosen

LEMMA SumDefined ==
  ASSUME NEW f, NEW S
  PROVE  SumFunctionOnSet(f, S) = (CHOOSE g : SumOf(f, S, g))[S]
  BY DEF SumFunctionOnSet, FoldFunctionOnSet, MapThenFoldSet, SumOf, Chosen

\* What holds of a set once it holds of it without any one of its elements.
LEMMA BySize ==
  ASSUME NEW S, IsFiniteSet(S), NEW G, {} \in G,
         \A s \in SUBSET S : s # {} /\ (\A x \in s : s \ {x} \in G) => s \in G
  PROVE  \A s \in SUBSET S : s \in G
<1> DEFINE N == Cardinality(S)
           H == {n \in Nat : \A s \in SUBSET S : Cardinality(s) = n => s \in G}
<1>1. \A s \in SUBSET S : IsFiniteSet(s) /\ Cardinality(s) \in 0..N
  BY FS_Subset, FS_CardinalityType
<1>2. N \in Nat  BY FS_CardinalityType
<1>3. 0 \in H
  <2>1. \A s \in SUBSET S : Cardinality(s) = 0 => s = {}  BY <1>1, FS_EmptySet
  <2> QED  BY <2>1
<1>4. ASSUME NEW n \in 1..N, n - 1 \in H PROVE n \in H
  <2>1. SUFFICES ASSUME NEW s \in SUBSET S, Cardinality(s) = n PROVE s \in G  OBVIOUS
  <2>2. s # {}
    <3>1. Cardinality({}) = 0  BY FS_EmptySet
    <3>2. n # 0  BY <1>2
    <3> QED  BY <2>1, <3>1, <3>2
  <2>3. ASSUME NEW x \in s PROVE s \ {x} \in G
    <3>1. Cardinality(s \ {x}) = n - 1  BY <1>1, <2>1, FS_RemoveElement
    <3> QED  BY <1>4, <3>1
  <2> QED  BY <2>2, <2>3
<1> HIDE DEF H, N
<1>5. \A n \in 0..N : n \in H  BY <1>2, <1>3, <1>4, AllAlong
<1> QED  BY <1>1, <1>5 DEF H

LEMMA SumExists ==
  ASSUME NEW S, IsFiniteSet(S), NEW f, \A x \in S : f[x] \in Int
  PROVE  \E g : SumOf(f, S, g)
<1> DEFINE N == Cardinality(S)
           D(n) == {s \in SUBSET S : Cardinality(s) <= n}
           H == {n \in Nat : \E g \in [D(n) -> Int] : \A s \in D(n) : Recurs(f, g, s)}
<1>1. \A s \in SUBSET S : IsFiniteSet(s) /\ Cardinality(s) \in 0..N
  BY FS_Subset, FS_CardinalityType
<1>2. N \in Nat  BY FS_CardinalityType
<1>3. \A s \in SUBSET S : Cardinality(s) = 0 <=> s = {}  BY <1>1, FS_EmptySet
<1>4. 0 \in H
  <2> DEFINE g == [s \in D(0) |-> 0]
  <2>1. \A s \in D(0) : s = {}  BY <1>1, <1>3
  <2>2. \A s \in D(0) : Recurs(f, g, s)  BY <2>1 DEF Recurs
  <2>3. g \in [D(0) -> Int]  OBVIOUS
  <2> HIDE DEF g
  <2>4. \E h \in [D(0) -> Int] : \A s \in D(0) : Recurs(f, h, s)  BY <2>2, <2>3
  <2> QED  BY <2>4
<1>5. ASSUME NEW n \in 1..N, n - 1 \in H PROVE n \in H
  <2>1. PICK g \in [D(n - 1) -> Int] : \A s \in D(n - 1) : Recurs(f, g, s)  BY <1>5
  <2> DEFINE k == [s \in D(n) |-> IF s \in D(n - 1) THEN g[s] ELSE f[Chosen(s)] + g[s \ {Chosen(s)}]]
  <2>2. \A s \in D(n) : s # {} => Chosen(s) \in s /\ s \ {Chosen(s)} \in D(n - 1)
    <3> SUFFICES ASSUME NEW s \in D(n), s # {}
                 PROVE  Chosen(s) \in s /\ s \ {Chosen(s)} \in D(n - 1)
      OBVIOUS
    <3>1. Chosen(s) \in s  BY ChosenIn
    <3>2. Cardinality(s \ {Chosen(s)}) = Cardinality(s) - 1  BY <1>1, <3>1, FS_RemoveElement
    <3>3. Cardinality(s) \in Nat /\ Cardinality(s) <= n  BY <1>1
    <3>4. Cardinality(s \ {Chosen(s)}) <= n - 1  BY <3>2, <3>3
    <3> QED  BY <3>1, <3>4
  <2>3. D(n - 1) \subseteq D(n) /\ {} \in D(n - 1)  BY <1>1, <1>3
  <2> HIDE DEF D
  <2>4. \A s \in D(n) : s \subseteq S  BY DEF D
  <2>5. k \in [D(n) -> Int]
    <3> SUFFICES ASSUME NEW s \in D(n), s \notin D(n - 1)
                 PROVE  f[Chosen(s)] + g[s \ {Chosen(s)}] \in Int
      BY <2>1
    <3>1. s # {}  BY <2>3
    <3>2. f[Chosen(s)] \in Int  BY <2>2, <2>4, <3>1
    <3>3. g[s \ {Chosen(s)}] \in Int  BY <2>1, <2>2, <3>1
    <3> QED  BY <3>2, <3>3
  <2>6. \A s \in D(n) : Recurs(f, k, s)
    <3> SUFFICES ASSUME NEW s \in D(n) PROVE Recurs(f, k, s)  OBVIOUS
    <3>1. s # {} => k[s \ {Chosen(s)}] = g[s \ {Chosen(s)}]  BY <2>2, <2>3
    <3>2. s \in D(n - 1) => k[s] = g[s] /\ Recurs(f, g, s)  BY <2>1
    <3>3. s \notin D(n - 1) => s # {} /\ k[s] = f[Chosen(s)] + g[s \ {Chosen(s)}]  BY <2>3
    <3> HIDE DEF k
    <3> QED  BY <3>1, <3>2, <3>3 DEF Recurs
  <2> HIDE DEF k
  <2>7. \E h \in [D(n) -> Int] : \A s \in D(n) : Recurs(f, h, s)  BY <2>5, <2>6
  <2>8. n \in Nat  BY <1>2
  <2> QED  BY <2>7, <2>8
<1> HIDE DEF H, N
<1>6. N \in H  BY <1>2, <1>4, <1>5, AllAlong
<1>7. D(N) = SUBSET S  BY <1>1, <1>2
<1>8. PICK g \in [SUBSET S -> Int] : \A s \in SUBSET S : Recurs(f, g, s)
  BY <1>6, <1>7 DEF H
<1>9. SumOf(f, S, g)  BY <1>8 DEF SumOf, Recurs
<1> QED  BY <1>9

LEMMA SumIs ==
  ASSUME NEW S, IsFiniteSet(S), NEW f, \A x \in S : f[x] \in Int
  PROVE  \E g : Sums(f, S, g) /\ SumFunctionOnSet(f, S) = g[S]
<1> DEFINE g == CHOOSE g : SumOf(f, S, g)
<1>1. SumOf(f, S, g)  BY SumExists
<1>2. SumFunctionOnSet(f, S) = g[S]  BY SumDefined
<1> HIDE DEF g
<1>3. \A s \in SUBSET S : Recurs(f, g, s)  BY <1>1 DEF SumOf, Recurs
<1> DEFINE G == {s \in SUBSET S : g[s] \in Int}
<1>4. {} \in G  BY <1>3 DEF Recurs
<1>5. ASSUME NEW s \in SUBSET S, s # {}, \A x \in s : s \ {x} \in G PROVE s \in G
  <2>1. Chosen(s) \in s  BY <1>5, ChosenIn
  <2>2. g[s] = f[Chosen(s)] + g[s \ {Chosen(s)}]  BY <1>3, <1>5 DEF Recurs
  <2> QED  BY <1>5, <2>1, <2>2
<1> HIDE DEF G
<1>6. \A s \in SUBSET S : s \in G  BY <1>4, <1>5, BySize
<1>7. g = [s \in SUBSET S |-> g[s]]  BY <1>1 DEF SumOf
<1>8. g \in [SUBSET S -> Int]  BY <1>6, <1>7 DEF G
<1> QED  BY <1>2, <1>3, <1>8 DEF Sums

\* A sum only depends on the values it is over.
LEMMA SumsAgree ==
  ASSUME NEW S, IsFiniteSet(S), NEW T \in SUBSET S, NEW f, NEW e, \A x \in T : f[x] = e[x],
         NEW g, NEW h, Sums(f, S, g), Sums(e, T, h)
  PROVE  \A s \in SUBSET T : g[s] = h[s]
<1> DEFINE G == {s \in SUBSET T : g[s] = h[s]}
<1>1. {} \in G  BY DEF Sums, Recurs
<1>2. ASSUME NEW s \in SUBSET T, s # {}, \A x \in s : s \ {x} \in G PROVE s \in G
  <2>1. Chosen(s) \in s  BY <1>2, ChosenIn
  <2>2. g[s] = f[Chosen(s)] + g[s \ {Chosen(s)}]  BY <1>2 DEF Sums, Recurs
  <2>3. h[s] = e[Chosen(s)] + h[s \ {Chosen(s)}]  BY <1>2 DEF Sums, Recurs
  <2>4. f[Chosen(s)] = e[Chosen(s)]  BY <2>1
  <2>5. g[s \ {Chosen(s)}] = h[s \ {Chosen(s)}]  BY <1>2, <2>1
  <2> QED  BY <2>2, <2>3, <2>4, <2>5
<1> HIDE DEF G
<1>3. IsFiniteSet(T)  BY FS_Subset
<1>4. \A s \in SUBSET T : s \in G  BY <1>1, <1>2, <1>3, BySize
<1> QED  BY <1>4 DEF G

LEMMA SumsAny ==
  ASSUME NEW S, IsFiniteSet(S), NEW f, \A x \in S : f[x] \in Int, NEW g, Sums(f, S, g)
  PROVE  \A s \in SUBSET S : \A x \in s : g[s] = f[x] + g[s \ {x}]
<1> DEFINE G == {s \in SUBSET S : \A x \in s : g[s] = f[x] + g[s \ {x}]}
<1>1. {} \in G  OBVIOUS
<1>2. ASSUME NEW s \in SUBSET S, s # {}, \A x \in s : s \ {x} \in G PROVE s \in G
  <2> DEFINE y == Chosen(s)
  <2>1. y \in s  BY <1>2, ChosenIn
  <2>2. g[s] = f[y] + g[s \ {y}]  BY <1>2 DEF Sums, Recurs
  <2> HIDE DEF y
  <2>3. SUFFICES ASSUME NEW x \in s, x # y PROVE g[s] = f[x] + g[s \ {x}]  BY <2>2
  <2>4. g[s \ {y}] = f[x] + g[(s \ {y}) \ {x}]  BY <1>2, <2>1, <2>3
  <2>5. g[s \ {x}] = f[y] + g[(s \ {x}) \ {y}]  BY <1>2, <2>1, <2>3
  <2>6. (s \ {y}) \ {x} = (s \ {x}) \ {y}  OBVIOUS
  <2>7. g[(s \ {x}) \ {y}] \in Int /\ f[x] \in Int /\ f[y] \in Int  BY <2>1 DEF Sums
  <2>8. g[s] = f[y] + (f[x] + g[(s \ {x}) \ {y}])  BY <2>2, <2>4, <2>6
  <2>9. f[y] + (f[x] + g[(s \ {x}) \ {y}]) = f[x] + (f[y] + g[(s \ {x}) \ {y}])  BY <2>7
  <2> QED  BY <2>5, <2>8, <2>9
<1> HIDE DEF G
<1>3. \A s \in SUBSET S : s \in G  BY <1>1, <1>2, BySize
<1> QED  BY <1>3 DEF G

LEMMA SumParts ==
  ASSUME NEW S, IsFiniteSet(S), NEW f, \A x \in S : f[x] \in Int
  PROVE  /\ SumFunctionOnSet(f, S) \in Int
         /\ S = {} => SumFunctionOnSet(f, S) = 0
         /\ \A x \in S : SumFunctionOnSet(f, S) = f[x] + SumFunctionOnSet(f, S \ {x})
<1>1. PICK g : Sums(f, S, g) /\ SumFunctionOnSet(f, S) = g[S]  BY SumIs
<1>2. SumFunctionOnSet(f, S) \in Int  BY <1>1 DEF Sums
<1>3. S = {} => SumFunctionOnSet(f, S) = 0  BY <1>1 DEF Sums, Recurs
<1>4. ASSUME NEW x \in S PROVE SumFunctionOnSet(f, S) = f[x] + SumFunctionOnSet(f, S \ {x})
  <2> DEFINE T == S \ {x}
  <2>1. T \in SUBSET S /\ IsFiniteSet(T)  BY FS_Subset
  <2>2. PICK h : Sums(f, T, h) /\ SumFunctionOnSet(f, T) = h[T]  BY <2>1, SumIs
  <2>3. g[T] = h[T]
    <3>1. \A y \in T : f[y] = f[y]  OBVIOUS
    <3> HIDE DEF T
    <3> QED  BY <1>1, <2>1, <2>2, <3>1, SumsAgree
  <2>4. g[S] = f[x] + g[T]  BY <1>1, SumsAny
  <2> QED  BY <1>1, <2>2, <2>3, <2>4
<1> QED  BY <1>2, <1>3, <1>4

LEMMA SumSame ==
  ASSUME NEW S, IsFiniteSet(S), NEW f, NEW e, \A x \in S : f[x] \in Int /\ e[x] = f[x]
  PROVE  SumFunctionOnSet(e, S) = SumFunctionOnSet(f, S)
<1>1. PICK g : Sums(f, S, g) /\ SumFunctionOnSet(f, S) = g[S]  BY SumIs
<1>2. PICK h : Sums(e, S, h) /\ SumFunctionOnSet(e, S) = h[S]  BY SumIs
<1>3. \A x \in S : e[x] = f[x]  OBVIOUS
<1>4. h[S] = g[S]  BY <1>1, <1>2, <1>3, SumsAgree
<1> QED  BY <1>1, <1>2, <1>4

LEMMA SumChanged ==
  ASSUME NEW S, IsFiniteSet(S), NEW f \in [S -> Int], NEW e \in [S -> Int],
         NEW b \in S, \A x \in S : x # b => e[x] = f[x]
  PROVE  /\ SumFunction(f) \in Int
         /\ SumFunction(e) = SumFunction(f) + (e[b] - f[b])
<1> DEFINE T == S \ {b}
<1>1. IsFiniteSet(T)  BY FS_Subset
<1>2. SumFunction(f) = SumFunctionOnSet(f, S) /\ SumFunction(e) = SumFunctionOnSet(e, S)
  BY DEF SumFunction
<1>3. SumFunctionOnSet(f, S) = f[b] + SumFunctionOnSet(f, T)  BY SumParts
<1>4. SumFunctionOnSet(e, S) = e[b] + SumFunctionOnSet(e, T)  BY SumParts
<1>5. SumFunctionOnSet(e, T) = SumFunctionOnSet(f, T)
  <2>1. \A x \in T : f[x] \in Int /\ e[x] = f[x]  OBVIOUS
  <2> HIDE DEF T
  <2> QED  BY <1>1, <2>1, SumSame
<1>6. SumFunctionOnSet(f, T) \in Int
  <2>1. \A x \in T : f[x] \in Int  OBVIOUS
  <2> HIDE DEF T
  <2> QED  BY <1>1, <2>1, SumParts
<1>7. f[b] \in Int /\ e[b] \in Int  OBVIOUS
<1> HIDE DEF T
<1> QED  BY <1>2, <1>3, <1>4, <1>5, <1>6, <1>7

-----------------------------------------------------------------------------
(* The weight of a queue, each packet weighing what w gives it.            *)

Weights(w, q) == [n \in 1..Len(q) |-> w[q[n]]]
Weight(w, q) == SumFunction(Weights(w, q))

\* The first k packets.
LEMMA WeightGrows ==
  ASSUME NEW N \in Nat, NEW f \in [1..N -> Int], NEW k \in 1..N
  PROVE  /\ SumFunctionOnSet(f, 1..k) = SumFunctionOnSet(f, 1..(k - 1)) + f[k]
         /\ SumFunctionOnSet(f, 1..(k - 1)) \in Int
<1>1. k \in Nat /\ k - 1 \in Int  OBVIOUS
<1>2. IsFiniteSet(1..k) /\ IsFiniteSet(1..(k - 1))  BY <1>1, FS_Interval
<1>3. (1..k) \ {k} = 1..(k - 1) /\ k \in 1..k  BY <1>1
<1>4. (\A n \in 1..k : f[n] \in Int) /\ (\A n \in 1..(k - 1) : f[n] \in Int)  BY <1>1
<1>5. SumFunctionOnSet(f, 1..k) = f[k] + SumFunctionOnSet(f, (1..k) \ {k})
  BY <1>2, <1>3, <1>4, SumParts
<1>6. SumFunctionOnSet(f, 1..(k - 1)) \in Int  BY <1>2, <1>4, SumParts
<1>7. f[k] \in Int  BY <1>3, <1>4
<1>8. SumFunctionOnSet(f, (1..k) \ {k}) = SumFunctionOnSet(f, 1..(k - 1))  BY <1>3
<1> QED  BY <1>5, <1>6, <1>7, <1>8

LEMMA WeightIs ==
  ASSUME NEW X, NEW w \in [X -> Int], NEW q \in Seq(X)
  PROVE  /\ Weights(w, q) \in [1..Len(q) -> Int]
         /\ \A n \in 1..Len(q) : Weights(w, q)[n] = w[q[n]]
         /\ Weight(w, q) = SumFunctionOnSet(Weights(w, q), 1..Len(q))
         /\ Weight(w, q) \in Int
<1> DEFINE f == Weights(w, q)
<1>1. Len(q) \in Nat /\ \A n \in 1..Len(q) : q[n] \in X  OBVIOUS
<1>2. f \in [1..Len(q) -> Int] /\ \A n \in 1..Len(q) : f[n] = w[q[n]]  BY <1>1 DEF Weights
<1>3. DOMAIN f = 1..Len(q)  BY DEF Weights
<1>4. Weight(w, q) = SumFunctionOnSet(f, 1..Len(q))
  <2>1. Weight(w, q) = SumFunction(f)  BY DEF Weight
  <2> HIDE DEF f
  <2> QED  BY <1>3, <2>1 DEF SumFunction
<1> HIDE DEF f
<1>5. IsFiniteSet(1..Len(q))  BY <1>1, FS_Interval
<1>6. \A n \in 1..Len(q) : f[n] \in Int  BY <1>2
<1>7. SumFunctionOnSet(f, 1..Len(q)) \in Int  BY <1>5, <1>6, SumParts
<1> QED  BY <1>2, <1>4, <1>7 DEF f

\* Packets sent that weigh nothing.
LEMMA WeightPadded ==
  ASSUME NEW X, NEW w \in [X -> Int], NEW q \in Seq(X), NEW r \in Seq(X),
         \A n \in 1..Len(r) : w[r[n]] = 0
  PROVE  Weight(w, q \o r) = Weight(w, q)
<1> DEFINE s == q \o r
           f == Weights(w, s)
           e == Weights(w, q)
           K == Len(q)
           N == Len(r)
           H == {n \in 0..N : SumFunctionOnSet(f, 1..(K + n)) = SumFunctionOnSet(f, 1..K)}
<1>1. K \in Nat /\ N \in Nat /\ Len(s) = K + N  OBVIOUS
<1>2. s \in Seq(X)  BY Joined
<1>3. (\A n \in 1..K : s[n] = q[n]) /\ (\A n \in 1..N : s[K + n] = r[n])  OBVIOUS
<1>4. f \in [1..(K + N) -> Int] /\ Weight(w, s) = SumFunctionOnSet(f, 1..(K + N))
  <2>1. Len(s) = K + N  BY <1>1
  <2> HIDE DEF s, K, N
  <2>2. f \in [1..Len(s) -> Int] /\ Weight(w, s) = SumFunctionOnSet(f, 1..Len(s))
    BY <1>2, WeightIs
  <2> HIDE DEF f
  <2> QED  BY <2>1, <2>2
<1>5. e \in [1..K -> Int] /\ Weight(w, q) = SumFunctionOnSet(e, 1..K)  BY WeightIs
<1>6. \A n \in 1..K : e[n] = w[q[n]]  BY WeightIs
<1> HIDE DEF s, K, N, H
<1>7. \A n \in 1..Len(s) : f[n] = w[s[n]]  BY DEF Weights
<1> HIDE DEF f, e
<1>8. \A n \in 1..K : f[n] \in Int /\ e[n] = f[n]
  <2>1. \A n \in 1..K : n \in 1..(K + N) /\ n \in 1..Len(s)  BY <1>1
  <2> QED  BY <1>3, <1>4, <1>6, <1>7, <2>1
<1>9. \A n \in 1..N : f[K + n] = 0
  <2>1. \A n \in 1..N : K + n \in 1..Len(s)  BY <1>1
  <2> QED  BY <1>3, <1>7, <2>1 DEF N
<1>10. SumFunctionOnSet(e, 1..K) = SumFunctionOnSet(f, 1..K)
  <2>1. IsFiniteSet(1..K)  BY <1>1, FS_Interval
  <2> QED  BY <1>8, <2>1, SumSame
<1>11. 0 \in H  BY <1>1 DEF H
<1>12. ASSUME NEW n \in 1..N, n - 1 \in H PROVE n \in H
  <2>1. K + n \in 1..(K + N) /\ (K + n) - 1 = K + (n - 1) /\ K + N \in Nat  BY <1>1
  <2>2. /\ SumFunctionOnSet(f, 1..(K + n)) = SumFunctionOnSet(f, 1..((K + n) - 1)) + f[K + n]
        /\ SumFunctionOnSet(f, 1..((K + n) - 1)) \in Int
    BY <1>4, <2>1, WeightGrows
  <2>3. SumFunctionOnSet(f, 1..(K + n)) = SumFunctionOnSet(f, 1..(K + (n - 1)))
    BY <1>9, <2>1, <2>2
  <2>4. n \in 0..N  BY <1>1
  <2> QED  BY <1>12, <2>3, <2>4 DEF H
<1>13. N \in H
  <2>1. N \in Nat  BY <1>1
  <2>2. \A n \in 0..N : n \in H  BY <1>11, <1>12, <2>1, AllAlong
  <2> QED  BY <2>1, <2>2
<1> QED  BY <1>4, <1>5, <1>10, <1>13 DEF H, s

LEMMA WeightSent ==
  ASSUME NEW X, NEW w \in [X -> Int], NEW q \in Seq(X), NEW m \in X
  PROVE  Weight(w, q \o <<m>>) = Weight(w, q) + w[m]
<1> DEFINE s == q \o <<m>>
           f == Weights(w, s)
           e == Weights(w, q)
           K == Len(q)
<1>1. K \in Nat /\ Len(s) = K + 1 /\ s[K + 1] = m /\ \A n \in 1..K : s[n] = q[n]  OBVIOUS
<1>2. s \in Seq(X)  BY Single, Joined
<1>3. f \in [1..(K + 1) -> Int] /\ Weight(w, s) = SumFunctionOnSet(f, 1..(K + 1))
  <2>1. Len(s) = K + 1  BY <1>1
  <2> HIDE DEF s, K
  <2>2. f \in [1..Len(s) -> Int] /\ Weight(w, s) = SumFunctionOnSet(f, 1..Len(s))
    BY <1>2, WeightIs
  <2> HIDE DEF f
  <2> QED  BY <2>1, <2>2
<1>4. e \in [1..K -> Int] /\ Weight(w, q) = SumFunctionOnSet(e, 1..K)  BY WeightIs
<1>5. \A n \in 1..K : e[n] = w[q[n]]  BY WeightIs
<1> HIDE DEF s, K
<1>6. \A n \in 1..Len(s) : f[n] = w[s[n]]  BY <1>2, WeightIs
<1> HIDE DEF f, e
<1>7. \A n \in 1..K : f[n] \in Int /\ e[n] = f[n]
  <2>1. \A n \in 1..K : n \in 1..(K + 1) /\ n \in 1..Len(s)  BY <1>1
  <2> QED  BY <1>1, <1>3, <1>5, <1>6, <2>1
<1>8. f[K + 1] = w[m]
  <2>1. K + 1 \in 1..Len(s)  BY <1>1
  <2> QED  BY <1>1, <1>6, <2>1
<1>9. SumFunctionOnSet(e, 1..K) = SumFunctionOnSet(f, 1..K)
  <2>1. IsFiniteSet(1..K)  BY <1>1, FS_Interval
  <2> QED  BY <1>7, <2>1, SumSame
<1>10. K + 1 \in 1..(K + 1) /\ K + 1 \in Nat /\ (K + 1) - 1 = K  BY <1>1
<1>11. SumFunctionOnSet(f, 1..(K + 1)) = SumFunctionOnSet(f, 1..((K + 1) - 1)) + f[K + 1]
  BY <1>3, <1>10, WeightGrows
<1> QED  BY <1>3, <1>4, <1>8, <1>9, <1>10, <1>11 DEF s

LEMMA WeightTaken ==
  ASSUME NEW X, NEW w \in [X -> Int], NEW q \in Seq(X), q # <<>>
  PROVE  Weight(w, q) = w[Head(q)] + Weight(w, Tail(q))
<1> DEFINE s == Tail(q)
           f == Weights(w, q)
           e == Weights(w, s)
           K == Len(s)
           H == {n \in 0..K : SumFunctionOnSet(f, 1..(n + 1)) = f[1] + SumFunctionOnSet(e, 1..n)}
<1>1. /\ Head(q) = q[1] /\ Len(q) \in Nat /\ Len(q) > 0 /\ K = Len(q) - 1
      /\ \A n \in 1..K : s[n] = q[n + 1]
  BY HeadTailProperties, EmptySeq
<1>2. s \in Seq(X) /\ K \in Nat /\ Len(q) = K + 1  BY <1>1, HeadTailProperties
<1>3. f \in [1..(K + 1) -> Int] /\ Weight(w, q) = SumFunctionOnSet(f, 1..(K + 1))
  BY <1>2, WeightIs
<1>4. e \in [1..K -> Int] /\ Weight(w, s) = SumFunctionOnSet(e, 1..K)  BY <1>2, WeightIs
<1>5. \A n \in 1..K : e[n] = f[n + 1]
  <2>1. \A n \in 1..K : e[n] = w[s[n]]
    <3> HIDE DEF s
    <3> QED  BY <1>2, WeightIs
  <2>2. \A n \in 1..K : n + 1 \in 1..Len(q)  BY <1>2
  <2>3. \A n \in 1..Len(q) : f[n] = w[q[n]]  BY WeightIs
  <2> QED  BY <1>1, <2>1, <2>2, <2>3
<1>6. f[1] = w[Head(q)]  BY <1>1, WeightIs
<1> HIDE DEF f, e, s, K
<1>7. 0 \in H
  <2>1. SumFunctionOnSet(e, 1..0) = 0
    <3>1. 1..0 = {} /\ IsFiniteSet(1..0)  BY FS_EmptySet
    <3> QED  BY <3>1, SumParts
  <2>2. SumFunctionOnSet(f, 1..0) = 0
    <3>1. 1..0 = {} /\ IsFiniteSet(1..0)  BY FS_EmptySet
    <3> QED  BY <3>1, SumParts
  <2>3. 1 \in 1..(K + 1) /\ K + 1 \in Nat /\ 1 - 1 = 0  BY <1>2
  <2>4. SumFunctionOnSet(f, 1..1) = SumFunctionOnSet(f, 1..(1 - 1)) + f[1]
    BY <1>3, <2>3, WeightGrows
  <2>5. f[1] \in Int  BY <1>3, <2>3
  <2> QED  BY <1>2, <2>1, <2>2, <2>3, <2>4, <2>5
<1>8. ASSUME NEW n \in 1..K, n - 1 \in H PROVE n \in H
  <2>1. n + 1 \in 1..(K + 1) /\ K + 1 \in Nat /\ (n + 1) - 1 = n /\ (n - 1) + 1 = n /\ n \in 0..K
    BY <1>2
  <2>2. SumFunctionOnSet(f, 1..(n + 1)) = SumFunctionOnSet(f, 1..n) + f[n + 1]
    BY <1>3, <2>1, WeightGrows
  <2>3. /\ SumFunctionOnSet(e, 1..n) = SumFunctionOnSet(e, 1..(n - 1)) + e[n]
        /\ SumFunctionOnSet(e, 1..(n - 1)) \in Int
    BY <1>2, <1>4, WeightGrows
  <2>4. SumFunctionOnSet(f, 1..n) = f[1] + SumFunctionOnSet(e, 1..(n - 1))  BY <1>8, <2>1
  <2>5. f[1] \in Int /\ e[n] \in Int  BY <1>3, <1>4, <2>1
  <2> QED  BY <1>5, <2>1, <2>2, <2>3, <2>4, <2>5
<1> HIDE DEF H
<1>9. K \in H
  <2>1. K \in Nat  BY <1>2
  <2>2. \A n \in 0..K : n \in H  BY <1>7, <1>8, <2>1, AllAlong
  <2> QED  BY <2>1, <2>2
<1> QED  BY <1>3, <1>4, <1>6, <1>9 DEF H, s

-----------------------------------------------------------------------------
(* The money there is.                                                     *)

Wealth == [b \in Bots |-> gold[b] + dyang[b]]
Value == [m \in Requests |-> Worth(m) - Claimed(m)]

LEMMA WealthIs ==
  TypeOK => Wealth \in [Bots -> Int] /\ \A b \in Bots : Wealth[b] = gold[b] + dyang[b]
  BY DEF TypeOK, PeopleOK, BoxesOK, Wealth

LEMMA ValueIs ==
  TypeOK => /\ Value \in [Requests -> Int]
            /\ \A m \in Requests :
                 /\ m.op \notin {"buy", "getyang"} => Value[m] = 0
                 /\ m.op = "buy" => Value[m] = Worth(m)
                 /\ m.op = "getyang" => Value[m] = - m.yang
<1> SUFFICES ASSUME TypeOK, NEW m \in Requests
             PROVE  /\ Worth(m) - Claimed(m) \in Int
                    /\ m.op \notin {"buy", "getyang"} => Worth(m) - Claimed(m) = 0
                    /\ m.op = "buy" => Worth(m) - Claimed(m) = Worth(m)
                    /\ m.op = "getyang" => Worth(m) - Claimed(m) = - m.yang
  BY DEF Value
<1>1. m.op = "buy" => m.owner \in Bots /\ m.item \in Items /\ m.success \in BOOLEAN
  BY RequestShapes
<1>2. m.op = "getyang" => m.yang \in Int  BY RequestShapes
<1>3. Worth(m) \in Int
  <2>1. dprice \in [Bots -> [Items -> Nat]]  BY DEF TypeOK, ShopsOK
  <2> QED  BY <1>1, <2>1 DEF Worth
<1>4. Claimed(m) \in Int  BY <1>2 DEF Claimed
<1>5. m.op # "buy" => Worth(m) = 0  BY DEF Worth
<1>6. m.op # "getyang" => Claimed(m) = 0  BY DEF Claimed
<1>7. m.op = "getyang" => Claimed(m) = m.yang  BY DEF Claimed
<1> QED  BY <1>2, <1>3, <1>4, <1>5, <1>6, <1>7

LEMMA PotIs == TypeOK => Pot = SumFunction(Wealth) + Weight(Value, toDb)
<1> SUFFICES ASSUME TypeOK
             PROVE  [n \in 1..Len(toDb) |-> Worth(toDb[n]) - Claimed(toDb[n])] = Weights(Value, toDb)
  BY DEF Pot, Wealth, Weight
<1>1. \A n \in 1..Len(toDb) : toDb[n] \in Requests  BY WiresAre
<1>2. \A n \in 1..Len(toDb) : Value[toDb[n]] = Worth(toDb[n]) - Claimed(toDb[n])
  BY <1>1 DEF Value
<1> QED  BY <1>2 DEF Weights

LEMMA WealthNext ==
  (TypeOK => Wealth \in [Bots -> Int] /\ \A b \in Bots : Wealth[b] = gold[b] + dyang[b])'
  BY WealthIs, PTL
LEMMA ValueNext ==
  (TypeOK => Value \in [Requests -> Int])'
<1>1. TypeOK => Value \in [Requests -> Int]  BY ValueIs
<1> QED  BY <1>1, PTL
LEMMA PotNext == (TypeOK => Pot = SumFunction(Wealth) + Weight(Value, toDb))'
  BY PotIs, PTL

LEMMA WeightSame ==
  ASSUME NEW q, NEW w, NEW v, \A n \in 1..Len(q) : v[q[n]] = w[q[n]]
  PROVE  Weight(v, q) = Weight(w, q)
<1>1. Weights(v, q) = Weights(w, q)  BY DEF Weights
<1> QED  BY <1>1 DEF Weight

\* A request keeps its value while it is in flight: a payment's line is locked.
LEMMA ValueStands ==
  ASSUME Ledger, Ledger', [Next]_vars, NEW m \in Requests, Has(toDb, {m}), Has(toDb', {m})
  PROVE  Value'[m] = Value[m]
<1>1. Value[m] = Worth(m) - Claimed(m) /\ Value'[m] = Worth(m)' - Claimed(m)  BY DEF Value, Claimed
<1>2. CASE m.op = "buy" /\ m.success
  <2> DEFINE o == m.owner
             i == m.item
  <2>1. o \in Bots /\ i \in Items  BY <1>2, RequestShapes
  <2>2. m \in Payments(o, i)  BY <1>2 DEF Payments
  <2>3. Has(toDb, Payments(o, i)) /\ Has(toDb', Payments(o, i))  BY <2>2 DEF Has
  <2>4. Payments(o, i)' = Payments(o, i)  BY DEF Payments
  <2>5. Purchase(o, i) /\ Purchase(o, i)'  BY <2>1 DEF Ledger, Purchases
  <2>6. <<o, i>> \in locked  BY <2>3, <2>5 DEF Purchase, Token
  <2>7. <<o, i>> \in locked'  BY <2>3, <2>4, <2>5 DEF Purchase, Token
  <2>8. dprice'[o][i] = dprice[o][i]
    <3>1. TypeOK  BY DEF Ledger
    <3>2. CASE UNCHANGED vars  BY <3>2 DEF vars, dshops
    <3>3. CASE ~UNCHANGED vars
      <4>1. \A line \in locked \cap locked' : dprice'[line[1]][line[2]] = dprice[line[1]][line[2]]
        BY <3>1, <3>3, PriceStep
      <4>2. <<o, i>> \in locked \cap locked' /\ <<o, i>>[1] = o /\ <<o, i>>[2] = i
        BY <2>6, <2>7
      <4> HIDE DEF o, i
      <4> QED  BY <4>1, <4>2
    <3> QED  BY <3>2, <3>3
  <2> QED  BY <1>1, <1>2, <2>8 DEF Worth
<1>3. CASE ~(m.op = "buy" /\ m.success)  BY <1>1, <1>3 DEF Worth
<1> QED  BY <1>2, <1>3

\* A queue that has been added to is not the rest of it.
LEMMA Longer ==
  ASSUME NEW X, NEW q \in Seq(X), q # <<>>, NEW r \in Seq(X) PROVE q \o r # Tail(q)
<1> DEFINE s == q \o r
           t == Tail(q)
<1>1. Len(q) \in Nat /\ Len(t) = Len(q) - 1  BY HeadTailProperties, LenProperties
<1>2. Len(s) = Len(q) + Len(r)  BY ConcatProperties
<1>3. Len(r) \in Nat  BY LenProperties
<1> HIDE DEF s, t
<1>4. Len(s) # Len(t)
  <2> SUFFICES ASSUME Len(s) = Len(t) PROVE FALSE  OBVIOUS
  <2>1. Len(q) + Len(r) = Len(q) - 1  BY <1>1, <1>2
  <2> QED  BY <1>1, <1>3, <2>1
<1> QED  BY <1>4 DEF s, t

LEMMA QueueThere ==
  ASSUME NEW q PROVE \A n \in 1..Len(q) : Has(q, {q[n]})
  BY DEF Has

\* What is in flight weighs the same while it stays.
LEMMA SendingWeighs ==
  ASSUME Ledger, Ledger', [Next]_vars, NEW ms \in Seq(Requests), toDb' = toDb \o ms
  PROVE  Weight(Value', toDb) = Weight(Value, toDb)
<1>1. TypeOK  BY DEF Ledger
<1>2. ASSUME NEW n \in 1..Len(toDb) PROVE Value'[toDb[n]] = Value[toDb[n]]
  <2>1. toDb \in Seq(Requests) /\ toDb[n] \in Requests  BY <1>1, WiresAre
  <2>2. Has(toDb, {toDb[n]})  BY QueueThere
  <2>3. Has(toDb', {toDb[n]})
    <3>1. \A S : Has(toDb \o ms, S) <=> Has(toDb, S) \/ Has(ms, S)  BY <2>1, QueueJoined
    <3> QED  BY <2>2, <3>1
  <2> QED  BY <2>1, <2>2, <2>3, ValueStands
<1> QED  BY <1>2, WeightSame

LEMMA TakingWeighs ==
  ASSUME Ledger, Ledger', [Next]_vars, toDb # <<>>, toDb' = Tail(toDb)
  PROVE  /\ Weight(Value', toDb') = Weight(Value, toDb) - Value[Head(toDb)]
         /\ Value[Head(toDb)] \in Int
<1>1. TypeOK /\ TypeOK'  BY DEF Ledger
<1>2. toDb \in Seq(Requests) /\ toDb' \in Seq(Requests) /\ Head(toDb) \in Requests
  BY <1>1, WiresAre DEF TypeOK, WiresOK
<1>3. ASSUME NEW n \in 1..Len(toDb') PROVE Value'[toDb'[n]] = Value[toDb'[n]]
  <2>1. toDb'[n] \in Requests  BY <1>2
  <2>2. Has(toDb', {toDb'[n]})  BY QueueThere
  <2>3. Has(toDb, {toDb'[n]})
    <3>1. \A S : Has(toDb, S) <=> Head(toDb) \in S \/ Has(Tail(toDb), S)  BY <1>2, QueueTaken
    <3> QED  BY <2>2, <3>1
  <2> QED  BY <2>1, <2>2, <2>3, ValueStands
<1>4. Weight(Value', toDb') = Weight(Value, toDb')  BY <1>3, WeightSame
<1>5. Value \in [Requests -> Int]  BY <1>1, ValueIs
<1>6. Weight(Value, toDb) = Value[Head(toDb)] + Weight(Value, Tail(toDb))
  BY <1>2, <1>5, WeightTaken
<1>7. Weight(Value, toDb') \in Int /\ Value[Head(toDb)] \in Int  BY <1>2, <1>5, WeightIs
<1> HIDE DEF Value
<1> QED  BY <1>4, <1>6, <1>7

LEMMA TotalsAre ==
  ASSUME Ledger, Ledger'
  PROVE  /\ Pot = SumFunction(Wealth) + Weight(Value, toDb)
         /\ Pot' = SumFunction(Wealth') + Weight(Value', toDb')
         /\ Wealth \in [Bots -> Int] /\ Wealth' \in [Bots -> Int]
         /\ \A b \in Bots : Wealth[b] = gold[b] + dyang[b] /\ Wealth'[b] = gold'[b] + dyang'[b]
         /\ Value \in [Requests -> Int] /\ Value' \in [Requests -> Int]
         /\ toDb \in Seq(Requests)
         /\ SumFunction(Wealth) \in Int
         /\ Weight(Value, toDb) \in Int
<1>1. TypeOK /\ TypeOK'  BY DEF Ledger
<1>2. Pot = SumFunction(Wealth) + Weight(Value, toDb)  BY <1>1, PotIs
<1>3. Pot' = SumFunction(Wealth') + Weight(Value', toDb')  BY <1>1, PotNext
<1>4. Wealth \in [Bots -> Int] /\ \A b \in Bots : Wealth[b] = gold[b] + dyang[b]  BY <1>1, WealthIs
<1>5. Wealth' \in [Bots -> Int] /\ \A b \in Bots : Wealth'[b] = gold'[b] + dyang'[b]
  BY <1>1, WealthNext
<1>6. Value \in [Requests -> Int]  BY <1>1, ValueIs
<1>7. Value' \in [Requests -> Int]  BY <1>1, ValueNext
<1>8. toDb \in Seq(Requests)  BY <1>1, WiresAre
<1>9. SumFunction(Wealth) \in Int
  <2>1. DOMAIN Wealth = Bots /\ \A b \in Bots : Wealth[b] \in Int  BY <1>4
  <2>2. IsFiniteSet(Bots)  BY BotsAssumption
  <2>3. SumFunction(Wealth) = SumFunctionOnSet(Wealth, Bots)  BY <2>1 DEF SumFunction
  <2> QED  BY <2>1, <2>2, <2>3, SumParts
<1>10. Weight(Value, toDb) \in Int  BY <1>6, <1>8, WeightIs
<1> QED  BY <1>2, <1>3, <1>4, <1>5, <1>6, <1>7, <1>8, <1>9, <1>10

\* Wealth that stays, or changes for one.
LEMMA WealthStays ==
  ASSUME Ledger, Ledger', UNCHANGED <<gold, dyang>> PROVE Wealth' = Wealth
  BY DEF Wealth

LEMMA WealthMoves ==
  ASSUME Ledger, Ledger', NEW b \in Bots, NEW k \in Int, gold'[b] + dyang'[b] = gold[b] + dyang[b] + k,
         \A c \in Bots : c # b => gold'[c] = gold[c] /\ dyang'[c] = dyang[c]
  PROVE  SumFunction(Wealth') = SumFunction(Wealth) + k
<1>1. /\ Wealth \in [Bots -> Int] /\ Wealth' \in [Bots -> Int]
      /\ \A c \in Bots : Wealth[c] = gold[c] + dyang[c] /\ Wealth'[c] = gold'[c] + dyang'[c]
  BY TotalsAre
<1>2. \A c \in Bots : c # b => Wealth'[c] = Wealth[c]  BY <1>1
<1>3. IsFiniteSet(Bots)  BY BotsAssumption
<1>4. SumFunction(Wealth) \in Int /\ SumFunction(Wealth') = SumFunction(Wealth) + (Wealth'[b] - Wealth[b])
  BY <1>1, <1>2, <1>3, SumChanged
<1>5. Wealth'[b] = Wealth[b] + k  BY <1>1
<1>6. Wealth[b] \in Int  BY <1>1
<1> QED  BY <1>4, <1>5, <1>6

-----------------------------------------------------------------------------
(* What each step does to it.                                              *)

LEMMA ValueAfter ==
  ASSUME NEW m \in Requests
  PROVE  Value'[m] = (IF m.op = "buy" /\ m.success THEN dprice'[m.owner][m.item] ELSE 0)
                     - (IF m.op = "getyang" THEN m.yang ELSE 0)
  BY DEF Value, Worth, Claimed

\* A step that sends: what the packets weigh is missing elsewhere.
LEMMA PotSent ==
  ASSUME Ledger, Ledger', [Next]_vars, NEW ms \in Seq(Requests), toDb' = toDb \o ms,
         NEW k \in Int, Weight(Value', toDb \o ms) = Weight(Value', toDb) + k,
         SumFunction(Wealth') = SumFunction(Wealth) - k
  PROVE  Pot' = Pot - Fee
<1>1. /\ Pot = SumFunction(Wealth) + Weight(Value, toDb)
      /\ Pot' = SumFunction(Wealth') + Weight(Value', toDb')
      /\ toDb \in Seq(Requests)
      /\ SumFunction(Wealth) \in Int /\ Weight(Value, toDb) \in Int
  BY TotalsAre
<1>2. Weight(Value', toDb) = Weight(Value, toDb)  BY SendingWeighs
<1>3. Weight(Value', toDb') = Weight(Value, toDb) + k  BY <1>2
<1>4. Fee = 0
  <2>1. toDb # <<>> => toDb \o ms # Tail(toDb)  BY <1>1, Longer
  <2> QED  BY <2>1 DEF Fee, AtDb
<1> QED  BY <1>1, <1>3, <1>4

\* A step that takes one: what it weighed is elsewhere now, but for the fee.
LEMMA PotTaken ==
  ASSUME Ledger, Ledger', [Next]_vars, toDb # <<>>, toDb' = Tail(toDb), Fee \in Int,
         SumFunction(Wealth') = SumFunction(Wealth) + (Value[Head(toDb)] - Fee)
  PROVE  Pot' = Pot - Fee
<1>1. /\ Pot = SumFunction(Wealth) + Weight(Value, toDb)
      /\ Pot' = SumFunction(Wealth') + Weight(Value', toDb')
      /\ SumFunction(Wealth) \in Int /\ Weight(Value, toDb) \in Int
  BY TotalsAre
<1>2. /\ Weight(Value', toDb') = Weight(Value, toDb) - Value[Head(toDb)]
      /\ Value[Head(toDb)] \in Int
  BY TakingWeighs
<1> HIDE DEF Value
<1> QED  BY <1>1, <1>2

\* Nothing that is worth anything is sent or taken.
LEMMA PotQuiet ==
  ASSUME Ledger, Ledger', [Next]_vars, UNCHANGED <<gold, dyang>>,
         NEW d, NEW c, Wires(d, c), {"buy", "getyang"} \cap d = {}
  PROVE  Pot' = Pot - Fee
<1>1. Untouched(toDb, toDb', Requests, But(Requests, d))  BY DEF Wires, DbWire
<1>2. Wealth' = Wealth /\ SumFunction(Wealth) \in Int /\ toDb \in Seq(Requests)
      /\ Value' \in [Requests -> Int] /\ Value \in [Requests -> Int]
  BY WealthStays, TotalsAre
<1>3. ASSUME NEW ms \in Seq(Requests), toDb' = toDb \o ms, ~Has(ms, But(Requests, d))
      PROVE  Pot' = Pot - Fee
  <2>1. ASSUME NEW n \in 1..Len(ms) PROVE Value'[ms[n]] = 0
    <3>1. ms[n] \in Requests /\ ms[n].op \in d  BY <1>3, ElementOfSeq DEF Has, But
    <3>2. ms[n].op # "buy" /\ ms[n].op # "getyang"  BY <3>1
    <3> QED  BY <3>1, <3>2, ValueAfter
  <2>2. Weight(Value', toDb \o ms) = Weight(Value', toDb)  BY <1>2, <2>1, WeightPadded
  <2>3. Weight(Value', toDb) \in Int  BY <1>2, WeightIs
  <2>4. Weight(Value', toDb \o ms) = Weight(Value', toDb) + 0  BY <2>2, <2>3
  <2>5. SumFunction(Wealth') = SumFunction(Wealth) - 0  BY <1>2
  <2> QED  BY <1>3, <2>4, <2>5, PotSent
<1>4. CASE toDb # <<>> /\ toDb' = Tail(toDb) /\ Head(toDb) \notin But(Requests, d)
  <2>1. Head(toDb) \in Requests  BY <1>2, <1>4, HeadTailProperties
  <2>2. Head(toDb).op # "buy" /\ Head(toDb).op # "getyang"  BY <1>4, <2>1 DEF But
  <2>3. TypeOK  BY DEF Ledger
  <2>4. Value[Head(toDb)] = 0  BY <2>1, <2>2, <2>3, ValueIs
  <2>5. Fee = 0  BY <2>2 DEF Fee, AtDb
  <2>6. SumFunction(Wealth') = SumFunction(Wealth) + (Value[Head(toDb)] - Fee)
    BY <1>2, <2>4, <2>5
  <2> QED  BY <1>4, <2>5, <2>6, PotTaken
<1>5. CASE toDb' = toDb
  <2>1. toDb' = toDb \o <<>> /\ <<>> \in Seq(Requests)  BY <1>2, <1>5, ConcatEmptySeq, Nothing
  <2>2. ~Has(<<>>, But(Requests, d))  BY ShortQueues
  <2> QED  BY <1>3, <2>1, <2>2
<1> QED  BY <1>1, <1>3, <1>4, <1>5 DEF Untouched

\* Proceeds: what the core pays out now, the db core takes off later.
LEMMA PotCollected ==
  ASSUME Ledger, Ledger', [Next]_vars, \A b \in Bots : Money(b),
         NEW c, NEW ms, Collects(c, ms), UNCHANGED dyang
  PROVE  Pot' = Pot - Fee
<1> DEFINE t == Claimable(c)
           g == [op |-> "getyang", owner |-> c, yang |-> Claimable(c)]
<1>1. /\ c \in Bots /\ ms \in Seq(Requests) /\ ~Has(ms, Dues)
      /\ toDb' = toDb \o (Claim(c) \o ms) /\ gold' = [gold EXCEPT ![c] = @ + t]
  BY DEF Collects, TakeProceeds
<1>2. TypeOK /\ gold \in [Bots -> Int] /\ dyang \in [Bots -> Int]
  BY DEF Ledger, TypeOK, PeopleOK, BoxesOK
<1>3. t \in Nat  BY <1>1, <1>2, MoneyIs, ClaimableIs
<1>4. g \in Requests /\ g.op = "getyang" /\ g.yang = t  BY <1>1, <1>3 DEF Requests, Paid
<1>5. Claim(c) = IF t > 0 THEN <<g>> ELSE <<>>  BY DEF Claim
<1> HIDE DEF g, t
<1>6. SumFunction(Wealth') = SumFunction(Wealth) + t
  <2>1. gold'[c] + dyang'[c] = gold[c] + dyang[c] + t  BY <1>1, <1>2, <1>3
  <2>2. \A b \in Bots : b # c => gold'[b] = gold[b] /\ dyang'[b] = dyang[b]  BY <1>1, <1>2
  <2> QED  BY <1>1, <1>3, <2>1, <2>2, WealthMoves
<1>7. toDb \in Seq(Requests) /\ Value' \in [Requests -> Int] /\ SumFunction(Wealth) \in Int
  BY TotalsAre
<1>8. \A n \in 1..Len(ms) : Value'[ms[n]] = 0
  <2> TAKE n \in 1..Len(ms)
  <2>1. ms[n] \in Requests /\ ms[n] \notin Dues  BY <1>1, ElementOfSeq DEF Has
  <2>2. ms[n].op # "buy" /\ ms[n].op # "getyang"  BY <2>1 DEF Dues
  <2> QED  BY <2>1, <2>2, ValueAfter
<1>9. Claim(c) \o ms \in Seq(Requests)  BY <1>1, <1>4, <1>5, Single, Nothing, Joined
<1>10. Weight(Value', toDb \o (Claim(c) \o ms)) = Weight(Value', toDb) + (- t)
  <2>1. CASE t > 0
    <3>1. Value'[g] = - t  BY <1>3, <1>4, ValueAfter
    <3>2. <<g>> \in Seq(Requests) /\ toDb \o <<g>> \in Seq(Requests)  BY <1>4, <1>7, Single, Joined
    <3>3. Weight(Value', toDb \o <<g>>) = Weight(Value', toDb) + (- t)
      BY <1>4, <1>7, <3>1, WeightSent
    <3>4. Weight(Value', (toDb \o <<g>>) \o ms) = Weight(Value', toDb \o <<g>>)
      BY <1>1, <1>7, <1>8, <3>2, WeightPadded
    <3>5. (toDb \o <<g>>) \o ms = toDb \o (<<g>> \o ms)  BY <1>1, <1>7, <3>2, ConcatAssociative
    <3>6. Claim(c) = <<g>>  BY <1>5, <2>1
    <3> QED  BY <3>3, <3>4, <3>5, <3>6
  <2>2. CASE ~(t > 0)
    <3>1. Claim(c) = <<>> /\ t = 0  BY <1>3, <1>5, <2>2
    <3>2. Claim(c) \o ms = ms  BY <1>1, <3>1, ConcatEmptySeq
    <3>3. Weight(Value', toDb \o ms) = Weight(Value', toDb)  BY <1>1, <1>7, <1>8, WeightPadded
    <3>4. Weight(Value', toDb) \in Int  BY <1>7, WeightIs
    <3> QED  BY <3>1, <3>2, <3>3, <3>4
  <2> QED  BY <2>1, <2>2
<1>11. SumFunction(Wealth') = SumFunction(Wealth) - (- t)  BY <1>3, <1>6, <1>7
<1>12. - t \in Int  BY <1>3
<1> QED  BY <1>1, <1>9, <1>10, <1>11, <1>12, PotSent

\* The price a buyer was promised is what its own core shows when it pays.
LEMMA PromisedPrice ==
  ASSUME Standing, CoreLocked
  PROVE  /\ Head(toCore).owner \in Bots /\ Head(toCore).item \in Items /\ Head(toCore).who \in Bots
         /\ cprice[Head(toCore).owner][Head(toCore).item] = dprice[Head(toCore).owner][Head(toCore).item]
<1> DEFINE m == Head(toCore)
           o == m.owner
           i == m.item
<1>1. Ledger /\ TypeOK /\ MirrorOK /\ WiresOK /\ \A a \in Bots : Mirrored(a)
  BY DEF Standing, Books, Ledger, Shops, TypeOK
<1>2. m \in Answers /\ m.op = "locked" /\ m.who \in Bots /\ o \in Bots /\ i \in Items
  BY <1>1, CoreTakes, AnswerShapes DEF CoreLocked
<1>3. toCore \in Seq(Answers) /\ toCore # <<>>  BY <1>1, WiresAre DEF CoreLocked, AtCore
<1>4. m \in Granted(o, i)  BY <1>2 DEF Granted
<1>5. Has(toCore, Granted(o, i))  BY <1>3, <1>4, QueueTaken
<1>6. dprice[o][i] > 0 /\ ~Has(sql, Puts(o, i))  BY <1>1, <1>2, <1>5, LineStored
<1>7. PICK t \in Shelf : Due(o, t) /\ Leads(o, toCore, Mirror(o), t)  BY <1>1, <1>2 DEF Mirrored
<1>8. t.lines[i] = dprice[o][i]  BY <1>2, <1>6, <1>7 DEF Due
<1>9. Mirror(o).lines[i] = t.lines[i]
  <2>1. PICK u \in Shelf : \A j \in Items : m \in Granted(o, j) => Mirror(o).lines[j] = t.lines[j]
    <3> HIDE DEF o
    <3> QED  BY <1>3, <1>7, LeadsOn
  <2> QED  BY <1>2, <1>4, <2>1
<1>10. Mirror(o).lines = cprice[o]  BY <1>1, <1>2, MirrorIs
<1> QED  BY <1>2, <1>8, <1>9, <1>10

\* The buyer's payment is on its way.
LEMMA PotPaid ==
  ASSUME Standing, Ledger', [Next]_vars, CoreLocked PROVE Pot' = Pot - Fee
<1> DEFINE m == Head(toCore)
           o == m.owner
           i == m.item
           b == [op |-> "buy", who |-> m.who, owner |-> m.owner, item |-> m.item, success |-> CanPay(m)]
<1>1. Ledger  BY DEF Standing, Books
<1>2. m.who \in Bots /\ o \in Bots /\ i \in Items /\ cprice[o][i] = dprice[o][i]  BY PromisedPrice
<1>3. CanPay(m) \in BOOLEAN  BY DEF CanPay
<1>4. /\ b \in Requests /\ b.op = "buy" /\ b.owner = o /\ b.item = i /\ b.success = CanPay(m)
  BY <1>2, <1>3 DEF Requests
<1>5. toDb' = toDb \o <<b>> /\ dprice' = dprice /\ dyang' = dyang
  BY DEF CoreLocked, ToDb, dshops, dboxes
<1>6. gold' = IF CanPay(m) THEN [gold EXCEPT ![m.who] = @ - cprice[o][i]] ELSE gold
  BY DEF CoreLocked
<1>7. gold \in [Bots -> Int] /\ dyang \in [Bots -> Int] /\ dprice \in [Bots -> [Items -> Nat]]
  BY <1>1 DEF Ledger, TypeOK, PeopleOK, BoxesOK, ShopsOK
<1>8. dprice[o][i] \in Nat  BY <1>2, <1>7
<1> DEFINE k == IF CanPay(m) THEN dprice[o][i] ELSE 0
<1>9. k \in Int /\ - k \in Int  BY <1>8
<1> HIDE DEF m, o, i, b
<1>10. Value'[b] = k  BY <1>4, <1>5, <1>8, ValueAfter
<1>11. SumFunction(Wealth') = SumFunction(Wealth) + (- k)
  <2>1. gold'[m.who] + dyang'[m.who] = gold[m.who] + dyang[m.who] + (- k)
    BY <1>2, <1>5, <1>6, <1>7, <1>8
  <2>2. \A a \in Bots : a # m.who => gold'[a] = gold[a] /\ dyang'[a] = dyang[a]
    BY <1>5, <1>6, <1>7
  <2> HIDE DEF k
  <2> QED  BY <1>1, <1>2, <1>9, <2>1, <2>2, WealthMoves
<1> HIDE DEF k
<1>12. toDb \in Seq(Requests) /\ Value' \in [Requests -> Int] /\ SumFunction(Wealth) \in Int
  BY <1>1, TotalsAre
<1>13. Weight(Value', toDb \o <<b>>) = Weight(Value', toDb) + k
  BY <1>4, <1>10, <1>12, WeightSent
<1>14. <<b>> \in Seq(Requests)  BY <1>4, Single
<1>15. SumFunction(Wealth') = SumFunction(Wealth) - k  BY <1>9, <1>11, <1>12
<1> QED  BY <1>1, <1>5, <1>9, <1>13, <1>14, <1>15, PotSent

\* The seller is credited with it, less the tax.
LEMMA PotBought ==
  ASSUME Ledger, Ledger', [Next]_vars, DbBuy PROVE Pot' = Pot - Fee
<1> DEFINE m == Head(toDb)
           o == m.owner
           w == Worth(m)
           p == dprice[o][m.item]
<1>1. TypeOK /\ Purchases  BY DEF Ledger
<1>2. o \in Bots /\ m.item \in Items /\ HasLine(o, m.item)  BY <1>1, PaymentLocked
<1>3. m \in Requests /\ m.op = "buy" /\ m.success \in BOOLEAN
  BY <1>1, DbTakes, RequestShapes DEF TypeOK, DbBuy
<1>4. toDb # <<>> /\ toDb' = Tail(toDb) /\ AtDb("buy")  BY DEF DbBuy, AtDb, TakenByDb
<1>5. gold' = gold  BY DEF DbBuy, people
<1>6. p \in Nat /\ gold \in [Bots -> Int] /\ dyang \in [Bots -> Int]
  BY <1>1, <1>2 DEF TypeOK, PeopleOK, BoxesOK, ShopsOK
<1>7. Value[m] = w  BY <1>1, <1>3, ValueIs
<1>8. Fee = w - Taxed(w)  BY <1>4 DEF Fee
<1>9. w = (IF m.success THEN p ELSE 0)  BY <1>3 DEF Worth
<1>10. w \in Nat /\ Taxed(w) \in Nat  BY <1>6, <1>9, TaxedIs
<1>11. CASE m.success
  <2>1. dyang' = [dyang EXCEPT ![o] = @ + Taxed(p)]  BY <1>2, <1>11 DEF DbBuy
  <2>2. w = p  BY <1>9, <1>11
  <2> HIDE DEF m, o, w, p
  <2>3. gold'[o] + dyang'[o] = gold[o] + dyang[o] + Taxed(w)  BY <1>2, <1>5, <1>6, <1>10, <2>1, <2>2
  <2>4. \A a \in Bots : a # o => gold'[a] = gold[a] /\ dyang'[a] = dyang[a]  BY <1>5, <1>6, <2>1
  <2>5. Taxed(w) \in Int  BY <1>10
  <2>6. SumFunction(Wealth') = SumFunction(Wealth) + Taxed(w)  BY <1>2, <2>3, <2>4, <2>5, WealthMoves
  <2>7. Taxed(w) = Value[m] - Fee /\ Fee \in Int  BY <1>7, <1>8, <1>10
  <2>8. SumFunction(Wealth') = SumFunction(Wealth) + (Value[m] - Fee)  BY <2>6, <2>7
  <2> QED  BY <1>4, <2>7, <2>8, PotTaken DEF m
<1>12. CASE ~m.success
  <2>1. UNCHANGED dyang  BY <1>2, <1>12 DEF DbBuy
  <2>2. w = 0  BY <1>9, <1>12
  <2>3. Taxed(0) = 0
    <3>1. Tax \in Int  BY PriceAssumption
    <3>2. 0 * Tax = 0  BY <3>1
    <3>3. 0 \div 100 = 0  OBVIOUS
    <3> QED  BY <3>2, <3>3 DEF Taxed
  <2>4. Fee = 0 /\ Value[m] = 0  BY <1>7, <1>8, <2>2, <2>3
  <2>5. Wealth' = Wealth /\ SumFunction(Wealth) \in Int  BY <1>5, <2>1, WealthStays, TotalsAre
  <2>6. SumFunction(Wealth') = SumFunction(Wealth) + (Value[m] - Fee)  BY <2>4, <2>5
  <2> QED  BY <1>4, <2>4, <2>6, PotTaken
<1> QED  BY <1>3, <1>11, <1>12

\* A claim comes off what the seller was credited with.
LEMMA PotClaimed ==
  ASSUME Ledger, Ledger', [Next]_vars, DbGetYang PROVE Pot' = Pot - Fee
<1> DEFINE m == Head(toDb)
<1>1. TypeOK  BY DEF Ledger
<1>2. m \in Requests /\ m.op = "getyang" /\ m.owner \in Bots /\ m.yang \in Int
  BY <1>1, DbTakes, RequestShapes DEF TypeOK, DbGetYang
<1>3. toDb # <<>> /\ toDb' = Tail(toDb)  BY DEF DbGetYang, AtDb, TakenByDb
<1>4. gold' = gold /\ dyang' = [dyang EXCEPT ![m.owner] = @ - m.yang]  BY DEF DbGetYang, people
<1>5. gold \in [Bots -> Int] /\ dyang \in [Bots -> Int]  BY <1>1 DEF TypeOK, PeopleOK, BoxesOK
<1>6. Value[m] = - m.yang  BY <1>1, <1>2, ValueIs
<1>7. Fee = 0  BY <1>2 DEF Fee, AtDb
<1> HIDE DEF m
<1>8. SumFunction(Wealth') = SumFunction(Wealth) + (- m.yang)
  <2>1. gold'[m.owner] + dyang'[m.owner] = gold[m.owner] + dyang[m.owner] + (- m.yang)
    BY <1>2, <1>4, <1>5
  <2>2. \A a \in Bots : a # m.owner => gold'[a] = gold[a] /\ dyang'[a] = dyang[a]
    BY <1>4, <1>5
  <2>3. - m.yang \in Int  BY <1>2
  <2> QED  BY <1>2, <2>1, <2>2, <2>3, WealthMoves
<1>9. SumFunction(Wealth') = SumFunction(Wealth) + (Value[m] - Fee)  BY <1>2, <1>6, <1>7, <1>8
<1> QED  BY <1>3, <1>7, <1>9, PotTaken DEF m

\* Whatever happens, all of it is there but the tax.
LEMMA PotStep ==
  ASSUME Standing, Ledger', [Next]_vars PROVE Pot' = Pot - Fee
<1>1. Ledger /\ TypeOK /\ \A b \in Bots : Money(b)  BY DEF Standing, Books, Ledger
<1>2. CASE CoreLocked  BY <1>2, PotPaid
<1>3. CASE DbBuy  BY <1>1, <1>3, PotBought
<1>4. CASE DbGetYang  BY <1>1, <1>4, PotClaimed
<1>5. CASE Trade
  <2>1. CASE UNCHANGED gold /\ \E d, c : Wires(d, c) /\ {"buy", "getyang", "loadbox"} \cap d = {}
    <3>1. UNCHANGED dyang  BY <1>1, <1>5, TradeCollects
    <3>2. PICK d, c : Wires(d, c) /\ {"buy", "getyang", "loadbox"} \cap d = {}  BY <2>1
    <3>3. {"buy", "getyang"} \cap d = {}  BY <3>2
    <3> QED  BY <1>1, <2>1, <3>1, <3>2, <3>3, PotQuiet
  <2>2. ASSUME NEW c, NEW ms, Collects(c, ms) PROVE Pot' = Pot - Fee
    <3>1. UNCHANGED dyang  BY <1>1, <1>5, TradeCollects
    <3> QED  BY <1>1, <2>2, <3>1, PotCollected
  <2> QED  BY <1>1, <1>5, <2>1, <2>2, TradeCollects
<1>6. CASE ~CoreLocked /\ ~DbBuy /\ ~DbGetYang /\ ~Trade
  <2>1. UNCHANGED <<gold, dyang>>  BY <1>6, GoldStays, YangStays
  <2>2. PICK d, c : Wires(d, c)  BY <1>1, StepWires
  <2>3. {"buy", "getyang"} \cap d = {}  BY <1>6, <2>2 DEF Wires, DbReasons
  <2> QED  BY <1>1, <2>1, <2>2, <2>3, PotQuiet
<1> QED  BY <1>2, <1>3, <1>4, <1>5, <1>6

LEMMA PotMoves == Standing /\ [Next]_vars => [Pot' = Pot - Fee]_vars
<1> SUFFICES ASSUME Standing, [Next]_vars PROVE Pot' = Pot - Fee  OBVIOUS
<1>1. Ledger'  BY LedgerStep DEF Standing, Books, Ledger
<1> QED  BY <1>1, PotStep

\* Whoever buys, reprices, claims and leaves at once, the gold the core takes
\* from a buyer (RecvShopLockedBuyItemDBPacket) is what the db core credits the
\* seller with less the tax (RecvIkarusShopBuyItemPacket), and what a visit pays out
\* of a safebox is what comes off it there: all the gold, all the proceeds and
\* all that is on its way change by the tax alone.
THEOREM NothingIsMissing == Spec => MoneyKept
<1>1. Standing /\ [Next]_vars => [Pot' = Pot - Fee]_vars  BY PotMoves
<1> QED  BY <1>1, StandingStart, StandingStep, PTL DEF Spec, MoneyKept
===============================================================================
