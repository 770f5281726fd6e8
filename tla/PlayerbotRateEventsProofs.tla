--------------------- MODULE PlayerbotRateEventsProofs ---------------------
(***************************************************************************)
(* For any rates, percents and figures of a GM, and any number of events,  *)
(* restarts and moves, in any order: the rate is raised once and comes     *)
(* back, and a GM's stays until an event begins.                           *)
(***************************************************************************)
EXTENDS PlayerbotRateEvents, SequenceTheorems, TLAPS

Flags == {"rate", "base"}
Msg == [flag : Flags, to : Nat]

LEMMA Boosted ==
  ASSUME NEW base \in Nat, NEW pct \in Nat PROVE Boost(base, pct) \in Nat
<1>1. base * (100 + pct) \in Nat  BY SMT
<1>2. \A n \in Nat : n \div 100 \in Nat  BY SMT
<1> QED  BY <1>1, <1>2 DEF Boost

LEMMA Sets == \A f \in Flags, n \in Nat : Set(f, n) \in Msg
  BY DEF Set, Msg

LEMMA Pairs == \A x, y \in Msg : <<x, y>> \in Seq(Msg) /\ Len(<<x, y>>) = 2
  OBVIOUS

LEMMA Joins ==
  ASSUME NEW a, NEW b
  PROVE  <<>> \o <<a>> = <<a>> /\ <<a>> \o <<b>> = <<a, b>>
<1>1. <<a>> \in Seq({a, b}) /\ <<b>> \in Seq({a, b}) /\ <<a, b>> \in Seq({a, b})
  OBVIOUS
<1>2. <<>> \o <<a>> = <<a>>  BY <1>1, ConcatEmptySeq
<1>3. <<a>> \o <<b>> = <<a, b>>
  <2> DEFINE s == <<a>> \o <<b>>
             t == <<a, b>>
  <2>1. /\ s \in Seq({a, b}) /\ Len(s) = 2 /\ s[1] = a /\ s[2] = b
    BY <1>1, ConcatProperties
  <2>2. t \in Seq({a, b}) /\ Len(t) = 2 /\ t[1] = a /\ t[2] = b
    BY <1>1
  <2>3. \A i \in 1..Len(s) : s[i] = t[i]  BY <2>1, <2>2
  <2> HIDE DEF s, t
  <2>4. s = t  BY <2>1, <2>2, <2>3, SeqEqual
  <2> QED  BY <2>4 DEF s, t
<1> QED  BY <1>2, <1>3

LEMMA MsgShape == \A m \in Msg : m.flag \in Flags /\ m.to \in Nat
  BY DEF Msg

LEMMA Begins ==
  ASSUME NEW pct \in Nat, cache \in [Flags -> Nat]
  PROVE  /\ cache["base"] > 0 =>
              BeginPlayerBotRateEvent(pct) = <<Set("rate", Boost(cache["base"], pct))>>
         /\ cache["base"] = 0 =>
              BeginPlayerBotRateEvent(pct) =
                <<Set("base", OrHundred(cache["rate"])),
                  Set("rate", Boost(OrHundred(cache["rate"]), pct))>>
<1>1. cache["base"] \in Nat  BY DEF Flags
<1>2. ASSUME cache["base"] > 0
      PROVE  BeginPlayerBotRateEvent(pct) = <<Set("rate", Boost(cache["base"], pct))>>
  <2>1. ~(cache["base"] <= 0)  BY <1>1, <1>2
  <2>2. BeginPlayerBotRateEvent(pct) = <<>> \o <<Set("rate", Boost(cache["base"], pct))>>
    BY <2>1, Zenon DEF BeginPlayerBotRateEvent
  <2> QED  BY <2>2, Joins, Zenon
<1>3. ASSUME cache["base"] = 0
      PROVE  BeginPlayerBotRateEvent(pct) =
               <<Set("base", OrHundred(cache["rate"])),
                 Set("rate", Boost(OrHundred(cache["rate"]), pct))>>
  <2>1. cache["base"] <= 0  BY <1>1, <1>3
  <2>2. BeginPlayerBotRateEvent(pct) =
          <<Set("base", OrHundred(cache["rate"]))>>
          \o <<Set("rate", Boost(OrHundred(cache["rate"]), pct))>>
    BY <2>1, Zenon DEF BeginPlayerBotRateEvent
  <2> QED  BY <2>2, Joins, Zenon
<1> QED  BY <1>2, <1>3

LEMMA EndsSend ==
  ASSUME NEW pct \in Nat, cache \in [Flags -> Nat], cache["base"] > 0
  PROVE  /\ cache["rate"] = Boost(cache["base"], pct) =>
              EndPlayerBotRateEvent(pct) = <<Set("rate", cache["base"]), Set("base", 0)>>
         /\ cache["rate"] # Boost(cache["base"], pct) =>
              EndPlayerBotRateEvent(pct) = <<Set("base", 0)>>
<1>1. ~(cache["base"] <= 0)  BY DEF Flags
<1>2. EndPlayerBotRateEvent(pct) =
        (IF cache["rate"] = Boost(cache["base"], pct)
         THEN <<Set("rate", cache["base"])>> ELSE <<>>) \o <<Set("base", 0)>>
  BY <1>1, Zenon DEF EndPlayerBotRateEvent
<1> QED  BY <1>2, Joins, Zenon

-----------------------------------------------------------------------------
(* Types.                                                                  *)

LEMMA BeginsTyped ==
  ASSUME NEW pct \in Nat, cache \in [Flags -> Nat]
  PROVE  /\ BeginPlayerBotRateEvent(pct) \in Seq(Msg)
         /\ Len(BeginPlayerBotRateEvent(pct)) <= 2
<1> DEFINE b1 == Set("rate", Boost(cache["base"], pct))
           b2 == Set("base", OrHundred(cache["rate"]))
           b3 == Set("rate", Boost(OrHundred(cache["rate"]), pct))
<1>1. cache["base"] \in Nat /\ OrHundred(cache["rate"]) \in Nat  BY DEF Flags, OrHundred
<1>2. /\ Boost(cache["base"], pct) \in Nat
      /\ Boost(OrHundred(cache["rate"]), pct) \in Nat
  BY <1>1, Boosted
<1>3. b1 \in Msg /\ b2 \in Msg /\ b3 \in Msg
  BY <1>1, <1>2, Sets DEF Flags
<1>4. /\ cache["base"] > 0 => BeginPlayerBotRateEvent(pct) = <<b1>>
      /\ cache["base"] = 0 => BeginPlayerBotRateEvent(pct) = <<b2, b3>>
  BY Begins
<1> HIDE DEF b1, b2, b3
<1>5. CASE cache["base"] > 0
  <2>1. BeginPlayerBotRateEvent(pct) = <<b1>>  BY <1>4, <1>5
  <2>2. <<b1>> \in Seq(Msg) /\ Len(<<b1>>) = 1  BY <1>3
  <2>3. BeginPlayerBotRateEvent(pct) \in Seq(Msg) /\ Len(BeginPlayerBotRateEvent(pct)) = 1
    BY <2>1, <2>2, Zenon
  <2> QED  BY <2>3
<1>6. CASE cache["base"] = 0
  <2>1. BeginPlayerBotRateEvent(pct) = <<b2, b3>>  BY <1>4, <1>6
  <2>2. <<b2, b3>> \in Seq(Msg) /\ Len(<<b2, b3>>) = 2  BY <1>3, Pairs
  <2>3. BeginPlayerBotRateEvent(pct) \in Seq(Msg) /\ Len(BeginPlayerBotRateEvent(pct)) = 2
    BY <2>1, <2>2, Zenon
  <2> QED  BY <2>3
<1>7. cache["base"] > 0 \/ cache["base"] = 0  BY <1>1
<1> QED  BY <1>5, <1>6, <1>7, Zenon

LEMMA EndsTyped ==
  ASSUME NEW pct \in Nat, cache \in [Flags -> Nat]
  PROVE  /\ EndPlayerBotRateEvent(pct) \in Seq(Msg)
         /\ Len(EndPlayerBotRateEvent(pct)) <= 2
<1> DEFINE e1 == Set("rate", cache["base"])
           e2 == Set("base", 0)
<1>1. cache["base"] \in Nat  BY DEF Flags
<1>2. e1 \in Msg /\ e2 \in Msg  BY <1>1, Sets DEF Flags
<1>3. CASE cache["base"] > 0
  <2>1. \/ EndPlayerBotRateEvent(pct) = <<e1, e2>>
        \/ EndPlayerBotRateEvent(pct) = <<e2>>
    BY <1>3, EndsSend
  <2> HIDE DEF e1, e2
  <2>2. <<e1, e2>> \in Seq(Msg) /\ Len(<<e1, e2>>) = 2  BY <1>2, Pairs
  <2>3. <<e2>> \in Seq(Msg) /\ Len(<<e2>>) = 1  BY <1>2
  <2>4. CASE EndPlayerBotRateEvent(pct) = <<e1, e2>>
    <3>1. EndPlayerBotRateEvent(pct) \in Seq(Msg) /\ Len(EndPlayerBotRateEvent(pct)) = 2
      BY <2>2, <2>4, Zenon
    <3> QED  BY <3>1
  <2>5. CASE EndPlayerBotRateEvent(pct) = <<e2>>
    <3>1. EndPlayerBotRateEvent(pct) \in Seq(Msg) /\ Len(EndPlayerBotRateEvent(pct)) = 1
      BY <2>3, <2>5, Zenon
    <3> QED  BY <3>1
  <2> QED  BY <2>1, <2>4, <2>5, Zenon
<1>4. CASE cache["base"] <= 0
  <2>1. EndPlayerBotRateEvent(pct) = <<>>  BY <1>4, Zenon DEF EndPlayerBotRateEvent
  <2>2. <<>> \in Seq(Msg) /\ Len(<<>>) = 0  OBVIOUS
  <2>3. EndPlayerBotRateEvent(pct) \in Seq(Msg) /\ Len(EndPlayerBotRateEvent(pct)) = 0
    BY <2>1, <2>2, Zenon
  <2> QED  BY <2>3
<1>5. cache["base"] > 0 \/ cache["base"] <= 0  BY <1>1
<1> QED  BY <1>3, <1>4, <1>5, Zenon

\* What a prefix of the leader's messages leaves stored.
Prefix(n) ==
  [f \in Flags |->
     LET stored == {i \in 1..n : up[i].flag = f}
         last == CHOOSE i \in stored : \A j \in stored : j <= i
     IN  IF stored = {} THEN db[f] ELSE up[last].to]

\* Of messages about different flags each leaves its own.
LEMMA Delivered ==
  ASSUME NEW n \in Nat, NEW f \in Flags,
         \A i, j \in 1..n : up[i].flag = up[j].flag => i = j
  PROVE  /\ \A i \in 1..n : up[i].flag = f => Prefix(n)[f] = up[i].to
         /\ (\A i \in 1..n : up[i].flag # f) => Prefix(n)[f] = db[f]
<1> DEFINE stored == {i \in 1..n : up[i].flag = f}
           last == CHOOSE i \in stored : \A j \in stored : j <= i
<1>1. Prefix(n)[f] = IF stored = {} THEN db[f] ELSE up[last].to  BY DEF Prefix
<1>2. ASSUME NEW i \in 1..n, up[i].flag = f PROVE Prefix(n)[f] = up[i].to
  <2>1. stored = {i}  BY <1>2
  <2>2. last = i  BY <2>1
  <2> QED  BY <1>1, <2>1, <2>2
<1>3. ASSUME \A i \in 1..n : up[i].flag # f PROVE Prefix(n)[f] = db[f]
  <2>1. stored = {}  BY <1>3
  <2> QED  BY <1>1, <2>1
<1> QED  BY <1>2, <1>3

LEMMA PrefixTyped ==
  ASSUME up \in Seq(Msg), Len(up) <= 4, db \in [Flags -> Nat], NEW n \in 0..Len(up)
  PROVE  Prefix(n) \in [Flags -> Nat]
<1> SUFFICES ASSUME NEW f \in Flags PROVE Prefix(n)[f] \in Nat
  BY DEF Prefix
<1> DEFINE stored == {i \in 1..n : up[i].flag = f}
           last == CHOOSE i \in stored : \A j \in stored : j <= i
<1>1. Prefix(n)[f] = IF stored = {} THEN db[f] ELSE up[last].to  BY DEF Prefix
<1>2. CASE stored = {}  BY <1>1, <1>2
<1>3. CASE stored # {}
  <2>1. \A i \in stored : i \in {1, 2, 3, 4}  OBVIOUS
  <2>2. \E i \in stored : \A j \in stored : j <= i
    <3> HIDE DEF stored
    <3>1. CASE 4 \in stored  BY <2>1, <3>1
    <3>2. CASE 4 \notin stored /\ 3 \in stored  BY <2>1, <3>2
    <3>3. CASE 4 \notin stored /\ 3 \notin stored /\ 2 \in stored  BY <2>1, <3>3
    <3>4. CASE 4 \notin stored /\ 3 \notin stored /\ 2 \notin stored
      BY <1>3, <2>1, <3>4
    <3> QED  BY <3>1, <3>2, <3>3, <3>4
  <2>3. last \in stored  BY <2>2
  <2>4. last \in 1..Len(up)  BY <2>3
  <2>5. up[last] \in Msg  BY <2>4
  <2> QED  BY <1>1, <1>3, <2>5, MsgShape
<1> QED  BY <1>2, <1>3

\* A check sends four messages at most: an end and a begin.
Typed == TypeOK /\ Len(up) <= 4

LEMMA Types ==
  TypeOK <=>
    /\ open \in BOOLEAN /\ active \in BOOLEAN
    /\ env \in Envs /\ moved \in BOOLEAN /\ missed \in BOOLEAN
    /\ percent \in Nat /\ value \in Nat /\ norm \in Nat /\ moves \in Nat
    /\ db \in [Flags -> Nat] /\ cache \in [Flags -> Nat]
    /\ up \in Seq(Msg) /\ down \in Seq(Msg)
  BY DEF TypeOK, Flags, Msg

LEMMA InitTyped == Init => Typed
<1> SUFFICES ASSUME Init PROVE Typed
  OBVIOUS
<1>1. PICK r \in Rates : db = [f \in Flags |-> IF f = "rate" THEN r ELSE 0]
  BY DEF Init, Flags
<1>2. r \in Nat  BY RatesAssumption
<1>3. db \in [Flags -> Nat] /\ OrHundred(db["rate"]) \in Nat
  BY <1>1, <1>2 DEF Flags, OrHundred
<1>4. cache \in [Flags -> Nat] /\ norm \in Nat /\ env \in Envs  BY <1>3 DEF Init
<1>5. open \in BOOLEAN /\ active \in BOOLEAN /\ moved \in BOOLEAN /\ missed \in BOOLEAN
  BY DEF Init
<1>6. up \in Seq(Msg) /\ down \in Seq(Msg) /\ Len(up) = 0  BY DEF Init
<1>7. percent \in Nat /\ value \in Nat /\ moves \in Nat  BY DEF Init
<1>8. TypeOK  BY <1>3, <1>4, <1>5, <1>6, <1>7, Types, Zenon
<1> QED  BY <1>6, <1>8 DEF Typed

LEMMA NextTyped == Typed /\ [Next]_vars => Typed'
<1> SUFFICES ASSUME Typed, [Next]_vars PROVE Typed'
  OBVIOUS
<1>t. /\ open \in BOOLEAN /\ active \in BOOLEAN
      /\ env \in Envs /\ moved \in BOOLEAN /\ missed \in BOOLEAN
      /\ percent \in Nat /\ value \in Nat /\ norm \in Nat /\ moves \in Nat
      /\ db \in [Flags -> Nat] /\ cache \in [Flags -> Nat]
      /\ up \in Seq(Msg) /\ down \in Seq(Msg) /\ Len(up) <= 4
  BY Types DEF Typed
<1>g. SUFFICES
        /\ open' \in BOOLEAN /\ active' \in BOOLEAN
        /\ env' \in Envs /\ moved' \in BOOLEAN /\ missed' \in BOOLEAN
        /\ percent' \in Nat /\ value' \in Nat /\ norm' \in Nat /\ moves' \in Nat
        /\ db' \in [Flags -> Nat] /\ cache' \in [Flags -> Nat]
        /\ up' \in Seq(Msg) /\ down' \in Seq(Msg) /\ Len(up') <= 4
  BY DEF Typed, TypeOK, Flags, Msg
<1>1. CASE Check
  <2>1. /\ BeginPlayerBotRateEvent(percent) \in Seq(Msg)
        /\ Len(BeginPlayerBotRateEvent(percent)) <= 2
        /\ EndPlayerBotRateEvent(value) \in Seq(Msg)
        /\ Len(EndPlayerBotRateEvent(value)) <= 2
    BY <1>t, BeginsTyped, EndsTyped
  <2>0. norm' \in Nat /\ moved' \in BOOLEAN
    <3>1. CASE Overrules
      <4>1. cache["base"] \in Nat  BY <1>t DEF Flags
      <4> QED  BY <1>t, <3>1, <4>1 DEF Overrules
    <3>2. CASE UNCHANGED <<norm, moved>>  BY <1>t, <3>2
    <3> QED  BY <1>1, <3>1, <3>2, Zenon DEF Check
  <2>2. /\ \A s, t \in Seq(Msg) : s \o t \in Seq(Msg) /\ Len(s \o t) = Len(s) + Len(t)
        /\ \A s \in Seq(Msg) : Len(s) \in Nat
    OBVIOUS
  <2>3. up = <<>> /\ Len(up) = 0  BY <1>1 DEF Check, Quiet
  <2>4. CASE up' = up \o BeginPlayerBotRateEvent(percent)
    <3>1. up' \in Seq(Msg) /\ Len(up') <= 4
      BY <1>t, <2>1, <2>2, <2>3, <2>4
    <3>2. active' \in BOOLEAN /\ missed' \in BOOLEAN
      BY <1>1, <1>t, Zenon DEF Check
    <3> QED  BY <1>1, <1>t, <2>0, <3>1, <3>2 DEF Check
  <2>5. CASE up' = up \o EndPlayerBotRateEvent(value)
    <3>1. up' \in Seq(Msg) /\ Len(up') <= 4
      BY <1>t, <2>1, <2>2, <2>3, <2>5
    <3>2. active' \in BOOLEAN /\ missed' \in BOOLEAN
      BY <1>1, <1>t, Zenon DEF Check
    <3> QED  BY <1>1, <1>t, <2>0, <3>1, <3>2 DEF Check
  <2>6. CASE up' = up \o EndPlayerBotRateEvent(value) \o BeginPlayerBotRateEvent(percent)
    <3>1. /\ up \o EndPlayerBotRateEvent(value) \in Seq(Msg)
          /\ Len(up \o EndPlayerBotRateEvent(value)) <= 2
      BY <1>t, <2>1, <2>2, <2>3
    <3>2. up' \in Seq(Msg) /\ Len(up') <= 4
      BY <2>1, <2>2, <2>6, <3>1
    <3>3. active' \in BOOLEAN /\ missed' \in BOOLEAN
      BY <1>1, <1>t, Zenon DEF Check
    <3> QED  BY <1>1, <1>t, <2>0, <3>2, <3>3 DEF Check
  <2> QED  BY <1>1, <2>4, <2>5, <2>6, Zenon DEF Check
<1>2. CASE SetEventFlag
  <2>1. up # <<>> /\ up' = Tail(up)  BY <1>2 DEF SetEventFlag
  <2>2. Head(up) \in Msg /\ up' \in Seq(Msg) /\ Len(up') <= 4  BY <1>t, <2>1
  <2>3. Head(up).flag \in Flags /\ Head(up).to \in Nat  BY <2>2, MsgShape
  <2>4. db' \in [Flags -> Nat]  BY <1>2, <1>t, <2>3 DEF SetEventFlag
  <2>5. down' \in Seq(Msg)  BY <1>2, <1>t, <2>2 DEF SetEventFlag
  <2> QED  BY <1>2, <1>t, <2>2, <2>4, <2>5 DEF SetEventFlag
<1>3. CASE Forwarded
  <2>1. down # <<>> /\ down' = Tail(down)  BY <1>3 DEF Forwarded
  <2>2. Head(down) \in Msg /\ down' \in Seq(Msg)  BY <1>t, <2>1
  <2>3. Head(down).flag \in Flags /\ Head(down).to \in Nat  BY <2>2, MsgShape
  <2>4. cache' \in [Flags -> Nat]  BY <1>3, <1>t, <2>3 DEF Forwarded
  <2> QED  BY <1>3, <1>t, <2>2, <2>4 DEF Forwarded
<1>4. CASE \E pct \in Percents : Opens(pct) \/ Changes(pct)
  BY <1>4, <1>t, RatesAssumption DEF Opens, Changes
<1>5. CASE Closes
  <2>1. open' \in BOOLEAN /\ missed' \in BOOLEAN  BY <1>5, <1>t, Zenon DEF Closes
  <2> QED  BY <1>5, <1>t, <2>1 DEF Closes
<1>6. CASE Crash
  <2>1. PICK n \in 0..Len(up) : db' = Prefix(n)
    BY <1>6, Zenon DEF Crash, Prefix, Flags
  <2>2. db' \in [Flags -> Nat]  BY <1>t, <2>1, PrefixTyped
  <2>5. cache' \in [Flags -> Nat]  BY <1>6, <2>2 DEF Crash
  <2>3. missed' \in BOOLEAN /\ active' \in BOOLEAN  BY <1>6, <1>t, Zenon DEF Crash
  <2>4. up' \in Seq(Msg) /\ Len(up') <= 4 /\ down' \in Seq(Msg)  BY <1>6 DEF Crash
  <2> QED  BY <1>6, <1>t, <2>2, <2>3, <2>4, <2>5 DEF Crash
<1>7. CASE \E r \in Moves : OperatorMoves(r)
  <2>1. PICK r \in Moves : OperatorMoves(r)  BY <1>7
  <2>2. r \in Nat /\ Set("rate", r) \in Msg  BY RatesAssumption, Sets DEF Flags
  <2>3. moved' \in BOOLEAN  BY <2>1, <1>t, Zenon DEF OperatorMoves
  <2>6. norm' \in Nat
    <3>1. db["base"] \in Nat /\ OrHundred(r) \in Nat  BY <1>t, <2>2 DEF Flags, OrHundred
    <3> QED  BY <2>1, <3>1 DEF OperatorMoves
  <2>4. down' \in Seq(Msg)  BY <1>t, <2>1, <2>2 DEF OperatorMoves
  <2>5. db' \in [Flags -> Nat]  BY <1>t, <2>1, <2>2 DEF OperatorMoves
  <2> QED  BY <1>t, <2>1, <2>2, <2>3, <2>4, <2>5, <2>6 DEF OperatorMoves
<1>8. CASE UNCHANGED vars  BY <1>8, <1>t DEF vars
<1> QED  BY <1>1, <1>2, <1>3, <1>4, <1>5, <1>6, <1>7, <1>8 DEF Next

(* Every variable keeps its type, whatever percents, rates and restarts come. *)
THEOREM TypeCorrect == Spec => []TypeOK
<1>1. Typed => TypeOK  BY DEF Typed
<1> QED  BY <1>1, InitTyped, NextTyped, PTL DEF Spec

-----------------------------------------------------------------------------
(* Where an event stands.                                                  *)

\* The rates somebody asked for.
Asked == {OrHundred(r) : r \in Rates \cup Moves}

\* The leader reads what is stored once the messages have come round.
Mirror ==
  \A f \in Flags :
    \/ cache[f] = db[f] /\ \A i \in 1..Len(down) : down[i].flag # f
    \/ \E i \in 1..Len(down) :
         /\ down[i].flag = f /\ down[i].to = db[f]
         /\ \A j \in 1..Len(down) : j > i => down[j].flag # f

\* A rate a GM has moved stands: no request is on its way to change it, and the end
\* of the event will not take it for the event's own.
Left ==
  moved =>
    /\ OrHundred(db["rate"]) = norm
    /\ up = <<>> \/ (~active /\ up = <<Set("base", 0)>>)
    /\ active /\ db["base"] > 0 => db["rate"] # Boost(db["base"], value)

\* The phases of an event in worlds whose figures do not change inside one.
\* The base kept is the rate asked for, unless a GM has asked for another since.
Based == db["base"] \in Asked /\ (moved \/ db["base"] = norm)

\* An event begins: its base is on the way, then its rate, then all is stored.
Beginning ==
  /\ active /\ ~moved /\ db["base"] = 0 /\ OrHundred(db["rate"]) = norm
  /\ up = <<Set("base", norm), Set("rate", Boost(norm, value))>>
Raising ==
  active /\ ~moved /\ db["base"] = norm /\ up = <<Set("rate", Boost(norm, value))>>
Raised ==
  active /\ ~moved /\ db["base"] = norm /\ db["rate"] = Boost(norm, value) /\ up = <<>>
\* A GM has moved the rate in it.
Overruled == active /\ moved /\ db["base"] \in Asked /\ up = <<>>
\* An event ends: the rate is on its way back, then only the base.
Ending ==
  ~active /\ ~moved /\ db["base"] = norm /\ up = <<Set("rate", norm), Set("base", 0)>>
Forgetting ==
  ~active /\ Based /\ OrHundred(db["rate"]) = norm /\ up = <<Set("base", 0)>>
Clean == ~active /\ db["base"] = 0 /\ OrHundred(db["rate"]) = norm /\ up = <<>>
\* The leader died: only the base tells that there is an event, or was.
Remembered == ~active /\ Based /\ up = <<>> /\ (open \/ missed)

Phase ==
  \/ Beginning \/ Raising \/ Raised \/ Overruled
  \/ Ending \/ Forgetting \/ Clean \/ Remembered

Figures ==
  /\ norm \in Asked
  /\ open => percent \in Percents
  /\ active => value = percent /\ value \in Percents

Good == Figures /\ Phase

Inv == Typed /\ Mirror /\ Left /\ ("rebase" \notin env => Good)

-----------------------------------------------------------------------------
(* What the parts of the invariant say of a step.                          *)

LEMMA AskedIsPositive == \A n \in Asked : n \in Nat /\ n > 0 /\ OrHundred(n) = n
<1> SUFFICES ASSUME NEW n \in Asked PROVE n \in Nat /\ n > 0 /\ OrHundred(n) = n
  OBVIOUS
<1>1. PICK r \in Rates \cup Moves : n = OrHundred(r)  BY DEF Asked
<1>2. r \in Nat  BY RatesAssumption
<1> QED  BY <1>1, <1>2 DEF OrHundred

LEMMA SetParts ==
  ASSUME NEW f, NEW n PROVE Set(f, n).flag = f /\ Set(f, n).to = n
  BY DEF Set

LEMMA Ones ==
  ASSUME NEW x
  PROVE  <<x>> # <<>> /\ Head(<<x>>) = x /\ Tail(<<x>>) = <<>>
<1>1. <<x>> \in Seq({x}) /\ Len(<<x>>) = 1  OBVIOUS
<1>2. Tail(<<x>>) \in Seq({x}) /\ Len(Tail(<<x>>)) = 0  BY <1>1, HeadTailProperties
<1> QED  BY <1>1, <1>2, EmptySeq

LEMMA Twos ==
  ASSUME NEW x, NEW y
  PROVE  <<x, y>> # <<>> /\ Head(<<x, y>>) = x /\ Tail(<<x, y>>) = <<y>>
<1>1. <<x, y>> \in Seq({x, y}) /\ Len(<<x, y>>) = 2 /\ <<x, y>> # <<>>  OBVIOUS
<1>2. /\ Tail(<<x, y>>) \in Seq({x, y}) /\ Len(Tail(<<x, y>>)) = 1
      /\ Tail(<<x, y>>)[1] = y
  BY <1>1, HeadTailProperties
<1>3. <<y>> \in Seq({x, y}) /\ Len(<<y>>) = 1 /\ <<y>>[1] = y  OBVIOUS
<1> DEFINE t == Tail(<<x, y>>)
<1>4. t = <<y>>
  <2>1. \A i \in 1..Len(t) : t[i] = <<y>>[i]  BY <1>2, <1>3
  <2> HIDE DEF t
  <2> QED  BY <1>2, <1>3, <2>1, SeqEqual DEF t
<1> QED  BY <1>1, <1>4

\* Nothing in flight: the leader sees what is stored.
LEMMA MirrorRead == Typed /\ Mirror /\ down = <<>> => cache = db
<1> SUFFICES ASSUME Typed, Mirror, down = <<>> PROVE cache = db
  OBVIOUS
<1>1. cache \in [Flags -> Nat] /\ db \in [Flags -> Nat]  BY Types DEF Typed
<1>2. Len(down) = 0  OBVIOUS
<1>3. \A f \in Flags : cache[f] = db[f]  BY <1>2 DEF Mirror
<1> QED  BY <1>1, <1>3

LEMMA MirrorStored ==
  ASSUME Typed, Mirror, NEW m \in Msg,
         down' = Append(down, m), cache' = cache,
         db' = [db EXCEPT ![m.flag] = m.to]
  PROVE  Mirror'
<1> SUFFICES ASSUME NEW f \in Flags
    PROVE \/ cache'[f] = db'[f] /\ \A i \in 1..Len(down') : down'[i].flag # f
          \/ \E i \in 1..Len(down') :
               /\ down'[i].flag = f /\ down'[i].to = db'[f]
               /\ \A j \in 1..Len(down') : j > i => down'[j].flag # f
  BY DEF Mirror
<1>1. down \in Seq(Msg) /\ db \in [Flags -> Nat]  BY Types DEF Typed
<1>2. /\ Len(down') = Len(down) + 1 /\ Len(down) \in Nat
      /\ \A i \in 1..Len(down) : down'[i] = down[i]
      /\ down'[Len(down) + 1] = m
  BY <1>1
<1>3. CASE m.flag = f
  <2>1. db'[f] = m.to  BY <1>1, <1>3
  <2>2. \A j \in 1..Len(down') : ~(j > Len(down) + 1)  BY <1>2
  <2>3. Len(down) + 1 \in 1..Len(down')  BY <1>2
  <2> QED  BY <1>2, <1>3, <2>1, <2>2, <2>3
<1>4. CASE m.flag # f
  <2>1. db'[f] = db[f]  BY <1>1, <1>4
  <2>2. CASE cache[f] = db[f] /\ \A i \in 1..Len(down) : down[i].flag # f
    <3>1. \A i \in 1..Len(down') : i \in 1..Len(down) \/ i = Len(down) + 1  BY <1>2
    <3> QED  BY <1>2, <1>4, <2>1, <2>2, <3>1
  <2>3. CASE \E i \in 1..Len(down) :
               /\ down[i].flag = f /\ down[i].to = db[f]
               /\ \A j \in 1..Len(down) : j > i => down[j].flag # f
    <3>1. PICK i \in 1..Len(down) :
               /\ down[i].flag = f /\ down[i].to = db[f]
               /\ \A j \in 1..Len(down) : j > i => down[j].flag # f
      BY <2>3
    <3>2. \A j \in 1..Len(down') : j \in 1..Len(down) \/ j = Len(down) + 1  BY <1>2
    <3>3. i \in 1..Len(down') /\ down'[i].flag = f /\ down'[i].to = db'[f]
      BY <1>2, <2>1, <3>1
    <3>4. \A j \in 1..Len(down') : j > i => down'[j].flag # f
      BY <1>2, <1>4, <3>1, <3>2
    <3> QED  BY <3>3, <3>4
  <2> QED  BY <2>2, <2>3 DEF Mirror
<1> QED  BY <1>3, <1>4

LEMMA MirrorForwarded ==
  ASSUME Typed, Mirror, Forwarded
  PROVE  Mirror'
<1> SUFFICES ASSUME NEW f \in Flags
    PROVE \/ cache'[f] = db'[f] /\ \A i \in 1..Len(down') : down'[i].flag # f
          \/ \E i \in 1..Len(down') :
               /\ down'[i].flag = f /\ down'[i].to = db'[f]
               /\ \A j \in 1..Len(down') : j > i => down'[j].flag # f
  BY DEF Mirror
<1>1. down \in Seq(Msg) /\ cache \in [Flags -> Nat] /\ down # <<>>
  BY Types DEF Typed, Forwarded
<1>2. /\ Len(down) \in Nat /\ Len(down) > 0
      /\ Len(down') = Len(down) - 1
      /\ \A i \in 1..Len(down') : down'[i] = down[i + 1]
      /\ down[1] \in Msg /\ Head(down) = down[1]
  BY <1>1, HeadTailProperties DEF Forwarded
<1>3. down[1].flag \in Flags  BY <1>2, MsgShape
<1>4. db' = db /\ cache' = [cache EXCEPT ![down[1].flag] = down[1].to]
  BY <1>2 DEF Forwarded
<1>5. CASE cache[f] = db[f] /\ \A i \in 1..Len(down) : down[i].flag # f
  <2>1. cache'[f] = db'[f]  BY <1>1, <1>2, <1>4, <1>5
  <2>2. \A i \in 1..Len(down') : i + 1 \in 1..Len(down)  BY <1>2
  <2> QED  BY <1>2, <1>5, <2>1, <2>2
<1>6. CASE \E i \in 1..Len(down) :
             /\ down[i].flag = f /\ down[i].to = db[f]
             /\ \A j \in 1..Len(down) : j > i => down[j].flag # f
  <2>1. PICK i \in 1..Len(down) :
             /\ down[i].flag = f /\ down[i].to = db[f]
             /\ \A j \in 1..Len(down) : j > i => down[j].flag # f
    BY <1>6
  <2>2. CASE i = 1
    <3>1. cache'[f] = db'[f]  BY <1>1, <1>3, <1>4, <2>1, <2>2
    <3>2. \A j \in 1..Len(down') : j + 1 \in 1..Len(down) /\ j + 1 > i  BY <1>2, <2>2
    <3> QED  BY <1>2, <2>1, <3>1, <3>2
  <2>3. CASE i # 1
    <3>1. i - 1 \in 1..Len(down') /\ down'[i - 1] = down[i]
      <4>1. i - 1 \in 1..Len(down')  BY <1>2, <2>3
      <4>2. down'[i - 1] = down[(i - 1) + 1]  BY <1>2, <4>1
      <4> QED  BY <4>1, <4>2
    <3>2. \A j \in 1..Len(down') : j > i - 1 => j + 1 \in 1..Len(down) /\ j + 1 > i
      BY <1>2
    <3>3. \A j \in 1..Len(down') : j > i - 1 => down'[j].flag # f
      BY <1>2, <2>1, <3>2
    <3>4. down'[i - 1].flag = f /\ down'[i - 1].to = db'[f]
      BY <1>4, <2>1, <3>1
    <3> QED  BY <3>1, <3>3, <3>4
  <2> QED  BY <2>2, <2>3
<1> QED  BY <1>5, <1>6 DEF Mirror

-----------------------------------------------------------------------------
(* No step makes the leader's flags anything but a copy on its way.         *)

LEMMA NextKeepsMirror ==
  ASSUME Typed, Mirror, [Next]_vars
  PROVE  Mirror'
<1>1. CASE SetEventFlag
  <2>1. up \in Seq(Msg) /\ up # <<>>  BY <1>1, Types DEF Typed, SetEventFlag
  <2>2. Head(up) \in Msg  BY <2>1
  <2> QED  BY <1>1, <2>2, MirrorStored DEF SetEventFlag
<1>2. CASE Forwarded  BY <1>2, MirrorForwarded
<1>3. CASE Crash
  <2>1. cache' = db' /\ down' = <<>>  BY <1>3 DEF Crash
  <2>2. Len(down') = 0  BY <2>1
  <2> QED  BY <2>1, <2>2 DEF Mirror
<1>4. CASE \E r \in Moves : OperatorMoves(r)
  <2>1. PICK r \in Moves : OperatorMoves(r)  BY <1>4
  <2>2. Set("rate", r) \in Msg  BY RatesAssumption, Sets DEF Flags
  <2>3. /\ db' = [db EXCEPT !["rate"] = r] /\ down' = Append(down, Set("rate", r))
        /\ cache' = cache
    BY <2>1 DEF OperatorMoves
  <2> QED  BY <2>2, <2>3, SetParts, MirrorStored
<1>5. CASE UNCHANGED <<db, cache, down>>  BY <1>5 DEF Mirror
<1>6. CASE \/ Check \/ \E pct \in Percents : Opens(pct) \/ Changes(pct)
           \/ Closes \/ UNCHANGED vars
  BY <1>5, <1>6 DEF Check, Opens, Changes, Closes, vars
<1> QED  BY <1>1, <1>2, <1>3, <1>4, <1>6 DEF Next

\* A world stays what it is.
LEMMA EnvStays == [Next]_vars => env' = env
  BY DEF Next, vars, Check, SetEventFlag, Forwarded, Opens, Changes, Closes, Crash, OperatorMoves

-----------------------------------------------------------------------------
(* A GM's rate stays.                                                      *)

LEMMA NextKeepsLeft ==
  ASSUME Typed, Mirror, Left, [Next]_vars
  PROVE  Left'
<1> SUFFICES ASSUME moved' PROVE
      /\ OrHundred(db'["rate"]) = norm'
      /\ up' = <<>> \/ (~active' /\ up' = <<Set("base", 0)>>)
      /\ active' /\ db'["base"] > 0 => db'["rate"] # Boost(db'["base"], value')
  BY DEF Left
<1>t. /\ db \in [Flags -> Nat] /\ cache \in [Flags -> Nat] /\ up \in Seq(Msg)
      /\ value \in Nat /\ db["base"] \in Nat
  BY Types DEF Typed, Flags
<1>f. "rate" \in Flags /\ "base" \in Flags /\ "rate" # "base"  BY DEF Flags
<1>1. CASE Check
  <2>1. /\ up = <<>> /\ down = <<>> /\ ~Overrules
        /\ UNCHANGED <<db, norm, moved>> /\ active /\ active' = FALSE
        /\ up' = up \o EndPlayerBotRateEvent(value)
    BY <1>1 DEF Check, Quiet, Overrules
  <2>2. cache = db  BY <2>1, MirrorRead
  <2>3. up' = EndPlayerBotRateEvent(value)
    BY <1>t, <2>1, EndsTyped, ConcatEmptySeq
  <2>4. OrHundred(db["rate"]) = norm /\ (db["base"] > 0 => db["rate"] # Boost(db["base"], value))
    BY <2>1 DEF Left
  <2>5. CASE db["base"] > 0
    <3>1. up' = <<Set("base", 0)>>  BY <1>t, <2>2, <2>3, <2>4, <2>5, EndsSend
    <3> QED  BY <2>1, <2>4, <3>1
  <2>6. CASE db["base"] <= 0
    <3>1. up' = <<>>  BY <2>2, <2>3, <2>6, Zenon DEF EndPlayerBotRateEvent
    <3> QED  BY <2>1, <2>4, <3>1
  <2> QED  BY <1>t, <2>5, <2>6
<1>2. CASE SetEventFlag
  <2>1. /\ up # <<>> /\ up' = Tail(up) /\ db' = [db EXCEPT ![Head(up).flag] = Head(up).to]
        /\ UNCHANGED <<active, norm, moved>>
    BY <1>2 DEF SetEventFlag
  <2>2. ~active /\ up = <<Set("base", 0)>> /\ OrHundred(db["rate"]) = norm
    BY <2>1 DEF Left
  <2>3. Head(up) = Set("base", 0) /\ up' = <<>>  BY <2>1, <2>2, Ones
  <2>4. db'["rate"] = db["rate"]  BY <1>t, <1>f, <2>1, <2>3, SetParts
  <2> QED  BY <2>1, <2>2, <2>3, <2>4
<1>3. CASE UNCHANGED <<active, value, db, up, norm, moved>>
  BY <1>3 DEF Left
<1>4. CASE Crash
  <2>1. up' = <<>> /\ active' = FALSE /\ UNCHANGED <<norm, moved>>  BY <1>4 DEF Crash
  <2>2. PICK n \in 0..Len(up) : db' = Prefix(n)
    BY <1>4, Zenon DEF Crash, Prefix, Flags
  <2>3. OrHundred(db["rate"]) = norm /\ (up = <<>> \/ up = <<Set("base", 0)>>)
    BY <2>1 DEF Left
  <2>4. Len(up) \in {0, 1} /\ \A i \in 1..Len(up) : i = 1 /\ up[i].flag = "base"
    <3>1. CASE up = <<>>  BY <3>1
    <3>2. CASE up = <<Set("base", 0)>>
      <4> DEFINE x == Set("base", 0)
      <4>1. x.flag = "base"  BY SetParts
      <4>2. up = <<x>>  BY <3>2
      <4> HIDE DEF x
      <4> QED  BY <4>1, <4>2
    <3> QED  BY <2>3, <3>1, <3>2
  <2>5. n \in Nat /\ \A i \in 1..n : i \in 1..Len(up)  BY <2>4
  <2>6. /\ \A i, j \in 1..n : up[i].flag = up[j].flag => i = j
        /\ \A i \in 1..n : up[i].flag # "rate"
    BY <1>f, <2>4, <2>5
  <2>7. Prefix(n)["rate"] = db["rate"]  BY <1>f, <2>5, <2>6, Delivered
  <2> QED  BY <2>1, <2>2, <2>3, <2>7
<1>5. CASE \E r \in Moves : OperatorMoves(r)
  <2>1. PICK r \in Moves : OperatorMoves(r)  BY <1>5
  <2>2. /\ up = <<>> /\ db' = [db EXCEPT !["rate"] = r] /\ ~EventsOwn(r)
        /\ norm' = OrHundred(r) /\ UNCHANGED <<active, value, up>>
    BY <2>1 DEF OperatorMoves, Quiet
  <2>3. db'["rate"] = r /\ db'["base"] = db["base"]  BY <1>t, <1>f, <2>2
  <2> QED  BY <2>2, <2>3 DEF EventsOwn
<1>6. CASE \/ Forwarded \/ \E pct \in Percents : Opens(pct) \/ Changes(pct)
           \/ Closes \/ UNCHANGED vars
  BY <1>3, <1>6 DEF Forwarded, Opens, Changes, Closes, vars
<1> QED  BY <1>1, <1>2, <1>4, <1>5, <1>6 DEF Next

-----------------------------------------------------------------------------
(* No step leaves the phases.                                              *)

LEMMA CheckKeepsGood ==
  ASSUME Typed, Mirror, Left, Good, Check
  PROVE  Good'
<1>1. up = <<>> /\ down = <<>>  BY DEF Check, Quiet
<1>2. cache = db /\ db \in [Flags -> Nat] /\ cache \in [Flags -> Nat]
  BY <1>1, MirrorRead, Types DEF Typed
<1>3. percent \in Nat /\ value \in Nat /\ norm \in Nat /\ norm > 0
  BY Types, AskedIsPositive DEF Typed, Good, Figures
<1>5. Clean \/ Remembered \/ Raised \/ Overruled
  <2>1. \A x, y : <<x>> # <<>> /\ <<x, y>> # <<>>  BY Ones, Twos
  <2> QED  BY <1>1, <2>1 DEF Good, Phase, Beginning, Raising, Ending, Forgetting
<1>6. UNCHANGED <<open, percent, db, env>>  BY DEF Check
<1>7. CASE /\ open /\ ~active /\ up' = up \o BeginPlayerBotRateEvent(percent)
           /\ active' = TRUE /\ value' = percent /\ Overrules
  <2>1. up' = BeginPlayerBotRateEvent(percent)
    BY <1>1, <1>2, <1>3, <1>7, BeginsTyped, ConcatEmptySeq
  <2>2. moved' = FALSE /\ norm' = IF moved /\ db["base"] > 0 THEN db["base"] ELSE norm
    BY <1>2, <1>7 DEF Overrules
  <2>4. CASE Clean
    <3>1. up' = <<Set("base", norm), Set("rate", Boost(norm, percent))>>
      BY <1>2, <1>3, <2>1, <2>4, Begins DEF Clean
    <3>2. norm' = norm  BY <2>2, <2>4 DEF Clean
    <3>3. Figures'  BY <1>6, <1>7, <3>2 DEF Good, Figures
    <3> QED  BY <1>6, <1>7, <2>2, <2>4, <3>1, <3>2, <3>3 DEF Good, Phase, Beginning, Clean
  <2>5. CASE Remembered
    <3>1. db["base"] \in Asked /\ db["base"] > 0
      BY <2>5, AskedIsPositive DEF Remembered, Based
    <3>2. norm' = db["base"]  BY <2>2, <2>5, <3>1 DEF Remembered, Based
    <3>3. up' = <<Set("rate", Boost(norm', percent))>>
      BY <1>2, <1>3, <2>1, <3>1, <3>2, Begins
    <3>4. Figures'  BY <1>6, <1>7, <3>1, <3>2 DEF Good, Figures
    <3> QED  BY <1>6, <1>7, <2>2, <3>2, <3>3, <3>4 DEF Good, Phase, Raising
  <2> QED  BY <1>5, <1>7, <2>4, <2>5 DEF Raised, Overruled
<1>8. CASE /\ ~open /\ active /\ up' = up \o EndPlayerBotRateEvent(value) /\ active' = FALSE
           /\ UNCHANGED <<norm, moved>>
  <2>1. up' = EndPlayerBotRateEvent(value)
    BY <1>1, <1>2, <1>3, <1>8, EndsTyped, ConcatEmptySeq
  <2>2. Figures'  BY <1>6, <1>8 DEF Good, Figures
  <2>3. CASE Raised
    <3>1. up' = <<Set("rate", norm), Set("base", 0)>>
      BY <1>2, <1>3, <2>1, <2>3, EndsSend DEF Raised
    <3> QED  BY <1>6, <1>8, <2>2, <2>3, <3>1 DEF Good, Phase, Ending, Raised
  <2>4. CASE Overruled
    <3>1. db["base"] \in Asked /\ db["base"] > 0 /\ moved
      BY <2>4, AskedIsPositive DEF Overruled
    <3>2. db["rate"] # Boost(db["base"], value) /\ OrHundred(db["rate"]) = norm
      BY <1>8, <3>1 DEF Left
    <3>3. up' = <<Set("base", 0)>>
      BY <1>2, <1>3, <2>1, <3>1, <3>2, EndsSend
    <3>4. Based' /\ OrHundred(db'["rate"]) = norm'
      BY <1>6, <1>8, <3>1, <3>2 DEF Based
    <3> QED  BY <1>8, <2>2, <3>3, <3>4 DEF Good, Phase, Forgetting
  <2> QED  BY <1>5, <1>8, <2>3, <2>4 DEF Clean, Remembered
<1>9. ~(open /\ active /\ percent # value)  BY DEF Good, Figures
<1> QED  BY <1>7, <1>8, <1>9 DEF Check

LEMMA SetEventFlagKeepsGood ==
  ASSUME Typed, Good, SetEventFlag
  PROVE  Good'
<1>1. up # <<>> /\ up' = Tail(up)
      /\ db' = [db EXCEPT ![Head(up).flag] = Head(up).to]
      /\ UNCHANGED <<open, percent, active, value, norm, moved, missed, env>>
  BY DEF SetEventFlag
<1>2. up \in Seq(Msg) /\ db \in [Flags -> Nat]  BY Types DEF Typed
<1>3. Figures'  BY <1>1 DEF Good, Figures
<1>5. "rate" \in Flags /\ "base" \in Flags /\ "rate" # "base"  BY DEF Flags
<1>6. CASE Beginning
  <2>1. Head(up) = Set("base", norm) /\ up' = <<Set("rate", Boost(norm, value))>>
    BY <1>1, <1>6, Twos DEF Beginning
  <2>2. db'["base"] = norm  BY <1>1, <1>2, <1>5, <2>1, SetParts
  <2> QED  BY <1>1, <1>3, <1>6, <2>1, <2>2 DEF Good, Phase, Beginning, Raising
<1>7. CASE Raising
  <2>1. Head(up) = Set("rate", Boost(norm, value)) /\ up' = <<>>
    BY <1>1, <1>7, Ones DEF Raising
  <2>2. db'["base"] = norm /\ db'["rate"] = Boost(norm, value)
    BY <1>1, <1>2, <1>5, <1>7, <2>1, SetParts DEF Raising
  <2> QED  BY <1>1, <1>3, <1>7, <2>1, <2>2 DEF Good, Phase, Raising, Raised
<1>8. CASE Ending
  <2>1. Head(up) = Set("rate", norm) /\ up' = <<Set("base", 0)>>
    BY <1>1, <1>8, Twos DEF Ending
  <2>2. db'["base"] = norm /\ db'["rate"] = norm
    BY <1>1, <1>2, <1>5, <1>8, <2>1, SetParts DEF Ending
  <2>3. OrHundred(db'["rate"]) = norm /\ Based'
    BY <1>1, <2>2, AskedIsPositive DEF Good, Figures, Based
  <2> QED  BY <1>1, <1>3, <1>8, <2>1, <2>3 DEF Good, Phase, Ending, Forgetting
<1>9. CASE Forgetting
  <2>1. Head(up) = Set("base", 0) /\ up' = <<>>
    BY <1>1, <1>9, Ones DEF Forgetting
  <2>2. db'["base"] = 0 /\ db'["rate"] = db["rate"]
    BY <1>1, <1>2, <1>5, <2>1, SetParts
  <2> QED  BY <1>1, <1>3, <1>9, <2>1, <2>2 DEF Good, Phase, Forgetting, Clean
<1> QED  BY <1>1, <1>6, <1>7, <1>8, <1>9 DEF Good, Phase, Raised, Overruled, Clean, Remembered

LEMMA OperatorKeepsGood ==
  ASSUME Typed, Good, NEW r \in Moves, OperatorMoves(r)
  PROVE  Good'
<1>1. /\ up = <<>>
      /\ db' = [db EXCEPT !["rate"] = r]
      /\ norm' = IF EventsOwn(r) THEN db["base"] ELSE OrHundred(r)
      /\ moved' = (~EventsOwn(r) /\ (moved \/ active \/ db["base"] > 0))
      /\ UNCHANGED <<open, percent, active, value, cache, up, missed, env>>
  BY DEF OperatorMoves, Quiet
<1>2. db \in [Flags -> Nat]  BY Types DEF Typed
<1>3. OrHundred(r) \in Asked  BY DEF Asked
<1>4. db'["rate"] = r /\ db'["base"] = db["base"]  BY <1>1, <1>2 DEF Flags
<1>5. ASSUME EventsOwn(r), Raised \/ Overruled PROVE Good'
  <2>1. /\ db["base"] \in Asked /\ active /\ r = Boost(db["base"], value)
    BY <1>5 DEF EventsOwn, Raised, Overruled, Good, Figures
  <2>2. norm' = db["base"] /\ moved' = FALSE  BY <1>1, <1>5
  <2>3. Figures'  BY <1>1, <2>1, <2>2 DEF Good, Figures
  <2> QED  BY <1>1, <1>4, <2>1, <2>2, <2>3 DEF Good, Phase, Raised
<1>6. ASSUME ~EventsOwn(r)
      PROVE  Figures' /\ norm' = OrHundred(r) /\ moved' = (moved \/ active \/ db["base"] > 0)
  BY <1>1, <1>3, <1>6 DEF Good, Figures
<1>7. CASE Raised \/ Overruled
  <2>1. db'["base"] \in Asked /\ active' /\ up' = <<>>
    BY <1>1, <1>4, <1>7 DEF Raised, Overruled, Good, Figures
  <2>2. CASE ~EventsOwn(r)
    <3>1. Figures' /\ moved'  BY <1>1, <1>6, <1>7, <2>2 DEF Raised, Overruled
    <3> QED  BY <2>1, <3>1 DEF Good, Phase, Overruled
  <2> QED  BY <1>5, <1>7, <2>2
<1>8. CASE Clean
  <2>1. ~EventsOwn(r)  BY <1>8 DEF Clean, EventsOwn
  <2>2. Figures' /\ OrHundred(db'["rate"]) = norm' /\ db'["base"] = 0  BY <1>4, <1>6, <1>8, <2>1 DEF Clean
  <2> QED  BY <1>1, <1>8, <2>2 DEF Good, Phase, Clean
<1>9. CASE Remembered
  <2>1. ~EventsOwn(r)  BY <1>9 DEF Remembered, EventsOwn
  <2>2. db["base"] \in Asked /\ db["base"] > 0
    BY <1>9, AskedIsPositive DEF Remembered, Based
  <2>3. Figures' /\ Based'  BY <1>4, <1>6, <2>1, <2>2 DEF Based
  <2> QED  BY <1>1, <1>9, <2>3 DEF Good, Phase, Remembered
<1>10. \A x, y : <<x>> # <<>> /\ <<x, y>> # <<>>  BY Ones, Twos
<1> QED  BY <1>1, <1>7, <1>8, <1>9, <1>10
         DEF Good, Phase, Beginning, Raising, Ending, Forgetting

LEMMA CrashKeepsGood ==
  ASSUME Typed, Good, Crash
  PROVE  Good'
<1>1. /\ active \/ up # <<>>
      /\ up' = <<>> /\ active' = FALSE
      /\ missed' = (missed \/ ~open)
      /\ UNCHANGED <<open, percent, norm, moved, env>>
  BY DEF Crash
<1>2. db \in [Flags -> Nat] /\ up \in Seq(Msg) /\ Len(up) <= 4
  BY Types DEF Typed
<1>4. open' \/ missed'  BY <1>1
<1>5. PICK n \in 0..Len(up) : db' = Prefix(n)
  BY Zenon DEF Crash, Prefix, Flags
<1>7. Figures'  BY <1>1 DEF Good, Figures
<1>8. db'["base"] \in Asked /\ (moved \/ db'["base"] = norm) => Good'
  BY <1>1, <1>4, <1>7 DEF Good, Phase, Remembered, Based
<1>9. db'["base"] = 0 /\ OrHundred(db'["rate"]) = norm => Good'
  BY <1>1, <1>7 DEF Good, Phase, Clean
<1>0. norm \in Asked  BY DEF Good, Figures
<1>10. "rate" \in Flags /\ "base" \in Flags /\ "rate" # "base"  BY DEF Flags
<1>11. CASE Len(up) = 0
  <2>1. up = <<>>  BY <1>2, <1>11, EmptySeq
  <2>2. \A i \in 1..n : FALSE  BY <1>11
  <2>3. db'["base"] = db["base"]
    <3>1. /\ \A i, j \in 1..n : up[i].flag = up[j].flag => i = j
          /\ \A i \in 1..n : up[i].flag # "base"
      BY <2>2
    <3>2. Prefix(n)["base"] = db["base"]  BY <1>10, <3>1, Delivered
    <3> QED  BY <1>5, <3>2
  <2>4. \A x, y : <<x>> # <<>> /\ <<x, y>> # <<>>  BY Ones, Twos
  <2>5. Raised \/ Overruled
    BY <1>1, <2>1, <2>4
       DEF Good, Phase, Beginning, Raising, Ending, Forgetting, Clean, Remembered
  <2> QED  BY <1>0, <1>8, <2>3, <2>5 DEF Raised, Overruled
<1>12. ASSUME NEW x, up = <<x>>
       PROVE  /\ n = 0 => db'["base"] = db["base"] /\ db'["rate"] = db["rate"]
              /\ n = 1 => /\ \A f \in Flags : x.flag = f => db'[f] = x.to
                          /\ \A f \in Flags : x.flag # f => db'[f] = db[f]
              /\ n \in {0, 1}
  <2>1. Len(up) = 1 /\ up[1] = x  BY <1>12
  <2>2. n \in {0, 1}  BY <2>1
  <2>3. \A i, j \in 1..n : up[i].flag = up[j].flag => i = j  BY <2>2
  <2>4. \A f \in Flags : /\ \A i \in 1..n : up[i].flag = f => db'[f] = up[i].to
                         /\ (\A i \in 1..n : up[i].flag # f) => db'[f] = db[f]
    BY <1>5, <2>3, Delivered
  <2>5. ASSUME n = 0 PROVE \A f \in Flags : db'[f] = db[f]
    <3>1. \A i \in 1..n : FALSE  BY <2>5
    <3>2. \A f \in Flags : \A i \in 1..n : up[i].flag # f  BY <3>1
    <3> QED  BY <2>4, <3>2
  <2>6. ASSUME n = 1, NEW f \in Flags
        PROVE  /\ x.flag = f => db'[f] = x.to
               /\ x.flag # f => db'[f] = db[f]
    <3>1. /\ 1 \in 1..n
          /\ \A i \in 1..n : i = 1
      BY <2>6
    <3>2. x.flag = f => db'[f] = x.to  BY <2>1, <2>4, <3>1
    <3>3. x.flag # f => \A i \in 1..n : up[i].flag # f  BY <2>1, <3>1
    <3>4. x.flag # f => db'[f] = db[f]  BY <2>4, <3>3
    <3> QED  BY <3>2, <3>4
  <2> QED  BY <1>10, <2>2, <2>5, <2>6
<1>13. ASSUME NEW x, NEW y, up = <<x, y>>, x.flag # y.flag
       PROVE  /\ n = 0 => db'["base"] = db["base"] /\ db'["rate"] = db["rate"]
              /\ n = 1 => /\ \A f \in Flags : x.flag = f => db'[f] = x.to
                          /\ \A f \in Flags : x.flag # f => db'[f] = db[f]
              /\ n = 2 => \A f \in Flags : /\ x.flag = f => db'[f] = x.to
                                           /\ y.flag = f => db'[f] = y.to
              /\ n \in {0, 1, 2}
  <2>1. Len(up) = 2 /\ up[1] = x /\ up[2] = y  BY <1>13
  <2>2. n \in {0, 1, 2}  BY <2>1
  <2>3. \A i, j \in 1..n : up[i].flag = up[j].flag => i = j
    <3>1. \A i \in 1..n : i = 1 \/ i = 2  BY <2>2
    <3> QED  BY <1>13, <2>1, <3>1
  <2>4. \A f \in Flags : /\ \A i \in 1..n : up[i].flag = f => db'[f] = up[i].to
                         /\ (\A i \in 1..n : up[i].flag # f) => db'[f] = db[f]
    BY <1>5, <2>3, Delivered
  <2>5. ASSUME n = 0 PROVE \A f \in Flags : db'[f] = db[f]
    <3>1. \A i \in 1..n : FALSE  BY <2>5
    <3>2. \A f \in Flags : \A i \in 1..n : up[i].flag # f  BY <3>1
    <3> QED  BY <2>4, <3>2
  <2>6. ASSUME n = 1, NEW f \in Flags
        PROVE  /\ x.flag = f => db'[f] = x.to
               /\ x.flag # f => db'[f] = db[f]
    <3>1. /\ 1 \in 1..n
          /\ \A i \in 1..n : i = 1
      BY <2>6
    <3>2. x.flag = f => db'[f] = x.to  BY <2>1, <2>4, <3>1
    <3>3. x.flag # f => \A i \in 1..n : up[i].flag # f  BY <2>1, <3>1
    <3>4. x.flag # f => db'[f] = db[f]  BY <2>4, <3>3
    <3> QED  BY <3>2, <3>4
  <2>7. ASSUME n = 2, NEW f \in Flags
        PROVE  /\ x.flag = f => db'[f] = x.to
               /\ y.flag = f => db'[f] = y.to
    <3>1. 1 \in 1..n /\ 2 \in 1..n  BY <2>7
    <3> QED  BY <2>1, <2>4, <3>1
  <2> QED  BY <1>10, <2>2, <2>5, <2>6, <2>7
<1>14. CASE Beginning
  <2> DEFINE x == Set("base", norm)
             y == Set("rate", Boost(norm, value))
  <2>1. /\ x.flag = "base" /\ x.to = norm /\ y.flag = "rate"  BY SetParts
  <2>2. up = <<x, y>> /\ db["base"] = 0 /\ OrHundred(db["rate"]) = norm
    BY <1>14 DEF Beginning
  <2> HIDE DEF x, y
  <2>3. /\ n = 0 => db'["base"] = db["base"] /\ db'["rate"] = db["rate"]
        /\ n = 1 \/ n = 2 => db'["base"] = norm
        /\ n \in {0, 1, 2}
    BY <1>10, <1>13, <2>1, <2>2
  <2>4. CASE n = 0  BY <1>9, <2>2, <2>3, <2>4
  <2>5. CASE n = 1 \/ n = 2  BY <1>0, <1>8, <2>3, <2>5
  <2> QED  BY <2>3, <2>4, <2>5
<1>15. CASE Raising
  <2> DEFINE x == Set("rate", Boost(norm, value))
  <2>1. x.flag = "rate"  BY SetParts
  <2>2. up = <<x>> /\ db["base"] = norm  BY <1>15 DEF Raising
  <2> HIDE DEF x
  <2>3. db'["base"] = norm  BY <1>10, <1>12, <2>1, <2>2
  <2> QED  BY <1>0, <1>8, <2>3
<1>16. CASE Ending
  <2> DEFINE x == Set("rate", norm)
             y == Set("base", 0)
  <2>1. /\ x.flag = "rate" /\ x.to = norm /\ y.flag = "base" /\ y.to = 0  BY SetParts
  <2>2. up = <<x, y>> /\ db["base"] = norm  BY <1>16 DEF Ending
  <2> HIDE DEF x, y
  <2>3. /\ n = 0 \/ n = 1 => db'["base"] = norm
        /\ n = 2 => db'["base"] = 0 /\ db'["rate"] = norm
        /\ n \in {0, 1, 2}
    BY <1>10, <1>13, <2>1, <2>2
  <2>4. OrHundred(norm) = norm  BY <1>0, AskedIsPositive
  <2>5. CASE n = 0 \/ n = 1  BY <1>0, <1>8, <2>3, <2>5
  <2>6. CASE n = 2  BY <1>9, <2>3, <2>4, <2>6
  <2> QED  BY <2>3, <2>5, <2>6
<1>17. CASE Forgetting
  <2> DEFINE x == Set("base", 0)
  <2>1. x.flag = "base" /\ x.to = 0  BY SetParts
  <2>2. /\ up = <<x>> /\ OrHundred(db["rate"]) = norm
        /\ db["base"] \in Asked /\ (moved \/ db["base"] = norm)
    BY <1>17 DEF Forgetting, Based
  <2> HIDE DEF x
  <2>3. /\ n = 0 => db'["base"] = db["base"]
        /\ n = 1 => db'["base"] = 0 /\ db'["rate"] = db["rate"]
        /\ n \in {0, 1}
    BY <1>10, <1>12, <2>1, <2>2
  <2>4. CASE n = 0  BY <1>8, <2>2, <2>3, <2>4
  <2>5. CASE n = 1  BY <1>9, <2>2, <2>3, <2>5
  <2> QED  BY <2>3, <2>4, <2>5
<1>18. CASE up = <<>>
  <2>1. Len(up) = 0  BY <1>18
  <2> QED  BY <1>11, <2>1
<1> QED  BY <1>14, <1>15, <1>16, <1>17, <1>18
         DEF Good, Phase, Raised, Overruled, Clean, Remembered

LEMMA InitGood == Init => Inv
<1> SUFFICES ASSUME Init PROVE Inv
  OBVIOUS
<1>1. Typed  BY InitTyped
<1>2. PICK r \in Rates : db = [f \in Flags |-> IF f = "rate" THEN r ELSE 0]
  BY DEF Init, Flags
<1>3. db["rate"] = r /\ db["base"] = 0  BY <1>2 DEF Flags
<1>4. norm \in Asked  BY <1>3 DEF Init, Asked
<1>5. Figures /\ Clean  BY <1>3, <1>4 DEF Init, Figures, Clean
<1>6. Mirror
  <2>1. Len(down) = 0 /\ cache = db  BY DEF Init
  <2> QED  BY <2>1 DEF Mirror
<1>7. Left  BY DEF Init, Left
<1> QED  BY <1>1, <1>5, <1>6, <1>7 DEF Inv, Good, Phase

LEMMA NextKeepsInv == Inv /\ [Next]_vars => Inv'
<1> SUFFICES ASSUME Inv, [Next]_vars PROVE Inv'
  OBVIOUS
<1>1. Typed' /\ Mirror' /\ Left'  BY NextTyped, NextKeepsMirror, NextKeepsLeft DEF Inv
<1>3. env' = env  BY EnvStays
<1>4. SUFFICES ASSUME "rebase" \notin env PROVE Good'
  BY <1>1, <1>3 DEF Inv
<1>5. Typed /\ Mirror /\ Left /\ Good  BY <1>4 DEF Inv
<1>6. CASE Check  BY <1>5, <1>6, CheckKeepsGood
<1>7. CASE SetEventFlag  BY <1>5, <1>7, SetEventFlagKeepsGood
<1>8. CASE /\ UNCHANGED <<active, value, db, up, norm, moved>>
           /\ (open \/ missed) => (open' \/ missed')
           /\ Figures'
  BY <1>5, <1>8 DEF Good, Phase, Beginning, Raising, Raised, Overruled, Ending, Forgetting,
                    Based, Clean, Remembered
<1>9. CASE \E pct \in Percents : Opens(pct) \/ Changes(pct)
  <2>1. PICK pct \in Percents : Opens(pct)
    BY <1>4, <1>9 DEF Changes, MayRebase
  <2>2. /\ ~active /\ open' = TRUE /\ percent' = pct
        /\ UNCHANGED <<active, value, db, up, norm, moved>>
    BY <1>4, <2>1 DEF Opens, MayRebase
  <2>3. Figures'  BY <1>5, <2>2 DEF Good, Figures
  <2> QED  BY <1>8, <2>2, <2>3
<1>10. CASE Closes
  <2>1. /\ open' = FALSE /\ missed' = (missed \/ ~active)
        /\ UNCHANGED <<percent, active, value, db, up, norm, moved>>
    BY <1>10 DEF Closes
  <2>2. Figures'  BY <1>5, <2>1 DEF Good, Figures
  <2> QED
    BY <1>5, <2>1, <2>2 DEF Good, Phase, Beginning, Raising, Raised, Overruled, Ending,
                            Forgetting, Based, Clean, Remembered
<1>11. CASE Crash  BY <1>5, <1>11, CrashKeepsGood
<1>12. CASE \E r \in Moves : OperatorMoves(r)  BY <1>5, <1>12, OperatorKeepsGood
<1>13. CASE Forwarded \/ UNCHANGED vars
  <2>1. UNCHANGED <<open, percent, missed, active, value, db, up, norm, moved>>
    BY <1>13 DEF Forwarded, vars
  <2>2. Figures'  BY <1>5, <2>1 DEF Good, Figures
  <2> QED  BY <1>8, <2>1, <2>2
<1> QED  BY <1>6, <1>7, <1>9, <1>10, <1>11, <1>12, <1>13 DEF Next

(* While an event stands that no GM has moved, the world runs at its percent *)
(* over the rate asked for, whatever restarts, missed ends and moves of GMs *)
(* came before (playerbot_events.h:14-18).                                  *)
THEOREM RaisedOnce == Spec => []RateIsRaised
<1>1. Inv => RateIsRaised
  <2>1. \A x, y : <<x>> # <<>> /\ <<x, y>> # <<>>  BY Ones, Twos
  <2> QED  BY <2>1 DEF Inv, Good, RateIsRaised, RateFollowsFigure, Quiet, Phase, Beginning,
                       Raising, Raised, Overruled, Ending, Forgetting, Clean, Remembered
<1> QED  BY <1>1, InitGood, NextKeepsInv, PTL DEF Spec

(* After an end the leader has seen, the world is back at the rate asked    *)
(* for, and no base is left over.                                          *)
THEOREM ComesBack == Spec => []NormRestored
<1>1. Inv => NormRestored
  <2>1. \A x, y : <<x>> # <<>> /\ <<x, y>> # <<>>  BY Ones, Twos
  <2> QED  BY <2>1 DEF Inv, Good, NormRestored, Quiet, Phase, Beginning, Raising,
                       Raised, Overruled, Ending, Forgetting, Clean, Remembered
<1> QED  BY <1>1, InitGood, NextKeepsInv, PTL DEF Spec

(* A rate a GM moves beside an event stays where they put it through ends,   *)
(* deaths and returns of the leader, until the leader next begins an event   *)
(* or the same one with another figure: also where the leader restarts and  *)
(* figures change.  What that begin does to it, RaisedOnce says.            *)
THEOREM LeftAlone == Spec => []MovedIsLeft
<1>1. Inv => MovedIsLeft  BY DEF Inv, Left, MovedIsLeft
<1> QED  BY <1>1, InitGood, NextKeepsInv, PTL DEF Spec

-----------------------------------------------------------------------------
(* Where figures change inside an event: beginning it again is harmless.   *)

LEMMA Threes ==
  ASSUME NEW x, NEW y, NEW z
  PROVE  /\ <<x, y, z>> # <<>> /\ Head(<<x, y, z>>) = x /\ Tail(<<x, y, z>>) = <<y, z>>
         /\ <<x, y>> \o <<z>> = <<x, y, z>>
<1>1. /\ <<x, y, z>> \in Seq({x, y, z}) /\ Len(<<x, y, z>>) = 3 /\ <<x, y, z>> # <<>>
      /\ <<y, z>> \in Seq({x, y, z}) /\ Len(<<y, z>>) = 2 /\ <<y, z>>[1] = y /\ <<y, z>>[2] = z
      /\ <<x, y>> \in Seq({x, y, z}) /\ <<z>> \in Seq({x, y, z})
  OBVIOUS
<1> DEFINE t == Tail(<<x, y, z>>)
           c == <<x, y>> \o <<z>>
           d == <<x, y, z>>
<1>2. t = <<y, z>>
  <2>1. t \in Seq({x, y, z}) /\ Len(t) = 2 /\ t[1] = y /\ t[2] = z
    BY <1>1, HeadTailProperties
  <2> HIDE DEF t
  <2>2. \A i \in 1..Len(t) : t[i] = <<y, z>>[i]  BY <1>1, <2>1
  <2> QED  BY <1>1, <2>1, <2>2, SeqEqual
<1>3. c = d
  <2>1. c \in Seq({x, y, z}) /\ Len(c) = 3 /\ c[1] = x /\ c[2] = y /\ c[3] = z
    BY <1>1, ConcatProperties
  <2>2. d \in Seq({x, y, z}) /\ Len(d) = 3 /\ d[1] = x /\ d[2] = y /\ d[3] = z
    BY <1>1
  <2> HIDE DEF c, d
  <2>3. \A i \in 1..Len(c) : c[i] = d[i]  BY <2>1, <2>2
  <2> QED  BY <2>1, <2>2, <2>3, SeqEqual
<1> QED  BY <1>1, <1>2, <1>3

\* What is stored and on its way while the leader has an event no GM has moved: in
\* the end a base and the rate that the figure makes of it, or no base.
Standing == up = <<>> /\ (db["base"] = 0 \/ db["rate"] = Boost(db["base"], value))
Basing == \E b \in Nat : up = <<Set("base", b), Set("rate", Boost(b, value))>>
Rating == up = <<Set("rate", Boost(db["base"], value))>>
Returning == \E x, y \in Nat : up = <<Set("rate", x), Set("base", 0), Set("rate", y)>>
Wiping == \E y \in Nat : up = <<Set("base", 0), Set("rate", y)>>
Wiped == \E y \in Nat : up = <<Set("rate", y)>> /\ db["base"] = 0

Repeatable == active /\ ~moved => Standing \/ Basing \/ Rating \/ Returning \/ Wiping \/ Wiped

LEMMA CheckRepeats ==
  ASSUME Typed, Mirror, Repeatable, Check
  PROVE  Repeatable'
<1>1. up = <<>> /\ down = <<>>  BY DEF Check, Quiet
<1>2. cache = db /\ db \in [Flags -> Nat] /\ cache \in [Flags -> Nat]
  BY <1>1, MirrorRead, Types DEF Typed
<1>3. percent \in Nat /\ value \in Nat /\ db["base"] \in Nat /\ db["rate"] \in Nat
  BY <1>2, Types DEF Typed, Flags
<1>4. db' = db  BY DEF Check
<1> DEFINE begin == BeginPlayerBotRateEvent(percent)
           end == EndPlayerBotRateEvent(value)
<1>5. begin \in Seq(Msg) /\ end \in Seq(Msg)  BY <1>2, <1>3, BeginsTyped, EndsTyped
<1>6. /\ db["base"] > 0 => begin = <<Set("rate", Boost(db["base"], percent))>>
      /\ db["base"] = 0 => \E b \in Nat : begin = <<Set("base", b), Set("rate", Boost(b, percent))>>
  <2>1. OrHundred(db["rate"]) \in Nat  BY <1>3 DEF OrHundred
  <2> QED  BY <1>2, <1>3, <2>1, Begins
<1>7. /\ db["base"] > 0 => \/ end = <<Set("rate", db["base"]), Set("base", 0)>>
                           \/ end = <<Set("base", 0)>>
      /\ db["base"] = 0 => end = <<>>
  <2>1. ASSUME db["base"] = 0 PROVE end = <<>>
    <3>1. cache["base"] <= 0  BY <1>2, <1>3, <2>1
    <3> QED  BY <3>1, Zenon DEF EndPlayerBotRateEvent
  <2>2. ASSUME db["base"] > 0
        PROVE  \/ end = <<Set("rate", db["base"]), Set("base", 0)>>
               \/ end = <<Set("base", 0)>>
    <3>1. cache["base"] > 0 /\ cache["base"] = db["base"]  BY <1>2, <2>2
    <3>2. \/ end = <<Set("rate", cache["base"]), Set("base", 0)>>
          \/ end = <<Set("base", 0)>>
      BY <1>2, <1>3, <3>1, EndsSend
    <3> QED  BY <3>1, <3>2
  <2> HIDE DEF end
  <2> QED  BY <2>1, <2>2
<1> HIDE DEF begin, end
<1>8. db["base"] > 0 \/ db["base"] = 0  BY <1>3
<1>9. CASE ~active /\ up' = up \o begin /\ active' = TRUE /\ value' = percent
  <2>1. up' = begin  BY <1>1, <1>5, <1>9, ConcatEmptySeq
  <2> QED  BY <1>4, <1>6, <1>8, <1>9, <2>1 DEF Repeatable, Rating, Basing
<1>10. CASE active' = FALSE
  BY <1>4, <1>10 DEF Repeatable
<1>11. CASE up' = up \o end \o begin /\ value' = percent
  <2>1. up \o end = end  BY <1>1, <1>5, ConcatEmptySeq
  <2>2. up' = end \o begin  BY <1>11, <2>1, Zenon
  <2>3. CASE db["base"] = 0
    <3>1. up' = begin  BY <1>5, <1>7, <2>2, <2>3, ConcatEmptySeq
    <3> QED  BY <1>4, <1>6, <1>11, <2>3, <3>1 DEF Repeatable, Basing
  <2>4. CASE db["base"] > 0
    <3>1. PICK y \in Nat : begin = <<Set("rate", y)>>
      BY <1>3, <1>6, <2>4, Boosted
    <3>2. CASE end = <<Set("rate", db["base"]), Set("base", 0)>>
      <4>1. up' = <<Set("rate", db["base"]), Set("base", 0), Set("rate", y)>>
        BY <2>2, <3>1, <3>2, Threes, Zenon
      <4> QED  BY <1>3, <1>4, <4>1 DEF Repeatable, Returning
    <3>3. CASE end = <<Set("base", 0)>>
      <4>1. up' = <<Set("base", 0), Set("rate", y)>>
        BY <2>2, <3>1, <3>3, Joins, Zenon
      <4> QED  BY <1>4, <4>1 DEF Repeatable, Wiping
    <3> QED  BY <1>7, <2>4, <3>2, <3>3
  <2> QED  BY <1>8, <2>3, <2>4
<1> QED  BY <1>9, <1>10, <1>11 DEF Check, begin, end

LEMMA SetEventFlagRepeats ==
  ASSUME Typed, Repeatable, SetEventFlag
  PROVE  Repeatable'
<1>1. up # <<>> /\ up' = Tail(up)
      /\ db' = [db EXCEPT ![Head(up).flag] = Head(up).to]
      /\ UNCHANGED <<active, value, moved>>
  BY DEF SetEventFlag
<1>2. up \in Seq(Msg) /\ db \in [Flags -> Nat]  BY Types DEF Typed
<1>5. "rate" \in Flags /\ "base" \in Flags /\ "rate" # "base"  BY DEF Flags
<1>6. CASE Basing
  <2>1. PICK b \in Nat : up = <<Set("base", b), Set("rate", Boost(b, value))>>
    BY <1>6 DEF Basing
  <2>2. Head(up) = Set("base", b) /\ up' = <<Set("rate", Boost(b, value))>>
    BY <1>1, <2>1, Twos
  <2>3. db'["base"] = b  BY <1>1, <1>2, <1>5, <2>2, SetParts
  <2> QED  BY <1>1, <2>2, <2>3 DEF Repeatable, Rating
<1>7. CASE Rating
  <2>1. Head(up) = Set("rate", Boost(db["base"], value)) /\ up' = <<>>
    BY <1>1, <1>7, Ones DEF Rating
  <2>2. db'["base"] = db["base"] /\ db'["rate"] = Boost(db["base"], value)
    BY <1>1, <1>2, <1>5, <2>1, SetParts
  <2> QED  BY <1>1, <2>1, <2>2 DEF Repeatable, Standing
<1>8. CASE Returning
  <2>1. PICK x, y \in Nat : up = <<Set("rate", x), Set("base", 0), Set("rate", y)>>
    BY <1>8 DEF Returning
  <2>2. up' = <<Set("base", 0), Set("rate", y)>>
    BY <1>1, <2>1, Threes
  <2> QED  BY <2>2 DEF Repeatable, Wiping
<1>9. CASE Wiping
  <2>1. PICK y \in Nat : up = <<Set("base", 0), Set("rate", y)>>
    BY <1>9 DEF Wiping
  <2>2. Head(up) = Set("base", 0) /\ up' = <<Set("rate", y)>>
    BY <1>1, <2>1, Twos
  <2>3. db'["base"] = 0  BY <1>1, <1>2, <1>5, <2>2, SetParts
  <2> QED  BY <2>2, <2>3 DEF Repeatable, Wiped
<1>10. CASE Wiped
  <2>1. PICK y \in Nat : up = <<Set("rate", y)>> /\ db["base"] = 0
    BY <1>10 DEF Wiped
  <2>2. Head(up) = Set("rate", y) /\ up' = <<>>
    BY <1>1, <2>1, Ones
  <2>3. db'["base"] = 0  BY <1>1, <1>2, <1>5, <2>1, <2>2, SetParts
  <2> QED  BY <2>2, <2>3 DEF Repeatable, Standing
<1>11. CASE ~active \/ moved  BY <1>1, <1>11 DEF Repeatable
<1> QED  BY <1>1, <1>6, <1>7, <1>8, <1>9, <1>10, <1>11 DEF Repeatable, Standing

LEMMA OperatorRepeats ==
  ASSUME Typed, NEW r \in Moves, OperatorMoves(r)
  PROVE  Repeatable'
<1>1. /\ up' = <<>> /\ db' = [db EXCEPT !["rate"] = r] /\ UNCHANGED <<active, value>>
      /\ moved' = (~EventsOwn(r) /\ (moved \/ active \/ db["base"] > 0))
  BY DEF OperatorMoves, Quiet
<1>2. db'["rate"] = r /\ db'["base"] = db["base"]
  BY <1>1, Types DEF Typed, Flags
<1>3. CASE EventsOwn(r)  BY <1>1, <1>2, <1>3 DEF EventsOwn, Repeatable, Standing
<1>4. CASE ~EventsOwn(r)  BY <1>1, <1>4 DEF Repeatable
<1> QED  BY <1>3, <1>4

RepeatInv == Inv /\ Repeatable

LEMMA RepeatInductive ==
  /\ Init => RepeatInv
  /\ RepeatInv /\ [Next]_vars => RepeatInv'
<1>1. ASSUME Init PROVE RepeatInv
  BY <1>1, InitGood DEF Init, RepeatInv, Repeatable
<1>2. ASSUME RepeatInv, [Next]_vars PROVE RepeatInv'
  <2>1. Inv'  BY <1>2, NextKeepsInv DEF RepeatInv
  <2>2. SUFFICES Repeatable'
    BY <2>1 DEF RepeatInv
  <2>3. Typed /\ Mirror /\ Repeatable  BY <1>2 DEF RepeatInv, Inv
  <2>4. CASE Check  BY <2>3, <2>4, CheckRepeats
  <2>5. CASE SetEventFlag  BY <2>3, <2>5, SetEventFlagRepeats
  <2>6. CASE UNCHANGED <<active, value, moved, db, up>>
    BY <2>3, <2>6 DEF Repeatable, Standing, Basing, Rating, Returning, Wiping, Wiped
  <2>7. CASE Crash
    BY <2>7 DEF Crash, Repeatable
  <2>8. CASE \/ Forwarded \/ \E pct \in Percents : Opens(pct) \/ Changes(pct)
             \/ Closes \/ UNCHANGED vars
    BY <2>6, <2>8 DEF Forwarded, Opens, Changes, Closes, vars
  <2>9. CASE \E r \in Moves : OperatorMoves(r)  BY <2>3, <2>9, OperatorRepeats
  <2> QED  BY <1>2, <2>4, <2>5, <2>7, <2>8, <2>9 DEF Next
<1> QED  BY <1>1, <1>2

(* An event that is begun again, after a restart of the leader, after figures *)
(* that changed and moves of a GM, arrives at the rate that stands if a base  *)
(* is stored.                                                                *)
THEOREM RepeatsSafely == Spec => []SafeToRepeat
<1>1. RepeatInv => SafeToRepeat
  <2>1. SUFFICES ASSUME RepeatInv, Quiet, active, ~moved, percent = value, cache["base"] > 0,
                        NEW again, again = BeginPlayerBotRateEvent(value)
                 PROVE  again[Len(again)] = Set("rate", db["rate"])
    BY Zenon DEF SafeToRepeat
  <2>2. Typed /\ Mirror /\ Repeatable /\ up = <<>> /\ down = <<>> /\ value \in Nat
    BY <2>1, Types DEF RepeatInv, Inv, Typed, Quiet
  <2>3. \A x, y, z : <<x>> # <<>> /\ <<x, y>> # <<>> /\ <<x, y, z>> # <<>>
    BY Ones, Twos, Threes
  <2>4. Standing
    BY <2>1, <2>2, <2>3 DEF Repeatable, Basing, Rating, Returning, Wiping, Wiped
  <2>5. cache = db /\ cache \in [Flags -> Nat]
    BY <2>2, MirrorRead, Types DEF Typed
  <2>6. db["base"] # 0  BY <2>1, <2>5
  <2>7. again = <<Set("rate", Boost(cache["base"], value))>>
    BY <2>1, <2>2, <2>5, Begins
  <2>8. Len(again) = 1 /\ again[1] = Set("rate", Boost(cache["base"], value))
    BY <2>7
  <2> QED  BY <2>4, <2>5, <2>6, <2>8 DEF Standing
<1> QED  BY <1>1, RepeatInductive, PTL DEF Spec
=============================================================================
