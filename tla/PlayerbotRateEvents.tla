------------------------ MODULE PlayerbotRateEvents ------------------------
(***************************************************************************)
(* A timed event of more experience, drop or yang (playerbot_events.h):    *)
(* the leader core moves a rate flag of the world up for the length of a   *)
(* window and back down after it.  A flag lives in the db core, which      *)
(* stores every request to set it and sends it on to the cores, so what    *)
(* the leader reads is as old as the messages in between.                  *)
(*                                                                         *)
(* One kind of event and one of its two flags: the kinds, and the premium  *)
(* flag beside each, are independent copies of this.  The window is the    *)
(* outcome of playerbot_events::Evaluate.  The leader's Check is once a    *)
(* second: the flags it asked for have come round by the next one, and     *)
(* before a GM, who types, sets another (the guard Quiet).                 *)
(***************************************************************************)
EXTENDS Integers, Sequences

CONSTANTS
  Percents,   \* the values a window may carry
  Rates,      \* the rates the world may start with; 0 is a flag never set
  Moves,      \* the rates an operator may set; 0 is read like a flag never set
  MaxMoves,   \* bound: how often
  Ceiling,    \* bound: no figure is changed above it, as changes compound
  Envs        \* the worlds: which of "rebase", "crash", "down", "operator" happen in each

ASSUME RatesAssumption == Percents \subseteq Nat /\ Rates \subseteq Nat /\ Moves \subseteq Nat
ASSUME EnvsAssumption == Envs \subseteq SUBSET {"rebase", "crash", "down", "operator"}
ASSUME BoundsAssumption == MaxMoves \in Nat /\ Ceiling \in Nat

VARIABLES
  open, percent,  \* Evaluate's active and value
  active, value,  \* s_aPlayerBotEventState, the leader's
  db,             \* the db core's m_map_lEventFlag: "rate" and "base"
  cache,          \* the leader's m_mapEventFlag
  up,             \* the leader's requests on their way to the db core
  down,           \* the db core's flags on their way to the leader
  norm,           \* the rate the world is to have without any event (history)
  moved,          \* the operator has moved the rate beside a begun event or its base (history)
  missed,         \* an event has ended without the leader, none with it since (history)
  moves,          \* how often the operator has moved it
  env             \* the world this is; it never changes

vars == <<open, percent, active, value, db, cache, up, down, norm, moved, missed, moves, env>>

\* The engine reads an unset rate as 100, and so does BeginPlayerBotRateEvent.
OrHundred(r) == IF r <= 0 THEN 100 ELSE r
Boost(base, pct) == (base * (100 + pct)) \div 100
Set(flag, to) == [flag |-> flag, to |-> to]

Quiet == up = <<>> /\ down = <<>>

-----------------------------------------------------------------------------
\* Mutant: the base is the rate as it stands.
BeginFromRate(pct) ==
  LET base == OrHundred(cache["rate"])
  IN  <<Set("base", base), Set("rate", Boost(base, pct))>>

BeginPlayerBotRateEvent(pct) ==
  LET base == IF cache["base"] <= 0 THEN OrHundred(cache["rate"]) ELSE cache["base"]
  IN  (IF cache["base"] <= 0 THEN <<Set("base", base)>> ELSE <<>>)
      \o <<Set("rate", Boost(base, pct))>>

\* Mutants: the rate is put back whatever it is now; the base is kept; what is
\* put back is the engine's default.
EndAlways(pct) ==
  IF cache["base"] <= 0 THEN <<>>
  ELSE <<Set("rate", cache["base"]), Set("base", 0)>>
EndKeepingBase(pct) ==
  IF cache["base"] <= 0 \/ cache["rate"] # Boost(cache["base"], pct) THEN <<>>
  ELSE <<Set("rate", cache["base"])>>
EndAtHundred(pct) ==
  IF cache["base"] <= 0 THEN <<>>
  ELSE (IF cache["rate"] = Boost(cache["base"], pct)
        THEN <<Set("rate", 100)>> ELSE <<>>)
       \o <<Set("base", 0)>>

EndPlayerBotRateEvent(pct) ==
  IF cache["base"] <= 0 THEN <<>>
  ELSE (IF cache["rate"] = Boost(cache["base"], pct)
        THEN <<Set("rate", cache["base"])>> ELSE <<>>)
       \o <<Set("base", 0)>>

\* A begin that finds a base goes by it, whatever an operator has set since.
Overrules ==
  /\ norm' = IF moved /\ cache["base"] > 0 THEN cache["base"] ELSE norm
  /\ moved' = FALSE

\* ManagePlayerBotEvents of the leader.
Check ==
  /\ Quiet
  /\ \/ /\ open /\ ~active
        /\ up' = up \o BeginPlayerBotRateEvent(percent)
        /\ active' = TRUE /\ value' = percent
        /\ Overrules
        /\ UNCHANGED missed
     \/ /\ ~open /\ active
        /\ up' = up \o EndPlayerBotRateEvent(value)
        /\ active' = FALSE /\ missed' = FALSE
        /\ UNCHANGED <<value, norm, moved>>
     \/ /\ open /\ active /\ percent # value
        /\ up' = up \o EndPlayerBotRateEvent(value) \o BeginPlayerBotRateEvent(percent)
        /\ value' = percent
        /\ Overrules
        /\ UNCHANGED <<active, missed>>
  /\ UNCHANGED <<open, percent, db, cache, down, moves, env>>

\* CClientManager::SetEventFlag of the db core.
SetEventFlag ==
  /\ up # <<>>
  /\ up' = Tail(up)
  /\ db' = [db EXCEPT ![Head(up).flag] = Head(up).to]
  /\ down' = Append(down, Head(up))
  /\ UNCHANGED <<open, percent, active, value, cache, norm, moved, missed, moves, env>>

\* CInputDB::SetEventFlag of the leader.
Forwarded ==
  /\ down # <<>>
  /\ down' = Tail(down)
  /\ cache' = [cache EXCEPT ![Head(down).flag] = Head(down).to]
  /\ UNCHANGED <<open, percent, active, value, db, up, norm, moved, missed, moves, env>>

-----------------------------------------------------------------------------
MayRebase == "rebase" \in env /\ db["rate"] <= Ceiling

\* A window opens, or an "activate now" line is written.  Where the figure never
\* changes within an event, the leader has seen the one before end.
Opens(pct) ==
  /\ ~open /\ (~active \/ MayRebase)
  /\ open' = TRUE /\ percent' = pct
  /\ UNCHANGED <<active, value, db, cache, up, down, norm, moved, missed, moves, env>>

\* It closes.  With "down" also while the leader is, or before it has seen it.
Closes ==
  /\ open /\ ("down" \in env \/ active)
  /\ open' = FALSE /\ missed' = (missed \/ ~active)
  /\ UNCHANGED <<percent, active, value, db, cache, up, down, norm, moved, moves, env>>

\* A second window with another figure while one runs.
Changes(pct) ==
  /\ MayRebase /\ open
  /\ percent' = pct
  /\ UNCHANGED <<open, active, value, db, cache, up, down, norm, moved, missed, moves, env>>

\* The figure of the event that runs: set by a GM, the end takes it for its own.
EventsOwn(r) == active /\ db["base"] > 0 /\ r = Boost(db["base"], value)

\* A GM sets the flag, on any core.
OperatorMoves(r) ==
  /\ "operator" \in env /\ moves < MaxMoves /\ Quiet
  /\ db' = [db EXCEPT !["rate"] = r]
  /\ down' = Append(down, Set("rate", r))
  /\ norm' = IF EventsOwn(r) THEN db["base"] ELSE OrHundred(r)
  /\ moved' = (~EventsOwn(r) /\ (moved \/ active \/ db["base"] > 0))
  /\ moves' = moves + 1
  /\ UNCHANGED <<open, percent, active, value, cache, up, missed, env>>

\* The leader dies and comes back: some of what it had sent arrives, its state
\* is new, and the db core's flags are there before anything else
\* (SendEventFlagsOnSetup).
Crash ==
  /\ "crash" \in env /\ (active \/ up # <<>>)
  /\ open \/ "down" \in env
  /\ \E n \in 0..Len(up) :
       LET stored(f) == {i \in 1..n : up[i].flag = f}
           last(f) == CHOOSE i \in stored(f) : \A j \in stored(f) : j <= i
       IN  db' = [f \in {"rate", "base"} |-> IF stored(f) = {} THEN db[f] ELSE up[last(f)].to]
  /\ cache' = db'
  /\ up' = <<>> /\ down' = <<>>
  /\ active' = FALSE /\ value' = 0
  /\ missed' = (missed \/ ~open)
  /\ UNCHANGED <<open, percent, norm, moved, moves, env>>

-----------------------------------------------------------------------------
Init ==
  /\ env \in Envs
  /\ open = FALSE /\ percent = 0 /\ active = FALSE /\ value = 0
  /\ \E r \in Rates : db = [f \in {"rate", "base"} |-> IF f = "rate" THEN r ELSE 0]
  /\ cache = db
  /\ up = <<>> /\ down = <<>>
  /\ norm = OrHundred(db["rate"]) /\ moved = FALSE /\ missed = FALSE /\ moves = 0

Next ==
  \/ Check \/ SetEventFlag \/ Forwarded
  \/ \E pct \in Percents : Opens(pct) \/ Changes(pct)
  \/ Closes \/ Crash
  \/ \E r \in Moves : OperatorMoves(r)

Spec == Init /\ [][Next]_vars

\* The leader checks every second, and its connection carries what it is given.
FairSpec == Spec /\ WF_vars(Check) /\ WF_vars(SetEventFlag) /\ WF_vars(Forwarded)

-----------------------------------------------------------------------------
(* Properties.                                                             *)

\* Every variable keeps its type; no rate sent, stored or read is negative.
TypeOK ==
  /\ open \in BOOLEAN /\ active \in BOOLEAN
  /\ env \in Envs /\ moved \in BOOLEAN /\ missed \in BOOLEAN
  /\ percent \in Nat /\ value \in Nat /\ norm \in Nat /\ moves \in Nat
  /\ db \in [{"rate", "base"} -> Nat] /\ cache \in [{"rate", "base"} -> Nat]
  /\ up \in Seq([flag : {"rate", "base"}, to : Nat])
  /\ down \in Seq([flag : {"rate", "base"}, to : Nat])

\* While an event stands that no GM has moved, the world runs at its percent over
\* the rate asked for - of every restart of the leader and of every event before
\* it no trace.
RateFollowsFigure ==
  Quiet /\ active /\ ~moved /\ percent = value =>
    db["rate"] = Boost(norm, value) /\ db["base"] = norm

\* So it is where no figure changes inside an event.
RateIsRaised == "rebase" \notin env => RateFollowsFigure

\* With a base remembered, beginning the event again arrives at the rate that
\* stands: a restart inside it, even after figures have changed and ends have
\* been missed, compounds nothing.
SafeToRepeat ==
  Quiet /\ active /\ ~moved /\ percent = value /\ cache["base"] > 0 =>
    LET again == BeginPlayerBotRateEvent(value)
    IN  again[Len(again)] = Set("rate", db["rate"])

\* After an event whose end the leader has seen, the world is back at the rate
\* asked for and no base is left for the next event to start from - also when
\* ends before it were missed.
NormRestored ==
  "rebase" \notin env /\ Quiet /\ ~active /\ ~open /\ ~missed => OrHundred(db["rate"]) = norm /\ db["base"] = 0

\* A rate the operator moved during an event, or after one whose end was missed,
\* is left where they put it by ends, deaths and returns of the leader, until
\* the leader next begins an event, or the same one with another figure.
\* (That begin goes by the base it remembers, so a restart inside the event takes
\* the operator's rate away, against playerbot_events.h:18-19.)
MovedIsLeft == Quiet /\ moved => OrHundred(db["rate"]) = norm

\* Events that are over for good, the last end seen by the leader, leave the
\* world at the rate asked for.
BackToNorm == <>[](~open /\ ~missed /\ "rebase" \notin env) => <>[](OrHundred(db["rate"]) = norm)
=============================================================================
