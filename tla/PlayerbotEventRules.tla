------------------------ MODULE PlayerbotEventRules ------------------------
(***************************************************************************)
(* When a timed event is on (playerbot_event_rules.h), for one kind of     *)
(* event: the lines of the panel's file and a clock that goes through the  *)
(* weeks, judged minute by minute as ManagePlayerBotEvents does.           *)
(*                                                                         *)
(* Time is whole minutes; the code's seconds within one only decide at     *)
(* which of them an "activate now" line is seen to be over.                *)
(***************************************************************************)
EXTENDS Integers, FiniteSets, FiniteSetsExt

CONSTANTS
  Day,     \* minutes of a day, 1440 in the code
  Week,    \* days of a week, 7 in the code
  Until,   \* the minutes an "activate now" line may name
  Horizon  \* bound: where the clock stops

ASSUME ClockAssumption == Day \in Nat \ {0} /\ Week \in Nat \ {0} /\ Horizon \in Nat
ASSUME UntilAssumption == Until \subseteq Nat

VARIABLES
  lines,  \* s_vecPlayerBotEvents of this kind
  clock,  \* the wall clock
  st      \* s_aPlayerBotEventStatus of this kind

vars == <<lines, clock, st>>

\* What ParseLine lets through.
Window == [now : {FALSE}, startMin : 0..(Day - 1), endMin : 0..Day, days : SUBSET (0..(Week - 1))]
NowLine == [now : {TRUE}, until : Until]
DayIndex(t) == (t \div Day) % Week
Minute(t) == t % Day

-----------------------------------------------------------------------------
\* Mutants: the morning after belongs to its own day; a window past midnight
\* is open all day.
WindowActiveOwnDay(w, dayIndex, minute) ==
  /\ dayIndex \in w.days
  /\ IF w.endMin > w.startMin THEN minute >= w.startMin /\ minute < w.endMin
     ELSE minute >= w.startMin \/ minute < w.endMin

WindowActiveAt(w, dayIndex, minute) ==
  IF w.endMin > w.startMin
  THEN dayIndex \in w.days /\ minute >= w.startMin /\ minute < w.endMin
  ELSE \/ dayIndex \in w.days /\ minute >= w.startMin
       \/ (dayIndex + Week - 1) % Week \in w.days /\ minute < w.endMin

\* Mutant: the evening's minutes are left out.
MinutesToEndOfDay(w, minute) == w.endMin - minute

MinutesToEnd(w, minute) ==
  IF w.endMin > w.startMin \/ minute < w.startMin
  THEN w.endMin - minute
  ELSE (Day - minute) + w.endMin

\* The coming openings, in minutes from now; the least of them is MinutesToStart.
Openings(w, dayIndex, minute) ==
  {d * Day + w.startMin - minute : d \in {e \in 0..Week : (dayIndex + e) % Week \in w.days}}

\* Mutant: the search stops before the same day of next week.
MinutesToStartThisWeek(w, dayIndex, minute) ==
  LET coming == {m \in {d * Day + w.startMin - minute :
                          d \in {e \in 0..(Week - 1) : (dayIndex + e) % Week \in w.days}} : m > 0}
  IN  IF coming = {} THEN -1 ELSE Min(coming)

MinutesToStart(w, dayIndex, minute) ==
  LET coming == {m \in Openings(w, dayIndex, minute) : m > 0}
  IN  IF coming = {} THEN -1 ELSE Min(coming)

Evaluate(all, t) ==
  LET d == DayIndex(t)
      m == Minute(t)
      nows  == {w \in all : w.now /\ w.until > t}
      opens == {w \in all : ~w.now /\ WindowActiveAt(w, d, m)}
      ends  == {w.until : w \in nows} \cup {t + MinutesToEnd(w, m) : w \in opens}
      to    == {MinutesToStart(w, d, m) : w \in {v \in all : ~v.now} \ opens}
      starts == {t + n : n \in {k \in to : k > 0}}
  IN  [active    |-> ends # {},
       until     |-> IF ends = {} THEN 0 ELSE Max(ends),
       nextStart |-> IF starts = {} THEN 0 ELSE Min(starts)]

-----------------------------------------------------------------------------
Init ==
  /\ \E a, b \in Window \cup NowLine : lines = {a, b}
  /\ clock = 0
  /\ st = Evaluate(lines, clock)

Tick ==
  /\ clock < Horizon
  /\ clock' = clock + 1
  /\ st' = Evaluate(lines, clock')
  /\ UNCHANGED lines

Next == Tick

Spec == Init /\ [][Next]_vars

-----------------------------------------------------------------------------
(* Properties.                                                             *)

\* An opening of a window lasts from its start to its end, past midnight when
\* the end is not after the start.
Length(w) == IF w.endMin > w.startMin THEN w.endMin - w.startMin ELSE w.endMin + Day - w.startMin

\* An event is on exactly while some opening of some window lasts, or a line
\* asked for it by hand: no minute too many around midnight or the week's end.
OnWhileAnOpeningLasts ==
  st.active <=>
    \E w \in lines :
      IF w.now THEN clock < w.until
      ELSE \E start \in (clock - Length(w) + 1)..clock :
             Minute(start) = w.startMin /\ DayIndex(start) \in w.days

\* The end an event announces is when it ends: not a minute earlier, and later
\* only because the next opening has begun by then.
EndsAsAnnounced ==
  [][st.active => /\ clock' < st.until => st'.active
                  /\ ~st'.active => clock' = st.until]_vars

\* The next start the panel shows is when the next event starts; it does not
\* change on the way there, and with none shown none starts.
StartsAsShown ==
  [][~st.active => IF clock' = st.nextStart THEN st'.active
                   ELSE ~st'.active /\ st'.nextStart = st.nextStart]_vars
=============================================================================
