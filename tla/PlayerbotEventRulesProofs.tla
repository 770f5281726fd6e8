--------------------- MODULE PlayerbotEventRulesProofs ---------------------
(***************************************************************************)
(* For weeks and days of any length and any two lines: an event is on      *)
(* exactly in the minutes of an opening, ends when it announces and starts *)
(* when it shows.                                                          *)
(***************************************************************************)
EXTENDS PlayerbotEventRules, WellFoundedInduction, TLAPS

\* What \div and % are to each other, for whole numbers of either sign.
LEMMA Division ==
  \A a \in Int, d \in Nat \ {0} :
    a \div d \in Int /\ a % d \in 0..(d - 1) /\ a = (d * (a \div d)) + (a % d)
  BY SMT

\* There is one way to write a number as a multiple and a remainder.
LEMMA DivisionIsUnique ==
  ASSUME NEW d \in Nat \ {0}, NEW q \in Int, NEW e \in Int, NEW r \in 0..(d - 1),
         NEW s \in 0..(d - 1), (d * q) + r = (d * e) + s
  PROVE  q = e /\ r = s
<1>1. d * q \in Int /\ d * e \in Int
  OBVIOUS
<1>2. CASE q < e
  <2>1. d * e >= d * (q + 1)
    BY <1>2, SMT
  <2>2. d * (q + 1) = (d * q) + d
    BY SMT
  <2> QED BY <1>1, <2>1, <2>2
<1>3. CASE e < q
  <2>1. d * q >= d * (e + 1)
    BY <1>3, SMT
  <2>2. d * (e + 1) = (d * e) + d
    BY SMT
  <2> QED BY <1>1, <2>1, <2>2
<1> QED BY <1>1, <1>2, <1>3

LEMMA Divided ==
  ASSUME NEW d \in Nat \ {0}, NEW q \in Int, NEW r \in 0..(d - 1)
  PROVE  /\ (d * q) + r \in Int
         /\ ((d * q) + r) \div d = q /\ ((d * q) + r) % d = r
<1> DEFINE a == (d * q) + r
<1>1. a \in Int
  OBVIOUS
<1>2. a \div d \in Int /\ a % d \in 0..(d - 1) /\ a = (d * (a \div d)) + (a % d)
  BY <1>1, Division
<1> HIDE DEF a
<1>3. (d * q) + r = (d * (a \div d)) + (a % d)
  BY <1>2 DEF a
<1>4. q = a \div d /\ r = a % d
  BY <1>2, <1>3, DivisionIsUnique
<1> QED BY <1>1, <1>4 DEF a

\* Yesterday, as the code computes it.
LEMMA Yesterday ==
  ASSUME NEW D \in Int
  PROVE  (D - 1) % Week = ((D % Week) + Week - 1) % Week
<1>1. Week \in Nat \ {0}
  BY ClockAssumption
<1> DEFINE q == D \div Week
           r == D % Week
<1>2. q \in Int /\ r \in 0..(Week - 1) /\ D = (Week * q) + r
  BY <1>1, Division
<1> HIDE DEF q, r
<1>3. CASE r = 0
  <2>1. Week * (q - 1) = (Week * q) - Week
    BY <1>1, <1>2, SMT
  <2>2. D - 1 = (Week * (q - 1)) + (Week - 1)
    <3>1. Week * q \in Int
      BY <1>1, <1>2
    <3> QED BY <1>1, <1>2, <1>3, <2>1, <3>1
  <2>3. (D - 1) % Week = Week - 1
    BY <1>1, <1>2, <2>2, Divided
  <2>4. Week - 1 = (Week * 0) + (Week - 1)
    BY <1>1
  <2>5. (Week - 1) % Week = Week - 1
    BY <1>1, <2>4, Divided
  <2>6. r + Week - 1 = Week - 1
    BY <1>1, <1>3
  <2> QED BY <2>3, <2>5, <2>6 DEF r
<1>4. CASE r > 0
  <2>1. D - 1 = (Week * q) + (r - 1) /\ r - 1 \in 0..(Week - 1)
    <3>1. Week * q \in Int
      BY <1>1, <1>2
    <3> QED BY <1>1, <1>2, <1>4, <3>1
  <2>2. (D - 1) % Week = r - 1
    BY <1>1, <1>2, <2>1, Divided
  <2>3. r + Week - 1 = (Week * 1) + (r - 1)
    BY <1>1, <1>2
  <2>4. (r + Week - 1) % Week = r - 1
    BY <1>1, <2>1, <2>3, Divided
  <2> QED BY <2>2, <2>4 DEF r
<1> QED BY <1>2, <1>3, <1>4

\* The code's look at today and yesterday finds every opening there is.
LEMMA ActiveInOpenings ==
  ASSUME NEW w \in Window, NEW t \in Int
  PROVE  WindowActiveAt(w, DayIndex(t), Minute(t)) <=>
           \E start \in (t - Length(w) + 1)..t :
             Minute(start) = w.startMin /\ DayIndex(start) \in w.days
<1> DEFINE D == t \div Day
           m == t % Day
           s == w.startMin
           L == Length(w)
<1>1. Day \in Nat \ {0} /\ Week \in Nat \ {0}
  BY ClockAssumption
<1>2. /\ D \in Int /\ m \in 0..(Day - 1) /\ t = (Day * D) + m
      /\ s \in 0..(Day - 1) /\ w.endMin \in 0..Day
  BY <1>1, Division DEF Window
<1>3. Day * D \in Int /\ Day * (D - 1) = (Day * D) - Day
  BY <1>1, <1>2, SMT
<1>4. /\ w.endMin > s => L = w.endMin - s
      /\ ~(w.endMin > s) => L = (w.endMin + Day) - s
      /\ L \in 1..Day
  BY <1>1, <1>2 DEF Length
<1>5. DayIndex(t) = D % Week /\ Minute(t) = m
  BY DEF DayIndex, Minute
<1>6. (DayIndex(t) + Week - 1) % Week = (D - 1) % Week
  BY <1>2, <1>5, Yesterday
<1>t. /\ Minute((Day * D) + s) = s /\ DayIndex((Day * D) + s) = D % Week
      /\ (Day * D) + s \in Int
  BY <1>1, <1>2, Divided DEF DayIndex, Minute
<1>y. /\ Minute((Day * (D - 1)) + s) = s /\ DayIndex((Day * (D - 1)) + s) = (D - 1) % Week
      /\ (Day * (D - 1)) + s \in Int
  <2>1. D - 1 \in Int
    BY <1>2
  <2> QED BY <1>1, <1>2, <2>1, Divided DEF DayIndex, Minute
<1> HIDE DEF D, m, s, L
<1>7. WindowActiveAt(w, DayIndex(t), Minute(t)) <=>
        \/ s <= m /\ m - s < L /\ D % Week \in w.days
        \/ m < s /\ Day + m - s < L /\ (D - 1) % Week \in w.days
  <2>1. CASE w.endMin > s
    BY <1>1, <1>2, <1>4, <1>5, <2>1 DEF WindowActiveAt, s
  <2>2. CASE ~(w.endMin > s)
    BY <1>1, <1>2, <1>4, <1>5, <1>6, <2>2 DEF WindowActiveAt, s
  <2> QED BY <2>1, <2>2
<1>8. ASSUME s <= m, m - s < L, D % Week \in w.days
      PROVE  \E start \in (t - L + 1)..t : Minute(start) = s /\ DayIndex(start) \in w.days
  <2>1. (Day * D) + s \in (t - L + 1)..t
    BY <1>2, <1>3, <1>4, <1>8
  <2> QED BY <1>8, <1>t, <2>1
<1>9. ASSUME m < s, Day + m - s < L, (D - 1) % Week \in w.days
      PROVE  \E start \in (t - L + 1)..t : Minute(start) = s /\ DayIndex(start) \in w.days
  <2>1. (Day * (D - 1)) + s \in (t - L + 1)..t
    BY <1>1, <1>2, <1>3, <1>4, <1>9
  <2> QED BY <1>9, <1>y, <2>1
<1>10. ASSUME NEW start \in (t - L + 1)..t, Minute(start) = s, DayIndex(start) \in w.days
       PROVE  \/ s <= m /\ m - s < L /\ D % Week \in w.days
              \/ m < s /\ Day + m - s < L /\ (D - 1) % Week \in w.days
  <2> DEFINE E == start \div Day
  <2>1. start \in Int
    BY <1>2, <1>4
  <2>2. E \in Int /\ start = (Day * E) + s /\ DayIndex(start) = E % Week
    BY <1>1, <1>10, <2>1, Division DEF Minute, DayIndex
  <2> HIDE DEF E
  <2>3. Day * E \in Int
    BY <1>1, <2>2
  <2>4. CASE E > D
    <3>1. Day * E >= Day * (D + 1) /\ Day * (D + 1) = (Day * D) + Day
      BY <1>1, <1>2, <2>2, <2>4, SMT
    <3> QED BY <1>1, <1>2, <1>3, <1>4, <2>2, <2>3, <3>1
  <2>5. CASE E = D
    BY <1>2, <1>3, <1>4, <1>10, <2>2, <2>5
  <2>6. CASE E = D - 1
    BY <1>1, <1>2, <1>3, <1>4, <1>10, <2>2, <2>6
  <2>7. CASE E < D - 1
    <3>1. Day * E <= Day * (D - 2) /\ Day * (D - 2) = ((Day * D) - Day) - Day
      BY <1>1, <1>2, <2>2, <2>7, SMT
    <3> QED BY <1>1, <1>2, <1>3, <1>4, <2>2, <2>3, <3>1
  <2> QED BY <1>2, <2>2, <2>4, <2>5, <2>6, <2>7
<1>11. (\E start \in (t - L + 1)..t : Minute(start) = s /\ DayIndex(start) \in w.days)
       <=> \/ s <= m /\ m - s < L /\ D % Week \in w.days
           \/ m < s /\ Day + m - s < L /\ (D - 1) % Week \in w.days
  BY <1>8, <1>9, <1>10
<1> QED BY <1>7, <1>11 DEF s, L

-----------------------------------------------------------------------------
(* The least and the greatest.                                             *)

LEMMA LeastNatural ==
  ASSUME NEW S, S \subseteq Nat, S # {}
  PROVE  /\ Min(S) \in S
         /\ \A y \in S : Min(S) <= y
<1>1. PICK x \in S : \A y \in S : <<y, x>> \notin OpToRel(<, Nat)
  BY NatLessThanWellFounded, WFMin
<1>2. \A y \in S : x <= y
  <2>1. ASSUME NEW y \in S, y < x
        PROVE  FALSE
    <3>1. <<y, x>> \in Nat \X Nat /\ <<y, x>>[1] < <<y, x>>[2]
      BY <2>1
    <3>2. <<y, x>> \in OpToRel(<, Nat)
      BY <3>1, Zenon DEF OpToRel
    <3> QED BY <1>1, <3>2
  <2>2. S \subseteq Int
    OBVIOUS
  <2> QED BY <2>1, <2>2
<1> QED BY <1>2, Zenon DEF Min

LEMMA GreaterOfTwo ==
  ASSUME NEW x \in Int, NEW y \in Int, NEW S, S \subseteq {x, y}, S # {}
  PROVE  /\ Max(S) \in S
         /\ \A z \in S : z <= Max(S)
<1>1. \E a \in S : \A z \in S : a >= z
  <2>1. CASE x \in S /\ (y \notin S \/ x >= y)
    <3>1. x \in S /\ \A z \in S : x >= z
      BY <2>1
    <3> QED BY <3>1
  <2>2. CASE y \in S /\ (x \notin S \/ y >= x)
    <3>1. y \in S /\ \A z \in S : y >= z
      BY <2>2
    <3> QED BY <3>1
  <2>3. x \in S \/ y \in S
    OBVIOUS
  <2>4. x >= y \/ y >= x
    OBVIOUS
  <2> QED BY <2>1, <2>2, <2>3, <2>4
<1>2. Max(S) \in S /\ \A z \in S : Max(S) >= z
  BY <1>1, Zenon DEF Max
<1> QED BY <1>2

-----------------------------------------------------------------------------
(* Openings of a window, one by one.                                       *)

\* An opening of w begins at s.
Opens(w, s) == Minute(s) = w.startMin /\ DayIndex(s) \in w.days

LEMMA LengthType == \A w \in Window : Length(w) \in 1..Day
  BY ClockAssumption DEF Length, Window

\* Where a day's start of w is, for any day counted from the clock's first.
LEMMA StartOfDay ==
  ASSUME NEW w \in Window, NEW E \in Int
  PROVE  /\ (Day * E) + w.startMin \in Int
         /\ Minute((Day * E) + w.startMin) = w.startMin
         /\ DayIndex((Day * E) + w.startMin) = E % Week
<1>1. Day \in Nat \ {0} /\ w.startMin \in 0..(Day - 1)
  BY ClockAssumption DEF Window
<1> QED BY <1>1, Divided DEF DayIndex, Minute

\* While a window is open, MinutesToEnd leads to the end of the opening it is.
LEMMA OpeningNow ==
  ASSUME NEW w \in Window, NEW t \in Int, WindowActiveAt(w, DayIndex(t), Minute(t))
  PROVE  \E s \in Int : /\ Opens(w, s) /\ s <= t
                        /\ t + MinutesToEnd(w, Minute(t)) = s + Length(w)
                        /\ t < s + Length(w)
<1> DEFINE D == t \div Day
           m == t % Day
<1>1. Day \in Nat \ {0} /\ Week \in Nat \ {0}
  BY ClockAssumption
<1>2. /\ D \in Int /\ m \in 0..(Day - 1) /\ t = (Day * D) + m
      /\ w.startMin \in 0..(Day - 1) /\ w.endMin \in 0..Day
  BY <1>1, Division DEF Window
<1>3. Day * D \in Int /\ Day * (D - 1) = (Day * D) - Day
  BY <1>1, <1>2, SMT
<1>4. DayIndex(t) = D % Week /\ Minute(t) = m
  BY DEF DayIndex, Minute
<1>5. (DayIndex(t) + Week - 1) % Week = (D - 1) % Week
  BY <1>2, <1>4, Yesterday
<1>6. Opens(w, (Day * D) + w.startMin) <=> D % Week \in w.days
  BY <1>2, StartOfDay DEF Opens
<1>7. Opens(w, (Day * (D - 1)) + w.startMin) <=> (D - 1) % Week \in w.days
  <2>1. D - 1 \in Int
    BY <1>2
  <2> QED BY <2>1, StartOfDay DEF Opens
<1> HIDE DEF D, m
<1>8. CASE w.endMin > w.startMin
  <2>1. D % Week \in w.days /\ m >= w.startMin /\ m < w.endMin
    BY <1>4, <1>8 DEF WindowActiveAt
  <2>2. MinutesToEnd(w, Minute(t)) = w.endMin - m /\ Length(w) = w.endMin - w.startMin
    BY <1>4, <1>8 DEF MinutesToEnd, Length
  <2> DEFINE s == (Day * D) + w.startMin
  <2>3. s \in Int /\ s <= t /\ t + MinutesToEnd(w, Minute(t)) = s + Length(w) /\ t < s + Length(w)
    BY <1>1, <1>2, <1>3, <2>1, <2>2
  <2>4. Opens(w, s)
    BY <1>6, <2>1
  <2> HIDE DEF s
  <2> QED BY <2>3, <2>4
<1>9. CASE ~(w.endMin > w.startMin) /\ m >= w.startMin
  <2>1. D % Week \in w.days
    BY <1>2, <1>4, <1>9 DEF WindowActiveAt
  <2>2. /\ MinutesToEnd(w, Minute(t)) = (Day - m) + w.endMin
        /\ Length(w) = w.endMin + Day - w.startMin
    BY <1>2, <1>4, <1>9 DEF MinutesToEnd, Length
  <2> DEFINE s == (Day * D) + w.startMin
  <2>3. s \in Int /\ s <= t /\ t + MinutesToEnd(w, Minute(t)) = s + Length(w) /\ t < s + Length(w)
    BY <1>1, <1>2, <1>3, <1>9, <2>2
  <2>4. Opens(w, s)
    BY <1>6, <2>1
  <2> HIDE DEF s
  <2> QED BY <2>3, <2>4
<1>10. CASE ~(w.endMin > w.startMin) /\ m < w.startMin
  <2>1. (D - 1) % Week \in w.days /\ m < w.endMin
    BY <1>2, <1>4, <1>5, <1>10 DEF WindowActiveAt
  <2>2. /\ MinutesToEnd(w, Minute(t)) = w.endMin - m
        /\ Length(w) = w.endMin + Day - w.startMin
    BY <1>2, <1>4, <1>10 DEF MinutesToEnd, Length
  <2> DEFINE s == (Day * (D - 1)) + w.startMin
  <2>3. s \in Int /\ s <= t /\ t + MinutesToEnd(w, Minute(t)) = s + Length(w) /\ t < s + Length(w)
    BY <1>1, <1>2, <1>3, <1>10, <2>1, <2>2
  <2>4. Opens(w, s)
    BY <1>7, <2>1
  <2> HIDE DEF s
  <2> QED BY <2>3, <2>4
<1> QED BY <1>2, <1>8, <1>9, <1>10

\* A day of the week comes again within a week, but not before tomorrow.
LEMMA DayComes ==
  ASSUME NEW r \in 0..(Week - 1), NEW d \in 0..(Week - 1)
  PROVE  \E e \in 1..Week : (r + e) % Week = d
<1>1. Week \in Nat \ {0}
  BY ClockAssumption
<1>2. CASE d > r
  <2>1. d - r \in 1..Week /\ r + (d - r) = (Week * 0) + d
    BY <1>1, <1>2
  <2>2. (r + (d - r)) % Week = d
    BY <1>1, <2>1, Divided
  <2> QED BY <2>1, <2>2
<1>3. CASE ~(d > r)
  <2>1. (d - r) + Week \in 1..Week /\ r + ((d - r) + Week) = (Week * 1) + d
    BY <1>1, <1>3
  <2>2. (r + ((d - r) + Week)) % Week = d
    BY <1>1, <2>1, Divided
  <2> QED BY <2>1, <2>2
<1> QED BY <1>2, <1>3

\* The day a number of days after another, as the code computes it.
LEMMA DaysOn ==
  ASSUME NEW D \in Int, NEW e \in Int
  PROVE  (D + e) % Week = ((D % Week) + e) % Week
<1>1. Week \in Nat \ {0}
  BY ClockAssumption
<1> DEFINE q == D \div Week
           r == D % Week
           f == (r + e) \div Week
           u == (r + e) % Week
<1>2. q \in Int /\ r \in 0..(Week - 1) /\ D = (Week * q) + r
  BY <1>1, Division
<1>3. r + e \in Int
  BY <1>1, <1>2
<1>4. f \in Int /\ u \in 0..(Week - 1) /\ r + e = (Week * f) + u
  BY <1>1, <1>3, Division
<1> HIDE DEF q, r, f, u
<1>5. Week * q \in Int /\ Week * f \in Int /\ Week * (q + f) = (Week * q) + (Week * f)
  BY <1>1, <1>2, <1>4, SMT
<1>6. D + e = (Week * (q + f)) + u /\ q + f \in Int
  BY <1>2, <1>4, <1>5
<1>7. (D + e) % Week = u
  BY <1>1, <1>4, <1>6, Divided
<1> QED BY <1>7 DEF u, r

\* MinutesToStart leads to the first opening after now, and is positive when
\* there is one at all.
LEMMA FirstOpening ==
  ASSUME NEW w \in Window, NEW t \in Int,
         NEW n, n = MinutesToStart(w, DayIndex(t), Minute(t))
  PROVE  /\ n \in Int
         /\ n > 0 => Opens(w, t + n)
         /\ \A s \in Int : Opens(w, s) /\ t < s => n > 0 /\ t + n <= s
<1> DEFINE D == t \div Day
           m == t % Day
           coming == {k \in Openings(w, DayIndex(t), Minute(t)) : k > 0}
           After(e) == e * Day + w.startMin - m
<1>1. Day \in Nat \ {0} /\ Week \in Nat \ {0}
  BY ClockAssumption
<1>2. /\ D \in Int /\ m \in 0..(Day - 1) /\ t = (Day * D) + m
      /\ w.startMin \in 0..(Day - 1)
  BY <1>1, Division DEF Window
<1>3. DayIndex(t) = D % Week /\ Minute(t) = m
  BY DEF DayIndex, Minute
<1>4. DayIndex(t) \in 0..(Week - 1)
  BY <1>1, <1>2, <1>3, Division
<1> HIDE DEF D, m
<1>5. ASSUME NEW e \in Int
      PROVE  /\ After(e) \in Int /\ t + After(e) = (Day * (D + e)) + w.startMin
             /\ Opens(w, t + After(e)) <=> (DayIndex(t) + e) % Week \in w.days
  <2>1. D + e \in Int
    BY <1>2
  <2>2. Day * (D + e) = (Day * D) + e * Day /\ Day * D \in Int /\ e * Day \in Int
    BY <1>1, <1>2, SMT
  <2>3. After(e) \in Int /\ t + After(e) = (Day * (D + e)) + w.startMin
    BY <1>1, <1>2, <2>2
  <2> HIDE DEF After
  <2>4. (D + e) % Week = (DayIndex(t) + e) % Week
    BY <1>2, <1>3, DaysOn
  <2> QED BY <2>1, <2>3, <2>4, StartOfDay DEF Opens
<1>6. \A k : k \in coming <=> \E e \in 0..Week : /\ (DayIndex(t) + e) % Week \in w.days
                                                  /\ k = After(e) /\ k > 0
  BY <1>3 DEF Openings
<1> HIDE DEF coming, After
<1>7. coming \subseteq Nat /\ \A k \in coming : k > 0 /\ Opens(w, t + k)
  <2>1. ASSUME NEW k \in coming
        PROVE  k \in Int /\ k > 0 /\ Opens(w, t + k)
    <3>1. PICK e \in 0..Week : (DayIndex(t) + e) % Week \in w.days /\ k = After(e) /\ k > 0
      BY <1>6
    <3>2. e \in Int
      BY <1>1
    <3> QED BY <1>5, <3>1, <3>2
  <2> QED BY <2>1
<1>8. ASSUME NEW s \in Int, Opens(w, s), t < s
      PROVE  \E k \in coming : t + k <= s
  <2> DEFINE E == s \div Day
  <2>1. E \in Int /\ s = (Day * E) + w.startMin /\ DayIndex(s) = E % Week
    BY <1>1, <1>8, Division DEF Opens, Minute, DayIndex
  <2>2. DayIndex(s) \in w.days /\ DayIndex(s) \in 0..(Week - 1)
    BY <1>1, <1>8, <2>1, Division DEF Opens
  <2> HIDE DEF E
  <2>3. Day * E \in Int /\ Day * D \in Int
    BY <1>1, <1>2, <2>1, SMT
  <2>4. E >= D
    <3> SUFFICES ASSUME E < D PROVE FALSE
      BY <1>2, <2>1
    <3>1. Day * E <= Day * (D - 1) /\ Day * (D - 1) = (Day * D) - Day
      BY <1>1, <1>2, <2>1, SMT
    <3> QED BY <1>1, <1>2, <1>8, <2>1, <2>3, <3>1
  <2>5. CASE E - D <= Week
    <3>1. E - D \in 0..Week /\ D + (E - D) = E
      BY <1>1, <1>2, <2>1, <2>4, <2>5
    <3>2. t + After(E - D) = s /\ After(E - D) \in Int
      BY <1>5, <2>1, <3>1
    <3>3. (DayIndex(t) + (E - D)) % Week \in w.days
      BY <1>5, <1>8, <3>1, <3>2
    <3>4. After(E - D) > 0
      BY <1>8, <3>2
    <3>5. After(E - D) \in coming
      BY <1>6, <3>1, <3>3, <3>4
    <3> QED BY <3>2, <3>5
  <2>6. CASE E - D > Week
    <3>1. PICK e \in 1..Week : (DayIndex(t) + e) % Week = DayIndex(s)
      BY <1>4, <2>2, DayComes
    <3>2. e \in Int /\ e \in 0..Week /\ D + e <= E /\ D + e \in Int
      BY <1>1, <1>2, <2>1, <2>6
    <3>3. After(e) \in Int /\ t + After(e) = (Day * (D + e)) + w.startMin
      BY <1>5, <3>2
    <3>4. Day * (D + e) <= Day * E /\ Day * (D + e) \in Int
      BY <1>1, <2>1, <3>2, SMT
    <3>5. Day * (D + e) >= (Day * D) + Day
      <4>1. Day * (D + e) >= Day * (D + 1) /\ Day * (D + 1) = (Day * D) + Day
        BY <1>1, <1>2, <3>1, <3>2, SMT
      <4> QED BY <4>1
    <3>6. After(e) > 0 /\ t + After(e) <= s
      BY <1>1, <1>2, <2>1, <2>3, <3>3, <3>4, <3>5
    <3>7. After(e) \in coming
      BY <1>6, <2>2, <3>1, <3>2, <3>6
    <3> QED BY <3>6, <3>7
  <2> QED BY <1>1, <1>2, <2>1, <2>5, <2>6
<1>9. n = IF coming = {} THEN -1 ELSE Min(coming)
  BY Zenon DEF MinutesToStart, coming
<1>10. CASE coming = {}
  BY <1>8, <1>9, <1>10
<1>11. CASE coming # {}
  <2>1. n \in coming /\ \A k \in coming : n <= k
    BY <1>7, <1>9, <1>11, LeastNatural
  <2>2. \A s \in Int : Opens(w, s) /\ t < s => n > 0 /\ t + n <= s
    <3> SUFFICES ASSUME NEW s \in Int, Opens(w, s), t < s
                 PROVE  n > 0 /\ t + n <= s
      OBVIOUS
    <3>1. PICK k \in coming : t + k <= s
      BY <1>8
    <3>2. n \in Nat /\ k \in Nat /\ n <= k /\ n > 0
      BY <1>7, <2>1
    <3> QED BY <3>1, <3>2
  <2> QED BY <1>7, <2>1, <2>2
<1> QED BY <1>10, <1>11

-----------------------------------------------------------------------------
(* Lines.                                                                  *)

\* A line that makes the event's status on, and until when.
On(w, t) == \/ w.now /\ w.until > t
            \/ ~w.now /\ WindowActiveAt(w, DayIndex(t), Minute(t))
EndOf(w, t) == IF w.now THEN w.until ELSE t + MinutesToEnd(w, Minute(t))

Line == Window \cup NowLine

LEMMA LineIsOfOneKind ==
  ASSUME NEW w \in Line
  PROVE  \/ w \in Window /\ w.now = FALSE
         \/ w \in NowLine /\ w.now = TRUE /\ w.until \in Nat
BY UntilAssumption DEF Line, Window, NowLine

\* A line is on exactly in its openings, or when it asks for it by hand.
LEMMA OnInItsOpenings ==
  ASSUME NEW w \in Line, NEW t \in Int
  PROVE  On(w, t) <=> IF w.now THEN t < w.until
                      ELSE \E start \in (t - Length(w) + 1)..t : Opens(w, start)
<1>1. CASE w \in Window /\ w.now = FALSE
  <2>1. On(w, t) <=> WindowActiveAt(w, DayIndex(t), Minute(t))
    BY <1>1 DEF On
  <2> QED BY <1>1, <2>1, ActiveInOpenings DEF Opens
<1>2. CASE w \in NowLine /\ w.now = TRUE /\ w.until \in Nat
  BY <1>2 DEF On
<1> QED BY <1>1, <1>2, LineIsOfOneKind

\* A line that is on stays on until its end.
LEMMA OnUntilEnd ==
  ASSUME NEW w \in Line, NEW t \in Int, On(w, t)
  PROVE  /\ EndOf(w, t) \in Int /\ t < EndOf(w, t)
         /\ t + 1 < EndOf(w, t) => On(w, t + 1)
<1>1. CASE w \in Window /\ w.now = FALSE
  <2>1. WindowActiveAt(w, DayIndex(t), Minute(t)) /\ EndOf(w, t) = t + MinutesToEnd(w, Minute(t))
    BY <1>1 DEF On, EndOf
  <2>2. PICK s \in Int : /\ Opens(w, s) /\ s <= t
                         /\ t + MinutesToEnd(w, Minute(t)) = s + Length(w)
                         /\ t < s + Length(w)
    BY <1>1, <2>1, OpeningNow
  <2>3. Length(w) \in Int
    BY <1>1, LengthType
  <2>4. ASSUME t + 1 < s + Length(w)
        PROVE  On(w, t + 1)
    <3>1. s \in ((t + 1) - Length(w) + 1)..(t + 1) /\ t + 1 \in Int
      BY <2>2, <2>3, <2>4
    <3> QED BY <1>1, <2>2, <3>1, OnInItsOpenings
  <2> QED BY <2>1, <2>2, <2>3, <2>4
<1>2. CASE w \in NowLine /\ w.now = TRUE /\ w.until \in Nat
  BY <1>2 DEF On, EndOf
<1> QED BY <1>1, <1>2, LineIsOfOneKind

\* The moment an inactive line comes on next is its first opening.
LEMMA ComesOn ==
  ASSUME NEW w \in Line, NEW t \in Int, ~On(w, t), On(w, t + 1)
  PROVE  w \in Window /\ w.now = FALSE /\ Opens(w, t + 1)
<1>1. CASE w \in Window /\ w.now = FALSE
  <2>1. t + 1 \in Int /\ Length(w) \in Int
    BY <1>1, LengthType
  <2>2. PICK s \in ((t + 1) - Length(w) + 1)..(t + 1) : Opens(w, s)
    BY <1>1, <2>1, OnInItsOpenings
  <2>3. s \notin (t - Length(w) + 1)..t
    BY <1>1, <2>2, OnInItsOpenings
  <2>4. s = t + 1
    BY <2>1, <2>2, <2>3
  <2> QED BY <1>1, <2>2, <2>4
<1>2. CASE w \in NowLine /\ w.now = TRUE /\ w.until \in Nat
  BY <1>2 DEF On
<1> QED BY <1>1, <1>2, LineIsOfOneKind

\* An opening is on from its first minute.
LEMMA OpeningIsOn ==
  ASSUME NEW w \in Window, w.now = FALSE, NEW t \in Int, Opens(w, t)
  PROVE  On(w, t)
<1>1. t \in (t - Length(w) + 1)..t
  BY LengthType
<1>2. w \in Line
  BY DEF Line
<1> QED BY <1>1, <1>2, OnInItsOpenings

-----------------------------------------------------------------------------
(* The status of two lines.                                                *)

\* An event's status is on when a line is.
LEMMA ActiveIsSomeLine ==
  ASSUME NEW all, NEW t
  PROVE  Evaluate(all, t).active <=> \E w \in all : On(w, t)
<1> DEFINE nows == {w \in all : w.now /\ w.until > t}
           opens == {w \in all : ~w.now /\ WindowActiveAt(w, DayIndex(t), Minute(t))}
           ends == {w.until : w \in nows} \cup {t + MinutesToEnd(w, Minute(t)) : w \in opens}
<1>1. Evaluate(all, t).active <=> ends # {}
  BY Zenon DEF Evaluate
<1>2. ends # {} <=> nows # {} \/ opens # {}
  <2> HIDE DEF nows, opens
  <2> QED OBVIOUS
<1> QED BY <1>1, <1>2 DEF On

\* The end it announces is the last end of a line that is on.
LEMMA UntilIsTheLastEnd ==
  ASSUME NEW a \in Line, NEW b \in Line, NEW t \in Int, \E w \in {a, b} : On(w, t)
  PROVE  /\ \E w \in {a, b} : On(w, t) /\ Evaluate({a, b}, t).until = EndOf(w, t)
         /\ \A w \in {a, b} : On(w, t) => EndOf(w, t) <= Evaluate({a, b}, t).until
<1> DEFINE all == {a, b}
           nows == {w \in all : w.now /\ w.until > t}
           opens == {w \in all : ~w.now /\ WindowActiveAt(w, DayIndex(t), Minute(t))}
           ends == {w.until : w \in nows} \cup {t + MinutesToEnd(w, Minute(t)) : w \in opens}
<1>1. Evaluate(all, t).until = IF ends = {} THEN 0 ELSE Max(ends)
  BY Zenon DEF Evaluate
<1>2. \A w \in all : w.now \in BOOLEAN
  BY LineIsOfOneKind
<1>3. \A e : e \in ends <=> \E w \in all : On(w, t) /\ e = EndOf(w, t)
  BY <1>2 DEF On, EndOf
<1> HIDE DEF ends
<1>4. ends # {}
  BY <1>3
<1>5. PICK x \in Int, y \in Int : ends \subseteq {x, y}
  <2> DEFINE One(w) == IF On(w, t) THEN EndOf(w, t) ELSE 0
  <2>1. One(a) \in Int /\ One(b) \in Int
    BY OnUntilEnd
  <2>2. ends \subseteq {One(a), One(b)}
    BY <1>3
  <2> HIDE DEF One
  <2> QED BY <2>1, <2>2
<1>6. Max(ends) \in ends /\ \A z \in ends : z <= Max(ends)
  BY <1>4, <1>5, GreaterOfTwo
<1> QED BY <1>1, <1>3, <1>4, <1>6

\* n is the first opening to come of the windows of S, or 0 if none comes.
FirstStart(S, t, n) ==
  /\ n \in Nat
  /\ n = 0 \/ (t < n /\ \E w \in S : w \in Window /\ w.now = FALSE /\ Opens(w, n))
  /\ \A w \in S : \A s \in Int :
       w \in Window /\ w.now = FALSE /\ Opens(w, s) /\ t < s => t < n /\ n <= s

\* While no line is on, the start it shows is that.
LEMMA NextStartIsTheFirst ==
  ASSUME NEW a \in Line, NEW b \in Line, NEW t \in Nat, \A w \in {a, b} : ~On(w, t),
         NEW n, n = Evaluate({a, b}, t).nextStart
  PROVE  FirstStart({a, b}, t, n)
<1> DEFINE all == {a, b}
           To(w) == MinutesToStart(w, DayIndex(t), Minute(t))
           opens == {w \in all : ~w.now /\ WindowActiveAt(w, DayIndex(t), Minute(t))}
           to == {To(w) : w \in {v \in all : ~v.now} \ opens}
           starts == {t + k : k \in {j \in to : j > 0}}
<1>1. n = IF starts = {} THEN 0 ELSE Min(starts)
  BY Zenon DEF Evaluate
<1>2. opens = {}
  BY DEF On
<1>3. ASSUME NEW w \in all, w \in Window
      PROVE  /\ To(w) \in Int
             /\ To(w) > 0 => Opens(w, t + To(w))
             /\ \A s \in Int : Opens(w, s) /\ t < s => To(w) > 0 /\ t + To(w) <= s
  BY <1>3, FirstOpening
<1>4. \A w \in all : w.now = FALSE <=> w \in Window
  BY LineIsOfOneKind DEF Window
<1>5. \A w \in all : ~w.now <=> w.now = FALSE
  BY LineIsOfOneKind
<1> HIDE DEF opens, To
<1>6. \A x : x \in starts <=> \E w \in all : w.now = FALSE /\ To(w) > 0 /\ x = t + To(w)
  BY <1>2, <1>5
<1> HIDE DEF starts
<1>7. starts \subseteq Nat /\ \A x \in starts : t < x
  <2>1. ASSUME NEW x \in starts
        PROVE  x \in Nat /\ t < x
    <3>1. PICK w \in all : w.now = FALSE /\ To(w) > 0 /\ x = t + To(w)
      BY <1>6
    <3>2. To(w) \in Int
      BY <1>3, <1>4, <3>1
    <3> QED BY <3>1, <3>2
  <2> QED BY <2>1
<1>8. \A w \in all : \A s \in Int :
        w \in Window /\ w.now = FALSE /\ Opens(w, s) /\ t < s =>
          t + To(w) \in starts /\ t + To(w) <= s
  BY <1>3, <1>6
<1>9. CASE starts = {}
  BY <1>1, <1>8, <1>9 DEF FirstStart
<1>10. CASE starts # {}
  <2>1. n \in starts /\ \A x \in starts : n <= x
    BY <1>1, <1>7, <1>10, LeastNatural
  <2>2. PICK w \in all : w.now = FALSE /\ To(w) > 0 /\ n = t + To(w)
    BY <1>6, <2>1
  <2>3. w \in Window /\ Opens(w, n)
    BY <1>3, <1>4, <2>2
  <2>4. \A v \in all : \A s \in Int :
          v \in Window /\ v.now = FALSE /\ Opens(v, s) /\ t < s => t < n /\ n <= s
    <3> SUFFICES ASSUME NEW v \in all, NEW s \in Int,
                        v \in Window, v.now = FALSE, Opens(v, s), t < s
                 PROVE  t < n /\ n <= s
      OBVIOUS
    <3>1. t + To(v) \in starts /\ t + To(v) <= s
      BY <1>8
    <3>2. n \in Nat /\ t + To(v) \in Nat /\ n <= t + To(v) /\ t < n
      BY <1>7, <2>1, <3>1
    <3> QED BY <3>1, <3>2
  <2> QED BY <1>7, <2>1, <2>2, <2>3, <2>4 DEF FirstStart
<1> QED BY <1>9, <1>10

-----------------------------------------------------------------------------
(* The event as the clock goes on.                                         *)

\* What holds in every state: the status is Evaluate's, of two lines ParseLine
\* let through and of the minute it is.
Judged ==
  /\ \E a, b \in Line : lines = {a, b}
  /\ clock \in Nat
  /\ st = Evaluate(lines, clock)

LEMMA AlwaysJudged == Spec => []Judged
<1>1. Init => Judged
  BY DEF Init, Judged, Line
<1>2. Judged /\ [Next]_vars => Judged'
  <2> SUFFICES ASSUME Judged, [Next]_vars
               PROVE  Judged'
    OBVIOUS
  <2>1. CASE Tick
    <3>1. clock' \in Nat /\ lines' = lines /\ \E a, b \in Line : lines = {a, b}
      BY <2>1 DEF Judged, Tick
    <3>2. st' = Evaluate(lines', clock')
      BY <2>1, Zenon DEF Tick
    <3> QED BY <3>1, <3>2 DEF Judged
  <2>2. CASE UNCHANGED vars
    BY <2>2 DEF Judged, vars
  <2> QED BY <2>1, <2>2 DEF Next
<1> QED BY <1>1, <1>2, PTL DEF Spec

\* At every minute of weeks and days of any length, an event with any two lines
\* is on exactly while an opening of one lasts or a line asks for it by hand.
THEOREM OnInOpenings == Spec => []OnWhileAnOpeningLasts
<1>1. Judged => OnWhileAnOpeningLasts
  <2> SUFFICES ASSUME Judged
               PROVE  OnWhileAnOpeningLasts
    OBVIOUS
  <2>1. st.active <=> \E w \in lines : On(w, clock)
    BY ActiveIsSomeLine DEF Judged
  <2>2. lines \subseteq Line /\ clock \in Int
    BY DEF Judged
  <2> QED BY <2>1, <2>2, OnInItsOpenings DEF OnWhileAnOpeningLasts, Opens
<1> QED BY <1>1, AlwaysJudged, PTL

\* A minute later.
LEMMA NextMinute ==
  ASSUME Judged, Tick
  PROVE  /\ clock \in Nat /\ clock' = clock + 1
         /\ st = Evaluate(lines, clock) /\ st' = Evaluate(lines, clock + 1)
         /\ \E a, b \in Line : lines = {a, b}
<1>1. clock' = clock + 1 /\ st' = Evaluate(lines, clock')
  BY Zenon DEF Tick
<1> QED BY <1>1 DEF Judged

\* An event ends when it said it would, or later if another opening has begun
\* by then, for weeks and days of any length and any two lines.
THEOREM EndsOnTime == Spec => EndsAsAnnounced
<1> DEFINE Kept == st.active => /\ clock' < st.until => st'.active
                                /\ ~st'.active => clock' = st.until
<1>1. ASSUME Judged, Tick
      PROVE  Kept
  <2>1. /\ clock \in Nat /\ clock' = clock + 1
        /\ st = Evaluate(lines, clock) /\ st' = Evaluate(lines, clock + 1)
    BY <1>1, NextMinute
  <2>2. PICK a \in Line, b \in Line : lines = {a, b}
    BY <1>1, NextMinute
  <2> SUFFICES ASSUME st.active
               PROVE  /\ clock' < st.until => st'.active
                      /\ ~st'.active => clock' = st.until
    OBVIOUS
  <2>3. \E w \in lines : On(w, clock)
    BY <2>1, ActiveIsSomeLine
  <2>4. st'.active <=> \E w \in lines : On(w, clock + 1)
    BY <2>1, ActiveIsSomeLine
  <2>5. PICK w \in lines : On(w, clock) /\ st.until = EndOf(w, clock)
    BY <2>1, <2>2, <2>3, UntilIsTheLastEnd
  <2>6. /\ EndOf(w, clock) \in Int /\ clock < EndOf(w, clock)
        /\ clock + 1 < EndOf(w, clock) => On(w, clock + 1)
    BY <2>1, <2>2, <2>5, OnUntilEnd
  <2> QED BY <2>1, <2>4, <2>5, <2>6
<1>2. Judged /\ [Next]_vars => [Kept]_vars
  BY <1>1 DEF Next
<1>3. EndsAsAnnounced <=> [][Kept]_vars
  BY DEF EndsAsAnnounced
<1> HIDE DEF Kept
<1> QED BY <1>2, <1>3, AlwaysJudged, PTL DEF Spec

\* The start the panel shows is when the event next starts, and it does not
\* move before; with none shown none starts.
THEOREM StartsOnTime == Spec => StartsAsShown
<1> DEFINE Kept == ~st.active => IF clock' = st.nextStart THEN st'.active
                                 ELSE ~st'.active /\ st'.nextStart = st.nextStart
<1>1. ASSUME Judged, Tick
      PROVE  Kept
  <2>1. /\ clock \in Nat /\ clock' = clock + 1
        /\ st = Evaluate(lines, clock) /\ st' = Evaluate(lines, clock + 1)
    BY <1>1, NextMinute
  <2>2. PICK a \in Line, b \in Line : lines = {a, b}
    BY <1>1, NextMinute
  <2> SUFFICES ASSUME ~st.active
               PROVE  IF clock' = st.nextStart THEN st'.active
                      ELSE ~st'.active /\ st'.nextStart = st.nextStart
    OBVIOUS
  <2>3. \A w \in lines : ~On(w, clock)
    BY <2>1, ActiveIsSomeLine
  <2>4. st'.active <=> \E w \in lines : On(w, clock + 1)
    BY <2>1, ActiveIsSomeLine
  <2>5. clock \in Int /\ clock + 1 \in Int /\ clock + 1 \in Nat
    BY <2>1
  <2> DEFINE n == st.nextStart
             p == st'.nextStart
  <2>6. FirstStart(lines, clock, n)
    BY <2>1, <2>2, <2>3, NextStartIsTheFirst
  <2> HIDE DEF n, p
  <2>7. CASE clock' = n
    <3>1. PICK w \in lines : w \in Window /\ w.now = FALSE /\ Opens(w, clock + 1)
      BY <2>1, <2>6, <2>7 DEF FirstStart
    <3>2. On(w, clock + 1)
      BY <2>5, <3>1, OpeningIsOn
    <3> QED BY <2>4, <2>7, <3>2 DEF n
  <2>8. CASE clock' # n
    <3>1. ASSUME NEW w \in lines, On(w, clock + 1)
          PROVE  FALSE
      <4>1. w \in Window /\ w.now = FALSE /\ Opens(w, clock + 1)
        BY <2>2, <2>3, <2>5, <3>1, ComesOn
      <4>2. clock < n /\ n <= clock + 1
        BY <2>1, <2>5, <2>6, <4>1 DEF FirstStart
      <4> QED BY <2>1, <2>6, <2>8, <4>2 DEF FirstStart
    <3>2. FirstStart(lines, clock + 1, p)
      BY <2>1, <2>2, <2>5, <3>1, NextStartIsTheFirst DEF p
    <3>3. ASSUME n = 0 PROVE p = n
      BY <2>1, <2>6, <3>2, <3>3 DEF FirstStart
    <3>4. ASSUME n # 0 PROVE p = n
      <4>1. PICK w \in lines : w \in Window /\ w.now = FALSE /\ Opens(w, n)
        BY <2>6, <3>4 DEF FirstStart
      <4>2. clock + 1 < n
        BY <2>1, <2>6, <2>8, <3>4 DEF FirstStart
      <4>3. clock + 1 < p /\ p <= n
        BY <2>6, <3>2, <4>1, <4>2 DEF FirstStart
      <4>4. PICK v \in lines : v \in Window /\ v.now = FALSE /\ Opens(v, p)
        BY <2>1, <3>2, <4>3 DEF FirstStart
      <4>5. n <= p
        BY <2>1, <2>6, <3>2, <4>3, <4>4 DEF FirstStart
      <4> QED BY <2>6, <3>2, <4>3, <4>5 DEF FirstStart
    <3>5. p = n
      BY <3>3, <3>4
    <3> QED BY <2>4, <2>8, <3>1, <3>5 DEF n, p
  <2> QED BY <2>7, <2>8
<1>2. Judged /\ [Next]_vars => [Kept]_vars
  BY <1>1 DEF Next
<1>3. StartsAsShown <=> [][Kept]_vars
  BY DEF StartsAsShown
<1> HIDE DEF Kept
<1> QED BY <1>2, <1>3, AlwaysJudged, PTL DEF Spec
=============================================================================
