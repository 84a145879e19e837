--------------------------- MODULE SchedulerProofs ---------------------------
(***************************************************************************)
(* The routine scheduler, for any number of processes and routines, any    *)
(* calendar and any schedules.                                             *)
(*                                                                         *)
(* The due-math first: what the code computes as the last and the next     *)
(* occurrence of a schedule are occurrences on either side of the clock    *)
(* with none in between, so the last occurrence never goes back.  Then the *)
(* pid file: as long as no two starts overlap, at most one process is in   *)
(* the loop.  Then the types; and from the three of them, the markers:     *)
(* an occurrence gets one outcome.                                         *)
(***************************************************************************)
EXTENDS Scheduler, FiniteSetTheorems, WellFoundedInduction, TLAPS

-----------------------------------------------------------------------------
(* Numbers: division, and the ends of a finite set *)

\* Quotient and remainder.
LEMMA DivMod ==
    ASSUME NEW t \in Int, NEW d \in Nat \ {0}
    PROVE  /\ t \div d \in Int /\ t % d \in 0 .. d - 1
           /\ t = ((t \div d) * d) + (t % d)
  OBVIOUS

LEMMA DivOf ==
    ASSUME NEW q \in Int, NEW d \in Nat \ {0}, NEW c \in 0 .. d - 1
    PROVE  ((q * d) + c) \div d = q /\ ((q * d) + c) % d = c
  OBVIOUS

\* Division keeps the order; whole rows keep it by a row.
LEMMA DivOrder ==
    ASSUME NEW a \in Int, NEW b \in Int, a <= b, NEW d \in Nat \ {0}
    PROVE  a \div d <= b \div d
  OBVIOUS

LEMMA RowOrder ==
    ASSUME NEW a \in Int, NEW b \in Int, a < b, NEW d \in Nat \ {0}
    PROVE  (a * d) + d <= b * d
  OBVIOUS

\* Moving by whole rows.
LEMMA Shift ==
    ASSUME NEW a \in Int, NEW w \in Int, NEW c \in Int, NEW d \in Nat \ {0}
    PROVE  /\ ((a * d) + c) - (d * w) = ((a - w) * d) + c
           /\ ((a * d) + c) + (d * w) = ((a + w) * d) + c
  OBVIOUS

\* A non-empty finite set of integers has its largest and smallest element:
\* what is above (below) an element is a strict subset for a larger (smaller) one.
LEMMA MaxFound ==
    ASSUME NEW S, S \subseteq Int, IsFiniteSet(S), S # {}
    PROVE  Max(S) \in S /\ \A s \in S : s <= Max(S)
<1> DEFINE Above(x) == {y \in S : y > x}
           Tops == {Above(x) : x \in S}
<1>1. IsWellFoundedOn(StrictSubsetOrdering(S), SUBSET S)
  BY FS_StrictSubsetOrderingWellFounded, FS_FiniteSubsetsOfFinite
<1>2. Tops \subseteq SUBSET S /\ Tops # {}
  OBVIOUS
<1>3. PICK top \in Tops : \A other \in Tops : ~(<<other, top>> \in StrictSubsetOrdering(S))
  BY <1>1, <1>2, WFMin
<1>4. PICK x \in S : top = Above(x)
  OBVIOUS
<1>5. ASSUME NEW y \in Above(x) PROVE FALSE
  <2>1. y \in S /\ Above(y) \subseteq Above(x)
    <3>1. y \in Int /\ x \in Int /\ y > x
      OBVIOUS
    <3>2. \A z \in S : z > y => z > x
      BY <3>1
    <3> QED
      BY <3>2
  <2>2. y \notin Above(y) /\ y \in Above(x)
    OBVIOUS
  <2>3. <<Above(y), Above(x)>> \in StrictSubsetOrdering(S)
    BY <2>1, <2>2 DEF StrictSubsetOrdering
  <2> QED
    BY <1>3, <1>4, <2>1, <2>3
<1>6. x \in S /\ \A y \in S : x >= y
  BY <1>5
<1>7. Max(S) \in S /\ \A y \in S : Max(S) >= y
  <2> HIDE DEF Above, Tops
  <2> QED
    BY <1>6 DEF Max
<1> QED
  BY <1>7

LEMMA MinFound ==
    ASSUME NEW S, S \subseteq Int, IsFiniteSet(S), S # {}
    PROVE  Min(S) \in S /\ \A s \in S : Min(S) <= s
<1> DEFINE Below(x) == {y \in S : y < x}
           Tops == {Below(x) : x \in S}
<1>1. IsWellFoundedOn(StrictSubsetOrdering(S), SUBSET S)
  BY FS_StrictSubsetOrderingWellFounded, FS_FiniteSubsetsOfFinite
<1>2. Tops \subseteq SUBSET S /\ Tops # {}
  OBVIOUS
<1>3. PICK top \in Tops : \A other \in Tops : ~(<<other, top>> \in StrictSubsetOrdering(S))
  BY <1>1, <1>2, WFMin
<1>4. PICK x \in S : top = Below(x)
  OBVIOUS
<1>5. ASSUME NEW y \in Below(x) PROVE FALSE
  <2>1. y \in S /\ Below(y) \subseteq Below(x)
    <3>1. y \in Int /\ x \in Int /\ y < x
      OBVIOUS
    <3>2. \A z \in S : z < y => z < x
      BY <3>1
    <3> QED
      BY <3>2
  <2>2. y \notin Below(y) /\ y \in Below(x)
    OBVIOUS
  <2>3. <<Below(y), Below(x)>> \in StrictSubsetOrdering(S)
    BY <2>1, <2>2 DEF StrictSubsetOrdering
  <2> QED
    BY <1>3, <1>4, <2>1, <2>3
<1>6. x \in S /\ \A y \in S : x <= y
  BY <1>5
<1>7. Min(S) \in S /\ \A y \in S : Min(S) =< y
  <2> HIDE DEF Below, Tops
  <2> QED
    BY <1>6 DEF Min
<1> QED
  BY <1>7

-----------------------------------------------------------------------------
(* The calendar *)

LEMMA CalendarTypes ==
    /\ DayLen \in Nat \ {0} /\ HourLen \in Nat \ {0} /\ DayHours \in Nat \ {0}
    /\ WeekLen \in Nat \ {0} /\ MonthLen \in Nat \ {0} /\ MaxScanDays \in Nat \ {0}
    /\ WeekLen < MaxScanDays
  BY CalendarAssumption DEF DayLen

\* A time is its day and its clock.
LEMMA DayParts ==
    ASSUME NEW t \in Int
    PROVE  /\ Day(t) \in Int /\ t % DayLen \in 0 .. DayLen - 1
           /\ t = AtOn(Day(t), t % DayLen)
  BY DivMod, CalendarTypes DEF Day, AtOn

LEMMA OnDay ==
    ASSUME NEW d \in Int, NEW c \in 0 .. DayLen - 1
    PROVE  AtOn(d, c) \in Int /\ Day(AtOn(d, c)) = d /\ AtOn(d, c) % DayLen = c
  BY DivOf, CalendarTypes DEF Day, AtOn

LEMMA DayOrder ==
    ASSUME NEW a \in Int, NEW b \in Int
    PROVE  /\ a <= b => Day(a) <= Day(b)
           /\ Day(a) < Day(b) => a < b
  BY DivOrder, CalendarTypes DEF Day

\* So far from the origin, no scan and no week goes back beyond it.
LEMMA DistantDay ==
    ASSUME NEW t, Distant(t)
    PROVE  t \in Nat /\ Day(t) \in Nat /\ Day(t) >= MaxScanDays /\ Day(t) > WeekLen
<1>1. t \div DayLen >= MaxScanDays
  BY CalendarTypes DEF Distant
<1> QED
  BY <1>1, CalendarTypes, DivMod DEF Distant, Day

LEMMA DayShift ==
    ASSUME NEW t \in Int, NEW w \in Int
    PROVE  Day(t - (DayLen * w)) = Day(t) - w /\ Day(t + (DayLen * w)) = Day(t) + w
<1>1. PICK c \in 0 .. DayLen - 1 : t = Day(t) * DayLen + c /\ Day(t) \in Int
  BY DayParts DEF AtOn
<1>2. /\ t - (DayLen * w) = ((Day(t) - w) * DayLen) + c
      /\ t + (DayLen * w) = ((Day(t) + w) * DayLen) + c
  BY <1>1, CalendarTypes, Shift
<1> QED
  BY <1>1, <1>2, OnDay DEF AtOn

-----------------------------------------------------------------------------
(* The scan, day by day, of weekly and cron schedules *)

\* A time of one of the days D at one of the clocks C.
Hits(t, C, D) == Day(t) \in D /\ t % DayLen \in C

Back(time, n, C, D) ==
    [k \in 0 .. n |-> {t \in {AtOn(Day(time) - k, c) : c \in C} : Day(time) - k \in D /\ t <= time}]
Forth(time, n, C, D) ==
    [k \in 0 .. n |-> {t \in {AtOn(Day(time) + k, c) : c \in C} : Day(time) + k \in D /\ t > time}]

\* FirstDay is the first day of the scan with a hit, unless there is none.
LEMMA FirstDayFound ==
    ASSUME NEW n \in Nat, NEW f, DOMAIN f = 0 .. n
    PROVE  \/ FirstDay(f) = {} /\ \A k \in 0 .. n : f[k] = {}
           \/ \E k \in 0 .. n : /\ FirstDay(f) = f[k] /\ f[k] # {}
                                /\ \A i \in 0 .. n : i < k => f[i] = {}
<1> DEFINE hits == {k \in DOMAIN f : f[k] # {}}
<1>1. hits \subseteq Int /\ IsFiniteSet(hits)
  <2>1. hits \subseteq 0 .. n
    OBVIOUS
  <2>2. IsFiniteSet(0 .. n)
    BY FS_Interval
  <2>3. hits \subseteq Int
    BY <2>1
  <2> HIDE DEF hits
  <2> QED
    BY <2>1, <2>2, <2>3, FS_Subset
<1>2. FirstDay(f) = IF hits = {} THEN {} ELSE f[Min(hits)]
  BY DEF FirstDay
<1>3. CASE hits = {}
  BY <1>2, <1>3
<1>4. CASE hits # {}
  <2>1. Min(hits) \in hits /\ \A i \in hits : Min(hits) <= i
    <3> HIDE DEF hits
    <3> QED
      BY <1>1, <1>4, MinFound
  <2>2. PICK k \in hits : FirstDay(f) = f[k] /\ \A i \in hits : k <= i
    BY <1>2, <1>4, <2>1
  <2> QED
    BY <2>2
<1> QED
  BY <1>3, <1>4

\* What one day of the scan holds.
LEMMA BackHits ==
    ASSUME NEW time \in Int, NEW n \in Nat, NEW C, C \subseteq 0 .. DayLen - 1, NEW D,
           NEW k \in 0 .. n, NEW t
    PROVE  t \in Back(time, n, C, D)[k] <=>
              t \in Int /\ t <= time /\ Day(t) = Day(time) - k /\ Hits(t, C, D)
<1>1. Day(time) - k \in Int
  BY DayParts
<1>2. ASSUME t \in Back(time, n, C, D)[k]
      PROVE  t \in Int /\ t <= time /\ Day(t) = Day(time) - k /\ Hits(t, C, D)
  <2>1. PICK c \in C : t = AtOn(Day(time) - k, c)
    BY <1>2 DEF Back
  <2>2. Day(time) - k \in D /\ t <= time
    BY <1>2 DEF Back
  <2> QED
    BY <1>1, <2>1, <2>2, OnDay DEF Hits
<1>3. ASSUME t \in Int, t <= time, Day(t) = Day(time) - k, Hits(t, C, D)
      PROVE  t \in Back(time, n, C, D)[k]
  <2>1. t = AtOn(Day(time) - k, t % DayLen)
    BY <1>3, DayParts
  <2>2. t \in {AtOn(Day(time) - k, c) : c \in C}
    BY <1>3, <2>1 DEF Hits
  <2> QED
    BY <1>3, <2>2 DEF Back, Hits
<1> QED
  BY <1>2, <1>3

LEMMA ForthHits ==
    ASSUME NEW time \in Int, NEW n \in Nat, NEW C, C \subseteq 0 .. DayLen - 1, NEW D,
           NEW k \in 0 .. n, NEW t
    PROVE  t \in Forth(time, n, C, D)[k] <=>
              t \in Int /\ t > time /\ Day(t) = Day(time) + k /\ Hits(t, C, D)
<1>1. Day(time) + k \in Int
  BY DayParts
<1>2. ASSUME t \in Forth(time, n, C, D)[k]
      PROVE  t \in Int /\ t > time /\ Day(t) = Day(time) + k /\ Hits(t, C, D)
  <2>1. PICK c \in C : t = AtOn(Day(time) + k, c)
    BY <1>2 DEF Forth
  <2>2. Day(time) + k \in D /\ t > time
    BY <1>2 DEF Forth
  <2> QED
    BY <1>1, <2>1, <2>2, OnDay DEF Hits
<1>3. ASSUME t \in Int, t > time, Day(t) = Day(time) + k, Hits(t, C, D)
      PROVE  t \in Forth(time, n, C, D)[k]
  <2>1. t = AtOn(Day(time) + k, t % DayLen)
    BY <1>3, DayParts
  <2>2. t \in {AtOn(Day(time) + k, c) : c \in C}
    BY <1>3, <2>1 DEF Hits
  <2> QED
    BY <1>3, <2>2 DEF Forth, Hits
<1> QED
  BY <1>2, <1>3

\* A day holds finitely many instants.
LEMMA DayFinite ==
    ASSUME NEW S, NEW d \in Int, \A t \in S : t \in Int /\ Day(t) = d
    PROVE  IsFiniteSet(S)
<1>1. \A t \in S : t \in AtOn(d, 0) .. AtOn(d, DayLen)
  <2>1. ASSUME NEW t \in S PROVE t \in AtOn(d, 0) .. AtOn(d, DayLen)
    <3>1. t \in Int /\ t % DayLen \in 0 .. DayLen - 1 /\ t = AtOn(d, t % DayLen)
      BY DayParts
    <3>2. d * DayLen \in Int
      BY CalendarTypes
    <3> QED
      BY <3>1, <3>2, CalendarTypes DEF AtOn
  <2> QED
    BY <2>1
<1>2. IsFiniteSet(AtOn(d, 0) .. AtOn(d, DayLen))
  <2>1. d * DayLen \in Int
    BY CalendarTypes
  <2>2. AtOn(d, 0) \in Int /\ AtOn(d, DayLen) \in Int
    BY <2>1, CalendarTypes DEF AtOn
  <2> QED
    BY <2>2, FS_Interval
<1>3. S \subseteq AtOn(d, 0) .. AtOn(d, DayLen)
  BY <1>1
<1> QED
  BY <1>2, <1>3, FS_Subset

\* The scan back finds the last hit of its days, the scan forth the first.
LEMMA BackFound ==
    ASSUME NEW time \in Int, NEW n \in Nat, n < Day(time), NEW C,
           C \subseteq 0 .. DayLen - 1, NEW D,
           NEW last, last = LatestOf(FirstDay(Back(time, n, C, D)))
    PROVE  /\ last # NoInstant => /\ last \in Nat /\ last <= time /\ Hits(last, C, D)
                                  /\ Day(last) >= Day(time) - n
           /\ \A t \in Int : t <= time /\ last < t /\ Day(t) >= Day(time) - n => ~Hits(t, C, D)
<1> DEFINE f == Back(time, n, C, D)
<1>1. DOMAIN f = 0 .. n
  BY DEF Back
<1>2. \A k \in 0 .. n : \A t : t \in f[k] <=>
          t \in Int /\ t <= time /\ Day(t) = Day(time) - k /\ Hits(t, C, D)
  BY BackHits
<1>3. ASSUME NEW t \in Int, t <= time, Day(t) >= Day(time) - n, Hits(t, C, D)
      PROVE  \E k \in 0 .. n : t \in f[k] /\ k = Day(time) - Day(t)
  <2>1. Day(t) <= Day(time) /\ Day(t) \in Int /\ Day(time) \in Int
    BY <1>3, DayOrder, DayParts
  <2>2. Day(time) - Day(t) \in 0 .. n /\ Day(t) = Day(time) - (Day(time) - Day(t))
    BY <1>3, <2>1
  <2> QED
    BY <1>2, <1>3, <2>2
<1>4. last = LatestOf(FirstDay(f))
  OBVIOUS
<1> HIDE DEF f
<1>5. CASE FirstDay(f) = {} /\ \A k \in 0 .. n : f[k] = {}
  <2>1. last = NoInstant
    BY <1>4, <1>5 DEF LatestOf
  <2> QED
    BY <1>3, <1>5, <2>1
<1>6. ASSUME NEW k \in 0 .. n, FirstDay(f) = f[k], f[k] # {}, \A i \in 0 .. n : i < k => f[i] = {}
      PROVE  /\ last # NoInstant => /\ last \in Nat /\ last <= time /\ Hits(last, C, D)
                                    /\ Day(last) >= Day(time) - n
             /\ \A t \in Int : t <= time /\ last < t /\ Day(t) >= Day(time) - n => ~Hits(t, C, D)
  <2>1. f[k] \subseteq Int /\ IsFiniteSet(f[k])
    <3>1. Day(time) - k \in Int
      BY DayParts
    <3> QED
      BY <1>2, <3>1, DayFinite
  <2>2. last = Max(f[k])
    BY <1>4, <1>6 DEF LatestOf
  <2>3. last \in f[k] /\ \A t \in f[k] : t <= last
    BY <1>6, <2>1, <2>2, MaxFound
  <2>4. last \in Int /\ last <= time /\ Day(last) = Day(time) - k /\ Hits(last, C, D)
    BY <1>2, <2>3
  <2>5. last \in Nat
    <3>1. Day(0) = 0
      BY CalendarTypes DEF Day
    <3>2. Day(0) < Day(last)
      BY <2>4, <3>1, DayParts
    <3> QED
      BY <2>4, <3>2, DayOrder
  <2>6. ASSUME NEW t \in Int, t <= time, last < t, Day(t) >= Day(time) - n, Hits(t, C, D)
        PROVE  FALSE
    <3>1. PICK i \in 0 .. n : t \in f[i] /\ i = Day(time) - Day(t)
      BY <1>3, <2>6
    <3>2. ~(i < k)
      BY <1>6, <3>1
    <3>3. Day(last) <= Day(t)
      BY <2>4, <2>6, DayOrder
    <3>4. i = k
      BY <2>4, <3>1, <3>2, <3>3, DayParts
    <3> QED
      BY <2>3, <2>4, <2>6, <3>1, <3>4
  <2>7. Day(time) \in Int /\ Day(last) >= Day(time) - n
    BY <2>4, DayParts
  <2> QED
    BY <2>4, <2>5, <2>6, <2>7
<1> QED
  BY <1>1, <1>5, <1>6, FirstDayFound

LEMMA ForthFound ==
    ASSUME NEW time \in Nat, NEW n \in Nat, NEW C, C \subseteq 0 .. DayLen - 1, NEW D,
           NEW next, next = EarliestOf(FirstDay(Forth(time, n, C, D)))
    PROVE  /\ next # NoInstant => /\ next \in Nat /\ next > time /\ Hits(next, C, D)
                                  /\ Day(next) <= Day(time) + n
           /\ \A t \in Int : /\ t > time /\ Day(t) <= Day(time) + n
                             /\ next = NoInstant \/ t < next
                             => ~Hits(t, C, D)
<1> DEFINE f == Forth(time, n, C, D)
<1>1. DOMAIN f = 0 .. n
  BY DEF Forth
<1>2. \A k \in 0 .. n : \A t : t \in f[k] <=>
          t \in Int /\ t > time /\ Day(t) = Day(time) + k /\ Hits(t, C, D)
  BY ForthHits
<1>3. ASSUME NEW t \in Int, t > time, Day(t) <= Day(time) + n, Hits(t, C, D)
      PROVE  \E k \in 0 .. n : t \in f[k] /\ k = Day(t) - Day(time)
  <2>1. Day(time) <= Day(t) /\ Day(t) \in Int /\ Day(time) \in Int
    BY <1>3, DayOrder, DayParts
  <2>2. Day(t) - Day(time) \in 0 .. n /\ Day(t) = Day(time) + (Day(t) - Day(time))
    BY <1>3, <2>1
  <2> QED
    BY <1>2, <1>3, <2>2
<1>4. next = EarliestOf(FirstDay(f))
  OBVIOUS
<1> HIDE DEF f
<1>5. CASE FirstDay(f) = {} /\ \A k \in 0 .. n : f[k] = {}
  <2>1. next = NoInstant
    BY <1>4, <1>5 DEF EarliestOf
  <2> QED
    BY <1>3, <1>5, <2>1
<1>6. ASSUME NEW k \in 0 .. n, FirstDay(f) = f[k], f[k] # {}, \A i \in 0 .. n : i < k => f[i] = {}
      PROVE  /\ next # NoInstant => /\ next \in Nat /\ next > time /\ Hits(next, C, D)
                                    /\ Day(next) <= Day(time) + n
             /\ \A t \in Int : /\ t > time /\ Day(t) <= Day(time) + n
                               /\ next = NoInstant \/ t < next
                               => ~Hits(t, C, D)
  <2>1. f[k] \subseteq Int /\ IsFiniteSet(f[k])
    <3>1. Day(time) + k \in Int
      BY DayParts
    <3> QED
      BY <1>2, <3>1, DayFinite
  <2>2. next = Min(f[k])
    BY <1>4, <1>6 DEF EarliestOf
  <2>3. next \in f[k] /\ \A t \in f[k] : next <= t
    BY <1>6, <2>1, <2>2, MinFound
  <2>4. next \in Nat /\ next > time /\ Day(next) = Day(time) + k /\ Hits(next, C, D)
    BY <1>2, <2>3
  <2>5. next # NoInstant
    BY <2>4 DEF NoInstant
  <2>6. ASSUME NEW t \in Int, t > time, t < next, Day(t) <= Day(time) + n, Hits(t, C, D) PROVE FALSE
    <3>1. PICK i \in 0 .. n : t \in f[i] /\ i = Day(t) - Day(time)
      BY <1>3, <2>6
    <3>2. ~(i < k)
      BY <1>6, <3>1
    <3>3. Day(t) <= Day(next)
      BY <2>4, <2>6, DayOrder
    <3>4. i = k
      BY <2>4, <3>1, <3>2, <3>3, DayParts
    <3> QED
      BY <2>3, <2>4, <2>6, <3>1, <3>4
  <2>7. Day(time) \in Int /\ Day(next) <= Day(time) + n
    BY <2>4, DayParts
  <2> QED
    BY <2>4, <2>5, <2>6, <2>7
<1> QED
  BY <1>1, <1>5, <1>6, FirstDayFound

-----------------------------------------------------------------------------
(* Every kind of schedule *)

LastSound(r, time) ==
    LET last == LastInstant(r, time)
    IN  /\ last # NoInstant => last \in Nat /\ last <= time /\ Occurs(r, last)
        /\ \A t \in Int :
              /\ t <= time
              /\ IF last = NoInstant THEN Day(t) >= Day(time) - WeekLen ELSE last < t
              => ~Occurs(r, t)

NextSound(r, time) ==
    LET next == NextInstant(r, time)
    IN  /\ next # NoInstant => next \in Nat /\ next > time /\ Occurs(r, next)
        /\ \A t \in Int :
              /\ t > time
              /\ IF next = NoInstant THEN Day(t) <= Day(time) + WeekLen ELSE t < next
              => ~Occurs(r, t)

\* One kind of schedule after the other, the daily by its only clock.
LEMMA OnceSound ==
    ASSUME NEW r, r.when = "once", WellFormed(r), NEW time, Distant(time)
    PROVE  LastSound(r, time) /\ NextSound(r, time)
<1>1. time \in Nat /\ r.at \in Nat /\ \A t : Occurs(r, t) <=> t = r.at
  BY DistantDay DEF WellFormed, Occurs
<1>2. LastInstant(r, time) = IF r.at <= time THEN r.at ELSE NoInstant
  BY DEF LastInstant, LastOnce
<1>3. NextInstant(r, time) = IF r.at > time THEN r.at ELSE NoInstant
  BY DEF NextInstant, NextOnce
<1>4. NoInstant \notin Nat
  BY DEF NoInstant
<1>5. LastSound(r, time)
  BY <1>1, <1>2, <1>4 DEF LastSound
<1>6. NextSound(r, time)
  BY <1>1, <1>3, <1>4 DEF NextSound
<1> QED
  BY <1>5, <1>6

\* One instant a day has a given clock.
LEMMA OneADay ==
    ASSUME NEW s \in Int, NEW t \in Int, Day(s) = Day(t), s % DayLen = t % DayLen
    PROVE  s = t
<1>1. s = AtOn(Day(s), s % DayLen) /\ t = AtOn(Day(t), t % DayLen)
  BY DayParts
<1> QED
  BY <1>1

LEMMA NextDay ==
    ASSUME NEW d \in Int, NEW c \in 0 .. DayLen - 1
    PROVE  /\ AtOn(d, c) - DayLen = AtOn(d - 1, c) /\ AtOn(d, c) + DayLen = AtOn(d + 1, c)
           /\ AtOn(d - 1, c) <= AtOn(d, c)
<1>1. c \in Int /\ DayLen \in Nat \ {0}
  BY CalendarTypes
<1>2. /\ ((d * DayLen) + c) - (DayLen * 1) = ((d - 1) * DayLen) + c
      /\ ((d * DayLen) + c) + (DayLen * 1) = ((d + 1) * DayLen) + c
  BY <1>1, Shift
<1>3. d * DayLen \in Int /\ (d - 1) * DayLen \in Int /\ (d + 1) * DayLen \in Int
  BY <1>1
<1> QED
  BY <1>1, <1>2, <1>3 DEF AtOn

LEMMA DailySound ==
    ASSUME NEW r, r.when = "daily", WellFormed(r), NEW time, Distant(time)
    PROVE  LastSound(r, time) /\ NextSound(r, time)
<1>1. time \in Nat /\ Day(time) \in Nat /\ Day(time) > 1 /\ r.at \in 0 .. DayLen - 1
  BY DistantDay, CalendarTypes DEF WellFormed
<1>2. \A t : Occurs(r, t) <=> t % DayLen = r.at
  BY DEF Occurs
<1> DEFINE today == AtOn(Day(time), r.at)
           before == AtOn(Day(time) - 1, r.at)
           after == AtOn(Day(time) + 1, r.at)
<1>3. LastInstant(r, time) = IF today <= time THEN today ELSE before
  BY <1>1, NextDay DEF LastInstant, LastDaily
<1>4. NextInstant(r, time) = IF today > time THEN today ELSE after
  BY <1>1, NextDay DEF NextInstant, NextDaily
<1>5. /\ today \in Int /\ Day(today) = Day(time) /\ today % DayLen = r.at
      /\ before \in Int /\ Day(before) = Day(time) - 1 /\ before % DayLen = r.at
      /\ after \in Int /\ Day(after) = Day(time) + 1 /\ after % DayLen = r.at
  <2>1. Day(time) \in Int /\ Day(time) - 1 \in Int /\ Day(time) + 1 \in Int
    BY <1>1
  <2> QED
    BY <1>1, <2>1, OnDay
<1> HIDE DEF today, before, after
<1>6. before < time /\ time < after
  BY <1>1, <1>5, DayOrder
<1>7. before \in Nat /\ today \in Nat
  <2>1. Day(0) = 0
    BY CalendarTypes DEF Day
  <2>2. Day(0) < Day(before) /\ Day(0) < Day(today)
    BY <1>1, <1>5, <2>1
  <2> QED
    BY <1>5, <2>2, DayOrder
<1>8. NoInstant \notin Nat
  BY DEF NoInstant
<1>9. LastSound(r, time)
  <2>1. ASSUME NEW t \in Int, t <= time, LastInstant(r, time) < t, Occurs(r, t) PROVE FALSE
    <3>1. t % DayLen = r.at /\ Day(t) \in Int
      BY <1>2, <2>1, DayParts
    <3>2. Day(t) <= Day(time) /\ Day(LastInstant(r, time)) <= Day(t)
      BY <1>1, <1>3, <1>5, <2>1, DayOrder
    <3>3. Day(t) = Day(time) \/ (Day(t) = Day(time) - 1 /\ ~(today <= time))
      BY <1>1, <1>3, <1>5, <3>1, <3>2
    <3>4. t = today \/ (t = before /\ ~(today <= time))
      BY <1>5, <3>1, <3>3, OneADay
    <3> QED
      BY <1>1, <1>3, <1>5, <2>1, <3>4
  <2>2. /\ LastInstant(r, time) \in Nat /\ LastInstant(r, time) <= time
        /\ Occurs(r, LastInstant(r, time))
    BY <1>1, <1>2, <1>3, <1>5, <1>6, <1>7
  <2> QED
    BY <1>8, <2>1, <2>2 DEF LastSound
<1>10. NextSound(r, time)
  <2>1. ASSUME NEW t \in Int, t > time, NextInstant(r, time) > t, Occurs(r, t) PROVE FALSE
    <3>1. t % DayLen = r.at /\ Day(t) \in Int
      BY <1>2, <2>1, DayParts
    <3>2. Day(t) >= Day(time) /\ Day(NextInstant(r, time)) >= Day(t)
      BY <1>1, <1>4, <1>5, <2>1, DayOrder
    <3>3. Day(t) = Day(time) \/ (Day(t) = Day(time) + 1 /\ ~(today > time))
      BY <1>1, <1>4, <1>5, <3>1, <3>2
    <3>4. t = today \/ (t = after /\ ~(today > time))
      BY <1>5, <3>1, <3>3, OneADay
    <3> QED
      BY <1>1, <1>4, <1>5, <2>1, <3>4
  <2>2. /\ NextInstant(r, time) \in Nat /\ NextInstant(r, time) > time
        /\ Occurs(r, NextInstant(r, time))
    BY <1>1, <1>2, <1>4, <1>5, <1>6, <1>7
  <2> QED
    BY <1>8, <2>1, <2>2 DEF NextSound
<1> QED
  BY <1>9, <1>10

\* The points of a grid of width s around m.
LEMMA Grid ==
    ASSUME NEW m \in Nat, NEW s \in Nat \ {0}
    PROVE  /\ (m \div s) * s \in 0 .. m /\ ((m \div s) * s) % s = 0
           /\ (m \div s + 1) * s \in Nat /\ (m \div s + 1) * s > m
           /\ ((m \div s + 1) * s) % s = 0
           /\ \A y \in Nat : y % s = 0 => /\ y <= m => y <= (m \div s) * s
                                          /\ y > m => y >= (m \div s + 1) * s
<1> DEFINE q == m \div s
<1>1. q \in Nat /\ m = (q * s) + (m % s) /\ m % s \in 0 .. s - 1
  <2>1. q \in Int /\ m = (q * s) + (m % s) /\ m % s \in 0 .. s - 1
    BY DivMod
  <2>2. 0 \div s = 0 /\ 0 \div s <= m \div s
    BY DivOrder
  <2> QED
    BY <2>1, <2>2
<1>2. q * s \in Nat /\ (q + 1) * s = (q * s) + s
  BY <1>1
<1>3. (q * s) % s = 0 /\ ((q + 1) * s) % s = 0
  <2>1. ((q * s) + 0) % s = 0 /\ (((q + 1) * s) + 0) % s = 0
    BY <1>1, DivOf
  <2> QED
    BY <1>2, <2>1
<1>4. ASSUME NEW y \in Nat, y % s = 0
      PROVE  /\ y <= m => y <= q * s
             /\ y > m => y >= (q + 1) * s
  <2>1. y = (y \div s) * s /\ y \div s \in Int
    BY <1>4, DivMod
  <2>2. CASE y <= m
    <3>1. y \div s <= q
      BY <2>2, DivOrder
    <3>2. y \div s = q \/ ((y \div s) * s) + s <= q * s
      BY <1>1, <2>1, <3>1, RowOrder
    <3> QED
      BY <1>1, <1>2, <2>1, <2>2, <3>2
  <2>3. CASE y > m
    <3>1. ASSUME y \div s <= q PROVE FALSE
      <4>1. y \div s = q \/ ((y \div s) * s) + s <= q * s
        BY <1>1, <2>1, <3>1, RowOrder
      <4> QED
        BY <1>1, <1>2, <2>1, <2>3, <4>1
    <3>2. y \div s = q + 1 \/ ((q + 1) * s) + s <= (y \div s) * s
      BY <1>1, <2>1, <3>1, RowOrder
    <3> QED
      BY <1>1, <1>2, <2>1, <2>3, <3>2
  <2> QED
    BY <2>2, <2>3
<1> QED
  BY <1>1, <1>2, <1>3, <1>4

\* The grid of a day, which starts over at midnight.
LEMMA EverySound ==
    ASSUME NEW r, r.when = "every", WellFormed(r), NEW time, Distant(time)
    PROVE  LastSound(r, time) /\ NextSound(r, time)
<1> DEFINE d == Day(time)
           m == time % DayLen
           x == (m \div r.step) * r.step
           y == (m \div r.step + 1) * r.step
           base == d * DayLen
<1>1. time \in Nat /\ d \in Nat /\ r.step \in Nat \ {0} /\ DayLen \in Nat \ {0}
  BY DistantDay, CalendarTypes DEF WellFormed
<1>2. m \in 0 .. DayLen - 1 /\ time = AtOn(d, m)
  BY <1>1, DayParts
<1>3. \A t : Occurs(r, t) <=> (t % DayLen) % r.step = 0
  BY DEF Occurs
<1>4. /\ x \in 0 .. m /\ x % r.step = 0
      /\ y \in Nat /\ y > m /\ y % r.step = 0
      /\ \A z \in Nat : z % r.step = 0 => (z <= m => z <= x) /\ (z > m => z >= y)
  <2>1. m \in Nat
    BY <1>1, <1>2
  <2> HIDE DEF m
  <2> QED
    BY <1>1, <2>1, Grid
<1>5. Midnight(time) = base /\ time - Midnight(time) = m /\ base \in Nat
  BY <1>1, <1>2 DEF Midnight, AtOn
<1>6. LastInstant(r, time) = base + x
  BY <1>5 DEF LastInstant, LastEvery
<1>7. NextInstant(r, time) =
          IF base + y >= base + DayLen THEN base + DayLen ELSE base + y
  BY <1>5 DEF NextInstant, NextEvery
<1>12. \A c : AtOn(d, c) = base + c
  BY DEF AtOn
<1> HIDE DEF d, m, x, y, base
<1>8. ASSUME NEW t \in Int
      PROVE  /\ t % DayLen \in 0 .. DayLen - 1 /\ Day(t) \in Int
             /\ Day(t) = d => t = base + (t % DayLen)
             /\ Day(t) > d => t >= base + DayLen
             /\ Day(t) < d => t < base
  <2>1. t % DayLen \in 0 .. DayLen - 1 /\ Day(t) \in Int /\ t = Day(t) * DayLen + (t % DayLen)
    BY DayParts DEF AtOn
  <2>4. ASSUME Day(t) = d PROVE t = base + (t % DayLen)
    BY <2>1, <2>4 DEF base
  <2>2. ASSUME Day(t) > d PROVE t >= base + DayLen
    <3>1. base + DayLen <= Day(t) * DayLen /\ Day(t) * DayLen \in Int
      BY <1>1, <2>1, <2>2, RowOrder DEF base
    <3> QED
      BY <1>1, <1>5, <2>1, <3>1
  <2>3. ASSUME Day(t) < d PROVE t < base
    <3>1. Day(t) * DayLen + DayLen <= base /\ Day(t) * DayLen \in Int
      BY <1>1, <2>1, <2>3, RowOrder DEF base
    <3> QED
      BY <1>1, <1>5, <2>1, <3>1
  <2> QED
    BY <2>1, <2>2, <2>3, <2>4
<1>9. NoInstant \notin Nat
  BY DEF NoInstant
<1>10. LastSound(r, time)
  <2>1. Occurs(r, base + x)
    <3>1. AtOn(d, x) % DayLen = x
      <4>1. d \in Int /\ x \in 0 .. DayLen - 1
        BY <1>1, <1>2, <1>4
      <4> QED
        BY <4>1, OnDay
    <3> QED
      BY <1>3, <1>4, <3>1, <1>12
  <2>2. ASSUME NEW t \in Int, t <= time, base + x < t, Occurs(r, t) PROVE FALSE
    <3>1. time = base + m
      BY <1>2, <1>12
    <3>2. Day(t) = d
      BY <1>1, <1>2, <1>4, <1>5, <1>8, <2>2, <3>1
    <3>3. t = base + (t % DayLen) /\ t % DayLen \in Nat /\ t % DayLen <= m
      BY <1>1, <1>2, <1>5, <1>8, <2>2, <3>1, <3>2
    <3>4. t % DayLen <= x
      BY <1>3, <1>4, <2>2, <3>3
    <3> QED
      BY <1>1, <1>2, <1>4, <1>5, <2>2, <3>3, <3>4
  <2>3. base + x \in Nat /\ base + x <= time
    BY <1>1, <1>2, <1>4, <1>5, <1>12
  <2> QED
    BY <1>6, <1>9, <2>1, <2>2, <2>3 DEF LastSound
<1>11. NextSound(r, time)
  <2> DEFINE next == NextInstant(r, time)
  <2>1. next \in Nat /\ next > time /\ next <= base + DayLen /\ next <= base + y
    BY <1>1, <1>2, <1>4, <1>5, <1>7, <1>12
  <2>2. Occurs(r, next)
    <3>1. CASE y < DayLen
      <4>1. d \in Int /\ y \in 0 .. DayLen - 1
        BY <1>1, <1>4, <3>1
      <4>2. next = AtOn(d, y)
        BY <1>1, <1>4, <1>5, <1>7, <3>1, <1>12
      <4> QED
        BY <1>3, <1>4, <4>1, <4>2, OnDay
    <3>2. CASE ~(y < DayLen)
      <4>1. d \in Int /\ d + 1 \in Int /\ 0 \in 0 .. DayLen - 1
        BY <1>1
      <4>2. next = base + DayLen
        BY <1>1, <1>4, <1>5, <1>7, <3>2
      <4>3. next = AtOn(d + 1, 0)
        BY <1>1, <1>5, <1>12, <4>1, <4>2, NextDay
      <4>4. next % DayLen = 0
        BY <4>1, <4>3, OnDay
      <4>5. 0 % r.step = 0
        BY <1>1
      <4> QED
        BY <1>3, <4>4, <4>5
    <3> QED
      BY <3>1, <3>2
  <2> HIDE DEF next
  <2>3. ASSUME NEW t \in Int, t > time, t < next, Occurs(r, t) PROVE FALSE
    <3>1. time = base + m
      BY <1>2, <1>12
    <3>2. Day(t) = d
      <4>1. ~(t < base)
        BY <1>2, <1>5, <2>3, <3>1
      <4>2. ~(t >= base + DayLen)
        BY <1>1, <1>5, <2>1, <2>3
      <4>3. Day(t) \in Int /\ d \in Int /\ ~(Day(t) < d) /\ ~(Day(t) > d)
        BY <1>1, <1>8, <4>1, <4>2
      <4> QED
        BY <4>3
    <3>3. t = base + (t % DayLen) /\ t % DayLen \in Nat /\ t % DayLen > m
      BY <1>1, <1>2, <1>5, <1>8, <2>3, <3>1, <3>2
    <3>4. t % DayLen >= y
      BY <1>3, <1>4, <2>3, <3>3
    <3> QED
      BY <1>1, <1>4, <1>5, <2>1, <2>3, <3>3, <3>4
  <2> QED
    BY <1>9, <2>1, <2>2, <2>3 DEF NextSound, next
<1> QED
  BY <1>10, <1>11

\* What a scan finds, when the occurrences are the hits of the scan.
LEMMA ScanSound ==
    ASSUME NEW r, NEW time, Distant(time), NEW n \in Nat, n >= WeekLen, n < MaxScanDays,
           NEW C, C \subseteq 0 .. DayLen - 1, NEW D,
           \A t \in Int : Occurs(r, t) <=> Hits(t, C, D),
           LastInstant(r, time) = LatestOf(FirstDay(Back(time, n, C, D))),
           NextInstant(r, time) = EarliestOf(FirstDay(Forth(time, n, C, D)))
    PROVE  LastSound(r, time) /\ NextSound(r, time)
<1>1. time \in Nat /\ time \in Int /\ Day(time) \in Nat /\ n < Day(time)
  BY DistantDay, CalendarTypes
<1>2. /\ LastInstant(r, time) # NoInstant =>
            /\ LastInstant(r, time) \in Nat /\ LastInstant(r, time) <= time
            /\ Hits(LastInstant(r, time), C, D) /\ Day(LastInstant(r, time)) >= Day(time) - n
      /\ \A t \in Int : /\ t <= time /\ LastInstant(r, time) < t /\ Day(t) >= Day(time) - n
                        => ~Hits(t, C, D)
  BY <1>1, BackFound
<1>3. /\ NextInstant(r, time) # NoInstant =>
            /\ NextInstant(r, time) \in Nat /\ NextInstant(r, time) > time
            /\ Hits(NextInstant(r, time), C, D) /\ Day(NextInstant(r, time)) <= Day(time) + n
      /\ \A t \in Int : /\ t > time /\ Day(t) <= Day(time) + n
                        /\ NextInstant(r, time) = NoInstant \/ t < NextInstant(r, time)
                        => ~Hits(t, C, D)
  BY <1>1, ForthFound
<1>4. ASSUME NEW t \in Int, t <= time, Hits(t, C, D),
             IF LastInstant(r, time) = NoInstant
             THEN Day(t) >= Day(time) - WeekLen ELSE LastInstant(r, time) < t
      PROVE  FALSE
  <2>1. Day(t) \in Int /\ WeekLen \in Nat
    BY DayParts, CalendarTypes
  <2>2. CASE LastInstant(r, time) # NoInstant
    <3>1. LastInstant(r, time) \in Int /\ Day(LastInstant(r, time)) <= Day(t)
      BY <1>2, <1>4, <2>2, DayOrder
    <3>2. Day(LastInstant(r, time)) \in Int
      BY <3>1, DayParts
    <3> QED
      BY <1>1, <1>2, <1>4, <2>1, <2>2, <3>1, <3>2
  <2>3. CASE LastInstant(r, time) = NoInstant
    <3>1. Day(t) >= Day(time) - n /\ Day(t) > 0
      BY <1>1, <1>4, <2>1, <2>3
    <3>2. Day(0) = 0 /\ 0 \in Int
      BY CalendarTypes DEF Day
    <3>3. 0 < t
      BY <3>1, <3>2, DayOrder
    <3> QED
      BY <1>2, <1>4, <2>3, <3>1, <3>3 DEF NoInstant
  <2> QED
    BY <2>2, <2>3
<1>5. ASSUME NEW t \in Int, t > time, Hits(t, C, D),
             IF NextInstant(r, time) = NoInstant
             THEN Day(t) <= Day(time) + WeekLen ELSE t < NextInstant(r, time)
      PROVE  FALSE
  <2>1. Day(t) \in Int /\ WeekLen \in Nat
    BY DayParts, CalendarTypes
  <2>2. CASE NextInstant(r, time) # NoInstant
    <3>1. NextInstant(r, time) \in Int /\ Day(t) <= Day(NextInstant(r, time))
      BY <1>3, <1>5, <2>2, DayOrder
    <3>2. Day(NextInstant(r, time)) \in Int
      BY <3>1, DayParts
    <3> QED
      BY <1>1, <1>3, <1>5, <2>1, <2>2, <3>1, <3>2
  <2>3. CASE NextInstant(r, time) = NoInstant
    <3>1. Day(t) <= Day(time) + n
      BY <1>1, <1>5, <2>1, <2>3
    <3> QED
      BY <1>3, <1>5, <2>3, <3>1
  <2> QED
    BY <2>2, <2>3
<1>6. LastSound(r, time)
  BY <1>2, <1>4 DEF LastSound
<1>7. NextSound(r, time)
  BY <1>3, <1>5 DEF NextSound
<1> QED
  BY <1>6, <1>7

\* Weekly: a scan of a whole week at one clock.
LEMMA WeeklySound ==
    ASSUME NEW r, r.when = "weekly", WellFormed(r), NEW time, Distant(time)
    PROVE  LastSound(r, time) /\ NextSound(r, time)
<1> DEFINE D == {d \in Int : Weekday(d) \in r.days}
<1>1. r.at \in 0 .. DayLen - 1 /\ Day(time) \in Int
  BY DistantDay, DayParts DEF WellFormed
<1>2. \A t \in Int : Occurs(r, t) <=> Hits(t, {r.at}, D)
  BY DayParts DEF Occurs, Hits
<1>3. LastInstant(r, time) = LatestOf(FirstDay(Back(time, WeekLen, {r.at}, D)))
  <2>1. LastInstant(r, time) = LastWeekly(r, time)
    BY DEF LastInstant
  <2>2. \A k \in 0 .. WeekLen : Weekday(Day(time) - k) \in r.days <=> Day(time) - k \in D
    BY <1>1, CalendarTypes
  <2> HIDE DEF D
  <2>3. \A k : {AtOn(Day(time) - k, r.at)} = {AtOn(Day(time) - k, c) : c \in {r.at}}
    OBVIOUS
  <2>4. \A k \in 0 .. WeekLen :
            {t \in {AtOn(Day(time) - k, r.at)} : Weekday(Day(time) - k) \in r.days /\ t <= time}
                = {t \in {AtOn(Day(time) - k, c) : c \in {r.at}} : Day(time) - k \in D /\ t <= time}
    BY <2>2, <2>3
  <2> QED
    BY <2>1, <2>4 DEF LastWeekly, Back
<1>4. NextInstant(r, time) = EarliestOf(FirstDay(Forth(time, WeekLen, {r.at}, D)))
  <2>1. NextInstant(r, time) = NextWeekly(r, time)
    BY DEF NextInstant
  <2>2. \A k \in 0 .. WeekLen : Weekday(Day(time) + k) \in r.days <=> Day(time) + k \in D
    BY <1>1, CalendarTypes
  <2> HIDE DEF D
  <2>3. \A k : {AtOn(Day(time) + k, r.at)} = {AtOn(Day(time) + k, c) : c \in {r.at}}
    OBVIOUS
  <2>4. \A k \in 0 .. WeekLen :
            {t \in {AtOn(Day(time) + k, r.at)} : Weekday(Day(time) + k) \in r.days /\ t > time}
                = {t \in {AtOn(Day(time) + k, c) : c \in {r.at}} : Day(time) + k \in D /\ t > time}
    BY <2>2, <2>3
  <2> QED
    BY <2>1, <2>4 DEF NextWeekly, Forth
<1> HIDE DEF D
<1> QED
  BY <1>1, <1>2, <1>3, <1>4, ScanSound, CalendarTypes

\* Days of hours of minutes.
LEMMA Nested ==
    ASSUME NEW d \in Int, NEW h \in Nat \ {0}, NEW w \in Nat \ {0}, NEW b \in Int, NEW e \in Int
    PROVE  (d * (h * w)) + ((b * h) + e) = (((d * w) + b) * h) + e
  OBVIOUS

\* The clocks of a cron expression are the minutes and hours of a day it names.
LEMMA CronClock ==
    ASSUME NEW r, r.when = "cron", WellFormed(r)
    PROVE  /\ CronClocks(r) \subseteq 0 .. DayLen - 1
           /\ \A t \in Int : t % DayLen \in CronClocks(r) <=>
                                MinuteOf(t) \in r.minutes /\ HourOf(t) \in r.hours
<1>1. r.minutes \subseteq 0 .. HourLen - 1 /\ r.hours \subseteq 0 .. DayHours - 1
  BY DEF WellFormed
<1>2. ASSUME NEW h \in 0 .. DayHours - 1, NEW m \in 0 .. HourLen - 1
      PROVE  /\ h * HourLen + m \in 0 .. DayLen - 1
             /\ (h * HourLen + m) \div HourLen = h /\ (h * HourLen + m) % HourLen = m
  <2>1. h * HourLen \in Nat /\ h * HourLen + HourLen <= DayHours * HourLen
    <3>1. h \in Int /\ DayHours \in Int /\ h < DayHours
      BY CalendarTypes
    <3>2. h * HourLen \in Nat
      BY CalendarTypes
    <3> QED
      BY <3>1, <3>2, CalendarTypes, RowOrder
  <2>2. DayHours * HourLen = DayLen
    BY CalendarTypes DEF DayLen
  <2>3. h \in Int
    OBVIOUS
  <2>4. (h * HourLen + m) \div HourLen = h /\ (h * HourLen + m) % HourLen = m
    BY <2>3, CalendarTypes, DivOf
  <2> QED
    BY <2>1, <2>2, <2>4, CalendarTypes
<1>3. ASSUME NEW c \in 0 .. DayLen - 1
      PROVE  /\ c \div HourLen \in 0 .. DayHours - 1 /\ c % HourLen \in 0 .. HourLen - 1
             /\ c = (c \div HourLen) * HourLen + (c % HourLen)
  <2>1. /\ c \in Int /\ c \div HourLen \in Int /\ c % HourLen \in 0 .. HourLen - 1
        /\ c = (c \div HourLen) * HourLen + (c % HourLen)
    BY CalendarTypes, DivMod
  <2>2. 0 \div HourLen = 0 /\ 0 \div HourLen <= c \div HourLen
    BY <2>1, CalendarTypes, DivOrder
  <2>3. ASSUME DayHours <= c \div HourLen PROVE FALSE
    <3>1. DayHours * HourLen <= (c \div HourLen) * HourLen
      BY <2>1, <2>3, CalendarTypes, RowOrder
    <3>2. DayHours * HourLen = DayLen
      BY CalendarTypes DEF DayLen
    <3>3. (c \div HourLen) * HourLen \in Int
      BY <2>1, CalendarTypes
    <3> QED
      BY <2>1, <3>1, <3>2, <3>3, CalendarTypes
  <2> QED
    BY <2>1, <2>2, <2>3, CalendarTypes
<1>4. CronClocks(r) \subseteq 0 .. DayLen - 1
  BY <1>1, <1>2 DEF CronClocks
<1>5. ASSUME NEW t \in Int PROVE t % HourLen = (t % DayLen) % HourLen
  <2> DEFINE c == t % DayLen
  <2>1. c \in 0 .. DayLen - 1 /\ Day(t) \in Int /\ t = Day(t) * DayLen + c
    BY DayParts DEF AtOn
  <2> HIDE DEF c
  <2>2. PICK b \in Int, e \in 0 .. HourLen - 1 : c = (b * HourLen) + e /\ c % HourLen = e
    <3>1. /\ c \div HourLen \in Int /\ c % HourLen \in 0 .. HourLen - 1
          /\ c = ((c \div HourLen) * HourLen) + (c % HourLen)
      BY <1>3, <2>1
    <3> QED
      BY <3>1
  <2>3. t = (((Day(t) * DayHours) + b) * HourLen) + e
    <3>1. e \in Int
      BY CalendarTypes
    <3>2. (Day(t) * (HourLen * DayHours)) + ((b * HourLen) + e)
              = (((Day(t) * DayHours) + b) * HourLen) + e
      BY <2>1, <3>1, CalendarTypes, Nested
    <3> QED
      BY <2>1, <2>2, <3>2 DEF DayLen
  <2>4. (Day(t) * DayHours) + b \in Int
    BY <2>1, CalendarTypes
  <2>5. ((((Day(t) * DayHours) + b) * HourLen) + e) % HourLen = e
    BY <2>4, CalendarTypes, DivOf
  <2> QED
    BY <2>2, <2>3, <2>5 DEF c
<1>6. ASSUME NEW t \in Int
      PROVE  t % DayLen \in CronClocks(r) <=> MinuteOf(t) \in r.minutes /\ HourOf(t) \in r.hours
  <2> DEFINE c == t % DayLen
  <2>1. c \in 0 .. DayLen - 1
    BY DayParts
  <2>2. MinuteOf(t) = c % HourLen /\ HourOf(t) = c \div HourLen
    BY <1>5 DEF MinuteOf, HourOf
  <2> HIDE DEF c
  <2>3. ASSUME c \in CronClocks(r) PROVE c % HourLen \in r.minutes /\ c \div HourLen \in r.hours
    <3>1. PICK h \in r.hours, m \in r.minutes : c = h * HourLen + m
      BY <2>3 DEF CronClocks
    <3> QED
      BY <1>1, <1>2, <3>1
  <2>4. ASSUME c % HourLen \in r.minutes, c \div HourLen \in r.hours PROVE c \in CronClocks(r)
    BY <1>3, <2>1, <2>4 DEF CronClocks
  <2> QED
    BY <2>2, <2>3, <2>4 DEF c
<1> QED
  BY <1>4, <1>6

\* Cron: a scan of MaxScanDays days at the clocks of the expression.
LEMMA CronSound ==
    ASSUME NEW r, r.when = "cron", WellFormed(r), NEW time, Distant(time)
    PROVE  LastSound(r, time) /\ NextSound(r, time)
<1> DEFINE D == {d \in Int : DayMatches(r, d)}
           C == CronClocks(r)
           n == MaxScanDays - 1
<1>1. Day(time) \in Int /\ n \in Nat /\ n >= WeekLen /\ n < MaxScanDays
  BY DistantDay, DayParts, CalendarTypes
<1>2. C \subseteq 0 .. DayLen - 1
  BY CronClock
<1>3. \A t \in Int : Occurs(r, t) <=> Hits(t, C, D)
  BY CronClock, DayParts DEF Occurs, Hits
<1>4. LastInstant(r, time) = LatestOf(FirstDay(Back(time, n, C, D)))
  <2>1. LastInstant(r, time) = LastCron(r, time)
    BY DEF LastInstant
  <2>2. \A k \in 0 .. n : DayMatches(r, Day(time) - k) <=> Day(time) - k \in D
    BY <1>1
  <2> QED
    BY <2>1, <2>2 DEF LastCron, Back
<1>5. NextInstant(r, time) = EarliestOf(FirstDay(Forth(time, n, C, D)))
  <2>1. NextInstant(r, time) = NextCron(r, time)
    BY DEF NextInstant
  <2>2. \A k \in 0 .. n : DayMatches(r, Day(time) + k) <=> Day(time) + k \in D
    BY <1>1
  <2> QED
    BY <2>1, <2>2 DEF NextCron, Forth
<1> HIDE DEF C, D, n
<1> QED
  BY <1>1, <1>2, <1>3, <1>4, <1>5, ScanSound

\* For every well-formed schedule and every time the daemon may run at.
LEMMA InstantsSound ==
    ASSUME NEW r, WellFormed(r), NEW time, Distant(time)
    PROVE  LastSound(r, time) /\ NextSound(r, time)
<1>1. r.when \in {"once", "daily", "weekly", "every", "cron"}
  BY DEF WellFormed
<1> QED
  BY <1>1, OnceSound, DailySound, WeeklySound, EverySound, CronSound

\* Soundness on both sides is adjacency.
LEMMA InstantsAdjacent ==
    ASSUME NEW r, WellFormed(r), NEW time, Distant(time)
    PROVE  Adjacent(r, time)
<1> DEFINE last == LastInstant(r, time)
           next == NextInstant(r, time)
           from == IF last = NoInstant THEN time - DayLen * WeekLen ELSE last + 1
           to == IF next = NoInstant THEN time + DayLen * WeekLen ELSE next - 1
<1>1. LastSound(r, time) /\ NextSound(r, time) /\ time \in Nat /\ DayLen * WeekLen \in Nat
  BY InstantsSound, DistantDay, CalendarTypes
<1>2. /\ last # NoInstant => last \in Nat /\ last <= time /\ Occurs(r, last)
      /\ next # NoInstant => next \in Nat /\ next > time /\ Occurs(r, next)
  BY <1>1 DEF LastSound, NextSound
<1>3. from \in Int /\ to \in Int
  BY <1>1, <1>2
<1>4. ASSUME NEW t \in from .. to PROVE ~Occurs(r, t)
  <2>1. t \in Int /\ from <= t /\ t <= to
    BY <1>3
  <2>2. CASE t <= time
    <3>1. CASE last = NoInstant
      <4>1. time - (DayLen * WeekLen) <= t /\ time - (DayLen * WeekLen) \in Int
        BY <1>1, <2>1, <3>1
      <4>2. Day(t) >= Day(time) - WeekLen
        <5>1. time \in Int /\ WeekLen \in Int
          BY <1>1, CalendarTypes
        <5>2. Day(time - (DayLen * WeekLen)) = Day(time) - WeekLen
          BY <5>1, DayShift
        <5>3. Day(time - (DayLen * WeekLen)) <= Day(t)
          BY <2>1, <4>1, DayOrder
        <5> QED
          BY <5>2, <5>3
      <4> QED
        BY <1>1, <2>1, <2>2, <3>1, <4>2 DEF LastSound
    <3>2. CASE last # NoInstant
      <4>1. last < t
        BY <1>2, <2>1, <3>2
      <4> QED
        BY <1>1, <2>1, <2>2, <3>2, <4>1 DEF LastSound
    <3> QED
      BY <3>1, <3>2
  <2>3. CASE t > time
    <3>1. CASE next = NoInstant
      <4>1. t <= time + (DayLen * WeekLen) /\ time + (DayLen * WeekLen) \in Int
        BY <1>1, <2>1, <3>1
      <4>2. Day(t) <= Day(time) + WeekLen
        <5>1. time \in Int /\ WeekLen \in Int
          BY <1>1, CalendarTypes
        <5>2. Day(time + (DayLen * WeekLen)) = Day(time) + WeekLen
          BY <5>1, DayShift
        <5>3. Day(t) <= Day(time + (DayLen * WeekLen))
          BY <2>1, <4>1, DayOrder
        <5> QED
          BY <5>2, <5>3
      <4> QED
        BY <1>1, <2>1, <2>3, <3>1, <4>2 DEF NextSound
    <3>2. CASE next # NoInstant
      <4>1. t < next
        BY <1>2, <2>1, <3>2
      <4> QED
        BY <1>1, <2>1, <2>3, <3>2, <4>1 DEF NextSound
    <3> QED
      BY <3>1, <3>2
  <2> QED
    BY <1>1, <2>1, <2>2, <2>3
<1> QED
  BY <1>2, <1>4 DEF Adjacent

\* As the clock goes on, the last occurrence does not go back.
LEMMA LastMonotone ==
    ASSUME NEW r, WellFormed(r), NEW s, NEW t, Distant(s), Distant(t), s <= t,
           LastInstant(r, t) # NoInstant, LastInstant(r, s) # NoInstant
    PROVE  LastInstant(r, s) <= LastInstant(r, t)
<1>1. s \in Nat /\ t \in Nat
  BY DistantDay
<1>2. LastSound(r, s) /\ LastSound(r, t)
  BY InstantsSound
<1>3. LastInstant(r, s) \in Nat /\ LastInstant(r, s) <= s /\ Occurs(r, LastInstant(r, s))
  BY <1>2 DEF LastSound
<1>4. LastInstant(r, t) \in Nat
  BY <1>2 DEF LastSound
<1>5. ASSUME LastInstant(r, t) < LastInstant(r, s) PROVE FALSE
  BY <1>1, <1>2, <1>3, <1>5 DEF LastSound
<1> QED
  BY <1>3, <1>4, <1>5

\* What the code computes as the last and the next occurrence of a schedule are
\* occurrences on either side of the clock with none in between, for every
\* well-formed schedule of every kind and every time the calendar's scans do not
\* lead out of (lastScheduledInstant, nextScheduledInstant).
THEOREM InstantsEnclose == Spec => []LastAndNextAdjacent
<1>1. LastAndNextAdjacent
  BY SchedulerAssumption, InstantsAdjacent DEF LastAndNextAdjacent
<1> QED
  BY <1>1, PTL

-----------------------------------------------------------------------------
(* The pid file.  It alone does not say who is up; what makes the claim    *)
(* sound is that a process that is up is the one in the file, and that     *)
(* nobody is up while a claimant is past its look at the owner.            *)

\* A claimant that found the file stale and is on its way to its own.
Taking(p) == at[p] \in {"clear", "create", "write"}

UpOwns == \A p \in Pids : Up(p) => pidFile = Names(p)
OneStart == \A p, q \in Pids : at[p] \in Starting /\ at[q] \in Starting => p = q
TakingAlone == \A p, q \in Pids : Taking(p) => ~Up(q)
WriterOwns == \A p \in Pids : at[p] = "write" => pidFile.pid = p
HookAlone ==
    /\ hook = "spawn" => \A q \in Pids : at[q] = "gone"
    /\ \A p \in Pids : hook = p => \A q \in Pids \ {p} : at[q] = "gone"

PidInv == PidTypeOK /\ UpOwns /\ OneStart /\ TakingAlone /\ WriterOwns /\ HookAlone

LEMMA PidInvInit == PidInit => PidInv
BY PidAssumption DEF PidInit, PidInv, PidTypeOK, UpOwns, OneStart, TakingAlone, WriterOwns,
   HookAlone, Files, NoFile, Places, Starting, Up, Taking

\* A live owner is in the file: nobody runs, nobody is up.
LEMMA NobodyUp ==
    ASSUME PidInv, ~Running
    PROVE  \A p \in Pids : ~Up(p)
BY PidAssumption DEF PidInv, UpOwns, Up, Running, Owner, Alive, Names

-----------------------------------------------------------------------------
(* The starts *)

LEMMA ServeStep ==
    ASSUME PidInv, Overlap = FALSE, NEW p \in Pids, Serve(p)
    PROVE  PidInv'
BY PidAssumption DEF PidInv, PidTypeOK, UpOwns, OneStart, TakingAlone, WriterOwns, HookAlone,
   Files, Places, Starting, Up, Taking, Serve, Fresh, Quiet

LEMMA HookLooksStep ==
    ASSUME PidInv, Overlap = FALSE, HookLooks
    PROVE  PidInv'
<1>1. \A q \in Pids : at[q] = "gone"
  BY NobodyUp DEF HookLooks, Quiet, PidInv, PidTypeOK, Places, Up
<1> QED
  BY <1>1, PidAssumption DEF PidInv, PidTypeOK, UpOwns, OneStart, TakingAlone, WriterOwns,
     HookAlone, Files, Places, Starting, Up, Taking, HookLooks

LEMMA HookSpawnsStep ==
    ASSUME PidInv, NEW p \in Pids, HookSpawns(p)
    PROVE  PidInv'
BY PidAssumption DEF PidInv, PidTypeOK, UpOwns, OneStart, TakingAlone, WriterOwns, HookAlone,
   Files, Places, Starting, Up, Taking, HookSpawns

LEMMA HookStampsStep ==
    ASSUME PidInv, HookStamps
    PROVE  PidInv'
BY PidAssumption DEF PidInv, PidTypeOK, UpOwns, OneStart, TakingAlone, WriterOwns, HookAlone,
   Files, Places, Starting, Up, Taking, HookStamps, Names

-----------------------------------------------------------------------------
(* The claim *)

LEMMA BeginClaimStep ==
    ASSUME PidInv, NEW p \in Pids, BeginClaim(p)
    PROVE  PidInv'
BY PidAssumption DEF PidInv, PidTypeOK, UpOwns, OneStart, TakingAlone, WriterOwns, HookAlone,
   Files, Places, Starting, Up, Taking, BeginClaim

LEMMA ReadOwnerStep ==
    ASSUME PidInv, NEW p \in Pids, ReadOwner(p)
    PROVE  PidInv'
<1> USE PidAssumption DEF PidInv, PidTypeOK, UpOwns, OneStart, TakingAlone, WriterOwns,
        HookAlone, Files, Places, Starting, Up, Taking, ReadOwner
<1>1. CASE Owner = p
  <2>1. pidFile = Names(p)
    <3>1. pidFile.whole /\ pidFile.pid = p
      BY <1>1 DEF Owner
    <3>2. pidFile # NoFile
      BY <3>1 DEF NoFile
    <3>3. pidFile \in [pid : Pids, whole : BOOLEAN]
      BY <3>2
    <3> QED
      BY <3>1, <3>3 DEF Names
  <2>2. \A q \in Pids : ~Up(q)
    BY <2>1 DEF Names
  <2>3. at' = [at EXCEPT ![p] = "up"] /\ UNCHANGED <<pidFile, tries, hook>>
    BY <1>1
  <2> QED
    BY <2>1, <2>2, <2>3
<1>2. CASE Owner # p /\ Running
  BY <1>2
<1>3. CASE Owner # p /\ ~Running
  <2>1. \A q \in Pids : ~Up(q)
    BY <1>3, NobodyUp
  <2> QED
    BY <1>3, <2>1
<1> QED
  BY <1>1, <1>2, <1>3

LEMMA ClearStaleStep ==
    ASSUME PidInv, NEW p \in Pids, ClearStale(p)
    PROVE  PidInv'
BY PidAssumption DEF PidInv, PidTypeOK, UpOwns, OneStart, TakingAlone, WriterOwns, HookAlone,
   Files, Places, Starting, Up, Taking, ClearStale, NoFile

LEMMA CreateFileStep ==
    ASSUME PidInv, NEW p \in Pids, CreateFile(p)
    PROVE  PidInv'
<1> USE PidAssumption DEF PidInv, PidTypeOK, UpOwns, OneStart, TakingAlone, WriterOwns,
        HookAlone, Places, Starting, Up, Taking
<1>1. \A q \in Pids : ~Up(q)
  BY DEF CreateFile
<1>2. CASE pidFile = NoFile
  <2>1. /\ pidFile' = [pid |-> p, whole |-> FALSE]
        /\ at' = [at EXCEPT ![p] = "write"] /\ UNCHANGED <<tries, hook>>
        /\ at[p] = "create"
    BY <1>2 DEF CreateFile
  <2>2. pidFile' \in Files /\ pidFile'.pid = p
    BY <2>1 DEF Files
  <2> QED
    BY <1>1, <2>1, <2>2
<1>3. CASE pidFile # NoFile
  <2>1. /\ at' = [at EXCEPT ![p] = IF tries[p] > 0 THEN "read" ELSE "gone"]
        /\ tries' = [tries EXCEPT ![p] = IF @ > 0 THEN @ - 1 ELSE @]
        /\ UNCHANGED <<pidFile, hook>> /\ at[p] = "create"
    BY <1>3 DEF CreateFile
  <2>2. tries' \in [Pids -> 0 .. 1]
    BY <2>1
  <2> QED
    BY <1>1, <2>1, <2>2
<1> QED
  BY <1>2, <1>3

LEMMA WriteFileStep ==
    ASSUME PidInv, NEW p \in Pids, WriteFile(p)
    PROVE  PidInv'
<1>1. at[p] = "write" /\ at' = [at EXCEPT ![p] = "up"] /\ UNCHANGED <<tries, hook>>
  BY DEF WriteFile
<1>2. pidFile' = Names(p) /\ Names(p) \in Files
  BY <1>1 DEF WriteFile, PidInv, WriterOwns, Names, Files
<1>3. \A q \in Pids : ~Up(q)
  BY <1>1 DEF PidInv, TakingAlone, Taking
<1>4. Names(p).pid = p
  BY DEF Names
<1>5. PidTypeOK'
  BY <1>1, <1>2 DEF PidInv, PidTypeOK, Places
<1>6. UpOwns' /\ WriterOwns'
  BY <1>1, <1>2, <1>3, <1>4 DEF PidInv, PidTypeOK, UpOwns, WriterOwns, OneStart, Starting, Up
<1>7. OneStart' /\ TakingAlone' /\ HookAlone'
  BY <1>1, <1>3 DEF PidInv, PidTypeOK, OneStart, TakingAlone, HookAlone, Starting, Up, Taking
<1> QED
  BY <1>5, <1>6, <1>7 DEF PidInv

-----------------------------------------------------------------------------
(* The end *)

LEMMA DropStep ==
    ASSUME PidInv, NEW p \in Pids, Up(p), Drop(p)
    PROVE  PidInv'
BY PidAssumption DEF PidInv, PidTypeOK, UpOwns, OneStart, TakingAlone, WriterOwns, HookAlone,
   Files, Places, Starting, Up, Taking, Drop, Owner, NoFile, Names

LEMMA DieStep ==
    ASSUME PidInv, NEW p \in Pids, Die(p)
    PROVE  PidInv'
BY PidAssumption DEF PidInv, PidTypeOK, UpOwns, OneStart, TakingAlone, WriterOwns, HookAlone,
   Files, Places, Starting, Up, Taking, Die

LEMMA PidStutter ==
    ASSUME PidInv, UNCHANGED pidVars
    PROVE  PidInv'
BY DEF PidInv, PidTypeOK, UpOwns, OneStart, TakingAlone, WriterOwns, HookAlone, Up, Taking,
   pidVars

-----------------------------------------------------------------------------
(* The loop *)

Counters == {"off", "gate", "each", "send", "sent", "failed", "leave"}

\* Only a process that is up is anywhere in the loop.
LoopInv == pc \in [Pids -> Counters] /\ \A p \in Pids : pc[p] # "off" => Up(p)

SchedInv == PidInv /\ LoopInv

LEMMA SchedInvInit == Init => SchedInv
BY PidInvInit DEF Init, SchedInv, LoopInv, Counters

LEMMA DaemonStep ==
    ASSUME SchedInv, NEW p \in Pids, Daemon(p)
    PROVE  SchedInv'
<1> USE DEF SchedInv
<1>1. CASE Enter(p)
  <2>1. PidInv'
    BY <1>1, BeginClaimStep DEF Enter
  <2> QED
    BY <1>1, <2>1 DEF Enter, BeginClaim, LoopInv, Up, loopVars, PidInv, PidTypeOK
<1>2. CASE Acquire(p)
  <2>1. PidInv'
    BY <1>2, ReadOwnerStep, ClearStaleStep, CreateFileStep, WriteFileStep DEF Acquire, Claim
  <2>2. \A q \in Pids \ {p} : at'[q] = at[q]
    BY <1>2 DEF Acquire, Claim, ReadOwner, ClearStale, CreateFile, WriteFile, PidInv, PidTypeOK
  <2> QED
    BY <1>2, <2>1, <2>2 DEF Acquire, LoopInv, Up, Counters
<1>3. CASE Cleanup(p)
  <2>1. Up(p)
    BY <1>3 DEF Cleanup, LoopInv
  <2>2. PidInv'
    BY <1>3, <2>1, DropStep DEF Cleanup
  <2> QED
    BY <1>3, <2>2 DEF Cleanup, Drop, LoopInv, Up, Counters, PidInv, PidTypeOK
<1>4. ASSUME UNCHANGED pidVars, pc[p] # "off", \E c \in Counters : pc' = [pc EXCEPT ![p] = c]
      PROVE  SchedInv'
  BY <1>4, PidStutter DEF LoopInv, Up, pidVars
<1>5. ASSUME UNCHANGED <<pidVars, pc>> PROVE SchedInv'
  BY <1>5, PidStutter DEF LoopInv, Up, pidVars
<1>6. CASE LookAtGate(p) \/ StartTick(p) \/ Intend(p) \/ Fired(p) \/ Failed(p) \/ EndTick(p)
  BY <1>6, <1>4 DEF LookAtGate, StartTick, Intend, Fired, Failed, EndTick, Counters
<1>7. CASE Send(p)
  BY <1>7, <1>4 DEF Send, Counters
<1>8. CASE PassOver(p)
  BY <1>8, <1>5 DEF PassOver
<1> QED
  BY <1>1, <1>2, <1>3, <1>6, <1>7, <1>8 DEF Daemon

LEMMA NextStep ==
    ASSUME SchedInv, Overlap = FALSE, [Next]_vars
    PROVE  SchedInv'
<1> USE DEF SchedInv
<1>0. ASSUME UNCHANGED <<pidVars, pc>> PROVE SchedInv'
  BY <1>0, PidStutter DEF LoopInv, Up, pidVars
<1>1. ASSUME NEW p \in Pids, Signalled(p) PROVE SchedInv'
  BY <1>1, PidStutter DEF Signalled, LoopInv, Up, pidVars, Counters
<1>2. ASSUME NEW p \in Pids, Crash(p) PROVE SchedInv'
  <2>1. PidInv'
    BY <1>2, DieStep DEF Crash
  <2> QED
    BY <1>2, <2>1 DEF Crash, Die, LoopInv, Up, Counters, PidInv, PidTypeOK
<1>3. ASSUME NEW p \in Pids, Start(p) PROVE SchedInv'
  <2>1. PidInv'
    BY <1>3, ServeStep, HookSpawnsStep DEF Start
  <2>2. at[p] = "gone" /\ at' = [at EXCEPT ![p] = "start"] /\ pc' = pc
    BY <1>3 DEF Start, Serve, HookSpawns, Fresh, loopVars
  <2> QED
    BY <2>1, <2>2 DEF LoopInv, Up, PidInv, PidTypeOK
<1>4. CASE AutoStart
  <2>1. PidInv'
    BY <1>4, HookLooksStep, HookStampsStep DEF AutoStart
  <2> QED
    BY <1>4, <2>1 DEF AutoStart, HookLooks, HookStamps, LoopInv, Up, loopVars
<1>5. CASE SetGate \/ SetStage \/ Pass
  BY <1>5, <1>0 DEF SetGate, SetStage, Pass, loopVars
<1>6. ASSUME NEW id \in Ids,
             AddRoutine(id) \/ RemoveRoutine(id) \/ SetEnabled(id) \/ RunNow(id)
      PROVE  SchedInv'
  BY <1>6, <1>0 DEF AddRoutine, RemoveRoutine, SetEnabled, RunNow, loopVars
<1>7. CASE UNCHANGED vars
  BY <1>7, <1>0 DEF vars, loopVars
<1> QED
  BY <1>1, <1>2, <1>3, <1>4, <1>5, <1>6, <1>7, DaemonStep DEF Next

LEMMA SchedInvariant ==
    ASSUME Overlap = FALSE
    PROVE  Spec => []SchedInv
<1>1. Init => SchedInv
  BY SchedInvInit
<1>2. SchedInv /\ [Next]_vars => SchedInv'
  BY NextStep
<1> QED
  BY <1>1, <1>2, PTL DEF Spec

\* At most one process is in the scheduler's loop, as long as no start begins
\* while another is on its way (_bridge.mjs acquirePidFile and the start hook).
THEOREM OneLoopHolds ==
    ASSUME Overlap = FALSE
    PROVE  Spec => []OneLoop
<1>1. SchedInv => OneLoop
  BY PidAssumption DEF SchedInv, PidInv, UpOwns, OneLoop, Names
<1> QED
  BY <1>1, SchedInvariant, PTL

-----------------------------------------------------------------------------
(* Lists of jobs *)

Items(s) == {s[i] : i \in 1 .. Len(s)}

LEMMA ItemsOfRest ==
    ASSUME NEW S, NEW s \in Seq(S), s # <<>>
    PROVE  Head(s) \in Items(s) /\ Tail(s) \in Seq(S) /\ Items(Tail(s)) \subseteq Items(s)
<1>1. Head(s) \in Items(s) /\ Tail(s) \in Seq(S)
  BY DEF Items
<1>2. ASSUME NEW i \in 1 .. Len(Tail(s)) PROVE Tail(s)[i] = s[i + 1] /\ i + 1 \in 1 .. Len(s)
  OBVIOUS
<1>3. Items(Tail(s)) \subseteq Items(s)
  BY <1>2 DEF Items
<1> QED
  BY <1>1, <1>3

LEMMA ItemsOfSeq == ASSUME NEW S, NEW s \in Seq(S) PROVE Items(s) \subseteq S
BY DEF Items

LEMMA ItemsOfSet ==
    ASSUME NEW S, IsFiniteSet(S)
    PROVE  SetToSeq(S) \in Seq(S)
<1> DEFINE n == Cardinality(S)
<1>1. n \in Nat
  BY FS_CardinalityType
<1>2. PICK f : f \in Bijection(1 .. n, S)
  BY FS_CardinalityType DEF ExistsBijection
<1>3. f \in [1 .. n -> S] /\ IsInjective(f)
  BY <1>2 DEF Bijection, Injection
<1>5. SetToSeq(S) \in [1 .. n -> S]
  BY <1>3 DEF SetToSeq
<1> QED
  BY <1>1, <1>5

-----------------------------------------------------------------------------
(* Types *)

Routines == [plan : Catalogue, enabled : BOOLEAN]
Jobs == [id : Ids, r : Routines, n : 0 .. MaxAdds, time : StartTime .. MaxTime, gated : BOOLEAN]
InHand == {"send", "sent", "failed"}

FilesTyped ==
    /\ DOMAIN table = Ids /\ DOMAIN marks = Ids
    /\ \A id \in Ids : table[id] = {} \/ \E r \in Routines : table[id] = {r}
    /\ \A id \in Ids : marks[id] = {} \/ \E e \in Entries : marks[id] = {e}
LoopTyped ==
    /\ todo \in [Pids -> Seq(Jobs)]
    /\ due \in [Pids -> Nat \cup {NoInstant}]
    /\ \A p \in Pids : pc[p] \in InHand => todo[p] # <<>> /\ due[p] \in Nat
ClockTyped ==
    /\ now \in StartTime .. MaxTime
    /\ gate \in {"running", "stop"} /\ paused \in BOOLEAN
    /\ added \in [Ids -> 0 .. MaxAdds] /\ ops \in 0 .. MaxOps /\ ends \in 0 .. MaxEnds

TypeInv == PidTypeOK /\ LoopInv /\ FilesTyped /\ LoopTyped /\ ClockTyped

\* What is read of the files.
LEMMA EntryTyped ==
    ASSUME FilesTyped, NEW id \in Ids
    PROVE  Entry(id) \in Entries
<1>1. Blank \in Entries
  BY DEF Blank, Entries
<1>2. CASE marks[id] = {}
  BY <1>1, <1>2 DEF Entry
<1>3. CASE marks[id] # {}
  BY <1>3 DEF Entry, FilesTyped
<1> QED
  BY <1>2, <1>3

LEMMA RoutineTyped ==
    ASSUME FilesTyped, NEW id \in Ids, Listed(id)
    PROVE  RoutineOf(id) \in Routines /\ table[id] = {RoutineOf(id)}
BY DEF FilesTyped, Listed, RoutineOf

\* Writing one entry, and what it leaves.
LEMMA EntryWritten ==
    ASSUME FilesTyped, NEW id \in Ids, NEW e \in Entries, Update(id, e), UNCHANGED table
    PROVE  /\ FilesTyped' /\ Entry(id)' = e
           /\ \A other \in Ids : other # id => Entry(other)' = Entry(other)
<1>1. marks' = [marks EXCEPT ![id] = {e}] /\ table' = table
  BY DEF Update
<1>2. FilesTyped'
  BY <1>1 DEF FilesTyped
<1>3. marks'[id] = {e} /\ \A other \in Ids : other # id => marks'[other] = marks[other]
  BY <1>1 DEF FilesTyped
<1>4. Entry(id)' = e
  BY <1>3 DEF Entry
<1>5. ASSUME NEW other \in Ids, other # id PROVE Entry(other)' = Entry(other)
  <2>1. marks'[other] = marks[other]
    BY <1>3, <1>5
  <2> QED
    BY <2>1 DEF Entry
<1> QED
  BY <1>2, <1>4, <1>5

\* What a job in hand is, and its instant.
LEMMA CurrentTyped ==
    ASSUME LoopTyped, NEW p \in Pids, todo[p] # <<>>
    PROVE  /\ Current(p) \in Jobs /\ Current(p) \in Items(todo[p])
           /\ Tail(todo[p]) \in Seq(Jobs) /\ Items(Tail(todo[p])) \subseteq Items(todo[p])
<1>1. todo[p] \in Seq(Jobs)
  BY DEF LoopTyped
<1>2. Head(todo[p]) \in Items(todo[p]) /\ Items(todo[p]) \subseteq Jobs
  BY <1>1, ItemsOfRest, ItemsOfSeq
<1> QED
  BY <1>1, <1>2, ItemsOfRest DEF Current

\* Every time of a run is far enough from the origin for the scans.
LEMMA DistantTimes == ASSUME NEW t \in StartTime .. MaxTime PROVE Distant(t)
<1>1. StartTime \in Nat /\ StartTime >= DayLen * MaxScanDays /\ MaxTime \in Nat
  BY SchedulerAssumption DEF Distant
<1>2. DayLen * MaxScanDays \in Nat
  BY CalendarTypes
<1> QED
  BY <1>1, <1>2 DEF Distant

LEMMA InstantTyped ==
    ASSUME NEW job \in Jobs
    PROVE  Instant(job) \in Nat \cup {NoInstant}
<1>1. WellFormed(job.r.plan) /\ job.time \in StartTime .. MaxTime
  BY SchedulerAssumption DEF Jobs, Routines
<1>2. Distant(job.time)
  BY <1>1, DistantTimes
<1> QED
  BY <1>1, <1>2, InstantsSound DEF LastSound, Instant

\* What is not skipped has an instant ahead of its markers.
LEMMA VerdictDue ==
    ASSUME NEW job \in Jobs, Judge(job) # "skip"
    PROVE  /\ Judge(job) \in {"miss", "fire"} /\ Instant(job) \in Nat
           /\ ~(Entry(job.id).last >= Instant(job)) /\ Entry(job.id).inFlight # Instant(job)
  BY InstantTyped DEF Judge, Verdict, Instant

\* The entries a step may write.
LEMMA SettleEntry ==
    ASSUME FilesTyped, NEW id \in Ids, NEW t \in Nat, NEW retire \in BOOLEAN
    PROVE  [last |-> t, inFlight |-> NoInstant, retired |-> Entry(id).retired \/ retire] \in Entries
  BY EntryTyped DEF Entries

LEMMA IntentEntry ==
    ASSUME FilesTyped, NEW id \in Ids, NEW t \in Nat
    PROVE  /\ [Entry(id) EXCEPT !.inFlight = t] \in Entries
           /\ [Entry(id) EXCEPT !.inFlight = t].inFlight = t
           /\ [Entry(id) EXCEPT !.inFlight = t].last = Entry(id).last
  BY EntryTyped DEF Entries

LEMMA InitTyped == Init => TypeInv
<1> SUFFICES ASSUME Init PROVE TypeInv
  OBVIOUS
<1>1. PidTypeOK
  BY DEF Init, PidInit, PidTypeOK, Files, Places
<1>2. LoopInv /\ FilesTyped /\ LoopTyped
  BY DEF Init, LoopInv, Counters, FilesTyped, LoopTyped, InHand
<1>3. ClockTyped
  <2>1. StartTime \in Nat /\ MaxTime \in Nat /\ StartTime <= MaxTime
    BY SchedulerAssumption DEF Distant
  <2>2. MaxAdds \in Nat /\ MaxOps \in Nat /\ MaxEnds \in Nat
    BY SchedulerAssumption
  <2>3. now = StartTime /\ gate = "running" /\ paused = FALSE /\ ops = 0 /\ ends = 0
    BY DEF Init
  <2>4. added = [id \in Ids |-> 0]
    BY DEF Init
  <2>5. added \in [Ids -> 0 .. MaxAdds]
    BY <2>2, <2>4
  <2>6. now \in StartTime .. MaxTime /\ ops \in 0 .. MaxOps /\ ends \in 0 .. MaxEnds
    BY <2>1, <2>2, <2>3
  <2> QED
    BY <2>3, <2>5, <2>6 DEF ClockTyped
<1> QED
  BY <1>1, <1>2, <1>3 DEF TypeInv

\* The pid file and the places of the processes, whether or not starts overlap.
LEMMA PidStepTyped ==
    ASSUME PidTypeOK,
           \/ HookLooks \/ HookStamps \/ UNCHANGED pidVars
           \/ \E p \in Pids : \/ Serve(p) \/ HookSpawns(p) \/ BeginClaim(p) \/ Claim(p)
                             \/ Drop(p) \/ Die(p)
    PROVE  PidTypeOK'
<1>1. CASE HookLooks \/ UNCHANGED pidVars
  BY <1>1 DEF HookLooks, pidVars, PidTypeOK
<1>2. CASE HookStamps
  <2>1. Names(hook) \in Files
    BY <1>2 DEF HookStamps, Files, Names
  <2> QED
    BY <1>2, <2>1 DEF HookStamps, PidTypeOK
<1>3. ASSUME NEW p \in Pids, Serve(p) \/ HookSpawns(p) \/ BeginClaim(p) \/ Drop(p) \/ Die(p)
      PROVE  PidTypeOK'
  BY <1>3 DEF Serve, HookSpawns, Fresh, BeginClaim, Drop, Die, PidTypeOK, Files, Places, Starting
<1>4. ASSUME NEW p \in Pids, NEW c \in Places, at' = [at EXCEPT ![p] = c], pidFile' \in Files,
             tries' \in [Pids -> 0 .. 1], hook' = hook
      PROVE  PidTypeOK'
  BY <1>4 DEF PidTypeOK
<1>5. {"up", "gone", "clear", "create", "write", "read"} \subseteq Places
  BY DEF Places, Starting
<1>6. ASSUME NEW p \in Pids, ReadOwner(p) PROVE PidTypeOK'
  <2>1. \E c \in {"up", "gone", "clear"} : at' = [at EXCEPT ![p] = c]
    BY <1>6 DEF ReadOwner
  <2> QED
    BY <1>4, <1>5, <1>6, <2>1 DEF ReadOwner, PidTypeOK
<1>7. ASSUME NEW p \in Pids, ClearStale(p) PROVE PidTypeOK'
  BY <1>4, <1>5, <1>7 DEF ClearStale, PidTypeOK, Files
<1>8. ASSUME NEW p \in Pids, WriteFile(p) PROVE PidTypeOK'
  <2>1. Names(p) \in Files
    BY DEF Names, Files
  <2> QED
    BY <1>4, <1>5, <1>8, <2>1 DEF WriteFile, PidTypeOK
<1>9. ASSUME NEW p \in Pids, CreateFile(p) PROVE PidTypeOK'
  <2>1. CASE pidFile = NoFile
    <3>1. pidFile' \in Files /\ at' = [at EXCEPT ![p] = "write"] /\ UNCHANGED <<tries, hook>>
      <4>1. /\ pidFile' = [pid |-> p, whole |-> FALSE] /\ at' = [at EXCEPT ![p] = "write"]
            /\ UNCHANGED <<tries, hook>>
        BY <1>9, <2>1 DEF CreateFile
      <4>2. [pid |-> p, whole |-> FALSE] \in Files
        BY DEF Files
      <4> QED
        BY <4>1, <4>2
    <3> QED
      BY <1>4, <1>5, <3>1 DEF PidTypeOK
  <2>2. CASE pidFile # NoFile
    <3>1. /\ \E c \in {"read", "gone"} : at' = [at EXCEPT ![p] = c]
          /\ tries' = [tries EXCEPT ![p] = IF @ > 0 THEN @ - 1 ELSE @]
          /\ UNCHANGED <<pidFile, hook>>
      BY <1>9, <2>2 DEF CreateFile
    <3>2. tries' \in [Pids -> 0 .. 1]
      BY <3>1 DEF PidTypeOK
    <3> QED
      BY <1>4, <1>5, <3>1, <3>2 DEF PidTypeOK
  <2> QED
    BY <2>1, <2>2
<1> QED
  BY <1>1, <1>2, <1>3, <1>6, <1>7, <1>8, <1>9 DEF Claim

\* A step that leaves the pid file alone and moves p in the loop.
MovesTo(p, c) == pc[p] # "off" /\ pc' = [pc EXCEPT ![p] = c]

LEMMA MoveTyped ==
    ASSUME TypeInv, NEW p \in Pids, NEW c \in Counters, MovesTo(p, c), UNCHANGED pidVars
    PROVE  PidTypeOK' /\ LoopInv' /\ pc'[p] = c /\ \A q \in Pids : q # p => pc'[q] = pc[q]
<1>1. PidTypeOK'
  BY PidStepTyped DEF TypeInv
<1> QED
  BY <1>1 DEF TypeInv, MovesTo, LoopInv, Up, pidVars

\* The types across a step of a daemon.
LEMMA DaemonTyped ==
    ASSUME TypeInv, NEW p \in Pids, Daemon(p)
    PROVE  TypeInv'
<1>0. /\ PidTypeOK /\ LoopInv /\ FilesTyped /\ LoopTyped /\ ClockTyped
      /\ NoInstant \in Nat \cup {NoInstant}
  BY DEF TypeInv
<1>1. CASE Enter(p)
  <2>1. PidTypeOK'
    BY <1>0, <1>1, PidStepTyped DEF Enter
  <2>2. LoopInv'
    BY <1>0, <1>1 DEF Enter, BeginClaim, LoopInv, Up, loopVars, PidTypeOK
  <2>3. FilesTyped' /\ LoopTyped' /\ ClockTyped'
    BY <1>0, <1>1 DEF Enter, loopVars, fileVars, ghostVars, FilesTyped, LoopTyped, ClockTyped
  <2> QED
    BY <2>1, <2>2, <2>3 DEF TypeInv
<1>2. CASE Acquire(p)
  <2>1. PidTypeOK'
    BY <1>0, <1>2, PidStepTyped DEF Acquire
  <2>2. \A q \in Pids \ {p} : at'[q] = at[q]
    BY <1>0, <1>2 DEF Acquire, Claim, ReadOwner, ClearStale, CreateFile, WriteFile, PidTypeOK
  <2>3. pc' = [pc EXCEPT ![p] = IF at'[p] = "up" THEN "gate" ELSE "off"]
        /\ UNCHANGED <<todo, due, fileVars, now, gate, paused, ghostVars>>
    BY <1>2 DEF Acquire
  <2>4. LoopInv'
    BY <1>0, <2>1, <2>2, <2>3 DEF LoopInv, Up, Counters
  <2>5. LoopTyped'
    BY <1>0, <2>3 DEF LoopTyped, LoopInv, InHand
  <2>6. FilesTyped' /\ ClockTyped'
    BY <1>0, <2>3 DEF fileVars, ghostVars, FilesTyped, ClockTyped
  <2> QED
    BY <2>1, <2>4, <2>5, <2>6 DEF TypeInv
<1>3. CASE Cleanup(p)
  <2>1. PidTypeOK'
    BY <1>0, <1>3, PidStepTyped DEF Cleanup
  <2>2. LoopInv'
    BY <1>0, <1>3 DEF Cleanup, Drop, LoopInv, Up, Counters, PidTypeOK
  <2>3. FilesTyped' /\ LoopTyped' /\ ClockTyped'
    BY <1>0, <1>3 DEF Cleanup, LoopInv, InHand, fileVars, ghostVars, FilesTyped, LoopTyped,
       ClockTyped
  <2> QED
    BY <2>1, <2>2, <2>3 DEF TypeInv
<1>4. ASSUME NEW c \in Counters \ InHand, MovesTo(p, c),
             UNCHANGED <<pidVars, todo, due, fileVars, now, gate, paused, ghostVars>>
      PROVE  TypeInv'
  <2>1. PidTypeOK' /\ LoopInv' /\ pc'[p] = c /\ \A q \in Pids : q # p => pc'[q] = pc[q]
    BY <1>4, MoveTyped
  <2> QED
    BY <1>0, <1>4, <2>1 DEF TypeInv, fileVars, ghostVars, FilesTyped, LoopTyped, ClockTyped
<1>5. CASE LookAtGate(p) \/ EndTick(p)
  BY <1>4, <1>5 DEF LookAtGate, EndTick, MovesTo, Counters, InHand
<1>6. CASE StartTick(p)
  <2> DEFINE S == {Job(id) : id \in {i \in Ids : Listed(i)}}
  <2>1. IsFiniteSet(S)
    <3>1. IsFiniteSet({i \in Ids : Listed(i)})
      BY SchedulerAssumption, FS_Subset
    <3> DEFINE L == {i \in Ids : Listed(i)}
               f == [id \in L |-> Job(id)]
    <3>2. f \in Surjection(L, S)
      BY DEF Surjection
    <3> HIDE DEF S, f
    <3> QED
      BY <3>1, <3>2, FS_Surjection
  <2>2. S \subseteq Jobs
    BY <1>0, RoutineTyped DEF Job, Jobs, ClockTyped
  <2>3. SetToSeq(S) \in Seq(Jobs)
    <3>1. SetToSeq(S) \in Seq(S)
      BY <2>1, ItemsOfSet
    <3> QED
      BY <2>2, <3>1
  <2>4. MovesTo(p, "each") /\ todo' = [todo EXCEPT ![p] = SetToSeq(S)]
        /\ UNCHANGED <<pidVars, due, fileVars, now, gate, paused, ghostVars>>
    BY <1>6 DEF StartTick, MovesTo
  <2> HIDE DEF S
  <2>5. /\ PidTypeOK' /\ LoopInv' /\ pc'[p] = "each"
        /\ \A q \in Pids : q # p => pc'[q] = pc[q]
    BY <2>4, MoveTyped DEF Counters
  <2>6. LoopTyped'
    BY <1>0, <2>3, <2>4, <2>5 DEF LoopTyped, InHand
  <2> QED
    BY <1>0, <2>4, <2>5, <2>6 DEF TypeInv, fileVars, ghostVars, FilesTyped, ClockTyped
<1>7. ASSUME NEW t \in Nat, NEW retire \in BOOLEAN, todo[p] # <<>>,
             Settle(Current(p).id, t, retire), UNCHANGED table
      PROVE  FilesTyped'
  <2>1. Current(p).id \in Ids
    BY <1>0, <1>7, CurrentTyped DEF Jobs
  <2> QED
    BY <1>0, <1>7, <2>1, SettleEntry, EntryWritten DEF Settle
<1>8. CASE PassOver(p)
  <2>1. PidTypeOK' /\ LoopInv' /\ ClockTyped'
    BY <1>0, <1>8, PidStepTyped DEF PassOver, LoopInv, Up, pidVars, ClockTyped
  <2>2. todo[p] # <<>> /\ Current(p) \in Jobs /\ Tail(todo[p]) \in Seq(Jobs)
    BY <1>0, <1>8, CurrentTyped DEF PassOver
  <2>3. LoopTyped'
    BY <1>0, <1>8, <2>2 DEF PassOver, NextJob, LoopTyped, InHand
  <2>4. FilesTyped'
    <3>1. CASE UNCHANGED fileVars
      BY <1>0, <3>1 DEF fileVars, FilesTyped
    <3>2. CASE ~UNCHANGED fileVars
      <4>1. /\ Judge(Current(p)) # "skip" /\ UNCHANGED table
            /\ MarkMissed(Current(p).id, Current(p).r, Instant(Current(p)))
        BY <1>8, <3>2 DEF PassOver
      <4>2. Instant(Current(p)) \in Nat
        BY <2>2, <4>1, VerdictDue
      <4> QED
        BY <1>7, <2>2, <4>1, <4>2 DEF MarkMissed, Retires
    <3> QED
      BY <3>1, <3>2
  <2> QED
    BY <2>1, <2>3, <2>4 DEF TypeInv
<1>9. CASE Intend(p)
  <2>1. /\ todo[p] # <<>> /\ Judge(Current(p)) = "fire" /\ MovesTo(p, "send")
        /\ MarkIntent(Current(p).id, Instant(Current(p)))
        /\ due' = [due EXCEPT ![p] = Instant(Current(p))]
        /\ UNCHANGED <<pidVars, table, todo, now, gate, paused, ghostVars>>
    BY <1>9 DEF Intend, MovesTo
  <2>2. Current(p) \in Jobs /\ Instant(Current(p)) \in Nat
    BY <1>0, <2>1, CurrentTyped, VerdictDue
  <2>3. /\ PidTypeOK' /\ LoopInv' /\ pc'[p] = "send"
        /\ \A q \in Pids : q # p => pc'[q] = pc[q]
    BY <2>1, MoveTyped DEF Counters
  <2>4. LoopTyped'
    BY <1>0, <2>1, <2>2, <2>3 DEF LoopTyped
  <2>5. FilesTyped'
    <3>1. Current(p).id \in Ids
      BY <2>2 DEF Jobs
    <3> QED
      BY <1>0, <2>1, <2>2, <3>1, IntentEntry, EntryWritten DEF MarkIntent
  <2> QED
    BY <1>0, <2>1, <2>3, <2>4, <2>5 DEF TypeInv, ghostVars, ClockTyped
<1>10. CASE Send(p)
  <2>1. /\ pc[p] = "send" /\ \E c \in {"sent", "failed"} : MovesTo(p, c)
        /\ UNCHANGED <<pidVars, fileVars, todo, due, now, gate, paused, added, ops, ends>>
    BY <1>10 DEF Send, MovesTo
  <2>2. PICK c \in {"sent", "failed"} : MovesTo(p, c)
    BY <2>1
  <2>3. PidTypeOK' /\ LoopInv' /\ pc'[p] = c /\ \A q \in Pids : q # p => pc'[q] = pc[q]
    BY <2>1, <2>2, MoveTyped DEF Counters
  <2> QED
    BY <1>0, <2>1, <2>3 DEF TypeInv, fileVars, FilesTyped, LoopTyped, InHand, ClockTyped
<1>11. CASE Fired(p) \/ Failed(p)
  <2>1. /\ pc[p] \in InHand /\ MovesTo(p, "each") /\ NextJob(p)
        /\ \E retire \in BOOLEAN : Settle(Current(p).id, due[p], retire)
        /\ due' = [due EXCEPT ![p] = NoInstant]
        /\ UNCHANGED <<pidVars, table, now, gate, paused, added, ops, ends>>
    BY <1>11 DEF Fired, Failed, MovesTo, MarkFired, MarkError, Retires, InHand, ghostVars
  <2>2. todo[p] # <<>> /\ due[p] \in Nat
    BY <1>0, <2>1 DEF LoopTyped
  <2>3. Current(p) \in Jobs /\ Tail(todo[p]) \in Seq(Jobs)
    BY <1>0, <2>2, CurrentTyped
  <2>4. /\ PidTypeOK' /\ LoopInv' /\ pc'[p] = "each"
        /\ \A q \in Pids : q # p => pc'[q] = pc[q]
    BY <2>1, MoveTyped DEF Counters
  <2>5. LoopTyped'
    BY <1>0, <2>1, <2>3, <2>4 DEF LoopTyped, NextJob, InHand
  <2>6. FilesTyped'
    BY <1>7, <2>1, <2>2
  <2> QED
    BY <1>0, <2>1, <2>4, <2>5, <2>6 DEF TypeInv, ClockTyped
<1> QED
  BY <1>1, <1>2, <1>3, <1>5, <1>6, <1>8, <1>9, <1>10, <1>11 DEF Daemon

\* The types across any step.
LEMMA NextTyped ==
    ASSUME TypeInv, [Next]_vars
    PROVE  TypeInv'
<1>0. PidTypeOK /\ LoopInv /\ FilesTyped /\ LoopTyped /\ ClockTyped
  BY DEF TypeInv
<1>00. MaxAdds \in Nat /\ MaxOps \in Nat /\ MaxEnds \in Nat /\ StartTime \in Nat /\ MaxTime \in Nat
  BY SchedulerAssumption DEF Distant
<1>1. ASSUME NEW p \in Pids, Signalled(p) PROVE TypeInv'
  <2>1. /\ MovesTo(p, "leave") /\ Ending
        /\ UNCHANGED <<pidVars, todo, due, fileVars, now, gate, paused, added, ledger, ops>>
    BY <1>1 DEF Signalled, MovesTo
  <2>2. /\ PidTypeOK' /\ LoopInv' /\ pc'[p] = "leave"
        /\ \A q \in Pids : q # p => pc'[q] = pc[q]
    BY <2>1, MoveTyped DEF Counters
  <2>3. FilesTyped' /\ LoopTyped'
    BY <1>0, <2>1, <2>2 DEF fileVars, FilesTyped, LoopTyped, InHand
  <2>4. ClockTyped'
    BY <1>0, <1>00, <2>1 DEF Ending, ClockTyped
  <2> QED
    BY <2>2, <2>3, <2>4 DEF TypeInv
<1>2. ASSUME NEW p \in Pids, Crash(p) PROVE TypeInv'
  <2>1. PidTypeOK'
    BY <1>0, <1>2, PidStepTyped DEF Crash
  <2>2. LoopInv'
    BY <1>0, <1>2 DEF Crash, Die, LoopInv, Up, Counters, PidTypeOK
  <2>3. FilesTyped'
    BY <1>0, <1>2 DEF Crash, fileVars, FilesTyped
  <2>5. LoopTyped'
    <3>1. /\ pc' = [pc EXCEPT ![p] = "off"] /\ todo' = [todo EXCEPT ![p] = <<>>]
          /\ due' = [due EXCEPT ![p] = NoInstant]
      BY <1>2 DEF Crash
    <3>2. <<>> \in Seq(Jobs)
      OBVIOUS
    <3> QED
      BY <1>0, <3>1, <3>2 DEF LoopInv, InHand, LoopTyped
  <2>4. ClockTyped'
    BY <1>0, <1>00, <1>2 DEF Crash, Ending, ClockTyped
  <2> QED
    BY <2>1, <2>2, <2>3, <2>4, <2>5 DEF TypeInv
<1>3. ASSUME NEW p \in Pids, Start(p) PROVE TypeInv'
  <2>1. PidTypeOK'
    BY <1>0, <1>3, PidStepTyped DEF Start
  <2>2. at[p] = "gone" /\ at' = [at EXCEPT ![p] = "start"]
    BY <1>3 DEF Start, Serve, HookSpawns, Fresh
  <2>3. UNCHANGED <<loopVars, fileVars, now, gate, paused, ghostVars>>
    BY <1>3 DEF Start
  <2>4. LoopInv'
    BY <1>0, <2>2, <2>3 DEF LoopInv, Up, loopVars, PidTypeOK
  <2> QED
    BY <1>0, <2>1, <2>3, <2>4 DEF TypeInv, loopVars, fileVars, ghostVars, FilesTyped, LoopTyped,
       ClockTyped
<1>4. CASE AutoStart
  <2>1. PidTypeOK' /\ at' = at
    BY <1>0, <1>4, PidStepTyped DEF AutoStart, HookLooks, HookStamps
  <2>2. UNCHANGED <<loopVars, fileVars, now, gate, paused, ghostVars>>
    BY <1>4 DEF AutoStart
  <2> QED
    BY <1>0, <2>1, <2>2 DEF TypeInv, loopVars, fileVars, ghostVars, LoopInv, Up, FilesTyped,
       LoopTyped, ClockTyped
<1>5. CASE UNCHANGED <<pidVars, loopVars>> /\ FilesTyped' /\ ClockTyped'
  <2>1. PidTypeOK'
    BY <1>0, <1>5, PidStepTyped
  <2> QED
    BY <1>0, <1>5, <2>1 DEF TypeInv, loopVars, pidVars, LoopInv, Up, LoopTyped
<1>6. CASE SetGate \/ SetStage \/ Pass
  <2>1. FilesTyped'
    BY <1>0, <1>6 DEF SetGate, SetStage, Pass, fileVars, FilesTyped
  <2>2. CASE SetGate
    BY <1>0, <1>00, <1>5, <2>1, <2>2 DEF SetGate, Operator, ClockTyped
  <2>3. CASE SetStage
    BY <1>0, <1>00, <1>5, <2>1, <2>3 DEF SetStage, Operator, ClockTyped
  <2>4. CASE Pass
    BY <1>0, <1>00, <1>5, <2>1, <2>4 DEF Pass, ghostVars, ClockTyped
  <2> QED
    BY <1>6, <2>2, <2>3, <2>4
<1>7. ASSUME NEW id \in Ids, AddRoutine(id) PROVE TypeInv'
  <2>1. PICK plan \in Catalogue, enabled \in BOOLEAN :
            table' = [table EXCEPT ![id] = {[plan |-> plan, enabled |-> enabled]}]
    BY <1>7 DEF AddRoutine
  <2>2. [plan |-> plan, enabled |-> enabled] \in Routines
    BY DEF Routines
  <2>3. FilesTyped'
    BY <1>0, <1>7, <2>1, <2>2 DEF AddRoutine, FilesTyped
  <2>4. ClockTyped'
    BY <1>0, <1>00, <1>7 DEF AddRoutine, ClockTyped
  <2> QED
    BY <1>5, <1>7, <2>3, <2>4 DEF AddRoutine
<1>8. ASSUME NEW id \in Ids, RemoveRoutine(id) PROVE TypeInv'
  <2>1. FilesTyped'
    BY <1>0, <1>8 DEF RemoveRoutine, FilesTyped
  <2>2. ClockTyped'
    BY <1>0, <1>00, <1>8 DEF RemoveRoutine, Operator, ClockTyped
  <2> QED
    BY <1>5, <1>8, <2>1, <2>2 DEF RemoveRoutine
<1>9. ASSUME NEW id \in Ids, SetEnabled(id) PROVE TypeInv'
  <2>1. RoutineOf(id) \in Routines
    BY <1>0, <1>9, RoutineTyped DEF SetEnabled
  <2>2. [RoutineOf(id) EXCEPT !.enabled = ~@] \in Routines
    BY <2>1 DEF Routines
  <2>3. FilesTyped'
    BY <1>0, <1>9, <2>2 DEF SetEnabled, FilesTyped
  <2>4. ClockTyped'
    BY <1>0, <1>00, <1>9 DEF SetEnabled, Operator, ClockTyped
  <2> QED
    BY <1>5, <1>9, <2>3, <2>4 DEF SetEnabled
<1>10. ASSUME NEW id \in Ids, RunNow(id) PROVE TypeInv'
  <2>1. FilesTyped'
    BY <1>0, <1>10, EntryTyped, EntryWritten DEF RunNow
  <2>2. ClockTyped'
    BY <1>0, <1>00, <1>10 DEF RunNow, Operator, ClockTyped
  <2> QED
    BY <1>5, <1>10, <2>1, <2>2 DEF RunNow
<1>11. CASE UNCHANGED vars
  <2>1. FilesTyped' /\ ClockTyped'
    BY <1>0, <1>11 DEF vars, fileVars, ghostVars, FilesTyped, ClockTyped
  <2> QED
    BY <1>5, <1>11, <2>1 DEF vars
<1> QED
  BY <1>1, <1>2, <1>3, <1>4, <1>6, <1>7, <1>8, <1>9, <1>10, <1>11, DaemonTyped DEF Next

LEMMA SchedTyping == Spec => []TypeInv
BY InitTyped, NextTyped, PTL DEF Spec

\* The processes, the loop and its files have their types, and a loop is
\* entered only by a process whose claim came through (_bridge.mjs,
\* scheduler.mjs), whether or not starts overlap.
THEOREM SchedTyped == Spec => []SchedTypeOK
<1>1. TypeInv => SchedTypeOK
  <2> SUFFICES ASSUME TypeInv PROVE SchedTypeOK
    OBVIOUS
  <2>1. PidTypeOK /\ LoopInv /\ FilesTyped /\ LoopTyped /\ ClockTyped
    BY DEF TypeInv
  <2>2. Cardinality({}) = 0 /\ \A x : Cardinality({x}) = 1
    BY FS_EmptySet, FS_Singleton
  <2>3. ASSUME NEW id \in Ids
        PROVE  /\ table[id] \subseteq [plan : Catalogue, enabled : BOOLEAN]
               /\ Cardinality(table[id]) <= 1
               /\ marks[id] \subseteq Entries /\ Cardinality(marks[id]) <= 1
    <3>1. table[id] = {} \/ \E r \in Routines : table[id] = {r}
      BY <2>1 DEF FilesTyped
    <3>2. marks[id] = {} \/ \E e \in Entries : marks[id] = {e}
      BY <2>1 DEF FilesTyped
    <3>3. Cardinality(table[id]) \in {0, 1}
      <4>1. CASE table[id] = {}
        BY <2>2, <4>1
      <4>2. ASSUME NEW r, table[id] = {r} PROVE Cardinality(table[id]) = 1
        BY <2>2, <4>2
      <4> QED
        BY <3>1, <4>1, <4>2
    <3>4. Cardinality(marks[id]) \in {0, 1}
      <4>1. CASE marks[id] = {}
        BY <2>2, <4>1
      <4>2. ASSUME NEW e, marks[id] = {e} PROVE Cardinality(marks[id]) = 1
        BY <2>2, <4>2
      <4> QED
        BY <3>2, <4>1, <4>2
    <3> QED
      BY <3>1, <3>2, <3>3, <3>4 DEF Routines
  <2>4. \A p \in Pids :
           /\ pc[p] \in {"off", "gate", "each", "send", "sent", "failed", "leave"}
           /\ pc[p] # "off" => Up(p)
           /\ due[p] \in Nat \cup {NoInstant}
    BY <2>1 DEF LoopInv, Counters, LoopTyped
  <2> QED
    BY <2>1, <2>3, <2>4 DEF SchedTypeOK, ClockTyped
<1> QED
  BY <1>1, SchedTyping, PTL

-----------------------------------------------------------------------------
(* The markers.  A job of a tick was read with its routine, and what it   *)
(* finds in flight or settled is what the routine had by then; whatever    *)
(* the ledger holds of the routine is behind one of its two markers.       *)

\* No outcome of this occurrence is in the ledger.
Unsettled(id, n, t) == \A o \in ledger : ~(o.id = id /\ o.n = n /\ o.t = t)

\* The instant in flight, if any, is one the routine had by time t.
Seen(id, t) ==
    \/ Entry(id).inFlight = NoInstant
    \/ \E s \in StartTime .. t : Entry(id).inFlight = LastInstant(RoutineOf(id).plan, s)

\* A job read at the head of a tick is still the routine's.
Holds(j) ==
    /\ Listed(j.id) /\ j.n = added[j.id] /\ j.r.plan = RoutineOf(j.id).plan
    /\ j.time <= now /\ Seen(j.id, j.time)

\* An occurrence in hand carries its intent, and nothing of it is settled before the send.
Stamped(p) ==
    /\ due[p] = Instant(Current(p))
    /\ Entry(Current(p).id).inFlight = due[p] /\ Entry(Current(p).id).last < due[p]
    /\ pc[p] # "sent" => Unsettled(Current(p).id, Current(p).n, due[p])

\* An outcome of the routine as it stands is behind one of its markers.
Behind(o) == o.t <= Entry(o.id).last \/ o.t <= Entry(o.id).inFlight
Marked(o) ==
    /\ o.id \in Ids /\ o.n \in Nat /\ o.n <= added[o.id] /\ o.t \in Nat /\ o.nth = 1
    /\ Listed(o.id) /\ o.n = added[o.id] => Behind(o)

TodoOf(p) ==
    /\ pc[p] \notin {"each"} \cup InHand => todo[p] = <<>>
    /\ \A j, k \in Items(todo[p]) : Holds(j) /\ k.time = j.time
    /\ pc[p] \in InHand => Stamped(p)

TodoInv == \A p \in Pids : TodoOf(p)
MarksInv == \A id \in Ids : IF Listed(id) THEN Seen(id, now) ELSE marks[id] = {}
LedgerInv == \A o \in ledger : Marked(o)

OutcomeInv == TodoInv /\ MarksInv /\ LedgerInv

LEMMA InitOutcome == Init => OutcomeInv
BY DEF Init, OutcomeInv, TodoInv, TodoOf, MarksInv, LedgerInv, InHand, Items, Listed

-----------------------------------------------------------------------------
(* What a step leaves of a routine *)

Same(id) ==
    /\ Listed(id)' = Listed(id) /\ Entry(id)' = Entry(id) /\ added'[id] = added[id]
    /\ Listed(id) => RoutineOf(id)'.plan = RoutineOf(id).plan

LEMMA SameUnchanged ==
    ASSUME UNCHANGED <<table, marks, added>>, NEW id
    PROVE  Same(id) /\ marks'[id] = marks[id]
BY DEF Same, Listed, Entry, RoutineOf

\* What is known of a routine that is left as it is stays known.
LEMMA SeenKept ==
    ASSUME NEW id, Same(id), Listed(id), NEW t, Seen(id, t)
    PROVE  Seen(id, t)'
BY DEF Same, Seen

LEMMA SeenLater ==
    ASSUME NEW id, NEW t \in Nat, NEW u \in Nat, t <= u, Seen(id, t)
    PROVE  Seen(id, u)
<1>1. StartTime \in Nat
  BY SchedulerAssumption DEF Distant
<1>2. \A s \in StartTime .. t : s \in StartTime .. u
  BY <1>1
<1> QED
  BY <1>2 DEF Seen

LEMMA HoldsKept ==
    ASSUME ClockTyped, ClockTyped', now <= now', NEW j \in Jobs, Holds(j), Same(j.id)
    PROVE  Holds(j)'
<1>1. j.time \in Nat /\ now \in Nat /\ now' \in Nat
  BY SchedulerAssumption DEF Jobs, ClockTyped, Distant
<1>2. Seen(j.id, j.time)'
  BY SeenKept DEF Holds
<1> QED
  BY <1>1, <1>2 DEF Holds, Same

LEMMA MarkedKept ==
    ASSUME NEW o, Marked(o), Same(o.id)
    PROVE  Marked(o)'
BY DEF Marked, Behind, Same

LEMMA MarksKept ==
    ASSUME ClockTyped, ClockTyped', now <= now', NEW id \in Ids, Same(id), Listed(id),
           Seen(id, now)
    PROVE  Seen(id, now)'
<1> PICK t \in Nat : t = now
  BY SchedulerAssumption DEF ClockTyped, Distant
<1> PICK u \in Nat : u = now'
  BY SchedulerAssumption DEF ClockTyped, Distant
<1>1. Seen(id, t)'
  BY SeenKept
<1>2. Seen(id, u)
  BY SeenLater
<1>3. Seen(id, u)'
  BY <1>2, SeenKept
<1> QED
  BY <1>3 DEF Seen

\* A list of jobs of which nothing moves but the clock.
LEMMA ListKept ==
    ASSUME TypeInv, ClockTyped', now <= now', NEW p \in Pids, TodoOf(p),
           todo'[p] = todo[p], pc'[p] = pc[p], due'[p] = due[p], ledger' = ledger,
           \A j \in Items(todo[p]) : Same(j.id)
    PROVE  TodoOf(p)'
<1>1. todo[p] \in Seq(Jobs) /\ ClockTyped /\ LoopTyped
  BY DEF TypeInv, LoopTyped
<1>2. Items(todo[p])' = Items(todo[p])
  BY DEF Items
<1>3. ASSUME NEW j \in Items(todo[p]) PROVE Holds(j)'
  <2>1. j \in Jobs
    BY <1>1, ItemsOfSeq
  <2>2. Holds(j)
    BY DEF TodoOf
  <2> QED
    BY <1>1, <2>1, <2>2, HoldsKept
<1>4. ASSUME pc[p] \in InHand PROVE Stamped(p)'
  <2>1. Stamped(p) /\ Current(p) \in Items(todo[p])
    BY <1>1, <1>4, CurrentTyped DEF TodoOf, LoopTyped
  <2> PICK j : j = Current(p)
    OBVIOUS
  <2>2. Current(p)' = j
    BY DEF Current
  <2>3. Entry(j.id)' = Entry(j.id)
    BY <2>1 DEF Same
  <2> QED
    BY <2>1, <2>2, <2>3 DEF Stamped, Unsettled, Instant
<1> QED
  BY <1>2, <1>3, <1>4 DEF TodoOf

\* The markers while nothing of them is written.
LEMMA MarksUnchanged ==
    ASSUME TypeInv, ClockTyped', MarksInv, UNCHANGED <<table, marks, added>>, now <= now'
    PROVE  MarksInv'
<1>1. ClockTyped
  BY DEF TypeInv
<1>2. ASSUME NEW id \in Ids PROVE IF Listed(id)' THEN Seen(id, now)' ELSE marks'[id] = {}
  <2>1. Same(id) /\ marks'[id] = marks[id]
    BY SameUnchanged
  <2>2. CASE Listed(id)
    BY <1>1, <2>1, <2>2, MarksKept DEF MarksInv, Same
  <2>3. CASE ~Listed(id)
    BY <1>1, <2>1, <2>3 DEF MarksInv, Same
  <2> QED
    BY <2>2, <2>3
<1> QED
  BY <1>2 DEF MarksInv

\* Steps that write none of what the invariant speaks of but one process's place.
LEMMA FilesKept ==
    ASSUME TypeInv, ClockTyped', OutcomeInv, UNCHANGED <<table, marks, added, ledger>>,
           now <= now'
    PROVE  MarksInv' /\ LedgerInv'
<1>1. ASSUME NEW o \in ledger PROVE Marked(o)'
  BY MarkedKept, SameUnchanged DEF OutcomeInv, LedgerInv
<1> QED
  BY <1>1, MarksUnchanged DEF OutcomeInv, LedgerInv

\* A process that comes to hold no job.
LEMMA IdleMoves ==
    ASSUME TypeInv, ClockTyped', OutcomeInv, NEW p \in Pids,
           UNCHANGED <<table, marks, added, ledger, now>>,
           pc'[p] \notin {"each"} \cup InHand, todo'[p] = <<>>,
           \A q \in Pids \ {p} : pc'[q] = pc[q] /\ todo'[q] = todo[q] /\ due'[q] = due[q]
    PROVE  OutcomeInv'
<1>1. now <= now'
  BY SchedulerAssumption DEF TypeInv, ClockTyped, Distant
<1>2. TodoOf(p)'
  BY DEF TodoOf, Items
<1>3. ASSUME NEW q \in Pids, q # p PROVE TodoOf(q)'
  <2>1. TodoOf(q) /\ pc'[q] = pc[q] /\ todo'[q] = todo[q] /\ due'[q] = due[q]
    BY <1>3 DEF OutcomeInv, TodoInv
  <2>2. \A id : Same(id)
    BY SameUnchanged
  <2> QED
    BY <1>1, <2>1, <2>2, ListKept
<1> QED
  BY <1>1, <1>2, <1>3, FilesKept DEF OutcomeInv, TodoInv

\* Steps outside the loop.
LEMMA LoopKept ==
    ASSUME TypeInv, ClockTyped', OutcomeInv, now <= now',
           UNCHANGED <<table, marks, added, ledger, loopVars>>
    PROVE  OutcomeInv'
<1>1. ASSUME NEW q \in Pids PROVE TodoOf(q)'
  <2>1. TodoOf(q) /\ pc'[q] = pc[q] /\ todo'[q] = todo[q] /\ due'[q] = due[q]
    BY DEF OutcomeInv, TodoInv, loopVars
  <2>2. \A id : Same(id)
    BY SameUnchanged
  <2> QED
    BY <2>1, <2>2, ListKept
<1> QED
  BY <1>1, FilesKept DEF OutcomeInv, TodoInv

-----------------------------------------------------------------------------
(* The operator and the clock *)

\* A step of the operator on one routine, which leaves the others as they are.
LEMMA OneChanged ==
    ASSUME TypeInv, ClockTyped', OutcomeInv, NEW id \in Ids,
           UNCHANGED <<loopVars, now, ledger>>,
           \A other \in Ids : other # id => Same(other) /\ marks'[other] = marks[other],
           IF Listed(id)' THEN Seen(id, now)' ELSE marks'[id] = {},
           \A o \in ledger : o.id = id => Marked(o)',
           Same(id) \/ \A p \in Pids : \A j \in Items(todo[p]) : j.id # id
    PROVE  OutcomeInv'
<1>0. ClockTyped /\ MarksInv /\ LedgerInv /\ TodoInv /\ now <= now' /\ LoopTyped
  BY SchedulerAssumption DEF TypeInv, OutcomeInv, ClockTyped, Distant
<1>1. ASSUME NEW q \in Pids PROVE TodoOf(q)'
  <2>1. TodoOf(q) /\ pc'[q] = pc[q] /\ todo'[q] = todo[q] /\ due'[q] = due[q]
    BY <1>0 DEF TodoInv, loopVars
  <2>2. ASSUME NEW j \in Items(todo[q]) PROVE Same(j.id)
    <3>1. todo[q] \in Seq(Jobs)
      BY <1>0 DEF LoopTyped
    <3>2. j.id \in Ids
      BY <3>1, ItemsOfSeq DEF Jobs
    <3> QED
      BY <3>2
  <2> QED
    BY <1>0, <2>1, <2>2, ListKept
<1>2. ASSUME NEW other \in Ids
      PROVE  IF Listed(other)' THEN Seen(other, now)' ELSE marks'[other] = {}
  <2>1. CASE other # id /\ Listed(other)
    <3>1. Same(other) /\ Seen(other, now)
      BY <1>0, <2>1 DEF MarksInv
    <3> QED
      BY <1>0, <2>1, <3>1, MarksKept DEF Same
  <2>2. CASE other # id /\ ~Listed(other)
    <3>1. Same(other) /\ marks'[other] = marks[other] /\ marks[other] = {}
      BY <1>0, <2>2 DEF MarksInv
    <3> QED
      BY <2>2, <3>1 DEF Same
  <2> QED
    BY <2>1, <2>2
<1>3. ASSUME NEW o \in ledger PROVE Marked(o)'
  <2>1. Marked(o) /\ o.id \in Ids
    BY <1>0 DEF LedgerInv, Marked
  <2> QED
    BY <2>1, MarkedKept
<1> QED
  BY <1>1, <1>2, <1>3 DEF OutcomeInv, TodoInv, MarksInv, LedgerInv

\* A step that leaves every routine its plan and its markers.
LEMMA NothingChanged ==
    ASSUME TypeInv, ClockTyped', OutcomeInv, NEW id \in Ids,
           UNCHANGED <<loopVars, now, ledger>>, \A i \in Ids : Same(i), Listed(id),
           \A other \in Ids : other # id => marks'[other] = marks[other]
    PROVE  OutcomeInv'
<1>0. ClockTyped /\ MarksInv /\ LedgerInv /\ now <= now'
  BY SchedulerAssumption DEF TypeInv, OutcomeInv, ClockTyped, Distant
<1>1. Listed(id)' /\ Seen(id, now)'
  BY <1>0, MarksKept DEF MarksInv, Same
<1>2. ASSUME NEW o \in ledger, o.id = id PROVE Marked(o)'
  BY <1>0, <1>2, MarkedKept DEF LedgerInv
<1> QED
  BY <1>1, <1>2, OneChanged

\* An id added again counts one more: its old outcomes are not behind its markers.
LEMMA AddOutcome ==
    ASSUME TypeInv, ClockTyped', OutcomeInv, NEW id \in Ids, AddRoutine(id)
    PROVE  OutcomeInv'
<1>0. FilesTyped /\ ClockTyped /\ MarksInv /\ LedgerInv /\ TodoInv
  BY DEF TypeInv, OutcomeInv
<1>1. PICK plan \in Catalogue, enabled \in BOOLEAN :
          table' = [table EXCEPT ![id] = {[plan |-> plan, enabled |-> enabled]}]
  BY DEF AddRoutine
<1>2. /\ ~Listed(id) /\ added' = [added EXCEPT ![id] = @ + 1] /\ marks' = marks
      /\ UNCHANGED <<loopVars, now, ledger>>
  BY DEF AddRoutine
<1>3. \A other \in Ids : other # id => Same(other) /\ marks'[other] = marks[other]
  BY <1>0, <1>1, <1>2 DEF Same, Listed, Entry, RoutineOf, FilesTyped, ClockTyped
<1>4. Listed(id)' /\ Seen(id, now)'
  BY <1>0, <1>1, <1>2 DEF Listed, Seen, Entry, Blank, FilesTyped, MarksInv
<1>5. ASSUME NEW o \in ledger, o.id = id PROVE Marked(o)'
  <2>1. Marked(o) /\ added'[id] = added[id] + 1 /\ added[id] \in Nat
    BY <1>0, <1>2, SchedulerAssumption DEF LedgerInv, ClockTyped
  <2> QED
    BY <1>5, <2>1 DEF Marked
<1>6. ASSUME NEW p \in Pids, NEW j \in Items(todo[p]) PROVE j.id # id
  BY <1>0, <1>2 DEF TodoInv, TodoOf, Holds
<1> QED
  BY <1>2, <1>3, <1>4, <1>5, <1>6, OneChanged

\* A removal drops the markers; nobody has a job of the routine in its tick.
LEMMA RemoveOutcome ==
    ASSUME TypeInv, ClockTyped', OutcomeInv, MidTick = FALSE, NEW id \in Ids, RemoveRoutine(id)
    PROVE  OutcomeInv'
<1>0. FilesTyped /\ LoopInv /\ ClockTyped /\ MarksInv /\ LedgerInv /\ TodoInv
  BY DEF TypeInv, OutcomeInv
<1>1. /\ table' = [table EXCEPT ![id] = {}] /\ marks' = [marks EXCEPT ![id] = {}]
      /\ added' = added /\ UNCHANGED <<loopVars, now, ledger>>
      /\ \A p \in Pids : pc[p] \in {"off", "gate", "leave"}
  BY DEF RemoveRoutine
<1>3. \A other \in Ids : other # id => Same(other) /\ marks'[other] = marks[other]
  BY <1>0, <1>1 DEF Same, Listed, Entry, RoutineOf, FilesTyped, ClockTyped
<1>4. ~Listed(id)' /\ marks'[id] = {}
  BY <1>0, <1>1 DEF Listed, FilesTyped
<1>5. ASSUME NEW o \in ledger, o.id = id PROVE Marked(o)'
  BY <1>0, <1>1, <1>4, <1>5 DEF LedgerInv, Marked
<1>6. ASSUME NEW p \in Pids, NEW j \in Items(todo[p]) PROVE j.id # id
  <2>1. todo[p] = <<>>
    BY <1>0, <1>1 DEF TodoInv, TodoOf, InHand
  <2> QED
    BY <2>1 DEF Items
<1> QED
  BY <1>1, <1>3, <1>4, <1>5, <1>6, OneChanged

LEMMA SwitchOutcome ==
    ASSUME TypeInv, ClockTyped', OutcomeInv, NEW id \in Ids, SetEnabled(id) \/ RunNow(id)
    PROVE  OutcomeInv'
<1>0. FilesTyped /\ Listed(id) /\ UNCHANGED <<loopVars, added, now, ledger>>
  BY DEF TypeInv, SetEnabled, RunNow
<1>1. CASE SetEnabled(id)
  <2>1. RoutineOf(id) \in Routines /\ marks' = marks
        /\ table' = [table EXCEPT ![id] = {[RoutineOf(id) EXCEPT !.enabled = ~@]}]
    BY <1>0, <1>1, RoutineTyped DEF SetEnabled
  <2> DEFINE r == [RoutineOf(id) EXCEPT !.enabled = ~@]
  <2>2. table'[id] = {r} /\ r.plan = RoutineOf(id).plan
    BY <1>0, <2>1 DEF FilesTyped, Routines
  <2> HIDE DEF r
  <2>3. RoutineOf(id)' = r /\ Listed(id)'
    BY <2>2 DEF RoutineOf, Listed
  <2>4. Same(id)
    BY <1>0, <2>1, <2>2, <2>3 DEF Same, Entry
  <2>5. \A other \in Ids : other # id => Same(other)
    BY <1>0, <2>1 DEF Same, Listed, Entry, RoutineOf, FilesTyped
  <2> QED
    BY <1>0, <2>1, <2>4, <2>5, NothingChanged
<1>2. CASE RunNow(id)
  <2>1. Entry(id) \in Entries /\ Update(id, Entry(id)) /\ UNCHANGED table
    BY <1>0, <1>2, EntryTyped DEF RunNow
  <2>2. \A i \in Ids : Entry(i)' = Entry(i)
    <3> PICK e \in Entries : e = Entry(id)
      BY <2>1
    <3>1. Entry(id)' = e /\ \A other \in Ids : other # id => Entry(other)' = Entry(other)
      BY <1>0, <2>1, EntryWritten
    <3> QED
      BY <3>1
  <2>3. \A i \in Ids : Same(i)
    BY <1>0, <2>1, <2>2 DEF Same, Listed, RoutineOf
  <2>4. \A other \in Ids : other # id => marks'[other] = marks[other]
    BY <1>0, <2>1 DEF Update, FilesTyped
  <2> QED
    BY <1>0, <2>3, <2>4, NothingChanged
<1> QED
  BY <1>1, <1>2

LEMMA ClockOutcome ==
    ASSUME TypeInv, ClockTyped', OutcomeInv, SetGate \/ SetStage \/ Pass
    PROVE  OutcomeInv'
<1>1. UNCHANGED <<table, marks, added, ledger, loopVars>>
  BY DEF SetGate, SetStage, Pass, fileVars, ghostVars
<1>2. now <= now'
  BY SchedulerAssumption DEF SetGate, SetStage, Pass, TypeInv, ClockTyped, Distant
<1> QED
  BY <1>1, <1>2, LoopKept

-----------------------------------------------------------------------------
(* The daemon *)

\* While one process is in the loop, no other has a job.
LEMMA OthersIdle ==
    ASSUME TypeInv, OutcomeInv, OneLoop, NEW p \in Pids, pc[p] # "off",
           NEW q \in Pids, q # p
    PROVE  pc[q] = "off" /\ todo[q] = <<>>
<1>1. Up(p) /\ ~Up(q)
  BY DEF TypeInv, LoopInv, OneLoop
<1>2. pc[q] = "off"
  BY <1>1 DEF TypeInv, LoopInv
<1> QED
  BY <1>2 DEF OutcomeInv, TodoInv, TodoOf, InHand

\* What is not yet dealt with is ahead of every outcome of its routine.
LEMMA DueAhead ==
    ASSUME TypeInv, OutcomeInv, NEW p \in Pids, todo[p] # <<>>,
           NEW job, job = Current(p), Judge(job) # "skip"
    PROVE  /\ Instant(job) \in Nat /\ Entry(job.id).last < Instant(job)
           /\ \A o \in ledger : o.id = job.id /\ o.n = job.n => o.t < Instant(job)
<1>0. FilesTyped /\ LoopTyped /\ ClockTyped /\ TodoInv /\ LedgerInv
  BY DEF TypeInv, OutcomeInv
<1>1. job \in Jobs /\ job \in Items(todo[p])
  BY <1>0, CurrentTyped
<1>2. /\ Instant(job) \in Nat /\ ~(Entry(job.id).last >= Instant(job))
      /\ Entry(job.id).inFlight # Instant(job)
  BY <1>1, VerdictDue
<1>3. Holds(job)
  BY <1>0, <1>1 DEF TodoInv, TodoOf
<1> PICK e \in Entries : e = Entry(job.id)
  BY <1>0, <1>1, EntryTyped DEF Jobs
<1> PICK t \in Nat : t = Instant(job)
  BY <1>2
<1>4. e.last < t
  BY <1>2 DEF Entries, NoInstant
<1>5. e.inFlight < t
  <2>1. CASE e.inFlight = NoInstant
    BY <2>1 DEF NoInstant
  <2>2. CASE e.inFlight # NoInstant
    <3>1. PICK s \in StartTime .. job.time : e.inFlight = LastInstant(RoutineOf(job.id).plan, s)
      BY <1>3, <2>2 DEF Holds, Seen
    <3>2. job.r.plan = RoutineOf(job.id).plan /\ WellFormed(job.r.plan)
      BY <1>1, <1>3, SchedulerAssumption DEF Holds, Jobs, Routines
    <3>3. job.time \in StartTime .. MaxTime /\ s \in StartTime .. MaxTime /\ s <= job.time
      BY <1>1, <3>1, SchedulerAssumption DEF Jobs, Distant
    <3>4. Distant(s) /\ Distant(job.time)
      BY <3>3, DistantTimes
    <3>5. LastInstant(job.r.plan, job.time) = t
      BY DEF Instant
    <3>6. t # NoInstant
      BY DEF NoInstant
    <3>7. LastInstant(job.r.plan, s) <= LastInstant(job.r.plan, job.time)
      BY <2>2, <3>1, <3>2, <3>3, <3>4, <3>5, <3>6, LastMonotone
    <3>8. e.inFlight <= t /\ e.inFlight \in Int
      BY <3>1, <3>2, <3>5, <3>7 DEF Entries, NoInstant
    <3> QED
      BY <1>2, <3>8
  <2> QED
    BY <2>1, <2>2
<1>6. ASSUME NEW o \in ledger, o.id = job.id, o.n = job.n PROVE o.t < t
  <2>1. Marked(o) /\ Listed(o.id) /\ o.n = added[o.id]
    BY <1>0, <1>3, <1>6 DEF LedgerInv, Holds
  <2>2. o.t \in Nat /\ (o.t <= e.last \/ o.t <= e.inFlight)
    BY <1>6, <2>1 DEF Marked, Behind
  <2> QED
    BY <1>4, <1>5, <2>2 DEF Entries, NoInstant
<1> QED
  BY <1>4, <1>6

\* The first outcome of an occurrence is recorded as the first.
LEMMA FirstRecorded ==
    ASSUME NEW id, NEW n, NEW t, NEW how, Unsettled(id, n, t), Record(id, n, t, how)
    PROVE  ledger' = ledger \cup {[id |-> id, n |-> n, t |-> t, how |-> how, nth |-> 1]}
<1>1. {o \in ledger : o.id = id /\ o.n = n /\ o.t = t} = {}
  BY DEF Unsettled
<1> QED
  BY <1>1, FS_EmptySet DEF Record

\* A write of one entry by the process in the loop: what the others have of it.
LEMMA EntryOutcome ==
    ASSUME TypeInv, TypeInv', OutcomeInv, OneLoop, NEW p \in Pids, pc[p] # "off",
           UNCHANGED <<table, added, now>>,
           \A q \in Pids \ {p} : pc'[q] = pc[q] /\ todo'[q] = todo[q],
           NEW id \in Ids, Listed(id), NEW e \in Entries, Update(id, e),
           Seen(id, now)',
           \A o \in ledger' : (o \in ledger /\ o.id # id) \/ Marked(o)',
           TodoOf(p)'
    PROVE  OutcomeInv'
<1>0. FilesTyped /\ ClockTyped /\ ClockTyped' /\ MarksInv /\ LedgerInv /\ now <= now'
  BY SchedulerAssumption DEF TypeInv, OutcomeInv, ClockTyped, Distant
<1>1. ASSUME NEW q \in Pids, q # p PROVE TodoOf(q)'
  <2>1. pc'[q] = "off" /\ todo'[q] = <<>>
    BY <1>1, OthersIdle
  <2> QED
    BY <2>1 DEF TodoOf, InHand, Items
<1>2. \A other \in Ids : other # id => Same(other) /\ marks'[other] = marks[other]
  BY <1>0, EntryWritten DEF Same, Listed, RoutineOf, Update, FilesTyped
<1>3. ASSUME NEW other \in Ids
      PROVE  IF Listed(other)' THEN Seen(other, now)' ELSE marks'[other] = {}
  <2>1. CASE other = id
    BY <2>1 DEF Listed
  <2>2. CASE other # id /\ Listed(other)
    <3>1. Same(other) /\ Seen(other, now)
      BY <1>0, <1>2, <2>2 DEF MarksInv
    <3> QED
      BY <1>0, <2>2, <3>1, MarksKept DEF Same
  <2>3. CASE other # id /\ ~Listed(other)
    BY <1>0, <1>2, <2>3 DEF MarksInv, Same
  <2> QED
    BY <2>1, <2>2, <2>3
<1>4. ASSUME NEW o \in ledger' PROVE Marked(o)'
  <2>1. CASE o \in ledger /\ o.id # id
    <3>1. Marked(o) /\ o.id \in Ids
      BY <1>0, <2>1 DEF LedgerInv, Marked
    <3> QED
      BY <1>2, <2>1, <3>1, MarkedKept
  <2> QED
    BY <2>1
<1> QED
  BY <1>1, <1>3, <1>4 DEF OutcomeInv, TodoInv, MarksInv, LedgerInv

\* An occurrence settled: its entry is stamped and the tick goes on with the rest.
LEMMA SettleOutcome ==
    ASSUME TypeInv, TypeInv', OutcomeInv, OneLoop, NEW p \in Pids,
           pc[p] # "off", todo[p] # <<>>, NEW job, job = Current(p),
           NEW t \in Nat, NEW retire \in BOOLEAN, Settle(job.id, t, retire),
           UNCHANGED <<table, added, now>>, NextJob(p), pc'[p] = "each",
           \A q \in Pids \ {p} : pc'[q] = pc[q],
           \A o \in ledger : o.id = job.id /\ o.n = job.n => o.t <= t,
           \A o \in ledger' : o \in ledger \/ (/\ o.id = job.id /\ o.n = job.n
                                              /\ o.t = t /\ o.nth = 1)
    PROVE  OutcomeInv'
<1>0. /\ FilesTyped /\ LoopTyped /\ ClockTyped /\ ClockTyped' /\ TodoInv /\ LedgerInv
      /\ now <= now'
  BY SchedulerAssumption DEF TypeInv, OutcomeInv, ClockTyped, Distant
<1>1. job \in Jobs /\ job \in Items(todo[p]) /\ Items(Tail(todo[p])) \subseteq Items(todo[p])
  BY <1>0, CurrentTyped
<1>2. Holds(job) /\ job.id \in Ids /\ job.n \in Nat
  BY <1>0, <1>1, SchedulerAssumption DEF TodoInv, TodoOf, Jobs
<1> PICK e \in Entries : /\ e.last = t /\ e.inFlight = NoInstant
                         /\ Update(job.id, e)
  BY <1>0, <1>2, SettleEntry DEF Settle
<1>3. Entry(job.id)' = e /\ \A other \in Ids : other # job.id => Same(other)
  BY <1>0, <1>2, EntryWritten DEF Same, Listed, RoutineOf
<1>4. Entry(job.id)'.last = t /\ Entry(job.id)'.inFlight = NoInstant
  BY <1>3
<1>5. \A s : Seen(job.id, s)'
  BY <1>4 DEF Seen
<1>6. ASSUME NEW o \in ledger', ~(o \in ledger /\ o.id # job.id) PROVE Marked(o)'
  <2>1. CASE o \in ledger
    <3>1. o.id = job.id /\ Marked(o)
      BY <1>0, <1>6, <2>1 DEF LedgerInv
    <3>2. o.n = added[o.id] => o.t <= t
      BY <1>2, <2>1, <3>1 DEF Holds
    <3> QED
      BY <1>4, <3>1, <3>2 DEF Marked, Behind
  <2>2. CASE o \notin ledger
    <3>1. o.id = job.id /\ o.n = job.n /\ o.t = t /\ o.nth = 1
      BY <2>2
    <3>2. o.n = added[o.id] /\ t <= t
      BY <1>2, <3>1 DEF Holds
    <3>3. added'[o.id] = job.n /\ o.n <= job.n
      BY <1>2, <3>1, <3>2
    <3> QED
      BY <1>2, <1>4, <3>1, <3>2, <3>3 DEF Marked, Behind
  <2> QED
    BY <2>1, <2>2
<1>7. todo'[p] = Tail(todo[p]) /\ \A q \in Pids \ {p} : todo'[q] = todo[q]
  BY <1>0 DEF NextJob, LoopTyped
<1>8. TodoOf(p)'
  <2>1. \A j \in Items(todo[p]) : Holds(j) /\ j \in Jobs
    BY <1>0, ItemsOfSeq DEF TodoInv, TodoOf, LoopTyped
  <2>2. ASSUME NEW j \in Items(todo[p]) PROVE Holds(j)'
    <3>1. CASE j.id = job.id
      BY <1>5, <2>1, <3>1 DEF Holds, Listed, RoutineOf
    <3>2. CASE j.id # job.id
      BY <1>0, <1>3, <2>1, <3>2, HoldsKept DEF Jobs
    <3> QED
      BY <3>1, <3>2
  <2>3. \A j, k \in Items(todo[p]) : k.time = j.time
    BY <1>0 DEF TodoInv, TodoOf
  <2>4. Items(todo[p])' \subseteq Items(todo[p])
    BY <1>1, <1>7 DEF Items
  <2> QED
    BY <2>2, <2>3, <2>4 DEF TodoOf, InHand
<1>9. Listed(job.id) /\ Seen(job.id, now)'
  <2> PICK u : u = now'
    OBVIOUS
  <2>1. Seen(job.id, u)'
    BY <1>5
  <2> QED
    BY <1>2, <2>1 DEF Holds, Seen
<1> QED
  BY <1>2, <1>6, <1>7, <1>8, <1>9, EntryOutcome

\* A tick reads its jobs at one time.
LEMMA StartTickOutcome ==
    ASSUME TypeInv, TypeInv', OutcomeInv, OneLoop, NEW p \in Pids, StartTick(p)
    PROVE  OutcomeInv'
<1>0. ClockTyped /\ ClockTyped' /\ LoopTyped /\ LoopInv /\ MarksInv
  BY DEF TypeInv, OutcomeInv
<1> DEFINE S == {Job(id) : id \in {i \in Ids : Listed(i)}}
<1>1. /\ pc' = [pc EXCEPT ![p] = "each"] /\ todo' = [todo EXCEPT ![p] = SetToSeq(S)]
      /\ pc[p] # "off" /\ UNCHANGED <<table, marks, added, ledger, now>>
  BY DEF StartTick, fileVars, ghostVars
<1>2. IsFiniteSet(S)
  <2> DEFINE L == {i \in Ids : Listed(i)}
             f == [id \in L |-> Job(id)]
  <2>1. IsFiniteSet(L)
    BY SchedulerAssumption, FS_Subset
  <2>2. f \in Surjection(L, S)
    BY DEF Surjection
  <2> HIDE DEF S, f, L
  <2> QED
    BY <2>1, <2>2, FS_Surjection
<1>3. \A j \in S : \E id \in Ids : Listed(id) /\ j = Job(id)
  OBVIOUS
<1> HIDE DEF S
<1>4. Items(SetToSeq(S)) \subseteq S
  BY <1>2, ItemsOfSet, ItemsOfSeq
<1>5. now <= now /\ now' = now
  BY <1>0, <1>1, SchedulerAssumption DEF ClockTyped, Distant
<1>6. ASSUME NEW j \in S PROVE Holds(j) /\ j.time = now /\ j.id \in Ids
  <2> PICK id \in Ids : Listed(id) /\ j = Job(id)
    BY <1>3
  <2> QED
    BY <1>0, <1>5 DEF Holds, Job, MarksInv
<1>7. ASSUME NEW j \in S PROVE Holds(j)'
  <2>1. Same(j.id) /\ Holds(j)
    BY <1>1, <1>6, SameUnchanged
  <2>2. Seen(j.id, j.time)'
    BY <2>1, SeenKept DEF Holds
  <2> QED
    BY <1>5, <2>1, <2>2 DEF Holds, Same
<1>8. TodoOf(p)'
  <2>1. pc'[p] = "each" /\ todo'[p] = SetToSeq(S)
    BY <1>0, <1>1 DEF LoopInv, LoopTyped
  <2>2. Items(todo[p])' \subseteq S
    BY <1>4, <2>1 DEF Items
  <2> QED
    BY <1>6, <1>7, <2>1, <2>2 DEF TodoOf, InHand
<1>9. ASSUME NEW q \in Pids, q # p PROVE TodoOf(q)'
  <2>1. pc[q] = "off" /\ todo[q] = <<>>
    BY <1>1, <1>9, OthersIdle
  <2>2. pc'[q] = "off" /\ todo'[q] = <<>>
    BY <1>0, <1>1, <1>9, <2>1 DEF LoopInv, LoopTyped
  <2> QED
    BY <2>2 DEF TodoOf, InHand, Items
<1>10. MarksInv' /\ LedgerInv'
  BY <1>0, <1>1, <1>5, FilesKept
<1> QED
  BY <1>8, <1>9, <1>10 DEF OutcomeInv, TodoInv

\* A miss, or an occurrence consumed by a pause, is its first outcome.
LEMMA PassOverOutcome ==
    ASSUME TypeInv, TypeInv', OutcomeInv, OneLoop, NEW p \in Pids, PassOver(p)
    PROVE  OutcomeInv'
<1>0. ClockTyped /\ ClockTyped' /\ LoopTyped /\ LoopInv /\ TodoInv
  BY DEF TypeInv, OutcomeInv
<1> PICK job : job = Current(p)
  OBVIOUS
<1>1. /\ pc[p] = "each" /\ todo[p] # <<>> /\ NextJob(p) /\ pc' = pc
      /\ UNCHANGED <<table, added, now>>
  BY DEF PassOver, fileVars
<1>2. job \in Jobs /\ Items(Tail(todo[p])) \subseteq Items(todo[p]) /\ job \in Items(todo[p])
  BY <1>0, <1>1, CurrentTyped
<1>3. CASE Judge(job) # "skip"
  <2> PICK t : t = Instant(job)
    OBVIOUS
  <2>1. /\ t \in Nat
        /\ \A o \in ledger : o.id = job.id /\ o.n = job.n => o.t < t
    BY <1>1, <1>3, DueAhead
  <2>2. MarkMissed(job.id, job.r, t) /\ Record(job.id, job.n, t, "missed")
    BY <1>3 DEF PassOver
  <2>3. Unsettled(job.id, job.n, t)
    BY <2>1 DEF Unsettled
  <2>4. ledger' = ledger \cup
            {[id |-> job.id, n |-> job.n, t |-> t, how |-> "missed", nth |-> 1]}
    BY <2>2, <2>3, FirstRecorded
  <2>5. \A o \in ledger' : o \in ledger \/ (/\ o.id = job.id /\ o.n = job.n
                                           /\ o.t = t /\ o.nth = 1)
    BY <2>4
  <2>6. \A o \in ledger : o.id = job.id /\ o.n = job.n => o.t <= t
    <3>1. \A o \in ledger : Marked(o)
      BY DEF OutcomeInv, LedgerInv
    <3> QED
      BY <2>1, <3>1 DEF Marked
  <2>7. \E retire \in BOOLEAN : Settle(job.id, t, retire)
    BY <2>2 DEF MarkMissed, Retires
  <2> QED
    BY <1>1, <2>1, <2>5, <2>6, <2>7, SettleOutcome
<1>4. CASE Judge(job) = "skip"
  <2>1. UNCHANGED <<table, marks, added, ledger, now>>
    BY <1>4 DEF PassOver, fileVars
  <2>2. now <= now'
    BY <1>0, <2>1, SchedulerAssumption DEF ClockTyped, Distant
  <2>3. MarksInv' /\ LedgerInv'
    BY <1>0, <2>1, <2>2, FilesKept
  <2>4. todo'[p] = Tail(todo[p]) /\ \A q \in Pids \ {p} : todo'[q] = todo[q]
    BY <1>0, <1>1 DEF NextJob, LoopTyped
  <2>5. ASSUME NEW q \in Pids, q # p PROVE TodoOf(q)'
    <3>1. pc'[q] = "off" /\ todo'[q] = <<>>
      BY <1>1, <2>4, <2>5, OthersIdle
    <3> QED
      BY <3>1 DEF TodoOf, InHand, Items
  <2>6. ASSUME NEW j \in Items(todo[p]) PROVE Holds(j)'
    <3>1. Holds(j) /\ j \in Jobs
      BY <1>0, ItemsOfSeq DEF TodoInv, TodoOf, LoopTyped
    <3> QED
      BY <1>0, <2>1, <2>2, <3>1, HoldsKept, SameUnchanged
  <2>7. \A j, k \in Items(todo[p]) : k.time = j.time
    BY <1>0 DEF TodoInv, TodoOf
  <2>8. Items(todo[p])' \subseteq Items(todo[p])
    BY <1>2, <2>4 DEF Items
  <2>9. TodoOf(p)'
    BY <1>1, <2>6, <2>7, <2>8 DEF TodoOf, InHand
  <2> QED
    BY <2>3, <2>5, <2>9 DEF OutcomeInv, TodoInv
<1> QED
  BY <1>3, <1>4

\* The intent is stamped before anything of the occurrence is settled.
LEMMA IntendOutcome ==
    ASSUME TypeInv, TypeInv', OutcomeInv, OneLoop, NEW p \in Pids, Intend(p)
    PROVE  OutcomeInv'
<1>0. /\ FilesTyped /\ ClockTyped /\ ClockTyped' /\ LoopTyped /\ LoopInv /\ TodoInv
      /\ LedgerInv
  BY DEF TypeInv, OutcomeInv
<1> PICK job : job = Current(p)
  OBVIOUS
<1> PICK t : t = Instant(job)
  OBVIOUS
<1>1. /\ pc[p] = "each" /\ todo[p] # <<>> /\ Judge(job) = "fire" /\ MarkIntent(job.id, t)
      /\ due' = [due EXCEPT ![p] = t] /\ pc' = [pc EXCEPT ![p] = "send"]
      /\ UNCHANGED <<table, todo, added, now, ledger>>
  BY DEF Intend, ghostVars
<1>2. job \in Jobs /\ job \in Items(todo[p]) /\ job.id \in Ids
  BY <1>0, <1>1, CurrentTyped DEF Jobs
<1>3. /\ t \in Nat /\ Entry(job.id).last < t
      /\ \A o \in ledger : o.id = job.id /\ o.n = job.n => o.t < t
  BY <1>1, DueAhead
<1>4. /\ Holds(job) /\ job.time \in Nat /\ job.time <= now /\ now \in Nat /\ StartTime \in Nat
      /\ StartTime <= job.time
  BY <1>0, <1>2, SchedulerAssumption DEF TodoInv, TodoOf, Holds, Jobs, ClockTyped, Distant
<1> PICK e \in Entries : e.inFlight = t /\ e.last = Entry(job.id).last /\ Update(job.id, e)
  BY <1>0, <1>1, <1>2, <1>3, IntentEntry DEF MarkIntent
<1>5. Entry(job.id)' = e /\ \A other \in Ids : other # job.id => Same(other)
  BY <1>0, <1>1, <1>2, EntryWritten DEF Same, Listed, RoutineOf
<1>6. Entry(job.id)'.inFlight = t /\ Entry(job.id)'.last < t
  BY <1>3, <1>5
<1>7. Seen(job.id, job.time)'
  <2>1. job.time \in StartTime .. job.time
    BY <1>4
  <2>2. t = LastInstant(RoutineOf(job.id).plan, job.time)
    BY <1>4 DEF Holds, Instant
  <2>3. RoutineOf(job.id)' = RoutineOf(job.id)
    BY <1>1 DEF RoutineOf
  <2> QED
    BY <1>6, <2>1, <2>2, <2>3 DEF Seen
<1>8. Seen(job.id, now)'
  <2>1. \A s \in StartTime .. job.time : s \in StartTime .. now
    BY <1>4
  <2> QED
    BY <1>1, <1>7, <2>1 DEF Seen
<1>9. ASSUME NEW o \in ledger, o.id = job.id PROVE Marked(o)'
  <2>1. Marked(o) /\ added' = added
    BY <1>0, <1>1 DEF LedgerInv
  <2>2. o.n = added[o.id] => o.t <= t
    BY <1>3, <1>4, <1>9, <2>1 DEF Holds, Marked
  <2> QED
    BY <1>6, <1>9, <2>1, <2>2 DEF Marked, Behind
<1>10. pc'[p] = "send" /\ due'[p] = t /\ \A q \in Pids \ {p} : pc'[q] = pc[q]
  BY <1>0, <1>1 DEF LoopInv, LoopTyped
<1>11. TodoOf(p)'
  <2>1. \A j \in Items(todo[p]) : Holds(j) /\ j \in Jobs
    BY <1>0, ItemsOfSeq DEF TodoInv, TodoOf, LoopTyped
  <2>2. \A j, k \in Items(todo[p]) : k.time = j.time
    BY <1>0 DEF TodoInv, TodoOf
  <2>3. ASSUME NEW j \in Items(todo[p]) PROVE Holds(j)'
    <3>1. CASE j.id = job.id
      <4>1. j.time = job.time
        BY <1>2, <2>2
      <4>2. Seen(j.id, j.time)'
        BY <1>7, <3>1, <4>1 DEF Seen
      <4> QED
        BY <1>1, <2>1, <4>2 DEF Holds, Listed, RoutineOf
    <3>2. CASE j.id # job.id
      <4>1. Same(j.id) /\ now <= now'
        BY <1>1, <1>4, <1>5, <2>1, <3>2 DEF Jobs
      <4> QED
        BY <1>0, <2>1, <4>1, HoldsKept
    <3> QED
      BY <3>1, <3>2
  <2>4. Items(todo[p])' = Items(todo[p])
    BY <1>1 DEF Items
  <2>5. Stamped(p)'
    <3>1. Current(p)' = job
      BY <1>1 DEF Current
    <3>2. Unsettled(job.id, job.n, t)'
      <4>1. \A o \in ledger : o.t \in Nat
        BY <1>0 DEF LedgerInv, Marked
      <4> QED
        BY <1>1, <1>3, <4>1 DEF Unsettled
    <3> QED
      BY <1>6, <1>10, <3>1, <3>2 DEF Stamped, Unsettled, Instant
  <2> QED
    BY <1>10, <2>2, <2>3, <2>4, <2>5 DEF TodoOf, InHand
<1>12. Listed(job.id) /\ pc[p] # "off"
  BY <1>1, <1>4 DEF Holds
<1> QED
  BY <1>1, <1>2, <1>8, <1>9, <1>10, <1>11, <1>12, EntryOutcome

\* A send records the first outcome, or nothing.
LEMMA SendOutcome ==
    ASSUME TypeInv, TypeInv', OutcomeInv, OneLoop, NEW p \in Pids, Send(p)
    PROVE  OutcomeInv'
<1>0. ClockTyped /\ ClockTyped' /\ LoopTyped /\ LoopInv /\ TodoInv /\ LedgerInv
  BY DEF TypeInv, OutcomeInv
<1> PICK job : job = Current(p)
  OBVIOUS
<1> PICK t : t = due[p]
  OBVIOUS
<1>1. pc[p] = "send" /\ UNCHANGED <<table, marks, todo, due, now, added>>
  BY DEF Send, fileVars
<1>2. todo[p] # <<>> /\ t \in Nat /\ job \in Items(todo[p]) /\ job \in Jobs
  BY <1>0, <1>1, CurrentTyped DEF LoopTyped, InHand
<1>3. /\ Holds(job) /\ t = Instant(job) /\ Unsettled(job.id, job.n, t)
      /\ Entry(job.id).inFlight = t /\ Entry(job.id).last < t
  BY <1>0, <1>1, <1>2 DEF TodoInv, TodoOf, Stamped, InHand
<1>4. now <= now'
  BY <1>0, <1>1, SchedulerAssumption DEF ClockTyped, Distant
<1>5. /\ pc'[p] \in {"sent", "failed"} /\ \A q \in Pids \ {p} : pc'[q] = pc[q]
      /\ pc'[p] = "failed" => ledger' = ledger
  BY <1>0 DEF Send, LoopInv
<1>6. ASSUME NEW o \in ledger' PROVE Marked(o)'
  <2>1. CASE o \in ledger
    BY <1>0, <1>1, <2>1, MarkedKept, SameUnchanged DEF LedgerInv
  <2>2. CASE o \notin ledger
    <3>1. Record(job.id, job.n, t, "fired")
      BY <2>2 DEF Send
    <3>2. o = [id |-> job.id, n |-> job.n, t |-> t, how |-> "fired", nth |-> 1]
      BY <1>3, <2>2, <3>1, FirstRecorded
    <3>3. o.id = job.id /\ o.n = job.n /\ o.t = t /\ o.nth = 1
      BY <3>2
    <3>4. Same(job.id) /\ job.id \in Ids /\ job.n \in Nat /\ job.n <= job.n /\ t <= t
      BY <1>1, <1>2, SameUnchanged, SchedulerAssumption DEF Jobs
    <3>5. Entry(job.id)'.inFlight = t /\ added'[job.id] = job.n
      BY <1>3, <3>4 DEF Same, Holds
    <3> QED
      BY <1>2, <3>3, <3>4, <3>5 DEF Marked, Behind
  <2> QED
    BY <2>1, <2>2
<1>7. TodoOf(p)'
  <2>1. ASSUME NEW j \in Items(todo[p]) PROVE Holds(j)'
    <3>1. Holds(j) /\ j \in Jobs
      BY <1>0, ItemsOfSeq DEF TodoInv, TodoOf, LoopTyped
    <3> QED
      BY <1>0, <1>1, <1>4, <3>1, HoldsKept, SameUnchanged
  <2>2. \A j, k \in Items(todo[p]) : k.time = j.time
    BY <1>0 DEF TodoInv, TodoOf
  <2>3. Items(todo[p])' = Items(todo[p])
    BY <1>1 DEF Items
  <2>4. Stamped(p)'
    <3>1. Current(p)' = job /\ Entry(job.id)' = Entry(job.id)
      BY <1>1 DEF Current, Entry
    <3>2. pc'[p] = "failed" => Unsettled(job.id, job.n, t)'
      BY <1>3, <1>5 DEF Unsettled
    <3>3. due'[p] = t
      BY <1>1
    <3> QED
      BY <1>3, <1>5, <3>1, <3>2, <3>3 DEF Stamped, Unsettled, Instant
  <2> QED
    BY <1>5, <2>1, <2>2, <2>3, <2>4 DEF TodoOf, InHand
<1>8. ASSUME NEW q \in Pids, q # p PROVE TodoOf(q)'
  <2>1. pc'[q] = "off" /\ todo'[q] = <<>>
    BY <1>1, <1>5, <1>8, OthersIdle
  <2> QED
    BY <2>1 DEF TodoOf, InHand, Items
<1>9. MarksInv'
  BY <1>1, <1>4, <1>0, MarksUnchanged DEF OutcomeInv
<1> QED
  BY <1>6, <1>7, <1>8, <1>9 DEF OutcomeInv, TodoInv, LedgerInv

\* After the send the markers move past the occurrence.
LEMMA DoneOutcome ==
    ASSUME TypeInv, TypeInv', OutcomeInv, OneLoop, NEW p \in Pids, Fired(p) \/ Failed(p)
    PROVE  OutcomeInv'
<1>0. ClockTyped /\ LoopTyped /\ LoopInv /\ TodoInv /\ LedgerInv
  BY DEF TypeInv, OutcomeInv
<1> PICK job : job = Current(p)
  OBVIOUS
<1> PICK t : t = due[p]
  OBVIOUS
<1>1. /\ pc[p] \in {"sent", "failed"} /\ pc' = [pc EXCEPT ![p] = "each"] /\ NextJob(p)
      /\ UNCHANGED <<table, added, now>>
  BY DEF Fired, Failed, ghostVars
<1>2. \E retire \in BOOLEAN : Settle(job.id, t, retire)
  BY DEF Fired, Failed, MarkFired, MarkError, Retires
<1>3. todo[p] # <<>> /\ t \in Nat /\ job \in Items(todo[p]) /\ job \in Jobs
  BY <1>0, <1>1, CurrentTyped DEF LoopTyped, InHand
<1>4. /\ Holds(job) /\ Entry(job.id).inFlight = t /\ Entry(job.id).last < t
      /\ pc[p] = "failed" => Unsettled(job.id, job.n, t)
  BY <1>0, <1>1, <1>3 DEF TodoInv, TodoOf, Stamped, InHand
<1>5. ASSUME NEW o \in ledger, o.id = job.id, o.n = job.n PROVE o.t <= t
  <2>1. /\ Listed(o.id) /\ o.n = added[o.id] /\ Marked(o) /\ Entry(job.id) \in Entries
        /\ FilesTyped
    BY <1>0, <1>3, <1>4, <1>5, EntryTyped DEF Holds, LedgerInv, Jobs, TypeInv
  <2>2. o.t \in Nat /\ (o.t <= Entry(job.id).last \/ o.t <= t)
    BY <1>4, <1>5, <2>1 DEF Marked, Behind
  <2> QED
    BY <1>3, <1>4, <2>1, <2>2 DEF Entries, NoInstant
<1>6. \A o \in ledger' : o \in ledger \/ (/\ o.id = job.id /\ o.n = job.n
                                         /\ o.t = t /\ o.nth = 1)
  <2>1. CASE Fired(p)
    BY <2>1 DEF Fired, ghostVars
  <2>2. CASE Failed(p)
    <3>1. Unsettled(job.id, job.n, t) /\ Record(job.id, job.n, t, "error")
      BY <1>4, <2>2 DEF Failed
    <3> QED
      BY <3>1, FirstRecorded
  <2> QED
    BY <2>1, <2>2
<1>7. pc'[p] = "each" /\ pc[p] # "off" /\ \A q \in Pids \ {p} : pc'[q] = pc[q]
  BY <1>0, <1>1 DEF LoopInv
<1> QED
  BY <1>1, <1>2, <1>3, <1>5, <1>6, <1>7, SettleOutcome

LEMMA DaemonOutcome ==
    ASSUME TypeInv, TypeInv', OutcomeInv, OneLoop, NEW p \in Pids, Daemon(p)
    PROVE  OutcomeInv'
<1>0. /\ PidTypeOK /\ ClockTyped /\ ClockTyped' /\ LoopTyped /\ LoopInv /\ TodoInv
      /\ now <= now
  BY SchedulerAssumption DEF TypeInv, OutcomeInv, ClockTyped, Distant
<1>1. CASE Enter(p)
  BY <1>0, <1>1, LoopKept DEF Enter, fileVars, ghostVars
<1>2. ASSUME pc[p] \notin {"each"} \cup InHand, NEW c \in {"off", "gate", "leave"},
             pc' = [pc EXCEPT ![p] = c],
             UNCHANGED <<table, marks, todo, due, added, ledger, now>>
      PROVE  OutcomeInv'
  <2>1. todo'[p] = <<>> /\ pc'[p] \notin {"each"} \cup InHand
    BY <1>0, <1>2 DEF TodoInv, TodoOf, LoopInv, InHand
  <2>2. \A q \in Pids \ {p} : pc'[q] = pc[q] /\ todo'[q] = todo[q] /\ due'[q] = due[q]
    BY <1>0, <1>2 DEF LoopInv
  <2> QED
    BY <1>0, <1>2, <2>1, <2>2, IdleMoves
<1>3. CASE Acquire(p)
  <2>1. pc[p] = "off"
    BY <1>0, <1>3 DEF Acquire, Claim, ReadOwner, ClearStale, CreateFile, WriteFile, LoopInv, Up
  <2> QED
    BY <1>2, <1>3, <2>1 DEF Acquire, InHand, fileVars, ghostVars
<1>4. CASE LookAtGate(p) \/ Cleanup(p)
  BY <1>2, <1>4 DEF LookAtGate, Cleanup, InHand, fileVars, ghostVars
<1>5. CASE EndTick(p)
  <2>1. todo'[p] = <<>> /\ pc'[p] = "gate"
    BY <1>0, <1>5 DEF EndTick, LoopInv
  <2>2. \A q \in Pids \ {p} : pc'[q] = pc[q] /\ todo'[q] = todo[q] /\ due'[q] = due[q]
    BY <1>0, <1>5 DEF EndTick, LoopInv
  <2>3. UNCHANGED <<table, marks, added, ledger, now>>
    BY <1>5 DEF EndTick, fileVars, ghostVars
  <2> QED
    BY <1>0, <2>1, <2>2, <2>3, IdleMoves DEF InHand
<1> QED
  BY <1>1, <1>3, <1>4, <1>5, StartTickOutcome, PassOverOutcome, IntendOutcome, SendOutcome,
     DoneOutcome DEF Daemon

\* The invariant across any step.
LEMMA NextOutcome ==
    ASSUME TypeInv, TypeInv', OutcomeInv, OneLoop, MidTick = FALSE, [Next]_vars
    PROVE  OutcomeInv'
<1>0. /\ ClockTyped /\ ClockTyped' /\ LoopTyped /\ LoopInv /\ TodoInv /\ now <= now
  BY SchedulerAssumption DEF TypeInv, OutcomeInv, ClockTyped, Distant
<1>1. ASSUME NEW p \in Pids, Signalled(p) \/ Crash(p) PROVE OutcomeInv'
  <2>1. todo'[p] = <<>> /\ pc'[p] \in {"off", "leave"}
    BY <1>0, <1>1 DEF Signalled, Crash, LoopInv, LoopTyped, TodoInv, TodoOf, InHand
  <2>2. \A q \in Pids \ {p} : pc'[q] = pc[q] /\ todo'[q] = todo[q] /\ due'[q] = due[q]
    BY <1>0, <1>1 DEF Signalled, Crash, LoopInv, LoopTyped
  <2>3. UNCHANGED <<table, marks, added, ledger, now>>
    BY <1>1 DEF Signalled, Crash, fileVars
  <2> QED
    BY <1>0, <2>1, <2>2, <2>3, IdleMoves DEF InHand
<1>2. ASSUME NEW p \in Pids, Start(p) PROVE OutcomeInv'
  BY <1>0, <1>2, LoopKept DEF Start, fileVars, ghostVars
<1>3. CASE AutoStart
  BY <1>0, <1>3, LoopKept DEF AutoStart, fileVars, ghostVars
<1>4. CASE UNCHANGED vars
  BY <1>0, <1>4, LoopKept DEF vars, fileVars, ghostVars
<1> QED
  BY <1>0, <1>1, <1>2, <1>3, <1>4, DaemonOutcome, ClockOutcome, AddOutcome, RemoveOutcome,
     SwitchOutcome DEF Next

\* Whenever no two processes are in the loop.
LEMMA OutcomeInvariant ==
    ASSUME MidTick = FALSE
    PROVE  Spec /\ []OneLoop => []OutcomeInv
<1>1. Init => OutcomeInv
  BY InitOutcome
<1>2. TypeInv /\ TypeInv' /\ OutcomeInv /\ OneLoop /\ [Next]_vars => OutcomeInv'
  BY NextOutcome
<1> QED
  BY <1>1, <1>2, SchedTyping, PTL DEF Spec

\* An occurrence of a routine gets one outcome - a task in the mailbox, a
\* recorded miss or a recorded error - whatever crashes, restarts, pauses,
\* switches and slow sends lie between two ticks (the markers fireRoutine and
\* tickOnce stamp around the send), as long as no two starts overlap and no
\* routine is removed in the middle of a tick.
THEOREM OneOutcomeHolds ==
    ASSUME Overlap = FALSE, MidTick = FALSE
    PROVE  Spec => []OneOutcome
<1>1. OutcomeInv => OneOutcome
  BY DEF OutcomeInv, LedgerInv, Marked, OneOutcome
<1> QED
  BY <1>1, OutcomeInvariant, OneLoopHolds, PTL

=============================================================================
