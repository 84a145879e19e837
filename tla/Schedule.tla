------------------------------ MODULE Schedule ------------------------------
(***************************************************************************)
(* The due-math of agent routines (lib/agent-lifecycle/_routines.mjs and   *)
(* _cron.mjs): which occurrence of a routine is the last one at a given    *)
(* time, which is the next, and what a tick of the scheduler does about    *)
(* it.  The code fixes the offset of the wall clock (+07:00, no DST), so   *)
(* time is a number of minutes and a calendar over it.                     *)
(*                                                                         *)
(* The calendar is scaled: an hour has HourLen minutes, a day DayHours     *)
(* hours, a week WeekLen days, a month MonthLen days.                      *)
(***************************************************************************)
EXTENDS Integers, FiniteSets, FiniteSetsExt

CONSTANTS
    HourLen, DayHours, WeekLen, MonthLen,
    MaxScanDays     \* MAX_SCAN_DAYS: how far a cron expression is followed

ASSUME CalendarAssumption ==
    /\ {HourLen, DayHours, WeekLen, MonthLen, MaxScanDays} \subseteq Nat \ {0}
    /\ WeekLen < MaxScanDays

DayLen == HourLen * DayHours

(* bangkokParts / wallParts *)
Day(t) == t \div DayLen
Midnight(t) == Day(t) * DayLen
MinuteOf(t) == t % HourLen
HourOf(t) == (t % DayLen) \div HourLen
Weekday(d) == d % WeekLen
MonthDay(d) == d % MonthLen

(* bangkokWallToMs, for a time of day *)
AtOn(day, clock) == day * DayLen + clock

NoInstant == -1

\* What parseAt, parseEvery and parseCron make of a schedule, as far as the
\* due-math depends on it.
WellFormed(r) ==
    CASE r.when = "once"   -> r.at \in Nat
      [] r.when = "daily"  -> r.at \in 0 .. DayLen - 1
      [] r.when = "weekly" -> r.at \in 0 .. DayLen - 1
      [] r.when = "every"  -> r.step \in Nat \ {0}
      [] r.when = "cron"   -> /\ r.minutes \subseteq 0 .. HourLen - 1
                              /\ r.hours \subseteq 0 .. DayHours - 1
      [] OTHER -> FALSE

\* A time further from the origin of the calendar than any scan goes back.
Distant(t) == t \in Nat /\ t >= DayLen * MaxScanDays

\* dayMatches: the vixie OR rule.  A field is unrestricted when it was written
\* as a bare `*` (r.stars), not when its set happens to hold every day.
DayMatches(r, d) ==
    LET domOk == MonthDay(d) \in r.dom
        dowOk == Weekday(d) \in r.days
    IN  CASE r.stars = {"dom", "dow"} -> TRUE
          [] r.stars = {"dom"} -> dowOk
          [] r.stars = {"dow"} -> domOk
          [] OTHER -> domOk \/ dowOk

\* The minutes of the day a cron expression names.
CronClocks(r) == {h * HourLen + m : h \in r.hours, m \in r.minutes}

\* The instants of the first day of a scan that has any.
FirstDay(instants) ==
    LET hits == {k \in DOMAIN instants : instants[k] # {}}
    IN  IF hits = {} THEN {} ELSE instants[Min(hits)]

LatestOf(S) == IF S = {} THEN NoInstant ELSE Max(S)
EarliestOf(S) == IF S = {} THEN NoInstant ELSE Min(S)

-----------------------------------------------------------------------------
(* lastScheduledInstant: the last occurrence at or before now *)

LastOnce(r, now) == IF r.at <= now THEN r.at ELSE NoInstant

LastDaily(r, now) ==
    LET t == AtOn(Day(now), r.at) IN IF t <= now THEN t ELSE t - DayLen

\* Fault: today minus a week is not looked at.
LastWeeklyFault(r, now) ==
    LET instants == [k \in 0 .. WeekLen - 1 |->
                        {t \in {AtOn(Day(now) - k, r.at)} :
                            Weekday(Day(now) - k) \in r.days /\ t <= now}]
    IN  LatestOf(FirstDay(instants))

\* k reaches a whole week: today's listed day may still be ahead.
LastWeekly(r, now) ==
    LET instants == [k \in 0 .. WeekLen |->
                        {t \in {AtOn(Day(now) - k, r.at)} :
                            Weekday(Day(now) - k) \in r.days /\ t <= now}]
    IN  LatestOf(FirstDay(instants))

LastEvery(r, now) == Midnight(now) + ((now - Midnight(now)) \div r.step) * r.step

LastCron(r, now) ==
    LET instants == [k \in 0 .. MaxScanDays - 1 |->
                        {t \in {AtOn(Day(now) - k, c) : c \in CronClocks(r)} :
                            DayMatches(r, Day(now) - k) /\ t <= now}]
    IN  LatestOf(FirstDay(instants))

LastInstant(r, now) ==
    CASE r.when = "once"   -> LastOnce(r, now)
      [] r.when = "daily"  -> LastDaily(r, now)
      [] r.when = "weekly" -> LastWeekly(r, now)
      [] r.when = "every"  -> LastEvery(r, now)
      [] r.when = "cron"   -> LastCron(r, now)

(* nextScheduledInstant: the first occurrence after now *)

NextOnce(r, now) == IF r.at > now THEN r.at ELSE NoInstant

NextDaily(r, now) ==
    LET t == AtOn(Day(now), r.at) IN IF t > now THEN t ELSE t + DayLen

NextWeekly(r, now) ==
    LET instants == [k \in 0 .. WeekLen |->
                        {t \in {AtOn(Day(now) + k, r.at)} :
                            Weekday(Day(now) + k) \in r.days /\ t > now}]
    IN  EarliestOf(FirstDay(instants))

\* The grid starts over at midnight, whether or not the step divides the day.
NextEvery(r, now) ==
    LET next == Midnight(now) + ((now - Midnight(now)) \div r.step + 1) * r.step
    IN  IF next >= Midnight(now) + DayLen THEN Midnight(now) + DayLen ELSE next

NextCron(r, now) ==
    LET instants == [k \in 0 .. MaxScanDays - 1 |->
                        {t \in {AtOn(Day(now) + k, c) : c \in CronClocks(r)} :
                            DayMatches(r, Day(now) + k) /\ t > now}]
    IN  EarliestOf(FirstDay(instants))

NextInstant(r, now) ==
    CASE r.when = "once"   -> NextOnce(r, now)
      [] r.when = "daily"  -> NextDaily(r, now)
      [] r.when = "weekly" -> NextWeekly(r, now)
      [] r.when = "every"  -> NextEvery(r, now)
      [] r.when = "cron"   -> NextCron(r, now)

-----------------------------------------------------------------------------
(* The same, by definition: what the kinds of schedule mean. *)

Occurs(r, t) ==
    CASE r.when = "once"   -> t = r.at
      [] r.when = "daily"  -> t % DayLen = r.at
      [] r.when = "weekly" -> t % DayLen = r.at /\ Weekday(Day(t)) \in r.days
      [] r.when = "every"  -> (t % DayLen) % r.step = 0
      [] r.when = "cron"   -> /\ MinuteOf(t) \in r.minutes
                              /\ HourOf(t) \in r.hours
                              /\ DayMatches(r, Day(t))

\* Last and next are occurrences on either side of now, with none in between.
Adjacent(r, now) ==
    LET last == LastInstant(r, now)
        next == NextInstant(r, now)
    IN  /\ last # NoInstant => last <= now /\ Occurs(r, last)
        /\ next # NoInstant => next > now /\ Occurs(r, next)
        /\ LET from == IF last = NoInstant THEN now - DayLen * WeekLen ELSE last + 1
               to == IF next = NoInstant THEN now + DayLen * WeekLen ELSE next - 1
           IN  \A t \in from .. to : ~Occurs(r, t)

=============================================================================
