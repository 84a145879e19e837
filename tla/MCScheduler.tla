---------------------------- MODULE MCScheduler -----------------------------
(* Finite instances of Scheduler: an hour of two minutes, a day of two hours, *)
(* a week of two days, a month of three.                                      *)
EXTENDS Scheduler, TLC

Every == [when |-> "every", step |-> 3, grace |-> 1]
Once == [when |-> "once", at |-> 25, grace |-> 1]
TwoPlans == {Every, Once}

\* Every kind of schedule, at every time of twelve days.
SomePlans ==
    [when : {"every"}, step : 1 .. DayLen]
        \cup [when : {"once"}, at : {28, 46}]
        \cup [when : {"daily"}, at : 0 .. DayLen - 1]
        \cup [when : {"weekly"}, at : 0 .. DayLen - 1, days : (SUBSET (0 .. WeekLen - 1)) \ {{}}]
        \cup [when : {"cron"}, minutes : {{0}, {1}, {0, 1}}, hours : {{0}, {1}, {0, 1}},
              dom : {{0}, {1, 2}, {0, 1, 2}}, days : {{1}, {0, 1}}, stars : SUBSET {"dom", "dow"}]
SomeTimes == 24 .. 71

=============================================================================
