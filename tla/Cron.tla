--------------------------------- MODULE Cron ---------------------------------
(***************************************************************************)
(* The next time that fits an expression of seven fields                   *)
(* (src/simulator/win32/src/Base/Cron.lua).  The loop of GetTime looks at  *)
(* one field after the other; a field that does not fit is moved on, which *)
(* may carry into the fields above it and starts those below it again.     *)
(* The calendar is a small one without daylight saving: time is a number   *)
(* of seconds, os.date and os.time convert it to fields and back.          *)
(***************************************************************************)
EXTENDS Integers, Sequences, FiniteSetsExt, Functions

CONSTANTS
  Secs, Mins, Hours,  \* how many there are in the next larger unit
  MonthDays,          \* the lengths of the months
  WeekLen,            \* the days of a week
  Years,              \* bound: the years of the calendar
  Exprs,              \* expressions: for each field [lo, hi, diff, list]
  Starts              \* the times that are asked about

(* The fields in the order of ExpDefine.                                   *)
sec == 1  min == 2  hour == 3  day == 4  month == 5  wday == 6  year == 7
Fields == 1..7

VARIABLES
  expr,     \* expDefine
  start,    \* the argument time
  now,      \* ttime, in seconds
  field,    \* the field GetTime looks at next; 8 after the last
  bFail,    \* one of this round did not fit
  done,     \* GetTime has returned now
  goal      \* history: the first time that fits; -1 without one, and for
            \*   expressions that are not plain
cronVars == <<expr, start, now, field, bFail, done, goal>>

-----------------------------------------------------------------------------
DayLen == Secs * Mins * Hours
MonthStart == [m \in 1..Len(MonthDays) + 1 |->
                 FoldFunctionOnSet(+, 0, MonthDays, 1..m - 1)]
YearDays == MonthStart[Len(MonthDays) + 1]

(* os.date: the fields of a time. *)
Date(t) ==
  LET days == t \div DayLen
      inYear == days % YearDays
      mon == CHOOSE m \in DOMAIN MonthDays :
               MonthStart[m] <= inYear /\ inYear < MonthStart[m + 1]
  IN <<t % Secs, (t \div Secs) % Mins, (t \div (Secs * Mins)) % Hours,
       inYear - MonthStart[mon] + 1, mon, (days % WeekLen) + 1, days \div YearDays>>

(* os.time: a day beyond the end of its month is one of the next. *)
Time(d) ==
  d[sec] + Secs * (d[min] + Mins * (d[hour]
    + Hours * (d[day] - 1 + MonthStart[d[month]] + YearDays * d[year])))

(* Mutant: the last value of a range counts as beyond it. *)
StepShort(lo, v, hi, diff) ==
  LET up == lo + ((v - lo + diff - 1) \div diff) * diff
  IN IF lo > v THEN <<lo, 0>> ELSE IF up >= hi /\ lo # hi THEN <<lo, 1>> ELSE <<up, 0>>

(* Step: the first value from v on that is lo plus a multiple of diff, and *)
(* 1 when there is none up to hi and lo is meant, of the next round.       *)
Step(lo, v, hi, diff) ==
  LET up == lo + ((v - lo + diff - 1) \div diff) * diff
  IN IF lo > v THEN <<lo, 0>> ELSE IF up > hi THEN <<lo, 1>> ELSE <<up, 0>>

NextAppoint(v, list) ==
  LET later == {x \in Range(list) : x >= v}
  IN IF later = {} THEN <<list[1], 1>> ELSE <<Min(later), 0>>

NextValue(f, v) == IF expr[f].list # <<>> THEN NextAppoint(v, expr[f].list)
                   ELSE Step(expr[f].lo, v, expr[f].hi, expr[f].diff)

Fits(f, d) == NextValue(f, d[f])[1] = d[f]

(* The fields below f start at lo, those with a list too: the code asks    *)
(* for the list by another name than it stored it under.                   *)
Restarted(d, f, v) == [g \in Fields |-> IF g = f THEN v ELSE IF g < f THEN expr[g].lo ELSE d[g]]

(* UpSec ... UpYear: field f moved by dis of its steps.  A carry moves the *)
(* field above; that of the year is not looked at.                         *)
Up(d, f0, dis0) ==
  LET above(f) == IF f = month THEN year ELSE f + 1
      up[f \in Fields, dis \in 0..2 * WeekLen] ==
        LET next == NextValue(f, d[f] + dis * expr[f].diff)
        IN IF next[2] # 0 /\ f # year THEN up[above(f), next[2]]
           ELSE Time(Restarted(d, f, next[1]))
  IN up[f0, dis0]

(* UpWDay: as many days on as the day of the week is away. *)
UpWDay(d) ==
  LET next == NextValue(wday, d[wday])
  IN Up(d, day, next[1] - d[wday] + WeekLen * next[2])

-----------------------------------------------------------------------------
(* What an expression means, said without Step: the times all of whose     *)
(* fields are in their sets.                                               *)
Meant(f) == IF expr[f].list # <<>> THEN Range(expr[f].list)
            ELSE {v \in expr[f].lo..expr[f].hi : (v - expr[f].lo) % expr[f].diff = 0}
Matches(t) == LET d == Date(t) IN \A f \in Fields : d[f] \in Meant(f)

(* A carry moves the field above by a whole step of its own, from wherever *)
(* it is: a field may only have steps when those below it never carry.  A  *)
(* day of the week is reached by steps of the day.                         *)
Highest(f) == CASE f = sec -> Secs - 1 [] f = min -> Mins - 1 [] f = hour -> Hours - 1
                [] f = day -> Max(Range(MonthDays)) [] f = month -> Len(MonthDays)
                [] f = wday -> WeekLen
Plain ==
  \A f \in {min, hour, day, month, year} :
    expr[f].diff > 1 => /\ \A g \in 1..f - 1 : g # wday => Highest(g) \in Meant(g)
                        /\ f >= day => Meant(wday) = 1..WeekLen

Goal == LET later == start..Years * YearDays * DayLen - 1
        IN IF Plain /\ \E t \in later : Matches(t)
           THEN CHOOSE t \in later : Matches(t) /\ \A u \in start..t - 1 : ~Matches(u)
           ELSE -1

-----------------------------------------------------------------------------
CronInit ==
  /\ expr \in Exprs /\ start \in Starts
  /\ now = start /\ field = sec /\ bFail = FALSE /\ done = FALSE
  /\ goal = Goal

InCalendar == now < Years * YearDays * DayLen

CheckField ==
  /\ ~done /\ field <= 7 /\ InCalendar
  /\ LET d == Date(now)
     IN IF Fits(field, d) THEN UNCHANGED <<now, bFail>>
        ELSE /\ now' = IF field = wday THEN UpWDay(d) ELSE Up(d, field, 0)
             /\ bFail' = TRUE
  /\ field' = field + 1
  /\ UNCHANGED <<expr, start, done, goal>>

EndRound ==
  /\ ~done /\ field = 8
  /\ IF bFail THEN field' = sec /\ bFail' = FALSE /\ UNCHANGED done
     ELSE done' = TRUE /\ UNCHANGED <<field, bFail>>
  /\ UNCHANGED <<expr, start, now, goal>>

CronNext == CheckField \/ EndRound
CronSpec == CronInit /\ [][CronNext]_cronVars /\ WF_cronVars(CronNext)

-----------------------------------------------------------------------------
(* Whenever a time fits, the loop ends, and with the first that fits from  *)
(* the given time on: no field that is moved on, none that is started      *)
(* again and no carry over short months and ends of weeks passes it by.    *)
(* That holds for plain expressions: with steps above a field that         *)
(* carries the code passes times that fit (:127-301).                      *)
FirstThatFits == goal >= 0 ~> (done /\ now = goal)
=============================================================================
