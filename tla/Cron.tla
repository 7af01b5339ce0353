-------------------------------- MODULE Cron --------------------------------
(***************************************************************************)
(* Cron expressions and the next time a schedule fires.  The text of five  *)
(* fields is parsed to sets of values; CronExpr::next_after_in walks from  *)
(* the wall-clock minute after `from` over months, days and minutes to the *)
(* first that matches, and asks the time zone for its instant.  A walk is  *)
(* one call, here taken apart into its rounds.                             *)
(*                                                                         *)
(* Instants are the minutes of real time.  A zone gives each the wall-     *)
(* clock minute it shows: one that is shown by no instant is in a gap, one *)
(* that is shown by two is in an overlap.                                  *)
(***************************************************************************)
EXTENDS Naturals

CONSTANTS
    LastDay, Calendar,              \* [month, dom, dow] of the days 0..LastDay
    HoursPerDay, MinutesPerHour,
    LastDom, LastMonth, DaysPerWeek,
    Texts,                          \* the expressions tasks are given
    LastInstant, Zones,             \* bound: the last minute of real time
    MaxDaySteps                     \* MAX_DAY_STEPS

Days == 0..LastDay
Instants == 0..LastInstant
Minutes == 0..(HoursPerDay * MinutesPerHour - 1)

(* A minute on the wall clock; walks may leave the calendar at its end.    *)
Moments == [day : 0..(LastDay + 1), minute : Minutes]

ASSUME CronAssumption ==
    /\ LastDay \in Nat /\ LastInstant \in Nat /\ MaxDaySteps \in Nat
    /\ HoursPerDay \in Nat \ {0} /\ MinutesPerHour \in Nat \ {0}
    /\ HoursPerDay * MinutesPerHour \in Nat \ {0}
    /\ Zones \subseteq [Instants -> [day : Days, minute : Minutes]]

VARIABLES
    expr,  \* the parsed expression of the task
    zone,
    now,
    timer  \* the walk that is on, and next_run_at

cronVars == <<expr, zone, now, timer>>

------------------------------------------------------------------------------
(* parse_field: a part of a field is *, a or a-b, with a step.             *)
Star(step) == [form |-> "star", lo |-> 0, hi |-> 0, step |-> step]
Value(a, step) == [form |-> "value", lo |-> a, hi |-> a, step |-> step]
Span(a, b, step) == [form |-> "span", lo |-> a, hi |-> b, step |-> step]

PartOk(part, min, max) ==
    /\ part.step > 0
    /\ part.form # "star" => {part.lo, part.hi} \subseteq min..max /\ part.lo <= part.hi

Low(part, min) == IF part.form = "star" THEN min ELSE part.lo
High(part, max) ==
    IF part.form = "star" \/ (part.form = "value" /\ part.step > 1) THEN max ELSE part.hi

FieldOk(field, min, max) == field # {} /\ \A part \in field : PartOk(part, min, max)
Field(field, min, max) ==
    {v \in min..max : \E part \in field :
        v \in Low(part, min)..High(part, max) /\ (v - Low(part, min)) % part.step = 0}

(* CronExpr::parse: the day after the last of the week is its first.       *)
Parses(text) ==
    /\ FieldOk(text.minute, 0, MinutesPerHour - 1)
    /\ FieldOk(text.hour, 0, HoursPerDay - 1)
    /\ FieldOk(text.dom, 1, LastDom)
    /\ FieldOk(text.month, 1, LastMonth)
    /\ FieldOk(text.dow, 0, DaysPerWeek)

Parse(text) ==
    [times |-> {m \in Minutes :
                  /\ m \div MinutesPerHour \in Field(text.hour, 0, HoursPerDay - 1)
                  /\ m % MinutesPerHour \in Field(text.minute, 0, MinutesPerHour - 1)},
     doms |-> Field(text.dom, 1, LastDom),
     months |-> Field(text.month, 1, LastMonth),
     dows |-> {v % DaysPerWeek : v \in Field(text.dow, 0, DaysPerWeek)},
     domAny |-> text.dom = {Star(1)},
     dowAny |-> text.dow = {Star(1)}]

(* day_matches: two restricted day fields match on either.                 *)
DayMatches(d) ==
    \/ expr.domAny /\ expr.dowAny
    \/ ~expr.domAny /\ Calendar[d].dom \in expr.doms
    \/ ~expr.dowAny /\ Calendar[d].dow \in expr.dows
MonthMatches(d) == Calendar[d].month \in expr.months

------------------------------------------------------------------------------
Start(d) == [day |-> d, minute |-> 0]
After(m) == IF m.minute + 1 \in Minutes THEN [m EXCEPT !.minute = @ + 1] ELSE Start(m.day + 1)
Before(m, n) == m.day < n.day \/ (m.day = n.day /\ m.minute < n.minute)

(* The instants that show a moment.                                        *)
Shows(m) == {i \in Instants : zone[i] = m}

Unset == [at |-> "unset", from |-> 0, cursor |-> Start(0), steps |-> 0, next |-> 0]

CronInit ==
    /\ \E text \in Texts : Parses(text) /\ expr = Parse(text)
    /\ zone \in Zones
    /\ now \in Instants
    /\ timer = Unset

Walking == timer.at = "walking"
Round(cursor) ==
    /\ timer' = [timer EXCEPT !.cursor = cursor, !.steps = @ + 1]
    /\ UNCHANGED <<expr, zone, now>>
InRound == Walking /\ timer.cursor.day \in Days /\ timer.steps < MaxDaySteps

Walks ==
    /\ timer' = [Unset EXCEPT !.at = "walking", !.from = now, !.cursor = After(zone[now])]
    /\ UNCHANGED <<expr, zone, now>>

(* initial_next_run, for a task that is new, edited or enabled.            *)
Sets == timer.at = "unset" /\ Walks

(* claim of a due task: next_run_at moves on.                              *)
Fires == timer.at = "set" /\ timer.next <= now /\ Walks

(* A month that does not match is left at once.                            *)
JumpsMonth ==
    /\ InRound
    /\ ~MonthMatches(timer.cursor.day)
    /\ \E d \in (timer.cursor.day + 1)..(LastDay + 1) :
          /\ \A k \in timer.cursor.day..(d - 1) : Calendar[k].month = Calendar[timer.cursor.day].month
          /\ d \in Days => Calendar[d].month # Calendar[timer.cursor.day].month
          /\ Round(Start(d))

SkipsDay ==
    /\ InRound
    /\ MonthMatches(timer.cursor.day)
    /\ ~DayMatches(timer.cursor.day)
    /\ Round(Start(timer.cursor.day + 1))

(* scan_day: the times of the day that are left, the first one of them.    *)
DayFires == InRound /\ MonthMatches(timer.cursor.day) /\ DayMatches(timer.cursor.day)
Left == {m \in expr.times : timer.cursor.minute <= m}
IsFirst(m) == m \in Left /\ \A k \in Left : m <= k

EndsDay ==
    /\ DayFires
    /\ Left = {}
    /\ Round(Start(timer.cursor.day + 1))

(* A moment in a gap is passed over, the rest of the day is not.           *)
(* Mistake: the walk goes on with the next day.                            *)
PastGapByDay(m) == Start(m.day + 1)
PastGap(m) == After(m)

SkipsGap ==
    /\ DayFires
    /\ \E k \in Minutes :
          LET m == [day |-> timer.cursor.day, minute |-> k] IN
          /\ IsFirst(k)
          /\ Shows(m) = {}
          /\ Round(PastGap(m))

(* .earliest(): of a moment that is shown twice the first instant.         *)
Finds ==
    /\ DayFires
    /\ \E k \in Minutes : \E i \in Shows([day |-> timer.cursor.day, minute |-> k]) :
          /\ IsFirst(k)
          /\ \A j \in Shows([day |-> timer.cursor.day, minute |-> k]) : i <= j
          /\ timer' = [timer EXCEPT !.at = "set", !.next = i]
    /\ UNCHANGED <<expr, zone, now>>

(* None: the calendar or the rounds are used up.                           *)
GivesUp ==
    /\ Walking
    /\ timer.cursor.day \notin Days \/ timer.steps = MaxDaySteps
    /\ timer' = [timer EXCEPT !.at = "never"]
    /\ UNCHANGED <<expr, zone, now>>

(* The pass of the tick loop is short beside a minute.                     *)
Passes ==
    /\ ~Walking
    /\ now + 1 \in Instants
    /\ now' = now + 1
    /\ UNCHANGED <<expr, zone, timer>>

CronNext ==
    \/ Sets \/ Fires
    \/ JumpsMonth \/ SkipsDay \/ EndsDay \/ SkipsGap \/ Finds \/ GivesUp
    \/ Passes
CronSpec == CronInit /\ [][CronNext]_cronVars

------------------------------------------------------------------------------
CronTypeOK ==
    /\ zone \in Zones
    /\ now \in Instants
    /\ timer \in [at : {"unset", "walking", "set", "never"}, from : Instants,
                  cursor : Moments, steps : 0..MaxDaySteps, next : Instants]

(* What the documentation of the module says an expression fires at.       *)
FiresAt(m) == MonthMatches(m.day) /\ DayMatches(m.day) /\ m.minute \in expr.times

(* No minute that fires is passed over: between the wall clock of `from`   *)
(* and the time that is found, and at all if none is found, the zone shows *)
(* no minute that matches, whatever months, days and gaps lie between; the *)
(* time that is found matches and is the first of its instants.            *)
Silent(i) == ~(Before(zone[timer.from], zone[i]) /\ FiresAt(zone[i]))
NextIsLeast ==
    /\ timer.at = "set" =>
          /\ ~Silent(timer.next)
          /\ \A i \in Instants :
                /\ Before(zone[i], zone[timer.next]) => Silent(i)
                /\ zone[i] = zone[timer.next] => timer.next <= i
    /\ timer.at = "never" /\ timer.steps < MaxDaySteps => \A i \in Instants : Silent(i)

(* "Next fire strictly after `from`" (cron.rs:72).  In the second pass of  *)
(* an overlap the time that is found lies in the first.                    *)
StrictlyLater == timer.at = "set" => timer.next > timer.from
=============================================================================
