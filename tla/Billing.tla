------------------------------ MODULE Billing ------------------------------
(***************************************************************************)
(* The calendar arithmetic of the bandwidth feature, as pure operators:    *)
(* crates/sidebar-domain/src/billing.rs and the date helpers at the end of *)
(* crates/sidebar-bandwidth/src/accountant.rs.  A definition headed        *)
(* "Mutant" is a plausible bug no operator uses: a property fails when it   *)
(* takes the place of the definition that follows.                         *)
(*                                                                         *)
(* A date is the record chrono's NaiveDate holds: year, month, day.  There *)
(* is no time zone and no time of day: every decision of the code compares *)
(* whole dates.                                                            *)
(***************************************************************************)
EXTENDS Integers

-----------------------------------------------------------------------------
(* chrono *)

LeapYear(y) == (y % 4 = 0 /\ y % 100 # 0) \/ y % 400 = 0

\* The code gets it by stepping back from the first of the following month.
last_day_of_month(y, m) ==
    IF m \in {4, 6, 9, 11} THEN 30
    ELSE IF m # 2 THEN 31
    ELSE IF LeapYear(y) THEN 29 ELSE 28

\* chrono's years are signed.
Date == { date \in [y : Int, m : 1..12, d : 1..31] :
            date.d <= last_day_of_month(date.y, date.m) }

Ymd(y, m, d) == [y |-> y, m |-> m, d |-> d]

\* Order-preserving key of a date; no month has more than 31 days.
DateKey(date) == 372 * date.y + 31 * date.m + date.d
DateLE(a, b) == DateKey(a) <= DateKey(b)
DateLT(a, b) == DateKey(a) < DateKey(b)

NextMonth(y, m) == IF m = 12 THEN [y |-> y + 1, m |-> 1]
                             ELSE [y |-> y, m |-> m + 1]

prev_month(y, m) == IF m = 1 THEN [y |-> y - 1, m |-> 12]
                             ELSE [y |-> y, m |-> m - 1]

Succ(date) ==
    IF date.d < last_day_of_month(date.y, date.m)
    THEN [date EXCEPT !.d = @ + 1]
    ELSE LET n == NextMonth(date.y, date.m) IN Ymd(n.y, n.m, 1)

Pred(date) ==
    IF date.d > 1
    THEN [date EXCEPT !.d = @ - 1]
    ELSE LET p == prev_month(date.y, date.m)
         IN  Ymd(p.y, p.m, last_day_of_month(p.y, p.m))

\* Days of a common year before the first of each month.
DaysBeforeMonth == <<0, 31, 59, 90, 120, 151, 181, 212, 243, 273, 304, 334>>

\* Days since a fixed origin.  It only ever serves to subtract two dates.
DayNumber(date) ==
    LET p == date.y - 1
    IN  365 * p + p \div 4 - p \div 100 + p \div 400
        + DaysBeforeMonth[date.m]
        + (IF date.m > 2 /\ LeapYear(date.y) THEN 1 ELSE 0)
        + date.d

\* (a - b).num_days()
NumDays(a, b) == DayNumber(a) - DayNumber(b)

-----------------------------------------------------------------------------
(* sidebar-domain::billing *)

\* CycleStartDay: a fixed day 1..28, or the last day of the month.
LastDayOfMonth == 31
CycleStartDay == 1..28 \cup {LastDayOfMonth}

clamped_day(d) == IF d < 1 THEN 1 ELSE IF d > 28 THEN 28 ELSE d

\* The day of month y-m on which a cycle of this rule starts.
StartDayIn(rule, y, m) ==
    IF rule = LastDayOfMonth THEN last_day_of_month(y, m) ELSE rule

cycle_start_of_next_month(rule, y, m) ==
    LET n == NextMonth(y, m) IN Ymd(n.y, n.m, StartDayIn(rule, n.y, n.m))

cycle_end(rule, y, m) == Pred(cycle_start_of_next_month(rule, y, m))

\* Mutant: the new cycle starts on the last day of the old one.
NextStartsOnTheEnd(end) == end

next_cycle_start(end) == Succ(end)

\* The accountant always asks for the end of the cycle a start date opens.
EndOfCycle(rule, start) == cycle_end(rule, start.y, start.m)

-----------------------------------------------------------------------------
(* sidebar-bandwidth::accountant *)

\* Mutant: a cycle starts on the day after its start day.
StartsADayLate(rule, today) ==
    LET day == StartDayIn(rule, today.y, today.m)
        p   == prev_month(today.y, today.m)
    IN  IF today.d > day
        THEN Ymd(today.y, today.m, day)
        ELSE Ymd(p.y, p.m, StartDayIn(rule, p.y, p.m))

\* The most recent start day that is not after today.
cycle_start_for_today(rule, today) ==
    LET day == StartDayIn(rule, today.y, today.m)
        p   == prev_month(today.y, today.m)
    IN  IF today.d >= day
        THEN Ymd(today.y, today.m, day)
        ELSE Ymd(p.y, p.m, StartDayIn(rule, p.y, p.m))

\* Mutant: the last day of a month is taken for a fixed day.
InferFixedDay(start) == clamped_day(start.d)

\* The rule a bare start date suggests, when no metadata says better.
infer_cycle_start_day(start) ==
    IF start.d = last_day_of_month(start.y, start.m)
    THEN LastDayOfMonth
    ELSE clamped_day(start.d)
=============================================================================
