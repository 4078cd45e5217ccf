-------------------------- MODULE BillingWalkProofs --------------------------
(***************************************************************************)
(* The closed forms of the calendar agree with the walk, for every rule,   *)
(* every first day and every year: what the configurations of BillingWalk  *)
(* check over a few years holds of the whole proleptic calendar of chrono. *)
(* A walk goes from day to day, so each fact is one about a day and the    *)
(* next, and the induction is over the steps of the walk.                  *)
(***************************************************************************)
EXTENDS BillingWalk, BillingProofs

-----------------------------------------------------------------------------
(* Neighbouring months and days                                            *)

LEMMA MonthsAreInverse ==
    ASSUME NEW y \in Int, NEW m \in 1..12
    PROVE  LET n == NextMonth(y, m)
               p == prev_month(y, m)
           IN  /\ prev_month(n.y, n.m) = [y |-> y, m |-> m]
               /\ NextMonth(p.y, p.m) = [y |-> y, m |-> m]
<1>1. CASE m = 1
  BY <1>1 DEF NextMonth, prev_month
<1>2. CASE m = 12
  BY <1>2 DEF NextMonth, prev_month
<1>3. CASE m \in 2..11
  BY <1>3 DEF NextMonth, prev_month
<1>. QED BY <1>1, <1>2, <1>3

\* The day after the day before.
LEMMA SuccOfPred ==
    ASSUME NEW date \in Date
    PROVE  Succ(Pred(date)) = date
<1>. DEFINE y == date.y  m == date.m  d == date.d  p == prev_month(y, m)
<1>1. /\ y \in Int /\ m \in 1..12 /\ d \in 1..31
      /\ d <= last_day_of_month(y, m) /\ date = Ymd(y, m, d)
  BY DateParts
<1>2. CASE d > 1
  <2>1. Pred(date) = Ymd(y, m, d - 1)
    BY <1>1, <1>2 DEF Pred, Ymd
  <2>2. d - 1 < last_day_of_month(y, m)
    BY <1>1, MonthLength
  <2>3. Succ(Ymd(y, m, d - 1)) = Ymd(y, m, (d - 1) + 1)
    BY <2>2 DEF Succ, Ymd
  <2>. QED BY <1>1, <2>1, <2>3
<1>3. CASE ~(d > 1)
  <2>1. Pred(date) = Ymd(p.y, p.m, last_day_of_month(p.y, p.m)) /\ d = 1
    BY <1>1, <1>3 DEF Pred
  <2>2. p.y \in Int /\ p.m \in 1..12
    BY <1>1, NeighbourMonths
  <2>3. last_day_of_month(p.y, p.m) \in Int
    BY <2>2, MonthLength
  <2>4. Succ(Ymd(p.y, p.m, last_day_of_month(p.y, p.m)))
          = Ymd(NextMonth(p.y, p.m).y, NextMonth(p.y, p.m).m, 1)
    BY <2>3 DEF Succ, Ymd
  <2>5. NextMonth(p.y, p.m) = [y |-> y, m |-> m]
    BY <1>1, MonthsAreInverse
  <2>. QED BY <1>1, <2>1, <2>4, <2>5
<1>. QED BY <1>2, <1>3

\* The start day of a month is one of its days.
LEMMA StartDayInMonth ==
    ASSUME NEW r \in CycleStartDay, NEW y \in Int, NEW m \in 1..12
    PROVE  /\ StartDayIn(r, y, m) \in 1..31
           /\ StartDayIn(r, y, m) <= last_day_of_month(y, m)
<1>1. last_day_of_month(y, m) \in 28..31
  BY MonthLength
<1>. QED BY <1>1 DEF StartDayIn, CycleStartDay, LastDayOfMonth

\* The most recent start day is a start day, and of a start day the day itself.
LEMMA MostRecentIsAStartDay ==
    ASSUME NEW r \in CycleStartDay, NEW date \in Date
    PROVE  /\ IsStartDay(r, cycle_start_for_today(r, date))
           /\ IsStartDay(r, date) => cycle_start_for_today(r, date) = date
<1>. DEFINE p == prev_month(date.y, date.m)
<1>1. /\ date.y \in Int /\ date.m \in 1..12 /\ date.d \in 1..31
      /\ date = Ymd(date.y, date.m, date.d)
  BY DateParts
<1>2. IsStartDay(r, cycle_start_for_today(r, date))
  <2>1. \A y, m : IsStartDay(r, Ymd(y, m, StartDayIn(r, y, m)))
    BY DEF IsStartDay, Ymd
  <2>. QED BY <2>1 DEF cycle_start_for_today
<1>3. ASSUME IsStartDay(r, date) PROVE cycle_start_for_today(r, date) = date
  <2>1. date.d = StartDayIn(r, date.y, date.m) /\ date.d >= date.d
    BY <1>1, <1>3 DEF IsStartDay
  <2>. QED BY <1>1, <2>1 DEF cycle_start_for_today
<1>. QED BY <1>2, <1>3

-----------------------------------------------------------------------------
(* A day and the next                                                      *)

\* Where the most recent start day of a date is.
LEMMA StartOfMonthOrBefore ==
    ASSUME NEW r \in CycleStartDay, NEW y \in Int, NEW m \in 1..12, NEW d \in Int
    PROVE  LET day == StartDayIn(r, y, m)
               p == prev_month(y, m)
           IN  /\ d >= day => cycle_start_for_today(r, Ymd(y, m, d)) = Ymd(y, m, day)
               /\ d < day => cycle_start_for_today(r, Ymd(y, m, d))
                                = Ymd(p.y, p.m, StartDayIn(r, p.y, p.m))
<1>1. StartDayIn(r, y, m) \in 1..31
  BY StartDayInMonth
<1>2. Ymd(y, m, d).y = y /\ Ymd(y, m, d).m = m /\ Ymd(y, m, d).d = d
  BY DEF Ymd
<1>. QED BY <1>1, <1>2 DEF cycle_start_for_today

\* The next day starts a cycle, or it is in the cycle of the day; and a cycle that
\* it starts is the one behind the cycle of the day.
LEMMA NextDay ==
    ASSUME NEW r \in CycleStartDay, NEW date \in Date
    PROVE  /\ IsStartDay(r, Succ(date)) =>
                next_cycle_start(EndOfCycle(r, cycle_start_for_today(r, date))) = Succ(date)
           /\ ~IsStartDay(r, Succ(date)) =>
                cycle_start_for_today(r, Succ(date)) = cycle_start_for_today(r, date)
<1>. DEFINE y == date.y  m == date.m  d == date.d
            n == NextMonth(y, m)  p == prev_month(y, m)
            day == StartDayIn(r, y, m)
            start_in(q) == Ymd(q.y, q.m, StartDayIn(r, q.y, q.m))
<1>1. /\ y \in Int /\ m \in 1..12 /\ d \in 1..31
      /\ d <= last_day_of_month(y, m) /\ date = Ymd(y, m, d)
  BY DateParts
<1>2. n.y \in Int /\ n.m \in 1..12 /\ p.y \in Int /\ p.m \in 1..12
  BY <1>1, NeighbourMonths
<1>3. /\ last_day_of_month(y, m) \in 28..31 /\ day \in 1..31
      /\ day <= last_day_of_month(y, m)
  BY <1>1, MonthLength, StartDayInMonth
<1>4. \A e \in Int :
        /\ e >= day => cycle_start_for_today(r, Ymd(y, m, e)) = Ymd(y, m, day)
        /\ e < day => cycle_start_for_today(r, Ymd(y, m, e)) = start_in(p)
  <2>. SUFFICES ASSUME NEW e \in Int
                PROVE  /\ e >= day => cycle_start_for_today(r, Ymd(y, m, e)) = Ymd(y, m, day)
                       /\ e < day => cycle_start_for_today(r, Ymd(y, m, e)) = start_in(p)
    OBVIOUS
  <2>1. y \in Int /\ m \in 1..12
    BY <1>1
  <2>. HIDE DEF y, m
  <2>. QED BY <2>1, StartOfMonthOrBefore
\* What follows a cycle that starts in a month is the start day of the next month.
<1>5. ASSUME NEW a \in Int, NEW b \in 1..12
      PROVE  next_cycle_start(EndOfCycle(r, Ymd(a, b, StartDayIn(r, a, b))))
                = start_in(NextMonth(a, b))
  <2>1. cycle_start_of_next_month(r, a, b) = start_in(NextMonth(a, b))
    BY DEF cycle_start_of_next_month
  <2>2. start_in(NextMonth(a, b)) \in Date
    BY NeighbourMonths, StartDayExists
  <2>3. EndOfCycle(r, Ymd(a, b, StartDayIn(r, a, b))) = Pred(start_in(NextMonth(a, b)))
    BY <2>1 DEF EndOfCycle, cycle_end, Ymd
  <2>. QED BY <2>2, <2>3, SuccOfPred DEF next_cycle_start
<1>6. CASE d < last_day_of_month(y, m)
  <2>1. Succ(date) = Ymd(y, m, d + 1)
    BY <1>1, <1>6 DEF Succ, Ymd
  <2>2. IsStartDay(r, Succ(date)) <=> d + 1 = day
    BY <2>1 DEF IsStartDay, Ymd
  <2>3. CASE d + 1 = day
    <3>1. cycle_start_for_today(r, date) = start_in(p)
      <4>1. d \in Int /\ d < day /\ date = Ymd(y, m, d)
        BY <1>1, <1>3, <2>3
      <4>. QED BY <1>4, <4>1
    <3>2. NextMonth(p.y, p.m) = [y |-> y, m |-> m]
      BY <1>1, MonthsAreInverse
    <3>3. next_cycle_start(EndOfCycle(r, start_in(p))) = Ymd(y, m, day)
      BY <1>2, <1>5, <3>2
    <3>. QED BY <2>1, <2>2, <2>3, <3>1, <3>3
  <2>4. CASE d + 1 # day
    <3>1. /\ d + 1 >= day => cycle_start_for_today(r, Succ(date)) = Ymd(y, m, day)
          /\ d + 1 < day => cycle_start_for_today(r, Succ(date)) = start_in(p)
      <4>1. d + 1 \in Int
        BY <1>1
      <4>. QED BY <1>4, <2>1, <4>1
    <3>2. (d + 1 >= day /\ d >= day) \/ (d + 1 < day /\ d < day)
      BY <1>1, <1>3, <2>4
    <3>3. /\ d >= day => cycle_start_for_today(r, date) = Ymd(y, m, day)
          /\ d < day => cycle_start_for_today(r, date) = start_in(p)
      <4>1. d \in Int /\ date = Ymd(y, m, d)
        BY <1>1
      <4>. QED BY <1>4, <4>1
    <3>. QED BY <2>2, <2>4, <3>1, <3>2, <3>3
  <2>. QED BY <2>3, <2>4
<1>7. CASE ~(d < last_day_of_month(y, m))
  <2>1. Succ(date) = Ymd(n.y, n.m, 1) /\ d >= day
    BY <1>1, <1>3, <1>7 DEF Succ
  <2>2. cycle_start_for_today(r, date) = Ymd(y, m, day)
    <3>1. d \in Int /\ date = Ymd(y, m, d)
      BY <1>1
    <3>. QED BY <1>4, <2>1, <3>1
  <2>3. /\ IsStartDay(r, Succ(date)) <=> 1 = StartDayIn(r, n.y, n.m)
        /\ StartDayIn(r, n.y, n.m) \in 1..31
    BY <1>2, <2>1, StartDayInMonth DEF IsStartDay, Ymd
  <2>4. CASE 1 = StartDayIn(r, n.y, n.m)
    <3>1. next_cycle_start(EndOfCycle(r, Ymd(y, m, day))) = start_in(n)
      BY <1>1, <1>5
    <3>. QED BY <2>1, <2>2, <2>3, <2>4, <3>1
  <2>5. CASE 1 # StartDayIn(r, n.y, n.m)
    <3>1. 1 < StartDayIn(r, n.y, n.m)
      BY <2>3, <2>5
    <3>2. cycle_start_for_today(r, Succ(date)) = start_in(prev_month(n.y, n.m))
      BY <1>2, <2>1, <3>1, StartOfMonthOrBefore
    <3>3. prev_month(n.y, n.m) = [y |-> y, m |-> m]
      BY <1>1, MonthsAreInverse
    <3>. QED BY <2>2, <2>3, <2>5, <3>2, <3>3
  <2>. QED BY <2>4, <2>5
<1>. QED BY <1>6, <1>7

-----------------------------------------------------------------------------
(* The walk                                                                *)

\* StartIsMostRecent is inductive with the types: the walk's start is a start day,
\* and so is what cycle_start_for_today finds.
WalkInv == TypeOK /\ StartIsMostRecent

LEMMA WalkInvHolds == Spec => []WalkInv
<1>1. ASSUME Init PROVE WalkInv
  <2>1. rule \in CycleStartDay /\ FirstDay \in Date
    BY <1>1, RulesAssumption, FirstDayAssumption DEF Init
  <2>2. today \in Date /\ IsStartDay(rule, today)
    BY <1>1, <2>1, CycleStartIsDate, MostRecentIsAStartDay DEF Init
  <2>3. cycle_start_for_today(rule, today) = today
    BY <2>1, <2>2, MostRecentIsAStartDay
  <2>. QED BY <1>1, <2>1, <2>2, <2>3 DEF Init, WalkInv, TypeOK, StartIsMostRecent
<1>2. ASSUME WalkInv, [Next]_vars PROVE WalkInv'
  <2>1. CASE UNCHANGED vars
    BY <1>2, <2>1 DEF vars, WalkInv, TypeOK, StartIsMostRecent
  <2>2. CASE Walk
    <3>1. /\ rule \in CycleStartDay /\ today \in Date /\ start \in Date /\ steps \in Nat
          /\ cycle_start_for_today(rule, today) = start
      BY <1>2 DEF WalkInv, TypeOK, StartIsMostRecent
    <3>2. /\ rule' = rule /\ today' = Succ(today) /\ steps' = steps + 1
          /\ start' = IF IsStartDay(rule, Succ(today)) THEN Succ(today) ELSE start
      BY <2>2 DEF Walk
    <3>3. Succ(today) \in Date
      BY <3>1, SuccIsLater
    <3>4. cycle_start_for_today(rule, Succ(today)) = start'
      BY <3>1, <3>2, <3>3, NextDay, MostRecentIsAStartDay
    <3>. QED BY <3>1, <3>2, <3>3, <3>4 DEF WalkInv, TypeOK, StartIsMostRecent
  <2>. QED BY <1>2, <2>1, <2>2 DEF Next
<1>. QED BY <1>1, <1>2, PTL DEF Spec

\* cycle_start_for_today finds the start day the walk last stood on, for every rule and
\* every day of the calendar.
THEOREM StartIsMostRecentHolds == Spec => []StartIsMostRecent
<1>1. WalkInv => StartIsMostRecent
  BY DEF WalkInv
<1>. QED BY <1>1, WalkInvHolds, PTL

\* Where a cycle ends (cycle_end) the next one starts: the cycles that the code
\* computes leave no day out and share none.
THEOREM CyclesTileHolds == Spec => CyclesTile
<1>1. WalkInv /\ [Next]_vars =>
        [start' # start => next_cycle_start(EndOfCycle(rule, start)) = start']_vars
  <2>. SUFFICES ASSUME WalkInv, Walk, start' # start
                PROVE  next_cycle_start(EndOfCycle(rule, start)) = start'
    BY DEF Next, vars
  <2>1. rule \in CycleStartDay /\ today \in Date /\ cycle_start_for_today(rule, today) = start
    BY DEF WalkInv, TypeOK, StartIsMostRecent
  <2>2. IsStartDay(rule, Succ(today)) /\ start' = Succ(today)
    BY DEF Walk
  <2>. QED BY <2>1, <2>2, NextDay
<1>. QED BY <1>1, WalkInvHolds, PTL DEF Spec, CyclesTile

\* infer_cycle_start_day gets the rule back from the start of a cycle, except where the
\* date alone cannot tell: day 28 of a 28-day February.
THEOREM InferRecoversRuleHolds == Spec => []InferRecoversRule
<1>1. ASSUME WalkInv PROVE InferRecoversRule
  <2>1. /\ rule \in CycleStartDay /\ start \in Date /\ today \in Date
        /\ start.d = StartDayIn(rule, start.y, start.m)
    BY <1>1, MostRecentIsAStartDay DEF WalkInv, TypeOK, StartIsMostRecent, IsStartDay
  <2>2. start.y \in Int /\ start.m \in 1..12 /\ start.d \in 1..31
    BY <2>1, DateParts
  <2>3. CASE rule = LastDayOfMonth
    BY <2>1, <2>3 DEF StartDayIn, infer_cycle_start_day, InferRecoversRule
  <2>4. CASE rule # LastDayOfMonth
    <3>1. rule \in 1..28 /\ start.d = rule
      BY <2>1, <2>4 DEF StartDayIn, CycleStartDay
    <3>2. clamped_day(rule) = rule
      BY <3>1 DEF clamped_day
    <3>3. start.d = last_day_of_month(start.y, start.m) => start.m = 2 /\ start.d = 28
      BY <2>2, <3>1 DEF last_day_of_month
    <3>. QED BY <3>1, <3>2, <3>3 DEF infer_cycle_start_day, InferRecoversRule
  <2>. QED BY <2>3, <2>4
<1>2. WalkInv => InferRecoversRule
  BY <1>1
<1>. QED BY <1>2, WalkInvHolds, PTL

-----------------------------------------------------------------------------
(* Counting days                                                           *)

\* The days of the years before a year.
DaysOfYears(p) == 365 * p + p \div 4 - p \div 100 + p \div 400

LEMMA DivStep ==
    ASSUME NEW p \in Int, NEW k \in {4, 100, 400}
    PROVE  /\ p \div k \in Int /\ (p + 1) \div k \in Int
           /\ (p + 1) \div k = p \div k + IF (p + 1) % k = 0 THEN 1 ELSE 0
<1>1. CASE k = 4
  BY <1>1
<1>2. CASE k = 100
  BY <1>2
<1>3. CASE k = 400
  BY <1>3
<1>. QED BY <1>1, <1>2, <1>3

LEMMA Multiples ==
    ASSUME NEW q \in Int
    PROVE  (q % 400 = 0 => q % 100 = 0) /\ (q % 100 = 0 => q % 4 = 0)
  OBVIOUS

LEMMA YearLength ==
    ASSUME NEW p \in Int
    PROVE  DaysOfYears(p) \in Int /\ DaysOfYears(p + 1) = DaysOfYears(p) + IF LeapYear(p + 1) THEN 366 ELSE 365
<1>1. /\ p \div 4 \in Int /\ p \div 100 \in Int /\ p \div 400 \in Int
      /\ (p + 1) \div 4 = p \div 4 + IF (p + 1) % 4 = 0 THEN 1 ELSE 0
      /\ (p + 1) \div 100 = p \div 100 + IF (p + 1) % 100 = 0 THEN 1 ELSE 0
      /\ (p + 1) \div 400 = p \div 400 + IF (p + 1) % 400 = 0 THEN 1 ELSE 0
  BY DivStep
<1>2. /\ (p + 1) % 400 = 0 => (p + 1) % 100 = 0
      /\ (p + 1) % 100 = 0 => (p + 1) % 4 = 0
  BY Multiples
<1>. QED BY <1>1, <1>2 DEF DaysOfYears, LeapYear

LEMMA FirstOfMonth ==
    ASSUME NEW y \in Int, NEW m \in 1..12
    PROVE  DayNumber(Ymd(y, m, 1)) \in Int
<1>1. DaysBeforeMonth[m] \in Int /\ DaysOfYears(y - 1) \in Int
  BY YearLength DEF DaysBeforeMonth
<1>. QED BY <1>1 DEF DayNumber, Ymd, DaysOfYears

LEMMA DayInMonth ==
    ASSUME NEW y \in Int, NEW m \in 1..12, NEW d \in Int
    PROVE  DayNumber(Ymd(y, m, d)) = DayNumber(Ymd(y, m, 1)) + d - 1
<1>1. DaysBeforeMonth[m] \in Int
  BY DEF DaysBeforeMonth
<1>2. DaysOfYears(y - 1) \in Int
  BY YearLength
<1>3. PICK l \in Int : l = IF m > 2 /\ LeapYear(y) THEN 1 ELSE 0
  OBVIOUS
<1>4. \A e \in Int : DayNumber(Ymd(y, m, e)) = DaysOfYears(y - 1) + DaysBeforeMonth[m] + l + e
  BY <1>3 DEF DayNumber, Ymd, DaysOfYears
<1>5. DaysOfYears(y - 1) + DaysBeforeMonth[m] + l \in Int
  BY <1>1, <1>2
<1>6. PICK c \in Int : c = DaysOfYears(y - 1) + DaysBeforeMonth[m] + l
  BY <1>5
<1>7. \A e \in Int : DayNumber(Ymd(y, m, e)) = c + e
  BY <1>4, <1>6
<1>. QED BY <1>7

LEMMA MonthLengthInDays ==
    ASSUME NEW y \in Int, NEW m \in 1..12
    PROVE  LET n == NextMonth(y, m)
           IN  DayNumber(Ymd(n.y, n.m, 1)) = DayNumber(Ymd(y, m, 1)) + last_day_of_month(y, m)
<1>1. DaysOfYears(y - 1) \in Int /\ DaysOfYears(y) = DaysOfYears(y - 1) + IF LeapYear(y) THEN 366 ELSE 365
  <2>1. y - 1 \in Int /\ (y - 1) + 1 = y
    OBVIOUS
  <2>2. \A p \in Int : DaysOfYears(p) \in Int /\ DaysOfYears(p + 1) = DaysOfYears(p) + IF LeapYear(p + 1) THEN 366 ELSE 365
    BY YearLength
  <2>. HIDE DEF DaysOfYears
  <2>3. DaysOfYears((y - 1) + 1) = DaysOfYears(y - 1) + IF LeapYear((y - 1) + 1) THEN 366 ELSE 365
    BY <2>1, <2>2
  <2>. QED BY <2>1, <2>2, <2>3
<1>2. \A b \in 1..12 : DayNumber(Ymd(y, b, 1))
        = DaysOfYears(y - 1) + DaysBeforeMonth[b] + (IF b > 2 /\ LeapYear(y) THEN 1 ELSE 0) + 1
  BY DEF DayNumber, Ymd, DaysOfYears
<1>3. DayNumber(Ymd(y + 1, 1, 1)) = DaysOfYears(y) + 1
  <2>1. (y + 1) - 1 = y
    OBVIOUS
  <2>. QED BY <2>1 DEF DayNumber, Ymd, DaysOfYears, DaysBeforeMonth
<1>4. CASE m = 12
  BY <1>1, <1>2, <1>3, <1>4 DEF NextMonth, last_day_of_month, DaysBeforeMonth
<1>5. CASE m \in 1..11
  <2>1. NextMonth(y, m) = [y |-> y, m |-> m + 1] /\ m + 1 \in 1..12
    BY <1>5 DEF NextMonth
  <2>2. DaysBeforeMonth[m + 1] + (IF m + 1 > 2 /\ LeapYear(y) THEN 1 ELSE 0)
          = DaysBeforeMonth[m] + (IF m > 2 /\ LeapYear(y) THEN 1 ELSE 0) + last_day_of_month(y, m)
    BY <1>5 DEF DaysBeforeMonth, last_day_of_month
  <2>3. last_day_of_month(y, m) \in Int /\ DaysBeforeMonth[m] \in Int /\ DaysBeforeMonth[m + 1] \in Int
    BY <1>5, MonthLength DEF DaysBeforeMonth
  <2>. QED BY <1>1, <1>2, <2>1, <2>2, <2>3
<1>. QED BY <1>4, <1>5

\* DayNumber counts the days that Succ steps through.
LEMMA SuccCounts ==
    ASSUME NEW date \in Date
    PROVE  DayNumber(date) \in Int /\ DayNumber(Succ(date)) = DayNumber(date) + 1
<1>. DEFINE y == date.y  m == date.m  d == date.d  n == NextMonth(y, m)
<1>1. /\ y \in Int /\ m \in 1..12 /\ d \in 1..31
      /\ d <= last_day_of_month(y, m) /\ date = Ymd(y, m, d)
  BY DateParts
<1>2. DayNumber(Ymd(y, m, 1)) \in Int /\ last_day_of_month(y, m) \in Int
  <2>1. y \in Int /\ m \in 1..12
    BY <1>1
  <2>. HIDE DEF y, m
  <2>2. last_day_of_month(y, m) \in 28..31
    BY <2>1, MonthLength
  <2>3. DayNumber(Ymd(y, m, 1)) \in Int
    BY <2>1, FirstOfMonth
  <2>. QED BY <2>2, <2>3
<1>3. \A e \in Int : DayNumber(Ymd(y, m, e)) = DayNumber(Ymd(y, m, 1)) + e - 1
  BY <1>1, DayInMonth
<1>4. DayNumber(date) = DayNumber(Ymd(y, m, 1)) + d - 1
  <2>1. d \in Int /\ date = Ymd(y, m, d)
    BY <1>1
  <2>. HIDE DEF y, m, d
  <2>. QED BY <1>3, <2>1
<1>5. CASE d < last_day_of_month(y, m)
  <2>1. Succ(date) = Ymd(y, m, d + 1) /\ d + 1 \in Int
    BY <1>1, <1>5 DEF Succ, Ymd
  <2>2. DayNumber(Succ(date)) = DayNumber(Ymd(y, m, 1)) + (d + 1) - 1
    BY <1>3, <2>1
  <2>3. d \in Int
    BY <1>1
  <2>. HIDE DEF y, m, d
  <2>. QED BY <1>2, <1>4, <2>2, <2>3
<1>6. CASE ~(d < last_day_of_month(y, m))
  <2>1. Succ(date) = Ymd(n.y, n.m, 1) /\ d = last_day_of_month(y, m)
    BY <1>1, <1>2, <1>6 DEF Succ
  <2>2. DayNumber(Ymd(n.y, n.m, 1)) = DayNumber(Ymd(y, m, 1)) + last_day_of_month(y, m)
    BY <1>1, MonthLengthInDays
  <2>. QED BY <1>2, <1>4, <2>1, <2>2
<1>. QED BY <1>2, <1>4, <1>1, <1>5, <1>6

\* From a start day to a day of the next month.
LEMMA DaysToNextMonth ==
    ASSUME NEW r \in CycleStartDay, NEW y \in Int, NEW m \in 1..12, NEW d \in Int
    PROVE  LET n == NextMonth(y, m)
           IN  DayNumber(Ymd(n.y, n.m, d)) - DayNumber(Ymd(y, m, StartDayIn(r, y, m)))
                 = last_day_of_month(y, m) - StartDayIn(r, y, m) + d
<1>. DEFINE n == NextMonth(y, m)
<1>1. n.y \in Int /\ n.m \in 1..12
  BY NeighbourMonths
<1>2. StartDayIn(r, y, m) \in Int /\ last_day_of_month(y, m) \in Int
  BY StartDayInMonth, MonthLength
<1>3. /\ DayNumber(Ymd(y, m, 1)) \in Int
      /\ DayNumber(Ymd(y, m, StartDayIn(r, y, m)))
            = DayNumber(Ymd(y, m, 1)) + StartDayIn(r, y, m) - 1
  BY <1>2, FirstOfMonth, DayInMonth
<1>4. DayNumber(Ymd(n.y, n.m, d)) = DayNumber(Ymd(n.y, n.m, 1)) + d - 1
  BY <1>1, DayInMonth
<1>5. DayNumber(Ymd(n.y, n.m, 1)) = DayNumber(Ymd(y, m, 1)) + last_day_of_month(y, m)
  BY MonthLengthInDays
<1>. QED BY <1>2, <1>3, <1>4, <1>5

\* A day is in the first 31 of its cycle.
LEMMA DaysIntoCycle ==
    ASSUME NEW r \in CycleStartDay, NEW date \in Date
    PROVE  NumDays(date, cycle_start_for_today(r, date)) \in 0..30
<1>1. PICK y \in Int, m \in 1..12, d \in 1..31 :
        /\ y = date.y /\ m = date.m /\ d = date.d /\ d <= last_day_of_month(y, m)
        /\ date = Ymd(y, m, d)
  BY DateParts
<1>2. PICK p : p.y \in Int /\ p.m \in 1..12 /\ p = prev_month(y, m)
  BY NeighbourMonths
<1>3. PICK day \in 1..31 : day = StartDayIn(r, y, m) /\ day <= last_day_of_month(y, m)
  BY StartDayInMonth
<1>4. last_day_of_month(y, m) \in 28..31 /\ last_day_of_month(p.y, p.m) \in 28..31
  BY <1>2, MonthLength
<1>5. CASE d >= day
  <2>. d \in Int /\ day \in Int
    OBVIOUS
  <2>1. cycle_start_for_today(r, date) = Ymd(y, m, day)
    <3>1. cycle_start_for_today(r, Ymd(y, m, d)) = Ymd(y, m, StartDayIn(r, y, m))
      BY <1>3, <1>5, StartOfMonthOrBefore
    <3>. QED BY <1>1, <1>3, <3>1
  <2>2. /\ DayNumber(Ymd(y, m, 1)) \in Int
        /\ DayNumber(Ymd(y, m, d)) = DayNumber(Ymd(y, m, 1)) + d - 1
        /\ DayNumber(Ymd(y, m, day)) = DayNumber(Ymd(y, m, 1)) + day - 1
    BY FirstOfMonth, DayInMonth
  <2>3. NumDays(date, cycle_start_for_today(r, date)) = d - day
    <3>1. date = Ymd(y, m, d)
      BY <1>1
    <3>2. NumDays(date, cycle_start_for_today(r, date))
            = DayNumber(Ymd(y, m, d)) - DayNumber(Ymd(y, m, day))
      BY <2>1, <3>1 DEF NumDays
    <3>3. PICK c \in Int : c = DayNumber(Ymd(y, m, 1))
      BY <2>2
    <3>. QED BY <2>2, <3>2, <3>3
  <2>. QED BY <1>5, <2>3
<1>6. CASE d < day
  <2>. d \in Int
    OBVIOUS
  <2>1. cycle_start_for_today(r, date) = Ymd(p.y, p.m, StartDayIn(r, p.y, p.m))
    <3>1. cycle_start_for_today(r, Ymd(y, m, d)) = Ymd(p.y, p.m, StartDayIn(r, p.y, p.m))
      BY <1>2, <1>3, <1>6, StartOfMonthOrBefore
    <3>. QED BY <1>1, <3>1
  <2>2. NextMonth(p.y, p.m) = [y |-> y, m |-> m]
    BY <1>2, MonthsAreInverse
  <2>3. NumDays(date, cycle_start_for_today(r, date))
          = last_day_of_month(p.y, p.m) - StartDayIn(r, p.y, p.m) + d
    BY <1>1, <1>2, <2>1, <2>2, DaysToNextMonth, SMTT(30) DEF NumDays
  <2>4. last_day_of_month(p.y, p.m) - StartDayIn(r, p.y, p.m) + d \in 0..30
    BY <1>3, <1>4, <1>6 DEF StartDayIn, CycleStartDay, LastDayOfMonth
  <2>. QED BY <2>3, <2>4
<1>. QED BY <1>5, <1>6

\* A cycle that begins on a start day has 28 to 31 days, the last of which is its end.
LEMMA CycleLength ==
    ASSUME NEW r \in CycleStartDay, NEW date \in Date, IsStartDay(r, date)
    PROVE  NumDays(EndOfCycle(r, date), date) \in 27..30
<1>1. PICK y \in Int, m \in 1..12 :
        y = date.y /\ m = date.m /\ date = Ymd(y, m, StartDayIn(r, y, m))
  BY DateParts DEF IsStartDay
<1>. DEFINE n == NextMonth(y, m)  next == Ymd(n.y, n.m, StartDayIn(r, n.y, n.m))
<1>2. n.y \in Int /\ n.m \in 1..12
  BY NeighbourMonths
<1>3. next \in Date /\ EndOfCycle(r, date) = Pred(next)
  BY <1>1, <1>2, StartDayExists DEF EndOfCycle, cycle_end, cycle_start_of_next_month
<1>4. DayNumber(Pred(next)) \in Int /\ DayNumber(next) = DayNumber(Pred(next)) + 1
  <2>1. Pred(next) \in Date /\ Succ(Pred(next)) = next
    BY <1>3, PredIsDate, SuccOfPred
  <2>2. PICK end \in Date : end = Pred(next)
    BY <2>1
  <2>. QED BY <2>1, <2>2, SuccCounts
<1>5. /\ StartDayIn(r, n.y, n.m) \in 1..31
      /\ last_day_of_month(y, m) \in 28..31 /\ last_day_of_month(n.y, n.m) \in 28..31
  BY <1>2, StartDayInMonth, MonthLength
<1>6. DayNumber(next) - DayNumber(date)
        = last_day_of_month(y, m) - StartDayIn(r, y, m) + StartDayIn(r, n.y, n.m)
  <2>1. StartDayIn(r, n.y, n.m) \in Int
    BY <1>5
  <2>. QED BY <1>1, <2>1, DaysToNextMonth, SMTT(30)
<1>7. last_day_of_month(y, m) - StartDayIn(r, y, m) + StartDayIn(r, n.y, n.m) \in 28..31
  BY <1>5 DEF StartDayIn, CycleStartDay, LastDayOfMonth
<1>8. DayNumber(date) \in Int
  BY SuccCounts
<1>. QED BY <1>3, <1>4, <1>6, <1>7, <1>8 DEF NumDays

\* The window of 31 days behind which BandwidthAccountant::new drops a cycle holds every
\* cycle in progress, and NumDays is the number of days walked.
THEOREM MaximumCycleHolds == Spec => []MaximumCycle
<1>. DEFINE Counted == steps = NumDays(today, cycle_start_for_today(rule, FirstDay))
<1>1. ASSUME Init PROVE Counted
  <2>1. today \in Date
    BY <1>1, RulesAssumption, FirstDayAssumption, CycleStartIsDate DEF Init
  <2>2. DayNumber(today) \in Int
    BY <2>1, SuccCounts
  <2>. QED BY <1>1, <2>2 DEF Init, NumDays
<1>2. ASSUME WalkInv, Counted, [Next]_vars PROVE Counted'
  <2>1. CASE UNCHANGED vars
    BY <1>2, <2>1 DEF vars, NumDays, DayNumber
  <2>2. CASE Walk
    <3>1. today \in Date /\ rule \in CycleStartDay
      BY <1>2 DEF WalkInv, TypeOK
    <3>2. DayNumber(today) \in Int /\ DayNumber(Succ(today)) = DayNumber(today) + 1
      BY <3>1, SuccCounts
    <3>3. PICK first \in Date : first = cycle_start_for_today(rule, FirstDay)
      BY <3>1, FirstDayAssumption, CycleStartIsDate
    <3>4. DayNumber(first) \in Int
      BY SuccCounts
    <3>5. steps' = NumDays(Succ(today), first)
      BY <1>2, <2>2, <3>2, <3>3, <3>4 DEF Walk, NumDays
    <3>. QED BY <2>2, <3>3, <3>5 DEF Walk
  <2>. QED BY <1>2, <2>1, <2>2 DEF Next
<1>3. ASSUME WalkInv, Counted PROVE MaximumCycle
  <2>1. /\ rule \in CycleStartDay /\ today \in Date /\ start \in Date
        /\ cycle_start_for_today(rule, today) = start
    BY <1>3 DEF WalkInv, TypeOK, StartIsMostRecent
  <2>2. IsStartDay(rule, start)
    BY <2>1, MostRecentIsAStartDay
  <2>. QED BY <1>3, <2>1, <2>2, DaysIntoCycle, CycleLength DEF MaximumCycle
<1>4. WalkInv /\ Counted => MaximumCycle
  BY <1>3
<1>5. WalkInv /\ Counted /\ [Next]_vars => Counted'
  BY <1>2
<1>6. Init => Counted
  BY <1>1
<1>. HIDE DEF Counted
<1>. QED BY <1>4, <1>5, <1>6, WalkInvHolds, PTL DEF Spec
=============================================================================
