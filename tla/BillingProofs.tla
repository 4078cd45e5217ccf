--------------------------- MODULE BillingProofs ---------------------------
(***************************************************************************)
(* Facts about the calendar arithmetic, for every date and every rule.     *)
(***************************************************************************)
EXTENDS Billing, TLAPS

\* Every month has 28 to 31 days.
LEMMA MonthLength ==
    ASSUME NEW y \in Int, NEW m \in 1..12
    PROVE  last_day_of_month(y, m) \in 28..31
  BY DEF last_day_of_month

\* A date has its parts in range, and parts in range make a date.
LEMMA DateParts ==
    ASSUME NEW date \in Date
    PROVE  /\ date.y \in Int /\ date.m \in 1..12 /\ date.d \in 1..31
           /\ date.d <= last_day_of_month(date.y, date.m)
           /\ date = Ymd(date.y, date.m, date.d)
  BY DEF Date, Ymd

LEMMA YmdIsDate ==
    ASSUME NEW y \in Int, NEW m \in 1..12, NEW d \in 1..31,
           d <= last_day_of_month(y, m)
    PROVE  Ymd(y, m, d) \in Date
  BY DEF Date, Ymd

\* The months next to a month are months.
LEMMA NeighbourMonths ==
    ASSUME NEW y \in Int, NEW m \in 1..12
    PROVE  /\ NextMonth(y, m).y \in Int /\ NextMonth(y, m).m \in 1..12
           /\ prev_month(y, m).y \in Int /\ prev_month(y, m).m \in 1..12
  BY DEF NextMonth, prev_month

\* The day before and the day after a date are dates, and next to it in the
\* order of dates.
LEMMA SuccIsLater ==
    ASSUME NEW date \in Date
    PROVE  Succ(date) \in Date /\ DateLT(date, Succ(date))
<1> DEFINE y == date.y  m == date.m  d == date.d  n == NextMonth(y, m)
<1>1. /\ y \in Int /\ m \in 1..12 /\ d \in 1..31
      /\ d <= last_day_of_month(y, m) /\ date = Ymd(y, m, d)
  BY DateParts
<1>2. last_day_of_month(y, m) \in 28..31
  BY <1>1, MonthLength
<1>3. CASE d < last_day_of_month(y, m)
  <2>1. Succ(date) = Ymd(y, m, d + 1)
    BY <1>1, <1>3 DEF Succ, Ymd
  <2>2. Ymd(y, m, d + 1) \in Date
    <3>1. d + 1 \in 1..31 /\ d + 1 <= last_day_of_month(y, m)
      BY <1>1, <1>2, <1>3
    <3>. QED BY <1>1, <3>1, YmdIsDate
  <2>. QED BY <1>1, <2>1, <2>2 DEF DateLT, DateKey, Ymd
<1>4. CASE ~(d < last_day_of_month(y, m))
  <2>1. Succ(date) = Ymd(n.y, n.m, 1)
    BY <1>4 DEF Succ
  <2>2. n.y \in Int /\ n.m \in 1..12
    BY <1>1, NeighbourMonths
  <2>3. Ymd(n.y, n.m, 1) \in Date
    <3>1. 1 <= last_day_of_month(n.y, n.m)
      BY <2>2, MonthLength
    <3>. QED BY <2>2, <3>1, YmdIsDate
  <2>4. DateKey(date) < DateKey(Ymd(n.y, n.m, 1))
    BY <1>1 DEF DateKey, Ymd, NextMonth
  <2>. QED BY <2>1, <2>3, <2>4 DEF DateLT
<1>. QED BY <1>3, <1>4

LEMMA PredIsDate ==
    ASSUME NEW date \in Date
    PROVE  Pred(date) \in Date
<1> DEFINE y == date.y  m == date.m  d == date.d  p == prev_month(y, m)
<1>1. /\ y \in Int /\ m \in 1..12 /\ d \in 1..31
      /\ d <= last_day_of_month(y, m) /\ date = Ymd(y, m, d)
  BY DateParts
<1>2. last_day_of_month(y, m) \in 28..31
  BY <1>1, MonthLength
<1>3. CASE d > 1
  <2>1. Pred(date) = Ymd(y, m, d - 1)
    BY <1>1, <1>3 DEF Pred, Ymd
  <2>2. d - 1 \in 1..31 /\ d - 1 <= last_day_of_month(y, m)
    BY <1>1, <1>2, <1>3
  <2>. QED BY <1>1, <2>1, <2>2, YmdIsDate
<1>4. CASE ~(d > 1)
  <2>1. Pred(date) = Ymd(p.y, p.m, last_day_of_month(p.y, p.m))
    BY <1>4 DEF Pred
  <2>2. p.y \in Int /\ p.m \in 1..12
    BY <1>1, NeighbourMonths
  <2>3. /\ last_day_of_month(p.y, p.m) \in 1..31
        /\ last_day_of_month(p.y, p.m) <= last_day_of_month(p.y, p.m)
    BY <2>2, MonthLength
  <2>. QED BY <2>1, <2>2, <2>3, YmdIsDate
<1>. QED BY <1>3, <1>4

\* Each month has the start day of every rule: no clamping is ever needed.
LEMMA StartDayExists ==
    ASSUME NEW rule \in CycleStartDay, NEW y \in Int, NEW m \in 1..12
    PROVE  Ymd(y, m, StartDayIn(rule, y, m)) \in Date
<1>1. last_day_of_month(y, m) \in 28..31
  BY MonthLength
<1>2. /\ StartDayIn(rule, y, m) \in 1..31
      /\ StartDayIn(rule, y, m) <= last_day_of_month(y, m)
  BY <1>1 DEF StartDayIn, CycleStartDay, LastDayOfMonth
<1>. QED BY <1>2, YmdIsDate

\* The start and the end of a cycle are dates.
LEMMA CycleStartIsDate ==
    ASSUME NEW rule \in CycleStartDay, NEW today \in Date
    PROVE  cycle_start_for_today(rule, today) \in Date
<1> DEFINE p == prev_month(today.y, today.m)
<1>1. today.y \in Int /\ today.m \in 1..12
  BY DateParts
<1>2. p.y \in Int /\ p.m \in 1..12
  BY <1>1, NeighbourMonths
<1>3. Ymd(today.y, today.m, StartDayIn(rule, today.y, today.m)) \in Date
  BY <1>1, StartDayExists
<1>4. Ymd(p.y, p.m, StartDayIn(rule, p.y, p.m)) \in Date
  BY <1>2, StartDayExists
<1>. QED BY <1>3, <1>4 DEF cycle_start_for_today

LEMMA CycleEndIsDate ==
    ASSUME NEW rule \in CycleStartDay, NEW start \in Date
    PROVE  EndOfCycle(rule, start) \in Date
<1> DEFINE n == NextMonth(start.y, start.m)
<1>1. start.y \in Int /\ start.m \in 1..12
  BY DateParts
<1>2. n.y \in Int /\ n.m \in 1..12
  BY <1>1, NeighbourMonths
<1>3. cycle_start_of_next_month(rule, start.y, start.m) \in Date
  BY <1>2, StartDayExists DEF cycle_start_of_next_month
<1>. QED BY <1>3, PredIsDate DEF EndOfCycle, cycle_end

\* The rule inferred from a start date is a rule.
LEMMA InferredRule ==
    ASSUME NEW start \in Date
    PROVE  infer_cycle_start_day(start) \in CycleStartDay
  BY DateParts DEF infer_cycle_start_day, clamped_day, CycleStartDay, LastDayOfMonth

\* Whatever the rule, and whatever rule the start day came from, a cycle does
\* not end before it starts, so the cycle after it starts later: a rollover
\* cannot repeat a cycle (check_rollover computes the next start from the end
\* under a rule that may not be the one the current start was chosen by).
THEOREM NextCycleIsLater ==
    ASSUME NEW rule \in CycleStartDay, NEW start \in Date
    PROVE  /\ EndOfCycle(rule, start) \in Date
           /\ DateLE(start, EndOfCycle(rule, start))
           /\ next_cycle_start(EndOfCycle(rule, start)) \in Date
           /\ DateLT(start, next_cycle_start(EndOfCycle(rule, start)))
<1> DEFINE y == start.y  m == start.m  d == start.d
           n == NextMonth(y, m)
           day == StartDayIn(rule, n.y, n.m)
           next == cycle_start_of_next_month(rule, y, m)
           end == EndOfCycle(rule, start)
<1>1. /\ y \in Int /\ m \in 1..12 /\ d \in 1..31
      /\ d <= last_day_of_month(y, m)
  BY DateParts
<1>2. n.y \in Int /\ n.m \in 1..12
  BY <1>1, NeighbourMonths
<1>3. next = Ymd(n.y, n.m, day) /\ next \in Date
  BY <1>2, StartDayExists DEF cycle_start_of_next_month
<1>4. day \in 1..31
  BY <1>3, DateParts DEF Ymd
<1>5. end = Pred(next) /\ end \in Date
  BY CycleEndIsDate DEF EndOfCycle, cycle_end
<1>6. DateKey(start) <= DateKey(end)
  <2>1. CASE day > 1
    <3>1. Pred(next) = Ymd(n.y, n.m, day - 1)
      BY <1>3, <2>1 DEF Pred, Ymd
    <3>2. DateKey(end) = 372 * n.y + 31 * n.m + (day - 1)
      BY <1>5, <3>1 DEF DateKey, Ymd
    <3>3. \/ n.y = y + 1 /\ n.m = 1 /\ m = 12
          \/ n.y = y /\ n.m = m + 1
      BY DEF NextMonth
    <3>. HIDE DEF n, day, end
    <3>. QED BY <1>1, <1>4, <2>1, <3>2, <3>3 DEF DateKey
  <2>2. CASE ~(day > 1)
    <3>1. prev_month(n.y, n.m) = [y |-> y, m |-> m]
      BY <1>1 DEF NextMonth, prev_month
    <3>2. Pred(next) = Ymd(y, m, last_day_of_month(y, m))
      BY <1>3, <2>2, <3>1 DEF Pred, Ymd
    <3>3. last_day_of_month(y, m) \in Int
      BY <1>1, MonthLength
    <3>. QED BY <1>1, <1>5, <3>2, <3>3 DEF DateKey, Ymd
  <2>. QED BY <2>1, <2>2
<1>7. Succ(end) \in Date /\ DateKey(end) < DateKey(Succ(end))
  BY <1>5, SuccIsLater DEF DateLT
<1>8. \A date \in Date : DateKey(date) \in Int
  BY DateParts DEF DateKey
<1>9. DateKey(start) \in Int /\ DateKey(end) \in Int /\ DateKey(Succ(end)) \in Int
  <2>. HIDE DEF end
  <2>. QED BY <1>5, <1>7, <1>8
<1>. QED BY <1>5, <1>6, <1>7, <1>9 DEF DateLE, DateLT, next_cycle_start
=============================================================================
