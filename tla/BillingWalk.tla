---------------------------- MODULE BillingWalk ----------------------------
(***************************************************************************)
(* A reference for Billing: a walk over the calendar, one day at a time,   *)
(* that opens a new cycle whenever it stands on a start day.  Nothing here *)
(* computes an end date or looks for a previous month, which is what the   *)
(* code does; the properties say the code's closed forms agree with it.    *)
(***************************************************************************)
EXTENDS Billing

CONSTANTS
    Rules,      \* the billing rules walked
    FirstDay,   \* where the walk begins
    LastYear    \* BOUND: the walk stops at the end of this year

ASSUME RulesAssumption == Rules \subseteq CycleStartDay
ASSUME FirstDayAssumption == FirstDay \in Date /\ LastYear \in Nat

VARIABLES
    rule,       \* the rule of this walk
    today,
    start,      \* the start day the walk last stood on
    steps       \* days walked

vars == <<rule, today, start, steps>>

IsStartDay(r, date) == date.d = StartDayIn(r, date.y, date.m)

\* The walk begins on a start day, so that `start` is known.
Init ==
    /\ rule \in Rules
    /\ today = cycle_start_for_today(rule, FirstDay)
    /\ start = today
    /\ steps = 0

Walk ==
    /\ today.y <= LastYear
    /\ today' = Succ(today)
    /\ start' = IF IsStartDay(rule, today') THEN today' ELSE start
    /\ steps' = steps + 1
    /\ UNCHANGED rule

Next == Walk

Spec == Init /\ [][Next]_vars

-----------------------------------------------------------------------------
\* Every day walked is a real calendar date.
TypeOK ==
    /\ rule \in CycleStartDay
    /\ today \in Date
    /\ start \in Date
    /\ steps \in Nat

\* cycle_start_for_today finds the start day the walk last stood on, in every
\* month length, across leap days and the turn of the year: a restart on any
\* day computes the same cycle a program that never stopped is in.
StartIsMostRecent == cycle_start_for_today(rule, today) = start

\* PRD 5.5 item 1 and cycle_end: a cycle ends on the day before the next
\* start day, so the computed cycles tile the calendar with no gap and no
\* overlap: whenever the walk opens a cycle, the code's end of the previous
\* one is the day before.
CyclesTile ==
    [][start' # start => next_cycle_start(EndOfCycle(rule, start)) = start']_vars

\* The comment at the rehydration window of BandwidthAccountant::new: a cycle
\* of one rule is at most 31 days long, and NumDays is the number of days
\* really walked, so no start of a cycle in progress falls out of the window.
MaximumCycle ==
    /\ NumDays(today, start) \in 0..30
    /\ NumDays(EndOfCycle(rule, start), start) \in 27..30
    /\ steps = NumDays(today, cycle_start_for_today(rule, FirstDay))

\* infer_cycle_start_day recovers the rule of a cycle from its start date
\* alone, except where only the metadata can tell: day 28 of a 28-day February.
InferRecoversRule ==
    \/ infer_cycle_start_day(start) = rule
    \/ start.m = 2 /\ start.d = 28 /\ rule = 28
=============================================================================
