--------------------------- MODULE MCBillingWalk ---------------------------
(* Five calendar years with one leap day and a turn of every month, from a *)
(* common year's January on, for the rules at the edges.                   *)
EXTENDS BillingWalk

MCRules == {1, 2, 15, 27, 28, LastDayOfMonth}
MCFirstDay == Ymd(2023, 1, 15)
=============================================================================
