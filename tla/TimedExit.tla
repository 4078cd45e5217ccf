----------------------------- MODULE TimedExit ------------------------------
(* What the end of a process promises: it is gone when Budget units of     *)
(* time have passed since its shutdown began, and may go at any moment     *)
(* before.  Shutdown implements it, and Launch relies on it.               *)
EXTENDS Naturals

CONSTANT Budget     \* a natural number

VARIABLES clock, gone

timedVars == <<clock, gone>>

TimedInit == clock = 0 /\ gone \in BOOLEAN

Pass ==
    /\ ~gone
    /\ clock < Budget
    /\ clock' = clock + 1
    /\ UNCHANGED gone

Go ==
    /\ ~gone
    /\ gone' = TRUE
    /\ UNCHANGED clock

TimedNext == Pass \/ Go

TimedSpec == TimedInit /\ [][TimedNext]_timedVars
=============================================================================
