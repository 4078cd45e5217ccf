------------------------------- MODULE Launch -------------------------------
(***************************************************************************)
(* Processes of the program around the first-run wizard: the wizard's      *)
(* "Start monitoring" starts a second process, which waits for the first   *)
(* to end (restart_sidebar in gui/mod.rs, claim_or_exit, main), while the  *)
(* user may double-click the program a second time.  A process that runs,  *)
(* and is not the wizard's, opens the accountant's database.               *)
(*                                                                         *)
(* One unit of time is the pause between two attempts of the child, and    *)
(* the clock starts at the click.                                          *)
(***************************************************************************)
EXTENDS SingleInstance, Database

CONSTANTS
    MaxClose,       \* the longest time eframe takes to return after the click
    MaxLaunches     \* bound: double-clicks

ASSUME LaunchAssumption ==
    /\ Process = {"wizard", "child", "other"}
    /\ Waiting = {"child"}
    /\ Client = Process \ {"wizard"}
    /\ MaxClose \in Nat /\ MaxLaunches \in Nat

ShutdownOfSixSeconds == (6000 * MAX_POLLS) \div 5000

\* TOTAL_SHUTDOWN_BUDGET, when MAX_POLLS pauses make the 5 s of MAX_WAIT.
TotalShutdown == (3000 * MAX_POLLS) \div 5000

VARIABLES
    clock,          \* time since the click
    closing,        \* has eframe returned in the wizard's process?
    left,           \* when it returned
    launches        \* double-clicks so far

clockVars == <<clock, closing, left, launches>>
launchVars == <<instanceVars, dbVars, clockVars>>

LaunchInit ==
    /\ pc = [p \in Process |-> IF p = "wizard" THEN "claiming" ELSE "off"]
    /\ holders = {}
    /\ polls = [p \in Process |-> 0]
    /\ DatabaseInit
    /\ clock = 0
    /\ closing = FALSE
    /\ left = 0
    /\ launches = 0

-----------------------------------------------------------------------------
(* The wizard's process.                                                   *)

\* restart_sidebar succeeds: the child is there, and the viewport is told to close.
StartMonitoring ==
    /\ Running("wizard")
    /\ ~closing
    /\ Launch("child")
    /\ UNCHANGED <<dbVars, clockVars>>

Clicked == pc["child"] # "off"

\* eframe returns, after the click or because the user closes the window.
EframeReturns ==
    /\ Running("wizard")
    /\ ~closing
    /\ closing' = TRUE
    /\ left' = clock
    /\ UNCHANGED <<instanceVars, dbVars, clock, launches>>

\* The end of the shutdown, at the latest by its watchdog (module Shutdown).
WizardEnds ==
    /\ closing
    /\ Exit("wizard")
    /\ UNCHANGED <<dbVars, clockVars>>

\* CreateMutexW is called again when the sleep is over.
AttemptIsDue(p) == p \in Waiting => polls[p] <= clock

Attempt(p) ==
    /\ AttemptIsDue(p)
    /\ ClaimStep(p)
    /\ UNCHANGED <<dbVars, clockVars>>

-----------------------------------------------------------------------------
(* The other processes.                                                    *)

DoubleClick ==
    /\ launches < MaxLaunches
    /\ Launch("other")
    /\ launches' = launches + 1
    /\ UNCHANGED <<dbVars, clock, closing, left>>

Again ==
    /\ launches < MaxLaunches
    /\ Relaunch("other")
    /\ UNCHANGED <<dbVars, clockVars>>

UseDatabase(c) ==
    /\ Running(c)
    /\ DatabaseStep(c)
    /\ UNCHANGED <<instanceVars, clockVars>>

\* It is closed or killed; whatever it had open is closed.
Ends(c) ==
    /\ Running(c)
    /\ Exit(c)
    /\ IF conn[c] = "none" THEN UNCHANGED dbVars ELSE Close(c)
    /\ UNCHANGED clockVars

Overdue ==
    /\ Running("wizard")
    /\ IF closing THEN clock - left >= TotalShutdown ELSE clock >= MaxClose

\* Time counts from the click until the child has got in or given up.
Tick ==
    /\ pc["child"] = "claiming"
    /\ ~AttemptIsDue("child")
    /\ ~Overdue
    /\ clock' = clock + 1
    /\ UNCHANGED <<instanceVars, dbVars, closing, left, launches>>

-----------------------------------------------------------------------------

LaunchNext ==
    \/ StartMonitoring \/ EframeReturns \/ WizardEnds
    \/ \E p \in Process : Attempt(p)
    \/ DoubleClick \/ Again
    \/ \E c \in Client : UseDatabase(c) \/ Ends(c)
    \/ Tick

LaunchSpec == LaunchInit /\ [][LaunchNext]_launchVars

\* After the click the viewport closes, the process ends, time passes and the
\* child makes its attempts; nobody need click or end a process that runs.
LaunchFairness ==
    /\ WF_launchVars(EframeReturns /\ Clicked)
    /\ WF_launchVars(WizardEnds)
    /\ WF_launchVars(Tick)
    /\ WF_launchVars(Attempt("child"))

FairLaunchSpec == LaunchSpec /\ LaunchFairness

-----------------------------------------------------------------------------
(* Properties.                                                             *)

\* Every variable has its type.
LaunchTypeOK ==
    /\ InstanceTypeOK
    /\ DatabaseTypeOK
    /\ clock \in 0..MAX_POLLS
    /\ closing \in BOOLEAN
    /\ left \in 0..clock
    /\ launches \in 0..MaxLaunches

\* The budget of the wait exceeds that of the shutdown: the child gives up on
\* the wizard's process only when that process has ended (claim_or_exit, "Tuned
\* to comfortably exceed the T-19 shutdown watchdog budget").
GivesUpLast ==
    pc["child"] = "exited" /\ polls["child"] = MAX_POLLS => ~Running("wizard")

\* Two accountants write one database only when the guard was out of order.
OneAccountant ==
    \A c, d \in Client : conn[c] = "ready" /\ conn[d] = "ready" /\ c # d =>
        "unguarded" \in {pc[c], pc[d]}

\* "the freshly-spawned child must wait for the prior instance to release the
\* mutex during its 1-3 s graceful shutdown" (claim_or_exit): it then runs,
\* unless the user has started another instance.
RestartTakesOver ==
    pc["child"] = "claiming" ~> Running("child") \/ launches > 0
=============================================================================
