------------------------------ MODULE Shutdown ------------------------------
(***************************************************************************)
(* How the process ends: crates/sidebar-app/src/shutdown.rs and            *)
(* run_graceful_shutdown in main.rs.  Whoever asks for it first cancels    *)
(* the workers and sends one Event::Shutdown; once eframe has returned,    *)
(* the main thread waits for each worker in turn and for no longer than    *)
(* its budget, while a watchdog waits to end the process by force.         *)
(*                                                                         *)
(* One unit of time is 50 ms, and "now" counts from the return of eframe.  *)
(* The steps between two waits take no time.                               *)
(***************************************************************************)
EXTENDS Naturals, FiniteSets

CONSTANT
    MaxNow              \* bound: the time a behaviour is followed for

ASSUME MaxNowAssumption == MaxNow \in Nat

Ms(n) == n \div 50

\* The thread or task a stage of the shutdown waits for, in the order it does.
Worker == {"poller", "accountant", "supervisor", "coalescer", "signal"}

Stage == {"gui", "requesting", "flush", "ohm", "poller", "accountant", "supervisor",
          "coalescer", "signal", "disarm", "returned"}

\* Who asks: the GUI's on_exit, the Ctrl+C task, the main thread.
Requester == {"gui", "ctrl_c", "main"}

VARIABLES
    wizard,         \* was the process started for the first-run wizard?
    failed,         \* did eframe return an error?
    now,            \* time since eframe returned
    stage,          \* what the main thread does
    since,          \* when the stage began
    running,        \* workers that have not ended
    flushed,        \* accountant_flush_flag
    emitted,        \* ShutdownSignal::emitted
    winner,         \* who set it
    owed,           \* what the winner has still to do: "none", "cancel", "send"
    cancelled,      \* the cancellation token
    sent,           \* how many Event::Shutdown went out
    overdue,        \* workers that outlasted their budget: aborted or left
    completed,      \* the watchdog's flag
    ended           \* how the process ended: "no", "exit", "forced", "dropped"

requestVars == <<emitted, winner, owed, cancelled, sent>>
waitVars == <<stage, since, overdue, completed, ended>>
shutdownVars == <<wizard, failed, now, running, flushed, requestVars, waitVars>>

-----------------------------------------------------------------------------
(* The budgets of main.rs and shutdown.rs.                                 *)

PHASE_FLUSH_BUDGET == Ms(500)
PHASE_OHM_BUDGET == Ms(2000)
TOTAL_SHUTDOWN_BUDGET == Ms(3000)
AccountantThreadDeadline == Ms(450)

JoinBudget == [poller |-> Ms(300), accountant |-> Ms(250), supervisor |-> Ms(500),
               coalescer |-> Ms(100), signal |-> Ms(100)]

\* The cancelled task is awaited without a bound; a thread is left behind.
IsTask(w) == w \in {"poller", "coalescer", "signal"}

-----------------------------------------------------------------------------
(* The start: the wizard's process has no accountant, poller or            *)
(* supervisor, and its flush flag is preset.  An accountant that cannot    *)
(* open its database sets the flag and ends.                               *)

InitialWorkers(in_wizard, disabled) ==
    IF in_wizard THEN {"coalescer", "signal"}
    ELSE Worker \ (IF disabled THEN {"accountant"} ELSE {})

ShutdownInit ==
    /\ wizard \in BOOLEAN
    /\ failed \in BOOLEAN
    /\ now = 0
    /\ stage = "gui"
    /\ since = 0
    /\ \E disabled \in BOOLEAN :
          /\ running = InitialWorkers(wizard, disabled)
          /\ flushed = (wizard \/ disabled)
    /\ emitted = FALSE
    /\ winner = "none"
    /\ owed = "none"
    /\ cancelled = FALSE
    /\ sent = 0
    /\ overdue = {}
    /\ completed = FALSE
    /\ ended = "no"

-----------------------------------------------------------------------------
(* ShutdownSignal::request, a step for each of its effects.  The GUI asks  *)
(* in on_exit, before eframe returns; the Ctrl+C task whenever it likes,   *)
(* as long as it runs.  Whoever finds "emitted" set returns at once.       *)

MayAsk(r) ==
    CASE r = "gui" -> stage = "gui"
      [] r = "ctrl_c" -> "signal" \in running
      [] r = "main" -> stage = "requesting"

\* emitted.swap(true): only the first goes on.
Request(r) ==
    /\ ended = "no"
    /\ ~emitted
    /\ MayAsk(r)
    /\ emitted' = TRUE
    /\ winner' = r
    /\ owed' = "cancel"
    /\ UNCHANGED <<wizard, failed, now, running, flushed, cancelled, sent, waitVars>>

CancelByMain ==
    /\ ended = "no"
    /\ owed = "cancel"
    /\ winner = "main"
    /\ cancelled' = TRUE
    /\ owed' = "send"
    /\ UNCHANGED <<wizard, failed, now, running, flushed, emitted, winner, sent, waitVars>>

Cancel ==
    /\ ended = "no"
    /\ owed = "cancel"
    /\ cancelled' = TRUE
    /\ owed' = "send"
    /\ UNCHANGED <<wizard, failed, now, running, flushed, emitted, winner, sent, waitVars>>

Send ==
    /\ ended = "no"
    /\ owed = "send"
    /\ sent' = sent + 1
    /\ owed' = "none"
    /\ UNCHANGED <<wizard, failed, now, running, flushed, emitted, winner, cancelled, waitVars>>

\* request returns to r: nothing was left to do, or r has done it.
Returned(r) == emitted /\ (winner = r => owed = "none")

-----------------------------------------------------------------------------
(* The workers, each at its own pace.  The poller, the accountant and the  *)
(* supervisor's thread see the cancellation, the last when it wakes from a *)
(* second of sleep; the coalescer sees the event; the Ctrl+C task ends     *)
(* with its request or on the cancellation.  Only the join of a worker can *)
(* tell when it ended, so one that ends early ends when its join begins.   *)

MayEnd(w) ==
    CASE w = "coalescer" -> sent > 0 \/ w \in overdue
      [] w = "signal" -> w \in overdue \/ (cancelled /\ Returned("ctrl_c"))
      [] w = "accountant" -> cancelled /\ flushed
      [] OTHER -> cancelled \/ w \in overdue

\* The accountant's last flush is over, perhaps after its thread was left behind.
Flush ==
    /\ ended = "no"
    /\ cancelled
    /\ ~flushed
    /\ flushed' = TRUE
    /\ UNCHANGED <<wizard, failed, now, running, requestVars, waitVars>>

End(w) ==
    /\ ended = "no"
    /\ stage = w
    /\ w \in running
    /\ MayEnd(w)
    /\ running' = running \ {w}
    /\ UNCHANGED <<wizard, failed, now, flushed, requestVars, waitVars>>

-----------------------------------------------------------------------------
(* The main thread.                                                        *)

Enter(s) == stage' = s /\ since' = now

Elapsed == now - since

\* eframe returns: the watchdog is started and the main thread asks as well.
EframeReturns ==
    /\ stage = "gui"
    /\ ended = "no"
    /\ failed \/ Returned("gui")
    /\ Enter("requesting")
    /\ UNCHANGED <<wizard, failed, now, running, flushed, requestVars, overdue,
                   completed, ended>>

\* run_shutdown_with_signal goes on to its phases.
StartPhases ==
    /\ stage = "requesting"
    /\ ended = "no"
    /\ Returned("main")
    /\ Enter("flush")
    /\ UNCHANGED <<wizard, failed, now, running, flushed, requestVars, overdue,
                   completed, ended>>

\* force_flush polls the flag until its own deadline, under the phase's.
FlushIsCutShort == flushed \/ Elapsed >= Ms(45)

FlushIsOver == flushed \/ Elapsed >= AccountantThreadDeadline

ForceFlush ==
    /\ stage = "flush"
    /\ ended = "no"
    /\ FlushIsOver \/ Elapsed >= PHASE_FLUSH_BUDGET
    /\ Enter("ohm")
    /\ UNCHANGED <<wizard, failed, now, running, flushed, requestVars, overdue,
                   completed, ended>>

\* teardown_ohm has no supervisor: it was moved to its thread.
TeardownOhm ==
    /\ stage = "ohm"
    /\ ended = "no"
    /\ Enter("poller")
    /\ UNCHANGED <<wizard, failed, now, running, flushed, requestVars, overdue,
                   completed, ended>>

After == [poller |-> "accountant", accountant |-> "supervisor", supervisor |-> "coalescer",
          coalescer |-> "signal", signal |-> "disarm"]

\* join_poller_with_timeout and join_thread_with_timeout: the worker has ended, ...
Joined(w) ==
    /\ stage = w
    /\ ended = "no"
    /\ w \notin running
    /\ Enter(After[w])
    /\ UNCHANGED <<wizard, failed, now, running, flushed, requestVars, overdue,
                   completed, ended>>

\* ... or its budget is over: a thread is left to run, and not followed here, ...
Leak(w) ==
    /\ stage = w
    /\ ended = "no"
    /\ ~IsTask(w)
    /\ w \in running
    /\ Elapsed >= JoinBudget[w]
    /\ overdue' = overdue \cup {w}
    /\ running' = running \ {w}
    /\ Enter(After[w])
    /\ UNCHANGED <<wizard, failed, now, flushed, requestVars, completed, ended>>

\* ... or a task is aborted, and awaited again.
Abort(w) ==
    /\ stage = w
    /\ ended = "no"
    /\ IsTask(w)
    /\ w \in running \ overdue
    /\ Elapsed >= JoinBudget[w]
    /\ overdue' = overdue \cup {w}
    /\ UNCHANGED <<wizard, failed, now, running, flushed, requestVars, stage, since,
                   completed, ended>>

\* The watchdog is disarmed, and main exits, or returns the error of eframe.
Finish ==
    /\ stage = "disarm"
    /\ ended = "no"
    /\ completed' = TRUE
    /\ IF failed THEN Enter("returned") /\ UNCHANGED ended
       ELSE ended' = "exit" /\ UNCHANGED <<stage, since>>
    /\ UNCHANGED <<wizard, failed, now, running, flushed, requestVars, overdue>>

\* Returning drops the runtime, which waits for its blocking calls to return.
DropRuntime ==
    /\ stage = "returned"
    /\ ended = "no"
    /\ ended' = "dropped"
    /\ UNCHANGED <<wizard, failed, now, running, flushed, requestVars, stage, since,
                   overdue, completed>>

-----------------------------------------------------------------------------
(* Time and the watchdog.                                                  *)

ForcesOnlyWhenDone(shutdown_completed) == shutdown_completed

watchdog_should_force_exit(shutdown_completed) == ~shutdown_completed

WatchdogOfThePhases ==
    /\ stage \in {"requesting", "flush", "ohm"}
    /\ now >= TOTAL_SHUTDOWN_BUDGET
    /\ watchdog_should_force_exit(completed)

WatchdogIsDue ==
    /\ stage # "gui"
    /\ now >= TOTAL_SHUTDOWN_BUDGET
    /\ watchdog_should_force_exit(completed)

ForceExit ==
    /\ ended = "no"
    /\ WatchdogIsDue
    /\ ended' = "forced"
    /\ UNCHANGED <<wizard, failed, now, running, flushed, requestVars, stage, since,
                   overdue, completed>>

\* What the main thread waits for with a deadline.
TimeIsUp ==
    \/ stage \in {"requesting", "ohm", "disarm"}
    \/ stage = "flush" /\ (FlushIsOver \/ Elapsed >= PHASE_FLUSH_BUDGET)
    \/ \E w \in Worker :
          /\ stage = w
          /\ w \notin running \/ (Elapsed >= JoinBudget[w] /\ w \notin overdue)

\* Time passes when no step of the main thread and no exit is overdue.
TimeMayPass ==
    /\ stage # "gui"
    /\ ended = "no"
    /\ now < MaxNow
    /\ ~TimeIsUp
    /\ ~WatchdogIsDue

Tick ==
    /\ TimeMayPass
    /\ now' = now + 1
    /\ UNCHANGED <<wizard, failed, running, flushed, requestVars, waitVars>>

-----------------------------------------------------------------------------

MainStep ==
    \/ EframeReturns \/ StartPhases \/ ForceFlush \/ TeardownOhm \/ Finish
    \/ \E w \in Worker : Joined(w) \/ Leak(w) \/ Abort(w)

WorkerStep == Flush \/ \E w \in Worker : End(w)

ShutdownNext ==
    \/ MainStep
    \/ DropRuntime
    \/ \E r \in Requester : Request(r)
    \/ Cancel
    \/ Send
    \/ WorkerStep
    \/ ForceExit
    \/ Tick

ShutdownSpec == ShutdownInit /\ [][ShutdownNext]_shutdownVars

\* The main thread runs, requests once begun go on, time passes and the
\* watchdog's thread runs; a worker need not end, nor a blocking call return.
ShutdownFairness ==
    /\ WF_shutdownVars(MainStep)
    /\ WF_shutdownVars(Cancel \/ Send)
    /\ WF_shutdownVars(Request("main"))
    /\ WF_shutdownVars(ForceExit)
    /\ WF_shutdownVars(Tick)

FairShutdownSpec == ShutdownSpec /\ ShutdownFairness

-----------------------------------------------------------------------------
(* Properties.                                                             *)

\* Every variable has its type.
ShutdownTypeOK ==
    /\ wizard \in BOOLEAN
    /\ failed \in BOOLEAN
    /\ now \in 0..MaxNow
    /\ stage \in Stage
    /\ since \in 0..now
    /\ running \subseteq Worker
    /\ flushed \in BOOLEAN
    /\ emitted \in BOOLEAN
    /\ winner \in Requester \cup {"none"}
    /\ owed \in {"none", "cancel", "send"}
    /\ cancelled \in BOOLEAN
    /\ sent \in 0..1
    /\ overdue \subseteq Worker
    /\ completed \in BOOLEAN
    /\ ended \in {"no", "exit", "forced", "dropped"}

\* No request and no join, however late the workers, keeps the process past
\* three seconds, unless main returns an error (T-19, main.rs): the shutdown
\* implements the exit in time that module TimedExit promises.
Exit ==
    INSTANCE TimedExit WITH
        Budget <- TOTAL_SHUTDOWN_BUDGET,
        clock <- IF stage = "returned" THEN since ELSE now,
        gone <- ended # "no" \/ stage = "returned"

ExitsInTime == Exit!TimedSpec

\* The accountant's last flush is cut off only when it takes more than the
\* 450 ms of the flush phase and the 250 ms of its join.
FlushHasItsTime ==
    ended # "no" /\ ~flushed => now >= Ms(450) + Ms(250)

\* A request that has been made is carried through: the workers are cancelled
\* and the event is sent, although the request that finds it made returns at once.
RequestIsCarriedOut == emitted ~> (cancelled /\ sent = 1) \/ ended # "no"

\* The main thread reaches its exit, or the watchdog does it.
ProcessEnds == stage = "requesting" /\ ~failed ~> ended # "no"

\* What "The main thread joins this handle during the T-39 teardown phase"
\* (main.rs) is for: a process that exits by itself has shut its child down.
ChildIsTornDown == ended = "exit" => "supervisor" \notin overdue

\* "if the runtime drop itself hangs, the binary calls std::process::exit(0)"
\* (shutdown.rs): the process ends within the three seconds, error or not.
RuntimeDropIsBounded == ended = "no" => now <= TOTAL_SHUTDOWN_BUDGET
=============================================================================
