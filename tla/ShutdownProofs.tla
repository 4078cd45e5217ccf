--------------------------- MODULE ShutdownProofs ---------------------------
(***************************************************************************)
(* The shutdown, for every time it is followed for: the request is sent    *)
(* once, the accountant's flush is given its time, and the process ends    *)
(* within the watchdog's three seconds, that is, Shutdown implements       *)
(* TimedExit.  The inductive invariant Orderly ties the stage of the main  *)
(* thread to the clock, to the accountant and to the watchdog's flag.      *)
(***************************************************************************)
EXTENDS Shutdown, TLAPS

\* A request is set, cancels and sends in this order, and only once.
RequestedOnce ==
    /\ ~emitted => owed = "none" /\ sent = 0
    /\ owed # "none" => sent = 0

\* Before eframe returns the clock stands, and the watchdog is disarmed only
\* by the last stage.
OnTheClock ==
    /\ stage = "gui" => now = 0
    /\ completed => ended # "no" \/ stage = "returned"

AfterTheFlush == Stage \ {"gui", "requesting", "flush"}
AfterTheAccountant == AfterTheFlush \ {"ohm", "poller", "accountant"}

\* How long the accountant has had when its flush is not over.
FlushIsGivenTime ==
    ~flushed =>
        /\ stage \in AfterTheFlush => since >= 9
        /\ stage \in AfterTheAccountant => since >= 14
        /\ stage \notin AfterTheAccountant => "accountant" \in running
        /\ ended # "no" => now >= 14

Orderly == ShutdownTypeOK /\ RequestedOnce /\ OnTheClock /\ FlushIsGivenTime

-----------------------------------------------------------------------------

LEMMA Budgets ==
    /\ AccountantThreadDeadline = 9 /\ PHASE_FLUSH_BUDGET = 10
    /\ JoinBudget["accountant"] = 5 /\ TOTAL_SHUTDOWN_BUDGET = 60
    /\ Ms(450) + Ms(250) = 14
<1>1. /\ 450 \div 50 = 9 /\ 500 \div 50 = 10
      /\ 250 \div 50 = 5 /\ 3000 \div 50 = 60
  OBVIOUS
<1>2. JoinBudget["accountant"] = Ms(250)
  BY DEF JoinBudget
<1>. QED
  BY <1>1, <1>2 DEF AccountantThreadDeadline, PHASE_FLUSH_BUDGET, TOTAL_SHUTDOWN_BUDGET, Ms

LEMMA InitOrderly == ShutdownInit => Orderly
<1> SUFFICES ASSUME ShutdownInit PROVE Orderly
  OBVIOUS
<1>1. PICK disabled \in BOOLEAN : running = InitialWorkers(wizard, disabled)
                                  /\ flushed = (wizard \/ disabled)
  BY DEF ShutdownInit
<1>2. running \subseteq Worker
  BY <1>1 DEF InitialWorkers, Worker
<1>3. flushed \in BOOLEAN
  BY <1>1
<1>4. ~flushed => "accountant" \in running
  BY <1>1 DEF InitialWorkers, Worker
<1>5. ShutdownTypeOK
  <2>1. /\ wizard \in BOOLEAN /\ failed \in BOOLEAN /\ now = 0 /\ stage = "gui" /\ since = 0
        /\ emitted = FALSE /\ winner = "none" /\ owed = "none" /\ cancelled = FALSE
        /\ sent = 0 /\ overdue = {} /\ completed = FALSE /\ ended = "no"
    BY DEF ShutdownInit
  <2>2. /\ now \in 0..MaxNow /\ since \in 0..now /\ sent \in 0..1
    BY <2>1, MaxNowAssumption
  <2>3. /\ emitted \in BOOLEAN /\ cancelled \in BOOLEAN /\ completed \in BOOLEAN
        /\ overdue \subseteq Worker
    BY <2>1
  <2>4. /\ stage \in Stage /\ winner \in Requester \cup {"none"}
        /\ owed \in {"none", "cancel", "send"}
        /\ ended \in {"no", "exit", "forced", "dropped"}
    BY <2>1 DEF Stage
  <2>. QED
    BY <1>2, <1>3, <2>1, <2>2, <2>3, <2>4, Zenon DEF ShutdownTypeOK
<1>6. RequestedOnce /\ OnTheClock
  BY DEF ShutdownInit, RequestedOnce, OnTheClock
<1>7. stage = "gui" /\ ended = "no"
  BY DEF ShutdownInit
<1>8. FlushIsGivenTime
  BY <1>4, <1>7 DEF FlushIsGivenTime, AfterTheFlush, AfterTheAccountant
<1>. QED
  BY <1>5, <1>6, <1>8 DEF Orderly

\* The requests and what they set going.
LEMMA RequestStep ==
    ASSUME Orderly, (\E r \in Requester : Request(r)) \/ Cancel \/ Send
    PROVE  Orderly'
<1> USE DEF Orderly, ShutdownTypeOK, RequestedOnce, OnTheClock, FlushIsGivenTime, waitVars,
            AfterTheFlush, AfterTheAccountant
<1>1. ASSUME NEW r \in Requester, Request(r) PROVE Orderly'
  BY <1>1 DEF Request
<1>2. CASE Cancel BY <1>2 DEF Cancel
<1>3. CASE Send BY <1>3 DEF Send
<1>. QED BY <1>1, <1>2, <1>3

\* The workers, the watchdog and the clock.
LEMMA OutsideStep ==
    ASSUME Orderly, WorkerStep \/ ForceExit \/ Tick
    PROVE  Orderly'
<1> USE DEF Orderly, ShutdownTypeOK, RequestedOnce, OnTheClock, FlushIsGivenTime, waitVars,
            requestVars, AfterTheFlush, AfterTheAccountant
<1>1. CASE Flush BY <1>1 DEF Flush
<1>2. ASSUME NEW w \in Worker, End(w) PROVE Orderly'
  <2>1. w = "accountant" => flushed
    BY <1>2 DEF End, MayEnd, Worker
  <2>. QED BY <1>2, <2>1 DEF End, Worker
<1>3. CASE ForceExit
  BY <1>3, Budgets DEF ForceExit, WatchdogIsDue
<1>4. CASE Tick
  BY <1>4, MaxNowAssumption DEF Tick, TimeMayPass
<1>. QED BY <1>1, <1>2, <1>3, <1>4 DEF WorkerStep

LEMMA AfterAreStages ==
    ASSUME NEW w \in Worker
    PROVE  /\ After[w] \in Stage \ {"gui", "returned"}
           /\ w # "poller" => After[w] \in AfterTheAccountant
           /\ w = "poller" => After[w] = "accountant"
  BY DEF Worker, After, Stage, AfterTheFlush, AfterTheAccountant

\* The joins: the main thread leaves the accountant when it has ended, and then
\* it has flushed, or after its budget.
LEMMA JoinStep ==
    ASSUME Orderly, NEW w \in Worker, Joined(w) \/ Leak(w) \/ Abort(w)
    PROVE  Orderly'
<1> USE DEF Orderly, ShutdownTypeOK, RequestedOnce, OnTheClock, FlushIsGivenTime, waitVars,
            requestVars
<1> DEFINE s == After[w]
<1>0. /\ w \in AfterTheFlush /\ w # "returned"
      /\ w \notin {"poller", "accountant"} => w \in AfterTheAccountant
      /\ w \in {"poller", "accountant"} => w \notin AfterTheAccountant
  BY DEF Worker, Stage, AfterTheFlush, AfterTheAccountant
<1>1. /\ s \in Stage /\ s # "gui" /\ s # "returned"
      /\ w # "poller" => s \in AfterTheAccountant
      /\ w = "poller" => s \notin AfterTheAccountant
  BY AfterAreStages DEF AfterTheFlush, AfterTheAccountant
<1> HIDE DEF s
<1>2. CASE Joined(w)
  <2>1. /\ stage = w /\ w \notin running /\ stage' = s /\ since' = now /\ ended = "no"
        /\ UNCHANGED <<wizard, failed, now, running, flushed, requestVars, overdue,
                       completed, ended>>
    BY <1>2 DEF Joined, Enter, s
  <2>2. w = "accountant" => flushed
    BY <2>1, <1>0
  <2>3. ShutdownTypeOK' /\ RequestedOnce' /\ OnTheClock'
    BY <2>1, <1>0, <1>1
  <2>4. FlushIsGivenTime'
    BY <2>1, <2>2, <1>0, <1>1
  <2>. QED BY <2>3, <2>4
<1>3. CASE Leak(w)
  <2>1. /\ stage = w /\ stage' = s /\ since' = now /\ ended = "no"
        /\ overdue' = overdue \cup {w} /\ running' = running \ {w}
        /\ now - since >= JoinBudget[w]
        /\ UNCHANGED <<wizard, failed, now, flushed, requestVars, completed, ended>>
    BY <1>3 DEF Leak, Enter, Elapsed, s
  <2>2. w # "poller"
    BY <1>3 DEF Leak, IsTask
  <2>3. w = "accountant" /\ ~flushed => now >= 14
    BY <2>1, <1>0, Budgets
  <2>4. ShutdownTypeOK' /\ RequestedOnce' /\ OnTheClock'
    BY <2>1, <1>0, <1>1
  <2>5. FlushIsGivenTime'
    <3>1. ~flushed => now >= 14 /\ since' >= 14
      BY <2>1, <2>2, <2>3, <1>0
    <3>. QED BY <2>1, <2>2, <3>1, <1>1
  <2>. QED BY <2>4, <2>5
<1>4. CASE Abort(w)
  BY <1>4 DEF Abort
<1>. QED BY <1>2, <1>3, <1>4

LEMMA MainThreadStep ==
    ASSUME Orderly,
           EframeReturns \/ StartPhases \/ ForceFlush \/ TeardownOhm \/ Finish \/ DropRuntime
    PROVE  Orderly'
<1> USE DEF Orderly, ShutdownTypeOK, RequestedOnce, OnTheClock, FlushIsGivenTime,
            requestVars, AfterTheFlush, AfterTheAccountant, Stage, Enter
<1>1. CASE EframeReturns BY <1>1 DEF EframeReturns
<1>2. CASE StartPhases BY <1>2 DEF StartPhases
<1>3. CASE ForceFlush
  <2>1. ~flushed => now >= 9
    BY <1>3, Budgets DEF ForceFlush, FlushIsOver, Elapsed
  <2>. QED BY <1>3, <2>1 DEF ForceFlush
<1>4. CASE TeardownOhm BY <1>4 DEF TeardownOhm
<1>5. CASE Finish BY <1>5 DEF Finish
<1>6. CASE DropRuntime BY <1>6 DEF DropRuntime
<1>. QED BY <1>1, <1>2, <1>3, <1>4, <1>5, <1>6

LEMMA OrderlyStep == Orderly /\ [ShutdownNext]_shutdownVars => Orderly'
<1>1. ASSUME Orderly, UNCHANGED shutdownVars PROVE Orderly'
  BY <1>1 DEF shutdownVars, requestVars, waitVars, Orderly, ShutdownTypeOK, RequestedOnce,
              OnTheClock, FlushIsGivenTime
<1>. QED
  BY <1>1, RequestStep, OutsideStep, JoinStep, MainThreadStep DEF ShutdownNext, MainStep

LEMMA OrderlyHolds == ShutdownSpec => []Orderly
  BY InitOrderly, OrderlyStep, PTL DEF ShutdownSpec

-----------------------------------------------------------------------------
\* The shutdown only holds well-formed values; in particular one Event::Shutdown
\* is sent, whoever asks for it and however often (ShutdownSignal::request).
THEOREM ShutdownTypeCorrect == ShutdownSpec => []ShutdownTypeOK
<1>1. Orderly => ShutdownTypeOK BY DEF Orderly
<1>. QED BY <1>1, OrderlyHolds, PTL

\* The accountant's last flush is cut off only after the 450 ms of its phase
\* and the 250 ms of its join, whatever the other workers do.
THEOREM FlushGetsItsTime == ShutdownSpec => []FlushHasItsTime
<1>1. Orderly => FlushHasItsTime
  BY Budgets DEF Orderly, FlushIsGivenTime, FlushHasItsTime
<1>. QED BY <1>1, OrderlyHolds, PTL

LEMMA ExitStep == Orderly /\ [ShutdownNext]_shutdownVars => [Exit!TimedNext]_(Exit!timedVars)
<1> SUFFICES ASSUME Orderly, [ShutdownNext]_shutdownVars
             PROVE  [Exit!TimedNext]_(Exit!timedVars)
  OBVIOUS
<1> USE DEF Exit!TimedNext, Exit!timedVars, Exit!Pass, Exit!Go
<1>1. CASE Tick
  <2>1. /\ now' = now + 1 /\ UNCHANGED <<stage, since, ended, completed>>
        /\ stage # "gui" /\ ended = "no" /\ ~WatchdogIsDue
    BY <1>1 DEF Tick, TimeMayPass, waitVars
  <2>2. CASE stage = "returned"
    BY <2>1, <2>2
  <2>3. CASE stage # "returned"
    <3>1. ~completed
      BY <2>1, <2>3 DEF Orderly, OnTheClock
    <3>2. now < TOTAL_SHUTDOWN_BUDGET
      BY <2>1, <3>1, Budgets
         DEF WatchdogIsDue, watchdog_should_force_exit, Orderly, ShutdownTypeOK
    <3>. QED BY <2>1, <2>3, <3>2
  <2>. QED BY <2>2, <2>3
<1>2. CASE Finish
  BY <1>2 DEF Finish, Enter
<1>3. CASE ForceExit \/ DropRuntime
  BY <1>3 DEF ForceExit, DropRuntime
<1>4. CASE EframeReturns \/ StartPhases \/ ForceFlush \/ TeardownOhm
  BY <1>4 DEF EframeReturns, StartPhases, ForceFlush, TeardownOhm, Enter
<1>5. ASSUME NEW w \in Worker, Joined(w) \/ Leak(w) \/ Abort(w)
      PROVE  [Exit!TimedNext]_(Exit!timedVars)
  <2>1. After[w] # "returned" /\ w # "returned"
    BY AfterAreStages DEF Worker
  <2>. QED BY <1>5, <2>1 DEF Joined, Leak, Abort, Enter
<1>6. CASE (\E r \in Requester : Request(r)) \/ Cancel \/ Send
  BY <1>6 DEF Request, Cancel, Send, waitVars
<1>7. CASE WorkerStep
  BY <1>7 DEF WorkerStep, Flush, End, waitVars
<1>8. CASE UNCHANGED shutdownVars
  BY <1>8 DEF shutdownVars, waitVars
<1>. QED
  BY <1>1, <1>2, <1>3, <1>4, <1>5, <1>6, <1>7, <1>8 DEF ShutdownNext, MainStep

\* T-19: the process is gone within three seconds of eframe's return, unless
\* main returns an error; module Launch relies on it.
THEOREM ShutdownImplementsTimedExit == ShutdownSpec => ExitsInTime
<1>1. ShutdownInit => Exit!TimedInit
  BY DEF ShutdownInit, Exit!TimedInit
<1>. QED
  BY <1>1, ExitStep, OrderlyHolds, PTL DEF ShutdownSpec, ExitsInTime, Exit!TimedSpec
=============================================================================
