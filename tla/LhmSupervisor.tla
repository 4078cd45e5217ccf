--------------------------- MODULE LhmSupervisor ---------------------------
(***************************************************************************)
(* The supervisor thread and the elevated LibreHardwareMonitor (LHM) that  *)
(* it launches, monitors and tears down.                                   *)
(*                                                                         *)
(*   crates/sidebar-app/src/main.rs                      the thread        *)
(*   crates/sidebar-platform/src/ohm_supervisor.rs       OhmSupervisor     *)
(*                                                                         *)
(* The thread polls: at most one launch request, then the child's          *)
(* liveness, then the cancellation token.  A launch is a sequence of HTTP  *)
(* probes and Win32 calls; between any two of them the child may start to  *)
(* listen or exit, other programs may come and go on the ports, and the    *)
(* process may end.  The GUI reads the flags and the message at any time   *)
(* (module FullMode).  The child's process handle and the job's are taken  *)
(* and closed together with sidebar_launched, which stands for both.       *)
(* A definition headed "Mutant" is a plausible bug.                        *)
(***************************************************************************)
EXTENDS Naturals, Sequences

CONSTANTS
    LastPort,       \* the fallback chain of T-45 is 1..LastPort
    ConfigPort,     \* Config's [ohm] http_port, in the chain or not
    Faults,         \* what may fail
    Programs,       \* other programs that may take a port: "foreign", "user"
    MaxRequests     \* BOUND: clicks that wait for the supervisor

ASSUME PortAssumption == LastPort \in Nat \ {0} /\ ConfigPort \in Nat \ {0}
ASSUME SupervisorAssumption ==
    /\ Faults \subseteq {"get", "exe", "patch", "uac", "job", "probe"}
    /\ Programs \subseteq {"foreign", "user"}
    /\ MaxRequests \in Nat \ {0}

PortRange == 1..LastPort
Port == PortRange \cup {ConfigPort}
NoPort == 0

VARIABLES
    \* the machine
    listener,       \* per port: nobody, a foreign service, the user's LHM, the child
    child,          \* the elevated process sidebar launched last
    in_job,         \* is it in the job whose only handle this process holds?
    up,             \* does the sidebar process run?
    \* OhmSupervisor
    sidebar_launched, resolved_port,
    \* the thread
    pc, candidate,  \* the step it is at; the port pick_free_port tries next
    result,         \* what launch_elevated returned: an error, or "none"
    \* shared with the GUI
    requests,       \* the launch channel: clicks not yet received
    child_launched_flag, child_alive_flag, launch_msg,
    cancel          \* the cancellation token

supervised == <<listener, child, in_job, up, sidebar_launched, resolved_port, pc,
                candidate, result, requests, child_launched_flag,
                child_alive_flag, launch_msg, cancel>>

\* The texts of launch_msg, by the branch that chooses them.
Message == {"declined", "no_response", "missing", "failed"}

SupervisorTypeOK ==
    /\ listener \in [Port -> {"nobody", "foreign", "user", "child"}]
    /\ child \in {"none", "running", "gone"}
    /\ in_job \in BOOLEAN
    /\ up \in BOOLEAN
    /\ sidebar_launched \in BOOLEAN
    /\ resolved_port \in PortRange \cup {NoPort}
    /\ pc \in {"poll", "pick", "runas", "assign", "wait", "launched", "alive",
               "failed", "liveness", "cancelled?", "done"}
    /\ candidate \in PortRange
    /\ result \in Message \cup {"none"}
    /\ requests \in 0..MaxRequests
    /\ child_launched_flag \in BOOLEAN
    /\ child_alive_flag \in BOOLEAN
    /\ launch_msg \in Message \cup {"none"}
    /\ cancel \in BOOLEAN

InitSupervisor ==
    /\ listener \in [Port -> {"nobody"} \cup Programs]
    /\ child = "none"
    /\ in_job = FALSE
    /\ up = TRUE
    /\ sidebar_launched = FALSE
    /\ resolved_port = NoPort
    /\ pc = "poll"
    /\ candidate = 1
    /\ result = "none"
    /\ requests = 0
    /\ child_launched_flag = FALSE
    /\ child_alive_flag = FALSE
    /\ launch_msg = "none"
    /\ cancel = FALSE

-----------------------------------------------------------------------------
(* HTTP GET /data.json, within the 500 ms of T-10.  Whatever listens may be *)
(* too slow to answer, and a firewall may drop the request to a free port.  *)

LhmSignature(p) == listener[p] \in {"user", "child"}

Get(p) ==
    { IF LhmSignature(p) THEN "lhm"
      ELSE IF listener[p] = "nobody" THEN "refused" ELSE "foreign" }
    \cup (IF "get" \in Faults THEN {"timeout"} ELSE {})

-----------------------------------------------------------------------------
(* The machine *)

\* The child's sensors are up: it listens on the port it was launched for,
\* unless that has been taken since.
ChildListens ==
    /\ child = "running"
    /\ resolved_port # NoPort
    /\ listener[resolved_port] = "nobody"
    /\ listener' = [listener EXCEPT ![resolved_port] = "child"]
    /\ UNCHANGED <<child, in_job, up, sidebar_launched, resolved_port, pc, candidate,
                   result, requests, child_launched_flag, child_alive_flag,
                   launch_msg, cancel>>

WithoutChild ==
    [p \in Port |-> IF listener[p] = "child" THEN "nobody" ELSE listener[p]]

\* It crashes, or the user closes it.
ChildExits ==
    /\ child = "running"
    /\ child' = "gone"
    /\ in_job' = FALSE
    /\ listener' = WithoutChild
    /\ UNCHANGED <<up, sidebar_launched, resolved_port, pc, candidate, result, requests,
                   child_launched_flag, child_alive_flag, launch_msg, cancel>>

OtherProgram(p) ==
    /\ listener[p] # "child"
    /\ \E l \in ({"nobody"} \cup Programs) \ {listener[p]} :
         listener' = [listener EXCEPT ![p] = l]
    /\ UNCHANGED <<child, in_job, up, sidebar_launched, resolved_port, pc, candidate,
                   result, requests, child_launched_flag, child_alive_flag,
                   launch_msg, cancel>>

\* The process ends: process::exit after its bounded joins, the watchdog, a
\* crash or a kill.  The kernel closes its handles, and with the job's last
\* handle whatever is in the job.
ProcessEnds ==
    /\ up
    /\ up' = FALSE
    /\ in_job' = FALSE
    /\ child' = IF in_job THEN "gone" ELSE child
    /\ listener' = IF in_job THEN WithoutChild ELSE listener
    /\ UNCHANGED <<sidebar_launched, resolved_port, pc, candidate, result, requests,
                   child_launched_flag, child_alive_flag, launch_msg, cancel>>

-----------------------------------------------------------------------------
(* The callers in the GUI and the signal handler *)

RequestLaunch ==
    /\ up
    /\ requests < MaxRequests
    /\ requests' = requests + 1
    /\ UNCHANGED <<listener, child, in_job, up, sidebar_launched, resolved_port, pc,
                   candidate, result, child_launched_flag, child_alive_flag,
                   launch_msg, cancel>>

Cancel ==
    /\ up
    /\ ~cancel
    /\ cancel' = TRUE
    /\ UNCHANGED <<listener, child, in_job, up, sidebar_launched, resolved_port, pc,
                   candidate, result, requests, child_launched_flag,
                   child_alive_flag, launch_msg>>

-----------------------------------------------------------------------------
(* The thread.  machine and flags: what most of its steps leave alone.      *)

machine == <<listener, child, in_job, up>>
flags == <<child_launched_flag, child_alive_flag, launch_msg>>

\* Mutant: the request is taken although the child is there.
TakesAnyRequest ==
    /\ up
    /\ pc = "poll"
    /\ IF requests = 0
       THEN pc' = "liveness" /\ UNCHANGED <<requests, candidate>>
       ELSE /\ requests' = requests - 1
            /\ pc' = "pick"
            /\ candidate' = 1
    /\ UNCHANGED <<machine, sidebar_launched, resolved_port, result, flags, cancel>>

\* A request is taken, and dropped if sidebar has launched a child before.
PollRequests ==
    /\ up
    /\ pc = "poll"
    /\ IF requests = 0
       THEN pc' = "liveness" /\ UNCHANGED <<requests, candidate>>
       ELSE /\ requests' = requests - 1
            /\ IF sidebar_launched
               THEN pc' = "liveness" /\ UNCHANGED candidate
               ELSE pc' = "pick" /\ candidate' = 1
    /\ UNCHANGED <<machine, sidebar_launched, resolved_port, result, flags, cancel>>

Fails(msg) == pc' = "failed" /\ result' = msg

\* One GET of pick_free_port.  An LHM that answers is used as it is and not
\* owned; a free port is launched on, if there is something to launch; a port
\* that is taken, or too slow to tell, is passed over.
PickPort ==
    /\ up
    /\ pc = "pick"
    /\ \E answer \in Get(candidate) :
         \/ /\ answer = "lhm"
            /\ resolved_port' = candidate
            /\ pc' = "launched"
            /\ result' = "none"
            /\ UNCHANGED candidate
         \/ /\ answer = "refused"
            /\ \/ /\ "exe" \in Faults
                  /\ Fails("missing")
                  /\ UNCHANGED resolved_port
               \/ /\ "patch" \in Faults
                  /\ resolved_port' = candidate
                  /\ Fails("failed")
               \/ /\ resolved_port' = candidate
                  /\ pc' = "runas"
                  /\ UNCHANGED result
            /\ UNCHANGED candidate
         \/ /\ answer \in {"foreign", "timeout"}
            /\ candidate < LastPort
            /\ candidate' = candidate + 1
            /\ UNCHANGED <<pc, result, resolved_port>>
         \/ /\ answer \in {"foreign", "timeout"}
            /\ candidate = LastPort
            /\ Fails("failed")
            /\ UNCHANGED <<candidate, resolved_port>>
    /\ UNCHANGED <<machine, sidebar_launched, requests, flags, cancel>>

\* ShellExecuteExW("runas") returns when the user has answered the prompt.
PromptAccepted ==
    /\ up
    /\ pc = "runas"
    /\ child' = "running"
    /\ pc' = "assign"
    /\ UNCHANGED <<listener, in_job, up, sidebar_launched, resolved_port, candidate,
                   result, requests, flags, cancel>>

PromptDeclined ==
    /\ up
    /\ pc = "runas"
    /\ "uac" \in Faults
    /\ Fails("declined")
    /\ UNCHANGED <<machine, sidebar_launched, resolved_port, candidate, requests,
                   flags, cancel>>

\* AssignProcessToJobObject fails for a process that is gone, if not before.
JobAssigned ==
    /\ up
    /\ pc = "assign"
    /\ child = "running"
    /\ in_job' = TRUE
    /\ sidebar_launched' = TRUE
    /\ pc' = "wait"
    /\ UNCHANGED <<listener, child, up, resolved_port, candidate, result, requests,
                   flags, cancel>>

\* Mutant: the error is returned and the child left running.
JobFailsWithoutCleanup ==
    /\ up
    /\ pc = "assign"
    /\ child = "gone" \/ "job" \in Faults
    /\ Fails("failed")
    /\ UNCHANGED <<machine, sidebar_launched, resolved_port, candidate, requests,
                   flags, cancel>>

\* cleanup_failed_post_launch_setup: the child is terminated and reaped.
JobFails ==
    /\ up
    /\ pc = "assign"
    /\ child = "gone" \/ "job" \in Faults
    /\ child' = "gone"
    /\ listener' = WithoutChild
    /\ Fails("failed")
    /\ UNCHANGED <<in_job, up, sidebar_launched, resolved_port, candidate, requests,
                   flags, cancel>>

\* A probe of wait_for_probe answers ...
ProbeAnswers ==
    /\ up
    /\ pc = "wait"
    /\ LhmSignature(resolved_port)
    /\ pc' = "launched"
    /\ result' = "none"
    /\ UNCHANGED <<machine, sidebar_launched, resolved_port, candidate, requests,
                   flags, cancel>>

\* ... or the 5 s of T-11 are over.  The child, if any, is left running.
LaunchTimesOut ==
    /\ up
    /\ pc = "wait"
    /\ "probe" \in Faults \/ ~LhmSignature(resolved_port)
    /\ Fails("no_response")
    /\ UNCHANGED <<machine, sidebar_launched, resolved_port, candidate, requests,
                   flags, cancel>>

\* Ok: the two flags are stored one after the other.
StoreLaunched ==
    /\ up
    /\ pc = "launched"
    /\ child_launched_flag' = TRUE
    /\ pc' = "alive"
    /\ UNCHANGED <<machine, sidebar_launched, resolved_port, candidate, result, requests,
                   child_alive_flag, launch_msg, cancel>>

StoreAlive ==
    /\ up
    /\ pc = "alive"
    /\ child_alive_flag' = TRUE
    /\ launch_msg' = "none"
    /\ pc' = "liveness"
    /\ UNCHANGED <<machine, sidebar_launched, resolved_port, candidate, result, requests,
                   child_launched_flag, cancel>>

\* Mutant: only a launch that succeeded is made known.
StoresOnlyTheMessage ==
    /\ up
    /\ pc = "failed"
    /\ launch_msg' = result
    /\ pc' = "liveness"
    /\ UNCHANGED <<machine, sidebar_launched, resolved_port, candidate, result, requests,
                   child_launched_flag, child_alive_flag, cancel>>

\* Err: is there a child to monitor nevertheless?
StoreFailure ==
    /\ up
    /\ pc = "failed"
    /\ child_launched_flag' = sidebar_launched
    /\ launch_msg' = result
    /\ pc' = "liveness"
    /\ UNCHANGED <<machine, sidebar_launched, resolved_port, candidate, result, requests,
                   child_alive_flag, cancel>>

CheckLiveness ==
    /\ up
    /\ pc = "liveness"
    /\ child_alive_flag' = IF sidebar_launched THEN child = "running"
                                               ELSE child_alive_flag
    /\ pc' = "cancelled?"
    /\ UNCHANGED <<machine, sidebar_launched, resolved_port, candidate, result, requests,
                   child_launched_flag, launch_msg, cancel>>

\* The thread sleeps, and polls again.
GoesOn ==
    /\ up
    /\ pc = "cancelled?"
    /\ ~cancel
    /\ pc' = "poll"
    /\ UNCHANGED <<machine, sidebar_launched, resolved_port, candidate, result, requests,
                   flags, cancel>>

\* Mutant: the thread leaves its loop without a shutdown.
ShutsDownWithoutTeardown ==
    /\ up
    /\ pc = "cancelled?"
    /\ cancel
    /\ pc' = "done"
    /\ UNCHANGED <<machine, sidebar_launched, resolved_port, candidate, result, requests,
                   flags, cancel>>

\* shutdown: the job is closed, which kills the child if there is one.  An LHM
\* that sidebar did not launch is left alone.
ShutsDown ==
    /\ up
    /\ pc = "cancelled?"
    /\ cancel
    /\ pc' = "done"
    /\ sidebar_launched' = FALSE
    /\ in_job' = FALSE
    /\ child' = IF in_job THEN "gone" ELSE child
    /\ listener' = IF in_job THEN WithoutChild ELSE listener
    /\ UNCHANGED <<up, resolved_port, candidate, result, requests, flags, cancel>>

-----------------------------------------------------------------------------
Prompt == PromptAccepted \/ PromptDeclined
Assign == JobAssigned \/ JobFails
Wait == ProbeAnswers \/ LaunchTimesOut

\* Every step of the thread but the two in which it waits for the user, or
\* tells the others that it is done.
Polls ==
    \/ PollRequests
    \/ PickPort
    \/ Assign
    \/ Wait
    \/ StoreLaunched
    \/ StoreAlive
    \/ StoreFailure
    \/ CheckLiveness
    \/ GoesOn

Environment ==
    \/ ChildListens
    \/ ChildExits
    \/ \E p \in Port : OtherProgram(p)
    \/ ProcessEnds

SupervisorNext == Polls \/ Prompt \/ ShutsDown \/ Environment
                  \/ RequestLaunch \/ Cancel

SupervisorSpec == InitSupervisor /\ [][SupervisorNext]_supervised

\* The thread is never starved.  Nothing makes the user answer the prompt.
SupervisorFairness ==
    /\ WF_supervised(Polls)
    /\ WF_supervised(ShutsDown)

FairSupervisorSpec == SupervisorSpec /\ SupervisorFairness

-----------------------------------------------------------------------------
(* Properties *)

\* G10: while the process lives, a child is in the job, which dies with the
\* process, except in the middle of its launch.  No error on the way and no
\* order of exits leaves one that is nobody's.
ChildIsOwned == up /\ child = "running" => in_job \/ pc = "assign"

\* H5: a launch never begins while there is a child whose handles it would
\* overwrite, however many clicks are waiting.
OneChild == up /\ pc \in {"pick", "runas"} => child # "running" /\ ~in_job

\* Between two polls the GUI is told to watch every child sidebar has launched,
\* also one whose launch was reported as an error.
ChildIsWatched == up /\ pc = "poll" /\ sidebar_launched => child_launched_flag

\* A shutdown requested at any moment of a launch ends the child for good, be
\* it one the prompt is still asking for.
ChildIsTornDown == cancel ~> ([](child # "running") \/ ~up)

-----------------------------------------------------------------------------
(* What the documentation and the comments say, which the code does not do. *)

\* guardrails.md, G10: "the kernel reaps the OHM child - no orphans".
NoOrphan == ~up => child # "running"

\* ohm_supervisor.rs: "mark sidebar_launched so shutdown can clean it up", and
\* the banner asks to click again: a request is acted on once the child is gone.
RestartsOnRequest ==
    [][pc = "poll" /\ requests > 0 /\ requests' < requests /\ child # "running"
       => pc' = "pick"]_supervised
=============================================================================
