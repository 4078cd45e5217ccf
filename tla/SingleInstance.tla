--------------------------- MODULE SingleInstance ---------------------------
(***************************************************************************)
(* The guard against a second instance: claim_or_exit in                   *)
(* crates/sidebar-platform/src/single_instance.rs.                         *)
(*                                                                         *)
(* The named mutex exists as long as some process has a handle of it.      *)
(* CreateMutexW returns a handle also when the mutex existed; nothing      *)
(* closes it before the process ends, so a process that waits keeps the    *)
(* handle of its first attempt.                                            *)
(***************************************************************************)
EXTENDS Naturals, FiniteSets

CONSTANTS
    Process,
    Waiting,            \* the processes started with --wait-for-instance
    MAX_POLLS           \* MAX_WAIT in units of POLL_INTERVAL

ASSUME ProcessAssumption == Waiting \subseteq Process /\ MAX_POLLS \in Nat

VARIABLES
    pc,                 \* "off", "claiming", "claimed", "unguarded", "exited"
    holders,            \* processes with a handle of the mutex
    polls               \* how often a process has slept before a retry

instanceVars == <<pc, holders, polls>>

InstanceInit ==
    /\ pc = [p \in Process |-> "off"]
    /\ holders = {}
    /\ polls = [p \in Process |-> 0]

Launch(p) ==
    /\ pc[p] = "off"
    /\ pc' = [pc EXCEPT ![p] = "claiming"]
    /\ polls' = [polls EXCEPT ![p] = 0]
    /\ UNCHANGED holders

-----------------------------------------------------------------------------

\* ERROR_ALREADY_EXISTS, as CreateMutexW finds it.
AlreadyExists == holders # {}

ClaimUnchecked(p) ==
    /\ pc[p] = "claiming"
    /\ holders' = holders \cup {p}
    /\ pc' = [pc EXCEPT ![p] = "claimed"]
    /\ UNCHANGED polls

\* The handle leaks: it is p's until p ends.
Claim(p) ==
    /\ pc[p] = "claiming"
    /\ ~AlreadyExists
    /\ holders' = holders \cup {p}
    /\ pc' = [pc EXCEPT ![p] = "claimed"]
    /\ UNCHANGED polls

\* The handle of a failed attempt is dropped, which does not close it.
Retry(p) ==
    /\ pc[p] = "claiming"
    /\ AlreadyExists
    /\ p \in Waiting
    /\ polls[p] < MAX_POLLS
    /\ holders' = holders \cup {p}
    /\ polls' = [polls EXCEPT ![p] = polls[p] + 1]
    /\ UNCHANGED pc

GiveUp(p) ==
    /\ pc[p] = "claiming"
    /\ AlreadyExists
    /\ p \notin Waiting \/ polls[p] >= MAX_POLLS
    /\ holders' = holders \ {p}
    /\ pc' = [pc EXCEPT ![p] = "exited"]
    /\ UNCHANGED polls

\* CreateMutexW itself fails: the process goes on without the guard.
ClaimFails(p) ==
    /\ pc[p] = "claiming"
    /\ pc' = [pc EXCEPT ![p] = "unguarded"]
    /\ UNCHANGED <<holders, polls>>

\* However the process ends, the system closes its handles.
Exit(p) ==
    /\ pc[p] \in {"claiming", "claimed", "unguarded"}
    /\ holders' = holders \ {p}
    /\ pc' = [pc EXCEPT ![p] = "exited"]
    /\ UNCHANGED polls

\* The user starts the program again.
Relaunch(p) ==
    /\ pc[p] = "exited"
    /\ pc' = [pc EXCEPT ![p] = "off"]
    /\ UNCHANGED <<holders, polls>>

ClaimStep(p) == Claim(p) \/ Retry(p) \/ GiveUp(p) \/ ClaimFails(p)

InstanceNext == \E p \in Process : Launch(p) \/ ClaimStep(p) \/ Exit(p) \/ Relaunch(p)

InstanceSpec == InstanceInit /\ [][InstanceNext]_instanceVars

-----------------------------------------------------------------------------
(* Properties.                                                             *)

Running(p) == pc[p] \in {"claimed", "unguarded"}

InstanceTypeOK ==
    /\ pc \in [Process -> {"off", "claiming", "claimed", "unguarded", "exited"}]
    /\ holders \subseteq Process
    /\ polls \in [Process -> 0..MAX_POLLS]

\* Two processes run at once only if CreateMutexW failed for one of them,
\* however many wait, exit and are started again (single_instance.rs).
OneInstance == \A p, q \in Process : pc[p] = "claimed" /\ pc[q] = "claimed" => p = q

\* The mutex does not outlive the processes that have asked for it: the next
\* launch after the last of them has ended gets it.
NoStaleMutex == \A p \in holders : pc[p] \notin {"off", "exited"}
=============================================================================
