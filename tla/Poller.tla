------------------------------- MODULE Poller -------------------------------
(***************************************************************************)
(* The poller task, crates/sidebar-app/src/poller.rs: on every tick of its *)
(* interval it calls every provider of the registry on a thread of the     *)
(* blocking pool, waits for the calls in the registry's order, each until  *)
(* a deadline counted from the start of the tick, and broadcasts what they *)
(* returned.  Between ticks it receives events, and a TierChanged rebuilds *)
(* the registry (crates/sidebar-app/src/provider_registry.rs).             *)
(*                                                                         *)
(* Time is discrete, in units of 100 ms, and does not pass while the task  *)
(* can take a step.  What a call returns is left out: a provider is its    *)
(* position in the catalogue.  A call that outlives its deadline is only   *)
(* counted, for the thread it keeps.                                       *)
(***************************************************************************)
EXTENDS Naturals, Sequences, FiniteSets

CONSTANTS
    Catalogue,      \* the descriptors of all adapters, in order of construction
    Pool,           \* threads of the blocking pool
    Requested,      \* the poll intervals a configuration may ask for
    EventCapacity,  \* of the coalesced event channel (T-14)
    MaxEvents       \* bound: events published in one behaviour

Cost == {"Lightweight", "Watch", "Heavy", "Deferred"}
Requirement == {"Basic", "Full", "Both"}
ActiveTier == {"Basic", "Full"}

ASSUME CatalogueAssumption ==
    Catalogue \in Seq([cost : Cost, requires_tier : Requirement])
ASSUME PoolAssumption == Pool \in Nat \ {0}
ASSUME RequestedAssumption == Requested \subseteq Nat
ASSUME EventAssumption == EventCapacity \in Nat \ {0} /\ MaxEvents \in Nat

MIN_POLL_INTERVAL == 10
PROVIDER_TIMEOUT == 1
PROVIDER_TIMEOUT_BASIC == 5

VARIABLES
    interval,       \* between two ticks
    until_tick,     \* before the ticker is ready
    pc,             \* "select", "await" or "stopped"
    tier,           \* that of the registry
    handle,         \* the calls of the tick, by provider
    elapsed,        \* since the start of the tick
    abandoned,      \* threads kept by calls of earlier ticks and deadlines
    events,         \* published and not yet received
    lagged,         \* has an event been dropped?
    published,      \* how many events so far
    cancelled,      \* the shutdown token
    since_cancel,   \* how long ago, while the task runs
    listened,       \* does the broadcast have a receiver?
    calm            \* from now on no call is slow or panics

tickVars == <<pc, handle, elapsed, abandoned>>
eventVars == <<events, lagged, published>>
vars == <<interval, until_tick, tier, tickVars, eventVars,
          cancelled, since_cancel, listened, calm>>

-----------------------------------------------------------------------------
(* The registry.                                                           *)

\* classify_for_v1
Accepted(descriptor, active) ==
    /\ descriptor.cost \in {"Lightweight", "Watch"}
    /\ descriptor.requires_tier = "Full" => active = "Full"

Registry(active) == {i \in DOMAIN Catalogue : Accepted(Catalogue[i], active)}

\* Mutant: the budgets in whole seconds.
TimeoutInSeconds(i) == 0

provider_timeout(i) ==
    IF Catalogue[i].requires_tier = "Full"
    THEN PROVIDER_TIMEOUT ELSE PROVIDER_TIMEOUT_BASIC

\* Mutant: the requested interval is used as it is.
Unclamped(requested) == requested

clamp_interval(requested) ==
    IF requested < MIN_POLL_INTERVAL THEN MIN_POLL_INTERVAL ELSE requested

-----------------------------------------------------------------------------
(* A tick.                                                                 *)

Unanswered == {"queued", "running"}
Answered == {"readings", "panicked"}
Settled == {"taken", "skipped"}

Running == {i \in DOMAIN handle : handle[i] = "running"}

\* The blocking pool starts the calls in the order they were spawned.
CallStarts(i) ==
    /\ handle[i] = "queued"
    /\ \A j \in DOMAIN handle : handle[j] = "queued" => i <= j
    /\ abandoned + Cardinality(Running) < Pool

\* The handles are awaited one after the other.
Awaits(i) ==
    /\ pc = "await"
    /\ handle[i] \notin Settled
    /\ \A j \in DOMAIN handle : j < i => handle[j] \in Settled

\* Mutant: off by one.
DeadlineIsStrict(i) == elapsed > provider_timeout(i)

\* All deadlines are counted from tick_start.
DeadlinePassed(i) == elapsed >= provider_timeout(i)

Init ==
    /\ interval \in {clamp_interval(requested) : requested \in Requested}
    /\ until_tick = 0
    /\ pc = "select"
    /\ tier \in ActiveTier
    /\ handle = <<>>
    /\ elapsed = 0
    /\ abandoned = 0
    /\ events = <<>>
    /\ lagged = FALSE
    /\ published = 0
    /\ cancelled = FALSE
    /\ since_cancel = 0
    /\ listened = TRUE
    /\ calm = FALSE

\* The select is biased: shutdown first, then the ticker, then an event.
SeesCancel ==
    /\ pc = "select"
    /\ cancelled
    /\ pc' = "stopped"
    /\ UNCHANGED <<interval, until_tick, tier, handle, elapsed, abandoned,
                   eventVars, cancelled, since_cancel, listened, calm>>

\* MissedTickBehavior::Delay: the next tick is due an interval after this one
\* fires.
TickStarts ==
    /\ pc = "select"
    /\ ~cancelled
    /\ until_tick = 0
    /\ until_tick' = interval
    /\ pc' = "await"
    /\ handle' = [i \in Registry(tier) |-> "queued"]
    /\ elapsed' = 0
    /\ UNCHANGED <<interval, tier, abandoned, eventVars, cancelled,
                   since_cancel, listened, calm>>

PoolStarts ==
    \E i \in DOMAIN handle :
        /\ CallStarts(i)
        /\ handle' = [handle EXCEPT ![i] = "running"]
        /\ UNCHANGED <<interval, until_tick, pc, tier, elapsed, abandoned,
                       eventVars, cancelled, since_cancel, listened, calm>>

\* read_all returns, or unwinds to the catch_unwind of its closure.
CallEnds ==
    \E i \in Running, answer \in Answered :
        /\ calm => answer = "readings"
        /\ handle' = [handle EXCEPT ![i] = answer]
        /\ UNCHANGED <<interval, until_tick, pc, tier, elapsed, abandoned,
                       eventVars, cancelled, since_cancel, listened, calm>>

AbandonedCallEnds ==
    /\ abandoned > 0
    /\ abandoned' = abandoned - 1
    /\ UNCHANGED <<interval, until_tick, pc, tier, handle, elapsed,
                   eventVars, cancelled, since_cancel, listened, calm>>

\* timeout_at polls the handle before the deadline: an answer that is there
\* counts, however late the await began.
TakesAnswer ==
    \E i \in DOMAIN handle :
        /\ Awaits(i)
        /\ handle[i] \in Answered
        /\ handle' = [handle EXCEPT
               ![i] = IF handle[i] = "readings" THEN "taken" ELSE "skipped"]
        /\ UNCHANGED <<interval, until_tick, pc, tier, elapsed, abandoned,
                       eventVars, cancelled, since_cancel, listened, calm>>

\* handle.abort(): a call that runs keeps its thread, one that has not started
\* never will.
ThreadsKept(i) == IF handle[i] = "running" THEN 1 ELSE 0

TimesOut ==
    \E i \in DOMAIN handle :
        /\ Awaits(i)
        /\ handle[i] \in Unanswered
        /\ DeadlinePassed(i)
        /\ abandoned' = abandoned + ThreadsKept(i)
        /\ handle' = [handle EXCEPT ![i] = "skipped"]
        /\ UNCHANGED <<interval, until_tick, pc, tier, elapsed, eventVars,
                       cancelled, since_cancel, listened, calm>>

TickIsOver == pc = "await" /\ \A i \in DOMAIN handle : handle[i] \in Settled

\* send fails when nobody listens, which ends the task.
Publishes ==
    /\ TickIsOver
    /\ pc' = IF listened THEN "select" ELSE "stopped"
    /\ handle' = <<>>
    /\ elapsed' = 0
    /\ UNCHANGED <<interval, until_tick, tier, abandoned, eventVars,
                   cancelled, since_cancel, listened, calm>>

-----------------------------------------------------------------------------
(* Events.                                                                 *)

Event == ActiveTier \cup {"Shutdown", "Other"}

\* The last branch of the biased select.
EventBranch == pc = "select" /\ ~cancelled /\ until_tick > 0

\* The builder returns an error or panics: the registry stays as it is.
Rebuilt(active) == {active, tier}

ReceivesEvent ==
    /\ EventBranch
    /\ ~lagged
    /\ events # <<>>
    /\ events' = Tail(events)
    /\ pc' = IF Head(events) = "Shutdown" THEN "stopped" ELSE pc
    /\ tier' \in IF Head(events) \in ActiveTier THEN Rebuilt(Head(events)) ELSE {tier}
    /\ UNCHANGED <<interval, until_tick, handle, elapsed, abandoned, lagged,
                   published, cancelled, since_cancel, listened, calm>>

ReceivesLagged ==
    /\ EventBranch
    /\ lagged
    /\ lagged' = FALSE
    /\ UNCHANGED <<interval, until_tick, pc, tier, handle, elapsed, abandoned,
                   events, published, cancelled, since_cancel, listened, calm>>

\* The coalescer publishes: a full channel drops its oldest event.
EventIsPublished ==
    \E event \in Event :
        /\ published < MaxEvents
        /\ published' = published + 1
        /\ LET full == Len(events) = EventCapacity
           IN  /\ events' = Append(IF full THEN Tail(events) ELSE events, event)
               /\ lagged' = (lagged \/ full)
        /\ UNCHANGED <<interval, until_tick, tier, tickVars, cancelled,
                       since_cancel, listened, calm>>

Cancel ==
    /\ ~cancelled
    /\ cancelled' = TRUE
    /\ UNCHANGED <<interval, until_tick, tier, tickVars, eventVars,
                   since_cancel, listened, calm>>

\* The GUI and the accountant have dropped their receivers.
NobodyListens ==
    /\ listened
    /\ listened' = FALSE
    /\ UNCHANGED <<interval, until_tick, tier, tickVars, eventVars, cancelled,
                   since_cancel, calm>>

CallsAreCalm ==
    /\ ~calm
    /\ calm' = TRUE
    /\ UNCHANGED <<interval, until_tick, tier, tickVars, eventVars, cancelled,
                   since_cancel, listened>>

Task == SeesCancel \/ TickStarts \/ TakesAnswer \/ TimesOut \/ Publishes
        \/ ReceivesEvent \/ ReceivesLagged
PoolWorks == PoolStarts \/ CallEnds \/ AbandonedCallEnds

\* What is ready is done before time passes.  The calls may take any time,
\* and those that are not calm for ever.
Ready ==
    \/ pc = "select" /\ (cancelled \/ until_tick = 0 \/ lagged \/ events # <<>>)
    \/ TickIsOver
    \/ \E i \in DOMAIN handle :
           \/ CallStarts(i)
           \/ Awaits(i) /\ (handle[i] \in Answered \/ DeadlinePassed(i))
    \/ calm /\ (Running # {} \/ abandoned > 0)

TimePasses ==
    /\ pc # "stopped"
    /\ ~Ready
    /\ until_tick' = IF until_tick = 0 THEN 0 ELSE until_tick - 1
    /\ elapsed' = IF pc = "await" THEN elapsed + 1 ELSE elapsed
    /\ since_cancel' = IF cancelled THEN since_cancel + 1 ELSE 0
    /\ UNCHANGED <<interval, pc, tier, handle, abandoned, eventVars, cancelled,
                   listened, calm>>

Environment == EventIsPublished \/ Cancel \/ NobodyListens \/ CallsAreCalm

Next == Task \/ PoolWorks \/ TimePasses \/ Environment

\* The runtime polls the task while it is ready, the pool starts what it can,
\* time passes, and calls return once they are calm.
Fairness ==
    /\ WF_vars(Task)
    /\ WF_vars(PoolStarts)
    /\ WF_vars(calm /\ (CallEnds \/ AbandonedCallEnds))
    /\ WF_vars(TimePasses)

Spec == Init /\ [][Next]_vars /\ Fairness

-----------------------------------------------------------------------------
(* Properties.                                                             *)

\* Type correctness of the poller's state.
TypeOK ==
    /\ interval \in Nat
    /\ until_tick \in 0..interval
    /\ pc \in {"select", "await", "stopped"}
    /\ tier \in ActiveTier
    /\ DOMAIN handle \subseteq DOMAIN Catalogue
    /\ \A i \in DOMAIN handle : handle[i] \in Unanswered \cup Answered \cup Settled
    /\ elapsed \in Nat
    /\ abandoned \in 0..Pool
    /\ events \in Seq(Event) /\ Len(events) <= EventCapacity
    /\ lagged \in BOOLEAN
    /\ published \in 0..MaxEvents
    /\ cancelled \in BOOLEAN
    /\ since_cancel \in Nat
    /\ listened \in BOOLEAN
    /\ calm \in BOOLEAN

\* However many providers hang, a tick lasts no longer than the longest budget
\* of one provider: the deadlines share one start (poller.rs, Poller::tick).
TickEndsInBudget == pc = "await" => elapsed <= PROVIDER_TIMEOUT_BASIC

\* A cancelled poller stops within one tick, whatever its providers, its events
\* and its ticker do (poller.rs, Poller::run_inner).
CancelIsPrompt == since_cancel <= PROVIDER_TIMEOUT_BASIC

\* Every call of a tick is of a provider of the registry's tier: a TierChanged
\* is not taken in the middle of a tick.
TickIsOfOneRegistry ==
    pc = "await" => /\ DOMAIN handle = Registry(tier)
                    /\ \A i \in DOMAIN handle :
                           Catalogue[i].requires_tier = "Full" => tier = "Full"

\* Published events are received, or the poller stops: ticks that use their
\* whole budget do not keep the select from its last branch (T-3, clamp_interval).
EventsAreTaken == events # <<>> ~> (events = <<>> \/ pc = "stopped")

\* Once calls no longer hang or panic, ticks in which every provider is read
\* come again and again, whatever hung before (poller.rs, Poller::tick).
Complete == TickIsOver /\ \A i \in DOMAIN handle : handle[i] = "taken"
ReadsAgain == calm ~> (Complete \/ pc = "stopped")

\* "NVML/OHM syscalls that exceed this are aborted; the provider contributes
\* zero readings for the tick" (poller.rs, PROVIDER_TIMEOUT).
LateAnswersAreDropped ==
    [][\A i \in DOMAIN handle :
           Awaits(i) /\ elapsed > provider_timeout(i) => handle'[i] # "taken"]_vars

\* "the per-tick working set is at most the registry size" (poller.rs, module
\* doc).
WorkingSetIsRegistry ==
    abandoned + Cardinality(Running) <= Cardinality(Registry("Full"))
=============================================================================
