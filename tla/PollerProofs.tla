---------------------------- MODULE PollerProofs ----------------------------
(***************************************************************************)
(* The poller, for every catalogue of providers, pool, interval and        *)
(* channel: a tick has one registry and ends within one budget, however    *)
(* many providers hang, a cancellation is seen within a tick, and calls    *)
(* that hang never hold more threads than the pool has.  The inductive     *)
(* invariant Polling counts the threads and ties the time since the        *)
(* cancellation to the time of the tick.                                   *)
(***************************************************************************)
EXTENDS Poller, FiniteSetTheorems, WellFoundedInduction, TLAPS

\* Every thread is an idle one's, a running call's or an abandoned call's.
PoolIsBounded == abandoned + Cardinality(Running) <= Pool

\* The time since the cancellation is part of the tick it came in.
CancelCounts ==
    /\ ~cancelled => since_cancel = 0
    /\ pc = "await" => since_cancel <= elapsed

Polling ==
    /\ TypeOK
    /\ TickEndsInBudget
    /\ CancelIsPrompt
    /\ TickIsOfOneRegistry
    /\ PoolIsBounded
    /\ CancelCounts

-----------------------------------------------------------------------------

LEMMA ProvidersAreNumbers == DOMAIN Catalogue \subseteq Nat /\ IsFiniteSet(DOMAIN Catalogue)
<1>1. PICK n \in Nat : DOMAIN Catalogue = 1..n
  BY CatalogueAssumption
<1>2. IsFiniteSet(1..n)
  BY <1>1, FS_Interval
<1>. QED BY <1>1, <1>2

LEMMA RunningIsFinite ==
    ASSUME DOMAIN handle \subseteq DOMAIN Catalogue
    PROVE  IsFiniteSet(Running) /\ Cardinality(Running) \in Nat
<1>1. Running \subseteq DOMAIN Catalogue
  BY DEF Running
<1>. QED BY <1>1, ProvidersAreNumbers, FS_Subset, FS_CardinalityType

\* While a tick is not over, the task awaits a handle.
LEMMA SomeoneIsAwaited ==
    ASSUME TypeOK, pc = "await", ~TickIsOver
    PROVE  \E i \in DOMAIN handle : Awaits(i)
<1> DEFINE Open == {i \in DOMAIN handle : handle[i] \notin Settled}
<1>1. Open \subseteq Nat /\ Open # {}
  BY ProvidersAreNumbers DEF TypeOK, TickIsOver
<1>2. PICK i \in Open : \A j \in Open : ~(<<j, i>> \in OpToRel(<, Nat))
  BY <1>1, NatLessThanWellFounded, WFMin
<1>3. \A j \in Open : ~(j < i)
  BY <1>1, <1>2 DEF OpToRel
<1>. QED BY <1>1, <1>3 DEF Awaits

LEMMA BudgetIsBounded ==
    ASSUME NEW i PROVE provider_timeout(i) \in 0..PROVIDER_TIMEOUT_BASIC
  BY DEF provider_timeout, PROVIDER_TIMEOUT, PROVIDER_TIMEOUT_BASIC

LEMMA RegistryIsAdmitted ==
    ASSUME NEW active \in ActiveTier
    PROVE  /\ Registry(active) \subseteq DOMAIN Catalogue
           /\ \A i \in Registry(active) :
                  Catalogue[i].requires_tier = "Full" => active = "Full"
  BY DEF Registry, Accepted

LEMMA InitPolling == Init => Polling
<1> SUFFICES ASSUME Init PROVE Polling
  OBVIOUS
<1>1. interval \in Nat
  <2>1. PICK requested \in Requested : interval = clamp_interval(requested)
    BY DEF Init
  <2>. QED
    BY <2>1, RequestedAssumption DEF clamp_interval, MIN_POLL_INTERVAL
<1>2. DOMAIN handle = {}
  BY DEF Init
<1>3. Running = {}
  BY <1>2 DEF Running
<1>4. Cardinality(Running) = 0
  BY <1>3, FS_EmptySet
<1>5. TypeOK
  <2>1. /\ until_tick = 0 /\ pc = "select" /\ tier \in ActiveTier /\ elapsed = 0
        /\ abandoned = 0 /\ events = <<>> /\ published = 0 /\ since_cancel = 0
    BY DEF Init
  <2>2. lagged \in BOOLEAN /\ cancelled \in BOOLEAN /\ listened \in BOOLEAN /\ calm \in BOOLEAN
    BY DEF Init
  <2>3. events \in Seq(Event) /\ Len(events) <= EventCapacity
    BY <2>1, EventAssumption
  <2>4. until_tick \in 0..interval /\ abandoned \in 0..Pool /\ published \in 0..MaxEvents
    BY <1>1, <2>1, PoolAssumption, EventAssumption
  <2>5. elapsed \in Nat /\ since_cancel \in Nat
    BY <2>1
  <2>6. /\ DOMAIN handle \subseteq DOMAIN Catalogue
        /\ \A i \in DOMAIN handle : handle[i] \in Unanswered \cup Answered \cup Settled
    BY <1>2
  <2>. QED BY <1>1, <2>1, <2>2, <2>3, <2>4, <2>5, <2>6 DEF TypeOK
<1>6. TickEndsInBudget /\ TickIsOfOneRegistry /\ CancelCounts /\ CancelIsPrompt
  BY DEF Init, TickEndsInBudget, TickIsOfOneRegistry, CancelCounts, CancelIsPrompt,
         PROVIDER_TIMEOUT_BASIC
<1>7. PoolIsBounded
  BY <1>4, PoolAssumption DEF Init, PoolIsBounded
<1>. QED BY <1>5, <1>6, <1>7 DEF Polling

\* The steps that touch no call: the environment's and those of the select.
LEMMA SelectStep ==
    ASSUME Polling, Environment \/ SeesCancel \/ ReceivesEvent \/ ReceivesLagged
    PROVE  Polling'
<1> USE EventAssumption
    DEF Polling, TypeOK, TickEndsInBudget, CancelIsPrompt, TickIsOfOneRegistry,
        PoolIsBounded, CancelCounts, Running, tickVars, eventVars
<1>1. CASE EventIsPublished
  <2>1. PICK event \in Event :
            events' = Append(IF Len(events) = EventCapacity THEN Tail(events) ELSE events,
                             event)
    BY <1>1 DEF EventIsPublished
  <2>2. events' \in Seq(Event) /\ Len(events') <= EventCapacity
    BY <2>1
  <2>. QED BY <1>1, <2>2 DEF EventIsPublished
<1>2. CASE Cancel BY <1>2 DEF Cancel
<1>3. CASE NobodyListens BY <1>3 DEF NobodyListens
<1>4. CASE CallsAreCalm BY <1>4 DEF CallsAreCalm
<1>5. CASE SeesCancel BY <1>5 DEF SeesCancel
<1>6. CASE ReceivesEvent
  <2>1. events' \in Seq(Event) /\ Len(events') <= EventCapacity
    BY <1>6 DEF ReceivesEvent
  <2>2. tier' \in ActiveTier
    BY <1>6 DEF ReceivesEvent, Rebuilt
  <2>. QED BY <1>6, <2>1, <2>2 DEF ReceivesEvent, EventBranch
<1>7. CASE ReceivesLagged BY <1>7 DEF ReceivesLagged
<1>. QED
  BY <1>1, <1>2, <1>3, <1>4, <1>5, <1>6, <1>7 DEF Environment

\* A tick begins with the registry of the tier, and ends with no call left.
LEMMA TickStep ==
    ASSUME Polling, TickStarts \/ Publishes
    PROVE  Polling'
<1> USE DEF Polling, TypeOK, TickEndsInBudget, CancelIsPrompt, TickIsOfOneRegistry,
            PoolIsBounded, CancelCounts, eventVars
<1>0. abandoned <= Pool /\ PROVIDER_TIMEOUT_BASIC = 5 /\ abandoned \in Nat /\ Pool \in Nat
  BY PoolAssumption DEF PROVIDER_TIMEOUT_BASIC
<1>1. CASE TickStarts
  <2>1. /\ DOMAIN handle' = Registry(tier)
        /\ \A i \in DOMAIN handle' : handle'[i] = "queued"
    BY <1>1 DEF TickStarts
  <2>2. Running' = {}
    BY <2>1 DEF Running
  <2>3. PoolIsBounded'
    BY <1>0, <1>1, <2>2, FS_EmptySet DEF TickStarts
  <2>4. TypeOK'
    BY <1>1, <2>1, RegistryIsAdmitted DEF TickStarts, Unanswered
  <2>5. TickIsOfOneRegistry'
    BY <1>1, <2>1, RegistryIsAdmitted DEF TickStarts
  <2>. QED BY <1>0, <1>1, <2>3, <2>4, <2>5 DEF TickStarts
<1>2. CASE Publishes
  <2>1. DOMAIN handle' = {} /\ pc' # "await"
    BY <1>2 DEF Publishes
  <2>2. Running' = {}
    BY <2>1 DEF Running
  <2>3. PoolIsBounded'
    BY <1>0, <1>2, <2>2, FS_EmptySet DEF Publishes
  <2>4. TypeOK'
    BY <1>2, <2>1 DEF Publishes
  <2>. QED BY <1>2, <2>1, <2>3, <2>4 DEF Publishes
<1>. QED BY <1>1, <1>2

\* What a step of one call does to everything else.
OneCall(i) ==
    /\ i \in DOMAIN handle
    /\ DOMAIN handle' = DOMAIN handle
    /\ handle'[i] \in Unanswered \cup Answered \cup Settled
    /\ \A j \in DOMAIN handle \ {i} : handle'[j] = handle[j]
    /\ UNCHANGED <<interval, until_tick, pc, tier, elapsed, eventVars, cancelled,
                   since_cancel, listened, calm>>

LEMMA OneCallKeeps ==
    ASSUME Polling, NEW i, OneCall(i), abandoned' \in Nat, PoolIsBounded'
    PROVE  Polling'
<1>1. DOMAIN handle' \subseteq DOMAIN Catalogue
  BY DEF Polling, TypeOK, OneCall
<1>2. Cardinality(Running') \in Nat
  <2>1. Running' \subseteq DOMAIN Catalogue
    BY <1>1 DEF Running
  <2>. QED BY <2>1, ProvidersAreNumbers, FS_Subset, FS_CardinalityType
<1>3. abandoned' \in 0..Pool
  BY <1>2, PoolAssumption DEF PoolIsBounded
<1>4. TypeOK'
  BY <1>1, <1>3 DEF Polling, TypeOK, OneCall, eventVars
<1>5. (TickEndsInBudget /\ CancelIsPrompt /\ TickIsOfOneRegistry /\ CancelCounts)'
  BY DEF Polling, TickEndsInBudget, CancelIsPrompt, TickIsOfOneRegistry, CancelCounts,
         OneCall, eventVars
<1>. QED BY <1>4, <1>5 DEF Polling

\* A call starts only on a free thread, and leaves its thread or keeps it.
LEMMA CallStep ==
    ASSUME Polling, PoolWorks \/ TakesAnswer \/ TimesOut
    PROVE  Polling'
<1>0. /\ IsFiniteSet(Running) /\ Cardinality(Running) \in Nat
      /\ abandoned \in Nat /\ Pool \in Nat
      /\ abandoned + Cardinality(Running) <= Pool
  BY RunningIsFinite, PoolAssumption DEF Polling, TypeOK, PoolIsBounded
<1>1. CASE PoolStarts
  <2>1. PICK i \in DOMAIN handle :
            CallStarts(i) /\ handle' = [handle EXCEPT ![i] = "running"]
            /\ UNCHANGED <<interval, until_tick, pc, tier, elapsed, abandoned,
                           eventVars, cancelled, since_cancel, listened, calm>>
    BY <1>1 DEF PoolStarts
  <2>2. OneCall(i)
    BY <2>1 DEF OneCall, Unanswered
  <2>3. Running' = Running \cup {i}
    BY <2>1, <2>2 DEF Running, OneCall
  <2>4. Cardinality(Running') <= Cardinality(Running) + 1 /\ Cardinality(Running') \in Nat
    <3>1. \/ Cardinality(Running \cup {i}) = Cardinality(Running)
          \/ Cardinality(Running \cup {i}) = Cardinality(Running) + 1
      BY <1>0, FS_AddElement
    <3>. QED BY <1>0, <2>3, <3>1
  <2>5. PoolIsBounded'
    BY <1>0, <2>1, <2>4 DEF PoolIsBounded, CallStarts
  <2>. QED BY <1>0, <2>1, <2>2, <2>5, OneCallKeeps
<1>2. CASE CallEnds
  <2>1. PICK i \in Running, answer \in Answered :
            handle' = [handle EXCEPT ![i] = answer]
            /\ UNCHANGED <<interval, until_tick, pc, tier, elapsed, abandoned,
                           eventVars, cancelled, since_cancel, listened, calm>>
    BY <1>2 DEF CallEnds
  <2>2. OneCall(i) /\ handle'[i] # "running"
    BY <2>1 DEF OneCall, Answered, Running
  <2>3. Running' = Running \ {i}
    BY <2>1, <2>2 DEF Running, OneCall
  <2>4. Cardinality(Running') <= Cardinality(Running) /\ Cardinality(Running') \in Nat
    <3>1. Cardinality(Running \ {i}) = Cardinality(Running) - 1
      BY <1>0, <2>1, FS_RemoveElement
    <3>2. Running # {}
      BY <2>1
    <3>3. Cardinality(Running) # 0
      BY <1>0, <3>2, FS_EmptySet
    <3>. QED BY <1>0, <2>3, <3>1, <3>3
  <2>5. PoolIsBounded'
    BY <1>0, <2>1, <2>4 DEF PoolIsBounded
  <2>. QED BY <1>0, <2>1, <2>2, <2>5, OneCallKeeps
<1>3. CASE AbandonedCallEnds
  <2>1. abandoned' = abandoned - 1 /\ abandoned > 0
        /\ UNCHANGED <<interval, until_tick, pc, tier, handle, elapsed,
                       eventVars, cancelled, since_cancel, listened, calm>>
    BY <1>3 DEF AbandonedCallEnds
  <2>2. Running' = Running
    BY <2>1 DEF Running
  <2>3. PoolIsBounded' /\ abandoned' \in 0..Pool
    BY <1>0, <2>1, <2>2 DEF PoolIsBounded
  <2>. QED BY <2>1, <2>3 DEF Polling, TypeOK, TickEndsInBudget, CancelIsPrompt,
                             TickIsOfOneRegistry, CancelCounts, eventVars
<1>4. CASE TakesAnswer
  <2>1. PICK i \in DOMAIN handle :
            /\ handle[i] \in Answered
            /\ handle' = [handle EXCEPT
                   ![i] = IF handle[i] = "readings" THEN "taken" ELSE "skipped"]
            /\ UNCHANGED <<interval, until_tick, pc, tier, elapsed, abandoned,
                           eventVars, cancelled, since_cancel, listened, calm>>
    BY <1>4 DEF TakesAnswer
  <2>2. OneCall(i)
    BY <2>1 DEF OneCall, Settled
  <2>3. Running' = Running
    BY <2>1, <2>2 DEF Running, OneCall, Answered
  <2>. QED BY <1>0, <2>1, <2>2, <2>3, OneCallKeeps DEF PoolIsBounded
<1>5. CASE TimesOut
  <2>1. PICK i \in DOMAIN handle :
            /\ abandoned' = abandoned + ThreadsKept(i)
            /\ handle' = [handle EXCEPT ![i] = "skipped"]
            /\ UNCHANGED <<interval, until_tick, pc, tier, elapsed, eventVars,
                           cancelled, since_cancel, listened, calm>>
    BY <1>5 DEF TimesOut
  <2>2. OneCall(i)
    BY <2>1 DEF OneCall, Settled
  <2>3. Running' = Running \ {i}
    BY <2>1, <2>2 DEF Running, OneCall
  <2>4. CASE handle[i] = "running"
    <3>1. i \in Running /\ abandoned' = abandoned + 1
      BY <2>1, <2>4 DEF Running, ThreadsKept
    <3>2. Cardinality(Running') = Cardinality(Running) - 1
      BY <1>0, <2>3, <3>1, FS_RemoveElement
    <3>. QED BY <1>0, <2>2, <3>1, <3>2, OneCallKeeps DEF PoolIsBounded
  <2>5. CASE handle[i] # "running"
    <3>1. Running' = Running /\ abandoned' = abandoned
      BY <1>0, <2>1, <2>3, <2>5 DEF Running, ThreadsKept
    <3>. QED BY <1>0, <2>2, <3>1, OneCallKeeps DEF PoolIsBounded
  <2>. QED BY <2>4, <2>5
<1>. QED BY <1>1, <1>2, <1>3, <1>4, <1>5 DEF PoolWorks

\* Time passes in a tick only while the awaited handle has time left.
LEMMA TimeStep ==
    ASSUME Polling, TimePasses
    PROVE  Polling'
<1>0. PROVIDER_TIMEOUT_BASIC = 5
  BY DEF PROVIDER_TIMEOUT_BASIC
<1>1. /\ ~Ready /\ pc # "stopped"
      /\ until_tick' = IF until_tick = 0 THEN 0 ELSE until_tick - 1
      /\ elapsed' = IF pc = "await" THEN elapsed + 1 ELSE elapsed
      /\ since_cancel' = IF cancelled THEN since_cancel + 1 ELSE 0
      /\ UNCHANGED <<interval, pc, tier, handle, abandoned, eventVars, cancelled,
                     listened, calm>>
  BY DEF TimePasses
<1>2. ASSUME pc = "await" PROVE elapsed < PROVIDER_TIMEOUT_BASIC
  <2>1. PICK i \in DOMAIN handle : Awaits(i)
    BY <1>1, <1>2, SomeoneIsAwaited DEF Ready, Polling
  <2>2. ~DeadlinePassed(i)
    BY <1>1, <2>1 DEF Ready
  <2>. QED
    BY <2>2, <1>0, BudgetIsBounded DEF DeadlinePassed, Polling, TypeOK
<1>3. pc # "await" => ~cancelled
  BY <1>1 DEF Ready, Polling, TypeOK
<1>4. TypeOK'
  BY <1>1 DEF Polling, TypeOK, eventVars
<1>5. TickEndsInBudget' /\ CancelCounts' /\ CancelIsPrompt'
  BY <1>0, <1>1, <1>2, <1>3
     DEF Polling, TypeOK, TickEndsInBudget, CancelCounts, CancelIsPrompt
<1>6. TickIsOfOneRegistry' /\ PoolIsBounded'
  BY <1>1 DEF Polling, TickIsOfOneRegistry, PoolIsBounded, Running
<1>. QED BY <1>4, <1>5, <1>6 DEF Polling

LEMMA PollingStep == Polling /\ [Next]_vars => Polling'
<1>1. ASSUME Polling, UNCHANGED vars PROVE Polling'
  BY <1>1 DEF vars, tickVars, eventVars, Polling, TypeOK, TickEndsInBudget,
              CancelIsPrompt, TickIsOfOneRegistry, PoolIsBounded, CancelCounts, Running
<1>. QED BY <1>1, SelectStep, TickStep, CallStep, TimeStep DEF Next, Task

LEMMA PollingHolds == Spec => []Polling
  BY InitPolling, PollingStep, PTL DEF Spec

-----------------------------------------------------------------------------
\* The poller only holds well-formed values; in particular calls that hang never
\* keep more threads than the pool has, although every tick starts them again.
THEOREM PollerTypeCorrect == Spec => []TypeOK
<1>1. Polling => TypeOK BY DEF Polling
<1>. QED BY <1>1, PollingHolds, PTL

\* Poller::tick: however many providers hang, a tick ends within the longest
\* budget of one provider.
THEOREM TickIsBounded == Spec => []TickEndsInBudget
<1>1. Polling => TickEndsInBudget BY DEF Polling
<1>. QED BY <1>1, PollingHolds, PTL

\* Poller::run_inner: a cancelled poller stops within one such tick.
THEOREM CancelIsSeen == Spec => []CancelIsPrompt
<1>1. Polling => CancelIsPrompt BY DEF Polling
<1>. QED BY <1>1, PollingHolds, PTL

\* The registry is rebuilt between two ticks and never during one.
THEOREM OneRegistryPerTick == Spec => []TickIsOfOneRegistry
<1>1. Polling => TickIsOfOneRegistry BY DEF Polling
<1>. QED BY <1>1, PollingHolds, PTL
=============================================================================
