------------------------ MODULE BandwidthAccountant ------------------------
(***************************************************************************)
(* The bandwidth accountant: the task that turns the cumulative NIC        *)
(* counters the poller broadcasts into per-adapter totals of a billing     *)
(* cycle, keeps them in SQLite, and turns the cycle over.                  *)
(*                                                                         *)
(*   crates/sidebar-bandwidth/src/accountant.rs, accumulator.rs, view.rs   *)
(*   crates/sidebar-persistence/src/bandwidth_repo.rs                      *)
(*   crates/sidebar-domain/src/billing.rs          (module Billing)        *)
(*                                                                         *)
(* A handler of the task (one branch of its select loop) makes several     *)
(* SQLite calls.  Each call is a step of its own here, because the process *)
(* may die between two of them; pc says where in the handler the task is.  *)
(* The task is alone on its thread, so memory changes only in its steps.   *)
(* The counters, the clock and the broadcast channel move at any time.     *)
(* As in Billing, a definition headed "Mutant" is a plausible bug.         *)
(***************************************************************************)
EXTENDS Billing, Sequences, FiniteSets

CONSTANTS
    Luid,           \* network adapters
    Dir,            \* the two directions counted, rx and tx
    Dates,          \* the dates the wall clock may show
    Rules,          \* the rules the configuration file may name
    HistoryKeep,    \* AccountantConfig::history_keep
    ChannelCap,     \* capacity of the broadcast channel
    Faults,         \* the SQLite calls that may fail
    ViewAttached,   \* does the GUI hold the watch channel's receiver?
    ClockMayGoBack, \* may the user set the clock back?
    Nil,            \* None of an Option
    MaxMoved,       \* BOUND: bytes per adapter and direction
    MaxStarts       \* BOUND: launches of the program

ASSUME DatesAssumption == Dates \subseteq Date
ASSUME RulesAssumption == Rules \subseteq CycleStartDay
ASSUME BoundsAssumption ==
    /\ HistoryKeep \in Nat
    /\ ChannelCap \in Nat \ {0}
    /\ MaxMoved \in Nat
    /\ MaxStarts \in Nat
ASSUME SwitchesAssumption ==
    /\ ViewAttached \in BOOLEAN
    /\ ClockMayGoBack \in BOOLEAN
    /\ Faults \subseteq {"load", "load_meta", "meta", "save", "archive", "prune"}

\* Three failed archives in a row are reported to the user.  The counter
\* saturates; saturating it at the threshold loses nothing anybody reads.
ARCHIVE_DEFER_ESCALATION_THRESHOLD == 3

VARIABLES
    \* the machine
    today,          \* the wall clock's date
    nic,            \* per adapter: its OS counters, and the bytes it really moved
    channel,        \* readings broadcast and not yet received, oldest first
    lagged,         \* has the channel dropped a reading since the last recv?
    \* bandwidth.db
    current_cycle,  \* per adapter: its row, or Nil
    metadata,       \* the singleton row of current_cycle_metadata
    history,        \* per adapter, its bandwidth_history rows in rowid order
    \* the task's memory
    pc, ret,        \* the step it is at, and where a rollover returns to
    config_rule,    \* AccountantConfig::cycle_start_day
    cycle_start,
    active_cycle_start_day,
    accumulator,    \* by_luid: per adapter its AccEntry, or Nil
    archive_defer_count,
    view,           \* the last BandwidthView on the watch channel
    \* observers: no action's guard reads them, except the bound on starts
    mark,           \* per adapter: the last reading ingested, and in which run
    archived,       \* per adapter: all bytes ever moved into the history
    stale,          \* adapters whose row the last start-up left behind
    starts          \* launches so far

machine == <<today, nic, channel, lagged>>
db      == <<current_cycle, metadata, history>>
task    == <<config_rule, cycle_start, active_cycle_start_day, accumulator,
             archive_defer_count, view>>
ghosts  == <<mark, archived, stale, starts>>
vars    == <<machine, db, pc, ret, task, ghosts>>

-----------------------------------------------------------------------------
(* Types *)

Bytes == [Dir -> Nat]
Zero == [d \in Dir |-> 0]
Plus(a, b) == [d \in Dir |-> a[d] + b[d]]

Option(S) == S \cup {Nil}

Counter  == [count : Bytes, moved : Bytes]
Reading  == [Luid -> Option(Counter)]
Row      == [start : Date, bytes : Bytes]
PastRow  == [start : Date, end : Date, bytes : Bytes]
AccEntry == [bytes : Bytes, prev : Option(Bytes)]
Metadata == [start : Date, rule : CycleStartDay]
View     == [totals : [Luid -> Option(Bytes)], reset : Date, degraded : BOOLEAN]

ASSUME NilAssumption ==
    Nil \notin Bytes \cup Counter \cup Row \cup AccEntry \cup Metadata \cup View

\* A map keyed by adapter, held as a function that is Nil where it has no key.
Keys(f) == { l \in Luid : f[l] # Nil }
Empty == [l \in Luid |-> Nil]

-----------------------------------------------------------------------------
(* MonthlyAccumulator::add_delta *)

\* The T-23 contract: the first sight of a counter is a baseline, and a
\* counter that went backwards was reset and counts from zero.
Delta(prev, counter) == IF counter < prev THEN counter ELSE counter - prev

NewEntry == [bytes |-> Zero, prev |-> Nil]

\* Mutant: the first sight of a counter is counted, not taken as a baseline.
AddWithoutBaseline(entry, counter) ==
    [bytes |-> IF entry.prev = Nil THEN Plus(entry.bytes, counter)
               ELSE [d \in Dir |-> entry.bytes[d] + Delta(entry.prev[d], counter[d])],
     prev  |-> counter]

add_delta(entry, counter) ==
    [bytes |-> IF entry.prev = Nil THEN entry.bytes
               ELSE [d \in Dir |-> entry.bytes[d] + Delta(entry.prev[d], counter[d])],
     prev  |-> counter]

ingest(acc, reading) ==
    [l \in Luid |->
        IF reading[l] = Nil THEN acc[l]
        ELSE add_delta(IF acc[l] = Nil THEN NewEntry ELSE acc[l], reading[l].count)]

-----------------------------------------------------------------------------
(* The repository calls, as functions of the tables they write *)

\* flush: the metadata row, then one UPSERT per adapter.  Each may fail alone;
\* a failure is logged and the flush goes on.
FlushedMetadata(ok) ==
    IF ok THEN [start |-> cycle_start, rule |-> active_cycle_start_day]
          ELSE metadata

FlushedRows(saved) ==
    [l \in Luid |-> IF l \in saved
                    THEN [start |-> cycle_start, bytes |-> accumulator[l].bytes]
                    ELSE current_cycle[l]]

Result(call) == IF call \in Faults THEN BOOLEAN ELSE {TRUE}

Saved == IF "save" \in Faults THEN SUBSET Keys(accumulator)
                              ELSE {Keys(accumulator)}

flush == \E ok \in Result("meta"), saved \in Saved :
            /\ metadata' = FlushedMetadata(ok)
            /\ current_cycle' = FlushedRows(saved)

\* INSERT INTO bandwidth_history SELECT ... FROM current_cycle: every row.
ArchivedHistory(end) ==
    [l \in Luid |->
        IF current_cycle[l] = Nil THEN history[l]
        ELSE Append(history[l], [start |-> current_cycle[l].start,
                                 end   |-> end,
                                 bytes |-> current_cycle[l].bytes])]

\* The rows with the highest rowids.
Newest(keep, rows) ==
    IF Len(rows) <= keep THEN rows
    ELSE SubSeq(rows, Len(rows) - keep + 1, Len(rows))

PrunedHistory == [l \in Luid |-> Newest(HistoryKeep, history[l])]

-----------------------------------------------------------------------------
(* The machine: traffic, the poller, the clock *)

Traffic(l, d) ==
    /\ nic[l].moved[d] < MaxMoved
    /\ nic' = [nic EXCEPT ![l].count[d] = @ + 1, ![l].moved[d] = @ + 1]
    /\ UNCHANGED <<today, channel, lagged, db, pc, ret, task, ghosts>>

\* A reboot or a driver reload: the OS counters start again from zero.
CounterReset(l) ==
    /\ nic[l].count # Zero
    /\ nic' = [nic EXCEPT ![l].count = Zero]
    /\ UNCHANGED <<today, channel, lagged, db, pc, ret, task, ghosts>>

\* A poll tick: one broadcast with the counters of the adapters present.  A
\* full channel drops its oldest message, and the receiver will hear of it.
Poll(present) ==
    /\ pc # "down"
    /\ LET reading == [l \in Luid |-> IF l \in present THEN nic[l] ELSE Nil]
       IN  IF Len(channel) < ChannelCap
           THEN channel' = Append(channel, reading) /\ UNCHANGED lagged
           ELSE channel' = Append(Tail(channel), reading) /\ lagged' = TRUE
    /\ UNCHANGED <<today, nic, db, pc, ret, task, ghosts>>

\* Days pass, whether the program runs or not; a sleeping PC skips some.
ClockMoves(date) ==
    /\ date # today
    /\ ClockMayGoBack \/ DateLT(today, date)
    /\ today' = date
    /\ UNCHANGED <<nic, channel, lagged, db, pc, ret, task, ghosts>>

-----------------------------------------------------------------------------
(* BandwidthAccountant::new *)

InWindow(rows) ==
    { s \in { rows[l].start : l \in Keys(rows) } : NumDays(today, s) \in 0..31 }

\* The newest persisted start of the last 31 days, or else what the
\* configuration says.
ResumedStarts(rows, rule) ==
    IF InWindow(rows) = {} THEN {cycle_start_for_today(rule, today)}
    ELSE { s \in InWindow(rows) : \A t \in InWindow(rows) : DateLE(t, s) }

ResumedRule(rows, meta, start, rule) ==
    IF meta # Nil /\ meta.start = start THEN meta.rule
    ELSE IF \E l \in Keys(rows) : rows[l].start = start
         THEN infer_cycle_start_day(start)
         ELSE rule

\* Mutant: the rows name the adapters, but their totals are not read back.
RehydratedFromZero(rows, start) ==
    [l \in Luid |-> IF l \in Keys(rows) /\ rows[l].start = start
                    THEN NewEntry ELSE Nil]

\* Rows of another cycle are skipped; the totals of the rest come back
\* without a previous counter.
Rehydrated(rows, start) ==
    [l \in Luid |-> IF l \in Keys(rows) /\ rows[l].start = start
                    THEN [bytes |-> rows[l].bytes, prev |-> Nil]
                    ELSE Nil]

\* An unreadable current_cycle counts as an empty one, an unreadable metadata
\* row as a missing one.
Start(rule) ==
    /\ pc = "down"
    /\ starts < MaxStarts
    /\ \E loaded \in Result("load"), loadedMeta \in Result("load_meta") :
         LET rows == IF loaded THEN current_cycle ELSE Empty
             meta == IF loadedMeta THEN metadata ELSE Nil
         IN  \E start \in ResumedStarts(rows, rule) :
               /\ cycle_start' = start
               /\ active_cycle_start_day' = ResumedRule(rows, meta, start, rule)
               /\ accumulator' = Rehydrated(rows, start)
               /\ stale' = { l \in Keys(current_cycle) :
                                current_cycle[l].start # start }
    /\ pc' = "idle"
    /\ config_rule' = rule
    /\ archive_defer_count' = 0
    /\ channel' = <<>>
    /\ lagged' = FALSE
    /\ starts' = starts + 1
    /\ UNCHANGED <<today, nic, db, ret, view, mark, archived>>

-----------------------------------------------------------------------------
(* check_rollover *)

CycleEnd == EndOfCycle(active_cycle_start_day, cycle_start)

\* T-27: today >= cycle_end.
CycleIsOver == DateLE(CycleEnd, today)

\* Mutant: no flush before the archive.
RolloverWithoutFlush(next) ==
    IF CycleIsOver THEN pc' = "archive" /\ ret' = next
                   ELSE pc' = next /\ UNCHANGED ret

\* The rest of a handler that called check_rollover and then goes on to next.
check_rollover(next) ==
    IF CycleIsOver THEN pc' = "rollover_flush" /\ ret' = next
                   ELSE pc' = next /\ UNCHANGED ret

RolloverFlush ==
    /\ pc = "rollover_flush"
    /\ flush
    /\ pc' = "archive"
    /\ UNCHANGED <<machine, history, ret, task, ghosts>>

\* One transaction: either every row moves or none does.
ArchiveSucceeds ==
    /\ pc = "archive"
    /\ history' = ArchivedHistory(CycleEnd)
    /\ current_cycle' = Empty
    /\ pc' = "prune"
    /\ archived' = [l \in Luid |-> IF l \in Keys(current_cycle)
                                   THEN Plus(archived[l], current_cycle[l].bytes)
                                   ELSE archived[l]]
    /\ stale' = {}
    /\ UNCHANGED <<machine, metadata, ret, task, mark, starts>>

\* Mutant: the cycle advances although its rows are still there.
ArchiveFailsAndAdvances ==
    /\ pc = "archive"
    /\ "archive" \in Faults
    /\ cycle_start' = next_cycle_start(CycleEnd)
    /\ active_cycle_start_day' = config_rule
    /\ accumulator' = Empty
    /\ pc' = ret
    /\ UNCHANGED <<machine, db, ret, config_rule, archive_defer_count, view, ghosts>>

\* Mutant: a deferral is not counted.
ArchiveFailsInSilence ==
    /\ pc = "archive"
    /\ "archive" \in Faults
    /\ pc' = ret
    /\ UNCHANGED <<machine, db, ret, task, ghosts>>

\* The advance of the cycle waits for the next check.
ArchiveFails ==
    /\ pc = "archive"
    /\ "archive" \in Faults
    /\ archive_defer_count' =
          IF archive_defer_count < ARCHIVE_DEFER_ESCALATION_THRESHOLD
          THEN archive_defer_count + 1 ELSE archive_defer_count
    /\ pc' = ret
    /\ UNCHANGED <<machine, db, ret, config_rule, cycle_start,
                   active_cycle_start_day, accumulator, view, ghosts>>

\* prune_history, whose failure is only logged, and the in-memory reset.
PruneAndAdvance ==
    /\ pc = "prune"
    /\ \E ok \in Result("prune") :
         history' = IF ok THEN PrunedHistory ELSE history
    /\ cycle_start' = next_cycle_start(CycleEnd)
    /\ active_cycle_start_day' = config_rule
    /\ accumulator' = Empty
    /\ archive_defer_count' = 0
    /\ pc' = ret
    /\ UNCHANGED <<machine, current_cycle, metadata, ret, config_rule, view, ghosts>>

-----------------------------------------------------------------------------
(* run: the branches of the select loop *)

\* A reading arrives: accumulate, then check the rollover.
Receive ==
    /\ pc = "idle"
    /\ ~lagged
    /\ channel # <<>>
    /\ accumulator' = ingest(accumulator, Head(channel))
    /\ mark' = [l \in Luid |->
                  IF Head(channel)[l] = Nil THEN mark[l]
                  ELSE [last |-> Head(channel)[l], run |-> starts]]
    /\ channel' = Tail(channel)
    /\ check_rollover("idle")
    /\ UNCHANGED <<today, nic, lagged, db, config_rule, cycle_start,
                   active_cycle_start_day, archive_defer_count, view,
                   archived, stale, starts>>

\* RecvError::Lagged: nothing but a log line.
ReceiveLagged ==
    /\ pc = "idle"
    /\ lagged
    /\ lagged' = FALSE
    /\ UNCHANGED <<today, nic, channel, db, pc, ret, task, ghosts>>

\* The debounce timer: check the rollover, then flush and publish.
DebounceTick ==
    /\ pc = "idle"
    /\ check_rollover("flush")
    /\ UNCHANGED <<machine, db, task, ghosts>>

publish_view ==
    view' = IF ViewAttached
            THEN [totals   |-> [l \in Luid |-> IF accumulator[l] = Nil THEN Nil
                                               ELSE accumulator[l].bytes],
                  reset    |-> CycleEnd,
                  degraded |-> archive_defer_count
                                 >= ARCHIVE_DEFER_ESCALATION_THRESHOLD]
            ELSE view

FlushAndPublish ==
    /\ pc = "flush"
    /\ flush
    /\ publish_view
    /\ pc' = "idle"
    /\ UNCHANGED <<machine, history, ret, config_rule, cycle_start,
                   active_cycle_start_day, accumulator, archive_defer_count, ghosts>>

\* The shutdown token fires, or the poller is gone and the channel closed:
\* a last flush and a last view, and the process ends.
ExitRequested ==
    /\ pc = "idle"
    /\ pc' = "last_flush"
    /\ UNCHANGED <<machine, db, ret, task, ghosts>>

\* What is left of the task when the process is gone.
ProcessGone ==
    /\ pc' = "down"
    /\ accumulator' = Empty
    /\ archive_defer_count' = 0
    /\ channel' = <<>>
    /\ lagged' = FALSE
    /\ view' = Nil
    /\ UNCHANGED <<today, nic, history, ret, config_rule, cycle_start,
                   active_cycle_start_day, ghosts>>

\* The view published on the way out has no reader any more.
LastFlush ==
    /\ pc = "last_flush"
    /\ flush
    /\ ProcessGone

\* Power loss or a kill, between two SQLite calls of a handler ...
Crash ==
    /\ pc # "down"
    /\ ProcessGone
    /\ UNCHANGED <<current_cycle, metadata>>

\* ... or in the middle of a flush, after the metadata and some of the rows.
CrashInFlush ==
    /\ pc \in {"rollover_flush", "flush", "last_flush"}
    /\ \E saved \in SUBSET Keys(accumulator) :
         current_cycle' = FlushedRows(saved)
    /\ metadata' = FlushedMetadata(TRUE)
    /\ ProcessGone

-----------------------------------------------------------------------------
Init ==
    /\ today \in Dates
    /\ nic = [l \in Luid |-> [count |-> Zero, moved |-> Zero]]
    /\ channel = <<>>
    /\ lagged = FALSE
    /\ current_cycle = Empty
    /\ metadata = Nil
    /\ history = [l \in Luid |-> <<>>]
    /\ pc = "down"
    /\ ret = "idle"
    /\ config_rule \in Rules
    /\ cycle_start = cycle_start_for_today(config_rule, today)
    /\ active_cycle_start_day = config_rule
    /\ accumulator = Empty
    /\ archive_defer_count = 0
    /\ view = Nil
    /\ mark = [l \in Luid |-> [last |-> [count |-> Zero, moved |-> Zero], run |-> 0]]
    /\ archived = [l \in Luid |-> Zero]
    /\ stale = {}
    /\ starts = 0

Machine ==
    \/ \E l \in Luid, d \in Dir : Traffic(l, d)
    \/ \E l \in Luid : CounterReset(l)
    \/ \E present \in SUBSET Luid : Poll(present)
    \/ \E date \in Dates : ClockMoves(date)

Rollover == RolloverFlush \/ ArchiveSucceeds \/ ArchiveFails \/ PruneAndAdvance

Task ==
    \/ \E rule \in Rules : Start(rule)
    \/ Receive
    \/ ReceiveLagged
    \/ DebounceTick
    \/ Rollover
    \/ FlushAndPublish
    \/ ExitRequested
    \/ LastFlush

Next == Machine \/ Task \/ Crash \/ CrashInFlush

Spec == Init /\ [][Next]_vars

-----------------------------------------------------------------------------
(* Properties *)

Running == pc # "down"

\* The tables and the memory hold well-formed values, and the task is at a
\* step it can leave.
TypeOK ==
    /\ today \in Dates
    /\ nic \in [Luid -> Counter]
    /\ channel \in Seq(Reading) /\ Len(channel) <= ChannelCap
    /\ lagged \in BOOLEAN
    /\ current_cycle \in [Luid -> Option(Row)]
    /\ metadata \in Option(Metadata)
    /\ history \in [Luid -> Seq(PastRow)]
    /\ pc \in {"down", "idle", "rollover_flush", "archive", "prune", "flush",
               "last_flush"}
    /\ ret \in {"idle", "flush"}
    /\ config_rule \in Rules
    /\ cycle_start \in Date
    /\ active_cycle_start_day \in CycleStartDay
    /\ accumulator \in [Luid -> Option(AccEntry)]
    /\ archive_defer_count \in 0..ARCHIVE_DEFER_ESCALATION_THRESHOLD
    /\ view \in Option(View)
    /\ mark \in [Luid -> [last : Counter, run : Nat]]
    /\ archived \in [Luid -> Bytes]
    /\ stale \in SUBSET Luid
    /\ starts \in Nat

\* No byte is counted twice: what the history ever received, plus what the
\* current cycle shows (in memory or on disk), never exceeds what the adapter
\* moved by the last reading ingested, whatever is lost, reset, retried after
\* a failed archive, or cut short by a crash.
NoPhantomBytes ==
    \A l \in Luid, d \in Dir :
        /\ l \in Keys(current_cycle) =>
              archived[l][d] + current_cycle[l].bytes[d] <= mark[l].last.moved[d]
        /\ l \in Keys(accumulator) /\ pc # "prune" =>
              archived[l][d] + accumulator[l].bytes[d] <= mark[l].last.moved[d]

\* The reset after a rollover is gated on the archive: the task never enters
\* a cycle while rows it wrote for the previous one are still in
\* current_cycle, where its next flush would overwrite them.  Only rows that
\* were left behind at start-up may belong to another cycle.
NoAdvanceOverRows ==
    Running => \A l \in Keys(current_cycle) :
                  current_cycle[l].start = cycle_start \/ l \in stale

\* R11: as long as current_cycle can be read at start-up, the persisted total
\* of an adapter never falls within a cycle, across flushes that partly fail,
\* crashes, restarts and counter resets.
PersistedNeverFalls ==
    [][\A l \in Keys(current_cycle) \cap Keys(current_cycle)' :
          current_cycle'[l].start = current_cycle[l].start =>
             \A d \in Dir : current_cycle[l].bytes[d] <= current_cycle'[l].bytes[d]]_vars

\* T-16: an adapter's newest archived cycle stays in the history until a newer
\* one is archived, through prunes that fail, repeat or find nothing new; and
\* a prune that works leaves no more than HistoryKeep of them.
LastCycleRetained ==
    [][\A l \in Luid : LET old == history[l]  new == history'[l] IN
          /\ old # <<>> /\ HistoryKeep > 0 =>
                /\ new # <<>>
                /\ new[Len(new)] = old[Len(old)] \/ Len(new) = Len(old) + 1
          /\ new # old /\ Len(new) <= Len(old) => Len(new) = HistoryKeep]_vars

\* "Flush BEFORE archiving ... captured by archive_cycle": when every UPSERT
\* works, an archive takes the task's latest totals into the history, also
\* those no debounce had flushed yet.
ArchivesTheTail ==
    [][pc = "archive" /\ current_cycle' # current_cycle =>
          \A l \in Keys(accumulator) :
             /\ history'[l] # <<>>
             /\ history'[l][Len(history'[l])].bytes = accumulator[l].bytes]_vars

\* A rollover moves to a later cycle: it cannot repeat one or go back.
CycleMovesForward ==
    [][pc = "prune" /\ pc' \notin {"prune", "down"} =>
          DateLT(cycle_start, cycle_start')]_vars

-----------------------------------------------------------------------------
(* Liveness.  The task runs its handlers to the end: each of their steps is *)
(* weakly fair.  tokio's select picks at random among the branches that are *)
(* ready, so the debounce timer, ready again every flush_interval, cannot   *)
(* lose to the readings for ever: strong fairness, because the handlers of  *)
(* the readings take the task away from the select.  Nothing makes the user *)
(* quit, the clock move or a byte arrive.                                   *)

Fairness ==
    /\ WF_vars(RolloverFlush)
    /\ WF_vars(ArchiveSucceeds \/ ArchiveFails)
    /\ WF_vars(PruneAndAdvance)
    /\ WF_vars(FlushAndPublish)
    /\ WF_vars(LastFlush)
    /\ SF_vars(DebounceTick)

FairSpec == Spec /\ Fairness

\* The database fails, but not every time for ever.
StoreRecovers == SF_vars(ArchiveSucceeds)

Overdue == Running /\ CycleIsOver
Banner == view # Nil /\ view.degraded

\* A cycle that is over is turned over or, if the archive keeps failing, the
\* user is told: the failures are never silent for ever.
TurnsOverOrTells == Overdue ~> (~Overdue \/ Banner)

\* A program that runs, or sleeps, past the end of one or several cycles gets
\* to the cycle of today, each failed archive being retried.
CatchesUp == StoreRecovers => (Overdue ~> ~Overdue)

\* The banner goes away once the archive has worked again.
BannerClears == StoreRecovers => (Banner ~> ~Banner)

-----------------------------------------------------------------------------
(* What the documentation and the comments say, which the code does not do. *)

\* PRD 5.5 item 1: the cycle runs through the whole of its last day.
LastDayBelongsToCycle ==
    [][pc = "archive" /\ pc' = "prune" => DateLT(CycleEnd, today)]_vars

\* BandwidthAccountant::new: "a restart mid-cycle resumes the correct cycle".
\* The persisted cycle has begun, has rows and is not over: the new run is in it.
RestartResumesCycle ==
    [][/\ ~Running /\ Running'
       /\ metadata # Nil
       /\ DateLE(metadata.start, today)
       /\ DateLT(today, EndOfCycle(metadata.rule, metadata.start))
       /\ \E l \in Keys(current_cycle) : current_cycle[l].start = metadata.start
       => cycle_start' = metadata.start]_vars

\* PRD 12: "Rollover survives a simulated app-restart-during-cycle-boundary":
\* a restart does not go back to a cycle already turned over.
RolloverSurvivesRestart ==
    [][~Running /\ Running' /\ metadata # Nil =>
          DateLE(metadata.start, cycle_start')]_vars

\* BandwidthAccountant::new: rows of an earlier cycle are skipped, and "the
\* rollover check will archive them": they are not overwritten before.
SkippedRowsAreArchived ==
    [][\A l \in Keys(current_cycle) \cap Keys(current_cycle)' :
          current_cycle'[l].start = current_cycle[l].start]_vars

\* PRD 5.5 item 5: "no data loss across the boundary".  While an adapter's
\* counter only rises, two readings ingested in one run differ by the bytes
\* that are counted in between.
Counted(l) ==
    IF pc = "prune" \/ accumulator[l] = Nil THEN archived[l]
    ELSE Plus(archived[l], accumulator[l].bytes)

NoLossAcrossBoundary ==
    [][\A l \in Luid :
          (/\ mark'[l] # mark[l]
           /\ mark'[l].run = mark[l].run
           /\ \A d \in Dir : mark'[l].last.moved[d] - mark[l].last.moved[d]
                             = mark'[l].last.count[d] - mark[l].last.count[d])
          => \A d \in Dir : Counted(l)'[d] - Counted(l)[d]
                            = mark'[l].last.moved[d] - mark[l].last.moved[d]]_vars

=============================================================================
