--------------------- MODULE BandwidthAccountantProofs ---------------------
(***************************************************************************)
(* Theorems about BandwidthAccountant, for every set of adapters, dates,   *)
(* rules and faults, and every bound: first the types, then safety.  Two   *)
(* inductive invariants carry the latter: Handover ties the rows of        *)
(* current_cycle to the task that wrote them, and AllCounted ties every    *)
(* total to the bytes moved.                                               *)
(***************************************************************************)
EXTENDS BandwidthAccountant, BillingProofs, SequenceTheorems

-----------------------------------------------------------------------------
(* The operators keep their types *)

LEMMA NilIsNothing ==
    /\ Nil \notin Bytes /\ Nil \notin Counter /\ Nil \notin Row
    /\ Nil \notin AccEntry /\ Nil \notin Metadata /\ Nil \notin View
  BY NilAssumption

LEMMA ZeroType == Zero \in Bytes
  BY DEF Zero, Bytes

LEMMA PlusType ==
    ASSUME NEW a \in Bytes, NEW b \in Bytes
    PROVE  Plus(a, b) \in Bytes
  BY DEF Plus, Bytes

\* The T-23 contract never yields a negative delta, and never one larger than
\* the counter itself.
LEMMA DeltaBounds ==
    ASSUME NEW prev \in Nat, NEW counter \in Nat
    PROVE  Delta(prev, counter) \in 0..counter
  BY DEF Delta

\* add_delta only adds.
LEMMA AddDeltaGrows ==
    ASSUME NEW entry \in AccEntry, NEW counter \in Bytes
    PROVE  /\ add_delta(entry, counter) \in AccEntry
           /\ \A d \in Dir : entry.bytes[d] <= add_delta(entry, counter).bytes[d]
           /\ add_delta(entry, counter).prev = counter
<1> DEFINE new == add_delta(entry, counter)
<1>1. entry.bytes \in Bytes
  BY DEF AccEntry
<1>2. CASE entry.prev = Nil
  <2>1. new = [bytes |-> entry.bytes, prev |-> counter]
    BY <1>2 DEF add_delta
  <2>. QED BY <1>1, <2>1 DEF AccEntry, Option, Bytes
<1>3. CASE entry.prev # Nil
  <2> DEFINE sum == [d \in Dir |-> entry.bytes[d] + Delta(entry.prev[d], counter[d])]
  <2>1. entry.prev \in Bytes
    BY <1>3 DEF AccEntry, Option
  <2>2. new = [bytes |-> sum, prev |-> counter]
    BY <1>3 DEF add_delta
  <2>3. \A d \in Dir : sum[d] \in Nat /\ entry.bytes[d] <= sum[d]
    <3>1. \A d \in Dir : Delta(entry.prev[d], counter[d]) \in Nat
      <4>1. \A d \in Dir : entry.prev[d] \in Nat /\ counter[d] \in Nat
        BY <2>1 DEF Bytes
      <4>2. \A p \in Nat, c \in Nat : Delta(p, c) \in Nat
        BY DEF Delta
      <4>. QED BY <4>1, <4>2
    <3>. QED BY <1>1, <3>1 DEF Bytes
  <2>. QED BY <2>2, <2>3 DEF AccEntry, Option, Bytes
<1>. QED BY <1>2, <1>3

LEMMA NewEntryType == NewEntry \in AccEntry
  BY ZeroType DEF NewEntry, AccEntry, Option

\* A tick keeps every adapter, and no total falls.
LEMMA IngestGrows ==
    ASSUME NEW acc \in [Luid -> Option(AccEntry)], NEW reading \in Reading
    PROVE  /\ ingest(acc, reading) \in [Luid -> Option(AccEntry)]
           /\ \A l \in Luid : acc[l] # Nil =>
                 /\ ingest(acc, reading)[l] # Nil
                 /\ \A d \in Dir : acc[l].bytes[d] <= ingest(acc, reading)[l].bytes[d]
<1> DEFINE new == ingest(acc, reading)
<1>1. \A l \in Luid : new[l] = IF reading[l] = Nil THEN acc[l]
             ELSE add_delta(IF acc[l] = Nil THEN NewEntry ELSE acc[l], reading[l].count)
  BY DEF ingest
<1>2. ASSUME NEW l \in Luid, reading[l] # Nil, acc[l] # Nil
      PROVE  /\ new[l] \in AccEntry
             /\ \A d \in Dir : acc[l].bytes[d] <= new[l].bytes[d]
  <2>1. acc[l] \in AccEntry /\ reading[l].count \in Bytes
    BY <1>2 DEF Option, Reading, Counter
  <2>. QED BY <1>1, <1>2, <2>1, AddDeltaGrows
<1>3. ASSUME NEW l \in Luid, reading[l] # Nil, acc[l] = Nil
      PROVE  new[l] \in AccEntry
  <2>1. reading[l].count \in Bytes
    BY <1>3 DEF Option, Reading, Counter
  <2>. QED BY <1>1, <1>3, <2>1, AddDeltaGrows, NewEntryType
<1>4. ASSUME NEW l \in Luid, reading[l] = Nil
      PROVE  new[l] = acc[l]
  BY <1>1, <1>4
<1>5. \A l \in Luid : acc[l] # Nil => \A d \in Dir : acc[l].bytes[d] \in Nat
  BY DEF Option, AccEntry, Bytes
<1>6. new \in [Luid -> Option(AccEntry)]
  <2>1. \A l \in Luid : new[l] \in Option(AccEntry)
    BY <1>2, <1>3, <1>4 DEF Option
  <2>2. new = [l \in Luid |-> new[l]]
    BY DEF ingest
  <2>. QED BY <2>1, <2>2
<1>7. ASSUME NEW l \in Luid, acc[l] # Nil
      PROVE  new[l] # Nil /\ \A d \in Dir : acc[l].bytes[d] <= new[l].bytes[d]
  <2>1. CASE reading[l] = Nil
    BY <1>4, <1>5, <1>7, <2>1
  <2>2. CASE reading[l] # Nil
    BY <1>2, <1>7, <2>2, NilIsNothing
  <2>. QED BY <2>1, <2>2
<1>. QED BY <1>6, <1>7

\* A flush writes rows of the task's cycle, and touches no other row.
LEMMA FlushedRowsType ==
    ASSUME TypeOK, NEW saved \in SUBSET Keys(accumulator)
    PROVE  /\ FlushedRows(saved) \in [Luid -> Option(Row)]
           /\ \A l \in saved : /\ FlushedRows(saved)[l].start = cycle_start
                               /\ FlushedRows(saved)[l].bytes = accumulator[l].bytes
           /\ \A l \in Luid \ saved : FlushedRows(saved)[l] = current_cycle[l]
<1>1. \A l \in saved : l \in Luid /\ accumulator[l] # Nil
  BY DEF Keys
<1>2. \A l \in saved : accumulator[l].bytes \in Bytes
  BY <1>1 DEF TypeOK, Option, AccEntry
<1>3. cycle_start \in Date /\ current_cycle \in [Luid -> Option(Row)]
  BY DEF TypeOK
<1>. QED BY <1>1, <1>2, <1>3 DEF FlushedRows, Option, Row

LEMMA FlushType ==
    ASSUME TypeOK, flush
    PROVE  /\ metadata' \in Option(Metadata)
           /\ \E saved \in SUBSET Keys(accumulator) : current_cycle' = FlushedRows(saved)
           /\ current_cycle' \in [Luid -> Option(Row)]
<1>1. PICK ok \in Result("meta"), saved \in Saved :
         metadata' = FlushedMetadata(ok) /\ current_cycle' = FlushedRows(saved)
  BY DEF flush
<1>2. saved \in SUBSET Keys(accumulator)
  BY <1>1 DEF Saved
<1>3. FlushedMetadata(ok) \in Option(Metadata)
  BY DEF FlushedMetadata, TypeOK, Option, Metadata
<1>. QED BY <1>1, <1>2, <1>3, FlushedRowsType

LEMMA CycleEndType ==
    ASSUME TypeOK
    PROVE  /\ CycleEnd \in Date
           /\ next_cycle_start(CycleEnd) \in Date
           /\ DateLT(cycle_start, next_cycle_start(CycleEnd))
  BY NextCycleIsLater DEF TypeOK, CycleEnd

LEMMA NewestType ==
    ASSUME NEW rows \in Seq(PastRow), NEW keep \in Nat
    PROVE  Newest(keep, rows) \in Seq(PastRow)
<1>1. CASE Len(rows) <= keep
  BY <1>1 DEF Newest
<1>2. CASE ~(Len(rows) <= keep)
  <2>1. Len(rows) \in Nat
    OBVIOUS
  <2>2. /\ Len(rows) - keep + 1 \in 1..Len(rows) + 1
        /\ Len(rows) \in (Len(rows) - keep + 1) - 1 .. Len(rows)
    BY <1>2, <2>1
  <2>3. Newest(keep, rows) = SubSeq(rows, Len(rows) - keep + 1, Len(rows))
    BY <1>2 DEF Newest
  <2>. QED BY <2>1, <2>2, <2>3, SubSeqProperties
<1>. QED BY <1>1, <1>2

\* What BandwidthAccountant::new starts from is a cycle and a rule.
LEMMA ResumedTypes ==
    ASSUME NEW rows \in [Luid -> Option(Row)], NEW meta \in Option(Metadata),
           NEW rule \in CycleStartDay, today \in Date,
           NEW start \in ResumedStarts(rows, rule)
    PROVE  /\ start \in Date
           /\ ResumedRule(rows, meta, start, rule) \in CycleStartDay
           /\ Rehydrated(rows, start) \in [Luid -> Option(AccEntry)]
<1>1. \A l \in Keys(rows) : l \in Luid /\ rows[l] \in Row
  BY DEF Keys, Option
<1>2. InWindow(rows) \subseteq Date
  BY <1>1 DEF InWindow, Row
<1>3. start \in Date
  BY <1>2, CycleStartIsDate DEF ResumedStarts
<1>4. ResumedRule(rows, meta, start, rule) \in CycleStartDay
  BY <1>3, InferredRule DEF ResumedRule, Option, Metadata
<1>5. Rehydrated(rows, start) \in [Luid -> Option(AccEntry)]
  BY <1>1 DEF Rehydrated, Option, AccEntry, Row
<1>. QED BY <1>3, <1>4, <1>5

LEMMA EmptyType ==
    /\ Empty \in [Luid -> Option(Row)]
    /\ Empty \in [Luid -> Option(AccEntry)]
  BY DEF Empty, Option

LEMMA EmptyChannel == <<>> \in Seq(Reading) /\ Len(<<>>) <= ChannelCap
<1>1. Len(<<>>) = 0 /\ ChannelCap \in Nat
  BY BoundsAssumption
<1>. QED BY <1>1

-----------------------------------------------------------------------------
(* Type correctness *)

LEMMA InitTypeOK == Init => TypeOK
<1> SUFFICES ASSUME Init PROVE TypeOK
  OBVIOUS
<1>1. today \in Dates /\ today \in Date /\ config_rule \in Rules
      /\ config_rule \in CycleStartDay
  BY DatesAssumption, RulesAssumption DEF Init
<1>2. cycle_start \in Date
  BY <1>1, CycleStartIsDate DEF Init
<1>3. nic \in [Luid -> Counter] /\ mark \in [Luid -> [last : Counter, run : Nat]]
  BY ZeroType DEF Init, Counter
<1>4. archived \in [Luid -> Bytes] /\ history \in [Luid -> Seq(PastRow)]
  BY ZeroType DEF Init
<1>5. channel \in Seq(Reading) /\ Len(channel) <= ChannelCap
  BY EmptyChannel DEF Init
<1>6. current_cycle \in [Luid -> Option(Row)] /\ accumulator \in [Luid -> Option(AccEntry)]
  BY EmptyType DEF Init
<1>7. metadata \in Option(Metadata) /\ view \in Option(View)
  BY DEF Init, Option
<1>8. pc = "down" /\ ret = "idle" /\ lagged \in BOOLEAN
  BY DEF Init
<1>9. active_cycle_start_day \in CycleStartDay /\ stale \in SUBSET Luid
  BY <1>1 DEF Init
<1>10. starts \in Nat /\ archive_defer_count \in 0..ARCHIVE_DEFER_ESCALATION_THRESHOLD
  BY DEF Init, ARCHIVE_DEFER_ESCALATION_THRESHOLD
<1>. QED
  BY <1>1, <1>2, <1>3, <1>4, <1>5, <1>6, <1>7, <1>8, <1>9, <1>10 DEF TypeOK

LEMMA ProcessGoneType ==
    ASSUME TypeOK, ProcessGone, UNCHANGED <<today, nic>>,
           current_cycle' \in [Luid -> Option(Row)],
           metadata' \in Option(Metadata)
    PROVE  TypeOK'
<1>1. accumulator' \in [Luid -> Option(AccEntry)]
  BY EmptyType DEF ProcessGone
<1>2. channel' \in Seq(Reading) /\ Len(channel') <= ChannelCap /\ lagged' \in BOOLEAN
  BY EmptyChannel DEF ProcessGone
<1>3. view' \in Option(View) /\ pc' = "down"
      /\ archive_defer_count' \in 0..ARCHIVE_DEFER_ESCALATION_THRESHOLD
  BY DEF ProcessGone, Option, ARCHIVE_DEFER_ESCALATION_THRESHOLD
<1>. QED
  BY <1>1, <1>2, <1>3 DEF ProcessGone, TypeOK, ghosts

LEMMA TypeOKStep == TypeOK /\ [Next]_vars => TypeOK'
<1> SUFFICES ASSUME TypeOK, [Next]_vars PROVE TypeOK'
  OBVIOUS
<1>0. today \in Date /\ Dates \subseteq Date /\ Rules \subseteq CycleStartDay
  BY DatesAssumption, RulesAssumption DEF TypeOK
<1>1. ASSUME NEW l \in Luid, NEW d \in Dir, Traffic(l, d) PROVE TypeOK'
  <2>1. nic' \in [Luid -> Counter]
    <3>1. nic[l].count \in Bytes /\ nic[l].moved \in Bytes
      BY DEF TypeOK, Counter
    <3>2. /\ [nic[l].count EXCEPT ![d] = @ + 1] \in Bytes
          /\ [nic[l].moved EXCEPT ![d] = @ + 1] \in Bytes
      BY <3>1 DEF Bytes
    <3>. QED BY <1>1, <3>2 DEF Traffic, TypeOK, Counter
  <2>. QED BY <1>1, <2>1 DEF Traffic, TypeOK, db, task, ghosts
<1>2. ASSUME NEW l \in Luid, CounterReset(l) PROVE TypeOK'
  <2>1. nic' \in [Luid -> Counter]
    BY <1>2, ZeroType DEF CounterReset, TypeOK, Counter
  <2>. QED BY <1>2, <2>1 DEF CounterReset, TypeOK, db, task, ghosts
<1>3. ASSUME NEW present \in SUBSET Luid, Poll(present) PROVE TypeOK'
  <2> DEFINE reading == [l \in Luid |-> IF l \in present THEN nic[l] ELSE Nil]
  <2>1. reading \in Reading
    BY DEF Reading, Option, TypeOK
  <2>2. channel' \in Seq(Reading) /\ Len(channel') <= ChannelCap /\ lagged' \in BOOLEAN
    <3>1. channel \in Seq(Reading) /\ Len(channel) <= ChannelCap /\ lagged \in BOOLEAN
      BY DEF TypeOK
    <3>2. CASE Len(channel) < ChannelCap
      BY <1>3, <2>1, <3>1, <3>2, BoundsAssumption DEF Poll
    <3>3. CASE ~(Len(channel) < ChannelCap)
      <4>1. channel' = Append(Tail(channel), reading) /\ lagged' = TRUE
        BY <1>3, <3>3 DEF Poll
      <4>2. channel # <<>> /\ Tail(channel) \in Seq(Reading)
            /\ Len(Tail(channel)) = Len(channel) - 1
        BY <3>1, <3>3, BoundsAssumption
      <4>. QED BY <2>1, <3>1, <4>1, <4>2, BoundsAssumption
    <3>. QED BY <3>2, <3>3
  <2>. QED BY <1>3, <2>2 DEF Poll, TypeOK, db, task, ghosts
<1>4. ASSUME NEW date \in Dates, ClockMoves(date) PROVE TypeOK'
  BY <1>4 DEF ClockMoves, TypeOK, db, task, ghosts
<1>5. ASSUME NEW rule \in Rules, Start(rule) PROVE TypeOK'
  <2>1. PICK loaded \in Result("load"), loadedMeta \in Result("load_meta") :
           LET rows == IF loaded THEN current_cycle ELSE Empty
               meta == IF loadedMeta THEN metadata ELSE Nil
           IN  \E start \in ResumedStarts(rows, rule) :
                 /\ cycle_start' = start
                 /\ active_cycle_start_day' = ResumedRule(rows, meta, start, rule)
                 /\ accumulator' = Rehydrated(rows, start)
                 /\ stale' = { l \in Keys(current_cycle) :
                                  current_cycle[l].start # start }
    BY <1>5 DEF Start
  <2> DEFINE rows == IF loaded THEN current_cycle ELSE Empty
             meta == IF loadedMeta THEN metadata ELSE Nil
  <2>2. rows \in [Luid -> Option(Row)] /\ meta \in Option(Metadata)
    BY EmptyType DEF TypeOK, Option
  <2>3. rule \in CycleStartDay
    BY <1>0
  <2>4. /\ cycle_start' \in Date
        /\ active_cycle_start_day' \in CycleStartDay
        /\ accumulator' \in [Luid -> Option(AccEntry)]
    BY <1>0, <2>1, <2>2, <2>3, ResumedTypes
  <2>5. stale' \in SUBSET Luid
    BY <2>1 DEF Keys
  <2>6. channel' \in Seq(Reading) /\ Len(channel') <= ChannelCap /\ lagged' \in BOOLEAN
    BY <1>5, EmptyChannel DEF Start
  <2>. QED
    BY <1>5, <2>4, <2>5, <2>6
    DEF Start, TypeOK, db, ARCHIVE_DEFER_ESCALATION_THRESHOLD
<1>6. ASSUME Receive PROVE TypeOK'
  <2>1. /\ Head(channel) \in Reading /\ Tail(channel) \in Seq(Reading)
        /\ Len(Tail(channel)) <= ChannelCap
    BY <1>6, BoundsAssumption DEF Receive, TypeOK
  <2>2. accumulator' \in [Luid -> Option(AccEntry)]
    BY <1>6, <2>1, IngestGrows DEF Receive, TypeOK
  <2>3. mark' \in [Luid -> [last : Counter, run : Nat]]
    BY <1>6, <2>1 DEF Receive, TypeOK, Reading, Option
  <2>4. /\ pc' \in {"idle", "rollover_flush"} /\ ret' \in {"idle", "flush"}
        /\ channel' = Tail(channel)
    BY <1>6 DEF Receive, check_rollover, TypeOK
  <2>. QED BY <1>6, <2>1, <2>2, <2>3, <2>4 DEF Receive, TypeOK, db
<1>7. ASSUME ReceiveLagged PROVE TypeOK'
  BY <1>7 DEF ReceiveLagged, TypeOK, db, task, ghosts
<1>8. ASSUME DebounceTick PROVE TypeOK'
  <2>1. pc' \in {"flush", "rollover_flush"} /\ ret' \in {"idle", "flush"}
    BY <1>8 DEF DebounceTick, check_rollover, TypeOK
  <2>. QED BY <1>8, <2>1 DEF DebounceTick, TypeOK, machine, db, task, ghosts
<1>9. ASSUME RolloverFlush PROVE TypeOK'
  BY <1>9, FlushType DEF RolloverFlush, TypeOK, machine, task, ghosts
<1>10. ASSUME ArchiveSucceeds PROVE TypeOK'
  <2>1. current_cycle' \in [Luid -> Option(Row)]
    BY <1>10, EmptyType DEF ArchiveSucceeds
  <2>2. \A l \in Luid : current_cycle[l] # Nil => current_cycle[l] \in Row
    BY DEF TypeOK, Option
  <2>3. history' \in [Luid -> Seq(PastRow)]
    <3> DEFINE past(l) == [start |-> current_cycle[l].start, end |-> CycleEnd,
                           bytes |-> current_cycle[l].bytes]
    <3>1. \A l \in Luid : current_cycle[l] # Nil => past(l) \in PastRow
      BY <2>2, CycleEndType DEF Row, PastRow
    <3>2. \A l \in Luid : history[l] \in Seq(PastRow)
      BY DEF TypeOK
    <3>3. \A l \in Luid : current_cycle[l] # Nil =>
             Append(history[l], past(l)) \in Seq(PastRow)
      BY <3>1, <3>2
    <3>4. history' = [l \in Luid |-> IF current_cycle[l] = Nil THEN history[l]
                                     ELSE Append(history[l], past(l))]
      BY <1>10 DEF ArchiveSucceeds, ArchivedHistory
    <3>. QED BY <3>2, <3>3, <3>4
  <2>4. archived' \in [Luid -> Bytes]
    BY <1>10, <2>2, PlusType DEF ArchiveSucceeds, TypeOK, Keys, Row
  <2>. QED BY <1>10, <2>1, <2>3, <2>4 DEF ArchiveSucceeds, TypeOK, machine, task
<1>11. ASSUME ArchiveFails PROVE TypeOK'
  <2>1. archive_defer_count' \in 0..ARCHIVE_DEFER_ESCALATION_THRESHOLD
    BY <1>11 DEF ArchiveFails, TypeOK, ARCHIVE_DEFER_ESCALATION_THRESHOLD
  <2>. QED BY <1>11, <2>1 DEF ArchiveFails, TypeOK, machine, db, ghosts
<1>12. ASSUME PruneAndAdvance PROVE TypeOK'
  <2>1. history' \in [Luid -> Seq(PastRow)]
    <3>1. PrunedHistory \in [Luid -> Seq(PastRow)]
      BY NewestType, BoundsAssumption DEF PrunedHistory, TypeOK
    <3>. QED BY <1>12, <3>1 DEF PruneAndAdvance, TypeOK
  <2>2. /\ cycle_start' \in Date /\ active_cycle_start_day' \in CycleStartDay
        /\ accumulator' \in [Luid -> Option(AccEntry)]
    BY <1>0, <1>12, CycleEndType, EmptyType DEF PruneAndAdvance, TypeOK
  <2>. QED
    BY <1>12, <2>1, <2>2
    DEF PruneAndAdvance, TypeOK, machine, ghosts, ARCHIVE_DEFER_ESCALATION_THRESHOLD
<1>13. ASSUME FlushAndPublish PROVE TypeOK'
  <2>1. view' \in Option(View)
    <3> DEFINE totals == [l \in Luid |-> IF accumulator[l] = Nil THEN Nil
                                         ELSE accumulator[l].bytes]
    <3>1. totals \in [Luid -> Option(Bytes)]
      BY DEF TypeOK, Option, AccEntry
    <3>2. view' = IF ViewAttached
                  THEN [totals |-> totals, reset |-> CycleEnd,
                        degraded |-> archive_defer_count
                                       >= ARCHIVE_DEFER_ESCALATION_THRESHOLD]
                  ELSE view
      BY <1>13 DEF FlushAndPublish, publish_view
    <3>. QED BY <3>1, <3>2, CycleEndType DEF TypeOK, View, Option
  <2>. QED BY <1>13, <2>1, FlushType DEF FlushAndPublish, TypeOK, machine, ghosts
<1>14. ASSUME ExitRequested PROVE TypeOK'
  BY <1>14 DEF ExitRequested, TypeOK, machine, db, task, ghosts
<1>15. ASSUME LastFlush PROVE TypeOK'
  BY <1>15, FlushType, ProcessGoneType DEF LastFlush, ProcessGone
<1>16. ASSUME Crash PROVE TypeOK'
  <2>1. current_cycle' \in [Luid -> Option(Row)] /\ metadata' \in Option(Metadata)
    BY <1>16 DEF Crash, TypeOK
  <2>. QED BY <1>16, <2>1, ProcessGoneType DEF Crash, ProcessGone
<1>17. ASSUME CrashInFlush PROVE TypeOK'
  <2>1. current_cycle' \in [Luid -> Option(Row)]
    BY <1>17, FlushedRowsType DEF CrashInFlush
  <2>2. metadata' \in Option(Metadata)
    BY <1>17 DEF CrashInFlush, FlushedMetadata, TypeOK, Option, Metadata
  <2>. QED BY <1>17, <2>1, <2>2, ProcessGoneType DEF CrashInFlush, ProcessGone
<1>18. CASE UNCHANGED vars
  BY <1>18 DEF vars, TypeOK, machine, db, task, ghosts
<1>. QED
  BY <1>1, <1>2, <1>3, <1>4, <1>5, <1>6, <1>7, <1>8, <1>9, <1>10, <1>11, <1>12,
     <1>13, <1>14, <1>15, <1>16, <1>17, <1>18
  DEF Next, Machine, Task, Rollover

\* The accountant, its tables and the machine only ever hold well-formed
\* values: in particular every cycle start it computes is a calendar date and
\* every total is a natural number.
THEOREM TypeCorrect == Spec => []TypeOK
<1>. QED BY InitTypeOK, TypeOKStep, PTL DEF Spec

-----------------------------------------------------------------------------
(* The steps, by what they do to the tables and to the totals *)

\* A step of the machine, or one of the task that only goes to another step.
Quiet ==
    /\ UNCHANGED <<current_cycle, history, accumulator, cycle_start,
                   active_cycle_start_day, mark, archived, stale, starts>>
    /\ \/ pc' = pc
       \/ /\ pc \in {"idle", "archive"}
          /\ pc' \in {"idle", "rollover_flush", "flush", "last_flush"}

\* A flush that ends a handler, one before an archive, or one a crash cut short.
FlushSome ==
    /\ pc \in {"rollover_flush", "flush", "last_flush"}
    /\ \E saved \in SUBSET Keys(accumulator) : current_cycle' = FlushedRows(saved)
    /\ pc' = "archive" => flush
    /\ \/ UNCHANGED accumulator /\ pc' \in {"archive", "idle"}
       \/ accumulator' = Empty /\ pc' = "down"
    /\ UNCHANGED <<history, cycle_start, active_cycle_start_day, mark, archived,
                   stale, starts>>

LEMMA StepsByEffect ==
    ASSUME TypeOK, [Next]_vars
    PROVE  \/ Quiet
           \/ \E rule \in Rules : Start(rule)
           \/ Receive
           \/ FlushSome
           \/ ArchiveSucceeds
           \/ PruneAndAdvance
           \/ Crash
<1>1. ASSUME NEW l \in Luid, NEW d \in Dir, Traffic(l, d) PROVE Quiet
  BY <1>1 DEF Traffic, Quiet, db, task, ghosts
<1>2. ASSUME NEW l \in Luid, CounterReset(l) PROVE Quiet
  BY <1>2 DEF CounterReset, Quiet, db, task, ghosts
<1>3. ASSUME NEW present \in SUBSET Luid, Poll(present) PROVE Quiet
  BY <1>3 DEF Poll, Quiet, db, task, ghosts
<1>4. ASSUME NEW date \in Dates, ClockMoves(date) PROVE Quiet
  BY <1>4 DEF ClockMoves, Quiet, db, task, ghosts
<1>5. ASSUME ReceiveLagged PROVE Quiet
  BY <1>5 DEF ReceiveLagged, Quiet, db, task, ghosts
<1>6. ASSUME DebounceTick PROVE Quiet
  BY <1>6 DEF DebounceTick, check_rollover, Quiet, db, task, ghosts
<1>7. ASSUME ExitRequested PROVE Quiet
  BY <1>7 DEF ExitRequested, Quiet, db, task, ghosts
<1>8. ASSUME ArchiveFails PROVE Quiet
  BY <1>8 DEF ArchiveFails, TypeOK, Quiet, db, ghosts
<1>9. ASSUME RolloverFlush PROVE FlushSome
  BY <1>9, FlushType DEF RolloverFlush, FlushSome, task, ghosts
<1>10. ASSUME FlushAndPublish PROVE FlushSome
  BY <1>10, FlushType DEF FlushAndPublish, FlushSome, ghosts
<1>11. ASSUME LastFlush PROVE FlushSome
  BY <1>11, FlushType DEF LastFlush, ProcessGone, FlushSome, ghosts
<1>12. ASSUME CrashInFlush PROVE FlushSome
  BY <1>12 DEF CrashInFlush, ProcessGone, FlushSome, ghosts
<1>13. CASE UNCHANGED vars
  BY <1>13 DEF vars, Quiet, db, task, ghosts
<1>. QED
  BY <1>1, <1>2, <1>3, <1>4, <1>5, <1>6, <1>7, <1>8, <1>9, <1>10, <1>11, <1>12,
     <1>13
  DEF Next, Machine, Task, Rollover

-----------------------------------------------------------------------------
(* NoAdvanceOverRows: the advance finds the table empty, because nothing   *)
(* runs between the archive's DELETE and the advance.                      *)

Handover ==
    /\ NoAdvanceOverRows
    /\ pc = "prune" => current_cycle = Empty

LEMMA HandoverStep == TypeOK /\ Handover /\ [Next]_vars => Handover'
<1> SUFFICES ASSUME TypeOK, Handover, [Next]_vars PROVE Handover'
  OBVIOUS
<1>1. ASSUME Quiet PROVE Handover'
  BY <1>1 DEF Quiet, Handover, NoAdvanceOverRows, Running, Keys, Empty
<1>2. ASSUME NEW rule \in Rules, Start(rule) PROVE Handover'
  BY <1>2 DEF Start, Handover, NoAdvanceOverRows, Running, Keys, db
<1>3. ASSUME Receive PROVE Handover'
  BY <1>3 DEF Receive, check_rollover, Handover, NoAdvanceOverRows, Running, Keys, db
<1>4. ASSUME FlushSome PROVE Handover'
  <2>1. PICK saved \in SUBSET Keys(accumulator) : current_cycle' = FlushedRows(saved)
    BY <1>4 DEF FlushSome
  <2>2. ASSUME NEW l \in Luid
        PROVE  \/ current_cycle'[l] = current_cycle[l]
               \/ current_cycle'[l].start = cycle_start
    <3>1. CASE l \in saved
      BY <2>1, <3>1, FlushedRowsType
    <3>2. CASE l \notin saved
      BY <2>1, <3>2, FlushedRowsType
    <3>. QED BY <3>1, <3>2
  <2>3. Running /\ pc' # "prune" /\ cycle_start' = cycle_start /\ stale' = stale
    BY <1>4 DEF FlushSome, Running
  <2>4. ASSUME NEW l \in Luid, current_cycle'[l] # Nil
        PROVE  current_cycle'[l].start = cycle_start \/ l \in stale
    BY <2>2, <2>3, <2>4 DEF Handover, NoAdvanceOverRows, Keys
  <2>. QED BY <2>3, <2>4 DEF Handover, NoAdvanceOverRows, Keys
<1>5. ASSUME ArchiveSucceeds PROVE Handover'
  BY <1>5 DEF ArchiveSucceeds, Handover, NoAdvanceOverRows, Keys, Empty
<1>6. ASSUME PruneAndAdvance PROVE Handover'
  <2>1. current_cycle' = Empty /\ pc' # "prune"
    BY <1>6 DEF PruneAndAdvance, Handover, TypeOK
  <2>. QED BY <2>1 DEF Handover, NoAdvanceOverRows, Keys, Empty
<1>7. ASSUME Crash PROVE Handover'
  BY <1>7 DEF Crash, ProcessGone, Handover, NoAdvanceOverRows, Running
<1>. QED BY <1>1, <1>2, <1>3, <1>4, <1>5, <1>6, <1>7, StepsByEffect

\* The reset after a rollover is gated on a successful archive: the task never
\* enters a cycle over rows it still has in current_cycle.
THEOREM AdvanceIsGated == Spec => []NoAdvanceOverRows
<1>1. Init => Handover
  BY DEF Init, Handover, NoAdvanceOverRows, Running
<1>. QED BY <1>1, InitTypeOK, TypeOKStep, HandoverStep, PTL DEF Spec, Handover

-----------------------------------------------------------------------------
(* CycleMovesForward: the advance is the only step that leaves "prune" alive *)

\* The cycle start a rollover installs is later than the one it leaves,
\* whatever rule the configuration names and wherever the clock is.
THEOREM RolloverMovesForward == Spec => CycleMovesForward
<1> DEFINE Forward == pc = "prune" /\ pc' \notin {"prune", "down"} =>
                         DateLT(cycle_start, cycle_start')
<1>1. ASSUME TypeOK, [Next]_vars, pc = "prune", pc' \notin {"prune", "down"}
      PROVE  PruneAndAdvance
  <2>1. ~Quiet /\ ~FlushSome /\ ~Crash
    BY <1>1 DEF Quiet, FlushSome, Crash, ProcessGone
  <2>2. ~Receive /\ ~ArchiveSucceeds /\ \A rule \in Rules : ~Start(rule)
    BY <1>1 DEF Receive, ArchiveSucceeds, Start
  <2>. QED BY <1>1, <2>1, <2>2, StepsByEffect
<1>2. TypeOK /\ [Next]_vars => [Forward]_vars
  BY <1>1, CycleEndType DEF PruneAndAdvance
<1>. QED BY <1>2, InitTypeOK, TypeOKStep, PTL DEF Spec, CycleMovesForward

-----------------------------------------------------------------------------
(* PersistedNeverFalls: the task's totals are never behind the rows of its *)
(* cycle, because a start reads them back and add_delta only adds.         *)

RowsBehindTotals ==
    Running => \A l \in Keys(current_cycle) :
                  current_cycle[l].start = cycle_start =>
                     /\ accumulator[l] # Nil
                     /\ \A d \in Dir :
                           current_cycle[l].bytes[d] <= accumulator[l].bytes[d]

\* With the numbers a comparison of totals needs.
LEMMA TotalsAreNumbers ==
    ASSUME TypeOK
    PROVE  /\ \A l \in Keys(current_cycle) : current_cycle[l].bytes \in Bytes
           /\ \A l \in Keys(accumulator) : accumulator[l].bytes \in Bytes
           /\ \A l \in Keys(current_cycle) : \A d \in Dir :
                 current_cycle[l].bytes[d] \in Nat
           /\ \A l \in Keys(accumulator) : \A d \in Dir :
                 accumulator[l].bytes[d] \in Nat
<1>1. \A l \in Keys(current_cycle) : current_cycle[l].bytes \in Bytes
  BY DEF TypeOK, Keys, Option, Row
<1>2. \A l \in Keys(accumulator) : accumulator[l].bytes \in Bytes
  BY DEF TypeOK, Keys, Option, AccEntry
<1>. QED BY <1>1, <1>2 DEF Bytes

LEMMA RehydratedTotals ==
    ASSUME NEW rows \in [Luid -> Option(Row)], NEW l \in Keys(rows)
    PROVE  LET entry == Rehydrated(rows, rows[l].start)[l]
           IN  entry # Nil /\ entry.bytes = rows[l].bytes
<1> DEFINE entry == [bytes |-> rows[l].bytes, prev |-> Nil]
<1>1. Rehydrated(rows, rows[l].start)[l] = entry
  BY DEF Rehydrated, Keys
<1>2. rows[l].bytes \in Bytes
  BY DEF Keys, Option, Row
<1>3. entry \in AccEntry /\ entry.bytes = rows[l].bytes
  BY <1>2 DEF AccEntry, Option
<1>. HIDE DEF entry
<1>. QED BY <1>1, <1>3, NilIsNothing

LEMMA RowsBehindTotalsStep ==
    ASSUME "load" \notin Faults
    PROVE  TypeOK /\ Handover /\ RowsBehindTotals /\ [Next]_vars => RowsBehindTotals'
<1> SUFFICES ASSUME TypeOK, Handover, RowsBehindTotals, [Next]_vars
             PROVE  RowsBehindTotals'
  OBVIOUS
<1>1. ASSUME Quiet PROVE RowsBehindTotals'
  BY <1>1 DEF Quiet, RowsBehindTotals, Running, Keys
<1>2. ASSUME NEW rule \in Rules, Start(rule) PROVE RowsBehindTotals'
  <2>1. current_cycle' = current_cycle /\ accumulator' = Rehydrated(current_cycle, cycle_start')
    BY <1>2 DEF Start, Result, db
  <2>2. ASSUME NEW l \in Keys(current_cycle), current_cycle[l].start = cycle_start'
        PROVE  accumulator'[l] # Nil /\ accumulator'[l].bytes = current_cycle[l].bytes
    BY <2>1, <2>2, RehydratedTotals DEF TypeOK
  <2>. QED BY <2>1, <2>2, TotalsAreNumbers DEF RowsBehindTotals, Keys
<1>3. ASSUME Receive PROVE RowsBehindTotals'
  <2>1. /\ Head(channel) \in Reading
        /\ accumulator' = ingest(accumulator, Head(channel))
        /\ UNCHANGED <<current_cycle, cycle_start>> /\ Running
    BY <1>3 DEF Receive, TypeOK, db, Running
  <2>2. accumulator \in [Luid -> Option(AccEntry)]
    BY DEF TypeOK
  <2>3. ASSUME NEW l \in Keys(current_cycle), current_cycle[l].start = cycle_start
        PROVE  /\ accumulator'[l] # Nil
               /\ \A d \in Dir : current_cycle[l].bytes[d] <= accumulator'[l].bytes[d]
    <3>1. l \in Keys(accumulator)
          /\ \A d \in Dir : current_cycle[l].bytes[d] <= accumulator[l].bytes[d]
      BY <2>1, <2>3 DEF RowsBehindTotals, Keys
    <3>2. /\ accumulator'[l] # Nil
          /\ \A d \in Dir : accumulator[l].bytes[d] <= accumulator'[l].bytes[d]
      BY <2>1, <2>2, <3>1, IngestGrows DEF Keys
    <3>3. accumulator' \in [Luid -> Option(AccEntry)]
      BY <2>1, <2>2, IngestGrows
    <3>4. \A d \in Dir : accumulator'[l].bytes[d] \in Nat
      BY <3>2, <3>3 DEF Keys, Option, AccEntry, Bytes
    <3>. QED BY <3>1, <3>2, <3>4, TotalsAreNumbers
  <2>. QED BY <2>1, <2>3 DEF RowsBehindTotals, Keys
<1>4. ASSUME FlushSome PROVE RowsBehindTotals'
  <2>1. CASE pc' = "down"
    BY <2>1 DEF RowsBehindTotals, Running
  <2>2. CASE pc' # "down"
    <3>1. /\ UNCHANGED <<accumulator, cycle_start>> /\ Running
          /\ \E saved \in SUBSET Keys(accumulator) : current_cycle' = FlushedRows(saved)
      BY <1>4, <2>2 DEF FlushSome, Running
    <3>2. PICK saved \in SUBSET Keys(accumulator) : current_cycle' = FlushedRows(saved)
      BY <3>1
    <3>3. ASSUME NEW l \in Luid, l \in saved
          PROVE  /\ accumulator[l] # Nil
                 /\ \A d \in Dir : current_cycle'[l].bytes[d] <= accumulator[l].bytes[d]
      <4>1. l \in Keys(accumulator) /\ current_cycle'[l].bytes = accumulator[l].bytes
        BY <3>2, <3>3, FlushedRowsType
      <4>. QED BY <4>1, TotalsAreNumbers DEF Keys
    <3>4. ASSUME NEW l \in Luid, l \notin saved
          PROVE  current_cycle'[l] = current_cycle[l]
      BY <3>2, <3>4, FlushedRowsType
    <3>. QED BY <3>1, <3>3, <3>4 DEF RowsBehindTotals, Keys
  <2>. QED BY <2>1, <2>2
<1>5. ASSUME ArchiveSucceeds PROVE RowsBehindTotals'
  BY <1>5 DEF ArchiveSucceeds, RowsBehindTotals, Keys, Empty
<1>6. ASSUME PruneAndAdvance PROVE RowsBehindTotals'
  <2>1. current_cycle' = Empty
    BY <1>6 DEF PruneAndAdvance, Handover
  <2>. QED BY <2>1 DEF RowsBehindTotals, Keys, Empty
<1>7. ASSUME Crash PROVE RowsBehindTotals'
  BY <1>7 DEF Crash, ProcessGone, RowsBehindTotals, Running
<1>. QED BY <1>1, <1>2, <1>3, <1>4, <1>5, <1>6, <1>7, StepsByEffect

\* A row that stays in current_cycle and keeps its cycle keeps its total or
\* raises it: only a flush writes it, with a total that is not behind.
LEMMA RowsOnlyRise ==
    ASSUME TypeOK, RowsBehindTotals, [Next]_vars,
           NEW l \in Keys(current_cycle), l \in Keys(current_cycle)',
           current_cycle'[l].start = current_cycle[l].start, NEW d \in Dir
    PROVE  current_cycle[l].bytes[d] <= current_cycle'[l].bytes[d]
<1>1. current_cycle[l].bytes[d] \in Nat /\ l \in Luid
  BY TotalsAreNumbers DEF Keys
<1>2. CASE current_cycle' = current_cycle
  BY <1>1, <1>2
<1>3. CASE FlushSome
  <2>1. PICK saved \in SUBSET Keys(accumulator) : current_cycle' = FlushedRows(saved)
    BY <1>3 DEF FlushSome
  <2>2. CASE l \in saved
    <3>1. /\ current_cycle'[l].start = cycle_start
          /\ current_cycle'[l].bytes = accumulator[l].bytes
      BY <2>1, <2>2, FlushedRowsType
    <3>2. Running
      BY <1>3 DEF FlushSome, Running
    <3>. QED BY <3>1, <3>2 DEF RowsBehindTotals
  <2>3. CASE l \notin saved
    <3>1. current_cycle'[l] = current_cycle[l]
      BY <1>1, <2>1, <2>3, FlushedRowsType
    <3>. QED BY <1>1, <3>1
  <2>. QED BY <2>2, <2>3
<1>4. CASE ArchiveSucceeds
  BY <1>1, <1>4 DEF ArchiveSucceeds, Keys, Empty
<1>5. Quiet \/ Receive \/ PruneAndAdvance \/ Crash \/ (\E rule \in Rules : Start(rule))
      => current_cycle' = current_cycle
  BY DEF Quiet, Receive, PruneAndAdvance, Crash, Start, db
<1>. QED BY <1>2, <1>3, <1>4, <1>5, StepsByEffect

\* R11: when current_cycle can always be read at start-up, no persisted total
\* of a cycle ever falls.
THEOREM TotalsNeverFall ==
    ASSUME "load" \notin Faults
    PROVE  Spec => PersistedNeverFalls
<1> DEFINE Rise == \A l \in Keys(current_cycle) \cap Keys(current_cycle)' :
                      current_cycle'[l].start = current_cycle[l].start =>
                         \A d \in Dir : current_cycle[l].bytes[d] <= current_cycle'[l].bytes[d]
<1>1. Init => Handover /\ RowsBehindTotals
  BY DEF Init, Handover, NoAdvanceOverRows, RowsBehindTotals, Running
<1>2. TypeOK /\ RowsBehindTotals /\ [Next]_vars => [Rise]_vars
  BY RowsOnlyRise
<1>3. TypeOK /\ Handover /\ RowsBehindTotals /\ [Next]_vars => RowsBehindTotals'
  BY RowsBehindTotalsStep
<1>. QED
  BY <1>1, <1>2, <1>3, InitTypeOK, TypeOKStep, HandoverStep, PTL
  DEF Spec, PersistedNeverFalls

-----------------------------------------------------------------------------
(* LastCycleRetained: what an archive appends, a prune keeps *)

\* A prune of a non-empty history keeps its newest row.
LEMMA NewestKeepsTheLast ==
    ASSUME NEW rows \in Seq(PastRow), NEW keep \in Nat, keep > 0, rows # <<>>
    PROVE  LET kept == Newest(keep, rows)
           IN  kept # <<>> /\ kept[Len(kept)] = rows[Len(rows)]
<1>1. Len(rows) \in Nat /\ Len(rows) > 0
  OBVIOUS
<1>2. CASE Len(rows) <= keep
  BY <1>1, <1>2 DEF Newest
<1>3. CASE ~(Len(rows) <= keep)
  <2> DEFINE m == Len(rows) - keep + 1
             kept == SubSeq(rows, m, Len(rows))
  <2>1. m \in 1..Len(rows) + 1 /\ Len(rows) \in m - 1 .. Len(rows)
    BY <1>1, <1>3
  <2>2. /\ kept \in Seq(PastRow) /\ Len(kept) = keep
        /\ \A i \in 1..Len(kept) : kept[i] = rows[m + i - 1]
    <3>1. /\ kept \in Seq(PastRow)
          /\ Len(kept) = Len(rows) - m + 1
          /\ \A i \in 1..(Len(rows) - m + 1) : kept[i] = rows[m + i - 1]
      BY <1>1, <2>1, SubSeqProperties
    <3>2. Len(rows) - m + 1 = keep
      BY <1>1
    <3>. QED BY <3>1, <3>2
  <2>3. kept[Len(kept)] = rows[Len(rows)]
    BY <1>1, <2>2
  <2>4. kept # <<>>
    <3> HIDE DEF kept
    <3>. QED BY <2>2
  <2>. QED BY <1>3, <2>3, <2>4 DEF Newest
<1>. QED BY <1>2, <1>3

\* A prune that changes a history leaves exactly the number of rows to keep.
LEMMA NewestLength ==
    ASSUME NEW rows \in Seq(PastRow), NEW keep \in Nat, Newest(keep, rows) # rows
    PROVE  Len(Newest(keep, rows)) = keep
<1>1. Len(rows) \in Nat /\ ~(Len(rows) <= keep)
  BY DEF Newest
<1> DEFINE m == Len(rows) - keep + 1
<1>2. m \in 1..Len(rows) + 1 /\ Len(rows) \in m - 1 .. Len(rows)
  BY <1>1
<1>3. Len(SubSeq(rows, m, Len(rows))) = Len(rows) - m + 1
  BY <1>1, <1>2, SubSeqProperties
<1>. QED BY <1>1, <1>3 DEF Newest

RetainsLast(old, new) ==
    /\ old # <<>> /\ HistoryKeep > 0 =>
          /\ new # <<>>
          /\ new[Len(new)] = old[Len(old)] \/ Len(new) = Len(old) + 1
    /\ new # old /\ Len(new) <= Len(old) => Len(new) = HistoryKeep

LEMMA HistoryStep ==
    ASSUME TypeOK, [Next]_vars, NEW l \in Luid
    PROVE  RetainsLast(history[l], history'[l])
<1>1. history[l] \in Seq(PastRow) /\ HistoryKeep \in Nat
  BY BoundsAssumption DEF TypeOK
<1>2. CASE history'[l] = history[l]
  BY <1>1, <1>2 DEF RetainsLast
<1>3. CASE ArchiveSucceeds
  <2> DEFINE past == [start |-> current_cycle[l].start, end |-> CycleEnd,
                      bytes |-> current_cycle[l].bytes]
  <2>1. CASE current_cycle[l] = Nil
    <3>1. history'[l] = history[l]
      BY <1>3, <2>1 DEF ArchiveSucceeds, ArchivedHistory
    <3>. QED BY <1>2, <3>1
  <2>2. CASE current_cycle[l] # Nil
    <3>1. history'[l] = Append(history[l], past)
      BY <1>3, <2>2 DEF ArchiveSucceeds, ArchivedHistory
    <3>2. past \in PastRow
      BY <2>2, CycleEndType DEF TypeOK, Option, Row, PastRow
    <3> HIDE DEF past
    <3>3. Len(history'[l]) = Len(history[l]) + 1 /\ history'[l] # <<>>
      BY <1>1, <3>1, <3>2
    <3>. QED BY <1>1, <3>3 DEF RetainsLast
  <2>. QED BY <2>1, <2>2
<1>4. CASE PruneAndAdvance
  <2>1. history' = PrunedHistory \/ history' = history
    BY <1>4 DEF PruneAndAdvance
  <2>2. CASE history'[l] = Newest(HistoryKeep, history[l])
    BY <1>1, <2>2, NewestKeepsTheLast, NewestLength DEF RetainsLast
  <2>. QED BY <1>2, <2>1, <2>2 DEF PrunedHistory
<1>5. Quiet \/ FlushSome \/ Receive \/ Crash \/ (\E rule \in Rules : Start(rule))
      => history' = history
  BY DEF Quiet, FlushSome, Receive, Crash, ProcessGone, Start, db
<1>. QED BY <1>2, <1>3, <1>4, <1>5, StepsByEffect

\* T-16: the last archived cycle of an adapter survives every prune.
THEOREM HistoryKeepsLastCycle == Spec => LastCycleRetained
<1> DEFINE Retained ==
       \A l \in Luid : LET old == history[l]  new == history'[l] IN
          /\ old # <<>> /\ HistoryKeep > 0 =>
                /\ new # <<>>
                /\ new[Len(new)] = old[Len(old)] \/ Len(new) = Len(old) + 1
          /\ new # old /\ Len(new) <= Len(old) => Len(new) = HistoryKeep
<1>1. TypeOK /\ [Next]_vars => [Retained]_vars
  BY HistoryStep DEF RetainsLast
<1>. QED BY <1>1, InitTypeOK, TypeOKStep, PTL DEF Spec, LastCycleRetained

-----------------------------------------------------------------------------
(* ArchivesTheTail: at "archive" the rows are the totals *)

RowsAreTotals ==
    pc = "archive" => \A l \in Keys(accumulator) :
                         /\ current_cycle[l] # Nil
                         /\ current_cycle[l].bytes = accumulator[l].bytes

LEMMA RowsAreTotalsStep ==
    ASSUME "save" \notin Faults
    PROVE  TypeOK /\ RowsAreTotals /\ [Next]_vars => RowsAreTotals'
<1> SUFFICES ASSUME TypeOK, RowsAreTotals, [Next]_vars PROVE RowsAreTotals'
  OBVIOUS
<1>1. ASSUME FlushSome, pc' = "archive" PROVE RowsAreTotals'
  <2>1. current_cycle' = FlushedRows(Keys(accumulator)) /\ accumulator' = accumulator
    BY <1>1 DEF FlushSome, flush, Saved
  <2>2. ASSUME NEW l \in Keys(accumulator)
        PROVE  current_cycle'[l] # Nil /\ current_cycle'[l].bytes = accumulator[l].bytes
    <3>1. l \in Luid /\ current_cycle'[l].bytes = accumulator[l].bytes
      BY <2>1, FlushedRowsType DEF Keys
    <3>2. current_cycle'[l] = [start |-> cycle_start, bytes |-> accumulator[l].bytes]
      BY <2>1, <3>1 DEF FlushedRows
    <3>3. [start |-> cycle_start, bytes |-> accumulator[l].bytes] \in Row
      BY TotalsAreNumbers DEF TypeOK, Row
    <3>4. current_cycle'[l] \in Row
      BY <3>2, <3>3
    <3>. QED BY <3>1, <3>4, NilIsNothing
  <2>. QED BY <2>1, <2>2 DEF RowsAreTotals, Keys
<1>2. ASSUME Quiet PROVE RowsAreTotals'
  BY <1>2 DEF Quiet, RowsAreTotals, Keys
<1>3. ASSUME pc' # "archive" PROVE RowsAreTotals'
  BY <1>3 DEF RowsAreTotals
<1>4. Receive \/ ArchiveSucceeds \/ PruneAndAdvance \/ Crash
      \/ (\E rule \in Rules : Start(rule)) => pc' # "archive"
  BY DEF Receive, check_rollover, ArchiveSucceeds, PruneAndAdvance, TypeOK, Crash,
         ProcessGone, Start
<1>. QED BY <1>1, <1>2, <1>3, <1>4, StepsByEffect

\* An archive takes the task's latest totals into the history, also those no
\* debounce had flushed, as long as the UPSERTs of the flush before it work.
THEOREM ArchiveTakesTheTail ==
    ASSUME "save" \notin Faults
    PROVE  Spec => ArchivesTheTail
<1> DEFINE Taken ==
       pc = "archive" /\ current_cycle' # current_cycle =>
          \A l \in Keys(accumulator) :
             /\ history'[l] # <<>>
             /\ history'[l][Len(history'[l])].bytes = accumulator[l].bytes
<1>1. ASSUME TypeOK, RowsAreTotals, ArchiveSucceeds, NEW l \in Keys(accumulator)
      PROVE  /\ history'[l] # <<>>
             /\ history'[l][Len(history'[l])].bytes = accumulator[l].bytes
  <2> DEFINE past == [start |-> current_cycle[l].start, end |-> CycleEnd,
                      bytes |-> current_cycle[l].bytes]
  <2>1. l \in Luid /\ current_cycle[l] # Nil /\ current_cycle[l].bytes = accumulator[l].bytes
    BY <1>1 DEF RowsAreTotals, ArchiveSucceeds, Keys
  <2>2. history'[l] = Append(history[l], past) /\ history[l] \in Seq(PastRow)
    BY <1>1, <2>1 DEF ArchiveSucceeds, ArchivedHistory, TypeOK
  <2>3. past \in PastRow /\ past.bytes = accumulator[l].bytes
    BY <1>1, <2>1, CycleEndType DEF TypeOK, Option, Row, PastRow
  <2> HIDE DEF past
  <2>4. history'[l] # <<>> /\ history'[l][Len(history'[l])] = past
    BY <2>2, <2>3
  <2>. QED BY <2>3, <2>4
<1>2. TypeOK /\ RowsAreTotals /\ [Next]_vars => [Taken]_vars
  <2>1. TypeOK /\ [Next]_vars /\ pc = "archive" /\ current_cycle' # current_cycle
        => ArchiveSucceeds
    BY StepsByEffect DEF Quiet, FlushSome, Receive, PruneAndAdvance, Crash, Start
  <2>. QED BY <1>1, <2>1
<1>3. Init => RowsAreTotals
  BY DEF Init, RowsAreTotals
<1>. QED
  BY <1>2, <1>3, InitTypeOK, TypeOKStep, RowsAreTotalsStep, PTL
  DEF Spec, ArchivesTheTail

-----------------------------------------------------------------------------
(* NoPhantomBytes.  Between two looks at an adapter, a direction either     *)
(* counted what it moved or was reset and counts at most what it moved      *)
(* since: the delta add_delta takes is never more than the bytes moved.     *)

\* b was read from the adapter no earlier than a.
Later(a, b) ==
    \A d \in Dir :
       /\ a.moved[d] <= b.moved[d]
       /\ \/ b.count[d] - a.count[d] = b.moved[d] - a.moved[d]
          \/ b.count[d] <= b.moved[d] - a.moved[d]

\* The readings under way are in the order they were taken: after the last
\* ingested one, before what the adapter shows now, and among themselves.
Ordered(queue) ==
    /\ \A l \in Luid : Later(mark[l].last, nic[l])
    /\ \A i \in 1..Len(queue), l \in Luid : queue[i][l] # Nil =>
          /\ Later(mark[l].last, queue[i][l])
          /\ Later(queue[i][l], nic[l])
    /\ \A i, j \in 1..Len(queue), l \in Luid :
          i < j /\ queue[i][l] # Nil /\ queue[j][l] # Nil =>
             Later(queue[i][l], queue[j][l])

InOrder == Ordered(channel)

\* Every total is covered by bytes moved, and a previous counter is the one
\* the mark remembers.
Covered ==
    /\ \A l \in Luid, d \in Dir : archived[l][d] <= mark[l].last.moved[d]
    /\ \A l \in Keys(accumulator) :
          accumulator[l].prev # Nil => accumulator[l].prev = mark[l].last.count
    /\ NoPhantomBytes

AllCounted == InOrder /\ Covered

LEMMA CounterNumbers ==
    ASSUME NEW c \in Counter, NEW d \in Dir
    PROVE  c.count[d] \in Nat /\ c.moved[d] \in Nat
  BY DEF Counter, Bytes

LEMMA LaterReflexive ==
    ASSUME NEW a \in Counter
    PROVE  Later(a, a)
  BY CounterNumbers DEF Later

LEMMA LaterTraffic ==
    ASSUME NEW a \in Counter, NEW b \in Counter, Later(a, b), NEW d \in Dir
    PROVE  Later(a, [count |-> [b.count EXCEPT ![d] = @ + 1],
                     moved |-> [b.moved EXCEPT ![d] = @ + 1]])
<1> DEFINE c == [count |-> [b.count EXCEPT ![d] = @ + 1],
                 moved |-> [b.moved EXCEPT ![d] = @ + 1]]
<1>1. b.count \in Bytes /\ b.moved \in Bytes
  BY DEF Counter
<1>2. ASSUME NEW e \in Dir
      PROVE  /\ a.moved[e] <= c.moved[e]
             /\ \/ c.count[e] - a.count[e] = c.moved[e] - a.moved[e]
                \/ c.count[e] <= c.moved[e] - a.moved[e]
  <2>1. /\ a.count[e] \in Nat /\ a.moved[e] \in Nat
        /\ b.count[e] \in Nat /\ b.moved[e] \in Nat
    BY CounterNumbers
  <2>2. CASE e = d
    <3>1. c.count[e] = b.count[e] + 1 /\ c.moved[e] = b.moved[e] + 1
      BY <1>1, <2>2 DEF Bytes
    <3>. QED BY <2>1, <3>1 DEF Later
  <2>3. CASE e # d
    <3>1. c.count[e] = b.count[e] /\ c.moved[e] = b.moved[e]
      BY <1>1, <2>3 DEF Bytes
    <3>. QED BY <2>1, <3>1 DEF Later
  <2>. QED BY <2>2, <2>3
<1>. QED BY <1>2 DEF Later

LEMMA LaterReset ==
    ASSUME NEW a \in Counter, NEW b \in Counter, Later(a, b)
    PROVE  Later(a, [count |-> Zero, moved |-> b.moved])
<1>1. ASSUME NEW d \in Dir
      PROVE  /\ a.moved[d] <= b.moved[d]
             /\ Zero[d] <= b.moved[d] - a.moved[d]
  BY CounterNumbers DEF Later, Zero
<1>. QED BY <1>1 DEF Later

LEMMA LaterDelta ==
    ASSUME NEW a \in Counter, NEW b \in Counter, Later(a, b), NEW d \in Dir
    PROVE  a.moved[d] + Delta(a.count[d], b.count[d]) <= b.moved[d]
  BY CounterNumbers DEF Later, Delta

-----------------------------------------------------------------------------
(* The readings stay in order *)

LEMMA QueuedReading ==
    ASSUME NEW queue \in Seq(Reading), NEW i \in 1..Len(queue), NEW l \in Luid,
           queue[i][l] # Nil
    PROVE  queue[i][l] \in Counter
  BY DEF Reading, Option

\* A poll adds the newest reading at the end.
LEMMA OrderedAppend ==
    ASSUME TypeOK, NEW queue \in Seq(Reading), Ordered(queue),
           NEW reading \in Reading,
           \A l \in Luid : reading[l] # Nil => reading[l] = nic[l]
    PROVE  Ordered(Append(queue, reading))
<1> DEFINE longer == Append(queue, reading)
<1>1. /\ Len(longer) = Len(queue) + 1 /\ Len(queue) \in Nat
      /\ \A i \in 1..Len(longer) :
            \/ i \in 1..Len(queue) /\ longer[i] = queue[i]
            \/ i = Len(queue) + 1 /\ longer[i] = reading
  OBVIOUS
<1>2. \A l \in Luid : nic[l] \in Counter
  BY DEF TypeOK
<1> HIDE DEF longer
<1>3. \A l \in Luid : Later(mark[l].last, nic[l])
  BY DEF Ordered
<1>4. ASSUME NEW i \in 1..Len(longer), NEW l \in Luid, longer[i][l] # Nil
      PROVE  /\ Later(mark[l].last, longer[i][l])
             /\ Later(longer[i][l], nic[l])
  <2>1. CASE i \in 1..Len(queue) /\ longer[i] = queue[i]
    BY <1>4, <2>1 DEF Ordered
  <2>2. CASE longer[i] = reading
    <3>1. longer[i][l] = nic[l]
      BY <1>4, <2>2
    <3>. QED BY <1>2, <1>3, <3>1, LaterReflexive
  <2>. QED BY <1>1, <2>1, <2>2
<1>5. ASSUME NEW i \in 1..Len(longer), NEW j \in 1..Len(longer), NEW l \in Luid,
             i < j, longer[i][l] # Nil, longer[j][l] # Nil
      PROVE  Later(longer[i][l], longer[j][l])
  <2>1. i \in 1..Len(queue) /\ longer[i] = queue[i]
    BY <1>1, <1>5
  <2>2. CASE j \in 1..Len(queue) /\ longer[j] = queue[j]
    BY <1>5, <2>1, <2>2 DEF Ordered
  <2>3. CASE longer[j] = reading
    <3>1. longer[j][l] = nic[l]
      BY <1>5, <2>3
    <3>. QED BY <1>4, <1>5, <3>1
  <2>. QED BY <1>1, <2>2, <2>3
<1>6. Ordered(longer)
  BY <1>3, <1>4, <1>5 DEF Ordered
<1>. QED BY <1>6 DEF longer

LEMMA TailReadings ==
    ASSUME NEW queue \in Seq(Reading), queue # <<>>
    PROVE  /\ Tail(queue) \in Seq(Reading) /\ Head(queue) = queue[1]
           /\ 1 \in 1..Len(queue)
           /\ \A i \in 1..Len(Tail(queue)) :
                 i + 1 \in 1..Len(queue) /\ Tail(queue)[i] = queue[i + 1]
  OBVIOUS

\* A full channel drops its oldest reading.
LEMMA OrderedTail ==
    ASSUME NEW queue \in Seq(Reading), queue # <<>>, Ordered(queue)
    PROVE  Ordered(Tail(queue))
<1> DEFINE shorter == Tail(queue)
<1>1. \A i \in 1..Len(shorter) : i + 1 \in 1..Len(queue) /\ shorter[i] = queue[i + 1]
  BY TailReadings
<1>2. shorter \in Seq(Reading)
  BY TailReadings
<1> HIDE DEF shorter
<1>3. ASSUME NEW i \in 1..Len(shorter), NEW j \in 1..Len(shorter), NEW l \in Luid,
             i < j, shorter[i][l] # Nil, shorter[j][l] # Nil
      PROVE  Later(shorter[i][l], shorter[j][l])
  <2>1. i + 1 \in 1..Len(queue) /\ j + 1 \in 1..Len(queue) /\ i + 1 < j + 1
    BY <1>1, <1>2, <1>3
  <2>. QED BY <1>1, <1>3, <2>1 DEF Ordered
<1>4. Ordered(shorter)
  BY <1>1, <1>3 DEF Ordered
<1>. QED BY <1>4 DEF shorter

LEMMA PollInOrder ==
    ASSUME TypeOK, InOrder, NEW present \in SUBSET Luid, Poll(present)
    PROVE  InOrder'
<1> DEFINE reading == [l \in Luid |-> IF l \in present THEN nic[l] ELSE Nil]
<1>1. reading \in Reading /\ \A l \in Luid : reading[l] # Nil => reading[l] = nic[l]
  BY DEF Reading, Option, TypeOK
<1>2. channel \in Seq(Reading)
  BY DEF TypeOK
<1>3. CASE Len(channel) < ChannelCap
  <2>1. channel' = Append(channel, reading) /\ UNCHANGED <<nic, mark>>
    BY <1>3 DEF Poll, ghosts
  <2> HIDE DEF reading
  <2>2. Ordered(Append(channel, reading))
    BY <1>1, <1>2, OrderedAppend DEF InOrder
  <2>. QED BY <2>1, <2>2 DEF InOrder, Ordered
<1>4. CASE ~(Len(channel) < ChannelCap)
  <2>1. channel' = Append(Tail(channel), reading) /\ UNCHANGED <<nic, mark>>
    BY <1>4 DEF Poll, ghosts
  <2>2. channel # <<>>
    BY <1>2, <1>4, BoundsAssumption
  <2> HIDE DEF reading
  <2>3. Ordered(Append(Tail(channel), reading))
    BY <1>1, <1>2, <2>2, OrderedTail, TailReadings, OrderedAppend DEF InOrder
  <2>. QED BY <2>1, <2>3 DEF InOrder, Ordered
<1>. QED BY <1>3, <1>4

\* The adapters move on: every reading under way stays behind them.
LEMMA NicInOrder ==
    ASSUME TypeOK, InOrder, UNCHANGED <<channel, mark>>, NEW l \in Luid,
           \A k \in Luid \ {l} : nic'[k] = nic[k],
           \A a \in Counter : Later(a, nic[l]) => Later(a, nic'[l])
    PROVE  InOrder'
<1>1. \A k \in Luid : mark[k].last \in Counter
  BY DEF TypeOK
<1>2. ASSUME NEW i \in 1..Len(channel), NEW k \in Luid, channel[i][k] # Nil
      PROVE  channel[i][k] \in Counter
  BY <1>2, QueuedReading DEF TypeOK
<1>3. ASSUME NEW k \in Luid, NEW a \in Counter, Later(a, nic[k])
      PROVE  Later(a, nic'[k])
  BY <1>3
<1>4. \A k \in Luid : Later(mark[k].last, nic'[k])
  BY <1>1, <1>3 DEF InOrder, Ordered
<1>5. ASSUME NEW i \in 1..Len(channel), NEW k \in Luid, channel[i][k] # Nil
      PROVE  /\ Later(mark[k].last, channel[i][k])
             /\ Later(channel[i][k], nic'[k])
  BY <1>2, <1>3, <1>5 DEF InOrder, Ordered
<1>6. \A i, j \in 1..Len(channel), k \in Luid :
          i < j /\ channel[i][k] # Nil /\ channel[j][k] # Nil =>
             Later(channel[i][k], channel[j][k])
  BY DEF InOrder, Ordered
<1>. QED BY <1>4, <1>5, <1>6 DEF InOrder, Ordered

LEMMA ReceiveInOrder ==
    ASSUME TypeOK, InOrder, Receive
    PROVE  InOrder'
<1> DEFINE queue == Tail(channel)
<1>1. /\ channel' = queue /\ nic' = nic /\ channel # <<>> /\ channel \in Seq(Reading)
      /\ mark' = [l \in Luid |-> IF Head(channel)[l] = Nil THEN mark[l]
                                 ELSE [last |-> Head(channel)[l], run |-> starts]]
  BY DEF Receive, TypeOK
<1>2. /\ Head(channel) = channel[1] /\ 1 \in 1..Len(channel)
      /\ queue \in Seq(Reading)
      /\ \A i \in 1..Len(queue) : i + 1 \in 1..Len(channel) /\ queue[i] = channel[i + 1]
  BY <1>1, TailReadings
<1> HIDE DEF queue
<1>3. Ordered(queue)
  BY <1>1, OrderedTail DEF InOrder, queue
<1>4. ASSUME NEW l \in Luid
      PROVE  \/ channel[1][l] = Nil /\ mark'[l].last = mark[l].last
             \/ channel[1][l] # Nil /\ mark'[l].last = channel[1][l]
  BY <1>1, <1>2
<1>5. \A l \in Luid : Later(mark'[l].last, nic[l])
  BY <1>2, <1>4 DEF InOrder, Ordered
<1>6. ASSUME NEW i \in 1..Len(queue), NEW l \in Luid, queue[i][l] # Nil
      PROVE  Later(mark'[l].last, queue[i][l])
  <2>1. i + 1 \in 1..Len(channel) /\ 1 < i + 1 /\ queue[i] = channel[i + 1]
    BY <1>2
  <2>2. CASE channel[1][l] = Nil
    BY <1>3, <1>4, <1>6, <2>2 DEF Ordered
  <2>3. CASE channel[1][l] # Nil
    <3>1. channel[i + 1][l] # Nil
      BY <1>6, <2>1
    <3>2. \A j \in 1..Len(channel) : 1 < j /\ channel[j][l] # Nil =>
             Later(channel[1][l], channel[j][l])
      BY <1>2, <2>3 DEF InOrder, Ordered
    <3>3. Later(channel[1][l], channel[i + 1][l])
      BY <2>1, <3>1, <3>2
    <3>. QED BY <1>4, <2>1, <2>3, <3>3
  <2>. QED BY <2>2, <2>3
<1>. QED BY <1>1, <1>3, <1>5, <1>6 DEF InOrder, Ordered

LEMMA InOrderStep == TypeOK /\ InOrder /\ [Next]_vars => InOrder'
<1> SUFFICES ASSUME TypeOK, InOrder, [Next]_vars PROVE InOrder'
  OBVIOUS
<1>0. ASSUME UNCHANGED <<nic, channel, mark>> PROVE InOrder'
  BY <1>0 DEF InOrder, Ordered
<1>1. ASSUME NEW l \in Luid, NEW d \in Dir, Traffic(l, d) PROVE InOrder'
  <2>1. nic[l] \in Counter
    BY DEF TypeOK
  <2>2. nic'[l] = [count |-> [nic[l].count EXCEPT ![d] = @ + 1],
                   moved |-> [nic[l].moved EXCEPT ![d] = @ + 1]]
    BY <1>1, <2>1 DEF Traffic, TypeOK, Counter
  <2>3. \A a \in Counter : Later(a, nic[l]) => Later(a, nic'[l])
    BY <2>1, <2>2, LaterTraffic
  <2>4. \A k \in Luid \ {l} : nic'[k] = nic[k]
    BY <1>1 DEF Traffic, TypeOK
  <2>5. UNCHANGED <<channel, mark>>
    BY <1>1 DEF Traffic, ghosts
  <2>. QED BY <2>3, <2>4, <2>5, NicInOrder
<1>2. ASSUME NEW l \in Luid, CounterReset(l) PROVE InOrder'
  <2>1. nic[l] \in Counter
    BY DEF TypeOK
  <2>2. nic'[l] = [count |-> Zero, moved |-> nic[l].moved]
    BY <1>2, <2>1 DEF CounterReset, TypeOK, Counter
  <2>3. \A a \in Counter : Later(a, nic[l]) => Later(a, nic'[l])
    BY <2>1, <2>2, LaterReset
  <2>4. \A k \in Luid \ {l} : nic'[k] = nic[k]
    BY <1>2 DEF CounterReset, TypeOK
  <2>5. UNCHANGED <<channel, mark>>
    BY <1>2 DEF CounterReset, ghosts
  <2>. QED BY <2>3, <2>4, <2>5, NicInOrder
<1>3. ASSUME NEW present \in SUBSET Luid, Poll(present) PROVE InOrder'
  BY <1>3, PollInOrder
<1>4. ASSUME Receive PROVE InOrder'
  BY <1>4, ReceiveInOrder
<1>5. ASSUME UNCHANGED <<nic, mark>>, channel' = <<>> PROVE InOrder'
  BY <1>5 DEF InOrder, Ordered
<1>6. ASSUME NEW rule \in Rules, Start(rule) PROVE InOrder'
  BY <1>5, <1>6 DEF Start
<1>7. ASSUME LastFlush \/ Crash \/ CrashInFlush PROVE InOrder'
  BY <1>5, <1>7 DEF LastFlush, Crash, CrashInFlush, ProcessGone, ghosts
<1>8. ASSUME \/ \E date \in Dates : ClockMoves(date)
             \/ ReceiveLagged \/ DebounceTick \/ Rollover
             \/ FlushAndPublish \/ ExitRequested
      PROVE  InOrder'
  BY <1>0, <1>8 DEF ClockMoves, ReceiveLagged, DebounceTick, Rollover, RolloverFlush,
     ArchiveSucceeds, ArchiveFails, PruneAndAdvance, FlushAndPublish, ExitRequested,
     machine, ghosts
<1>9. CASE UNCHANGED vars
  BY <1>0, <1>9 DEF vars, machine, ghosts
<1>. QED
  BY <1>1, <1>2, <1>3, <1>4, <1>6, <1>7, <1>8, <1>9 DEF Next, Machine, Task

-----------------------------------------------------------------------------
(* The totals stay covered *)

LEMMA CoveredNumbers ==
    ASSUME TypeOK, NEW l \in Luid, NEW d \in Dir
    PROVE  archived[l][d] \in Nat /\ mark[l].last \in Counter
           /\ mark[l].last.moved[d] \in Nat /\ mark[l].last.count \in Bytes
<1>1. archived[l] \in Bytes /\ mark[l].last \in Counter
  BY DEF TypeOK
<1>. QED BY <1>1 DEF Bytes, Counter

\* A reading adds to a total no more than it adds to the bytes moved.
LEMMA AddDeltaCovered ==
    ASSUME TypeOK, Covered, pc # "prune", NEW l \in Luid, NEW d \in Dir,
           NEW reading \in Counter, Later(mark[l].last, reading),
           NEW entry \in AccEntry,
           entry = IF accumulator[l] = Nil THEN NewEntry ELSE accumulator[l]
    PROVE  archived[l][d] + add_delta(entry, reading.count).bytes[d] <= reading.moved[d]
<1>1. /\ archived[l][d] \in Nat /\ mark[l].last.moved[d] \in Nat
      /\ mark[l].last.count[d] \in Nat /\ reading.moved[d] \in Nat
      /\ reading.count[d] \in Nat /\ entry.bytes[d] \in Nat
  <2>1. mark[l].last \in Counter /\ archived[l][d] \in Nat
    BY CoveredNumbers
  <2>2. entry.bytes \in Bytes
    BY DEF AccEntry
  <2>3. entry.bytes[d] \in Nat
    BY <2>2 DEF Bytes
  <2>. QED BY <2>1, <2>3, CounterNumbers
<1>2. archived[l][d] + entry.bytes[d] <= mark[l].last.moved[d]
  <2>1. CASE accumulator[l] = Nil
    <3>1. entry.bytes[d] = 0
      BY <2>1 DEF NewEntry, Zero
    <3>. QED BY <1>1, <3>1 DEF Covered
  <2>2. CASE accumulator[l] # Nil
    BY <2>2 DEF Covered, NoPhantomBytes, Keys
  <2>. QED BY <2>1, <2>2
<1>3. mark[l].last.moved[d] <= reading.moved[d]
  BY DEF Later
<1>4. CASE entry.prev = Nil
  <2>1. add_delta(entry, reading.count).bytes[d] = entry.bytes[d]
    BY <1>4 DEF add_delta
  <2>. QED BY <1>1, <1>2, <1>3, <2>1
<1>5. CASE entry.prev # Nil
  <2>1. entry.prev = mark[l].last.count
    BY <1>5 DEF Covered, Keys, NewEntry
  <2>2. add_delta(entry, reading.count).bytes[d] =
           entry.bytes[d] + Delta(mark[l].last.count[d], reading.count[d])
    BY <1>5, <2>1 DEF add_delta
  <2>3. mark[l].last.moved[d] + Delta(mark[l].last.count[d], reading.count[d])
           <= reading.moved[d]
    BY CoveredNumbers, LaterDelta
  <2>4. Delta(mark[l].last.count[d], reading.count[d]) \in Nat
    BY <1>1 DEF Delta
  <2>. QED BY <1>1, <1>2, <2>2, <2>3, <2>4
<1>. QED BY <1>4, <1>5

LEMMA ReceiveCovered ==
    ASSUME TypeOK, InOrder, Covered, Receive
    PROVE  Covered'
<1> DEFINE head == Head(channel)
<1>1. /\ UNCHANGED <<archived, current_cycle>> /\ pc = "idle" /\ pc' # "prune"
      /\ channel # <<>> /\ channel \in Seq(Reading)
      /\ accumulator' = ingest(accumulator, head)
      /\ mark' = [l \in Luid |-> IF head[l] = Nil THEN mark[l]
                                 ELSE [last |-> head[l], run |-> starts]]
  BY DEF Receive, check_rollover, TypeOK, db
<1>2. head \in Reading /\ head = channel[1] /\ 1 \in 1..Len(channel)
  BY <1>1, TailReadings
<1> HIDE DEF head
<1>3. ASSUME NEW l \in Luid, head[l] # Nil
      PROVE  head[l] \in Counter /\ Later(mark[l].last, head[l])
  BY <1>2, <1>3 DEF Reading, Option, InOrder, Ordered
<1>4. ASSUME NEW l \in Luid
      PROVE  \/ head[l] = Nil /\ mark'[l].last = mark[l].last
             \/ head[l] # Nil /\ mark'[l].last = head[l]
  BY <1>1
<1>5. ASSUME NEW l \in Luid, NEW d \in Dir
      PROVE  /\ mark'[l].last.moved[d] \in Nat
             /\ mark[l].last.moved[d] <= mark'[l].last.moved[d]
  <2>1. mark[l].last.moved[d] \in Nat
    BY CoveredNumbers
  <2>2. CASE head[l] = Nil
    BY <1>4, <2>1, <2>2
  <2>3. CASE head[l] # Nil
    BY <1>3, <1>4, <2>3, CounterNumbers DEF Later
  <2>. QED BY <2>2, <2>3
<1>6. ASSUME NEW l \in Luid
      PROVE  accumulator'[l] =
                IF head[l] = Nil THEN accumulator[l]
                ELSE add_delta(IF accumulator[l] = Nil THEN NewEntry
                               ELSE accumulator[l], head[l].count)
  BY <1>1 DEF ingest
<1>7. ASSUME NEW l \in Luid
      PROVE  (IF accumulator[l] = Nil THEN NewEntry ELSE accumulator[l]) \in AccEntry
  BY NewEntryType DEF TypeOK, Option
<1>8. ASSUME NEW l \in Luid, NEW d \in Dir
      PROVE  archived'[l][d] <= mark'[l].last.moved[d]
  <2>1. archived[l][d] <= mark[l].last.moved[d]
    BY DEF Covered
  <2>. QED BY <1>1, <1>5, <2>1, CoveredNumbers
<1>9. ASSUME NEW l \in Luid, accumulator'[l] # Nil, accumulator'[l].prev # Nil
      PROVE  accumulator'[l].prev = mark'[l].last.count
  <2>1. CASE head[l] = Nil
    BY <1>4, <1>6, <1>9, <2>1 DEF Covered, Keys
  <2>2. CASE head[l] # Nil
    <3>1. head[l].count \in Bytes
      BY <1>3, <2>2 DEF Counter
    <3>2. accumulator'[l].prev = head[l].count
      BY <1>6, <1>7, <2>2, <3>1, AddDeltaGrows
    <3>. QED BY <1>4, <2>2, <3>2
  <2>. QED BY <2>1, <2>2
<1>10. ASSUME NEW l \in Luid, current_cycle[l] # Nil, NEW d \in Dir
       PROVE  archived[l][d] + current_cycle[l].bytes[d] <= mark'[l].last.moved[d]
  <2>1. archived[l][d] + current_cycle[l].bytes[d] <= mark[l].last.moved[d]
    BY <1>10 DEF Covered, NoPhantomBytes, Keys
  <2>2. current_cycle[l].bytes[d] \in Nat
    BY <1>10, TotalsAreNumbers DEF Keys
  <2>. QED BY <1>5, <2>1, <2>2, CoveredNumbers
<1>11. ASSUME NEW l \in Luid, accumulator'[l] # Nil, NEW d \in Dir
       PROVE  archived[l][d] + accumulator'[l].bytes[d] <= mark'[l].last.moved[d]
  <2>1. CASE head[l] = Nil
    <3>1. accumulator[l] # Nil /\ accumulator'[l] = accumulator[l]
      BY <1>6, <1>11, <2>1
    <3>2. archived[l][d] + accumulator[l].bytes[d] <= mark[l].last.moved[d]
      BY <1>1, <3>1 DEF Covered, NoPhantomBytes, Keys
    <3>. QED BY <1>4, <2>1, <3>1, <3>2
  <2>2. CASE head[l] # Nil
    BY <1>1, <1>3, <1>4, <1>6, <1>7, <2>2, AddDeltaCovered
  <2>. QED BY <2>1, <2>2
<1>12. NoPhantomBytes'
  BY <1>1, <1>10, <1>11 DEF NoPhantomBytes, Keys
<1>. QED BY <1>8, <1>9, <1>12 DEF Covered, Keys

LEMMA CoveredStep == TypeOK /\ InOrder /\ Covered /\ [Next]_vars => Covered'
<1> SUFFICES ASSUME TypeOK, InOrder, Covered, [Next]_vars PROVE Covered'
  OBVIOUS
<1>1. ASSUME Quiet PROVE Covered'
  BY <1>1 DEF Quiet, Covered, NoPhantomBytes, Keys
<1>2. ASSUME NEW rule \in Rules, Start(rule) PROVE Covered'
  <2>1. PICK rows \in {current_cycle, Empty}, start \in Date :
           accumulator' = Rehydrated(rows, start)
    <3>1. ASSUME NEW loaded \in BOOLEAN,
                 NEW start \in ResumedStarts(IF loaded THEN current_cycle ELSE Empty, rule)
          PROVE  start \in Date
      <4>1. (IF loaded THEN current_cycle ELSE Empty) \in [Luid -> Option(Row)]
        BY EmptyType DEF TypeOK
      <4>. QED BY <4>1, ResumedTypes, DatesAssumption, RulesAssumption DEF TypeOK, Option
    <3>. QED BY <1>2, <3>1 DEF Start, Result
  <2>2. UNCHANGED <<current_cycle, archived, mark>>
    BY <1>2 DEF Start, db
  <2>3. ASSUME NEW l \in Luid, accumulator'[l] # Nil
        PROVE  /\ accumulator'[l].prev = Nil
               /\ current_cycle[l] # Nil
               /\ accumulator'[l].bytes = current_cycle[l].bytes
    <3>1. /\ rows[l] # Nil /\ rows[l] = current_cycle[l]
          /\ accumulator'[l] = [bytes |-> rows[l].bytes, prev |-> Nil]
      BY <2>1, <2>3 DEF Rehydrated, Keys, Empty
    <3>. QED BY <3>1
  <2>4. NoPhantomBytes'
    BY <2>2, <2>3 DEF Covered, NoPhantomBytes, Keys
  <2>. QED BY <2>2, <2>3, <2>4 DEF Covered, Keys
<1>3. ASSUME Receive PROVE Covered'
  BY <1>3, ReceiveCovered
<1>4. ASSUME FlushSome PROVE Covered'
  <2>1. PICK saved \in SUBSET Keys(accumulator) : current_cycle' = FlushedRows(saved)
    BY <1>4 DEF FlushSome
  <2>2. /\ pc # "prune" /\ UNCHANGED <<archived, mark>>
        /\ accumulator' = accumulator \/ accumulator' = Empty
    BY <1>4 DEF FlushSome
  <2>3. ASSUME NEW l \in Luid, current_cycle'[l] # Nil, NEW d \in Dir
        PROVE  archived[l][d] + current_cycle'[l].bytes[d] <= mark[l].last.moved[d]
    <3>1. CASE l \in saved
      <4>1. l \in Keys(accumulator) /\ current_cycle'[l].bytes = accumulator[l].bytes
        BY <2>1, <3>1, FlushedRowsType
      <4>. QED BY <2>2, <4>1 DEF Covered, NoPhantomBytes
    <3>2. CASE l \notin saved
      <4>1. current_cycle'[l] = current_cycle[l]
        BY <2>1, <3>2, FlushedRowsType
      <4>. QED BY <2>3, <4>1 DEF Covered, NoPhantomBytes, Keys
    <3>. QED BY <3>1, <3>2
  <2>4. \A l \in Luid : accumulator'[l] # Nil => accumulator'[l] = accumulator[l]
    BY <2>2 DEF Empty
  <2>5. NoPhantomBytes'
    BY <2>2, <2>3, <2>4 DEF Covered, NoPhantomBytes, Keys
  <2>. QED BY <2>2, <2>4, <2>5 DEF Covered, Keys
<1>5. ASSUME ArchiveSucceeds PROVE Covered'
  <2>1. /\ UNCHANGED <<accumulator, mark>> /\ current_cycle' = Empty /\ pc' = "prune"
        /\ archived' = [l \in Luid |-> IF l \in Keys(current_cycle)
                                       THEN Plus(archived[l], current_cycle[l].bytes)
                                       ELSE archived[l]]
    BY <1>5 DEF ArchiveSucceeds, task
  <2>2. ASSUME NEW l \in Luid, NEW d \in Dir
        PROVE  archived'[l][d] <= mark[l].last.moved[d]
    <3>1. CASE l \in Keys(current_cycle)
      <4>1. archived'[l][d] = archived[l][d] + current_cycle[l].bytes[d]
        BY <2>1, <3>1 DEF Plus
      <4>. QED BY <3>1, <4>1 DEF Covered, NoPhantomBytes
    <3>2. CASE l \notin Keys(current_cycle)
      BY <2>1, <3>2 DEF Covered
    <3>. QED BY <3>1, <3>2
  <2>3. NoPhantomBytes'
    BY <2>1 DEF NoPhantomBytes, Keys, Empty
  <2>. QED BY <2>1, <2>2, <2>3 DEF Covered, Keys
<1>6. ASSUME PruneAndAdvance \/ Crash PROVE Covered'
  <2>1. UNCHANGED <<current_cycle, archived, mark>> /\ accumulator' = Empty
    BY <1>6 DEF PruneAndAdvance, Crash, ProcessGone, ghosts
  <2>2. NoPhantomBytes'
    BY <2>1 DEF Covered, NoPhantomBytes, Keys, Empty
  <2>. QED BY <2>1, <2>2 DEF Covered, Keys, Empty
<1>. QED BY <1>1, <1>2, <1>3, <1>4, <1>5, <1>6, StepsByEffect

LEMMA InitAllCounted == Init => AllCounted
<1> SUFFICES ASSUME Init PROVE AllCounted
  OBVIOUS
<1> DEFINE zero == [count |-> Zero, moved |-> Zero]
<1>1. zero \in Counter
  BY ZeroType DEF Counter
<1>2. \A l \in Luid : nic[l] = zero /\ mark[l].last = zero
  BY DEF Init
<1>3. Later(zero, zero)
  BY <1>1, LaterReflexive
<1> HIDE DEF zero
<1>4. \A l \in Luid : Later(mark[l].last, nic[l])
  BY <1>2, <1>3
<1>5. InOrder
  BY <1>4 DEF Init, InOrder, Ordered
<1>6. Covered
  <2>1. \A l \in Luid, d \in Dir : archived[l][d] <= mark[l].last.moved[d]
    BY DEF Init, Zero
  <2>2. Keys(current_cycle) = {} /\ Keys(accumulator) = {}
    BY DEF Init, Keys, Empty
  <2>. QED BY <2>1, <2>2 DEF Covered, NoPhantomBytes
<1>. QED BY <1>5, <1>6 DEF AllCounted

\* No byte is counted twice: what the history ever received and what the
\* current cycle shows never exceed the bytes the adapter moved.
THEOREM NothingCountedTwice == Spec => []NoPhantomBytes
<1>1. TypeOK /\ AllCounted /\ [Next]_vars => AllCounted'
  BY InOrderStep, CoveredStep DEF AllCounted
<1>2. AllCounted => NoPhantomBytes
  BY DEF AllCounted, Covered
<1>. QED BY <1>1, <1>2, InitTypeOK, TypeOKStep, InitAllCounted, PTL DEF Spec

=============================================================================
