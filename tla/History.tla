------------------------------ MODULE History -------------------------------
(***************************************************************************)
(* From the poller's broadcast to the graphs: the readings channel and its *)
(* drain in each frame (AppState in gui/mod.rs), the rolling windows of    *)
(* the sensors (sidebar-domain/src/graph.rs), the sparklines drawn of them *)
(* (gui/sparkline.rs) and the popup with the history of a metric.          *)
(*                                                                         *)
(* A batch of readings is a function from the sensors that answered to     *)
(* values; the number of its tick stands for a value, or NaN.              *)
(***************************************************************************)
EXTENDS Naturals, Sequences, SequencesExt, FiniteSets, FiniteSetsExt

CONSTANTS
    Source,             \* sensors
    MetricOf(_),        \* the kind of a sensor's readings
    Plugged,            \* sets of sensors that a tick may find
    ReadingsCapacity,   \* READINGS_CHANNEL_CAPACITY, 8
    WindowSize,         \* of MetricHistory, 60
    Pixels,             \* widths that a graph is drawn in
    MaxTicks            \* bound: ticks of the poller

ASSUME HistoryAssumption ==
    /\ Plugged \subseteq SUBSET Source
    /\ ReadingsCapacity \in Nat \ {0} /\ WindowSize \in Nat \ {0}
    /\ Pixels \subseteq Nat \ {0} /\ MaxTicks \in Nat

VARIABLES
    ticks,          \* batches sent
    queue,          \* those that the GUI has not read and the channel still holds
    lagged,         \* has the channel dropped one since the last read?
    readings,       \* the snapshot
    traces,         \* MetricHistory: the windows by sensor
    applied,        \* the batches that the GUI has taken
    fresh,          \* the tick of the last of these
    popup,          \* graph_popup_kind, or "none"
    clicked,        \* the sensor whose button opened it
    graph           \* what the last frame drew in the popup, if it is open

historyVars == <<ticks, queue, lagged, readings, traces, applied, fresh, popup, clicked, graph>>

NotANumber == 0
NoGraph == [kind |-> "none", samples |-> <<>>]
NoReadings == [s \in {} |-> NotANumber]

HistoryInit ==
    /\ ticks = 0 /\ queue = <<>> /\ lagged = FALSE
    /\ readings = NoReadings /\ traces = [s \in {} |-> <<>>]
    /\ applied = <<>> /\ fresh = 0
    /\ popup = "none" /\ clicked = "none" /\ graph = NoGraph

-----------------------------------------------------------------------------
(* The channel: a full one drops its oldest batch.                         *)

Send ==
    /\ ticks < MaxTicks /\ ticks' = ticks + 1
    /\ \E found \in Plugged : \E silent \in {{}, found} :
        LET sample == [tick |-> ticks + 1,
                       values |-> [s \in found |-> IF s \in silent THEN NotANumber ELSE ticks + 1]]
            full == Len(queue) = ReadingsCapacity
        IN  /\ queue' = Append(IF full THEN Tail(queue) ELSE queue, sample)
            /\ lagged' = (lagged \/ full)
    /\ UNCHANGED <<readings, traces, applied, fresh, popup, clicked, graph>>

-----------------------------------------------------------------------------
(* Windows.                                                                *)

push(window, value) ==
    Append(IF Len(window) >= WindowSize THEN Tail(window) ELSE window, value)

Window(s) == IF s \in DOMAIN traces THEN traces[s] ELSE <<>>

\* Keeps the windows of sensors that are gone.
RetainsAll(values) == DOMAIN traces \cup DOMAIN values

retain_recent(values) == DOMAIN values

replace_readings(sample) ==
    /\ readings' = sample.values
    /\ traces' = [s \in retain_recent(sample.values) |->
                    IF s \in DOMAIN sample.values THEN push(Window(s), sample.values[s])
                    ELSE Window(s)]
    /\ applied' = Append(applied, sample.values)
    /\ fresh' = sample.tick

\* The latest batch, of which the older ones are not seen.
Take ==
    /\ queue' = <<>>
    /\ IF queue = <<>> THEN UNCHANGED <<readings, traces, applied, fresh>>
       ELSE replace_readings(Last(queue))

\* The read after a dropped batch reports that, and this ends the drain.
drain_broadcast ==
    IF lagged THEN lagged' = FALSE /\ UNCHANGED <<queue, readings, traces, applied, fresh>>
    ELSE Take /\ UNCHANGED lagged

-----------------------------------------------------------------------------
(* Frames.                                                                 *)

\* What the graph buttons of the rows make of the popup.
Asks(kind) ==
    \/ kind = popup /\ UNCHANGED clicked
    \/ \E s \in DOMAIN readings' :
        /\ kind = IF popup = MetricOf(s) THEN "none" ELSE MetricOf(s)
        /\ clicked' = s

IsPresent(kind) == \E s \in DOMAIN readings' : MetricOf(s) = kind

\* The window of some sensor of the kind: they are in a HashMap.
snapshot_for_kind(kind) ==
    LET ofKind == {s \in DOMAIN traces' : MetricOf(s) = kind}
    IN  IF ofKind = {} THEN {<<>>} ELSE {traces'[s] : s \in ofKind}

Frame ==
    /\ drain_broadcast
    /\ \E kind \in {"none"} \cup {MetricOf(s) : s \in Source} :
        /\ Asks(kind)
        /\ IF IsPresent(kind)
           THEN /\ popup' \in {kind, "none"}
                /\ \E samples \in snapshot_for_kind(kind) :
                    graph' = [kind |-> kind, samples |-> samples]
           ELSE popup' = "none" /\ graph' = NoGraph
    /\ UNCHANGED ticks

\* The frame of a hidden window drains twice, in logic and in ui, and draws nothing.
HiddenFrame ==
    /\ lagged' = FALSE /\ Take
    /\ graph' = NoGraph
    /\ UNCHANGED <<ticks, popup, clicked>>

HistoryNext == Send \/ Frame \/ HiddenFrame

HistorySpec == HistoryInit /\ [][HistoryNext]_historyVars

\* eframe calls the app again as long as the window is there.
FramesGoOn == WF_historyVars(Frame \/ HiddenFrame)

FairHistorySpec == HistorySpec /\ FramesGoOn

-----------------------------------------------------------------------------
(* Sparklines, as the sets of the samples that a line is drawn through.    *)

Finite(samples) == {i \in DOMAIN samples : samples[i] # NotANumber}

Stride(samples, width) ==
    LET n == Cardinality(Finite(samples)) IN IF n > width THEN (n + width - 1) \div width ELSE 1

\* How many finite samples are before the i-th.
kept_index(samples, i) == Cardinality({j \in Finite(samples) : j < i})

\* Every so manyth sample, and the last.
Vertices(samples, width) ==
    {i \in Finite(samples) :
        \/ kept_index(samples, i) % Stride(samples, width) = 0
        \/ \A j \in Finite(samples) : j <= i}

render_segments(samples, width) ==
    LET Joined(i, j) == i..j \cup j..i \subseteq Finite(samples)
        kept == Vertices(samples, width)
    IN  {{j \in kept : Joined(i, j)} : i \in kept}

-----------------------------------------------------------------------------
(* What must hold.                                                         *)

HistoryTypeOK ==
    /\ ticks \in 0..MaxTicks /\ fresh \in 0..ticks
    /\ Len(queue) <= ReadingsCapacity /\ lagged \in BOOLEAN
    /\ DOMAIN readings \subseteq Source
    /\ \A s \in DOMAIN traces : Len(traces[s]) <= WindowSize
    /\ popup \in {"none"} \cup {MetricOf(s) : s \in Source}

\* The samples of a sensor since it was last absent, of all batches taken.
Since(s) ==
    LET absent == {i \in DOMAIN applied : s \notin DOMAIN applied[i]}
        present == SubSeq(applied, Max(absent \cup {0}) + 1, Len(applied))
    IN  [i \in DOMAIN present |-> present[i][s]]

\* A sensor has a window as long as it is among the readings, and the window holds
\* its last samples without a seam: a sensor that was unplugged and comes back
\* does not continue the line it left.
WindowsFollowReadings ==
    /\ DOMAIN traces = DOMAIN readings
    /\ \A s \in DOMAIN traces :
        LET all == Since(s)
        IN  traces[s] = SubSeq(all, Max({1, Len(all) - WindowSize + 1}), Len(all))

\* The popup does not stay with a metric that is gone: what it draws ends with a
\* reading that is on the screen.
PopupIsLive ==
    graph # NoGraph =>
        \E s \in DOMAIN readings :
            MetricOf(s) = graph.kind /\ graph.samples # <<>> /\ Last(graph.samples) = readings[s]

\* A sparkline joins no two samples across a gap, leaves no other gap, and
\* reaches from the first sample to the newest however narrow it is.
SparklineIsWhole ==
    \A s \in DOMAIN traces : \A width \in Pixels :
        LET samples == traces[s]
            lines == render_segments(samples, width)
            finite == Finite(samples)
        IN  finite # {} =>
                /\ {Min(finite), Max(finite)} \subseteq UNION lines
                /\ \A l \in lines : Min(l)..Max(l) \subseteq finite
                /\ \A l, m \in lines : l = m \/ ~(Min(l)..Max(m) \subseteq finite /\ Min(l) < Max(m))

\* Whatever the channel drops, the screen keeps catching up with the poller.
EventuallyFresh == []<>(fresh = ticks)

\* drain_broadcast: "the latest message ... or None if the channel is empty/closed"
TakesTheLatest == [][Frame => queue' = <<>>]_historyVars

\* render_sidebar_mut: the button opens "the history graph for this metric"; of two
\* sensors of a kind it is the one whose button was pressed.
PopupIsOfTheRow ==
    graph # NoGraph /\ clicked \in DOMAIN traces /\ MetricOf(clicked) = graph.kind =>
        graph.samples = traces[clicked]

\* render_segments: "at or below the pixel count"
VerticesFitPixels ==
    \A s \in DOMAIN traces : \A width \in Pixels :
        Cardinality(Vertices(traces[s], width)) <= width
=============================================================================
