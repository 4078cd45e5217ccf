----------------------------- MODULE MetricList -----------------------------
(***************************************************************************)
(* The list of metrics in the settings panel (gui/metric_list.rs) and the  *)
(* rows that render_sidebar_mut draws for it (gui/mod.rs).  A metric is    *)
(* listed if the file names it in order; it is drawn if it is listed and   *)
(* its box is checked.  With no order at all, every reading is drawn.      *)
(***************************************************************************)
EXTENDS Naturals, Sequences, SequencesExt, FiniteSets

CONSTANTS
    Metric,         \* names of metrics
    MaxRows,        \* MAX_ROWS, 64
    MaxDrops        \* bound: things the user does to the list

ASSUME MetricListAssumption == IsFiniteSet(Metric) /\ MaxRows \in Nat \ {0} /\ MaxDrops \in Nat

VARIABLES
    order, enabled, \* MetricsConfig
    dropped,        \* where the last drop was released: a name below the list, or "no"
    drops

metricVars == <<order, enabled, dropped, drops>>

\* Lists that name no metric twice.
Lists == UNION {{l \in [1..n -> Metric] : IsInjective(l)} : n \in 0..Cardinality(Metric)}

MetricListInit == order \in Lists /\ enabled \in Lists /\ dropped = "no" /\ drops = 0

-----------------------------------------------------------------------------
(* The panel.                                                              *)

\* Exchanges two rows.
Swapped(list, from, to) ==
    IF to > Len(list) THEN list ELSE [list EXCEPT ![from] = list[to], ![to] = list[from]]

move_metric(list, from, to) ==
    IF from = to \/ to > Len(list)
    THEN list
    ELSE InsertAt(RemoveAt(list, from), to, list[from])

toggle_enabled(name) ==
    IF name \in ToSet(enabled) THEN RemoveFirst(enabled, name) ELSE Append(enabled, name)

Touch == drops < MaxDrops /\ drops' = drops + 1

ToggleMetric ==
    /\ Touch
    /\ \E name \in ToSet(order) : enabled' = toggle_enabled(name)
    /\ dropped' = "no" /\ UNCHANGED order

DropOnRow ==
    /\ Touch
    /\ \E from, to \in DOMAIN order : order' = move_metric(order, from, to)
    /\ dropped' = "no" /\ UNCHANGED enabled

\* The drop zone below the last row stands for the position after it.
DropBelow ==
    /\ Touch
    /\ \E from \in DOMAIN order :
        /\ order' = move_metric(order, from, Len(order) + 1)
        /\ dropped' = order[from]
    /\ UNCHANGED enabled

MetricListNext == ToggleMetric \/ DropOnRow \/ DropBelow

MetricListSpec == MetricListInit /\ [][MetricListNext]_metricVars

-----------------------------------------------------------------------------
(* The rows.                                                               *)

enabled_in_order == SelectSeq(order, LAMBDA name : name \in ToSet(enabled))

FirstRows(rows) == SubSeq(rows, 1, IF Len(rows) < MaxRows THEN Len(rows) ELSE MaxRows)

\* The readings drawn of a batch; readings are <<metric, instance>>.
LiveRows(readings) ==
    LET OfMetric(name) == SelectSeq(readings, LAMBDA r : r[1] = name)
    IN  FirstRows(IF order = <<>> THEN readings
                  ELSE FlattenSeq([i \in DOMAIN enabled_in_order |->
                                        OfMetric(enabled_in_order[i])]))

\* Two sensors for each metric, which interleave.
Batch == LET names == SetToSeq(Metric)
         IN  [i \in 1..2 * Len(names) |-> <<names[1 + (i % Len(names))], i>>]

-----------------------------------------------------------------------------
(* What must hold.                                                         *)

MetricListTypeOK ==
    order \in Lists /\ enabled \in Lists /\ dropped \in Metric \cup {"no"} /\ drops \in 0..MaxDrops

\* Whatever is dragged where, no metric gets lost from the list and none is
\* doubled: a metric that is not in the list cannot be brought back.
ListKeepsItsMetrics ==
    [][Len(order') = Len(order) /\ ToSet(order') = ToSet(order)]_metricVars

\* A drop moves one metric, and the others keep their order.
OthersKeepTheirOrder ==
    [][order # <<>> => \E moved \in ToSet(order) :
        RemoveFirst(order', moved) = RemoveFirst(order, moved)]_metricVars

\* A list decides which readings are drawn and in which order: of two rows, the
\* one whose metric is further up in the list is the first.
RowsFollowTheList ==
    order # <<>> =>
        LET rows == LiveRows(Batch)
            Place(r) == SelectInSeq(order, LAMBDA name : name = r[1])
        IN  /\ \A r \in ToSet(rows) : r[1] \in ToSet(order) \cap ToSet(enabled)
            /\ \A i, j \in DOMAIN rows : i < j => Place(rows[i]) <= Place(rows[j])

\* metric_list::render: a drop below the last row inserts at the end.
DropsAtTheEnd == dropped # "no" => Last(order) = dropped

\* metric_list.rs: an enabled metric that the order does not name is appended.
EnabledIsShown == order # <<>> => ToSet(enabled) \subseteq ToSet(enabled_in_order)
=============================================================================
