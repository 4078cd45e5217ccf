------------------------------ MODULE Sensors -------------------------------
(***************************************************************************)
(* The sensor adapters, crates/sidebar-adapter-*: each call of read_all    *)
(* takes a snapshot of its backend and turns it into readings, which the   *)
(* GUI formats by their kind and unit (gui/metric_row.rs).                 *)
(*                                                                         *)
(* A behaviour is the life of one adapter.  What a backend finds is chosen *)
(* anew at every call, from two devices of a kind; numbers are left out,   *)
(* except whether they are finite.  A reading also carries the device it   *)
(* was taken from, which the program does not know.                        *)
(***************************************************************************)
EXTENDS Naturals, FiniteSets

CONSTANT MaxReads   \* bound: samples the disk counters take before they repeat

\* A bound of two or more: a rate has two samples.
ASSUME MaxReadsAssumption == MaxReads \in Nat \ {0, 1}

Adapter == {"sysinfo", "battery", "nvml", "pdh", "net", "ohm"}

VARIABLES
    adapter,        \* whose life this is
    backend,        \* "closed", "open", or for pdh "primed"
    poisoned,       \* has a call unwound while it held the adapter's lock?
    collected,      \* how often the disk counters have been collected
    called,         \* how the last call ended: "none", "returned", "panicked"
    faulted,        \* did the library it calls panic?
    batch,          \* what it returned
    named           \* which device each name has stood for

sensorVars == <<adapter, backend, poisoned, collected, called, faulted, batch, named>>

Slot == 0..1        \* the position of a device in its backend's list

SensorId(category, instance) == [category |-> category, instance |-> instance]

Reading(sensor, kind, unit, device) ==
    [sensor |-> sensor, kind |-> kind, unit |-> unit, device |-> device]

\* The readings of one device: those of its metrics that are finite.
Readings(sensor, units, finite, device) ==
    {Reading(sensor, kind, units[kind], device) : kind \in finite}

-----------------------------------------------------------------------------
(* sysinfo: every core, the package, RAM, volumes by their mount point,    *)
(* processes by their pid.                                                 *)

CoreUnit == [CpuUtilization |-> "Percent", CpuFrequency |-> "Hertz"]
MemoryUnit == [MemoryUsed |-> "Bytes", MemoryTotal |-> "Bytes"]
DiskUnit == [DiskUsed |-> "Bytes", DiskTotal |-> "Bytes"]
ProcessUnit == [ProcessCpuPercent |-> "Percent", ProcessMemoryBytes |-> "Bytes"]

\* The package is the mean of the cores whose utilization is finite.
SysinfoReadings(cores, volumes, processes) ==
    (UNION {Readings(SensorId("cpu/core", i), CoreUnit, cores[i], <<"core", i>>)
            : i \in DOMAIN cores})
    \cup (IF \E i \in DOMAIN cores : "CpuUtilization" \in cores[i]
          THEN {Reading(SensorId("cpu", "package"), "CpuUtilization", "Percent",
                        <<"package">>)}
          ELSE {})
    \cup Readings(SensorId("ram", "package"), MemoryUnit, DOMAIN MemoryUnit, <<"ram">>)
    \cup (UNION {Readings(SensorId("drive", v), DiskUnit, DOMAIN DiskUnit, <<"volume", v>>)
                 : v \in volumes})
    \cup (UNION {Readings(SensorId("process", p), ProcessUnit, processes[p],
                          <<"process", p>>) : p \in DOMAIN processes})
    \cup {Reading(SensorId("uptime", ""), "UptimeSeconds", "Seconds", <<"system">>)}

SysinfoSnapshots ==
    {SysinfoReadings(cores, volumes, processes) :
        cores \in [Slot -> SUBSET DOMAIN CoreUnit],
        volumes \in {{0}, Slot},
        processes \in UNION {[ps -> {DOMAIN ProcessUnit, {"ProcessMemoryBytes"}}]
                             : ps \in {{}, {1}, Slot}}}

-----------------------------------------------------------------------------
(* battery and nvml: devices by their position.  A failing device is an    *)
(* absent member of "finite".                                              *)

BatteryUnit == [BatteryPercent |-> "Percent", BatteryState |-> "Count",
                BatteryPowerRate |-> "Watts"]

GpuUnit == [GpuUtilization |-> "Percent", GpuTemperature |-> "Celsius"]

\* The position in the backend's enumeration, failing batteries included.
BatteryInstance(slot, answered) == slot

\* The state is always reported, the other two when they are finite.
BatteryReadings(finite) ==
    UNION {Readings(SensorId("battery", BatteryInstance(i, DOMAIN finite)), BatteryUnit,
                    finite[i] \cup {"BatteryState"}, <<"battery", i>>)
           : i \in DOMAIN finite}

BatterySnapshots ==
    {BatteryReadings(finite) :
        finite \in UNION {[answered -> SUBSET {"BatteryPercent", "BatteryPowerRate"}]
                          : answered \in SUBSET Slot}}

\* The position among the GPUs of the snapshot, which leaves out those with
\* nothing to report.
GpuInstance(slot, answered) == Cardinality({s \in answered : s < slot})

NvmlReadings(finite) ==
    LET answered == {i \in DOMAIN finite : finite[i] # {}}
    IN  UNION {Readings(SensorId("gpu", GpuInstance(i, answered)), GpuUnit,
                        finite[i], <<"gpu", i>>) : i \in answered}

NvmlSnapshots == {NvmlReadings(finite) : finite \in [Slot -> SUBSET DOMAIN GpuUnit]}

-----------------------------------------------------------------------------
(* pdh: the rates of the physical disks by their PDH instance, merged from *)
(* the arrays of two counters.  A direction missing from its array is 0.   *)

RateUnit == [DiskReadBytesPerSec |-> "Bytes", DiskWriteBytesPerSec |-> "Bytes"]
Total == 2          \* the instance "_Total"

PdhReadings(reads, writes) ==
    UNION {Readings(SensorId("drive", d), RateUnit, DOMAIN RateUnit, <<"disk", d>>)
           : d \in (reads \cup writes) \ {Total}}

PdhSnapshots ==
    {PdhReadings(reads, writes) : reads, writes \in SUBSET (Slot \cup {Total})}

\* Mutant: the first collection is taken for a rate.
AlwaysPrimed == TRUE

Primed == backend = "primed"

-----------------------------------------------------------------------------
(* net: exact counters of every interface that is up and no loopback, by   *)
(* its LUID.                                                               *)

NetUnit == [NetRxBytes |-> "Bytes", NetTxBytes |-> "Bytes"]

NetReadings(rows) ==
    UNION {Readings(SensorId("nic", row.luid), NetUnit, DOMAIN NetUnit,
                    <<"nic", row.luid>>)
           : row \in {r \in rows : r.type # "loopback" /\ r.oper_status = "up"}}

NetSnapshots ==
    {NetReadings({[luid |-> l, type |-> type[l], oper_status |-> status[l]] : l \in Slot}) :
        type \in [Slot -> {"loopback", "ethernet"}], status \in [Slot -> {"up", "down"}]}

-----------------------------------------------------------------------------
(* ohm: the sensor leaves of LibreHardwareMonitor's tree, whose ids are    *)
(* /class/hardware/category/sensor.                                        *)

from_lhm_class ==
    [amdcpu |-> "cpu", gpu |-> "gpu", hdd |-> "disk", mainboard |-> "board", ram |-> "ram"]

\* The kind and unit of a sensor category of a hardware class; what is not
\* listed is skipped.
combine ==
    [temperature |-> [cpu |-> <<"CpuTemperature", "Celsius">>,
                      gpu |-> <<"GpuTemperature", "Celsius">>,
                      disk |-> <<"DiskTemperature", "Celsius">>],
     power |-> [cpu |-> <<"CpuPower", "Watts">>, gpu |-> <<"GpuPower", "Watts">>],
     fan |-> [cpu |-> <<"FanSpeed", "Rpm">>, board |-> <<"FanSpeed", "Rpm">>,
              gpu |-> <<"GpuFanSpeed", "Rpm">>],
     voltage |-> [cpu |-> <<"Voltage", "Volts">>, gpu |-> <<"Voltage", "Volts">>,
                  board |-> <<"Voltage", "Volts">>, ram |-> <<"RamVoltage", "Volts">>],
     clock |-> [cpu |-> <<"CpuBusClock", "Hertz">>, ram |-> <<"RamClock", "Hertz">>]]

LhmClass == DOMAIN from_lhm_class \cup {"unknown"}
LhmCategory == DOMAIN combine \cup {"load"}

\* A leaf: its id (short ids have fewer than four segments), and whether it
\* has a finite value.  A sensor below another sensor is never visited.
LhmSensor ==
    [class : LhmClass, hardware : Slot, category : LhmCategory, sensor : Slot,
     short : BOOLEAN, finite : BOOLEAN, visited : BOOLEAN]

Maps(leaf) ==
    /\ leaf.visited /\ leaf.finite /\ ~leaf.short
    /\ leaf.class \in DOMAIN from_lhm_class
    /\ leaf.category \in DOMAIN combine
    /\ from_lhm_class[leaf.class] \in DOMAIN combine[leaf.category]

\* The instance names the hardware, not the sensor.
map_sensor(leaf) ==
    LET hardware == from_lhm_class[leaf.class]
        pair == combine[leaf.category][hardware]
    IN  Reading(SensorId(hardware, <<hardware, leaf.hardware>>), pair[1], pair[2],
                <<leaf.class, leaf.hardware, leaf.category, leaf.sensor>>)

\* walk_node, of a leaf and the like one beside it.  The error classes of the
\* request all come to no readings.
OhmSnapshots ==
    {{map_sensor(leaf) : leaf \in {l \in {first, [first EXCEPT !.sensor = 1 - @]} : Maps(l)}}
     : first \in LhmSensor}

-----------------------------------------------------------------------------
(* The life of an adapter.                                                 *)

SensorsInit ==
    /\ adapter \in Adapter
    /\ backend \in IF adapter \in {"battery", "nvml", "pdh"} THEN {"closed", "open"} ELSE {"open"}
    /\ poisoned = FALSE
    /\ collected = 0
    /\ called = "none"
    /\ faulted = FALSE
    /\ batch = {}
    /\ named = {}

\* What the backend may find, or nothing when it is closed or its call fails.
Snapshots ==
    CASE adapter = "sysinfo" -> SysinfoSnapshots
      [] adapter = "battery" -> BatterySnapshots \cup {{}}
      [] adapter = "nvml" -> NvmlSnapshots \cup {{}}
      [] adapter = "pdh" -> IF Primed THEN PdhSnapshots ELSE {{}}
      [] adapter = "net" -> NetSnapshots \cup {{}}
      [] adapter = "ohm" -> OhmSnapshots \cup {{}}

\* lock().unwrap_or_else(PoisonError::into_inner)
LockIsTaken == TRUE

\* A name stands for the devices it was given to, whatever the metric.  Those of
\* LibreHardwareMonitor are of hardware, not of the sensors on it.
Names(readings) ==
    IF adapter = "ohm" THEN {} ELSE {<<r.sensor, r.device>> : r \in readings}

ReadsAll ==
    /\ LockIsTaken
    /\ batch' \in IF backend = "closed" THEN {{}} ELSE Snapshots
    /\ named' = named \cup Names(batch')
    /\ called' = "returned"
    /\ faulted' = FALSE
    /\ \/ adapter = "pdh" /\ backend # "closed"
          /\ backend' = "primed"
          /\ collected' = IF collected < MaxReads THEN collected + 1 ELSE collected
       \/ (adapter # "pdh" \/ backend = "closed") /\ UNCHANGED <<backend, collected>>
    /\ UNCHANGED <<adapter, poisoned>>

\* PdhCollectQueryData fails: nothing is collected.
CollectFails ==
    /\ adapter = "pdh"
    /\ backend # "closed"
    /\ LockIsTaken
    /\ batch' = {}
    /\ called' = "returned"
    /\ faulted' = FALSE
    /\ UNCHANGED <<adapter, backend, poisoned, collected, named>>

\* The library panics in the middle of a call, or the lock does at its start.
ReadPanics ==
    /\ called' = "panicked"
    /\ faulted' \in IF LockIsTaken THEN {TRUE} ELSE {FALSE, TRUE}
    /\ poisoned' = TRUE
    /\ batch' = {}
    /\ UNCHANGED <<adapter, backend, collected, named>>

SensorsNext == ReadsAll \/ CollectFails \/ ReadPanics

SensorsSpec == SensorsInit /\ [][SensorsNext]_sensorVars

-----------------------------------------------------------------------------
(* gui/metric_row.rs: the pairs of kind and unit that have a format.  Any  *)
(* other is shown as "--".                                                 *)

Formats ==
    {"CpuFrequency", "GpuFrequency", "CpuBusClock", "RamClock"} \X {"Hertz"}
    \cup {"CpuTemperature", "GpuTemperature", "DiskTemperature"}
         \X {"Celsius", "Fahrenheit", "Kelvin"}
    \cup {"CpuUtilization", "GpuUtilization", "GpuMemoryUtilization", "BatteryPercent",
          "ProcessCpuPercent", "ProcessGpuPercent", "DiskSmartEndurance"} \X {"Percent"}
    \cup {"CpuPower", "GpuPower", "BatteryPowerRate"} \X {"Watts"}
    \cup {"Voltage", "RamVoltage"} \X {"Volts"}
    \cup {"FanSpeed", "GpuFanSpeed"} \X {"Rpm"}
    \cup {"MemoryUsed", "MemoryTotal", "DiskUsed", "DiskTotal", "ProcessMemoryBytes",
          "NetRxBytes", "NetTxBytes", "BandwidthRxBytes", "BandwidthTxBytes"} \X {"Bytes"}
    \cup {"DiskReadBytesPerSec", "DiskWriteBytesPerSec"} \X {"BytesPerSec"}
    \cup {"NetRxErrors", "NetTxErrors", "NetRxPackets", "NetTxPackets"}
         \X {"Count", "PacketsPerSec"}
    \cup {<<"BatteryState", "Count">>, <<"UptimeSeconds", "Seconds">>}

HasFormat(reading) == <<reading.kind, reading.unit>> \in Formats \/ reading.unit = "BitsPerSec"

-----------------------------------------------------------------------------
(* Properties.                                                             *)

\* Type correctness of an adapter's state.
SensorsTypeOK ==
    /\ adapter \in Adapter
    /\ backend \in {"closed", "open", "primed"}
    /\ poisoned \in BOOLEAN
    /\ collected \in 0..MaxReads
    /\ called \in {"none", "returned", "panicked"}
    /\ faulted \in BOOLEAN
    /\ adapter \in {"battery", "nvml"} => \A r \in batch : r.sensor.instance \in Slot

\* No name ever stands for two devices, however the others fail from call to
\* call.  (The GPUs are left to GpuIndexIsStable.)
NamesOneDevice ==
    adapter # "nvml" =>
        \A a, b \in named : a[1] = b[1] => a[2] = b[2]

\* Two readings of one call never have the same name and kind, the key under
\* which the GUI keeps their history and alerts.  (Those of LibreHardwareMonitor
\* are left to SensorIdNamesASensor.)
SameKeySameReading ==
    \A r, s \in batch : r.sensor = s.sensor /\ r.kind = s.kind => r = s
KeysAreUnique == adapter # "ohm" => SameKeySameReading

\* "SensorId - stable identifier for a sensor instance" (domain reading.rs).
SensorIdNamesASensor == adapter = "ohm" => SameKeySameReading

\* Disk rates are only reported from two collections of the same query on: the
\* first has nothing to be the difference to (adapter-pdh backend.rs, primed).
RatesHaveABase == adapter = "pdh" /\ batch # {} => collected >= 2

\* A call panics only when its library does: a panic of an earlier call leaves
\* the adapter usable (G15).
PanicIsNotSticky == called = "panicked" => faulted

\* "adapters should never emit a mismatched kind x unit" (metric_row.rs).
EveryReadingHasAFormat == \A r \in batch : HasFormat(r)

\* Of every adapter but the disk counters, all readings have a format.
OthersHaveAFormat == adapter # "pdh" => EveryReadingHasAFormat

\* "the index is stable within a boot session" (adapter-nvml lib.rs).
GpuIndexIsStable ==
    adapter = "nvml" => \A a, b \in named : a[1] = b[1] => a[2] = b[2]
=============================================================================
